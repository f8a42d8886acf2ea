CONSTANTS
    MaxSeq = 2
    w1 = w1
    Workers <- OneWorker
    StartModes <- Replay
    Faults <- Stopped
    MaxFaults = 1
SPECIFICATION Spec
CHECK_DEADLOCK FALSE
INVARIANTS
    ExactlyOnce
