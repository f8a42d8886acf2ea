CONSTANTS
    MaxSeq = 3
    w1 = w1
    Workers <- OneWorker
    StartModes <- Resume
    Faults <- EveryFault
    MaxFaults = 2
SPECIFICATION LiveSpec
CHECK_DEADLOCK FALSE
INVARIANTS
    ExactlyOnce
    LedgerExact
    TransactionsEnd
PROPERTIES
    EventuallyProcessed
