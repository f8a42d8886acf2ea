CONSTANTS
    MaxSeq = 3
    PageSize = 2
    ServerCaps = {1, 2}
    MaxBuffer = 1
    GapFillRounds = 2
    h1 = h1
    h2 = h2
    Handlers <- TwoHandlers
    CloseJoins = TRUE
    Reuse = TRUE
    Faults <- EveryFault
    MaxFaults = 2
SPECIFICATION Spec
CHECK_DEADLOCK FALSE
INVARIANTS
    OneDeliverer
    NoFrameSlips
PROPERTIES
    InOrder
    ImplementsPromise
