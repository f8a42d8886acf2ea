CONSTANTS
    MaxSeq = 3
    PageSize = 2
    ServerCaps = {2}
    MaxBuffer = 2
    GapFillRounds = 2
    h1 = h1
    h2 = h2
    Handlers <- OneHandler
    CloseJoins = TRUE
    Reuse = FALSE
    Faults <- Callback
    MaxFaults = 1
SPECIFICATION LiveSpec
CHECK_DEADLOCK FALSE
PROPERTIES
    LockReleased
