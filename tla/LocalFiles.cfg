SPECIFICATION LocalSpec
CONSTANTS
    a = a
    b = b
    c = c
    f = f
    g = g
    Processes = {p1, p2}
    Strategies = {a, b, c}
    FileOf <- Names
    MaxClock = 1
    Draws = {0, 2}
    MaxRandom = 2
    MaxSeq = 2
    ResetTargets <- Targets
    ReplaceAttempts = 2
    MaxStarts = 3
    MaxFaults = 1
    KeyProcesses = {q1, q2}
    Paths = {x}
    MaxCommands = 4
    MaxKeyFaults = 2
SYMMETRY Symmetry
CHECK_DEADLOCK FALSE
INVARIANTS
    TypeOK
    UlidsOrdered
    CursorHonest
    TempsRemoved
    KeysKept
PROPERTIES
    ImplementsRegister
    NeverSilentlyReset
    CommitEnds
