CONSTANTS
    c1 = c1
    c2 = c2
    Subs <- TwoSubs
    MaxSignals = 2
    MaxSenders = 2
    Resenders <- CommandLine
    MaxFaults = 2
SPECIFICATION LiveSpec
INVARIANTS
    ReadsPlaintext
    StoresCiphertext
    NeverTrapped
    NothingSkipped
PROPERTIES
    EventuallyRead
