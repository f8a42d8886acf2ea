CONSTANTS
    c1 = c1
    c2 = c2
    Subs <- TwoSubs
    MaxSignals = 1
    MaxSenders = 1
    Resenders <- OwnPublisher
    MaxFaults = 1
SPECIFICATION Spec
CHECK_DEADLOCK FALSE
INVARIANTS
    ReadsPlaintext
