CONSTANTS
    p1 = p1
    p2 = p2
    i1 = i1
    i2 = i2
    Producers <- TwoProducers
    SharedWithResend <- OneProducer
    Intents <- TwoIntents
    MaxDay = 2
    MaxAttempts = 2
    Faults <- EveryFault
    MaxFaults = 1
SPECIFICATION LiveSpec
INVARIANTS
    TypeOK
    NothingLost
    OnceOnly
    SuspensionEnds
PROPERTIES
    EventuallyAccepted
