CONSTANTS
    p1 = p1
    p2 = p2
    i1 = i1
    i2 = i2
    Producers <- OneProducer
    SharedWithResend <- NoProducer
    Intents <- TwoIntents
    MaxDay = 1
    MaxAttempts = 1
    Faults <- NoFault
    MaxFaults = 0
SPECIFICATION Spec
INVARIANTS
    NeverLost
