CONSTANTS
    None = None
    NoBound = None
    Policies <- MCPolicies
    BaseDelay = 1
    MaxDelay = 4
    MaxExponent = 3
    MaxRetryAfter = 6
    Hints <- MCHints
    LargestFloat = 10
    RequestTime = 2
    Slice = 3
    MaxOutage = 12
SPECIFICATION Spec
CHECK_DEADLOCK FALSE
INVARIANTS
    WithinBounds
    RidesOut
    StopHeard
