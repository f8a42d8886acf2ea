CONSTANTS
    MaxSeq = 3
    PageSize = 2
    ServerCaps = {1, 2}
    StartModes <- EveryStart
    MaxDisruptions = 2
SPECIFICATION StoppableSpec
INVARIANTS
    TypeOK
    NoLoss
    BacklogDrained
    RedeliveryWindow
PROPERTIES
    CursorMonotonic
    InOrder
    ImplementsPromise
    StopEnds
    EventuallyHandled
