SPECIFICATION FairSpec
CONSTANTS
    a = a
    x = x
    y = y
    z = z
    None = None
    TransportCount = 2
    Local <- OneLocal
    Remote <- ThreeRemote
    SlotCount = 2
    QueueDepth = 2
    WireDepth = 1
    IngressRecords = 3
    MaxArrivals = 3
    MaxFlaps = 1
CONSTRAINTS
    NamedInOrder
    ThirdFrame
INVARIANTS
    TypeOK
    OwnedOnce
    PendingMatchesWork
    WritesAwaited
    RunnerNeverBlocks
    NoRejection
PROPERTIES
    ImplementsRetention
    EventuallyReleased
CHECK_DEADLOCK FALSE
