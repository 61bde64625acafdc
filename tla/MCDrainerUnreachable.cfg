SPECIFICATION Spec
CONSTANTS
    a = a
    x = x
    y = y
    z = z
    None = None
    TransportCount = 1
    Local <- OneLocal
    Remote <- OneRemote
    SlotCount = 2
    QueueDepth = 2
    WireDepth = 1
    IngressRecords = 3
    MaxArrivals = 2
    MaxFlaps = 0
INVARIANTS
    PollIntoReturns
CHECK_DEADLOCK FALSE
