CONSTANTS
    h = h
    a = a
    b = b
    t1 = t1
    None = None
    Node = {h, a, b}
    Topic = {t1}
    Link <- MCLink
    Interest <- MCInterest
    Source <- MCSource
    Settled <- MCSettled
    Fragile <- MCFragile
    Restarts = {a, h}
    InitiallyUp <- MCLink
    SlotCount = 2
    QueueDepth = 2
    MaxChanges = 2
    MaxPublishes = 1
SPECIFICATION FairSpec
INVARIANTS TypeOK AtMostOnce ReachesListeners
PROPERTY Repaired
CHECK_DEADLOCK FALSE
