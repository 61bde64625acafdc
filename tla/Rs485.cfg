CONSTANTS
    mw = mw
    mv = mv
    sx = sx
    None = None
    MasterWrite = {mw, mv}
    MasterExchange = {}
    SlaveWrite = {}
    SlaveExchange = {sx}
    QueueSize = 2
    SeqMod = 4
    RxSize = 3
    MaxMissed = 3
    Fault = {"lose", "header", "payload", "late", "uart", "stall", "reboot"}
    MaxFaults = 1
SPECIFICATION FairSpec
INVARIANTS TypeOK CompletedOnce AckedMeansDelivered NoCollision
PROPERTY Recovers
