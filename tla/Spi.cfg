CONSTANTS
    None = None
    MasterWrite = {1, 2}
    SlaveWrite = {3}
    QueueDepth = 2
    PendingDepth = 2
    SlotData = 1
    SlotMod = 6
    FrameMod = 6
    Fault = {"toMaster", "toSlave", "window", "bus", "reboot"}
    MaxFaults = 1
SPECIFICATION FairSpec
INVARIANTS TypeOK CompletedOnce DeliveredOnce AckedMeansDelivered
CHECK_DEADLOCK FALSE
PROPERTIES Recovers
