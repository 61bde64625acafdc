CONSTANTS
    r1 = r1
    Runner = {r1}
    AutoRestart = {r1}
    ManagedMax = 1
    MaxTasks = 2
    MaxEnds = 2
SPECIFICATION FairSpec
CHECK_DEADLOCK FALSE
INVARIANTS TypeOK StorageSafe NoRestartOnceAsked
PROPERTY StoppedIsReaped
