CONSTANTS
    r1 = r1
    r2 = r2
    Runner = {r1, r2}
    AutoRestart = {r1}
    ManagedMax = 2
    MaxTasks = 1
    MaxEnds = 1
SPECIFICATION Spec
CHECK_DEADLOCK FALSE
INVARIANT ClosedMeansStopped
