CONSTANTS
    r1 = r1
    Runner = {r1}
    AutoRestart = {r1}
    ManagedMax = 2
    MaxTasks = 2
    MaxEnds = 0
SPECIFICATION Spec
CHECK_DEADLOCK FALSE
INVARIANT ExclusiveStack
