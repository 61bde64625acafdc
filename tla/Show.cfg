SPECIFICATION FairSpec
CONSTANTS
    GPU = {gpu0, gpu1}
    gpu0 = gpu0
    gpu1 = gpu1
    GateOwner = gpu1
    Observed = {gpu1}
    None = None
    PresetCount = 3
    Losable = {"play"}
    MaxDwells = 2
    MaxNexts = 1
    MaxStops = 1
    MaxFailures = 1
    MaxLosses = 1
INVARIANTS
    TypeOK
    GateAfterReady
    HeldUntilBooted
    RefusedOnlyAfterCut
    Agreement
PROPERTIES
    Repaired
CHECK_DEADLOCK FALSE
