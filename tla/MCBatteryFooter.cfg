SPECIFICATION Spec
CONSTANTS
    Pack = {P1, P2}
    MaxIntervals = 2
    PointCount = 1
    MaxRecords = 8
    RecordsPerWork = 4
    MaxSession = 2
    MaxFaults = 1
SYMMETRY PackSymmetry
INVARIANT FooterOnce
