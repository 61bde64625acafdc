CONSTANTS
    m1 = m1
    m2 = m2
    m3 = m3
    m4 = m4
    runner = runner
    link1 = link1
    link2 = link2
    None = None
    Empty = Empty
    Key = {m1, m2, m3, m4}
    Task = {runner, link1, link2}
    Runner = runner
    PayloadSize <- MCPayloadSize
    HeaderSize = 1
    RecordCount = 2
    BufferSize = 10
    SlotCount = 3
    SpanCount = 4
SPECIFICATION Spec
SYMMETRY MCSymmetry
INVARIANTS TypeOK Tiled Reclaimed AccessImpliesValidation
PROPERTY ImplementsFrameStore
