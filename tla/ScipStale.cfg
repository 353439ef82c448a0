SPECIFICATION Spec
CONSTANTS
    Nil = Nil
    Rows = 2
    CountCap = 20
    Unbounded = 3
    Fold <- MCFold
    None = None
    BFSCap = 9
    CycleCap = 8
    SurfaceCap = 2
    NoValue = NoValue
    ReadLines = 3
    ReadBytes = 15
    HintLines = 2
    FastSize = 2
    JSONSize = 1
    Absent = Absent
    ScanAll = 9
    Everything = 5
    Headroom = 4
    NoDomain = NoDomain
    Unnamed = Unnamed
    LongWords = {"load", "all"}
CHECK_DEADLOCK FALSE
INVARIANT
    StaleIndexKeepsEdges
