SPECIFICATION Spec
CONSTANTS
    Project = {p1, p2}
    QN = {a, b}
    Label = {"Function"}
    File = {f, g}
    Type = {"CALLS"}
    None = None
    MaxId = 3
    Chunk = 2
    Shapes <- MCShapes
SYMMETRY Symmetry
CHECK_DEADLOCK FALSE
INVARIANTS
    NothingDangles
    EdgesJoinWhatWasMeant
PROPERTIES
    LossIsReported
