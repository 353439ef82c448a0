SPECIFICATION Spec
CONSTANTS
    File = {f1, f2}
    Content = {a, b}
    Absent = Absent
    Skipped = Skipped
    Failed = Failed
    NoHash = NoHash
    Reader = {}
    MaxEdits = 3
    LiveEdits = TRUE
    Reverts = FALSE
SYMMETRY Symmetry
VIEW View
INVARIANT
    LabelledIsScanned
