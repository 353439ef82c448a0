SPECIFICATION Spec
CONSTANTS
    File = {f1, f2}
    Content = {a, b}
    Absent = Absent
    Skipped = Skipped
    Failed = Failed
    NoHash = NoHash
    Reader = {r1}
    MaxEdits = 3
    LiveEdits = FALSE
    Reverts = FALSE
SYMMETRY Symmetry
VIEW View
CONSTRAINTS
    OneSkip
    LastEditAlone
INVARIANTS
    LabelledIsScanned
    FailClosed
PROPERTY
    EvidenceContractHolds
