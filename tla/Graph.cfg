SPECIFICATION RunsSpec
CONSTANTS
    None = None
    File = {1, 2, 3}
    Module <- MCModule
    Name = {"f", "c"}
    Callable = {"f"}
    Layouts <- MCLayouts
    Contents <- MCContents
    Every = 2
    Cap = 2
    MaxEdits = 4
    Project = {p1, p2}
    Question = {q1, q2}
    Asker = {a1}
    Searcher = {s1, s2}
    NoProject = NoProject
    CacheSize = 2
    TTL = 0
    MaxAttempts = 2
    MaxRuns = 2
    MaxTime = 1
SYMMETRY Alike
\* A search and the run it waits for may wait for each other for good.
CHECK_DEADLOCK FALSE
INVARIANTS
    NodesMatchRebuild
    DriftIsCounted
    SearchesReadTheirProject
    CachesAreCurrent
PROPERTIES
    CallsSurvive
    ResolvedMatchesRebuild
