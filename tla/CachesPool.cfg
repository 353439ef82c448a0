SPECIFICATION CachesSpec
CONSTANTS
    Project = {p1}
    Question = {q}
    Asker = {a1}
    Searcher = {s1}
    NoProject = NoProject
    CacheSize = 1
    TTL = 0
    MaxAttempts = 2
    MaxRuns = 2
    MaxTime = 0
CHECK_DEADLOCK FALSE
INVARIANTS
    NoDeadlockOnPool
