SPECIFICATION Spec
CONSTANTS
    FullInterval = 2
    UpgradeInterval = 2
    MaxStamp = 3
    MaxCommits = 2
    MaxFaults = 2
INVARIANTS
    WatcherIsRead
    SnapshotVouches
    GitMissesNothingElse
PROPERTIES
    ChangesGetIndexed
    GitComesBack
