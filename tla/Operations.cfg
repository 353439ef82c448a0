SPECIFICATION OpsSpec
CONSTANTS
    MaxRevision = 2
    MaxDirt = 1
    None = None
    Version <- MCVersion
    Current <- MCCurrent
    MaxUpdates = 3
    NoFile = NoFile
    Legacy = {l1, l2}
    NoTarget = NoTarget
    MaxStarts = 2
    Replies <- AgentReplies
    MaxIters = 3
    MaxTurns = 3
    MaxAttempts = 2
    TopK = 2
    Unit = 60
    Proc = {p1, p2}
SYMMETRY Processes
\* Every command is over after a bounded number of them.
CHECK_DEADLOCK FALSE
INVARIANTS
    CoherentImportIsExact
    ImageHasItsOwnJournal
    
    PutAwayWhenMigrated
    DamageIsSeen
    CallsAreAnswered
    AnswerIsJustified
