CONSTANTS
    NoSnapshot = NoSnapshot
    NoProc = NoProc
    Runner = Runner
    Platforms = {1, 2}
    Procs = {p1, p2}
    Sizes = {1, 3}
    MinRatioPercent = 50
    MaxFetches = 2
    MaxRounds = 2
SPECIFICATION RoundFairSpec
INVARIANTS
    NobodyRefused
    ForeignDatabaseUntouched
    FailureKeepsTtl
    OneProcessPerPlatform
PROPERTIES
    ImplementsBoard
    LockIsReleased
CHECK_DEADLOCK FALSE
