CONSTANTS
    NoSnapshot = NoSnapshot
    NoProc = NoProc
    Runner = Runner
    Platforms = {1, 2}
    Procs = {p1, p2}
    Sizes = {1, 3}
    MinRatioPercent = 50
    MaxFetches = 2
    MaxRounds = 1
SPECIFICATION RoundSpec
CHECK_DEADLOCK FALSE
INVARIANT NoDetachedChild
