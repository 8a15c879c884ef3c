CONSTANTS
    NoTimer = NoTimer
    Marks = {TRUE, FALSE}
    Parts = {operations, announcements}
    MaxGenerations = 8
    OperationsPart = operations
    MaxSafeInteger = 3
    OperationKeys = {1, 2}
    NoOperation = NoOperation
    Times <- AllTimes
    Snapshots <- AllSnapshots
    Grace = 1
    History = 2
    Announcements = {a, b}
    NoDetail = NoDetail
SPECIFICATION MCSpec
INVARIANTS
    OneRoundAtATime
    PollingGoesOn
    PollingFollowsPage
    ManualRoundsCount
    RadarShowsTheNext
    CalibrationIsNotLost
    DrawerTellsTheTruth
PROPERTY ManualRefreshEnds
CHECK_DEADLOCK FALSE
