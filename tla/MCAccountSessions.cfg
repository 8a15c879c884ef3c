CONSTANTS
    manage = manage
    force = force
    dropped = dropped
    NoSaver = NoSaver
    NoToken = NoToken
    Nobody = Nobody
    Manage = manage
    ForceLogoutCode = force
    EditCode = force
    Root = 1
    UserIds = {1, 2}
    Accounts = {1, 2}
    Savers = {s1}
    Workers = {w1}
    Logins = {l1, l2}
    Tokens = {t1, t2}
    Codes <- MCCodes
    Catalog <- MCCatalog
    Sensitive <- MCCatalog
    DependsOn <- MCDependsOn
    Seed <- MCSeed
    Requests <- MCRequests
    MaxSaves = 1
    MaxRequests = 1
SPECIFICATION SessionsSpec
SYMMETRY MCSymmetry
INVARIANTS
    AckedEndIsFinal
    LiveSessionsExpire
PROPERTY RootSessionIsItsOwn
CHECK_DEADLOCK FALSE
