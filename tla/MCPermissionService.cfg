CONSTANTS
    manage = manage
    view = view
    edit = edit
    dropped = dropped
    NoSaver = NoSaver
    Manage = manage
    Root = 1
    UserIds = {1, 2, 3}
    Savers = {s1, s2}
    Codes <- MCCodes
    Catalog <- MCCatalog
    DependsOn <- MCDependsOn
    Sensitive <- MCSensitive
    Seed <- MCSeed
    Requests <- MCRequests
    MaxSaves = 2
SPECIFICATION FairSpec
INVARIANTS
    Isolation
    GrantsClosed
    RootKeepsManage
    AuditExplainsGrants
    OnlyRootMovesManage
PROPERTIES
    SavesFinish
    ImplementsRegister
CHECK_DEADLOCK FALSE
