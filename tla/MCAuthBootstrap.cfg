CONSTANTS
    NoToken = NoToken
    Nothing = Nothing
    Accounts = {a1}
    Tokens = {k1, k2, k3}
    MaxCalls = 4
    MaxChanges = 1
SPECIFICATION BootstrapSpec
SYMMETRY MCSymmetry
INVARIANTS
    OneAnswerEverywhere
    LoggedOutTabIsEmpty
