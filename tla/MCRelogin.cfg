CONSTANTS
    NoToken = NoToken
    Nothing = Nothing
    Accounts = {a1}
    Tokens = {k1, k2}
    MaxCalls = 3
    MaxChanges = 1
SPECIFICATION BootstrapSpec
SYMMETRY MCSymmetry
INVARIANT ReloginTakesEffect
