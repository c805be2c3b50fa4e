SPECIFICATION Spec
CONSTANTS
    Users = {u1}
    Calls = {c1}
    RefreshLife = 2
    LastSecond = 2
INVARIANT RevokedIsFinal
