SPECIFICATION Spec
CONSTANTS
    Users = {u1, u2}
    Calls = {c1, c2}
    RefreshLife = 2
    LastSecond = 2
SYMMETRY Symmetry
INVARIANT TypeOK
INVARIANT QuietMeansDead
PROPERTY ImplementsService
