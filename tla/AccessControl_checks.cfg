SPECIFICATION Spec
CONSTANTS
    Calls = {c1, c2}
    Limit = 2
    MaxCount = 3
    Errors = {TRUE, FALSE}
    Blockable = TRUE
    MaxResets = 1
SYMMETRY Symmetry
INVARIANT TypeOK
INVARIANT BlockStays
PROPERTY DeletedGrantsNothing
