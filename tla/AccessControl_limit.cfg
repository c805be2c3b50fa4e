SPECIFICATION Spec
CONSTANTS
    Calls = {c1, c2}
    Limit = 2
    MaxCount = 3
    Errors = {FALSE}
    Blockable = FALSE
    MaxResets = 0
INVARIANT LimitBlocks
