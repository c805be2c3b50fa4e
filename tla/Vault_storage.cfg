SPECIFICATION Spec
CONSTANTS
    Calls = {c1}
    Documents = 2
    Reads = {r1, r2}
    Gateways = 2
    MaxSize = 1
    KeyIds = {k1, k2}
    Generated = {k2}
    Boxes = {b1}
    KeysMax = 3
SYMMETRY Symmetry
INVARIANT TypeOK
INVARIANT StoredWhole
 
INVARIANT Recoverable
