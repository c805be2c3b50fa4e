SPECIFICATION Spec
CONSTANTS
    Creates = {c1}
    Readers = {g1}
    Revokers = {v1}
    Recipients = {r1}
    Spellings = {low, mixed}
    Canonical = low
    MaxRetries = 2
    MaxPerHour = 1
    MaxPerDay = 1
    HoursPerDay = 1
    LastHour = 0
    MaxExpired = 1
    MaxInFlight = 1
SYMMETRY Symmetry
INVARIANT TypeOK
INVARIANT DoubledOnlyIfUnsure
INVARIANT SuccessIsOnChain
INVARIANT NoStaleFill
INVARIANT StaleOnlyIfRaced
PROPERTY ImplementsRegistry
