SPECIFICATION Spec
CONSTANTS
    Creates = {c1, c2, c3, c4}
    Readers = {}
    Revokers = {}
    Recipients = {r1}
    Spellings = {low}
    Canonical = low
    MaxRetries = 1
    MaxPerHour = 1
    MaxPerDay = 2
    HoursPerDay = 2
    LastHour = 2
    MaxExpired = 0
    MaxInFlight = 2
SYMMETRY Symmetry
INVARIANT RateOvershootBounded
