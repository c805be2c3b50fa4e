SPECIFICATION FairSpec
CONSTANTS
    Creates = {c1, c2}
    Readers = {}
    Revokers = {}
    Recipients = {r1}
    Spellings = {low}
    Canonical = low
    MaxRetries = 3
    MaxPerHour = 1
    MaxPerDay = 1
    HoursPerDay = 1
    LastHour = 0
    MaxExpired = 0
    MaxInFlight = 2
PROPERTY CreateAnswered
