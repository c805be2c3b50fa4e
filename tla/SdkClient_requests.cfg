SPECIFICATION FairSpec
CONSTANTS
    Requests = {r1, r2}
    Logins = {r1}
    Tokens = {t1, t2}
    Kept = {t1}
    MaxAttempts = 2
    NoToken = NoToken
INVARIANT TypeOK
INVARIANT RepeatedOnlyIfUnsure
INVARIANT TokenInUse
PROPERTY NothingSentAfterTimeout
PROPERTY Settles
CHECK_DEADLOCK FALSE
