SPECIFICATION Spec
CONSTANTS
    Users = {u1, u2}
    Sessions = {s1}
    Confidences = {75, 76, 80, 81, 85, 86, 90, 91}
    Deployments <- AllDeployments
    Ips = {a1}
    MaxCounted = 2
    KycMax = 1
    OpMax = 1
    Deliveries = {d1, d2}
    HealthChecks = {h1, h2}
    Organizations = {o1, o2}
    Members = {m1, m2}
    Projects = {p1}
    Keys = {k1}
    Validations = {v1, v2}
    RateLimits = {0, 1}
    DefaultLimit = 2
    Emails = {e1, e2}
    Wallets = {w1}
    Calls = {c1, c2, c3}
    SchemaIds = {i1, i2}
    DefaultSchema = i1
    SchemaCalls = {r1}
    Texts <- SomeTexts
    BatchInputs <- SomeInputs
    BatchSize = 2
    MaxAttempts = 2
    MaxBatches = 3
INVARIANT TypeOK
INVARIANT OwnerIsCaller
INVARIANT CompletedIffClean
INVARIANT RefusedStaysPending
INVARIANT ActiveByConsent
INVARIANT WalletLoginStable
INVARIANT CleanExit
INVARIANT SchemaAnswers
INVARIANT WholeBatches
PROPERTY SoleShutdownExits
PROPERTY RevokedForGood
CHECK_DEADLOCK FALSE
