CONSTANTS
    Callers = {c1, c2}
    Queries = {q1}
    NoQuery = NoQuery
    Provider = "raising"
    Backends = 1
    MaxAttempts = 2
    Cost = 4
    Configured = 4
    MinRate = 1
    Burst = 1
    BackoffNum = 1
    BackoffDen = 2
    RecoverNum = 5
    RecoverDen = 4
    SleepCap = 3
    MaxSearches = 2
SPECIFICATION FairSpec
CHECK_DEADLOCK FALSE
INVARIANTS
    TypeOK
    PermitsWithinRate
PROPERTIES
    ThrottleSlows
    RateIsEarned
    SearchReturns
