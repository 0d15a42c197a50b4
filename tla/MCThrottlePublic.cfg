CONSTANTS
    Callers = {c1}
    Queries = {q1}
    NoQuery = NoQuery
    Provider = "public_search"
    Backends = 2
    MaxAttempts = 1
    Cost = 2
    Configured = 2
    MinRate = 1
    Burst = 1
    BackoffNum = 1
    BackoffDen = 2
    RecoverNum = 5
    RecoverDen = 4
    SleepCap = 3
    MaxSearches = 2
SPECIFICATION Spec
CHECK_DEADLOCK FALSE
PROPERTIES
    ThrottleSlows
