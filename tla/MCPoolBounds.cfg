CONSTANTS
    r1 = r1
    r2 = r2
    Rows = {r1, r2, r3}
    Person <- People
    Urls = {u1}
    NoUrl = NoUrl
    CompanyRoutes = {}
    Filtered = {r2}
    MaxAttempts = 2
    Workers = {w1}
    QueueCap = 1
    BatchSize = 3
    Limit = NoLimit
    NoLimit = NoLimit
    Target = 1
    ClaimFilters <- AnyRow
    Commands = {"suppress", "retry", "reset"}
    MaxRuns = 2
    MaxFaults = 0
    MaxCommands = 1
    NoRow = NoRow
SPECIFICATION FairSpec
INVARIANT TombstoneSticks
PROPERTY PoolTerminates
