CONSTANTS
    r1 = r1
    r2 = r2
    Rows = {r1, r2, r3, r4, r5}
    Person <- People
    Urls = {u1}
    NoUrl = NoUrl
    CompanyRoutes = {ir}
    Filtered = {}
    MaxAttempts = 1
    Workers = {w1}
    QueueCap = 1
    BatchSize = 4
    Limit = 4
    NoLimit = NoLimit
    Target = 1
    ClaimFilters <- AnyRow
    Commands = {}
    MaxRuns = 1
    MaxFaults = 1
    MaxCommands = 0
    NoRow = NoRow
SPECIFICATION Spec
INVARIANTS
    SingleHolder
    NothingLost
    IntakeBounded
SYMMETRY Symmetry
