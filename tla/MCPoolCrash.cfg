CONSTANTS
    r1 = r1
    r2 = r2
    Rows = {r1, r2, r3}
    Person <- People
    Urls = {u1}
    NoUrl = NoUrl
    CompanyRoutes = {}
    Filtered = {}
    MaxAttempts = 2
    Workers = {w1, w2}
    QueueCap = 4
    BatchSize = 2
    Limit = NoLimit
    NoLimit = NoLimit
    Target = 0
    ClaimFilters <- WithPrecision
    Commands = {}
    MaxRuns = 2
    MaxFaults = 0
    MaxCommands = 0
    NoRow = NoRow
SPECIFICATION Spec
INVARIANTS
    TypeOK
    SingleHolder
    BudgetRespected
    OpenRowsUnanswered
    NoWorkLeftBehind
    OutputExplained
    NoSharedProfile
PROPERTY ImplementsLedger
SYMMETRY Symmetry
