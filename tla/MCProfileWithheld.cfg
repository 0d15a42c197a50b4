CONSTANTS
    r1 = r1
    r2 = r2
    f1 = f1
    f2 = f2
    NoRow = NoRow
    Rows = {r1, r2}
    Person <- DistinctPeople
    Urls = {u1}
    NoUrl = NoUrl
    CompanyRoutes = {ir}
    Filtered = {}
    MaxAttempts = 1
    MaxNow = 3
    Files = {f1, f2}
    FileOf <- Workbooks
    Rankable = {r1, r2}
    Preferred = {r1}
    Backends = {b1}
    Target = 1
    Names = {"run", "pilot", "retry", "write", "suppress"}
    Modes = {"plain", "precision"}
    MaxProcesses = 3
    MaxRuns = 2
SPECIFICATION Spec
CHECK_DEADLOCK FALSE
INVARIANT ProfileWithheld
