CONSTANTS
    r1 = r1
    r2 = r2
    c1 = c1
    Rows = {r1, r2}
    NoRow = NoRow
    Companies = {c1}
    Company <- OneCompany
    Pages <- SixPages
    Url <- Address
    Gathered <- UpToTwo
    Profiles = {u1}
    NoUrl = NoUrl
    RowLimit = 3
    CompanyLimit = 2
SPECIFICATION Spec
INVARIANTS
    PersonScopeNamed
    ProfileRouteVerified
    DirectestKept
