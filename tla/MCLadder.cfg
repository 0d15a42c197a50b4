CONSTANTS
    r1 = r1
    r2 = r2
    c1 = c1
    p1 = p1
    p2 = p2
    news = news
    Rows = {r1, r2}
    Companies = {c1}
    Company <- OneCompany
    Items = {p1, p2, news}
    Profiles = {p1, p2}
    Covers <- CoversOf
    Score <- ScoreOf
    Threshold = 88
    MinMargin = 8
    Publishes <- PublishesOf
    Independent <- IndependentOf
    Responses <- SomeResponses
    Authoritative = FALSE
    NegativeCache = TRUE
    Corroboration = TRUE
    AcceptRoutes = TRUE
    ContactQueries = 1
    Rungs = 2
    OpenWeb = 2
    MaxBusy = 2
    MaxPasses = 1
SPECIFICATION FairSpec
CHECK_DEADLOCK FALSE
INVARIANTS
    TypeOK
    MatchCorroborated
    AnswerFounded
PROPERTIES
    AbsenceEarned
    RowsResolve
