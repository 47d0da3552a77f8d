SPECIFICATION Spec
CONSTANTS
    Sessions = {s1, s2}
    Entries = {1}
    Requests = {r1, r2}
    Holds = {}
    AllSources = AllSources
    HalfScoped = HalfScoped
    HoldScopes = {}
    Grosses = {5}
    Refunds = {}
    Amounts = {2}
    FeePercent = 20
    MinPayout = 2
    WeeklyLimit = 2
    LostAnswers = TRUE
    OrderedHooks = FALSE
    MaxCrashes = 0
SYMMETRY BothSymmetry
CHECK_DEADLOCK FALSE
INVARIANTS
    PaidMeansMoneyMoved
