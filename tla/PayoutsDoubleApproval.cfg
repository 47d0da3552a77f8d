SPECIFICATION Spec
CONSTANTS
    Sessions = {s1, s2}
    Entries = {1}
    Requests = {r1, r2}
    Holds = {}
    AllSources = AllSources
    HalfScoped = HalfScoped
    HoldScopes = {}
    Grosses = {5}
    Refunds = {}
    Amounts = {4}
    FeePercent = 20
    MinPayout = 2
    WeeklyLimit = 2
    LostAnswers = FALSE
    OrderedHooks = TRUE
    MaxCrashes = 0
CHECK_DEADLOCK FALSE
INVARIANTS
    NoDoubleSpend
