SPECIFICATION Spec
CONSTANTS
    Sessions = {s1}
    Entries = {1, 2}
    Requests = {r1, r2}
    Holds = {}
    AllSources = AllSources
    HalfScoped = HalfScoped
    HoldScopes = {}
    Grosses = {5}
    Refunds = {3}
    Amounts = {2, 4}
    FeePercent = 20
    MinPayout = 2
    WeeklyLimit = 1
    LostAnswers = FALSE
    OrderedHooks = TRUE
    MaxCrashes = 0
SYMMETRY RequestSymmetry
CHECK_DEADLOCK FALSE
INVARIANTS
    NoDoubleSpend
