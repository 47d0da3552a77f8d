SPECIFICATION FairSpec
CONSTANTS
    Sessions = {s1}
    Entries = {1}
    Requests = {r1}
    Holds = {h1, h2}
    AllSources = AllSources
    HalfScoped = HalfScoped
    HoldScopes = {1, AllSources, HalfScoped}
    Grosses = {5}
    Refunds = {}
    Amounts = {4}
    FeePercent = 20
    MinPayout = 2
    WeeklyLimit = 1
    LostAnswers = TRUE
    OrderedHooks = FALSE
    MaxCrashes = 2
CHECK_DEADLOCK FALSE
INVARIANTS
    HeldIsNotAvailable
    OneTransferPerRequest
PROPERTIES
    DueIsSettled
    TransferIsReconciled
    ApprovedIsExecuted
