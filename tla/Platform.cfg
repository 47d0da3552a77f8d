SPECIFICATION PlatformSpec
CONSTANTS
    Parts = {"rewards", "minting", "prints", "studioverse", "gamification", "sharing", "growth", "notifications", "chats", "media", "legacy", "consents"}
    Alike = {a1, a2}
    Requests = {a1, a2}
    Workers = {w1}
    Orders = {o1}
    Gigs = {g1}
    Upsells = {u1}
    Reasons = {r1}
    Reward = 1
    Cap = 2
    Cost = 2
    Adjustments = {2}
    Adjusted = {0, 2}
    AdminStatuses = {"cancelled"}
    Scopes = {{o1}, {g1}, {u1}}
    MaxDeclines = 1
    Dispatchers = {d1}
    GigMints = {m1}
    ExtraMints = {x1}
    RefundKeys = {"case", "none"}
    BaseRaww = 2
    DailyCap = 3
    BalanceFloor = 1
    Clawbacks = {2}
    MaxClawed = 2
    Clients = {a1, a2}
    Printers = {p1}
    Edits = {e1, e2}
    SetStatuses = {"cancelled", "draft"}
    MaxFailures = 1
    Buyers = {b1}
    PackOrders = {k1}
    PackEditors = {ed}
    PackAdmins = {ad}
    Contents = {"none", "both", "unproven"}
    Consents = {"none", "both"}
    PayMethods = {"raww_credits", "mixed"}
    IntentAnswers = {"open", "captured"}
    PriceRaww = 3
    FeeRaww = 1
    StartRaww = 5
    DownloadLimit = 1
    Clerks = {a1, a2}
    Judges = {a1, a2}
    Ranks = {0, 1}
    Milestones = {e1}
    Repeatable = {e1}
    CyclePoints = 1
    MaxCompletions = 1
    Visits = {w1}
    Fingerprints = {e1}
    Evaluators = {a1, a2}
    ViewTargets = {1}
    SaleTargets = {1}
    MaxViews = 1
    PerMonth = 1
    MaxDue = 2
    MaxSales = 1
    Referrers = {b1, k1}
    Friend = w1
    NoReferrer = ix
    Conversions = {e1, e2}
    Small = {}
    Webhooks = {a1, a2}
    RolesPaid = {{"referrer", "referee"}}
    Freezable = {}
    Suspects = {b1}
    MonthlyCap = 1
    Notices = {e1}
    Copies = {e2}
    Mailers = {a1, a2}
    MaxSends = 2
    ChatSessions = {a1, a2}
    ChatMessages = {e1, e2}
    TokenLimit = 1
    MaxBookings = 1
    Photos = {e1}
    Videos = {k1}
    MediaSessions = {a1, a2}
    MaxRuns = 2
    VaultItems = {e1}
    LegacyReviews = {k1, w1}
    LegacyRequests = {a1, a2}
    HandSteps = {"delivered"}
    ConsentSessions = {a1, a2}
    DefaultLevel = "none"
    Offered = {"pro_only", "both"}
    Claimable = {"both"}
    ToggleLimit = 1
    MaxToggles = 3
SYMMETRY PlatformSymmetry
CHECK_DEADLOCK FALSE
INVARIANTS
    
    
    CaptureIsExportedOnce
    SoldIsCleared
    ThresholdPaidOnce
    ConversionPaysOnce
    MailIsSentOnce
    AnsweredOnce
    
    FinalIsAccepted
    ConsentPaysOnce
PROPERTIES
    HighestNeverFalls
