SPECIFICATION OperationsSpec
CONSTANTS
    Parts = {"bookings", "onboarding", "invites", "search", "learning", "repairs", "skills", "risk", "calls", "disputes", "selections", "pricing"}
    Alike = {a1, a2}
    Asked = {b1}
    BookingSessions = {a1, a2}
    Hours = {0, 1, 2}
    Spans = {{1}, {1, 2}}
    Buffer = 0
    AdvanceNotice = 1
    DayHours = 2
    MaxPerDay = 2
    Deadline = 0
    ReminderLead = 1
    Takes = {TRUE}
    Offers = {{{1, 2}}}
    Blocks = {{{1}}}
    Windows = {{{1}}}
    MaxShoots = 2
    Missable = {"packages", "gear"}
    Codes = {i1, i2, i3}
    Newcomers = {a1, a2}
    Issuers = {a1, a2}
    MaxInvites = 2
    Indexed = {e1}
    RepairPartners = {}
    Indexers = {ix}
    FixedTags = {sync}
    MaxVersion = 2
    MaxRebuilds = 1
    Courses = {c1, c2}
    Chapters = {k1}
    Quizzed = {k1}
    PricedCourses = {c2}
    Learners = {w1}
    Edited = {c1}
    Older = {c1}
    Newer = {c2}
    RepairTickets = {a1, a2}
    GearItems = {e1}
    Benches = {b1}
    Movers = {w1}
    Removers = {ix}
    Moves = {"quote_declined", "closed"}
    LoanerSteps = {"approved", "shipped_to_pro"}
    Overrides = {"allowed"}
    Graders = {w1}
    Overrulers = {a1, a2}
    RatedGigs = {e1}
    TopTier = 1
    Moderations = {"hidden"}
    Decrees = {1}
    RiskSessions = {a1, a2}
    Rules = {"payout", "dispute"}
    Switched = {"payout"}
    MaxChanges = 2
    MaxScore = 45
    CallIds = {a1, a2}
    Sweeps = {w1}
    CallJobs = {k1, k2}
    PhoneJobs = {k1}
    DailyLimit = 2
    MaxConsents = 2
    MaxNotes = 1
    DisputeIds = {e1}
    ByPro = {}
    AboutMoney = {e1}
    DisputeSessions = {a1, a2}
    Decisions = {"full_refund", "no_refund"}
    StatusEdits = {"open"}
    OpenLimit = 1
    MaxDecisions = 2
    SelectionIds = {k1, k2}
    Shoppers = {a1, a2}
    Counts = {1, 2}
    Included = 1
    MinimumPhotos = 1
    MaxExtras = 1
    Declined = {k1}
    Jobs = {k1}
    MINIMUM_PHOTOS = 10
    EntryPrices = {100, 150}
    IncludedCounts = {12}
    PickedCounts = {10, 12, 13}
    TotalPrices = {1000}
    MaxPhotos = 13
    Curves = {"power", "exponential"}
    Decay <- MCDecay
    FloorPercent = 30
    RetainedPercent = 15
    RawwPercent = 5
    MaxCredit = 10
    FeePercents = {25}
    CreditPercents = {10}
    StandardRate = 20
    PriceTiers = {0, 1}
    MasterTier = 1
    PriceCaps = {{100}}
    ExtraPrices = {1, 2}
    MaxSettings = 2
    MaxSubmissions = 2
SYMMETRY OperationsSymmetry
CHECK_DEADLOCK FALSE
INVARIANTS
    SlotsDisjoint
    ListingFollowsProfile
    InvitesWithinWave
    
    
    
    
    FreshAccountsAreReviewed
    CallsWithinDailyLimit
    
    
    ExtrasArePaid
    PhotosAreBilledOnce
