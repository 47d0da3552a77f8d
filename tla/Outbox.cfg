SPECIFICATION FairSpec
CONSTANTS
    Events = {1, 2, 3}
    NoEvent = NoEvent
    Api = {a1, a2}
    Workers = {w1, w2}
    BatchLimit = 2
    MaxAttempts = 2
    MayRaise = {1, 2}
    MayBreak = {2, 3}
    MustBreak = {}
    MaxCrashes = 1
INVARIANTS
    DeliveredIsAppliedOnce
PROPERTIES
    ImplementsInbox
    StoredIsSettled
