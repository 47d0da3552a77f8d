SPECIFICATION FairSpec
CONSTANTS
    Events = {1, 2}
    NoEvent = NoEvent
    Api = {a1}
    Workers = {w1, w2}
    BatchLimit = 2
    MaxAttempts = 2
    MayRaise = {}
    MayBreak = {1}
    MustBreak = {1}
    MaxCrashes = 1
PROPERTIES
    StoredIsSettled
