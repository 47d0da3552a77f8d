SPECIFICATION Spec
CONSTANTS
    Sessions = {s1}
    Amount <- MCAmount
    AdminStatuses = {}
    Features = {"open_dispute", "resolve_dispute"}
    Notices = {"charge.refunded"}
    Expanded = TRUE
INVARIANTS
    PartialRefundKeepsShare
CHECK_DEADLOCK FALSE
