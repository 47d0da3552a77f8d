SPECIFICATION Spec
CONSTANTS
    Sessions = {s1}
    Amount <- MCAmount
    AdminStatuses = {}
    Features = {"open_dispute", "cancel_dispute", "resolve_dispute", "cancel_intent", "decline"}
    Notices = {"charge.refunded"}
    Expanded = FALSE
INVARIANTS
    CaseIsBacked
    CasesSettle
CHECK_DEADLOCK FALSE
