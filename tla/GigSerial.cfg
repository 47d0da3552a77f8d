SPECIFICATION Spec
CONSTANTS
    Sessions = {s1}
    Amount <- MCAmount
    AdminStatuses = {"disputed", "cancelled"}
    Features = {"client_refund", "admin_refund", "admin_complete", "chargeback"}
    Notices = {"charge.refunded"}
    Expanded = TRUE
INVARIANTS
    RefundedEarnsNothing
CHECK_DEADLOCK FALSE
