SPECIFICATION Spec
CONSTANTS
    Sessions = {s1, s2}
    Amount <- MCAmount
    AdminStatuses = {"cancelled"}
    Features = {"client_refund", "crash"}
    Notices = {"charge.refunded", "refund.succeeded"}
    Expanded = TRUE
SYMMETRY SessionSymmetry
INVARIANTS
    DeliveredIsBooked
    UnlockedIsPaid
CHECK_DEADLOCK FALSE
