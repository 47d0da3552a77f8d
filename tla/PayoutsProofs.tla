--------------------------- MODULE PayoutsProofs ---------------------------
(***************************************************************************)
(* What holds of Payouts for every number of sessions, entries and         *)
(* requests, with crashes, lost answers and webhooks in any order: type    *)
(* correctness, and that no interleaving makes money move without an       *)
(* approval, twice through Stripe, or shows a payout as paid with no money *)
(* behind it.  Then what the code leaves to chance: a hold that is placed  *)
(* is not lost unless a settlement overlaps it, and no entry is spent      *)
(* twice unless two approvals overlap or a failed payout is paid after all.*)
(***************************************************************************)
EXTENDS Payouts, FiniteSetTheorems, WellFoundedInduction, TLAPS

USE PayoutsAssumption

(* The fields that a planned transaction of each kind has. *)
LEMMA TxnFields ==
    ASSUME NEW t \in Txn
    PROVE  /\ t.op = "earn" => t.e \in Entries /\ t.gross \in Grosses /\ t.held \in BOOLEAN
           /\ t.op \in {"settle", "release"} => t.moves \in Moves
           /\ t.op = "hold" => t.h \in Holds /\ t.scope \in HoldScopes
           /\ t.op \in {"reverse", "adjust"} => t.e \in Entries
           /\ t.op = "adjust" => t.total \in Refunds
           /\ t.op \in {"request", "approve", "reject", "markpaid", "execute",
                        "transfer.created", "transfer.failed"} => t.r \in Requests
           /\ t.op = "request" => t.amount \in Amounts
           /\ t.op = "approve" => t.plan \in [Entries -> Nat]
           /\ t.op = "execute" =>
                  t.to \in {"calling", "keep", "processing", "paid", "failed"}
    BY DEF Txn, Idle

(* A session that begins keeps the types if its plan has one. *)
LEMMA BeginType ==
    ASSUME TypeOK, NEW s \in Sessions, NEW t \in Txn, Begin(s, t)
    PROVE  TypeOK'
    BY DEF TypeOK, Begin, rows, money

(* A session that ends its transaction keeps the types of the sessions. *)
LEMMA EndType ==
    ASSUME TypeOK, NEW s \in Sessions, NEW op, End(s, op)
    PROVE  tx' \in [Sessions -> Txn] /\ crashes' \in 0..MaxCrashes
    BY DEF TypeOK, End, Txn

(* The updates of an earnings entry that the handlers write. *)
LEMMA EntryUpdates ==
    ASSUME NEW x \in Entry
    PROVE  /\ \A st \in EntryStatus : [x EXCEPT !.status = st] \in Entry
           /\ \A n \in Nat : [x EXCEPT !.refunded = n] \in Entry
           /\ [x EXCEPT !.status = "reversed", !.reversedAt = TRUE] \in Entry
           /\ [x EXCEPT !.due = TRUE] \in Entry
<1>1. \A st \in EntryStatus : [x EXCEPT !.status = st] \in Entry BY DEF Entry
<1>2. \A n \in Nat : [x EXCEPT !.refunded = n] \in Entry BY DEF Entry
<1>3. [x EXCEPT !.status = "reversed", !.reversedAt = TRUE] \in Entry
    BY DEF Entry, EntryStatus
<1>4. [x EXCEPT !.due = TRUE] \in Entry BY DEF Entry
<1> QED BY <1>1, <1>2, <1>3, <1>4

(* A settlement plan moves entries only between held and available. *)
LEMMA MovesType == \A H : SettleMoves(H) \in Moves
    BY DEF SettleMoves, Moves

(* Applying a settlement plan keeps the entries well typed. *)
LEMMA MovedType ==
    ASSUME TypeOK, NEW moves \in Moves
    PROVE  Moved(moves) \in [Entries -> Entry]
<1>1. ASSUME NEW e \in Entries
      PROVE  (IF moves[e] = "keep" THEN entry[e]
              ELSE [entry[e] EXCEPT !.status = moves[e]]) \in Entry
    <2>1. entry[e] \in Entry BY DEF TypeOK
    <2>2. moves[e] # "keep" => moves[e] \in EntryStatus BY DEF Moves, EntryStatus
    <2> QED BY <2>1, <2>2, EntryUpdates
<1> QED BY <1>1 DEF Moved

(* The steps that create, settle, hold, release, adjust and reverse entries. *)
LEMMA EarningsType ==
    ASSUME TypeOK, NEW s \in Sessions, EarningsStep(s)
    PROVE  TypeOK'
<1> USE DEF money
<1>1. ASSUME NEW e \in Entries, NEW g \in Grosses, BeginEarn(s, e, g) PROVE TypeOK'
    <2>1. [op |-> "earn", e |-> e, gross |-> g, held |-> Covered(e)] \in Txn
        BY Zenon DEF Txn, Covered, HeldBy
    <2> QED BY <1>1, <2>1, BeginType DEF BeginEarn
<1>2. CASE CommitEarn(s)
    <2>1. tx[s].op = "earn" /\ tx[s] \in Txn BY <1>2 DEF CommitEarn, End, TypeOK
    <2>2. entry' \in [Entries -> Entry]
        BY <1>2, <2>1, TxnFields DEF CommitEarn, TypeOK, Entry, EntryStatus, NoEntry
    <2> QED BY <1>2, <2>2, EndType DEF CommitEarn, TypeOK
<1>3. CASE BeginSettle(s)
    <2>1. [op |-> "settle", moves |-> SettleMoves(ActiveHolds)] \in Txn
        BY MovesType DEF Txn
    <2> QED BY <1>3, <2>1, BeginType DEF BeginSettle
<1>4. CASE CommitSettle(s)
    <2>1. tx[s].op = "settle" /\ tx[s] \in Txn BY <1>4 DEF CommitSettle, End, TypeOK
    <2>2. entry' \in [Entries -> Entry]
        BY <1>4, <2>1, TxnFields, MovedType DEF CommitSettle
    <2> QED BY <1>4, <2>2, EndType DEF CommitSettle, TypeOK
<1>5. ASSUME NEW h \in Holds, NEW scope \in HoldScopes, BeginHold(s, h, scope) PROVE TypeOK'
    <2> DEFINE hit == {e \in Entries : Holdable(e) /\ scope \in {AllSources, HalfScoped, e}}
    <2>1. [op |-> "hold", h |-> h, scope |-> scope, hit |-> hit] \in Txn
        BY DEF Txn
    <2> QED BY <1>5, <2>1, BeginType DEF BeginHold
<1>6. CASE CommitHold(s)
    <2>1. tx[s].op = "hold" /\ tx[s] \in Txn BY <1>6 DEF CommitHold, End, TypeOK
    <2>2. hold' \in [Holds -> Hold]
        BY <1>6, <2>1, TxnFields DEF CommitHold, TypeOK, Hold
    <2>3. entry' \in [Entries -> Entry]
        <3>1. \A e \in Entries : [entry[e] EXCEPT !.status = "held"] \in Entry
            BY EntryUpdates DEF TypeOK, EntryStatus
        <3> QED BY <1>6, <3>1 DEF CommitHold, TypeOK
    <2> QED BY <1>6, <2>2, <2>3, EndType DEF CommitHold, TypeOK
<1>7. ASSUME NEW hs \in SUBSET Holds, BeginRelease(s, hs) PROVE TypeOK'
    <2>1. [op |-> "release", hs |-> hs, moves |-> SettleMoves(ActiveHolds \ hs)] \in Txn
        BY MovesType DEF Txn
    <2> QED BY <1>7, <2>1, BeginType DEF BeginRelease
<1>8. CASE CommitRelease(s)
    <2>1. tx[s].op = "release" /\ tx[s] \in Txn BY <1>8 DEF CommitRelease, End, TypeOK
    <2>2. hold' \in [Holds -> Hold]
        <3>1. \A x \in Hold : [x EXCEPT !.state = "released"] \in Hold
            BY DEF Hold
        <3> QED BY <1>8, <3>1 DEF CommitRelease, TypeOK
    <2>3. entry' \in [Entries -> Entry]
        BY <1>8, <2>1, TxnFields, MovedType DEF CommitRelease
    <2> QED BY <1>8, <2>2, <2>3, EndType DEF CommitRelease, TypeOK
<1>9. ASSUME NEW e \in Entries, BeginReverse(s, e) PROVE TypeOK'
    <2>1. [op |-> "reverse", e |-> e] \in Txn BY DEF Txn
    <2> QED BY <1>9, <2>1, BeginType DEF BeginReverse
<1>10. CASE CommitReverse(s)
    <2>1. tx[s].op = "reverse" /\ tx[s] \in Txn BY <1>10 DEF CommitReverse, End, TypeOK
    <2>2. entry' \in [Entries -> Entry]
        <3>1. \A e \in Entries :
                  [entry[e] EXCEPT !.status = "reversed", !.reversedAt = TRUE] \in Entry
            BY EntryUpdates DEF TypeOK
        <3> QED BY <1>10, <2>1, <3>1, TxnFields DEF CommitReverse, TypeOK
    <2> QED BY <1>10, <2>2, EndType DEF CommitReverse, TypeOK
<1>11. ASSUME NEW e \in Entries, NEW total \in Refunds, BeginAdjust(s, e, total) PROVE TypeOK'
    <2>1. [op |-> "adjust", e |-> e, total |-> total] \in Txn BY DEF Txn
    <2> QED BY <1>11, <2>1, BeginType DEF BeginAdjust
<1>12. CASE CommitAdjust(s)
    <2>1. tx[s].op = "adjust" /\ tx[s] \in Txn BY <1>12 DEF CommitAdjust, End, TypeOK
    <2>2. entry' \in [Entries -> Entry]
        <3>1. \A e \in Entries, n \in Nat : [entry[e] EXCEPT !.refunded = n] \in Entry
            BY EntryUpdates DEF TypeOK
        <3>2. tx[s].total \in Nat BY <2>1, TxnFields
        <3> QED BY <1>12, <2>1, <3>1, <3>2, TxnFields DEF CommitAdjust, TypeOK
    <2> QED BY <1>12, <2>2, EndType DEF CommitAdjust, TypeOK
<1>13. ASSUME NEW h \in Holds, BeginReleaseHold(s, h) PROVE TypeOK'
    BY <1>7, <1>13 DEF BeginReleaseHold
<1>14. ASSUME NEW e \in Entries, BeginReleaseHoldsForSource(s, e) PROVE TypeOK'
    BY <1>7, <1>14 DEF BeginReleaseHoldsForSource, ActiveHolds
<1> QED
    BY <1>1, <1>2, <1>3, <1>4, <1>5, <1>6, <1>8, <1>9, <1>10, <1>11, <1>12, <1>13, <1>14
       DEF EarningsStep

(* The updates of a payout request that the handlers write. *)
LEMMA RequestUpdates ==
    ASSUME NEW x \in Request
    PROVE  /\ \A st \in RequestStatus : [x EXCEPT !.status = st] \in Request
           /\ [x EXCEPT !.status = "approved", !.approvedAt = TRUE] \in Request
           /\ [x EXCEPT !.status = "failed", !.bounceSeen = TRUE] \in Request
           /\ [x EXCEPT !.recent = FALSE] \in Request
<1>1. \A st \in RequestStatus : [x EXCEPT !.status = st] \in Request BY DEF Request
<1>2. [x EXCEPT !.status = "approved", !.approvedAt = TRUE] \in Request
    BY DEF Request, RequestStatus
<1>3. [x EXCEPT !.status = "failed", !.bounceSeen = TRUE] \in Request
    BY DEF Request, RequestStatus
<1>4. [x EXCEPT !.recent = FALSE] \in Request BY DEF Request
<1> QED BY <1>1, <1>2, <1>3, <1>4

(* SetStatus keeps the requests well typed. *)
LEMMA SetStatusType ==
    ASSUME TypeOK, NEW r \in Requests, NEW st \in RequestStatus
    PROVE  SetStatus(r, st) \in [Requests -> Request]
<1>1. [req[r] EXCEPT !.status = st] \in Request BY RequestUpdates DEF TypeOK
<1> QED BY <1>1 DEF SetStatus, TypeOK

(* The steps that create, approve, reject and manually pay requests. *)
LEMMA RequestType ==
    ASSUME TypeOK, NEW s \in Sessions, RequestStep(s)
    PROVE  TypeOK'
<1> USE DEF money
<1>1. ASSUME NEW r \in Requests, NEW amount \in Amounts, BeginRequest(s, r, amount)
      PROVE  TypeOK'
    <2>1. [op |-> "request", r |-> r, amount |-> amount] \in Txn BY DEF Txn
    <2> QED BY <1>1, <2>1, BeginType DEF BeginRequest
<1>2. CASE CommitRequest(s)
    <2>1. tx[s].op = "request" /\ tx[s] \in Txn BY <1>2 DEF CommitRequest, End, TypeOK
    <2>2. tx[s].r \in Requests /\ tx[s].amount \in Nat BY <2>1, TxnFields
    <2>3. [NoRequest EXCEPT !.status = "requested", !.amount = tx[s].amount,
                            !.recent = TRUE] \in Request
        BY <2>2 DEF NoRequest, Request, RequestStatus
    <2>4. req' \in [Requests -> Request]
        BY <1>2, <2>2, <2>3 DEF CommitRequest, TypeOK
    <2> QED BY <1>2, <2>4, EndType DEF CommitRequest, TypeOK
<1>3. ASSUME NEW r \in Requests, BeginApprove(s, r) PROVE TypeOK'
    <2>1. PICK plan \in [Entries -> 0..req[r].amount] :
              Begin(s, [op |-> "approve", r |-> r, plan |-> plan])
        BY <1>3 DEF BeginApprove
    <2>2. plan \in [Entries -> Nat] BY DEF TypeOK, Request
    <2>3. [op |-> "approve", r |-> r, plan |-> plan] \in Txn BY <2>2 DEF Txn
    <2> QED BY <2>1, <2>3, BeginType
<1>4. CASE CommitApprove(s)
    <2>1. tx[s].op = "approve" /\ tx[s] \in Txn BY <1>4 DEF CommitApprove, End, TypeOK
    <2>2. tx[s].r \in Requests /\ tx[s].plan \in [Entries -> Nat] BY <2>1, TxnFields
    <2>3. req' \in [Requests -> Request]
        <3>1. [req[tx[s].r] EXCEPT !.status = "approved", !.approvedAt = TRUE] \in Request
            BY <2>2, RequestUpdates DEF TypeOK
        <3> QED BY <1>4, <2>2, <3>1 DEF CommitApprove, TypeOK
    <2>4. alloc' \in [Requests -> [Entries -> Nat]]
        <3>1. alloc[tx[s].r] \in [Entries -> Nat] BY <2>2 DEF TypeOK
        <3>2. [e \in Entries |-> alloc[tx[s].r][e] + tx[s].plan[e]] \in [Entries -> Nat]
            BY <2>2, <3>1
        <3> QED BY <1>4, <2>2, <3>2 DEF CommitApprove, TypeOK
    <2>5. event' \in [Requests -> {"none", "pending", "delivered"}]
        BY <1>4, <2>2 DEF CommitApprove, TypeOK
    <2> QED BY <1>4, <2>3, <2>4, <2>5, EndType DEF CommitApprove, TypeOK
<1>5. ASSUME NEW r \in Requests, BeginReject(s, r) PROVE TypeOK'
    <2>1. [op |-> "reject", r |-> r] \in Txn BY DEF Txn
    <2> QED BY <1>5, <2>1, BeginType DEF BeginReject
<1>6. CASE CommitReject(s)
    <2>1. tx[s].op = "reject" /\ tx[s] \in Txn BY <1>6 DEF CommitReject, End, TypeOK
    <2>2. req' \in [Requests -> Request]
        BY <1>6, <2>1, TxnFields, SetStatusType DEF CommitReject, RequestStatus
    <2> QED BY <1>6, <2>2, EndType DEF CommitReject, TypeOK
<1>7. ASSUME NEW r \in Requests, BeginMarkPaid(s, r) PROVE TypeOK'
    <2>1. [op |-> "markpaid", r |-> r] \in Txn BY DEF Txn
    <2> QED BY <1>7, <2>1, BeginType DEF BeginMarkPaid
<1>8. CASE CommitMarkPaid(s)
    <2>1. tx[s].op = "markpaid" /\ tx[s] \in Txn BY <1>8 DEF CommitMarkPaid, End, TypeOK
    <2>2. req' \in [Requests -> Request]
        BY <1>8, <2>1, TxnFields, SetStatusType DEF CommitMarkPaid, RequestStatus
    <2>3. bank' \in [Requests -> BOOLEAN] BY <1>8 DEF CommitMarkPaid, TypeOK
    <2> QED BY <1>8, <2>2, <2>3, EndType DEF CommitMarkPaid, TypeOK
<1> QED
    BY <1>1, <1>2, <1>3, <1>4, <1>5, <1>6, <1>7, <1>8 DEF RequestStep

(* The steps of the outbox worker. *)
LEMMA WorkerType ==
    ASSUME TypeOK, NEW s \in Sessions, WorkerStep(s)
    PROVE  TypeOK'
<1> USE DEF money
<1>1. ASSUME NEW r \in Requests, BeginExecute(s, r) PROVE TypeOK'
    <2> DEFINE to == IF req[r].status \notin PayableStatus THEN "keep"
                     ELSE IF ~active THEN "processing" ELSE "calling"
    <2>1. [op |-> "execute", r |-> r, to |-> to] \in Txn BY DEF Txn
    <2> QED BY <1>1, <2>1, BeginType DEF BeginExecute
<1>2. CASE CallStripe(s)
    <2>1. tx[s].op = "execute" /\ tx[s] \in Txn BY <1>2 DEF CallStripe, TypeOK
    <2>2. tx[s].r \in Requests BY <2>1, TxnFields
    <2>3. \A to \in {"paid", "failed"} : [tx[s] EXCEPT !.to = to] \in Txn
        BY <2>1 DEF Txn, Idle
    <2>4. \A to \in {"paid", "failed"} : [tx EXCEPT ![s].to = to] \in [Sessions -> Txn]
        BY <2>3 DEF TypeOK
    <2>5. tx' \in [Sessions -> Txn]
        BY <1>2, <2>4 DEF CallStripe
    <2>6. sent' \in [Requests -> Nat]
        BY <1>2, <2>2 DEF CallStripe, Transfers, TypeOK
    <2>7. hooks' \subseteq Webhook
        BY <1>2, <2>2 DEF CallStripe, Webhook, TypeOK
    <2> QED BY <1>2, <2>5, <2>6, <2>7 DEF CallStripe, rows, TypeOK
<1>3. CASE CommitExecute(s)
    <2>1. tx[s].op = "execute" /\ tx[s] \in Txn BY <1>3 DEF CommitExecute, End, TypeOK
    <2>2. tx[s].r \in Requests /\ tx[s].to \in {"keep", "processing", "paid", "failed"}
        BY <1>3, <2>1, TxnFields DEF CommitExecute
    <2>3. req' \in [Requests -> Request]
        BY <1>3, <2>2, SetStatusType DEF CommitExecute, RequestStatus, TypeOK
    <2>4. event' \in [Requests -> {"none", "pending", "delivered"}]
        BY <1>3 DEF CommitExecute, TypeOK
    <2> QED BY <1>3, <2>3, <2>4, EndType DEF CommitExecute, TypeOK
<1>4. ASSUME NEW r \in Requests, BeginTransferCreated(s, r) PROVE TypeOK'
    <2>1. [op |-> "transfer.created", r |-> r, write |-> req[r].status # "paid"] \in Txn
        BY DEF Txn
    <2> QED BY <1>4, <2>1, BeginType DEF BeginTransferCreated
<1>5. CASE CommitTransferCreated(s)
    <2>1. tx[s].op = "transfer.created" /\ tx[s] \in Txn
        BY <1>5 DEF CommitTransferCreated, End, TypeOK
    <2>2. req' \in [Requests -> Request]
        BY <1>5, <2>1, TxnFields, SetStatusType
           DEF CommitTransferCreated, RequestStatus, TypeOK
    <2>3. hooks' \subseteq Webhook BY <1>5 DEF CommitTransferCreated, TypeOK
    <2> QED BY <1>5, <2>2, <2>3, EndType DEF CommitTransferCreated, TypeOK
<1>6. ASSUME NEW r \in Requests, BeginTransferFailed(s, r) PROVE TypeOK'
    <2>1. req[r].bounceSeen \in BOOLEAN BY DEF TypeOK, Request
    <2>2. [op |-> "transfer.failed", r |-> r, write |-> ~req[r].bounceSeen] \in Txn
        BY <2>1 DEF Txn
    <2> QED BY <1>6, <2>2, BeginType DEF BeginTransferFailed
<1>7. CASE CommitTransferFailed(s)
    <2>1. tx[s].op = "transfer.failed" /\ tx[s] \in Txn
        BY <1>7 DEF CommitTransferFailed, End, TypeOK
    <2>2. tx[s].r \in Requests BY <2>1, TxnFields
    <2>3. [req[tx[s].r] EXCEPT !.status = "failed", !.bounceSeen = TRUE] \in Request
        BY <2>2, RequestUpdates DEF TypeOK
    <2>4. req' \in [Requests -> Request]
        BY <1>7, <2>2, <2>3 DEF CommitTransferFailed, TypeOK
    <2>5. hooks' \subseteq Webhook BY <1>7 DEF CommitTransferFailed, TypeOK
    <2> QED BY <1>7, <2>4, <2>5, EndType DEF CommitTransferFailed, TypeOK
<1> QED
    BY <1>1, <1>2, <1>3, <1>4, <1>5, <1>6, <1>7 DEF WorkerStep

(* The initial state is well typed. *)
LEMMA InitType == Init => TypeOK
    BY DEF Init, TypeOK, NoEntry, Entry, EntryStatus, NoHold, Hold,
           NoRequest, Request, RequestStatus, Idle, Txn, Webhook

(* Every step keeps the types. *)
LEMMA NextType == TypeOK /\ [Next]_vars => TypeOK'
<1> SUFFICES ASSUME TypeOK, [Next]_vars PROVE TypeOK'
    OBVIOUS
<1> USE DEF money, rows
<1>1. ASSUME NEW s \in Sessions, Crash(s) PROVE TypeOK'
    BY <1>1 DEF Crash, TypeOK, Txn
<1>2. CASE World
    <2>1. ASSUME NEW e \in Entries, Mature(e) PROVE TypeOK'
        <3>1. [entry[e] EXCEPT !.due = TRUE] \in Entry BY EntryUpdates DEF TypeOK
        <3> QED BY <2>1, <3>1 DEF Mature, TypeOK
    <2>2. CASE WeekPasses
        <3>1. \A r \in Requests : [req[r] EXCEPT !.recent = FALSE] \in Request
            BY RequestUpdates DEF TypeOK
        <3> QED BY <2>2, <3>1 DEF WeekPasses, TypeOK
    <2>3. CASE AccountChanges
        BY <2>3 DEF AccountChanges, TypeOK
    <2>4. ASSUME NEW r \in Requests, Bounce(r) PROVE TypeOK'
        BY <2>4 DEF Bounce, TypeOK, Webhook
    <2> QED BY <1>2, <2>1, <2>2, <2>3, <2>4 DEF World
<1>3. CASE UNCHANGED vars
    BY <1>3 DEF vars, TypeOK
<1> QED
    BY <1>1, <1>2, <1>3, EarningsType, RequestType, WorkerType DEF Next

(* Type correctness, for every value of the constants. *)
THEOREM TypeCorrect == Spec => []TypeOK
    BY InitType, NextType, PTL DEF Spec

----------------------------------------------------------------------------
(* MoneyInv is inductive.  A step is a Begin, which changes only the plan of *)
(* its session, or a commit, which must keep what the other sessions' plans  *)
(* rely on: an approval, a used request and a transfer cannot be undone.     *)

(* An idle session relies on nothing. *)
LEMMA IdleHasNoOp == Idle.op = "idle"
    BY DEF Idle

(* A session may begin a plan that relies only on facts that hold. *)
LEMMA BeginKeepsMoneyInv ==
    ASSUME TypeOK, MoneyInv, NEW s \in Sessions, NEW t \in Txn,
           tx' = [tx EXCEPT ![s] = t],
           UNCHANGED <<req, event, sent, bank, hooks>>,
           PlanIsGrounded(t),
           t.op = "request" => \A u \in Sessions : tx[u].op = "request" => tx[u].r # t.r
    PROVE  MoneyInv'
<1>1. (AfterApproval /\ UnusedIsBlank /\ HooksHaveTransfers /\ PaidMeansMoneyMoved
       /\ OneTransferPerRequest)'
    BY DEF MoneyInv, AfterApproval, UnusedIsBlank, HooksHaveTransfers,
           PaidMeansMoneyMoved, OneTransferPerRequest
<1>2. \A u \in Sessions : tx'[u] = IF u = s THEN t ELSE tx[u]
    BY DEF TypeOK
<1>3. (\A u \in Sessions : PlanIsGrounded(tx[u]))'
    <2> SUFFICES ASSUME NEW u \in Sessions PROVE PlanIsGrounded(tx[u])'
        OBVIOUS
    <2>1. PlanIsGrounded(tx[u]) BY DEF MoneyInv
    <2> QED BY <1>2, <2>1 DEF PlanIsGrounded
<1>4. OneCreator'
    BY <1>2 DEF MoneyInv, OneCreator
<1> QED BY <1>1, <1>3, <1>4 DEF MoneyInv

(* A commit that undoes no approval, no use of a request and no transfer      *)
(* leaves the plans of the other sessions grounded.                           *)
LEMMA CommitKeepsPlans ==
    ASSUME TypeOK, MoneyInv, NEW s \in Sessions,
           tx' = [tx EXCEPT ![s] = Idle],
           \A r \in Requests :
               /\ req[r].approvedAt => req'[r].approvedAt
               /\ req[r].status # "none" => req'[r].status # "none"
               /\ sent[r] > 0 => sent'[r] > 0,
           \A u \in Sessions \ {s} :
               tx[u].op = "request" => req'[tx[u].r].status = "none"
    PROVE  (\A u \in Sessions : PlanIsGrounded(tx[u]))' /\ OneCreator'
<1>1. \A u \in Sessions : tx'[u] = IF u = s THEN Idle ELSE tx[u]
    BY DEF TypeOK
<1>2. (\A u \in Sessions : PlanIsGrounded(tx[u]))'
    <2> SUFFICES ASSUME NEW u \in Sessions PROVE PlanIsGrounded(tx[u])'
        OBVIOUS
    <2>1. CASE u = s
        BY <1>1, <2>1, IdleHasNoOp DEF PlanIsGrounded
    <2>2. CASE u # s
        <3>1. PlanIsGrounded(tx[u]) /\ tx[u] \in Txn /\ tx'[u] = tx[u]
            BY <1>1, <2>2 DEF MoneyInv, TypeOK
        <3>2. tx[u].op \in {"request", "approve", "reject", "markpaid", "execute",
                            "transfer.created", "transfer.failed"} => tx[u].r \in Requests
            BY <3>1, TxnFields
        <3> QED BY <2>2, <3>1, <3>2 DEF PlanIsGrounded
    <2> QED BY <2>1, <2>2
<1>3. OneCreator'
    BY <1>1, IdleHasNoOp DEF MoneyInv, OneCreator
<1> QED BY <1>2, <1>3

(* A request that another session is creating is not the used one that a      *)
(* commit changes.                                                            *)
LEMMA CreatorsAreUntouched ==
    ASSUME TypeOK, MoneyInv, NEW r \in Requests, req[r].status # "none",
           \A q \in Requests \ {r} : req'[q].status = req[q].status,
           NEW u \in Sessions, tx[u].op = "request"
    PROVE  req'[tx[u].r].status = "none"
<1>1. tx[u] \in Txn /\ PlanIsGrounded(tx[u]) BY DEF TypeOK, MoneyInv
<1>2. tx[u].r \in Requests BY <1>1, TxnFields
<1> QED BY <1>1, <1>2 DEF PlanIsGrounded

(* SetStatus changes one status and no approval. *)
LEMMA SetStatusFields ==
    ASSUME TypeOK, NEW r \in Requests, NEW st \in RequestStatus, NEW q \in Requests
    PROVE  /\ SetStatus(r, st)[q].status = IF q = r THEN st ELSE req[q].status
           /\ SetStatus(r, st)[q].approvedAt = req[q].approvedAt
<1>1. req[q] \in Request BY DEF TypeOK
<1>2. SetStatus(r, st)[q] = IF q = r THEN [req[q] EXCEPT !.status = st] ELSE req[q]
    BY DEF SetStatus, TypeOK
<1>3. \A x \in Request : /\ [x EXCEPT !.status = st].status = st
                         /\ [x EXCEPT !.status = st].approvedAt = x.approvedAt
    BY DEF Request
<1> QED BY <1>1, <1>2, <1>3

(* A commit that moves the status of a used request r keeps the invariant if  *)
(* the new status, and the money it records, have an approval behind them.    *)
LEMMA StatusMoveKeepsMoneyInv ==
    ASSUME TypeOK, MoneyInv, NEW s \in Sessions, NEW r \in Requests,
           NEW st \in RequestStatus \ {"none"},
           tx' = [tx EXCEPT ![s] = Idle],
           req' = SetStatus(r, st),
           \A q \in Requests : event'[q] # "none" => event[q] # "none",
           sent' = sent, hooks' \subseteq hooks,
           \A q \in Requests : (bank[q] => bank'[q]) /\ (bank'[q] => bank[q] \/ q = r),
           req[r].status # "none",
           st \in ReservingStatus \cup {"failed"} => req[r].approvedAt,
           bank'[r] => req[r].approvedAt,
           st = "paid" => sent[r] > 0 \/ bank'[r]
    PROVE  MoneyInv'
<1>1. \A q \in Requests : /\ req'[q].status = IF q = r THEN st ELSE req[q].status
                          /\ req'[q].approvedAt = req[q].approvedAt
    BY SetStatusFields
<1>2. AfterApproval'
    BY <1>1 DEF MoneyInv, AfterApproval
<1>3. UnusedIsBlank'
    BY <1>1 DEF MoneyInv, UnusedIsBlank
<1>4. HooksHaveTransfers'
    BY DEF MoneyInv, HooksHaveTransfers
<1>5. PaidMeansMoneyMoved'
    BY <1>1 DEF MoneyInv, PaidMeansMoneyMoved
<1>6. OneTransferPerRequest'
    BY DEF MoneyInv, OneTransferPerRequest
<1>7. \A u \in Sessions \ {s} :
          tx[u].op = "request" => req'[tx[u].r].status = "none"
    BY <1>1, CreatorsAreUntouched
<1>8. (\A u \in Sessions : PlanIsGrounded(tx[u]))' /\ OneCreator'
    BY <1>1, <1>7, CommitKeepsPlans
<1> QED BY <1>2, <1>3, <1>4, <1>5, <1>6, <1>8 DEF MoneyInv

(* A step that only replaces one plan by one about earnings, or by Idle,      *)
(* touches nothing the invariant speaks of.                                   *)
LEMMA QuietStepKeepsMoneyInv ==
    ASSUME TypeOK, MoneyInv, NEW s \in Sessions, NEW t \in Txn,
           t.op \in {"idle", "earn", "settle", "hold", "release", "reverse", "adjust"},
           tx' = [tx EXCEPT ![s] = t],
           UNCHANGED <<req, event, sent, bank, hooks>>
    PROVE  MoneyInv'
<1>1. PlanIsGrounded(t) /\ t.op # "request" BY DEF PlanIsGrounded
<1> QED BY <1>1, BeginKeepsMoneyInv

(* The steps on earnings keep the invariant. *)
LEMMA EarningsKeepsMoneyInv ==
    ASSUME TypeOK, TypeOK', MoneyInv, NEW s \in Sessions, EarningsStep(s)
    PROVE  MoneyInv'
<1> USE DEF money, rows
<1>1. Idle \in Txn BY DEF Txn
<1>2. tx'[s] \in Txn BY DEF TypeOK
<1>3. ASSUME NEW e \in Entries, NEW g \in Grosses, BeginEarn(s, e, g) PROVE MoneyInv'
    <2>1. tx' = [tx EXCEPT ![s] = tx'[s]] /\ tx'[s].op = "earn"
        BY <1>3 DEF BeginEarn, Begin, TypeOK
    <2> QED BY <1>2, <1>3, <2>1, QuietStepKeepsMoneyInv DEF BeginEarn, Begin
<1>4. CASE BeginSettle(s)
    <2>1. tx' = [tx EXCEPT ![s] = tx'[s]] /\ tx'[s].op = "settle"
        BY <1>4 DEF BeginSettle, Begin, TypeOK
    <2> QED BY <1>2, <1>4, <2>1, QuietStepKeepsMoneyInv DEF BeginSettle, Begin
<1>5. ASSUME NEW h \in Holds, NEW scope \in HoldScopes, BeginHold(s, h, scope)
      PROVE  MoneyInv'
    <2>1. tx' = [tx EXCEPT ![s] = tx'[s]] /\ tx'[s].op = "hold"
        BY <1>5 DEF BeginHold, Begin, TypeOK
    <2> QED BY <1>2, <1>5, <2>1, QuietStepKeepsMoneyInv DEF BeginHold, Begin
<1>6. ASSUME NEW hs, BeginRelease(s, hs) PROVE MoneyInv'
    <2>1. tx' = [tx EXCEPT ![s] = tx'[s]] /\ tx'[s].op = "release"
        BY <1>6 DEF BeginRelease, Begin, TypeOK
    <2> QED BY <1>2, <1>6, <2>1, QuietStepKeepsMoneyInv DEF BeginRelease, Begin
<1>7. ASSUME NEW e \in Entries, BeginReverse(s, e) PROVE MoneyInv'
    <2>1. tx' = [tx EXCEPT ![s] = tx'[s]] /\ tx'[s].op = "reverse"
        BY <1>7 DEF BeginReverse, Begin, TypeOK
    <2> QED BY <1>2, <1>7, <2>1, QuietStepKeepsMoneyInv DEF BeginReverse, Begin
<1>8. ASSUME NEW e \in Entries, NEW total \in Refunds, BeginAdjust(s, e, total)
      PROVE  MoneyInv'
    <2>1. tx' = [tx EXCEPT ![s] = tx'[s]] /\ tx'[s].op = "adjust"
        BY <1>8 DEF BeginAdjust, Begin, TypeOK
    <2> QED BY <1>2, <1>8, <2>1, QuietStepKeepsMoneyInv DEF BeginAdjust, Begin
<1>9. ASSUME CommitEarn(s) \/ CommitSettle(s) \/ CommitHold(s) \/ CommitRelease(s)
             \/ CommitReverse(s) \/ CommitAdjust(s)
      PROVE  MoneyInv'
    <2>1. tx' = [tx EXCEPT ![s] = Idle] /\ UNCHANGED <<req, event, sent, bank, hooks>>
        BY <1>9 DEF CommitEarn, CommitSettle, CommitHold, CommitRelease, CommitReverse,
                    CommitAdjust, End
    <2> QED BY <1>1, <2>1, IdleHasNoOp, QuietStepKeepsMoneyInv
<1>10. ASSUME NEW h \in Holds, BeginReleaseHold(s, h) PROVE MoneyInv'
    BY <1>6, <1>10 DEF BeginReleaseHold
<1>11. ASSUME NEW e \in Entries, BeginReleaseHoldsForSource(s, e) PROVE MoneyInv'
    BY <1>6, <1>11 DEF BeginReleaseHoldsForSource
<1> QED
    BY <1>3, <1>4, <1>5, <1>7, <1>8, <1>9, <1>10, <1>11 DEF EarningsStep

(* The steps on payout requests keep the invariant. *)
LEMMA RequestKeepsMoneyInv ==
    ASSUME TypeOK, TypeOK', MoneyInv, NEW s \in Sessions, RequestStep(s)
    PROVE  MoneyInv'
<1> USE DEF money, rows
<1>1. tx[s] \in Txn /\ PlanIsGrounded(tx[s]) /\ tx'[s] \in Txn
    BY DEF TypeOK, MoneyInv
<1>2. ASSUME NEW r \in Requests, NEW amount \in Amounts, BeginRequest(s, r, amount)
      PROVE  MoneyInv'
    <2> DEFINE t == [op |-> "request", r |-> r, amount |-> amount]
    <2>1. t \in Txn BY DEF Txn
    <2>2. PlanIsGrounded(t) BY <1>2 DEF BeginRequest, PlanIsGrounded
    <2>3. \A u \in Sessions : tx[u].op = "request" => tx[u].r # t.r
        BY <1>2 DEF BeginRequest, InSession
    <2> HIDE DEF t
    <2>4. tx' = [tx EXCEPT ![s] = t] /\ UNCHANGED <<req, event, sent, bank, hooks>>
        BY <1>2 DEF t, BeginRequest, Begin
    <2> QED BY <2>1, <2>2, <2>3, <2>4, BeginKeepsMoneyInv
<1>3. CASE CommitRequest(s)
    <2> DEFINE r == tx[s].r
    <2>1. tx[s].op = "request" /\ tx' = [tx EXCEPT ![s] = Idle]
        BY <1>3 DEF CommitRequest, End
    <2>2. r \in Requests /\ req[r].status = "none" /\ ~req[r].approvedAt
        BY <1>1, <2>1, TxnFields DEF PlanIsGrounded, MoneyInv, UnusedIsBlank
    <2>3. /\ UNCHANGED <<event, sent, bank, hooks>>
          /\ \A q \in Requests \ {r} : req'[q] = req[q]
          /\ req'[r].status = "requested" /\ req'[r].approvedAt = FALSE
        BY <1>3, <2>2 DEF CommitRequest, TypeOK, NoRequest
    <2>4. AfterApproval' BY <2>2, <2>3 DEF MoneyInv, AfterApproval, ReservingStatus
    <2>5. (UnusedIsBlank /\ HooksHaveTransfers /\ PaidMeansMoneyMoved
           /\ OneTransferPerRequest)'
        BY <2>2, <2>3 DEF MoneyInv, UnusedIsBlank, HooksHaveTransfers,
                          PaidMeansMoneyMoved, OneTransferPerRequest
    <2>6. \A u \in Sessions \ {s} :
              tx[u].op = "request" => req'[tx[u].r].status = "none"
        <3> SUFFICES ASSUME NEW u \in Sessions \ {s}, tx[u].op = "request"
                     PROVE  req'[tx[u].r].status = "none"
            OBVIOUS
        <3>1. tx[u] \in Txn /\ PlanIsGrounded(tx[u]) BY DEF TypeOK, MoneyInv
        <3>2. tx[u].r \in Requests BY <3>1, TxnFields
        <3>3. tx[u].r # r BY <2>1 DEF MoneyInv, OneCreator
        <3> QED BY <2>3, <3>1, <3>2, <3>3 DEF PlanIsGrounded
    <2>7. (\A u \in Sessions : PlanIsGrounded(tx[u]))' /\ OneCreator'
        BY <2>1, <2>2, <2>3, <2>6, CommitKeepsPlans
    <2> QED BY <2>4, <2>5, <2>7 DEF MoneyInv
<1>4. ASSUME NEW r \in Requests, BeginApprove(s, r) PROVE MoneyInv'
    <2>1. tx' = [tx EXCEPT ![s] = tx'[s]] /\ UNCHANGED <<req, event, sent, bank, hooks>>
        BY <1>4 DEF BeginApprove, Begin, TypeOK
    <2>2. tx'[s].op = "approve" /\ tx'[s].r = r /\ req[r].status = "requested"
        BY <1>4 DEF BeginApprove, Begin, TypeOK
    <2>3. PlanIsGrounded(tx'[s]) BY <2>2 DEF PlanIsGrounded
    <2> QED BY <1>1, <2>1, <2>2, <2>3, BeginKeepsMoneyInv
<1>5. CASE CommitApprove(s)
    <2> DEFINE r == tx[s].r
    <2>1. tx[s].op = "approve" /\ tx' = [tx EXCEPT ![s] = Idle]
          /\ UNCHANGED <<sent, bank, hooks>>
        BY <1>5 DEF CommitApprove, End
    <2>2. r \in Requests /\ req[r].status # "none"
        BY <1>1, <2>1, TxnFields DEF PlanIsGrounded
    <2>3. CASE UNCHANGED <<req, event>>
        <3>1. Idle \in Txn BY DEF Txn
        <3> QED BY <2>1, <2>3, <3>1, IdleHasNoOp, QuietStepKeepsMoneyInv
    <2>4. CASE /\ req' = [req EXCEPT ![r] = [@ EXCEPT !.status = "approved", !.approvedAt = TRUE]]
               /\ \A q \in Requests \ {r} : event'[q] = event[q]
        <3>1. req[r] \in Request BY <2>2 DEF TypeOK
        <3>2. /\ \A q \in Requests \ {r} : req'[q] = req[q]
              /\ req'[r].status = "approved" /\ req'[r].approvedAt
            BY <2>2, <2>4, <3>1 DEF TypeOK, Request
        <3>3. AfterApproval' BY <2>1, <2>4, <3>2 DEF MoneyInv, AfterApproval
        <3>4. (UnusedIsBlank /\ HooksHaveTransfers /\ PaidMeansMoneyMoved
               /\ OneTransferPerRequest)'
            BY <2>1, <3>2 DEF MoneyInv, UnusedIsBlank, HooksHaveTransfers,
                              PaidMeansMoneyMoved, OneTransferPerRequest
        <3>5. \A u \in Sessions \ {s} :
                  tx[u].op = "request" => req'[tx[u].r].status = "none"
            BY <2>2, <3>2, CreatorsAreUntouched
        <3>6. (\A u \in Sessions : PlanIsGrounded(tx[u]))' /\ OneCreator'
            BY <2>1, <3>2, <3>5, CommitKeepsPlans
        <3> QED BY <3>3, <3>4, <3>6 DEF MoneyInv
    <2>5. \/ UNCHANGED <<req, event>>
          \/ /\ req' = [req EXCEPT ![r] = [@ EXCEPT !.status = "approved", !.approvedAt = TRUE]]
             /\ \A q \in Requests \ {r} : event'[q] = event[q]
        BY <1>5 DEF CommitApprove, TypeOK
    <2> QED BY <2>3, <2>4, <2>5
<1>6. ASSUME NEW r \in Requests, BeginReject(s, r) PROVE MoneyInv'
    <2>1. tx' = [tx EXCEPT ![s] = tx'[s]] /\ UNCHANGED <<req, event, sent, bank, hooks>>
        BY <1>6 DEF BeginReject, Begin, TypeOK
    <2>2. tx'[s].op = "reject" /\ tx'[s].r = r /\ req[r].status = "requested"
        BY <1>6 DEF BeginReject, Begin, TypeOK
    <2>3. PlanIsGrounded(tx'[s]) BY <2>2 DEF PlanIsGrounded
    <2> QED BY <1>1, <2>1, <2>2, <2>3, BeginKeepsMoneyInv
<1>7. CASE CommitReject(s)
    <2> DEFINE r == tx[s].r
    <2>1. tx[s].op = "reject" /\ tx' = [tx EXCEPT ![s] = Idle]
          /\ req' = SetStatus(r, "rejected") /\ UNCHANGED <<event, sent, bank, hooks>>
        BY <1>7 DEF CommitReject, End
    <2>2. r \in Requests /\ req[r].status # "none"
        BY <1>1, <2>1, TxnFields DEF PlanIsGrounded
    <2>3. bank[r] => req[r].approvedAt BY <2>2 DEF MoneyInv, AfterApproval
    <2>4. "rejected" \in RequestStatus \ {"none"} BY DEF RequestStatus
    <2>5. "rejected" \notin ReservingStatus \cup {"failed"} BY DEF ReservingStatus
    <2> QED BY <2>1, <2>2, <2>3, <2>4, <2>5, StatusMoveKeepsMoneyInv
<1>8. ASSUME NEW r \in Requests, BeginMarkPaid(s, r) PROVE MoneyInv'
    <2>1. tx' = [tx EXCEPT ![s] = tx'[s]] /\ UNCHANGED <<req, event, sent, bank, hooks>>
        BY <1>8 DEF BeginMarkPaid, Begin, TypeOK
    <2>2. tx'[s].op = "markpaid" /\ tx'[s].r = r /\ req[r].status \in PayableStatus
        BY <1>8 DEF BeginMarkPaid, Begin, TypeOK
    <2>3. req[r].approvedAt
        BY <2>2 DEF MoneyInv, AfterApproval, PayableStatus, ReservingStatus
    <2>4. PlanIsGrounded(tx'[s]) BY <2>2, <2>3 DEF PlanIsGrounded
    <2> QED BY <1>1, <2>1, <2>2, <2>4, BeginKeepsMoneyInv
<1>9. CASE CommitMarkPaid(s)
    <2> DEFINE r == tx[s].r
    <2>1. tx[s].op = "markpaid" /\ tx' = [tx EXCEPT ![s] = Idle]
          /\ req' = SetStatus(r, "paid") /\ bank' = [bank EXCEPT ![r] = TRUE]
          /\ UNCHANGED <<event, sent, hooks>>
        BY <1>9 DEF CommitMarkPaid, End
    <2>2. r \in Requests /\ req[r].approvedAt
        BY <1>1, <2>1, TxnFields DEF PlanIsGrounded
    <2>3. req[r].status # "none" BY <2>2 DEF MoneyInv, UnusedIsBlank
    <2>4. "paid" \in RequestStatus \ {"none"} BY DEF RequestStatus
    <2>5. bank'[r] /\ \A q \in Requests : (bank[q] => bank'[q])
                                         /\ (bank'[q] => bank[q] \/ q = r)
        BY <2>1, <2>2 DEF TypeOK
    <2> QED BY <2>1, <2>2, <2>3, <2>4, <2>5, StatusMoveKeepsMoneyInv
<1> QED
    BY <1>2, <1>3, <1>4, <1>5, <1>6, <1>7, <1>8, <1>9 DEF RequestStep

(* The steps of the outbox worker keep the invariant: a session that saw a    *)
(* transfer knows of a fact that stays true.                                  *)
LEMMA WorkerKeepsMoneyInv ==
    ASSUME TypeOK, TypeOK', MoneyInv, NEW s \in Sessions, WorkerStep(s)
    PROVE  MoneyInv'
<1> USE DEF money, rows
<1>1. tx[s] \in Txn /\ PlanIsGrounded(tx[s]) /\ tx'[s] \in Txn
    BY DEF TypeOK, MoneyInv
<1>2. ASSUME NEW r \in Requests, BeginExecute(s, r) PROVE MoneyInv'
    <2>1. tx' = [tx EXCEPT ![s] = tx'[s]] /\ UNCHANGED <<req, event, sent, bank, hooks>>
        BY <1>2 DEF BeginExecute, Begin, TypeOK
    <2>2. tx'[s].op = "execute" /\ tx'[s].r = r /\ tx'[s].to # "paid"
        BY <1>2 DEF BeginExecute, Begin, TypeOK
    <2>3. req[r].approvedAt BY <1>2 DEF BeginExecute, MoneyInv, AfterApproval
    <2>4. PlanIsGrounded(tx'[s]) BY <2>2, <2>3 DEF PlanIsGrounded
    <2> QED BY <1>1, <2>1, <2>2, <2>4, BeginKeepsMoneyInv
<1>3. CASE CallStripe(s)
    <2> DEFINE r == tx[s].r
    <2>1. tx[s].op = "execute" /\ UNCHANGED <<req, event, bank>>
        BY <1>3 DEF CallStripe
    <2>2. r \in Requests /\ req[r].approvedAt
        BY <1>1, <2>1, TxnFields DEF PlanIsGrounded
    <2>3. \A q \in Requests : sent[q] \in 0..1
        BY DEF TypeOK, MoneyInv, OneTransferPerRequest
    <2>4. \A q \in Requests : /\ sent'[q] \in 0..1
                              /\ sent[q] > 0 => sent'[q] > 0
                              /\ sent'[q] > 0 => sent[q] > 0 \/ q = r
        <3>1. sent' = sent \/ sent' = [sent EXCEPT ![r] = Transfers(r)]
            BY <1>3 DEF CallStripe
        <3>2. Transfers(r) = 1 BY <2>2, <2>3 DEF Transfers
        <3>3. sent \in [Requests -> Nat] BY DEF TypeOK
        <3> QED BY <2>2, <2>3, <3>1, <3>2, <3>3
    <2>5. AfterApproval' BY <2>1, <2>2, <2>4 DEF MoneyInv, AfterApproval
    <2>7. UnusedIsBlank' /\ PaidMeansMoneyMoved' /\ OneTransferPerRequest'
        BY <2>1, <2>4 DEF MoneyInv, UnusedIsBlank, PaidMeansMoneyMoved,
                          OneTransferPerRequest
    <2>8. HooksHaveTransfers'
        <3>1. hooks' # hooks => sent'[r] > 0 /\ hooks' = hooks \cup {<<"transfer.created", r>>}
            BY <1>3, <2>2 DEF CallStripe, Transfers, TypeOK
        <3>2. CASE hooks' = hooks
            BY <2>4, <3>2 DEF MoneyInv, HooksHaveTransfers
        <3>3. CASE hooks' # hooks
            BY <2>4, <3>1, <3>3 DEF MoneyInv, HooksHaveTransfers
        <3> QED BY <3>2, <3>3
    <2>9. /\ tx'[s].op = "execute" /\ tx'[s].r = r
          /\ tx'[s].to = "paid" => sent'[r] > 0
          /\ \A u \in Sessions \ {s} : tx'[u] = tx[u]
        <3>1. \A to \in {"paid", "failed"} :
                  /\ [tx[s] EXCEPT !.to = to].op = "execute"
                  /\ [tx[s] EXCEPT !.to = to].r = r
                  /\ [tx[s] EXCEPT !.to = to].to = to
            BY <1>1, <2>1 DEF Txn, Idle
        <3>2. PICK to \in {"paid", "failed"} :
                  /\ tx' = [tx EXCEPT ![s].to = to]
                  /\ to = "paid" => sent' = [sent EXCEPT ![r] = Transfers(r)]
            BY <1>3 DEF CallStripe
        <3>3. /\ tx'[s] = [tx[s] EXCEPT !.to = to]
              /\ \A u \in Sessions \ {s} : tx'[u] = tx[u]
            BY <3>2 DEF TypeOK
        <3>4. to = "paid" => sent'[r] > 0
            BY <2>2, <2>3, <3>2 DEF Transfers, TypeOK
        <3> QED BY <3>1, <3>2, <3>3, <3>4
    <2>10. (\A u \in Sessions : PlanIsGrounded(tx[u]))'
        <3> SUFFICES ASSUME NEW u \in Sessions PROVE PlanIsGrounded(tx[u])'
            OBVIOUS
        <3>1. CASE u = s
            BY <2>1, <2>2, <2>9, <3>1 DEF PlanIsGrounded
        <3>2. CASE u # s
            <4>1. tx'[u] = tx[u] /\ tx[u] \in Txn /\ PlanIsGrounded(tx[u])
                BY <2>9, <3>2 DEF TypeOK, MoneyInv
            <4>2. tx[u].op \in {"execute", "transfer.created", "transfer.failed"}
                  => tx[u].r \in Requests
                BY <4>1, TxnFields
            <4> QED BY <2>1, <2>4, <4>1, <4>2 DEF PlanIsGrounded
        <3> QED BY <3>1, <3>2
    <2>11. OneCreator' BY <2>9 DEF MoneyInv, OneCreator
    <2> QED BY <2>5, <2>7, <2>8, <2>10, <2>11 DEF MoneyInv
<1>4. CASE CommitExecute(s)
    <2> DEFINE r == tx[s].r
               st == tx[s].to
    <2>1. tx[s].op = "execute" /\ tx' = [tx EXCEPT ![s] = Idle]
          /\ event' = [event EXCEPT ![r] = "delivered"] /\ UNCHANGED <<sent, bank, hooks>>
          /\ st # "calling"
        BY <1>4 DEF CommitExecute, End
    <2>2. r \in Requests /\ st \in {"keep", "processing", "paid", "failed"}
        BY <1>1, <2>1, TxnFields
    <2>3. req[r].approvedAt /\ (st = "paid" => sent[r] > 0)
        BY <1>1, <2>1 DEF PlanIsGrounded
    <2>4. req[r].status # "none" BY <2>2, <2>3 DEF MoneyInv, UnusedIsBlank
    <2>5. \A q \in Requests : q # r => event'[q] = event[q]
        BY <2>1 DEF TypeOK
    <2>6. CASE st = "keep"
        <3>1. req' = req BY <1>4, <2>6 DEF CommitExecute
        <3>2. AfterApproval' BY <2>1, <2>3, <2>5, <3>1 DEF MoneyInv, AfterApproval
        <3>3. (UnusedIsBlank /\ HooksHaveTransfers /\ PaidMeansMoneyMoved
               /\ OneTransferPerRequest)'
            BY <2>1, <3>1 DEF MoneyInv, UnusedIsBlank, HooksHaveTransfers,
                              PaidMeansMoneyMoved, OneTransferPerRequest
        <3>4. \A u \in Sessions \ {s} :
                  tx[u].op = "request" => req'[tx[u].r].status = "none"
            BY <3>1 DEF MoneyInv, PlanIsGrounded
        <3>5. (\A u \in Sessions : PlanIsGrounded(tx[u]))' /\ OneCreator'
            BY <2>1, <3>1, <3>4, CommitKeepsPlans
        <3> QED BY <3>2, <3>3, <3>5 DEF MoneyInv
    <2>7. CASE st # "keep"
        <3>1. req' = SetStatus(r, st) BY <1>4, <2>7 DEF CommitExecute
        <3>2. \A q \in Requests : /\ req'[q].status = IF q = r THEN st ELSE req[q].status
                                  /\ req'[q].approvedAt = req[q].approvedAt
            BY <2>2, <2>7, <3>1, SetStatusFields DEF RequestStatus
        <3>3. AfterApproval' BY <2>1, <2>3, <2>5, <3>2 DEF MoneyInv, AfterApproval
        <3>4. (UnusedIsBlank /\ HooksHaveTransfers /\ PaidMeansMoneyMoved
               /\ OneTransferPerRequest)'
            BY <2>1, <2>2, <2>3, <2>7, <3>2
               DEF MoneyInv, UnusedIsBlank, HooksHaveTransfers, PaidMeansMoneyMoved,
                   OneTransferPerRequest
        <3>5. \A u \in Sessions \ {s} :
                  tx[u].op = "request" => req'[tx[u].r].status = "none"
            BY <2>2, <2>4, <3>2, CreatorsAreUntouched
        <3>6. (\A u \in Sessions : PlanIsGrounded(tx[u]))' /\ OneCreator'
            BY <2>1, <2>2, <2>4, <2>7, <3>2, <3>5, CommitKeepsPlans
        <3> QED BY <3>3, <3>4, <3>6 DEF MoneyInv
    <2> QED BY <2>6, <2>7
<1>5. ASSUME NEW r \in Requests, BeginTransferCreated(s, r) PROVE MoneyInv'
    <2>1. tx' = [tx EXCEPT ![s] = tx'[s]] /\ UNCHANGED <<req, event, sent, bank, hooks>>
        BY <1>5 DEF BeginTransferCreated, Begin, TypeOK
    <2>2. tx'[s].op = "transfer.created" /\ tx'[s].r = r
        BY <1>5 DEF BeginTransferCreated, Begin, TypeOK
    <2>3. sent[r] > 0 BY <1>5 DEF BeginTransferCreated, MoneyInv, HooksHaveTransfers
    <2>4. PlanIsGrounded(tx'[s]) BY <2>2, <2>3 DEF PlanIsGrounded
    <2> QED BY <1>1, <2>1, <2>2, <2>4, BeginKeepsMoneyInv
<1>6. CASE CommitTransferCreated(s)
    <2> DEFINE r == tx[s].r
    <2>1. tx[s].op = "transfer.created" /\ tx' = [tx EXCEPT ![s] = Idle]
          /\ UNCHANGED <<event, sent, bank>> /\ hooks' \subseteq hooks
          /\ (req' = req \/ req' = SetStatus(r, "paid"))
        BY <1>6 DEF CommitTransferCreated, End
    <2>2. r \in Requests /\ sent[r] > 0
        BY <1>1, <2>1, TxnFields DEF PlanIsGrounded
    <2>3. req[r].approvedAt BY <2>2 DEF MoneyInv, AfterApproval
    <2>4. req[r].status # "none" BY <2>2, <2>3 DEF MoneyInv, UnusedIsBlank
    <2>5. \E st \in RequestStatus \ {"none"} : /\ st \in {req[r].status, "paid"}
                                               /\ req' = SetStatus(r, st)
        <3>1. \A x \in Request : [x EXCEPT !.status = x.status] = x /\ x.status \in RequestStatus
            BY DEF Request
        <3>2. req = SetStatus(r, req[r].status) /\ req[r].status \in RequestStatus
            <4>1. req[r] \in Request BY <2>2 DEF TypeOK
            <4>2. [req[r] EXCEPT !.status = req[r].status] = req[r] BY <3>1, <4>1
            <4> QED BY <3>1, <4>1, <4>2 DEF TypeOK, SetStatus
        <3>3. "paid" \in RequestStatus \ {"none"} BY DEF RequestStatus
        <3>4. CASE req' = req BY <2>4, <3>2, <3>4
        <3>5. CASE req' = SetStatus(r, "paid") BY <3>3, <3>5
        <3> QED BY <2>1, <3>4, <3>5
    <2>6. req[r].status = "paid" => sent[r] > 0 BY <2>2
    <2> QED BY <2>1, <2>2, <2>3, <2>4, <2>5, StatusMoveKeepsMoneyInv
<1>7. ASSUME NEW r \in Requests, BeginTransferFailed(s, r) PROVE MoneyInv'
    <2>1. tx' = [tx EXCEPT ![s] = tx'[s]] /\ UNCHANGED <<req, event, sent, bank, hooks>>
        BY <1>7 DEF BeginTransferFailed, Begin, TypeOK
    <2>2. tx'[s].op = "transfer.failed" /\ tx'[s].r = r
        BY <1>7 DEF BeginTransferFailed, Begin, TypeOK
    <2>3. sent[r] > 0 BY <1>7 DEF BeginTransferFailed, MoneyInv, HooksHaveTransfers
    <2>4. PlanIsGrounded(tx'[s]) BY <2>2, <2>3 DEF PlanIsGrounded
    <2> QED BY <1>1, <2>1, <2>2, <2>4, BeginKeepsMoneyInv
<1>8. CASE CommitTransferFailed(s)
    <2> DEFINE r == tx[s].r
    <2>1. tx[s].op = "transfer.failed" /\ tx' = [tx EXCEPT ![s] = Idle]
          /\ UNCHANGED <<event, sent, bank>> /\ hooks' \subseteq hooks
        BY <1>8 DEF CommitTransferFailed, End
    <2>2. r \in Requests /\ sent[r] > 0
        BY <1>1, <2>1, TxnFields DEF PlanIsGrounded
    <2>3. req[r].approvedAt BY <2>2 DEF MoneyInv, AfterApproval
    <2>4. req[r].status # "none" BY <2>2, <2>3 DEF MoneyInv, UnusedIsBlank
    <2>5. req[r] \in Request BY <2>2 DEF TypeOK
    <2>6. /\ \A q \in Requests \ {r} : req'[q] = req[q]
          /\ req'[r].status \in {req[r].status, "failed"} /\ req'[r].approvedAt
        BY <1>8, <2>2, <2>3, <2>5 DEF CommitTransferFailed, TypeOK, Request
    <2>7. AfterApproval' BY <2>1, <2>6 DEF MoneyInv, AfterApproval
    <2>8. (UnusedIsBlank /\ HooksHaveTransfers /\ PaidMeansMoneyMoved
           /\ OneTransferPerRequest)'
        BY <2>1, <2>2, <2>4, <2>6 DEF MoneyInv, UnusedIsBlank, HooksHaveTransfers,
                                      PaidMeansMoneyMoved, OneTransferPerRequest
    <2>9. \A u \in Sessions \ {s} :
              tx[u].op = "request" => req'[tx[u].r].status = "none"
        BY <2>2, <2>4, <2>6, CreatorsAreUntouched
    <2>10. (\A u \in Sessions : PlanIsGrounded(tx[u]))' /\ OneCreator'
        BY <2>1, <2>2, <2>3, <2>4, <2>6, <2>9, CommitKeepsPlans
    <2> QED BY <2>7, <2>8, <2>10 DEF MoneyInv
<1> QED
    BY <1>2, <1>3, <1>4, <1>5, <1>6, <1>7, <1>8 DEF WorkerStep

(* The environment's steps keep the invariant. *)
LEMMA WorldKeepsMoneyInv ==
    ASSUME TypeOK, MoneyInv, World
    PROVE  MoneyInv'
<1>1. UNCHANGED <<event, sent, bank, tx>>
    BY DEF World, Mature, WeekPasses, AccountChanges, Bounce, money, rows
<1>2. \A r \in Requests : req'[r].status = req[r].status
                        /\ req'[r].approvedAt = req[r].approvedAt
    <2>1. CASE WeekPasses
        <3>1. \A r \in Requests : req[r] \in Request BY DEF TypeOK
        <3>2. \A x \in Request : /\ [x EXCEPT !.recent = FALSE].status = x.status
                                 /\ [x EXCEPT !.recent = FALSE].approvedAt = x.approvedAt
            BY DEF Request
        <3> QED BY <2>1, <3>1, <3>2 DEF WeekPasses
    <2>2. CASE UNCHANGED req
        BY <2>2
    <2> QED BY <2>1, <2>2 DEF World, Mature, AccountChanges, Bounce, rows
<1>3. HooksHaveTransfers'
    <2>1. CASE hooks' = hooks
        BY <1>1, <2>1 DEF MoneyInv, HooksHaveTransfers
    <2>2. ASSUME NEW r \in Requests, Bounce(r) PROVE HooksHaveTransfers'
        BY <1>1, <2>2 DEF Bounce, MoneyInv, HooksHaveTransfers
    <2> QED BY <2>1, <2>2 DEF World, Mature, WeekPasses, AccountChanges, money
<1>4. (AfterApproval /\ UnusedIsBlank /\ PaidMeansMoneyMoved /\ OneTransferPerRequest)'
    BY <1>1, <1>2 DEF MoneyInv, AfterApproval, UnusedIsBlank, PaidMeansMoneyMoved,
                      OneTransferPerRequest
<1>5. (\A s \in Sessions : PlanIsGrounded(tx[s]))'
    <2> SUFFICES ASSUME NEW s \in Sessions PROVE PlanIsGrounded(tx[s])'
        OBVIOUS
    <2>1. PlanIsGrounded(tx[s]) /\ tx[s] \in Txn BY DEF MoneyInv, TypeOK
    <2>2. tx[s].op \in {"request", "approve", "reject", "markpaid", "execute",
                        "transfer.created", "transfer.failed"} => tx[s].r \in Requests
        BY <2>1, TxnFields
    <2> QED BY <1>1, <1>2, <2>1, <2>2 DEF PlanIsGrounded
<1>6. OneCreator' BY <1>1 DEF MoneyInv, OneCreator
<1> QED BY <1>3, <1>4, <1>5, <1>6 DEF MoneyInv

(* MoneyInv holds initially. *)
LEMMA InitMoneyInv == Init => MoneyInv
    BY DEF Init, MoneyInv, AfterApproval, UnusedIsBlank, HooksHaveTransfers,
           PlanIsGrounded, OneCreator, PaidMeansMoneyMoved, OneTransferPerRequest,
           NoRequest, Idle, ReservingStatus

(* Every step keeps MoneyInv. *)
LEMMA NextMoneyInv == TypeOK /\ TypeOK' /\ MoneyInv /\ [Next]_vars => MoneyInv'
<1> SUFFICES ASSUME TypeOK, TypeOK', MoneyInv, [Next]_vars PROVE MoneyInv'
    OBVIOUS
<1>1. ASSUME NEW s \in Sessions, Crash(s) PROVE MoneyInv'
    <2>1. Idle \in Txn BY DEF Txn
    <2> QED BY <1>1, <2>1, IdleHasNoOp, QuietStepKeepsMoneyInv DEF Crash, rows, money
<1>2. CASE UNCHANGED vars
    BY <1>2 DEF vars, MoneyInv, AfterApproval, UnusedIsBlank, HooksHaveTransfers,
           PlanIsGrounded, OneCreator, PaidMeansMoneyMoved, OneTransferPerRequest
<1> QED
    BY <1>1, <1>2, EarningsKeepsMoneyInv, RequestKeepsMoneyInv, WorkerKeepsMoneyInv,
       WorldKeepsMoneyInv DEF Next

(* The inductive invariant, for every value of the constants. *)
THEOREM MoneyInvHolds == Spec => []MoneyInv
    BY TypeCorrect, InitMoneyInv, NextMoneyInv, PTL DEF Spec

(* A request shown as paid has a Stripe transfer or a recorded bank transfer  *)
(* behind it, in every interleaving of execution, manual payment, webhooks    *)
(* and crashes.                                                               *)
THEOREM PaidIsBacked == Spec => []PaidMeansMoneyMoved
<1>1. MoneyInv => PaidMeansMoneyMoved BY DEF MoneyInv
<1> QED BY <1>1, MoneyInvHolds, PTL

(* No money moves for a request no admin approved. *)
THEOREM MoneyIsApproved == Spec => []MoneyMeansApproved
<1>1. MoneyInv => MoneyMeansApproved
    BY DEF MoneyInv, AfterApproval, MoneyMeansApproved
<1> QED BY <1>1, MoneyInvHolds, PTL

(* Retries, crashes and lost answers never make two transfers for a request. *)
THEOREM TransferIsUnique == Spec => []OneTransferPerRequest
<1>1. MoneyInv => OneTransferPerRequest BY DEF MoneyInv
<1> QED BY <1>1, MoneyInvHolds, PTL

HIDE PayoutsAssumption

----------------------------------------------------------------------------
(* Holds.  What makes an entry available was planned from the holds in force *)
(* when the settlement began, and what a hold catches from the entries that  *)
(* were available when it began.  HeldIsNotAvailable needs both to be still  *)
(* true at the commit.                                                       *)

\* No settlement or release overlaps a hold that is being placed, or a reversal.
SettlesApart ==
    \A s, u \in Sessions :
        tx[s].op \in {"settle", "release"} => tx[u].op \notin {"hold", "reverse"}

\* The holds that will be in force when the session has committed its plan.
HoldsKept(t) == IF t.op = "release" THEN ActiveHolds \ t.hs ELSE ActiveHolds

\* What a session is about to make available is held by none of the others'
\* holds, and the hold it is about to place catches every available entry.
PlanRespectsHolds(t) ==
    /\ t.op \in {"settle", "release"} =>
           \A e \in Entries : t.moves[e] = "available" =>
               ~HeldBy(HoldsKept(t), e) /\ ~entry[e].reversedAt
    /\ t.op = "hold" =>
           \A e \in Entries :
               entry[e].status = "available" /\ t.scope \in {AllSources, HalfScoped, e} => e \in t.hit

AvailableIsEarned == \A e \in Entries : entry[e].status = "available" => ~entry[e].reversedAt

HoldInv ==
    /\ HeldIsNotAvailable
    /\ AvailableIsEarned
    /\ \A s \in Sessions : PlanRespectsHolds(tx[s])

(* Fewer holds hold fewer entries. *)
LEMMA FewerHolds ==
    ASSUME NEW H, NEW G, G \subseteq H, NEW e, HeldBy(G, e)
    PROVE  HeldBy(H, e)
    BY DEF HeldBy

(* The step of a session that leaves the rows alone and plans t. *)
LEMMA PlanKeepsHoldInv ==
    ASSUME TypeOK, HoldInv, NEW s \in Sessions, NEW t, tx' = [tx EXCEPT ![s] = t],
           UNCHANGED <<entry, hold>>, PlanRespectsHolds(t)
    PROVE  HoldInv'
<1>1. \A u \in Sessions : tx'[u] = IF u = s THEN t ELSE tx[u]
    BY DEF TypeOK
<1>2. \A u \in Sessions : PlanRespectsHolds(tx'[u])
    BY <1>1 DEF HoldInv
<1>3. (\A u \in Sessions : PlanRespectsHolds(tx[u]))'
    <2> SUFFICES ASSUME NEW u \in Sessions PROVE PlanRespectsHolds(tx[u])'
        OBVIOUS
    <2>1. PlanRespectsHolds(tx'[u])
        BY <1>2
    <2> QED BY <2>1 DEF PlanRespectsHolds, HoldsKept, ActiveHolds, HeldBy
<1> QED BY <1>3 DEF HoldInv, HeldIsNotAvailable, AvailableIsEarned, Covered, ActiveHolds, HeldBy

(* A commit that makes nothing available and reverses nothing, while the      *)
(* holds stay.                                                                *)
LEMMA EntriesStayHeld ==
    ASSUME TypeOK, HoldInv, tx' = tx \/ \E s \in Sessions : tx' = [tx EXCEPT ![s] = Idle],
           UNCHANGED hold,
           \A e \in Entries : /\ entry'[e].status = "available" => entry[e].status = "available"
                              /\ entry'[e].reversedAt => entry[e].reversedAt
    PROVE  HoldInv'
<1>1. \A u \in Sessions : tx'[u] \in {tx[u], Idle}
    BY DEF TypeOK
<1>2. (\A u \in Sessions : PlanRespectsHolds(tx[u]))'
    <2> SUFFICES ASSUME NEW u \in Sessions PROVE PlanRespectsHolds(tx[u])'
        OBVIOUS
    <2>1. PlanRespectsHolds(tx[u])
        BY DEF HoldInv
    <2>2. CASE tx'[u] = tx[u]
        BY <2>1, <2>2 DEF PlanRespectsHolds, HoldsKept, ActiveHolds, HeldBy
    <2>3. CASE tx'[u] = Idle
        BY <2>3, IdleHasNoOp DEF PlanRespectsHolds
    <2> QED BY <1>1, <2>2, <2>3
<1> QED BY <1>2 DEF HoldInv, HeldIsNotAvailable, AvailableIsEarned, Covered, ActiveHolds, HeldBy

(* A settlement or a release makes available what no remaining hold covers.   *)
LEMMA SettlingKeepsHoldInv ==
    ASSUME TypeOK, HoldInv, SettlesApart, NEW s \in Sessions, tx[s].op \in {"settle", "release"},
           tx' = [tx EXCEPT ![s] = Idle], entry' = Moved(tx[s].moves),
           hold' \in [Holds -> Hold],
           {h \in Holds : hold'[h].state = "active"} \subseteq HoldsKept(tx[s]),
           \A h \in Holds : hold'[h].scope = hold[h].scope
    PROVE  HoldInv'
<1>1. tx[s].moves \in Moves /\ PlanRespectsHolds(tx[s])
    BY TxnFields DEF TypeOK, HoldInv
<1>2. \A u \in Sessions : tx'[u] = IF u = s THEN Idle ELSE tx[u]
    BY DEF TypeOK
<1>3. ActiveHolds' \subseteq HoldsKept(tx[s]) /\ HoldsKept(tx[s]) \subseteq ActiveHolds
    BY DEF ActiveHolds, HoldsKept
<1>4. \A H \in SUBSET Holds, e \in Entries : HeldBy(H, e)' => HeldBy(H, e)
    BY DEF HeldBy
<1>5. \A e \in Entries : /\ entry'[e].reversedAt = entry[e].reversedAt
                         /\ entry'[e].status = "available" =>
                                \/ entry[e].status = "available"
                                \/ tx[s].moves[e] = "available"
    <2> SUFFICES ASSUME NEW e \in Entries
                 PROVE  /\ entry'[e].reversedAt = entry[e].reversedAt
                        /\ entry'[e].status = "available" =>
                               \/ entry[e].status = "available"
                               \/ tx[s].moves[e] = "available"
        OBVIOUS
    <2>1. entry'[e] = IF tx[s].moves[e] = "keep" THEN entry[e]
                      ELSE [entry[e] EXCEPT !.status = tx[s].moves[e]]
        BY DEF Moved
    <2>2. entry[e] \in Entry
        BY DEF TypeOK
    <2> QED BY <2>1, <2>2 DEF Entry
<1>6. \A e \in Entries : entry'[e].status = "available" =>
          ~HeldBy(HoldsKept(tx[s]), e) /\ ~entry[e].reversedAt
    <2> SUFFICES ASSUME NEW e \in Entries, entry'[e].status = "available"
                 PROVE  ~HeldBy(HoldsKept(tx[s]), e) /\ ~entry[e].reversedAt
        OBVIOUS
    <2>1. CASE tx[s].moves[e] = "available"
        BY <1>1, <2>1 DEF PlanRespectsHolds
    <2>2. CASE entry[e].status = "available"
        BY <1>3, <2>2, FewerHolds DEF HoldInv, HeldIsNotAvailable, AvailableIsEarned, Covered
    <2> QED BY <1>5, <2>1, <2>2
<1>7. \A e \in Entries : Covered(e)' => HeldBy(HoldsKept(tx[s]), e)
    BY <1>3 DEF Covered, HeldBy, HoldsKept, ActiveHolds
<1>8. (\A u \in Sessions : PlanRespectsHolds(tx[u]))'
    <2> SUFFICES ASSUME NEW u \in Sessions PROVE PlanRespectsHolds(tx[u])'
        OBVIOUS
    <2>1. CASE u = s
        BY <1>2, <2>1, IdleHasNoOp DEF PlanRespectsHolds
    <2>2. CASE u # s
        <3>1. tx'[u] = tx[u] /\ PlanRespectsHolds(tx[u]) /\ tx[u].op # "hold"
            BY <1>2, <2>2 DEF SettlesApart, HoldInv
        <3>2. \A e \in Entries : HeldBy(HoldsKept(tx[u]), e)' => HeldBy(HoldsKept(tx[u]), e)
            BY <1>3, <3>1 DEF HoldsKept, HeldBy, ActiveHolds
        <3> QED BY <1>5, <1>6, <3>1, <3>2 DEF PlanRespectsHolds
    <2> QED BY <2>1, <2>2
<1> QED BY <1>5, <1>6, <1>7, <1>8 DEF HoldInv, HeldIsNotAvailable, AvailableIsEarned

(* A hold that is placed catches every available entry it covers.             *)
LEMMA PlacingKeepsHoldInv ==
    ASSUME TypeOK, HoldInv, SettlesApart, NEW s \in Sessions, CommitHold(s)
    PROVE  HoldInv'
<1>1. tx[s].op = "hold" /\ tx[s].h \in Holds /\ tx[s].scope \in HoldScopes
      /\ PlanRespectsHolds(tx[s])
    BY TxnFields DEF CommitHold, End, TypeOK, HoldInv
<1>2. \A u \in Sessions : tx'[u] = IF u = s THEN Idle ELSE tx[u]
    BY DEF CommitHold, End, TypeOK
<1>3. \A e \in Entries : /\ entry'[e].reversedAt = entry[e].reversedAt
                         /\ entry'[e].status = "available" =>
                                entry[e].status = "available" /\ e \notin tx[s].hit
    <2> SUFFICES ASSUME NEW e \in Entries
                 PROVE  /\ entry'[e].reversedAt = entry[e].reversedAt
                        /\ entry'[e].status = "available" =>
                               entry[e].status = "available" /\ e \notin tx[s].hit
        OBVIOUS
    <2>1. entry'[e] = IF e \in tx[s].hit THEN [entry[e] EXCEPT !.status = "held"] ELSE entry[e]
        BY DEF CommitHold
    <2>2. entry[e] \in Entry
        BY DEF TypeOK
    <2> QED BY <2>1, <2>2 DEF Entry
<1>4. \A e \in Entries : Covered(e)' => Covered(e) \/ tx[s].scope \in {AllSources, e}
    <2>1. hold' = [hold EXCEPT ![tx[s].h] = [state |-> "active", scope |-> tx[s].scope]]
        BY DEF CommitHold
    <2> QED BY <1>1, <2>1 DEF Covered, HeldBy, ActiveHolds, TypeOK
<1>5. (\A u \in Sessions : PlanRespectsHolds(tx[u]))'
    <2> SUFFICES ASSUME NEW u \in Sessions PROVE PlanRespectsHolds(tx[u])'
        OBVIOUS
    <2>1. CASE u = s
        BY <1>2, <2>1, IdleHasNoOp DEF PlanRespectsHolds
    <2>2. CASE u # s
        <3>1. tx'[u] = tx[u] /\ PlanRespectsHolds(tx[u]) /\ tx[u].op \notin {"settle", "release"}
            BY <1>1, <1>2, <2>2 DEF SettlesApart, HoldInv
        <3> QED BY <1>3, <3>1 DEF PlanRespectsHolds
    <2> QED BY <2>1, <2>2
<1> QED BY <1>1, <1>3, <1>4, <1>5 DEF HoldInv, HeldIsNotAvailable, AvailableIsEarned, PlanRespectsHolds

(* A reversal happens while nothing is being settled.                         *)
LEMMA ReversingKeepsHoldInv ==
    ASSUME TypeOK, HoldInv, SettlesApart, NEW s \in Sessions, CommitReverse(s)
    PROVE  HoldInv'
<1>1. tx[s].op = "reverse"
    BY DEF CommitReverse, End
<1>2. \A u \in Sessions : tx'[u] = IF u = s THEN Idle ELSE tx[u]
    BY DEF CommitReverse, End, TypeOK
<1>3. \A e \in Entries : entry'[e].status = "available" => entry'[e] = entry[e]
    <2>1. tx[s].e \in Entries
        BY <1>1, TxnFields DEF TypeOK
    <2>2. entry[tx[s].e] \in Entry
        BY <2>1 DEF TypeOK
    <2>3. entry'[tx[s].e].status = "reversed"
        BY <2>1, <2>2 DEF CommitReverse, Entry, TypeOK
    <2> QED BY <2>1, <2>3 DEF CommitReverse, TypeOK
<1>4. hold' = hold
    BY DEF CommitReverse
<1>5. (\A u \in Sessions : PlanRespectsHolds(tx[u]))'
    <2> SUFFICES ASSUME NEW u \in Sessions PROVE PlanRespectsHolds(tx[u])'
        OBVIOUS
    <2>1. CASE u = s
        BY <1>2, <2>1, IdleHasNoOp DEF PlanRespectsHolds
    <2>2. CASE u # s
        <3>1. tx'[u] = tx[u] /\ PlanRespectsHolds(tx[u]) /\ tx[u].op \notin {"settle", "release"}
            BY <1>1, <1>2, <2>2 DEF SettlesApart, HoldInv
        <3> QED BY <1>3, <3>1 DEF PlanRespectsHolds
    <2> QED BY <2>1, <2>2
<1> QED BY <1>3, <1>4, <1>5
        DEF HoldInv, HeldIsNotAvailable, AvailableIsEarned, Covered, ActiveHolds, HeldBy

(* What the handlers on earnings read respects the holds.                     *)
LEMMA EarningsKeepHoldInv ==
    ASSUME TypeOK, HoldInv, SettlesApart, NEW s \in Sessions, EarningsStep(s)
    PROVE  HoldInv'
<1>1. ASSUME NEW t, Begin(s, t), PlanRespectsHolds(t) PROVE HoldInv'
    BY <1>1, PlanKeepsHoldInv DEF Begin, rows
<1>2. ASSUME NEW e \in Entries, NEW g \in Grosses, BeginEarn(s, e, g) PROVE HoldInv'
    <2> DEFINE t == [op |-> "earn", e |-> e, gross |-> g, held |-> Covered(e)]
    <2>1. PlanRespectsHolds(t)
        BY DEF PlanRespectsHolds
    <2> QED BY <1>1, <1>2, <2>1 DEF BeginEarn
<1>3. CASE CommitEarn(s)
    <2>1. \A e \in Entries : /\ entry'[e].status = "available" => entry[e].status = "available"
                             /\ entry'[e].reversedAt => entry[e].reversedAt
        BY <1>3 DEF CommitEarn, NoEntry, TypeOK
    <2> QED BY <1>3, <2>1, EntriesStayHeld DEF CommitEarn, End
<1>4. CASE BeginSettle(s)
    <2> DEFINE t == [op |-> "settle", moves |-> SettleMoves(ActiveHolds)]
    <2>1. PlanRespectsHolds(t)
        BY DEF PlanRespectsHolds, SettleMoves, Settleable, HoldsKept
    <2> QED BY <1>1, <1>4, <2>1 DEF BeginSettle
<1>5. CASE CommitSettle(s)
    <2>1. /\ tx[s].op = "settle" /\ tx' = [tx EXCEPT ![s] = Idle]
          /\ entry' = Moved(tx[s].moves) /\ hold' = hold
        BY <1>5 DEF CommitSettle, End
    <2>2. {h \in Holds : hold'[h].state = "active"} \subseteq HoldsKept(tx[s])
        BY <2>1 DEF HoldsKept, ActiveHolds
    <2> QED BY <2>1, <2>2, SettlingKeepsHoldInv DEF TypeOK
<1>6. ASSUME NEW h \in Holds, NEW scope \in HoldScopes, BeginHold(s, h, scope) PROVE HoldInv'
    <2> DEFINE t == [op |-> "hold", h |-> h, scope |-> scope,
                     hit |-> {e \in Entries : Holdable(e) /\ scope \in {AllSources, HalfScoped, e}}]
    <2>1. PlanRespectsHolds(t)
        BY DEF PlanRespectsHolds, Holdable, HoldInv, AvailableIsEarned
    <2> QED BY <1>1, <1>6, <2>1 DEF BeginHold
<1>7. ASSUME NEW hs \in SUBSET Holds, BeginRelease(s, hs) PROVE HoldInv'
    <2> DEFINE t == [op |-> "release", hs |-> hs, moves |-> SettleMoves(ActiveHolds \ hs)]
    <2>1. PlanRespectsHolds(t)
        BY DEF PlanRespectsHolds, SettleMoves, Settleable, HoldsKept
    <2> QED BY <1>1, <1>7, <2>1 DEF BeginRelease
<1>8. CASE CommitRelease(s)
    <2>1. /\ tx[s].op = "release" /\ tx' = [tx EXCEPT ![s] = Idle]
          /\ entry' = Moved(tx[s].moves)
          /\ hold' = [h \in Holds |-> IF h \in tx[s].hs
                                      THEN [hold[h] EXCEPT !.state = "released"] ELSE hold[h]]
        BY <1>8 DEF CommitRelease, End
    <2>2. \A h \in Holds : /\ hold[h] \in Hold
                           /\ [hold[h] EXCEPT !.state = "released"] \in Hold
                           /\ [hold[h] EXCEPT !.state = "released"].state = "released"
                           /\ [hold[h] EXCEPT !.state = "released"].scope = hold[h].scope
        BY DEF TypeOK, Hold
    <2>3. \A h \in Holds : hold'[h].scope = hold[h].scope
        BY <2>1, <2>2
    <2>4. {h \in Holds : hold'[h].state = "active"} \subseteq HoldsKept(tx[s])
        BY <2>1, <2>2 DEF HoldsKept, ActiveHolds
    <2>5. hold' \in [Holds -> Hold]
        BY <2>1, <2>2
    <2> QED BY <2>1, <2>3, <2>4, <2>5, SettlingKeepsHoldInv
<1>9. ASSUME NEW e \in Entries, BeginReverse(s, e) PROVE HoldInv'
    <2>1. PlanRespectsHolds([op |-> "reverse", e |-> e])
        BY DEF PlanRespectsHolds
    <2> QED BY <1>1, <1>9, <2>1 DEF BeginReverse
<1>10. ASSUME NEW e \in Entries, NEW total \in Refunds, BeginAdjust(s, e, total) PROVE HoldInv'
    <2>1. PlanRespectsHolds([op |-> "adjust", e |-> e, total |-> total])
        BY DEF PlanRespectsHolds
    <2> QED BY <1>1, <1>10, <2>1 DEF BeginAdjust
<1>11. CASE CommitAdjust(s)
    <2>1. \A e \in Entries : entry[e] \in Entry
        BY DEF TypeOK
    <2>2. \A e \in Entries : entry'[e].status = entry[e].status
                             /\ entry'[e].reversedAt = entry[e].reversedAt
        BY <1>11, <2>1 DEF CommitAdjust, Entry, TypeOK
    <2> QED BY <1>11, <2>2, EntriesStayHeld DEF CommitAdjust, End
<1>12. ASSUME NEW h \in Holds, BeginReleaseHold(s, h) PROVE HoldInv'
    BY <1>7, <1>12 DEF BeginReleaseHold
<1>13. ASSUME NEW e \in Entries, BeginReleaseHoldsForSource(s, e) PROVE HoldInv'
    BY <1>7, <1>13 DEF BeginReleaseHoldsForSource, ActiveHolds
<1> QED BY <1>2, <1>3, <1>4, <1>5, <1>6, <1>8, <1>9, <1>10, <1>11, <1>12, <1>13,
           PlacingKeepsHoldInv, ReversingKeepsHoldInv DEF EarningsStep

(* The rest of the handlers, and the world, make nothing available.           *)
LEMMA OthersKeepHoldInv ==
    ASSUME TypeOK, HoldInv, NEW s \in Sessions, RequestStep(s) \/ WorkerStep(s) \/ Crash(s)
    PROVE  HoldInv'
<1>1. UNCHANGED <<entry, hold>>
    BY DEF RequestStep, WorkerStep, Crash, BeginRequest, CommitRequest, BeginApprove, CommitApprove,
           BeginReject, CommitReject, BeginMarkPaid, CommitMarkPaid, BeginExecute, CallStripe,
           CommitExecute, BeginTransferCreated, CommitTransferCreated, BeginTransferFailed,
           CommitTransferFailed, Begin, rows
<1>2. ASSUME NEW t, tx' = [tx EXCEPT ![s] = t], t.op \notin {"settle", "release", "hold"}
      PROVE  HoldInv'
    BY <1>1, <1>2, PlanKeepsHoldInv DEF PlanRespectsHolds
<1>3. CASE CallStripe(s)
    <2>1. PICK to : tx' = [tx EXCEPT ![s].to = to]
        BY <1>3 DEF CallStripe
    <2>2. tx[s] \in Txn /\ tx[s].op = "execute"
        BY <1>3 DEF CallStripe, TypeOK
    <2>3. [tx[s] EXCEPT !.to = to].op = "execute"
        BY <2>2 DEF Txn, Idle
    <2>4. tx' = [tx EXCEPT ![s] = [tx[s] EXCEPT !.to = to]]
        BY <2>1 DEF TypeOK
    <2> QED BY <1>2, <2>3, <2>4
<1>4. CASE tx' = [tx EXCEPT ![s] = Idle]
    BY <1>2, <1>4, IdleHasNoOp
<1>5. ASSUME NEW r \in Requests, NEW amount \in Amounts, BeginRequest(s, r, amount) PROVE HoldInv'
    BY <1>2, <1>5 DEF BeginRequest, Begin
<1>6. ASSUME NEW r \in Requests, BeginApprove(s, r) PROVE HoldInv'
    BY <1>2, <1>6 DEF BeginApprove, Begin
<1>7. ASSUME NEW r \in Requests, BeginReject(s, r) \/ BeginMarkPaid(s, r) \/ BeginExecute(s, r)
                                 \/ BeginTransferCreated(s, r) \/ BeginTransferFailed(s, r)
      PROVE  HoldInv'
    BY <1>2, <1>7 DEF BeginReject, BeginMarkPaid, BeginExecute, BeginTransferCreated,
                      BeginTransferFailed, Begin
<1> QED BY <1>3, <1>4, <1>5, <1>6, <1>7
        DEF RequestStep, WorkerStep, Crash, CommitRequest, CommitApprove, CommitReject,
            CommitMarkPaid, CommitExecute, CommitTransferCreated, CommitTransferFailed, End

(* Time and the world change no hold and no status of an entry. *)
LEMMA WorldKeepsHoldInv ==
    ASSUME TypeOK, HoldInv, World \/ UNCHANGED vars
    PROVE  HoldInv'
<1>1. UNCHANGED <<hold, tx>>
    BY DEF World, Mature, WeekPasses, AccountChanges, Bounce, vars, rows
<1>2. \A e \in Entries : entry[e] \in Entry /\ [entry[e] EXCEPT !.due = TRUE].status = entry[e].status
                         /\ [entry[e] EXCEPT !.due = TRUE].reversedAt = entry[e].reversedAt
    BY DEF TypeOK, Entry
<1>3. \A e \in Entries : entry'[e].status = entry[e].status
                         /\ entry'[e].reversedAt = entry[e].reversedAt
    <2>1. CASE UNCHANGED entry
        BY <2>1
    <2>2. ASSUME NEW d \in Entries, Mature(d)
          PROVE  \A e \in Entries : entry'[e].status = entry[e].status
                                    /\ entry'[e].reversedAt = entry[e].reversedAt
        BY <1>2, <2>2 DEF Mature, TypeOK
    <2> QED BY <2>1, <2>2 DEF World, WeekPasses, AccountChanges, Bounce, vars, rows
<1> QED BY <1>1, <1>3, EntriesStayHeld

(* HoldInv holds initially. *)
LEMMA InitHoldInv == Init => HoldInv
    BY DEF Init, HoldInv, HeldIsNotAvailable, AvailableIsEarned, PlanRespectsHolds, NoEntry, Idle

(* Every step keeps it while settlements and holds stay apart. *)
LEMMA NextHoldInv == TypeOK /\ SettlesApart /\ HoldInv /\ [Next]_vars => HoldInv'
    BY EarningsKeepHoldInv, OthersKeepHoldInv, WorldKeepsHoldInv DEF Next

(* An entry under a hold cannot be paid out, whatever else overlaps or        *)
(* crashes, as long as no settlement overlaps a hold being placed or a        *)
(* reversal: the race that loses a hold is that one alone.                    *)
THEOREM HeldStaysHeld == Spec /\ []SettlesApart => []HeldIsNotAvailable
<1>1. HoldInv => HeldIsNotAvailable
    BY DEF HoldInv
<1> QED BY <1>1, TypeCorrect, InitHoldInv, NextHoldInv, PTL DEF Spec

----------------------------------------------------------------------------
(* Sums.  Used adds up allocations with a fold, by an order nobody chose.     *)
(* What it adds up to is proved by a least counterexample, in numbers of      *)
(* elements: the sum exists, is unique, and any element may be taken last.    *)

(* A set of naturals has a least one. *)
LEMMA LeastNumber ==
    ASSUME NEW T \in SUBSET Nat, T # {}
    PROVE  \E x \in T : \A y \in T : x <= y
<1> DEFINE R == {ss \in Nat \X Nat : ss[1] < ss[2]}
<1>1. IsWellFoundedOn(R, Nat)
    BY NatLessThanWellFounded DEF OpToRel
<1>2. PICK x \in T : \A y \in T : ~ (<<y, x>> \in R)
    <2> HIDE DEF R
    <2> QED BY <1>1, WFMin
<1>3. ASSUME NEW y \in T PROVE x <= y
    <2>1. ~ (<<y, x>> \in R)
        BY <1>2
    <2>2. y < x => <<y, x>> \in R
        OBVIOUS
    <2> QED BY <2>1, <2>2
<1> QED BY <1>2, <1>3

\* The element that the fold takes first.
First(s) == CHOOSE x \in s : TRUE
\* f sums v over the subsets of S.
Adds(f, v, S) ==
    \A s \in SUBSET S : f[s] = IF s = {} THEN 0 ELSE v[First(s)] + f[s \ {First(s)}]
IsSum(f, v, S) == IsFiniteSet(S) /\ v \in [S -> Nat] /\ f \in [SUBSET S -> Nat] /\ Adds(f, v, S)

(* Without one of its elements a finite set has one element less. *)
LEMMA Smaller ==
    ASSUME NEW s, IsFiniteSet(s), NEW a \in s
    PROVE  /\ Cardinality(s) \in Nat \ {0} /\ IsFiniteSet(s \ {a})
           /\ Cardinality(s \ {a}) = Cardinality(s) - 1
    BY FS_RemoveElement, FS_CardinalityType, FS_EmptySet

(* The first element is an element. *)
LEMMA FirstIn == \A s : s # {} => First(s) \in s
    BY DEF First

(* Amounts over a finite set have a sum. *)
LEMMA SumExists ==
    ASSUME NEW S, IsFiniteSet(S), NEW v \in [S -> Nat]
    PROVE  \E f : IsSum(f, v, S)
<1> DEFINE Small(n) == {s \in SUBSET S : Cardinality(s) <= n}
           Partial(f, n) ==
               \A s \in Small(n) : f[s] = IF s = {} THEN 0 ELSE v[First(s)] + f[s \ {First(s)}]
           Missing == {n \in Nat : ~ \E f \in [SUBSET S -> Nat] : Partial(f, n)}
<1>0. \A s \in SUBSET S : IsFiniteSet(s) /\ Cardinality(s) \in Nat /\ Cardinality(s) <= Cardinality(S)
    BY FS_Subset, FS_CardinalityType
<1>1. Missing = {}
    <2> SUFFICES ASSUME Missing # {} PROVE FALSE OBVIOUS
    <2>1. PICK n \in Missing : \A m \in Missing : n <= m
        <3>1. Missing \in SUBSET Nat OBVIOUS
        <3> HIDE DEF Missing
        <3> QED BY <3>1, LeastNumber
    <2>2. CASE n = 0
        <3> DEFINE f == [s \in SUBSET S |-> 0]
        <3>1. \A s \in Small(0) : s = {}
            BY <1>0, FS_EmptySet
        <3>2. f \in [SUBSET S -> Nat]
            OBVIOUS
        <3>3. Partial(f, 0)
            <4> HIDE DEF Small
            <4>1. \A s \in Small(0) : s \in SUBSET S BY DEF Small
            <4> QED BY <3>1, <4>1
        <3> QED BY <2>1, <2>2, <3>2, <3>3
    <2>3. CASE n # 0
        <3>1. n \in Nat /\ n - 1 \in Nat /\ ~ (n <= n - 1)
            BY <2>1, <2>3
        <3>a. n - 1 \notin Missing
            <4> HIDE DEF Missing
            <4> QED BY <2>1, <3>1
        <3>2. PICK g \in [SUBSET S -> Nat] : Partial(g, n - 1)
            BY <3>1, <3>a
        <3> DEFINE f == [s \in SUBSET S |-> IF s = {} THEN 0 ELSE v[First(s)] + g[s \ {First(s)}]]
        <3>3. f \in [SUBSET S -> Nat]
            <4> SUFFICES ASSUME NEW s \in SUBSET S, s # {} PROVE v[First(s)] + g[s \ {First(s)}] \in Nat
                OBVIOUS
            <4>1. First(s) \in S BY DEF First
            <4> QED BY <4>1
        <3>4. ASSUME NEW s \in Small(n), s # {} PROVE f[s \ {First(s)}] = g[s \ {First(s)}]
            <4> DEFINE t == s \ {First(s)}
            <4>1. t \in Small(n - 1)
                BY <1>0, <3>4, <2>1, FirstIn, Smaller
            <4>2. g[t] = IF t = {} THEN 0 ELSE v[First(t)] + g[t \ {First(t)}]
                BY <3>2, <4>1
            <4> QED BY <4>2, <4>1
        <3>5. Partial(f, n)
            BY <3>4
        <3> QED BY <2>1, <3>3, <3>5
    <2> QED BY <2>2, <2>3
<1>2. Cardinality(S) \in Nat BY <1>0
<1>3. PICK f \in [SUBSET S -> Nat] : Partial(f, Cardinality(S))
    BY <1>1, <1>2
<1>4. Adds(f, v, S)
    BY <1>0, <1>3 DEF Adds
<1> QED BY <1>4 DEF IsSum

(* There is one sum only. *)
LEMMA SumIsUnique ==
    ASSUME NEW S, IsFiniteSet(S), NEW v, NEW f, NEW g, Adds(f, v, S), Adds(g, v, S)
    PROVE  \A s \in SUBSET S : f[s] = g[s]
<1> DEFINE Differ == {n \in Nat : \E s \in SUBSET S : Cardinality(s) = n /\ f[s] # g[s]}
<1>1. Differ = {}
    <2> SUFFICES ASSUME Differ # {} PROVE FALSE OBVIOUS
    <2>1. PICK n \in Differ : \A m \in Differ : n <= m
        <3>1. Differ \in SUBSET Nat OBVIOUS
        <3> HIDE DEF Differ
        <3> QED BY <3>1, LeastNumber
    <2>2. PICK s \in SUBSET S : Cardinality(s) = n /\ f[s] # g[s]
        BY <2>1
    <2>3. s # {} /\ IsFiniteSet(s)
        BY <2>2, FS_Subset DEF Adds
    <2>4. f[s \ {First(s)}] # g[s \ {First(s)}]
        BY <2>2, <2>3 DEF Adds
    <2>a. Cardinality(s) \in Nat \ {0} /\ Cardinality(s \ {First(s)}) = Cardinality(s) - 1
        BY <2>3, FirstIn, Smaller
    <2>5. Cardinality(s \ {First(s)}) = n - 1 /\ n - 1 \in Nat /\ ~ (n <= n - 1)
        BY <2>2, <2>a
    <2>6. n - 1 \in Differ
        BY <2>4, <2>5
    <2> HIDE DEF Differ
    <2> QED BY <2>1, <2>5, <2>6
<1>2. \A s \in SUBSET S : Cardinality(s) \in Nat
    BY FS_Subset, FS_CardinalityType
<1> QED BY <1>1, <1>2

\* Any element may be added last.
Splits(f, v, S) == \A s \in SUBSET S : \A a \in s : f[s] = v[a] + f[s \ {a}]

(* A sum does not depend on the order it is taken in. *)
LEMMA SumSplit ==
    ASSUME NEW S, NEW v, NEW f, IsSum(f, v, S)
    PROVE  Splits(f, v, S)
<1> SUFFICES ASSUME NEW s \in SUBSET S, NEW a \in s
             PROVE  f[s] = v[a] + f[s \ {a}]
    BY DEF Splits
<1> USE DEF IsSum
<1> DEFINE Odd(t, b) == f[t] # v[b] + f[t \ {b}]
           Differ == {n \in Nat : \E t \in SUBSET S : Cardinality(t) = n /\ \E b \in t : Odd(t, b)}
<1>0. \A t \in SUBSET S : IsFiniteSet(t) /\ Cardinality(t) \in Nat
    BY FS_Subset, FS_CardinalityType
<1>1. Differ = {}
    <2> SUFFICES ASSUME Differ # {} PROVE FALSE OBVIOUS
    <2>1. PICK n \in Differ : \A m \in Differ : n <= m
        <3>1. Differ \in SUBSET Nat OBVIOUS
        <3> HIDE DEF Differ
        <3> QED BY <3>1, LeastNumber
    <2>2. PICK t \in SUBSET S : Cardinality(t) = n /\ \E c \in t : Odd(t, c)
        BY <2>1
    <2>3. PICK c \in t : Odd(t, c)
        BY <2>2
    <2> DEFINE x == First(t)
    <2>4. x \in t /\ f[t] = v[x] + f[t \ {x}]
        BY <2>3 DEF Adds, First
    <2>5. x # c
        BY <2>3, <2>4
    <2>6. \A b \in t : Cardinality(t \ {b}) = n - 1 /\ n - 1 \in Nat
        BY <1>0, <2>2, Smaller
    <2>7. ~ (n <= n - 1)
        BY <2>1
    <2>8. n - 1 \notin Differ
        <3> HIDE DEF Differ
        <3> QED BY <2>1, <2>7
    <2>9. \A u \in SUBSET S : Cardinality(u) = n - 1 => \A b \in u : ~Odd(u, b)
        BY <2>8, <2>6, <2>3
    <2>10. ~Odd(t \ {x}, c) /\ ~Odd(t \ {c}, x)
        <3> HIDE DEF Odd, x
        <3> QED BY <2>9, <2>6, <2>4, <2>5, <2>3
    <2>11. (t \ {x}) \ {c} = (t \ {c}) \ {x} /\ (t \ {x}) \ {c} \in SUBSET S /\ t \ {c} \in SUBSET S
        OBVIOUS
    <2>12. v[x] \in Nat /\ v[c] \in Nat /\ f[(t \ {x}) \ {c}] \in Nat
        BY <2>4, <2>11
    <2> HIDE DEF x
    <2>13. f[t \ {x}] = v[c] + f[(t \ {x}) \ {c}] /\ f[t \ {c}] = v[x] + f[(t \ {x}) \ {c}]
        BY <2>10, <2>11
    <2>14. f[t] # v[c] + f[t \ {c}]
        BY <2>3
    <2> HIDE DEF Odd, Differ
    <2> QED BY <2>4, <2>12, <2>13, <2>14
<1> HIDE DEF Odd
<1>2. ~Odd(s, a)
    BY <1>0, <1>1
<1> QED BY <1>2 DEF Odd

(* More or larger amounts add up to no less. *)
LEMMA SumGrows ==
    ASSUME NEW S, NEW T, S \subseteq T, NEW v, NEW f, IsSum(f, v, S), NEW w, NEW g, IsSum(g, w, T),
           \A x \in S : v[x] <= w[x]
    PROVE  f[S] <= g[T]
<1>a. Splits(f, v, S) /\ Splits(g, w, T)
    BY SumSplit
<1>c. f[{}] = 0
    BY DEF IsSum, Adds
<1>d. /\ v \in [S -> Nat] /\ w \in [T -> Nat] /\ IsFiniteSet(T)
      /\ f \in [SUBSET S -> Nat] /\ g \in [SUBSET T -> Nat]
    BY DEF IsSum
<1> DEFINE Bad == {n \in Nat : \E s \in SUBSET S, t \in SUBSET T :
                                  Cardinality(s) = n /\ s \subseteq t /\ ~ (f[s] <= g[t])}
<1>0. \A s \in SUBSET S : IsFiniteSet(s) /\ Cardinality(s) \in Nat
    BY <1>d, FS_Subset, FS_CardinalityType
<1>1. Bad = {}
    <2> SUFFICES ASSUME Bad # {} PROVE FALSE OBVIOUS
    <2>1. PICK n \in Bad : \A m \in Bad : n <= m
        <3>1. Bad \in SUBSET Nat OBVIOUS
        <3> HIDE DEF Bad
        <3> QED BY <3>1, LeastNumber
    <2>2. PICK s \in SUBSET S, t \in SUBSET T : Cardinality(s) = n /\ s \subseteq t /\ ~ (f[s] <= g[t])
        BY <2>1
    <2>3. s # {}
        <3> HIDE DEF Bad
        <3>1. g[t] \in Nat
            BY <1>d
        <3> SUFFICES ASSUME s = {} PROVE FALSE
            OBVIOUS
        <3> QED BY <1>c, <2>2, <3>1
    <2>4. PICK a : a \in s
        BY <2>3
    <2>5. f[s] = v[a] + f[s \ {a}] /\ g[t] = w[a] + g[t \ {a}]
        <3> HIDE DEF Bad
        <3> QED BY <1>a, <2>2, <2>4 DEF Splits
    <2>6. Cardinality(s \ {a}) = n - 1 /\ n - 1 \in Nat /\ ~ (n <= n - 1)
        <3>1. Cardinality(s) \in Nat \ {0} /\ Cardinality(s \ {a}) = Cardinality(s) - 1
            BY <1>0, <2>4, Smaller
        <3> QED BY <3>1, <2>2
    <2>7. n - 1 \notin Bad
        <3> HIDE DEF Bad
        <3> QED BY <2>1, <2>6
    <2>8. f[s \ {a}] <= g[t \ {a}]
        BY <2>2, <2>6, <2>7
    <2>9. v[a] \in Nat /\ w[a] \in Nat /\ f[s \ {a}] \in Nat /\ g[t \ {a}] \in Nat /\ v[a] <= w[a]
        BY <1>d, <2>2, <2>4
    <2> QED BY <2>2, <2>5, <2>8, <2>9
<1> QED BY <1>0, <1>1

\* What the requests R have of entry e, allocated as a says.
Spent(a, e, R) == MapThenSumSet(LAMBDA r : a[r][e], R)

(* The fold computes the sum. *)
LEMMA SpentAdds ==
    ASSUME NEW a, NEW e, NEW R, IsFiniteSet(R), \A r \in R : a[r][e] \in Nat
    PROVE  \E f : IsSum(f, [r \in R |-> a[r][e]], R) /\ Spent(a, e, R) = f[R]
<1> DEFINE v == [r \in R |-> a[r][e]]
           Sum(g) == [s \in SUBSET R |-> IF s = {} THEN 0
                        ELSE a[CHOOSE x \in s : TRUE][e] + g[s \ {CHOOSE x \in s : TRUE}]]
           iter == CHOOSE g : g = Sum(g)
<1>1. Spent(a, e, R) = iter[R]
    BY DEF Spent, MapThenSumSet, MapThenFoldSet
<1>2. PICK f : IsSum(f, v, R)
    <2>1. v \in [R -> Nat]
        OBVIOUS
    <2> HIDE DEF v
    <2> QED BY <2>1, SumExists
<1>3. \A s \in SUBSET R : s # {} => v[First(s)] = a[CHOOSE x \in s : TRUE][e]
    BY DEF First
<1>4. f = Sum(f)
    BY <1>2, <1>3 DEF IsSum, Adds, First
<1>5. iter = Sum(iter)
    BY <1>4
<1>6. IsSum(iter, v, R)
    <2>1. Adds(iter, v, R)
        <3>1. \A s \in SUBSET R : iter[s] = Sum(iter)[s]
            BY <1>5
        <3> HIDE DEF v, iter
        <3> QED BY <3>1, <1>3 DEF Adds, First
    <2>2. \A s \in SUBSET R : iter[s] = f[s]
        <3> HIDE DEF iter, v
        <3> QED BY <2>1, <1>2, SumIsUnique DEF IsSum
    <2>3. iter = [s \in SUBSET R |-> iter[s]]
        BY <1>5
    <2>4. iter \in [SUBSET R -> Nat]
        <3> HIDE DEF iter, v
        <3> QED BY <1>2, <2>2, <2>3 DEF IsSum
    <2> HIDE DEF iter
    <2> QED BY <1>2, <2>1, <2>4 DEF IsSum
<1> QED BY <1>1, <1>6

(* Used is what the reserving requests have of the entry. *)
LEMMA UsedIsSpent ==
    ASSUME NEW e
    PROVE  Used(e) = Spent(alloc, e, {r \in Requests : req[r].status \in ReservingStatus})
    BY DEF Used, Spent

(* So it is in the next state. *)
LEMMA UsedIsSpentNext ==
    ASSUME NEW e
    PROVE  Used(e)' = Spent(alloc', e, {r \in Requests : req'[r].status \in ReservingStatus})
    BY DEF Used, Spent, MapThenSumSet, MapThenFoldSet

(* The share of a sum is the sum of the shares. *)
LEMMA ShareAdds ==
    ASSUME NEW x \in Nat, NEW n \in Nat, NEW p \in 0..100
    PROVE  (x + n) * p = x * p + n * p
    BY SMT

(* A percentage takes at most the whole. *)
LEMMA ShareIsPart == ASSUME NEW n \in Nat, NEW p \in 0..100 PROVE n * p \in Nat /\ n * p <= n * 100
    BY SMT

(* What is left after the fee is an amount, and grows with the gross amount.  *)
LEMMA NetGrows ==
    ASSUME NEW x \in Nat, NEW y \in Nat, x <= y
    PROVE  x - Fee(x) \in Nat /\ y - Fee(y) \in Nat /\ x - Fee(x) <= y - Fee(y)
<1> DEFINE n == y - x
           a == x * FeePercent
           b == n * FeePercent
<1>1. n \in Nat /\ y = x + n /\ FeePercent \in 0..100
    <2>1. y - x \in Nat /\ y = x + (y - x)
        OBVIOUS
    <2>2. FeePercent \in 0..100
        BY PayoutsAssumption
    <2> QED BY <2>1, <2>2
<1>2. y * FeePercent = a + b
    <2> HIDE DEF n
    <2> QED BY <1>1, ShareAdds
<1>3. a \in Nat /\ b \in Nat /\ a <= x * 100 /\ b <= n * 100
    <2> HIDE DEF n
    <2> QED BY <1>1, ShareIsPart
<1>4. Fee(x) = (a + 50) \div 100 /\ Fee(y) = (a + b + 50) \div 100
    BY <1>2 DEF Fee
<1> HIDE DEF a, b, n
<1>5. (a + 50) \div 100 <= x /\ (a + b + 50) \div 100 <= (a + 50) \div 100 + n
    BY <1>1, <1>3
<1>6. (a + 50) \div 100 \in Nat /\ (a + b + 50) \div 100 \in Nat
    BY <1>3
<1> QED BY <1>1, <1>4, <1>5, <1>6

----------------------------------------------------------------------------
(* Double spending.  An approval allocates from what it read to be free; two  *)
(* that overlap read the same, and a payout paid after its allocations were   *)
(* given up takes them back.  Without either, no entry is spent twice.        *)

\* One admin at a time approves this photographer's payouts.
ApprovalsApart ==
    \A s, u \in Sessions : tx[s].op = "approve" /\ tx[u].op = "approve" => s = u

\* A payout that failed, or was rejected after its approval, stays so.
NothingRevived ==
    \A r \in Requests :
        req[r].approvedAt /\ req[r].status \notin ReservingStatus
            => req'[r].status \notin ReservingStatus

\* What an approval is about to allocate fits beside what is allocated, and its
\* request has nothing yet.
PlanFits(t) ==
    t.op = "approve" =>
        /\ ~req[t.r].approvedAt
        /\ \A e \in Entries : t.plan[e] + Used(e) <= OriginalNet(e)

\* What is used of each entry, and is planned to be, was earned.
SpendInv ==
    /\ NoDoubleSpend
    /\ \A r \in Requests : ~req[r].approvedAt => \A e \in Entries : alloc[r][e] = 0
    /\ \A r \in Requests : req[r].status = "requested" => ~req[r].approvedAt
    /\ \A e \in Entries : entry[e].status = "none" => entry[e].original = 0
    /\ \A s \in Sessions : PlanFits(tx[s])

(* Part of a sum is the sum of that part.                                     *)
LEMMA SumOfPart ==
    ASSUME NEW S, NEW T, S \subseteq T, NEW v, NEW f, IsSum(f, v, S), NEW w, NEW g, IsSum(g, w, T),
           \A x \in S : v[x] = w[x]
    PROVE  f[S] = g[S]
<1>1. Adds(f, v, S) /\ IsFiniteSet(S)
    BY DEF IsSum
<1>2. Adds(g, v, S)
    <2> SUFFICES ASSUME NEW s \in SUBSET S
                 PROVE  g[s] = IF s = {} THEN 0 ELSE v[First(s)] + g[s \ {First(s)}]
        BY DEF Adds
    <2>1. g[s] = IF s = {} THEN 0 ELSE w[First(s)] + g[s \ {First(s)}]
        BY DEF IsSum, Adds
    <2>2. s # {} => v[First(s)] = w[First(s)]
        BY FirstIn
    <2> QED BY <2>1, <2>2
<1> QED BY <1>1, <1>2, SumIsUnique

(* Fewer requests, with the same allocations, have no more of an entry.       *)
LEMMA SpentShrinks ==
    ASSUME NEW a, NEW e, NEW R, NEW Q, Q \subseteq R, IsFiniteSet(R), \A r \in R : a[r][e] \in Nat
    PROVE  Spent(a, e, Q) \in Nat /\ Spent(a, e, R) \in Nat /\ Spent(a, e, Q) <= Spent(a, e, R)
<1>1. IsFiniteSet(Q) /\ \A r \in Q : a[r][e] \in Nat
    BY FS_Subset
<1> DEFINE v == [r \in Q |-> a[r][e]]
           w == [r \in R |-> a[r][e]]
<1>2. PICK f : IsSum(f, v, Q) /\ Spent(a, e, Q) = f[Q]
    BY <1>1, SpentAdds
<1>3. PICK g : IsSum(g, w, R) /\ Spent(a, e, R) = g[R]
    BY SpentAdds
<1>4. \A r \in Q : v[r] <= w[r]
    BY <1>1
<1> HIDE DEF v, w
<1>5. f[Q] <= g[R]
    BY <1>2, <1>3, <1>4, SumGrows
<1>6. f[Q] \in Nat /\ g[R] \in Nat
    BY <1>2, <1>3 DEF IsSum
<1> QED BY <1>2, <1>3, <1>5, <1>6

(* A request more has what it was allocated more.                             *)
LEMMA SpentGrows ==
    ASSUME NEW a, NEW b, NEW e, NEW R, IsFiniteSet(R), NEW r, r \notin R,
           \A q \in R : a[q][e] \in Nat /\ b[q][e] = a[q][e], b[r][e] \in Nat
    PROVE  Spent(b, e, R \cup {r}) = b[r][e] + Spent(a, e, R)
<1> DEFINE T == R \cup {r}
           v == [q \in R |-> a[q][e]]
           w == [q \in T |-> b[q][e]]
<1>1. IsFiniteSet(T) /\ \A q \in T : b[q][e] \in Nat
    BY FS_AddElement
<1>2. PICK f : IsSum(f, v, R) /\ Spent(a, e, R) = f[R]
    BY SpentAdds
<1>3. PICK g : IsSum(g, w, T) /\ Spent(b, e, T) = g[T]
    <2> HIDE DEF T
    <2> QED BY <1>1, SpentAdds
<1>4. (\A q \in R : v[q] = w[q]) /\ w[r] = b[r][e]
    OBVIOUS
<1>5. R \subseteq T /\ T \ {r} = R /\ r \in T /\ T \in SUBSET T
    OBVIOUS
<1> HIDE DEF v, w, T
<1>6. f[R] = g[R]
    BY <1>2, <1>3, <1>4, <1>5, SumOfPart
<1>7. Splits(g, w, T)
    BY <1>3, SumSplit
<1>8. g[T] = w[r] + g[T \ {r}]
    BY <1>5, <1>7 DEF Splits
<1> QED BY <1>2, <1>3, <1>4, <1>5, <1>6, <1>8 DEF T

(* What is used of an entry is an amount. *)
LEMMA UsedType == ASSUME TypeOK, NEW e \in Entries PROVE Used(e) \in Nat
<1> DEFINE R == {r \in Requests : req[r].status \in ReservingStatus}
<1>1. IsFiniteSet(R)
    BY PayoutsAssumption, FS_Subset
<1>2. \A r \in R : alloc[r][e] \in Nat
    BY DEF TypeOK
<1> HIDE DEF R
<1>3. Spent(alloc, e, R) \in Nat
    BY <1>1, <1>2, SpentShrinks
<1> QED BY <1>3, UsedIsSpent DEF R

(* A step that approves nothing uses nothing more. *)
LEMMA UsedShrinks ==
    ASSUME TypeOK, MoneyInv', NothingRevived, alloc' = alloc,
           \A r \in Requests : req'[r].approvedAt => req[r].approvedAt, NEW e \in Entries
    PROVE  Used(e)' \in Nat /\ Used(e)' <= Used(e)
<1> DEFINE R == {r \in Requests : req[r].status \in ReservingStatus}
           Q == {r \in Requests : req'[r].status \in ReservingStatus}
<1>1. Q \subseteq R
    BY DEF MoneyInv, AfterApproval, NothingRevived
<1>2. IsFiniteSet(R)
    BY PayoutsAssumption, FS_Subset
<1>3. \A r \in R : alloc[r][e] \in Nat
    BY DEF TypeOK
<1> HIDE DEF R, Q
<1>4. Spent(alloc, e, Q) \in Nat /\ Spent(alloc, e, Q) <= Spent(alloc, e, R)
    BY <1>1, <1>2, <1>3, SpentShrinks
<1>5. Used(e) = Spent(alloc, e, R)
    BY UsedIsSpent DEF R
<1>6. Used(e)' = Spent(alloc, e, Q)
    BY UsedIsSpentNext DEF Q
<1> QED BY <1>4, <1>5, <1>6

(* What an entry earned is never taken back: it is written once.              *)
OriginalsKept ==
    \A e \in Entries :
        /\ entry[e].status = "none" \/ entry'[e].original = entry[e].original
        /\ entry'[e].status = "none" => entry'[e].original = 0

(* Nor what it is worth. *)
LEMMA WorthKept ==
    ASSUME TypeOK, TypeOK', SpendInv, OriginalsKept, NEW e \in Entries
    PROVE  OriginalNet(e) \in Nat /\ OriginalNet(e)' \in Nat /\ OriginalNet(e) <= OriginalNet(e)'
<1>1. entry[e].original \in Nat /\ entry'[e].original \in Nat
    BY DEF TypeOK, Entry
<1>2. entry[e].original <= entry'[e].original
    BY <1>1 DEF OriginalsKept, SpendInv
<1>3. OriginalNet(e)' = entry'[e].original - Fee(entry'[e].original)
    BY DEF OriginalNet, Fee
<1> QED BY <1>1, <1>2, <1>3, NetGrows DEF OriginalNet

(* A step that approves nothing keeps the invariant, if what it plans fits.   *)
LEMMA QuietStepKeepsSpendInv ==
    ASSUME TypeOK, TypeOK', MoneyInv', SpendInv, NothingRevived, OriginalsKept, alloc' = alloc,
           \A r \in Requests : /\ req'[r].approvedAt = req[r].approvedAt
                               /\ req'[r].status = "requested" => ~req'[r].approvedAt,
           \A s \in Sessions : tx'[s] = tx[s] \/ PlanFits(tx'[s])
    PROVE  SpendInv'
<1>1. \A e \in Entries : Used(e) \in Nat /\ Used(e)' \in Nat /\ Used(e)' <= Used(e)
    BY UsedType, UsedShrinks
<1>2. \A e \in Entries : OriginalNet(e) \in Nat /\ OriginalNet(e)' \in Nat
                         /\ OriginalNet(e) <= OriginalNet(e)'
    BY WorthKept
<1>3. NoDoubleSpend'
    BY <1>1, <1>2 DEF NoDoubleSpend, SpendInv
<1>4. (\A s \in Sessions : PlanFits(tx[s]))'
    <2> SUFFICES ASSUME NEW s \in Sessions, tx'[s].op = "approve"
                 PROVE  /\ ~req'[tx'[s].r].approvedAt
                        /\ \A e \in Entries : tx'[s].plan[e] + Used(e)' <= OriginalNet(e)'
        BY DEF PlanFits
    <2>1. tx'[s].r \in Requests /\ tx'[s].plan \in [Entries -> Nat]
        BY TxnFields DEF TypeOK
    <2>2. PlanFits(tx'[s])
        BY DEF SpendInv
    <2>3. \A e \in Entries : tx'[s].plan[e] + Used(e) <= OriginalNet(e)
        BY <2>2 DEF PlanFits
    <2>4. ~req'[tx'[s].r].approvedAt
        BY <2>1, <2>2 DEF PlanFits
    <2> QED BY <1>1, <1>2, <2>1, <2>3, <2>4
<1>5. \A r \in Requests : ~req'[r].approvedAt => \A e \in Entries : alloc'[r][e] = 0
    BY DEF SpendInv
<1> QED BY <1>3, <1>4, <1>5 DEF SpendInv, OriginalsKept

(* The greedy plan takes what is free of the entries' present worth.          *)
LEMMA ApprovalFits ==
    ASSUME TypeOK, SpendInv, NEW s \in Sessions, NEW r \in Requests, BeginApprove(s, r)
    PROVE  PlanFits(tx'[s]) /\ UNCHANGED <<entry, req, alloc>>
           /\ \A u \in Sessions \ {s} : tx'[u] = tx[u]
<1>1. PICK plan \in [Entries -> 0..req[r].amount] :
          Greedy(plan, req[r].amount) /\ Begin(s, [op |-> "approve", r |-> r, plan |-> plan])
    BY DEF BeginApprove
<1>2. tx' = [tx EXCEPT ![s] = [op |-> "approve", r |-> r, plan |-> plan]]
      /\ UNCHANGED <<entry, req, alloc>>
    BY <1>1 DEF Begin, rows
<1>3. tx'[s] = [op |-> "approve", r |-> r, plan |-> plan]
      /\ \A u \in Sessions \ {s} : tx'[u] = tx[u]
    BY <1>2 DEF TypeOK
<1>4. req[r].status = "requested" /\ req[r].amount \in Nat
    BY DEF BeginApprove, TypeOK, Request
<1>5. ASSUME NEW e \in Entries PROVE plan[e] + Used(e) <= OriginalNet(e)
    <2>1. plan[e] \in Nat /\ plan[e] <= Free(e) /\ Used(e) \in Nat /\ Used(e) <= OriginalNet(e)
        BY <1>1, <1>4, UsedType DEF Greedy, SpendInv, NoDoubleSpend
    <2>2. entry[e].original \in Nat /\ entry[e].refunded \in Nat
        BY DEF TypeOK, Entry
    <2>3. Gross(e) \in Nat /\ Gross(e) <= entry[e].original
        BY <2>2 DEF Gross
    <2>4. Net(e) \in Nat /\ OriginalNet(e) \in Nat /\ Net(e) <= OriginalNet(e)
        BY <2>2, <2>3, NetGrows DEF Net, OriginalNet
    <2>5. CASE Net(e) > Used(e)
        BY <2>1, <2>4, <2>5 DEF Free
    <2>6. CASE ~ (Net(e) > Used(e))
        BY <2>1, <2>4, <2>6 DEF Free
    <2> QED BY <2>5, <2>6
<1> QED BY <1>2, <1>3, <1>4, <1>5 DEF PlanFits, SpendInv

(* An approval that commits alone finds what its plan fits beside.            *)
LEMMA ApprovalKeepsSpendInv ==
    ASSUME TypeOK, TypeOK', MoneyInv, SpendInv, ApprovalsApart, NEW s \in Sessions, CommitApprove(s),
           NothingRevived
    PROVE  SpendInv'
<1> DEFINE r == tx[s].r
<1>1. tx[s].op = "approve" /\ r \in Requests /\ tx[s].plan \in [Entries -> Nat] /\ PlanFits(tx[s])
    BY TxnFields DEF CommitApprove, End, TypeOK, SpendInv
<1>2. \A u \in Sessions : tx'[u] = IF u = s THEN Idle ELSE tx[u]
    BY DEF CommitApprove, End, TypeOK
<1>3. \A u \in Sessions : PlanFits(tx[u])'
    BY <1>1, <1>2, IdleHasNoOp DEF ApprovalsApart, PlanFits
<1>4. ~req[r].approvedAt /\ (\A e \in Entries : alloc[r][e] = 0) /\ req[r].status \notin ReservingStatus
    BY <1>1 DEF PlanFits, SpendInv, MoneyInv, AfterApproval
<1>5. ~Clashes(tx[s])
    BY <1>4 DEF Clashes
<1>6. /\ alloc' = [alloc EXCEPT ![r] = [e \in Entries |-> alloc[r][e] + tx[s].plan[e]]]
      /\ req' = [req EXCEPT ![r] = [@ EXCEPT !.status = "approved", !.approvedAt = TRUE]]
      /\ UNCHANGED entry
    BY <1>5 DEF CommitApprove
<1>7. /\ \A q \in Requests \ {r} : req'[q] = req[q] /\ alloc'[q] = alloc[q]
      /\ req'[r].status = "approved" /\ req'[r].approvedAt
      /\ \A e \in Entries : alloc'[r][e] = tx[s].plan[e]
    <2>1. /\ req[r] \in Request
          /\ [req[r] EXCEPT !.status = "approved", !.approvedAt = TRUE].status = "approved"
          /\ [req[r] EXCEPT !.status = "approved", !.approvedAt = TRUE].approvedAt
        BY <1>1 DEF TypeOK, Request
    <2>2. \A e \in Entries : alloc[r][e] + tx[s].plan[e] = tx[s].plan[e]
        BY <1>1, <1>4
    <2> QED BY <1>1, <1>6, <2>1, <2>2 DEF TypeOK
<1>8. ASSUME NEW e \in Entries PROVE Used(e)' <= OriginalNet(e)'
    <2> DEFINE R == {q \in Requests : req[q].status \in ReservingStatus}
    <2>1. {q \in Requests : req'[q].status \in ReservingStatus} = R \cup {r}
        BY <1>1, <1>7 DEF ReservingStatus
    <2>2. IsFiniteSet(R) /\ r \notin R
        BY <1>4, PayoutsAssumption, FS_Subset
    <2>3. \A q \in R : alloc[q][e] \in Nat /\ alloc'[q][e] = alloc[q][e]
        BY <1>7, <2>2 DEF TypeOK
    <2>4. alloc'[r][e] \in Nat
        BY <1>1, <1>7
    <2>5. Used(e) = Spent(alloc, e, R)
        BY UsedIsSpent
    <2>6. Used(e)' = Spent(alloc', e, R \cup {r})
        BY <2>1, UsedIsSpentNext
    <2> HIDE DEF R
    <2>7. Used(e)' = tx[s].plan[e] + Used(e)
        BY <1>7, <2>2, <2>3, <2>4, <2>5, <2>6, SpentGrows
    <2>8. OriginalNet(e)' = OriginalNet(e)
        BY <1>6 DEF OriginalNet, Fee
    <2> QED BY <1>1, <2>7, <2>8 DEF PlanFits
<1>9. \A q \in Requests : /\ ~req'[q].approvedAt => \A e \in Entries : alloc'[q][e] = 0
                          /\ req'[q].status = "requested" => ~req'[q].approvedAt
    BY <1>7 DEF SpendInv
<1> QED BY <1>3, <1>6, <1>8, <1>9 DEF SpendInv, NoDoubleSpend

(* A step that writes no original amount and clears no row keeps the worth.   *)
LEMMA OriginalsUntouched ==
    ASSUME SpendInv,
           \A e \in Entries : /\ entry'[e].original = entry[e].original
                              /\ entry'[e].status = "none" => entry[e].status = "none"
    PROVE  OriginalsKept
    BY DEF OriginalsKept, SpendInv

(* The updates of an earnings entry write no original amount.                 *)
LEMMA UpdatesKeepOriginal ==
    ASSUME NEW x \in Entry, NEW st, NEW n
    PROVE  /\ [x EXCEPT !.status = st].status = st /\ [x EXCEPT !.status = st].original = x.original
           /\ [x EXCEPT !.refunded = n].status = x.status
           /\ [x EXCEPT !.refunded = n].original = x.original
           /\ [x EXCEPT !.status = "reversed", !.reversedAt = TRUE].status = "reversed"
           /\ [x EXCEPT !.status = "reversed", !.reversedAt = TRUE].original = x.original
           /\ [x EXCEPT !.due = TRUE].status = x.status /\ [x EXCEPT !.due = TRUE].original = x.original
    BY DEF Entry

(* The steps on earnings write what an entry earned only when they create it. *)
LEMMA EarningsKeepSpendInv ==
    ASSUME TypeOK, TypeOK', MoneyInv', SpendInv, NothingRevived, NEW s \in Sessions, EarningsStep(s)
    PROVE  SpendInv'
<1>1. UNCHANGED <<req, alloc>>
    BY DEF EarningsStep, BeginEarn, CommitEarn, BeginSettle, CommitSettle, BeginHold, CommitHold,
           BeginReleaseHold, BeginReleaseHoldsForSource, BeginRelease, CommitRelease, BeginReverse,
           CommitReverse, BeginAdjust, CommitAdjust, Begin, rows
<1>2. \A e \in Entries : entry[e] \in Entry
    BY DEF TypeOK
<1>3. \A r \in Requests : /\ req'[r].approvedAt = req[r].approvedAt
                          /\ req'[r].status = "requested" => ~req'[r].approvedAt
    BY <1>1 DEF SpendInv
<1>4. ASSUME NEW t, Begin(s, t), t.op # "approve" PROVE SpendInv'
    <2>1. OriginalsKept
        BY <1>4 DEF Begin, rows, OriginalsKept, SpendInv
    <2>2. \A u \in Sessions : tx'[u] = tx[u] \/ PlanFits(tx'[u])
        BY <1>4 DEF Begin, TypeOK, PlanFits
    <2> QED BY <1>1, <1>3, <2>1, <2>2, QuietStepKeepsSpendInv
<1>5. ASSUME NEW op, End(s, op), OriginalsKept PROVE SpendInv'
    <2>1. \A u \in Sessions : tx'[u] = tx[u] \/ PlanFits(tx'[u])
        BY <1>5, IdleHasNoOp DEF End, TypeOK, PlanFits
    <2> QED BY <1>1, <1>3, <1>5, <2>1, QuietStepKeepsSpendInv
<1>6. ASSUME NEW moves \in Moves, entry' = Moved(moves) PROVE OriginalsKept
    <2>1. ASSUME NEW e \in Entries
          PROVE  /\ entry'[e].original = entry[e].original
                 /\ entry'[e].status = "none" => entry[e].status = "none"
        <3>1. entry'[e] = IF moves[e] = "keep" THEN entry[e] ELSE [entry[e] EXCEPT !.status = moves[e]]
            BY <1>6 DEF Moved
        <3>2. moves[e] \in {"keep", "held", "available"}
            BY DEF Moves
        <3>3. [entry[e] EXCEPT !.status = moves[e]].status = moves[e]
              /\ [entry[e] EXCEPT !.status = moves[e]].original = entry[e].original
            BY <1>2, UpdatesKeepOriginal
        <3> QED BY <3>1, <3>2, <3>3
    <2> QED BY <2>1, OriginalsUntouched
<1>7. ASSUME NEW e \in Entries, NEW g \in Grosses, BeginEarn(s, e, g) PROVE SpendInv'
    BY <1>4, <1>7 DEF BeginEarn
<1>8. CASE CommitEarn(s)
    <2>1. OriginalsKept
        <3>1. \A d \in Entries : \/ entry'[d] = entry[d]
                                 \/ /\ entry[d].status = "none" /\ entry'[d].status # "none"
            BY <1>8 DEF CommitEarn, NoEntry, TypeOK
        <3> QED BY <3>1 DEF OriginalsKept, SpendInv
    <2> QED BY <1>5, <1>8, <2>1 DEF CommitEarn
<1>9. CASE BeginSettle(s)
    BY <1>4, <1>9 DEF BeginSettle
<1>10. CASE CommitSettle(s)
    <2>1. tx[s].moves \in Moves
        BY <1>10, TxnFields DEF CommitSettle, End, TypeOK
    <2> QED BY <1>5, <1>6, <1>10, <2>1 DEF CommitSettle
<1>11. ASSUME NEW h \in Holds, NEW scope \in HoldScopes, BeginHold(s, h, scope) PROVE SpendInv'
    BY <1>4, <1>11 DEF BeginHold
<1>12. CASE CommitHold(s)
    <2>1. OriginalsKept
        <3>1. \A d \in Entries : entry'[d] = entry[d] \/ entry'[d] = [entry[d] EXCEPT !.status = "held"]
            BY <1>12 DEF CommitHold
        <3>2. \A d \in Entries : [entry[d] EXCEPT !.status = "held"].status = "held"
                                 /\ [entry[d] EXCEPT !.status = "held"].original = entry[d].original
            BY <1>2, UpdatesKeepOriginal
        <3> QED BY <3>1, <3>2, OriginalsUntouched
    <2> QED BY <1>5, <1>12, <2>1 DEF CommitHold
<1>13. ASSUME NEW hs, BeginRelease(s, hs) PROVE SpendInv'
    BY <1>4, <1>13 DEF BeginRelease
<1>14. CASE CommitRelease(s)
    <2>1. tx[s].moves \in Moves
        BY <1>14, TxnFields DEF CommitRelease, End, TypeOK
    <2> QED BY <1>5, <1>6, <1>14, <2>1 DEF CommitRelease
<1>15. ASSUME NEW e \in Entries, BeginReverse(s, e) PROVE SpendInv'
    BY <1>4, <1>15 DEF BeginReverse
<1>16. CASE CommitReverse(s)
    <2>1. OriginalsKept
        <3>1. \A d \in Entries :
                  \/ entry'[d] = entry[d]
                  \/ entry'[d] = [entry[d] EXCEPT !.status = "reversed", !.reversedAt = TRUE]
            BY <1>16 DEF CommitReverse, TypeOK
        <3>2. \A d \in Entries :
                  LET x == [entry[d] EXCEPT !.status = "reversed", !.reversedAt = TRUE]
                  IN  x.status = "reversed" /\ x.original = entry[d].original
            BY <1>2, UpdatesKeepOriginal
        <3> QED BY <3>1, <3>2, OriginalsUntouched
    <2> QED BY <1>5, <1>16, <2>1 DEF CommitReverse
<1>17. ASSUME NEW e \in Entries, NEW total \in Refunds, BeginAdjust(s, e, total) PROVE SpendInv'
    BY <1>4, <1>17 DEF BeginAdjust
<1>18. CASE CommitAdjust(s)
    <2>1. OriginalsKept
        <3>1. \A d \in Entries : entry'[d] = entry[d]
                                 \/ entry'[d] = [entry[d] EXCEPT !.refunded = tx[s].total]
            BY <1>18 DEF CommitAdjust, TypeOK
        <3>2. \A d \in Entries :
                  LET x == [entry[d] EXCEPT !.refunded = tx[s].total]
                  IN  x.status = entry[d].status /\ x.original = entry[d].original
            BY <1>2, UpdatesKeepOriginal
        <3> QED BY <3>1, <3>2, OriginalsUntouched
    <2> QED BY <1>5, <1>18, <2>1 DEF CommitAdjust
<1> QED BY <1>7, <1>8, <1>9, <1>10, <1>11, <1>12, <1>13, <1>14, <1>15, <1>16, <1>17, <1>18
        DEF EarningsStep, BeginReleaseHold, BeginReleaseHoldsForSource

(* The other steps move requests, of which only an approval allocates.        *)
LEMMA OthersKeepSpendInv ==
    ASSUME TypeOK, TypeOK', MoneyInv, MoneyInv', SpendInv, ApprovalsApart, NothingRevived,
           NEW s \in Sessions, RequestStep(s) \/ WorkerStep(s) \/ Crash(s)
    PROVE  SpendInv'
<1>1. entry' = entry
    BY DEF RequestStep, WorkerStep, Crash, BeginRequest, CommitRequest, BeginApprove, CommitApprove,
           BeginReject, CommitReject, BeginMarkPaid, CommitMarkPaid, BeginExecute, CallStripe,
           CommitExecute, BeginTransferCreated, CommitTransferCreated, BeginTransferFailed,
           CommitTransferFailed, Begin, rows
<1>2. OriginalsKept
    BY <1>1 DEF OriginalsKept, SpendInv
<1>0. \A r \in Requests : req[r].status = "requested" => ~req[r].approvedAt
    BY DEF SpendInv
<1>3. ASSUME UNCHANGED <<req, alloc>>, NEW t, tx' = [tx EXCEPT ![s] = t], t.op # "approve"
      PROVE  SpendInv'
    <2>1. \A u \in Sessions : tx'[u] = tx[u] \/ PlanFits(tx'[u])
        BY <1>3 DEF TypeOK, PlanFits
    <2> QED BY <1>0, <1>2, <1>3, <2>1, QuietStepKeepsSpendInv
<1>15. ASSUME NEW t, Begin(s, t), t.op # "approve" PROVE SpendInv'
    BY <1>3, <1>15 DEF Begin, rows
<1>4. ASSUME alloc' = alloc, tx' = [tx EXCEPT ![s] = Idle],
             \A r \in Requests : /\ req'[r].approvedAt = req[r].approvedAt
                                 /\ req'[r].status = "requested" => ~req'[r].approvedAt
      PROVE  SpendInv'
    <2>1. \A u \in Sessions : tx'[u] = tx[u] \/ PlanFits(tx'[u])
        BY <1>4, IdleHasNoOp DEF TypeOK, PlanFits
    <2> QED BY <1>2, <1>4, <2>1, QuietStepKeepsSpendInv
<1>5. ASSUME NEW r \in Requests, NEW st \in RequestStatus \ {"requested"}, req' = SetStatus(r, st)
      PROVE  \A q \in Requests : /\ req'[q].approvedAt = req[q].approvedAt
                                 /\ req'[q].status = "requested" => ~req'[q].approvedAt
    <2>1. \A q \in Requests : /\ req'[q].status = IF q = r THEN st ELSE req[q].status
                              /\ req'[q].approvedAt = req[q].approvedAt
        BY <1>5, SetStatusFields
    <2> QED BY <1>0, <2>1
<1>6. ASSUME NEW r \in Requests, NEW amount \in Amounts, BeginRequest(s, r, amount) PROVE SpendInv'
    BY <1>15, <1>6 DEF BeginRequest
<1>7. CASE CommitRequest(s)
    <2>1. tx[s].op = "request" /\ tx[s].r \in Requests /\ PlanIsGrounded(tx[s])
        BY <1>7, TxnFields DEF CommitRequest, End, TypeOK, MoneyInv
    <2>2. ~req[tx[s].r].approvedAt /\ req[tx[s].r].approvedAt \in BOOLEAN
        BY <2>1 DEF PlanIsGrounded, MoneyInv, UnusedIsBlank, TypeOK, Request
    <2>3. \A q \in Requests \ {tx[s].r} : req'[q] = req[q]
        BY <1>7 DEF CommitRequest, TypeOK
    <2>4. req'[tx[s].r].approvedAt = FALSE
        BY <1>7, <2>1 DEF CommitRequest, TypeOK, NoRequest
    <2>5. \A q \in Requests : /\ req'[q].approvedAt = req[q].approvedAt
                              /\ req'[q].status = "requested" => ~req'[q].approvedAt
        BY <2>2, <2>3, <2>4 DEF SpendInv
    <2> QED BY <1>4, <1>7, <2>5 DEF CommitRequest, End
<1>8. ASSUME NEW r \in Requests, BeginApprove(s, r) PROVE SpendInv'
    <2>1. PlanFits(tx'[s]) /\ UNCHANGED <<req, alloc>> /\ \A u \in Sessions \ {s} : tx'[u] = tx[u]
        BY <1>8, ApprovalFits
    <2>2. \A u \in Sessions : tx'[u] = tx[u] \/ PlanFits(tx'[u])
        BY <2>1
    <2>3. \A q \in Requests : /\ req'[q].approvedAt = req[q].approvedAt
                              /\ req'[q].status = "requested" => ~req'[q].approvedAt
        BY <1>0, <2>1
    <2> QED BY <1>2, <2>1, <2>2, <2>3, QuietStepKeepsSpendInv
<1>9. CASE CommitApprove(s)
    BY <1>9, ApprovalKeepsSpendInv
<1>10. ASSUME NEW r \in Requests,
              BeginReject(s, r) \/ BeginMarkPaid(s, r) \/ BeginExecute(s, r)
              \/ BeginTransferCreated(s, r) \/ BeginTransferFailed(s, r)
       PROVE  SpendInv'
    BY <1>15, <1>10 DEF BeginReject, BeginMarkPaid, BeginExecute, BeginTransferCreated,
                        BeginTransferFailed
<1>11. CASE CommitReject(s) \/ CommitMarkPaid(s) \/ CommitExecute(s) \/ CommitTransferCreated(s)
    <2>1. tx[s] \in Txn /\ tx[s].op \in {"reject", "markpaid", "execute", "transfer.created"}
          /\ (tx[s].op = "execute" => tx[s].to # "calling")
        BY <1>11 DEF CommitReject, CommitMarkPaid, CommitExecute, CommitTransferCreated, End, TypeOK
    <2>2. /\ tx[s].r \in Requests
          /\ tx[s].op = "execute" => tx[s].to \in {"keep", "processing", "paid", "failed"}
        BY <2>1, TxnFields
    <2>3. req' = req \/ \E st \in RequestStatus \ {"requested"} : req' = SetStatus(tx[s].r, st)
        <3>1. {"rejected", "paid", "processing", "failed"} \subseteq RequestStatus \ {"requested"}
            BY DEF RequestStatus
        <3>2. CASE CommitReject(s) \/ CommitMarkPaid(s) \/ CommitTransferCreated(s)
            BY <3>1, <3>2 DEF CommitReject, CommitMarkPaid, CommitTransferCreated
        <3>3. CASE CommitExecute(s)
            <4>1. tx[s].op = "execute"
                BY <3>3 DEF CommitExecute, End
            <4> QED BY <2>2, <3>1, <3>3, <4>1 DEF CommitExecute
        <3> QED BY <1>11, <3>2, <3>3
    <2>4. \A q \in Requests : /\ req'[q].approvedAt = req[q].approvedAt
                              /\ req'[q].status = "requested" => ~req'[q].approvedAt
        BY <1>5, <2>2, <2>3 DEF SpendInv
    <2> QED BY <1>4, <1>11, <2>4 DEF CommitReject, CommitMarkPaid, CommitExecute, CommitTransferCreated, End
<1>12. CASE CallStripe(s)
    <2>1. PICK to : tx' = [tx EXCEPT ![s].to = to]
        BY <1>12 DEF CallStripe
    <2>2. tx[s] \in Txn /\ tx[s].op = "execute" /\ UNCHANGED <<req, alloc>>
        BY <1>12 DEF CallStripe, TypeOK, rows
    <2>3. [tx[s] EXCEPT !.to = to].op = "execute"
        BY <2>2 DEF Txn, Idle
    <2>4. tx' = [tx EXCEPT ![s] = [tx[s] EXCEPT !.to = to]]
        BY <2>1 DEF TypeOK
    <2> QED BY <1>3, <2>2, <2>3, <2>4
<1>13. CASE CommitTransferFailed(s)
    <2>1. tx[s].r \in Requests
        BY <1>13, TxnFields DEF CommitTransferFailed, End, TypeOK
    <2>2. req[tx[s].r] \in Request
        BY <2>1 DEF TypeOK
    <2>3. [req[tx[s].r] EXCEPT !.status = "failed", !.bounceSeen = TRUE].status = "failed"
          /\ [req[tx[s].r] EXCEPT !.status = "failed", !.bounceSeen = TRUE].approvedAt = req[tx[s].r].approvedAt
        BY <2>2 DEF Request
    <2>4. \A q \in Requests : /\ req'[q].approvedAt = req[q].approvedAt
                              /\ req'[q].status = "requested" => ~req'[q].approvedAt
        BY <1>13, <2>1, <2>3 DEF CommitTransferFailed, TypeOK, SpendInv
    <2> QED BY <1>4, <1>13, <2>4 DEF CommitTransferFailed, End
<1>14. CASE Crash(s)
    BY <1>3, <1>14, IdleHasNoOp DEF Crash, rows
<1> QED BY <1>6, <1>7, <1>8, <1>9, <1>10, <1>11, <1>12, <1>13, <1>14 DEF RequestStep, WorkerStep

(* Time and the world approve nothing. *)
LEMMA WorldKeepsSpendInv ==
    ASSUME TypeOK, TypeOK', MoneyInv', SpendInv, NothingRevived, World \/ UNCHANGED vars
    PROVE  SpendInv'
<1>1. UNCHANGED <<alloc, tx>>
    BY DEF World, Mature, WeekPasses, AccountChanges, Bounce, vars, rows
<1>2. OriginalsKept
    <2>1. CASE UNCHANGED entry
        BY <2>1 DEF OriginalsKept, SpendInv
    <2>2. ASSUME NEW d \in Entries, Mature(d) PROVE OriginalsKept
        <3>1. \A e \in Entries : [entry[e] EXCEPT !.due = TRUE].status = entry[e].status
                                 /\ [entry[e] EXCEPT !.due = TRUE].original = entry[e].original
            BY UpdatesKeepOriginal DEF TypeOK
        <3>2. \A e \in Entries : entry'[e] = entry[e] \/ entry'[e] = [entry[e] EXCEPT !.due = TRUE]
            BY <2>2 DEF Mature, TypeOK
        <3> QED BY <3>1, <3>2, OriginalsUntouched
    <2> QED BY <2>1, <2>2 DEF World, WeekPasses, AccountChanges, Bounce, vars, rows
<1>3. \A r \in Requests : req'[r].approvedAt = req[r].approvedAt /\ req'[r].status = req[r].status
    <2>1. \A r \in Requests : req[r] \in Request
        BY DEF TypeOK
    <2>2. \A x \in Request : [x EXCEPT !.recent = FALSE].status = x.status
                             /\ [x EXCEPT !.recent = FALSE].approvedAt = x.approvedAt
        BY DEF Request
    <2>3. CASE UNCHANGED req
        BY <2>3
    <2>4. CASE WeekPasses
        BY <2>1, <2>2, <2>4 DEF WeekPasses
    <2> QED BY <2>3, <2>4 DEF World, Mature, AccountChanges, Bounce, vars, rows
<1>4. \A r \in Requests : req'[r].status = "requested" => ~req'[r].approvedAt
    BY <1>3 DEF SpendInv
<1> QED BY <1>1, <1>2, <1>3, <1>4, QuietStepKeepsSpendInv

(* Nothing is used at first. *)
LEMMA InitSpendInv == Init => SpendInv
<1> SUFFICES ASSUME Init PROVE SpendInv
    OBVIOUS
<1>1. TypeOK
    BY InitType
<1>2. ASSUME NEW e \in Entries PROVE Used(e) <= OriginalNet(e)
    <2>1. {r \in Requests : req[r].status \in ReservingStatus} = {}
        BY DEF Init, NoRequest, ReservingStatus
    <2>2. PICK f : IsSum(f, [r \in {} |-> alloc[r][e]], {}) /\ Spent(alloc, e, {}) = f[{}]
        BY SpentAdds, FS_EmptySet
    <2>3. f[{}] = 0
        <3> DEFINE v == [r \in {} |-> alloc[r][e]]
        <3>1. IsSum(f, v, {})
            BY <2>2
        <3> HIDE DEF v
        <3> QED BY <3>1 DEF IsSum, Adds
    <2>4. Used(e) = 0
        BY <2>1, <2>2, <2>3, UsedIsSpent
    <2>5. OriginalNet(e) \in Nat
        BY <1>1, NetGrows DEF OriginalNet, TypeOK, Entry
    <2> QED BY <2>4, <2>5
<1>3. \A s \in Sessions : PlanFits(tx[s])
    BY IdleHasNoOp DEF Init, PlanFits
<1> QED BY <1>2, <1>3 DEF SpendInv, NoDoubleSpend, Init, NoEntry, NoRequest

(* Every step keeps it while approvals do not overlap and nothing is revived. *)
LEMMA NextSpendInv ==
    TypeOK /\ TypeOK' /\ MoneyInv /\ MoneyInv' /\ ApprovalsApart /\ SpendInv
    /\ [Next]_vars /\ [NothingRevived]_vars => SpendInv'
<1> SUFFICES ASSUME TypeOK, TypeOK', MoneyInv, MoneyInv', ApprovalsApart, SpendInv,
                    [Next]_vars, [NothingRevived]_vars
             PROVE  SpendInv'
    OBVIOUS
<1>1. NothingRevived
    BY DEF NothingRevived, vars
<1> QED BY <1>1, EarningsKeepSpendInv, OthersKeepSpendInv, WorldKeepsSpendInv DEF Next

(* Approvals never allocate more of an entry than it was worth: holds,        *)
(* refunds, rejections, executions, webhooks and crashes may overlap as they  *)
(* will, as long as no two approvals of this photographer overlap and no      *)
(* payout that gave its allocations up is paid after all.                     *)
THEOREM NothingIsSpentTwice ==
    Spec /\ []ApprovalsApart /\ [][NothingRevived]_vars => []NoDoubleSpend
<1>1. SpendInv => NoDoubleSpend
    BY DEF SpendInv
<1> QED BY <1>1, TypeCorrect, MoneyInvHolds, InitSpendInv, NextSpendInv, PTL DEF Spec

----------------------------------------------------------------------------
(* One session at a time.  Then approvals do not overlap, and a payout that   *)
(* failed is not paid after all: its transfer was not made, or was announced  *)
(* before it bounced.  Both need Stripe's answers to arrive, and its webhooks *)
(* in order.                                                                  *)
OneSession == \A s, u \in Sessions : s = u
Answered == ~LostAnswers /\ OrderedHooks

\* What a session read of its request is still so.
PlanIsFresh(t) ==
    /\ t.op \in {"approve", "reject"} => req[t.r].status = "requested"
    /\ t.op = "markpaid" => req[t.r].status \in PayableStatus
    /\ t.op = "execute" =>
          /\ t.to # "keep" => req[t.r].status \in PayableStatus
          /\ t.to = "failed" => sent[t.r] = 0
    /\ t.op = "transfer.created" => <<"transfer.created", t.r>> \in hooks
    /\ t.op = "transfer.failed" => <<"transfer.created", t.r>> \notin hooks

\* A failed payout is announced no more, and executed no more if never sent.
FailedIsOver ==
    \A r \in Requests : req[r].status = "failed" =>
        /\ <<"transfer.created", r>> \notin hooks
        /\ sent[r] > 0 \/ event[r] = "delivered"

\* A session that is alone commits what it read, and only a payout that failed
\* gave its allocations up.
SerialInv ==
    /\ FailedIsOver
    /\ \A r \in Requests : req[r].status \in {"none", "requested", "rejected"} => ~req[r].approvedAt
    /\ \A s \in Sessions : PlanIsFresh(tx[s])

(* Alone, a session approves alone. *)
LEMMA AloneApproves == ASSUME OneSession PROVE ApprovalsApart
    BY DEF OneSession, ApprovalsApart

(* And settles alone. *)
LEMMA AloneSettles == ASSUME OneSession PROVE SettlesApart
    BY DEF OneSession, SettlesApart

(* A session begins with what it read. *)
LEMMA BeginKeepsSerialInv ==
    ASSUME TypeOK, SerialInv, NEW s \in Sessions, NEW t, tx' = [tx EXCEPT ![s] = t], PlanIsFresh(t),
           UNCHANGED <<req, event, sent, hooks>>
    PROVE  SerialInv'
<1>1. \A u \in Sessions : tx'[u] = IF u = s THEN t ELSE tx[u]
    BY DEF TypeOK
<1>2. \A u \in Sessions : PlanIsFresh(tx[u])'
    BY <1>1 DEF SerialInv, PlanIsFresh
<1> QED BY <1>2 DEF SerialInv, FailedIsOver

(* A commit that moves the status of its own request, from where it was. *)
LEMMA CommitKeepsSerialInv ==
    ASSUME TypeOK, SerialInv, OneSession, NEW s \in Sessions,
           tx' = [tx EXCEPT ![s] = Idle], sent' = sent,
           NEW r \in Requests, \A q \in Requests \ {r} : req'[q] = req[q] /\ event'[q] = event[q],
           hooks' \subseteq hooks,
           req'[r].status \in {"none", "requested", "rejected"} => ~req'[r].approvedAt,
           req'[r].status = "failed" => /\ <<"transfer.created", r>> \notin hooks'
                                        /\ sent[r] > 0 \/ event'[r] = "delivered"
    PROVE  SerialInv'
<1>1. \A u \in Sessions : tx'[u] = Idle
    BY DEF OneSession, TypeOK
<1>2. \A u \in Sessions : PlanIsFresh(tx[u])'
    BY <1>1, IdleHasNoOp DEF PlanIsFresh
<1>3. FailedIsOver'
    BY DEF SerialInv, FailedIsOver
<1>4. \A q \in Requests : req'[q].status \in {"none", "requested", "rejected"} => ~req'[q].approvedAt
    BY DEF SerialInv
<1> QED BY <1>2, <1>3, <1>4 DEF SerialInv

(* The steps on earnings concern no request. *)
LEMMA EarningsKeepSerialInv ==
    ASSUME TypeOK, SerialInv, NEW s \in Sessions, EarningsStep(s)
    PROVE  SerialInv'
<1>1. UNCHANGED <<req, event, sent, hooks>>
    BY DEF EarningsStep, BeginEarn, CommitEarn, BeginSettle, CommitSettle, BeginHold, CommitHold,
           BeginReleaseHold, BeginReleaseHoldsForSource, BeginRelease, CommitRelease, BeginReverse,
           CommitReverse, BeginAdjust, CommitAdjust, Begin, rows, money
<1>2. ASSUME NEW t, Begin(s, t), t.op \in {"earn", "settle", "hold", "release", "reverse", "adjust"}
      PROVE  SerialInv'
    <2>1. PlanIsFresh(t)
        BY <1>2 DEF PlanIsFresh
    <2> QED BY <1>1, <1>2, <2>1, BeginKeepsSerialInv DEF Begin
<1>3. ASSUME NEW op, End(s, op) PROVE SerialInv'
    <2>1. PlanIsFresh(Idle)
        BY IdleHasNoOp DEF PlanIsFresh
    <2> QED BY <1>1, <1>3, <2>1, BeginKeepsSerialInv DEF End
<1>4. ASSUME NEW e \in Entries, NEW g \in Grosses, BeginEarn(s, e, g) PROVE SerialInv'
    BY <1>2, <1>4 DEF BeginEarn
<1>5. CASE BeginSettle(s)
    BY <1>2, <1>5 DEF BeginSettle
<1>6. ASSUME NEW h \in Holds, NEW scope \in HoldScopes, BeginHold(s, h, scope) PROVE SerialInv'
    BY <1>2, <1>6 DEF BeginHold
<1>7. ASSUME NEW hs, BeginRelease(s, hs) PROVE SerialInv'
    BY <1>2, <1>7 DEF BeginRelease
<1>8. ASSUME NEW e \in Entries, BeginReverse(s, e) PROVE SerialInv'
    BY <1>2, <1>8 DEF BeginReverse
<1>9. ASSUME NEW e \in Entries, NEW total \in Refunds, BeginAdjust(s, e, total) PROVE SerialInv'
    BY <1>2, <1>9 DEF BeginAdjust
<1>10. ASSUME CommitEarn(s) \/ CommitSettle(s) \/ CommitHold(s) \/ CommitRelease(s)
              \/ CommitReverse(s) \/ CommitAdjust(s)
       PROVE  SerialInv'
    BY <1>3, <1>10 DEF CommitEarn, CommitSettle, CommitHold, CommitRelease, CommitReverse, CommitAdjust
<1> QED BY <1>4, <1>5, <1>6, <1>7, <1>8, <1>9, <1>10
        DEF EarningsStep, BeginReleaseHold, BeginReleaseHoldsForSource

(* The steps of photographers and admins on requests. *)
LEMMA RequestKeepsSerialInv ==
    ASSUME TypeOK, MoneyInv, SerialInv, OneSession, NEW s \in Sessions, RequestStep(s)
    PROVE  SerialInv'
<1>1. ASSUME NEW t, Begin(s, t), PlanIsFresh(t) PROVE SerialInv'
    BY <1>1, BeginKeepsSerialInv DEF Begin, rows, money
<1>2. ASSUME NEW r \in Requests, NEW amount \in Amounts, BeginRequest(s, r, amount) PROVE SerialInv'
    <2>1. PlanIsFresh([op |-> "request", r |-> r, amount |-> amount])
        BY DEF PlanIsFresh
    <2> QED BY <1>1, <1>2, <2>1 DEF BeginRequest
<1>3. CASE CommitRequest(s)
    <2>1. tx[s].op = "request" /\ tx[s].r \in Requests
        BY <1>3, TxnFields DEF CommitRequest, End, TypeOK
    <2>2. /\ req'[tx[s].r].status = "requested" /\ req'[tx[s].r].approvedAt = FALSE
          /\ \A q \in Requests \ {tx[s].r} : req'[q] = req[q]
        BY <1>3, <2>1 DEF CommitRequest, TypeOK, NoRequest
    <2>3. tx' = [tx EXCEPT ![s] = Idle] /\ UNCHANGED <<event, sent, hooks>>
        BY <1>3 DEF CommitRequest, End, money
    <2> QED BY <2>1, <2>2, <2>3, CommitKeepsSerialInv
<1>4. ASSUME NEW r \in Requests, BeginApprove(s, r) PROVE SerialInv'
    <2>1. PICK plan \in [Entries -> 0..req[r].amount] :
              Begin(s, [op |-> "approve", r |-> r, plan |-> plan])
        BY <1>4 DEF BeginApprove
    <2>2. PlanIsFresh([op |-> "approve", r |-> r, plan |-> plan])
        BY <1>4 DEF BeginApprove, PlanIsFresh
    <2> QED BY <1>1, <2>1, <2>2
<1>5. CASE CommitApprove(s)
    <2>1. tx[s].op = "approve" /\ tx[s].r \in Requests
        BY <1>5, TxnFields DEF CommitApprove, End, TypeOK
    <2>2. req[tx[s].r] \in Request /\ req[tx[s].r].status = "requested"
        BY <2>1 DEF TypeOK, SerialInv, PlanIsFresh
    <2>3. /\ [req[tx[s].r] EXCEPT !.status = "approved", !.approvedAt = TRUE].status = "approved"
        BY <2>2 DEF Request
    <2>4. tx' = [tx EXCEPT ![s] = Idle] /\ UNCHANGED <<sent, hooks>>
        BY <1>5 DEF CommitApprove, End, money
    <2>5. \A q \in Requests \ {tx[s].r} : req'[q] = req[q] /\ event'[q] = event[q]
        BY <1>5 DEF CommitApprove, TypeOK
    <2>6. req'[tx[s].r] = req[tx[s].r] \/ req'[tx[s].r].status = "approved"
        BY <1>5, <2>1, <2>3 DEF CommitApprove, TypeOK
    <2>7. ~req[tx[s].r].approvedAt
        BY <2>1, <2>2 DEF SerialInv
    <2> QED BY <2>1, <2>2, <2>4, <2>5, <2>6, <2>7, CommitKeepsSerialInv
<1>6. ASSUME NEW r \in Requests, BeginReject(s, r) PROVE SerialInv'
    <2>1. PlanIsFresh([op |-> "reject", r |-> r])
        BY <1>6 DEF BeginReject, PlanIsFresh
    <2> QED BY <1>1, <1>6, <2>1 DEF BeginReject
<1>7. CASE CommitReject(s)
    <2>1. tx[s].op = "reject" /\ tx[s].r \in Requests
        BY <1>7, TxnFields DEF CommitReject, End, TypeOK
    <2>2. req[tx[s].r].status = "requested" /\ ~req[tx[s].r].approvedAt
        BY <2>1 DEF SerialInv, PlanIsFresh
    <2>3. "rejected" \in RequestStatus
        BY DEF RequestStatus
    <2>4. /\ req'[tx[s].r].status = "rejected" /\ ~req'[tx[s].r].approvedAt
        BY <1>7, <2>1, <2>2, <2>3, SetStatusFields DEF CommitReject
    <2>5. tx' = [tx EXCEPT ![s] = Idle] /\ UNCHANGED <<event, sent, hooks>>
          /\ \A q \in Requests \ {tx[s].r} : req'[q] = req[q]
        BY <1>7 DEF CommitReject, End, money, SetStatus, TypeOK
    <2> QED BY <2>1, <2>4, <2>5, CommitKeepsSerialInv
<1>8. ASSUME NEW r \in Requests, BeginMarkPaid(s, r) PROVE SerialInv'
    <2>1. PlanIsFresh([op |-> "markpaid", r |-> r])
        BY <1>8 DEF BeginMarkPaid, PlanIsFresh
    <2> QED BY <1>1, <1>8, <2>1 DEF BeginMarkPaid
<1>9. CASE CommitMarkPaid(s)
    <2>1. tx[s].op = "markpaid" /\ tx[s].r \in Requests
        BY <1>9, TxnFields DEF CommitMarkPaid, End, TypeOK
    <2>2. "paid" \in RequestStatus
        BY DEF RequestStatus
    <2>3. req'[tx[s].r].status = "paid"
        BY <1>9, <2>1, <2>2, SetStatusFields DEF CommitMarkPaid
    <2>4. tx' = [tx EXCEPT ![s] = Idle] /\ UNCHANGED <<event, sent, hooks>>
          /\ \A q \in Requests \ {tx[s].r} : req'[q] = req[q]
        BY <1>9 DEF CommitMarkPaid, End, SetStatus, TypeOK
    <2> QED BY <2>1, <2>3, <2>4, CommitKeepsSerialInv
<1> QED BY <1>2, <1>3, <1>4, <1>5, <1>6, <1>7, <1>8, <1>9 DEF RequestStep

(* A transfer call plans to fail a payout only when it sent nothing. *)
LEMMA CallKeepsSerialInv ==
    ASSUME TypeOK, MoneyInv, SerialInv, OneSession, Answered, NEW s \in Sessions, CallStripe(s)
    PROVE  SerialInv'
<1>1. tx[s].op = "execute" /\ tx[s].to = "calling" /\ tx[s].r \in Requests /\ tx[s] \in Txn
    BY TxnFields DEF CallStripe, TypeOK
<1>2. req[tx[s].r].status \in PayableStatus
    BY <1>1 DEF SerialInv, PlanIsFresh
<1>3. \A to : LET t == [tx[s] EXCEPT !.to = to] IN t.op = "execute" /\ t.r = tx[s].r /\ t.to = to
    BY <1>1 DEF Txn, Idle
<1>4. \A u \in Sessions : u = s
    BY DEF OneSession
<1>5. UNCHANGED <<req, event>>
    BY DEF CallStripe, rows
<1>6. CASE /\ sent' = [sent EXCEPT ![tx[s].r] = Transfers(tx[s].r)]
           /\ hooks' \subseteq hooks \cup {<<"transfer.created", tx[s].r>>}
           /\ tx' = [tx EXCEPT ![s].to = "paid"]
    <2>1. tx'[s] = [tx[s] EXCEPT !.to = "paid"]
        BY <1>6 DEF TypeOK
    <2>2. PlanIsFresh(tx[s])'
        BY <1>2, <1>3, <1>5, <2>1 DEF PlanIsFresh
    <2>3. \A q \in Requests : sent[q] > 0 => sent'[q] > 0
        BY <1>1, <1>6 DEF TypeOK, Transfers
    <2>4. FailedIsOver'
        BY <1>2, <1>5, <1>6, <2>3 DEF SerialInv, FailedIsOver, PayableStatus
    <2> QED BY <1>4, <1>5, <2>2, <2>4 DEF SerialInv
<1>7. CASE sent[tx[s].r] = 0 /\ tx' = [tx EXCEPT ![s].to = "failed"] /\ UNCHANGED <<sent, hooks>>
    <2>1. tx'[s] = [tx[s] EXCEPT !.to = "failed"]
        BY <1>7 DEF TypeOK
    <2>2. PlanIsFresh(tx[s])'
        BY <1>2, <1>3, <1>5, <1>7, <2>1 DEF PlanIsFresh
    <2> QED BY <1>4, <1>5, <1>7, <2>2 DEF SerialInv, FailedIsOver
<1>8. \/ /\ sent' = [sent EXCEPT ![tx[s].r] = Transfers(tx[s].r)]
         /\ hooks' \subseteq hooks \cup {<<"transfer.created", tx[s].r>>}
         /\ tx' = [tx EXCEPT ![s].to = "paid"]
      \/ sent[tx[s].r] = 0 /\ tx' = [tx EXCEPT ![s].to = "failed"] /\ UNCHANGED <<sent, hooks>>
    BY DEF CallStripe, Answered
<1> QED BY <1>6, <1>7, <1>8

(* The worker's steps. *)
LEMMA WorkerKeepsSerialInv ==
    ASSUME TypeOK, MoneyInv, SerialInv, OneSession, Answered, NEW s \in Sessions, WorkerStep(s)
    PROVE  SerialInv'
<1>1. ASSUME NEW t, Begin(s, t), PlanIsFresh(t) PROVE SerialInv'
    BY <1>1, BeginKeepsSerialInv DEF Begin, rows, money
<1>2. ASSUME NEW r \in Requests, BeginExecute(s, r) PROVE SerialInv'
    <2> DEFINE t == [op |-> "execute", r |-> r,
                     to |-> IF req[r].status \notin PayableStatus THEN "keep"
                            ELSE IF ~active THEN "processing" ELSE "calling"]
    <2>1. PlanIsFresh(t)
        BY DEF PlanIsFresh
    <2> QED BY <1>1, <1>2, <2>1 DEF BeginExecute
<1>3. CASE CommitExecute(s)
    <2>1. tx[s].op = "execute" /\ tx[s].r \in Requests /\ tx[s].to # "calling"
          /\ tx[s].to \in {"keep", "processing", "paid", "failed"}
        BY <1>3, TxnFields DEF CommitExecute, End, TypeOK
    <2>2. tx' = [tx EXCEPT ![s] = Idle] /\ UNCHANGED <<sent, hooks>>
        BY <1>3 DEF CommitExecute, End, money
    <2>3. event'[tx[s].r] = "delivered" /\ \A q \in Requests \ {tx[s].r} : event'[q] = event[q]
        BY <1>3, <2>1 DEF CommitExecute, TypeOK
    <2>4. \A q \in Requests \ {tx[s].r} : req'[q] = req[q]
        BY <1>3 DEF CommitExecute, SetStatus, TypeOK
    <2>5. CASE tx[s].to = "keep"
        <3>1. req' = req
            BY <1>3, <2>5 DEF CommitExecute
        <3> QED BY <2>1, <2>2, <2>3, <2>4, <3>1, CommitKeepsSerialInv DEF SerialInv, FailedIsOver
    <2>6. CASE tx[s].to # "keep"
        <3>1. tx[s].to \in RequestStatus
            BY <2>1, <2>6 DEF RequestStatus
        <3>2. req'[tx[s].r].status = tx[s].to
            BY <1>3, <2>1, <2>6, <3>1, SetStatusFields DEF CommitExecute
        <3>3. tx[s].to = "failed" => sent[tx[s].r] = 0
            BY <2>1, <2>6 DEF SerialInv, PlanIsFresh
        <3>4. tx[s].to = "failed" => <<"transfer.created", tx[s].r>> \notin hooks
            BY <2>1, <3>3 DEF MoneyInv, HooksHaveTransfers
        <3> QED BY <2>1, <2>2, <2>3, <2>4, <2>6, <3>2, <3>4, CommitKeepsSerialInv
    <2> QED BY <2>5, <2>6
<1>4. ASSUME NEW r \in Requests, BeginTransferCreated(s, r) PROVE SerialInv'
    <2> DEFINE t == [op |-> "transfer.created", r |-> r, write |-> req[r].status # "paid"]
    <2>1. PlanIsFresh(t)
        BY <1>4 DEF PlanIsFresh, BeginTransferCreated
    <2> QED BY <1>1, <1>4, <2>1 DEF BeginTransferCreated
<1>5. CASE CommitTransferCreated(s)
    <2>1. tx[s].op = "transfer.created" /\ tx[s].r \in Requests
        BY <1>5, TxnFields DEF CommitTransferCreated, End, TypeOK
    <2>2. /\ tx' = [tx EXCEPT ![s] = Idle] /\ UNCHANGED <<event, sent>> /\ hooks' \subseteq hooks
          /\ \A q \in Requests \ {tx[s].r} : req'[q] = req[q]
        BY <1>5 DEF CommitTransferCreated, End, SetStatus, TypeOK
    <2>3. "paid" \in RequestStatus
        BY DEF RequestStatus
    <2>4. req'[tx[s].r] = req[tx[s].r] \/ req'[tx[s].r].status = "paid"
        BY <1>5, <2>1, <2>3, SetStatusFields DEF CommitTransferCreated
    <2>5. CASE req'[tx[s].r] = req[tx[s].r]
        BY <2>1, <2>2, <2>5, CommitKeepsSerialInv DEF SerialInv, FailedIsOver
    <2>6. CASE req'[tx[s].r].status = "paid"
        BY <2>1, <2>2, <2>6, CommitKeepsSerialInv
    <2> QED BY <2>4, <2>5, <2>6
<1>6. ASSUME NEW r \in Requests, BeginTransferFailed(s, r) PROVE SerialInv'
    <2> DEFINE t == [op |-> "transfer.failed", r |-> r, write |-> ~req[r].bounceSeen]
    <2>1. PlanIsFresh(t)
        BY <1>6 DEF PlanIsFresh, BeginTransferFailed, Answered
    <2> QED BY <1>1, <1>6, <2>1 DEF BeginTransferFailed
<1>7. CASE CommitTransferFailed(s)
    <2>1. tx[s].op = "transfer.failed" /\ tx[s].r \in Requests
        BY <1>7, TxnFields DEF CommitTransferFailed, End, TypeOK
    <2>2. /\ tx' = [tx EXCEPT ![s] = Idle] /\ UNCHANGED <<event, sent>> /\ hooks' \subseteq hooks
          /\ \A q \in Requests \ {tx[s].r} : req'[q] = req[q]
        BY <1>7 DEF CommitTransferFailed, End, TypeOK
    <2>3. <<"transfer.created", tx[s].r>> \notin hooks /\ sent[tx[s].r] > 0
        BY <2>1 DEF SerialInv, PlanIsFresh, MoneyInv, PlanIsGrounded
    <2>4. req[tx[s].r] \in Request
        BY <2>1 DEF TypeOK
    <2>5. [req[tx[s].r] EXCEPT !.status = "failed", !.bounceSeen = TRUE].status = "failed"
        BY <2>4 DEF Request
    <2>6. req'[tx[s].r] = req[tx[s].r] \/ req'[tx[s].r].status = "failed"
        BY <1>7, <2>1, <2>5 DEF CommitTransferFailed, TypeOK
    <2>7. CASE req'[tx[s].r] = req[tx[s].r]
        BY <2>1, <2>2, <2>7, CommitKeepsSerialInv DEF SerialInv, FailedIsOver
    <2>8. CASE req'[tx[s].r].status = "failed"
        BY <2>1, <2>2, <2>3, <2>8, CommitKeepsSerialInv
    <2> QED BY <2>6, <2>7, <2>8
<1> QED BY <1>2, <1>3, <1>4, <1>5, <1>6, <1>7, CallKeepsSerialInv DEF WorkerStep

(* A crash, time and the world. *)
LEMMA WorldKeepsSerialInv ==
    ASSUME TypeOK, MoneyInv, SerialInv, World \/ UNCHANGED vars \/ \E s \in Sessions : Crash(s)
    PROVE  SerialInv'
<1>1. \A s \in Sessions : tx'[s] = tx[s] \/ tx'[s] = Idle
    BY DEF World, Mature, WeekPasses, AccountChanges, Bounce, vars, Crash, TypeOK
<1>2. \A r \in Requests : req'[r].status = req[r].status /\ req'[r].approvedAt = req[r].approvedAt
    <2>1. \A r \in Requests : LET q == [req[r] EXCEPT !.recent = FALSE]
                              IN  q.status = req[r].status /\ q.approvedAt = req[r].approvedAt
        BY DEF TypeOK, Request
    <2> QED BY <2>1 DEF World, Mature, WeekPasses, AccountChanges, Bounce, vars, Crash, rows
<1>3. UNCHANGED <<event, sent>>
    BY DEF World, Mature, WeekPasses, AccountChanges, Bounce, vars, Crash, rows, money
<1>4. \A r \in Requests : <<"transfer.created", r>> \in hooks' <=> <<"transfer.created", r>> \in hooks
    <2>1. CASE UNCHANGED hooks
        BY <2>1
    <2>2. ASSUME NEW r \in Requests, Bounce(r)
          PROVE  \A q \in Requests :
                     <<"transfer.created", q>> \in hooks' <=> <<"transfer.created", q>> \in hooks
        BY <2>2 DEF Bounce
    <2> QED BY <2>1, <2>2 DEF World, Mature, WeekPasses, AccountChanges, vars, Crash, money
<1>5. \A s \in Sessions : PlanIsFresh(tx[s])'
    <2> SUFFICES ASSUME NEW s \in Sessions PROVE PlanIsFresh(tx[s])'
        OBVIOUS
    <2>1. CASE tx'[s] = Idle
        BY <2>1, IdleHasNoOp DEF PlanIsFresh
    <2>2. CASE tx'[s] = tx[s]
        <3>1. PlanIsFresh(tx[s]) /\ tx[s] \in Txn
            BY DEF SerialInv, TypeOK
        <3> QED BY <1>2, <1>3, <1>4, <2>2, <3>1, TxnFields DEF PlanIsFresh
    <2> QED BY <1>1, <2>1, <2>2
<1> QED BY <1>2, <1>3, <1>4, <1>5 DEF SerialInv, FailedIsOver

(* SerialInv holds initially. *)
LEMMA InitSerialInv == Init => SerialInv
    BY DEF Init, SerialInv, FailedIsOver, PlanIsFresh, NoRequest, Idle

(* Every step keeps it. *)
LEMMA NextSerialInv ==
    ASSUME TypeOK, MoneyInv, SerialInv, OneSession, Answered, [Next]_vars
    PROVE  SerialInv'
    BY EarningsKeepSerialInv, RequestKeepsSerialInv, WorkerKeepsSerialInv, WorldKeepsSerialInv
       DEF Next

(* A failed payout is the only one that gave its allocations up, and no plan  *)
(* of the session would pay it after all.                                     *)
LEMMA AloneRevivesNothing ==
    ASSUME TypeOK, MoneyInv, SerialInv, [Next]_vars
    PROVE  NothingRevived
<1> SUFFICES ASSUME NEW r \in Requests, req[r].approvedAt, req[r].status \notin ReservingStatus
             PROVE  req'[r].status \notin ReservingStatus
    BY DEF NothingRevived
<1>1. req[r].status = "failed"
    BY DEF SerialInv, TypeOK, Request, RequestStatus, ReservingStatus
<1>2. CASE req'[r].status = req[r].status
    BY <1>2
<1>3. \A st \in RequestStatus, q \in Requests \ {r} : SetStatus(q, st)[r].status = req[r].status
    BY SetStatusFields
<1>4. RequestStatus = {"none", "requested", "approved", "rejected", "processing", "paid", "failed"}
    BY DEF RequestStatus
<1>5. ASSUME NEW s \in Sessions, CommitRequest(s) PROVE req'[r].status = req[r].status
    <2>1. tx[s].op = "request" /\ PlanIsGrounded(tx[s])
        BY <1>5 DEF CommitRequest, End, MoneyInv
    <2>2. tx[s].r # r
        BY <1>1, <2>1 DEF PlanIsGrounded
    <2> QED BY <1>5, <2>2 DEF CommitRequest, TypeOK
<1>6. ASSUME NEW s \in Sessions, CommitApprove(s) PROVE req'[r].status = req[r].status
    <2>1. tx[s].op = "approve" /\ PlanIsFresh(tx[s])
        BY <1>6 DEF CommitApprove, End, SerialInv
    <2>2. tx[s].r # r
        BY <1>1, <2>1 DEF PlanIsFresh
    <2> QED BY <1>6, <2>2 DEF CommitApprove, TypeOK
<1>7. ASSUME NEW s \in Sessions, CommitReject(s) \/ CommitMarkPaid(s)
      PROVE  req'[r].status = req[r].status
    <2>1. tx[s].op \in {"reject", "markpaid"} /\ PlanIsFresh(tx[s]) /\ tx[s].r \in Requests
        BY <1>7, TxnFields DEF CommitReject, CommitMarkPaid, End, SerialInv, TypeOK
    <2>2. tx[s].r # r
        BY <1>1, <2>1 DEF PlanIsFresh, PayableStatus
    <2> QED BY <1>3, <1>4, <1>7, <2>1, <2>2 DEF CommitReject, CommitMarkPaid
<1>8. ASSUME NEW s \in Sessions, CommitExecute(s) PROVE req'[r].status = req[r].status
    <2>1. tx[s].op = "execute" /\ PlanIsFresh(tx[s]) /\ tx[s].r \in Requests
          /\ tx[s].to \in {"calling", "keep", "processing", "paid", "failed"} /\ tx[s].to # "calling"
        BY <1>8, TxnFields DEF CommitExecute, End, SerialInv, TypeOK
    <2>2. CASE tx[s].to = "keep"
        BY <1>8, <2>2 DEF CommitExecute
    <2>3. CASE tx[s].to # "keep"
        <3>1. tx[s].r # r
            BY <1>1, <2>1, <2>3 DEF PlanIsFresh, PayableStatus
        <3> QED BY <1>3, <1>4, <1>8, <2>1, <2>3, <3>1 DEF CommitExecute
    <2> QED BY <2>2, <2>3
<1>9. ASSUME NEW s \in Sessions, CommitTransferCreated(s) PROVE req'[r].status = req[r].status
    <2>1. tx[s].op = "transfer.created" /\ PlanIsFresh(tx[s]) /\ tx[s].r \in Requests
        BY <1>9, TxnFields DEF CommitTransferCreated, End, SerialInv, TypeOK
    <2>2. tx[s].r # r
        BY <1>1, <2>1 DEF PlanIsFresh, SerialInv, FailedIsOver
    <2> QED BY <1>3, <1>4, <1>9, <2>1, <2>2 DEF CommitTransferCreated
<1>10. ASSUME NEW s \in Sessions, CommitTransferFailed(s) PROVE req'[r].status = "failed"
    <2>1. req[r] \in Request
        BY DEF TypeOK
    <2>2. [req[r] EXCEPT !.status = "failed", !.bounceSeen = TRUE].status = "failed"
        BY <2>1 DEF Request
    <2> QED BY <1>1, <1>10, <2>2 DEF CommitTransferFailed, TypeOK
<1>11. CASE WeekPasses
    <2>1. req[r] \in Request
        BY DEF TypeOK
    <2>2. [req[r] EXCEPT !.recent = FALSE].status = req[r].status
        BY <2>1 DEF Request
    <2> QED BY <1>2, <1>11, <2>2 DEF WeekPasses
<1>12. CASE UNCHANGED req
    BY <1>2, <1>12
<1>13. ASSUME NEW s \in Sessions, EarningsStep(s) PROVE UNCHANGED req
    BY <1>13 DEF EarningsStep, BeginEarn, CommitEarn, BeginSettle, CommitSettle, BeginHold, CommitHold,
           BeginReleaseHold, BeginReleaseHoldsForSource, BeginRelease, CommitRelease, BeginReverse,
           CommitReverse, BeginAdjust, CommitAdjust, Begin, rows
<1>14. ASSUME NEW s \in Sessions, RequestStep(s) \/ WorkerStep(s)
       PROVE  req'[r].status \in {req[r].status, "failed"}
    <2>1. ASSUME NEW t, Begin(s, t) PROVE UNCHANGED req
        BY <2>1 DEF Begin, rows
    <2>2. CASE RequestStep(s)
        BY <1>5, <1>6, <1>7, <2>1, <2>2
           DEF RequestStep, BeginRequest, BeginApprove, BeginReject, BeginMarkPaid
    <2>3. CASE WorkerStep(s)
        BY <1>8, <1>9, <1>10, <2>1, <2>3
           DEF WorkerStep, BeginExecute, CallStripe, BeginTransferCreated, BeginTransferFailed, rows
    <2> QED BY <1>14, <2>2, <2>3
<1>15. "failed" \notin ReservingStatus
    BY DEF ReservingStatus
<1> QED BY <1>1, <1>2, <1>11, <1>12, <1>13, <1>14, <1>15
        DEF Next, World, Mature, AccountChanges, Bounce, Crash, rows, vars

(* While one session runs at a time, no entry under a hold can be paid out.   *)
THEOREM HeldAlone ==
    ASSUME OneSession
    PROVE  Spec => []HeldIsNotAvailable
<1>1. SettlesApart
    BY AloneSettles
<1>2. HoldInv => HeldIsNotAvailable
    BY DEF HoldInv
<1>3. TypeOK /\ HoldInv /\ [Next]_vars => HoldInv'
    BY <1>1, NextHoldInv
<1> QED BY <1>2, <1>3, TypeCorrect, InitHoldInv, PTL DEF Spec

(* While one session runs at a time, and Stripe answers every call and        *)
(* delivers its webhooks in order, no entry is spent twice, whichever         *)
(* sessions crash.                                                            *)
THEOREM SpentOnceAlone ==
    ASSUME OneSession, Answered
    PROVE  Spec => []NoDoubleSpend
<1>1. ApprovalsApart
    BY AloneApproves
<1>2. TypeOK /\ MoneyInv /\ SerialInv /\ [Next]_vars => SerialInv'
    BY NextSerialInv
<1>3. TypeOK /\ TypeOK' /\ MoneyInv /\ MoneyInv' /\ SerialInv /\ SpendInv /\ [Next]_vars => SpendInv'
    <2>1. TypeOK /\ MoneyInv /\ SerialInv /\ [Next]_vars => [NothingRevived]_vars
        BY AloneRevivesNothing
    <2> QED BY <1>1, <2>1, NextSpendInv
<1>4. SpendInv => NoDoubleSpend
    BY DEF SpendInv
<1> QED BY <1>2, <1>3, <1>4, TypeCorrect, MoneyInvHolds, InitSerialInv, InitSpendInv, PTL DEF Spec
=============================================================================
