------------------------------ MODULE Payouts ------------------------------
(***************************************************************************)
(* One photographer's earnings and payouts: api/app/services/payouts.py,   *)
(* the endpoints of api/app/api/v1/payouts.py that commit its work, the    *)
(* payout.execute topic of the outbox worker and the two Stripe transfer   *)
(* webhooks.                                                               *)
(*                                                                         *)
(* The backend takes no row lock in this file and Postgres runs at READ    *)
(* COMMITTED, so a handler is a database session with two steps: it READS  *)
(* committed rows and computes what it will write (the "plan", kept in     *)
(* tx[s]), and later COMMITS.  A commit writes the planned columns without *)
(* reading them again: an UPDATE by primary key overwrites whatever        *)
(* another session committed in between.  With one session handlers are    *)
(* serial; with two they interleave.                                       *)
(*                                                                         *)
(* Money is an integer (cents).  Only the outbox claim holds a row lock    *)
(* (FOR UPDATE SKIP LOCKED), so one event is in one session at a time.     *)
(*                                                                         *)
(* An operator whose name contains Mut is a deliberately wrong form of the *)
(* definition that follows it; nothing uses it but the mutation tests.     *)
(***************************************************************************)
EXTENDS Integers, FiniteSets, FiniteSetsExt

CONSTANTS
    Sessions,     \* database sessions of the API and of the workers
    Entries,      \* earnings ledger entries, numbered by created_at
    Requests,     \* payout requests
    Holds,        \* earnings holds
    AllSources,   \* scope of a hold whose source_type and source_id are null
    HalfScoped,   \* scope of a hold with only one of the two
    HoldScopes,   \* the scopes that holds are created with
    Grosses,      \* gross amounts of the paid sources
    Refunds,      \* refunded totals that partial refunds report
    Amounts,      \* amounts asked for in payout requests
    FeePercent,   \* platform_fee_policy.fee_percent_*
    MinPayout,    \* MIN_PAYOUT_EUR
    WeeklyLimit,  \* PAYOUT_REQUEST_LIMIT_7D
    LostAnswers,  \* may Stripe create the transfer and the call still raise?
    OrderedHooks, \* does Stripe deliver transfer.created before transfer.failed?
    MaxCrashes    \* bound on sessions that die before their commit

ASSUME PayoutsAssumption ==
    /\ Entries \subseteq Nat /\ IsFiniteSet(Entries)
    /\ IsFiniteSet(Requests)
    /\ AllSources \notin Entries /\ HalfScoped \notin Entries
    /\ AllSources # HalfScoped
    /\ HoldScopes \subseteq Entries \cup {AllSources, HalfScoped}
    /\ Grosses \subseteq Nat \ {0} /\ Refunds \subseteq Nat /\ Amounts \subseteq Nat
    /\ FeePercent \in 0..100
    /\ MinPayout \in Nat /\ WeeklyLimit \in Nat
    /\ LostAnswers \in BOOLEAN /\ OrderedHooks \in BOOLEAN
    /\ MaxCrashes \in Nat

VARIABLES
    entry,    \* earnings_ledger_entry rows
    hold,     \* earnings_hold rows
    req,      \* payout_request rows
    alloc,    \* payout_allocation rows: alloc[r][e], 0 when there is none
    event,    \* the payout.execute outbox event of each request
    active,   \* payout_account: Stripe Connect and active, or not
    sent,     \* Stripe: how many transfers exist for the request
    bounced,  \* Stripe: the transfer failed after it was created
    bank,     \* an admin recorded a manual bank transfer for the request
    hooks,    \* Stripe transfer webhooks not applied yet
    tx,       \* what each session has planned
    crashes

rows == <<entry, hold, req, alloc, event, active>>
money == <<sent, bounced, bank, hooks>>
vars == <<entry, hold, req, alloc, event, active, sent, bounced, bank, hooks, tx, crashes>>

----------------------------------------------------------------------------
(* Row types *)

EntryStatus == {"none", "pending", "available", "held", "reversed"}
Entry == [status : EntryStatus, original : Nat, refunded : Nat,
          due : BOOLEAN, reversedAt : BOOLEAN]
NoEntry == [status |-> "none", original |-> 0, refunded |-> 0,
            due |-> FALSE, reversedAt |-> FALSE]

Hold == [state : {"none", "active", "released"}, scope : HoldScopes \cup {AllSources}]
NoHold == [state |-> "none", scope |-> AllSources]

RequestStatus ==
    {"none", "requested", "approved", "rejected", "processing", "paid", "failed"}
Request == [status : RequestStatus, amount : Nat, recent : BOOLEAN,
            approvedAt : BOOLEAN, bounceSeen : BOOLEAN]
NoRequest == [status |-> "none", amount |-> 0, recent |-> FALSE,
              approvedAt |-> FALSE, bounceSeen |-> FALSE]

Webhook == {"transfer.created", "transfer.failed"} \X Requests
Moves == [Entries -> {"keep", "held", "available"}]
ReservingStatus == {"approved", "processing", "paid"}
PayableStatus == {"approved", "processing"}

----------------------------------------------------------------------------
(* What the handlers compute from the rows they read *)

Fee(g) == (g * FeePercent + 50) \div 100
Gross(e) == IF entry[e].original > entry[e].refunded
            THEN entry[e].original - entry[e].refunded ELSE 0
Net(e) == Gross(e) - Fee(Gross(e))

Live(e) == entry[e].status \notin {"none", "reversed"}
Available == {e \in Entries : entry[e].status = "available"}

\* _entry_should_be_held, given the holds not yet released
HeldBy(H, e) == \E h \in H : hold[h].scope \in {AllSources, e}
ActiveHolds == {h \in Holds : hold[h].state = "active"}
Covered(e) == HeldBy(ActiveHolds, e)

Used(e) == LET R == {r \in Requests : req[r].status \in ReservingStatus}
           IN  MapThenSumSet(LAMBDA r : alloc[r][e], R)
Free(e) == IF Net(e) > Used(e) THEN Net(e) - Used(e) ELSE 0
Reserved == MapThenSumSet(Used, Entries)
Withdrawable == MapThenSumSet(Net, Available) - Reserved
RecentRequests == Cardinality({r \in Requests : req[r].recent})

----------------------------------------------------------------------------
(* Sessions.  Every handler first reads and plans (Begin) and later commits *)
(* its plan (End); a session that dies in between has written nothing.      *)

Idle == [op |-> "idle"]
Txn ==
    {Idle}
    \cup [op : {"earn"}, e : Entries, gross : Grosses, held : BOOLEAN]
    \cup [op : {"settle"}, moves : Moves]
    \cup [op : {"hold"}, h : Holds, scope : HoldScopes, hit : SUBSET Entries]
    \cup [op : {"release"}, hs : SUBSET Holds, moves : Moves]
    \cup [op : {"reverse"}, e : Entries]
    \cup [op : {"adjust"}, e : Entries, total : Refunds]
    \cup [op : {"request"}, r : Requests, amount : Amounts]
    \cup [op : {"approve"}, r : Requests, plan : [Entries -> Nat]]
    \cup [op : {"reject"}, r : Requests]
    \cup [op : {"markpaid"}, r : Requests]
    \cup [op : {"execute"}, r : Requests,
          to : {"calling", "keep", "processing", "paid", "failed"}]
    \cup [op : {"transfer.created", "transfer.failed"}, r : Requests, write : BOOLEAN]

Begin(s, t) ==
    /\ tx[s] = Idle
    /\ tx' = [tx EXCEPT ![s] = t]
    /\ UNCHANGED <<rows, money, crashes>>

End(s, op) ==
    /\ tx[s].op = op
    /\ tx' = [tx EXCEPT ![s] = Idle]
    /\ UNCHANGED crashes

InSession(op, r) == \E s \in Sessions : tx[s].op = op /\ tx[s].r = r

Crash(s) ==
    /\ tx[s] # Idle
    /\ crashes < MaxCrashes
    /\ crashes' = crashes + 1
    /\ tx' = [tx EXCEPT ![s] = Idle]
    /\ UNCHANGED <<rows, money>>

----------------------------------------------------------------------------
(* Earnings: create, settle, hold, release, adjust, reverse *)

\* create_earnings_entry; entries are numbered in the order they are created
BeginEarn(s, e, g) ==
    /\ entry[e].status = "none"
    /\ \A d \in Entries : d < e => entry[d].status # "none"
    /\ Begin(s, [op |-> "earn", e |-> e, gross |-> g, held |-> Covered(e)])

\* the unique (source_type, source_id, pro) row: the second insert is undone
CommitEarn(s) ==
    /\ End(s, "earn")
    /\ LET t == tx[s]
       IN  entry' = IF entry[t.e].status # "none" THEN entry
                    ELSE [entry EXCEPT ![t.e] =
                            [NoEntry EXCEPT !.status = IF t.held THEN "held" ELSE "pending",
                                            !.original = t.gross]]
    /\ UNCHANGED <<hold, req, alloc, event, active, money>>

\* the rows settle_due_earnings_entries scans
SettleableMutHeldForgotten(e) ==
    entry[e].status = "pending" /\ entry[e].due /\ ~entry[e].reversedAt
Settleable(e) ==
    entry[e].status \in {"pending", "held"} /\ entry[e].due /\ ~entry[e].reversedAt

\* the moves of settle_due_earnings_entries when the holds H are in force
SettleMoves(H) ==
    [e \in Entries |->
        LET target == IF HeldBy(H, e) THEN "held" ELSE "available"
        IN  IF Settleable(e) /\ entry[e].status # target THEN target ELSE "keep"]

Moved(moves) ==
    [e \in Entries |-> IF moves[e] = "keep" THEN entry[e]
                       ELSE [entry[e] EXCEPT !.status = moves[e]]]

\* run_settlement_scan; a scan with nothing to move writes nothing
BeginSettle(s) ==
    /\ \E e \in Entries : SettleMoves(ActiveHolds)[e] # "keep"
    /\ Begin(s, [op |-> "settle", moves |-> SettleMoves(ActiveHolds)])

CommitSettle(s) ==
    /\ End(s, "settle")
    /\ entry' = Moved(tx[s].moves)
    /\ UNCHANGED <<hold, req, alloc, event, active, money>>

\* _apply_hold_to_existing_entries: a hold without both source columns
\* catches every entry of the photographer
HoldableMutPendingOnly(e) == entry[e].status = "pending" /\ ~entry[e].reversedAt
Holdable(e) == entry[e].status \in {"pending", "available"} /\ ~entry[e].reversedAt

BeginHold(s, h, scope) ==
    /\ hold[h].state = "none"
    /\ \A u \in Sessions : tx[u].op = "hold" => tx[u].h # h
    /\ Begin(s, [op |-> "hold", h |-> h, scope |-> scope,
                 hit |-> {e \in Entries : /\ Holdable(e)
                                          /\ scope \in {AllSources, HalfScoped, e}}])

CommitHold(s) ==
    /\ End(s, "hold")
    /\ LET t == tx[s]
       IN  /\ hold' = [hold EXCEPT ![t.h] = [state |-> "active", scope |-> t.scope]]
           /\ entry' = [e \in Entries |-> IF e \in t.hit
                                          THEN [entry[e] EXCEPT !.status = "held"]
                                          ELSE entry[e]]
    /\ UNCHANGED <<req, alloc, event, active, money>>

\* release_earnings_hold (one hold, by an admin) and
\* release_earnings_holds_for_source (all of a source, by a dispute); both
\* run the settlement in the same session after marking the holds released
BeginRelease(s, hs) ==
    /\ hs # {}
    /\ Begin(s, [op |-> "release", hs |-> hs, moves |-> SettleMoves(ActiveHolds \ hs)])

BeginReleaseHold(s, h) ==
    /\ hold[h].state = "active"
    /\ BeginRelease(s, {h})

BeginReleaseHoldsForSource(s, e) ==
    BeginRelease(s, {h \in ActiveHolds : hold[h].scope = e})

CommitRelease(s) ==
    /\ End(s, "release")
    /\ hold' = [h \in Holds |-> IF h \in tx[s].hs
                                THEN [hold[h] EXCEPT !.state = "released"] ELSE hold[h]]
    /\ entry' = Moved(tx[s].moves)
    /\ UNCHANGED <<req, alloc, event, active, money>>

\* reverse_earnings_entries_for_source
BeginReverse(s, e) ==
    /\ Live(e)
    /\ Begin(s, [op |-> "reverse", e |-> e])

CommitReverse(s) ==
    /\ End(s, "reverse")
    /\ entry' = [entry EXCEPT ![tx[s].e] =
                    [@ EXCEPT !.status = "reversed", !.reversedAt = TRUE]]
    /\ UNCHANGED <<hold, req, alloc, event, active, money>>

\* adjust_earnings_for_partial_refund: total is the refunded total so far
BeginAdjust(s, e, total) ==
    /\ Live(e)
    /\ total > entry[e].refunded
    /\ Begin(s, [op |-> "adjust", e |-> e, total |-> total])

CommitAdjust(s) ==
    /\ End(s, "adjust")
    /\ entry' = [entry EXCEPT ![tx[s].e] = [@ EXCEPT !.refunded = tx[s].total]]
    /\ UNCHANGED <<hold, req, alloc, event, active, money>>

----------------------------------------------------------------------------
(* Payout requests: create, approve, reject, mark paid *)

UnderWeeklyLimit == RecentRequests < WeeklyLimit

SetStatus(r, st) == [req EXCEPT ![r] = [@ EXCEPT !.status = st]]

\* create_payout_request.  The payout freeze is an external guard here: a
\* frozen photographer is one whose requests are not made.
BeginRequest(s, r, amount) ==
    /\ req[r].status = "none"
    /\ ~InSession("request", r)
    /\ amount >= MinPayout
    /\ UnderWeeklyLimit
    /\ amount <= Withdrawable
    /\ Begin(s, [op |-> "request", r |-> r, amount |-> amount])

CommitRequest(s) ==
    /\ End(s, "request")
    /\ req' = [req EXCEPT ![tx[s].r] =
                 [NoRequest EXCEPT !.status = "requested", !.amount = tx[s].amount,
                                   !.recent = TRUE]]
    /\ UNCHANGED <<entry, hold, alloc, event, active, money>>

\* what the loop of _allocate_payout_amount leaves behind: the amount is
\* covered, from available entries only, oldest first
OldestFirst(plan) ==
    \A d, e \in Entries : d < e /\ plan[e] > 0 /\ d \in Available => plan[d] = Free(d)
Total(plan) == MapThenSumSet(LAMBDA e : plan[e], Entries)
GreedyMutUsedIgnored(plan, amount) ==
    /\ \A e \in Entries : plan[e] <= Net(e) /\ (plan[e] > 0 => e \in Available)
    /\ Total(plan) = amount
Greedy(plan, amount) ==
    /\ \A e \in Entries : plan[e] <= Free(e) /\ (plan[e] > 0 => e \in Available)
    /\ OldestFirst(plan)
    /\ Total(plan) = amount

\* approve_payout_request; with too little to allocate it raises (422)
BeginApprove(s, r) ==
    /\ req[r].status = "requested"
    /\ \E plan \in [Entries -> 0..req[r].amount] :
           /\ Greedy(plan, req[r].amount)
           /\ Begin(s, [op |-> "approve", r |-> r, plan |-> plan])

\* one allocation row per (request, entry), one event per idempotency key
Clashes(t) == \E e \in Entries : t.plan[e] > 0 /\ alloc[t.r][e] > 0

CommitApprove(s) ==
    /\ End(s, "approve")
    /\ LET t == tx[s]
       IN  \/ /\ Clashes(t)
              /\ UNCHANGED <<req, alloc, event>>
           \/ /\ ~Clashes(t)
              /\ alloc' = [alloc EXCEPT ![t.r] =
                             [e \in Entries |-> alloc[t.r][e] + t.plan[e]]]
              /\ req' = [req EXCEPT ![t.r] =
                            [@ EXCEPT !.status = "approved", !.approvedAt = TRUE]]
              /\ event' = IF event[t.r] = "none" THEN [event EXCEPT ![t.r] = "pending"]
                          ELSE event
    /\ UNCHANGED <<entry, hold, active, money>>

\* reject_payout_request
BeginReject(s, r) ==
    /\ req[r].status = "requested"
    /\ Begin(s, [op |-> "reject", r |-> r])

CommitReject(s) ==
    /\ End(s, "reject")
    /\ req' = SetStatus(tx[s].r, "rejected")
    /\ UNCHANGED <<entry, hold, alloc, event, active, money>>

\* mark_payout_paid_manual: the reference names a bank transfer made by hand
BeginMarkPaid(s, r) ==
    /\ req[r].status \in PayableStatus
    /\ Begin(s, [op |-> "markpaid", r |-> r])

CommitMarkPaid(s) ==
    /\ End(s, "markpaid")
    /\ req' = SetStatus(tx[s].r, "paid")
    /\ bank' = [bank EXCEPT ![tx[s].r] = TRUE]
    /\ UNCHANGED <<entry, hold, alloc, event, active, sent, bounced, hooks>>

----------------------------------------------------------------------------
(* payout.execute, claimed from the outbox, and Stripe *)

\* execute_payout_request up to the Stripe call
BeginExecuteMutWaitsForAccount(s, r) ==
    /\ event[r] = "pending" /\ active
    /\ ~InSession("execute", r)
    /\ Begin(s, [op |-> "execute", r |-> r,
                 to |-> IF req[r].status \notin PayableStatus THEN "keep" ELSE "calling"])
BeginExecute(s, r) ==
    /\ event[r] = "pending"
    /\ ~InSession("execute", r)
    /\ Begin(s, [op |-> "execute", r |-> r,
                 to |-> IF req[r].status \notin PayableStatus THEN "keep"
                        ELSE IF ~active THEN "processing" ELSE "calling"])

\* the transfer a call with this request's idempotency key leaves at Stripe
TransfersMutNewKey(r) == sent[r] + 1
Transfers(r) == IF sent[r] = 0 THEN 1 ELSE sent[r]

\* stripe.Transfer.create.  An answer means paid and an exception means
\* failed, whether or not the transfer was made.
CallStripeMutErrorSwallowed(s) ==
    /\ tx[s].op = "execute" /\ tx[s].to = "calling"
    /\ tx' = [tx EXCEPT ![s].to = "paid"]
    /\ \/ sent' = [sent EXCEPT ![tx[s].r] = Transfers(tx[s].r)]
       \/ UNCHANGED sent
    /\ UNCHANGED <<rows, bounced, bank, hooks, crashes>>
CallStripe(s) ==
    /\ tx[s].op = "execute" /\ tx[s].to = "calling"
    /\ LET r == tx[s].r
       IN  \/ /\ sent' = [sent EXCEPT ![r] = Transfers(r)]
              /\ hooks' = IF sent[r] = 0 THEN hooks \cup {<<"transfer.created", r>>}
                          ELSE hooks
              /\ \E to \in IF LostAnswers THEN {"paid", "failed"} ELSE {"paid"} :
                     tx' = [tx EXCEPT ![s].to = to]
           \/ /\ sent[r] = 0
              /\ tx' = [tx EXCEPT ![s].to = "failed"]
              /\ UNCHANGED <<sent, hooks>>
    /\ UNCHANGED <<rows, bounced, bank, crashes>>

CommitExecute(s) ==
    /\ tx[s].op = "execute" => tx[s].to # "calling"
    /\ End(s, "execute")
    /\ LET t == tx[s]
       IN  /\ event' = [event EXCEPT ![t.r] = "delivered"]
           /\ req' = IF t.to = "keep" THEN req ELSE SetStatus(t.r, t.to)
    /\ UNCHANGED <<entry, hold, alloc, active, money>>

\* the webhooks, claimed from the outbox one session at a time
BeginTransferCreatedMutPayableOnly(s, r) ==
    /\ <<"transfer.created", r>> \in hooks
    /\ ~InSession("transfer.created", r)
    /\ Begin(s, [op |-> "transfer.created", r |-> r,
                 write |-> req[r].status \in PayableStatus])
BeginTransferCreated(s, r) ==
    /\ <<"transfer.created", r>> \in hooks
    /\ ~InSession("transfer.created", r)
    /\ Begin(s, [op |-> "transfer.created", r |-> r, write |-> req[r].status # "paid"])

CommitTransferCreated(s) ==
    /\ End(s, "transfer.created")
    /\ LET t == tx[s]
       IN  /\ req' = IF t.write THEN SetStatus(t.r, "paid") ELSE req
           /\ hooks' = hooks \ {<<"transfer.created", t.r>>}
    /\ UNCHANGED <<entry, hold, alloc, event, active, sent, bounced, bank>>

BeginTransferFailed(s, r) ==
    /\ <<"transfer.failed", r>> \in hooks
    /\ OrderedHooks => <<"transfer.created", r>> \notin hooks
    /\ ~InSession("transfer.failed", r)
    /\ Begin(s, [op |-> "transfer.failed", r |-> r, write |-> ~req[r].bounceSeen])

CommitTransferFailed(s) ==
    /\ End(s, "transfer.failed")
    /\ LET t == tx[s]
       IN  /\ req' = IF t.write
                     THEN [req EXCEPT ![t.r] =
                             [@ EXCEPT !.status = "failed", !.bounceSeen = TRUE]]
                     ELSE req
           /\ hooks' = hooks \ {<<"transfer.failed", t.r>>}
    /\ UNCHANGED <<entry, hold, alloc, event, active, sent, bounced, bank>>

----------------------------------------------------------------------------
(* The outside world *)

\* available_at passes
Mature(e) ==
    /\ entry[e].status # "none" /\ ~entry[e].due
    /\ entry' = [entry EXCEPT ![e] = [@ EXCEPT !.due = TRUE]]
    /\ UNCHANGED <<hold, req, alloc, event, active, money, tx, crashes>>

\* every request so far is more than 7 days old
WeekPasses ==
    /\ \E r \in Requests : req[r].recent
    /\ req' = [r \in Requests |-> [req[r] EXCEPT !.recent = FALSE]]
    /\ UNCHANGED <<entry, hold, alloc, event, active, money, tx, crashes>>

\* the photographer switches method, or account.updated changes the status
AccountChanges ==
    /\ active' = ~active
    /\ UNCHANGED <<entry, hold, req, alloc, event, money, tx, crashes>>

\* Stripe takes a transfer back after having made it
Bounce(r) ==
    /\ sent[r] > 0 /\ ~bounced[r]
    /\ bounced' = [bounced EXCEPT ![r] = TRUE]
    /\ hooks' = hooks \cup {<<"transfer.failed", r>>}
    /\ UNCHANGED <<rows, sent, bank, tx, crashes>>

----------------------------------------------------------------------------
Init ==
    /\ entry = [e \in Entries |-> NoEntry]
    /\ hold = [h \in Holds |-> NoHold]
    /\ req = [r \in Requests |-> NoRequest]
    /\ alloc = [r \in Requests |-> [e \in Entries |-> 0]]
    /\ event = [r \in Requests |-> "none"]
    /\ active \in BOOLEAN
    /\ sent = [r \in Requests |-> 0]
    /\ bounced = [r \in Requests |-> FALSE]
    /\ bank = [r \in Requests |-> FALSE]
    /\ hooks = {}
    /\ tx = [s \in Sessions |-> Idle]
    /\ crashes = 0

EarningsStep(s) ==
    \/ \E e \in Entries, g \in Grosses : BeginEarn(s, e, g)
    \/ CommitEarn(s)
    \/ BeginSettle(s) \/ CommitSettle(s)
    \/ \E h \in Holds, scope \in HoldScopes : BeginHold(s, h, scope)
    \/ CommitHold(s)
    \/ \E h \in Holds : BeginReleaseHold(s, h)
    \/ \E e \in Entries : BeginReleaseHoldsForSource(s, e)
    \/ CommitRelease(s)
    \/ \E e \in Entries : BeginReverse(s, e)
    \/ CommitReverse(s)
    \/ \E e \in Entries, total \in Refunds : BeginAdjust(s, e, total)
    \/ CommitAdjust(s)

RequestStep(s) ==
    \/ \E r \in Requests, amount \in Amounts : BeginRequest(s, r, amount)
    \/ CommitRequest(s)
    \/ \E r \in Requests : BeginApprove(s, r)
    \/ CommitApprove(s)
    \/ \E r \in Requests : BeginReject(s, r)
    \/ CommitReject(s)
    \/ \E r \in Requests : BeginMarkPaid(s, r)
    \/ CommitMarkPaid(s)

WorkerStep(s) ==
    \/ \E r \in Requests : BeginExecute(s, r)
    \/ CallStripe(s) \/ CommitExecute(s)
    \/ \E r \in Requests : BeginTransferCreated(s, r)
    \/ CommitTransferCreated(s)
    \/ \E r \in Requests : BeginTransferFailed(s, r)
    \/ CommitTransferFailed(s)

World ==
    \/ \E e \in Entries : Mature(e)
    \/ WeekPasses
    \/ AccountChanges
    \/ \E r \in Requests : Bounce(r)

Next ==
    \/ \E s \in Sessions :
           EarningsStep(s) \/ RequestStep(s) \/ WorkerStep(s) \/ Crash(s)
    \/ World

Spec == Init /\ [][Next]_vars

\* A handler that has begun goes on to its commit (its process runs), and the
\* beat schedule keeps starting the outbox worker and the settlement scan.
\* Nothing makes an admin, a photographer or Stripe's bounce happen.
Commit(s) ==
    \/ CommitEarn(s) \/ CommitSettle(s) \/ CommitHold(s) \/ CommitRelease(s)
    \/ CommitReverse(s) \/ CommitAdjust(s) \/ CommitRequest(s) \/ CommitApprove(s)
    \/ CommitReject(s) \/ CommitMarkPaid(s) \/ CallStripe(s) \/ CommitExecute(s)
    \/ CommitTransferCreated(s) \/ CommitTransferFailed(s)

Fairness ==
    /\ \A s \in Sessions : WF_vars(Commit(s))
    /\ WF_vars(\E s \in Sessions : BeginSettle(s))
    /\ \A r \in Requests :
           /\ WF_vars(\E s \in Sessions : BeginExecute(s, r))
           /\ WF_vars(\E s \in Sessions : BeginTransferCreated(s, r))
           /\ WF_vars(\E s \in Sessions : BeginTransferFailed(s, r))

FairSpec == Spec /\ Fairness

----------------------------------------------------------------------------
(* Properties *)

\* Every row, outside fact and planned transaction has its type.
TypeOK ==
    /\ entry \in [Entries -> Entry]
    /\ hold \in [Holds -> Hold]
    /\ req \in [Requests -> Request]
    /\ alloc \in [Requests -> [Entries -> Nat]]
    /\ event \in [Requests -> {"none", "pending", "delivered"}]
    /\ active \in BOOLEAN
    /\ sent \in [Requests -> Nat]
    /\ bounced \in [Requests -> BOOLEAN]
    /\ bank \in [Requests -> BOOLEAN]
    /\ hooks \subseteq Webhook
    /\ tx \in [Sessions -> Txn]
    /\ crashes \in 0..MaxCrashes

\* Retries, crashes and lost answers never make Stripe move the money of one
\* request twice (the idempotency key of stripe.Transfer.create).
OneTransferPerRequest == \A r \in Requests : sent[r] <= 1

\* A request shown as paid has money behind it: a Stripe transfer that was
\* made (it may have bounced later) or a bank transfer an admin recorded.
PaidMeansMoneyMoved ==
    \A r \in Requests : req[r].status = "paid" => sent[r] > 0 \/ bank[r]

\* No money moves for a request that no admin approved, whatever interleaves.
MoneyMeansApproved ==
    \A r \in Requests : sent[r] > 0 \/ bank[r] => req[r].approvedAt

\* The live allocations of an entry never exceed what it was worth when it
\* was earned: approving one request after another spends nothing twice.
OriginalNet(e) == entry[e].original - Fee(entry[e].original)
NoDoubleSpend == \A e \in Entries : Used(e) <= OriginalNet(e)

\* No entry under an unreleased hold (on its source, or on everything) can be
\* paid out.
HeldIsNotAvailable == \A e \in Entries : Covered(e) => entry[e].status # "available"

\* A request is paid through Stripe or by hand, never both.
PaidOnce == \A r \in Requests : ~(sent[r] > 0 /\ ~bounced[r] /\ bank[r])

\* In any week at most WeeklyLimit requests are created.
WithinWeeklyLimit == RecentRequests <= WeeklyLimit

\* An entry reversed by a refund never counts as earnings again.
ReversedIsFinal ==
    [][\A e \in Entries : entry[e].reversedAt => entry'[e].status = "reversed"]_vars

\* Money that left through Stripe is accounted for: the request ends up paid,
\* or failed once Stripe took the money back, even when the worker died
\* between the call and its commit or never saw the answer.
TransferIsReconciled ==
    \A r \in Requests :
        sent[r] > 0 ~> (req[r].status = "paid" \/ bounced[r])

\* An approved request is executed: it does not stay approved.
ApprovedIsExecuted ==
    \A r \in Requests : req[r].status = "approved" ~> req[r].status # "approved"

\* An entry that is due and not covered by a hold is settled, also after
\* having been held.
DueIsSettled ==
    \A e \in Entries :
        (entry[e].status \in {"pending", "held"} /\ entry[e].due) ~>
            (entry[e].status \in {"available", "reversed"} \/ Covered(e))

----------------------------------------------------------------------------
(* The inductive invariant behind PaidMeansMoneyMoved, MoneyMeansApproved    *)
(* and OneTransferPerRequest: what each planned transaction may rely on.     *)

\* Whatever follows an approval happens only to approved requests.
AfterApproval ==
    \A r \in Requests :
        (\/ req[r].status \in ReservingStatus \cup {"failed"}
         \/ event[r] # "none" \/ sent[r] > 0 \/ bank[r])
        => req[r].approvedAt

UnusedIsBlank == \A r \in Requests : req[r].status = "none" => ~req[r].approvedAt

HooksHaveTransfers == \A r \in Requests :
    {<<"transfer.created", r>>, <<"transfer.failed", r>>} \cap hooks # {} => sent[r] > 0

\* A plan made from stale reads still refers to facts that cannot be undone.
PlanIsGrounded(t) ==
    /\ t.op = "request" => req[t.r].status = "none"
    /\ t.op \in {"approve", "reject"} => req[t.r].status # "none"
    /\ t.op \in {"markpaid", "execute"} => req[t.r].approvedAt
    /\ t.op = "execute" /\ t.to = "paid" => sent[t.r] > 0
    /\ t.op \in {"transfer.created", "transfer.failed"} => sent[t.r] > 0

OneCreator ==
    \A s, u \in Sessions :
        tx[s].op = "request" /\ tx[u].op = "request" /\ tx[s].r = tx[u].r => s = u

MoneyInv ==
    /\ AfterApproval
    /\ UnusedIsBlank
    /\ HooksHaveTransfers
    /\ \A s \in Sessions : PlanIsGrounded(tx[s])
    /\ OneCreator
    /\ PaidMeansMoneyMoved
    /\ OneTransferPerRequest
=============================================================================
