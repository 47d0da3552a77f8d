----------------------------- MODULE GigPayments -----------------------------
(***************************************************************************)
(* The money of one gig: its two Stripe payments, the selection that closes *)
(* it, the photographer's earnings entry, refunds and a dispute            *)
(* (api/app/api/v1/webhooks.py, services/gig_state.py,                     *)
(* services/gallery_completion.py, services/disputes.py, the gig endpoints *)
(* of api/v1/gigs.py, api/v1/admin.py, api/v1/disputes.py and              *)
(* api/v1/proof_galleries.py).                                             *)
(*                                                                         *)
(* A session reads the rows it needs when it begins, asks Stripe for       *)
(* refunds and writes the columns it changed when it commits: nothing locks *)
(* the gig, so two sessions may work from the same rows.  Stripe's events  *)
(* wait in the inbox and are applied in any order; a handler that raises   *)
(* leaves the columns it had changed and is tried again until it is given  *)
(* up.                                                                     *)
(*                                                                         *)
(* Left out: gallery extras (their own purchases and earnings), reward     *)
(* redemptions, entitlements, search indexes and notifications.  Holds on  *)
(* earnings and settlement are in Payouts.                                 *)
(*                                                                         *)
(* An operator whose name contains Mut is a deliberately wrong form of the *)
(* definition that follows it; nothing uses it but the mutation tests.     *)
(***************************************************************************)
EXTENDS Integers

CONSTANTS
    Sessions,     \* API requests and dispatcher tasks that may overlap
    Amount,       \* what each payment is for
    AdminStatuses,\* statuses an admin may set by hand
    Features,     \* which of the optional operations happen
    Notices,      \* the refund events Stripe is told to send
    Expanded      \* whether charge.refunded lists the refunds it is about

Kinds == {"base", "difference"}
Refs == {"client", "admin", "dispute", "none"}

ASSUME GigAssumption ==
    /\ Amount \in [Kinds -> Nat \ {0}]
    /\ AdminStatuses \subseteq {"disputed", "cancelled", "refunded"}
    /\ Features \subseteq {"decline", "cancel_intent", "chargeback", "crash",
                           "client_refund", "admin_refund", "admin_complete",
                           "open_dispute", "cancel_dispute", "resolve_dispute"}
    /\ Notices \subseteq {"charge.refunded", "refund.succeeded"}
    /\ Expanded \in BOOLEAN

VARIABLES
    db,      \* the committed rows
    ledger,  \* committed ledger_entry rows that move money
    stripe,  \* what Stripe knows of each payment
    inbox,   \* stored outbox events, not yet applied
    sent,    \* every outbox event ever stored: its idempotency key
    done,    \* delivered events
    dead,    \* events that were given up
    sess     \* what each session is doing

vars == <<db, ledger, stripe, inbox, sent, done, dead, sess>>

----------------------------------------------------------------------------
GigStatus == {"payment_pending", "paid", "completed", "disputed", "cancelled", "refunded"}
PaymentStatus == {"none", "pending", "succeeded", "failed", "cancelled", "refunded", "disputed"}
DisputeStatus == {"none", "open", "cancelled", "resolved_no_refund",
                  "resolved_partial_refund", "resolved_refund"}
Case == [status : {"none", "pending", "refund_initiated", "processing", "refunded"},
         amount : Nat, authorized : Nat, known : BOOLEAN]
NoCase == [status |-> "none", amount |-> 0, authorized |-> 0, known |-> FALSE]

\* One refund_case per payment for an admin refund and one for a dispute;
\* "known" says that the row carries Stripe's refund id; "oldest" is the payment
\* whose row was created first; "dear" is a draft that costs more than the base.
DB == [gig : GigStatus, base : PaymentStatus, difference : PaymentStatus, oldest : Kinds,
       selection : {"draft", "submitted"}, dear : BOOLEAN, owed : BOOLEAN, delivered : BOOLEAN,
       entry : {"none", "live", "reversed"}, gross : Nat, original : Nat, returned : Nat,
       dispute : DisputeStatus,
       base_admin : Case, base_dispute : Case, difference_admin : Case, difference_dispute : Case]
Column == [base |-> [admin |-> "base_admin", dispute |-> "base_dispute"],
           difference |-> [admin |-> "difference_admin", dispute |-> "difference_dispute"]]

NewDB == [gig |-> "payment_pending", base |-> "none", difference |-> "none", oldest |-> "base",
          selection |-> "draft", dear |-> FALSE, owed |-> FALSE, delivered |-> FALSE,
          entry |-> "none", gross |-> 0, original |-> 0, returned |-> 0, dispute |-> "none",
          base_admin |-> NoCase, base_dispute |-> NoCase,
          difference_admin |-> NoCase, difference_dispute |-> NoCase]

\* outbox events, requests and ledger rows
Op(type, k, amount, ref) == [type |-> type, kind |-> k, amount |-> amount, ref |-> ref]
Captured(k) == Op("payment_captured", k, Amount[k], "none")

Idle == [busy |-> FALSE]

\* What a handler comes to: the rows it leaves, those it leaves if Stripe
\* refuses, the ledger rows it adds, the refunds it asks Stripe for, the events
\* it enqueues, and whether it raised.
NoTake == [k \in Kinds |-> 0]
Outcome(d) == [db |-> d, halfway |-> d, book |-> {}, take |-> NoTake, ref |-> "none",
               send |-> {}, ok |-> TRUE]
Raised(d) == [Outcome(d) EXCEPT !.ok = FALSE]

Succeeded(d) == {k \in Kinds : d[k] = "succeeded"}
Total(S) == (IF "base" \in S THEN Amount["base"] ELSE 0)
            + (IF "difference" \in S THEN Amount["difference"] ELSE 0)
Least(m, n) == IF m <= n THEN m ELSE n

\* allocate_amount_oldest_first
Other(k) == IF k = "base" THEN "difference" ELSE "base"
Allocate(d, amount) ==
    LET Share(k, left) == IF k \in Succeeded(d) THEN Least(left, Amount[k]) ELSE 0
        first == Share(d.oldest, amount)
    IN  [k \in Kinds |-> IF k = d.oldest THEN first ELSE Share(k, amount - first)]

\* gig_state.py: the moves transition_gig allows; it refuses all others but the
\* move to where the gig is.  Endpoints that set the status themselves skip it.
ALLOWED_TRANSITIONS ==
    [g \in GigStatus |->
        IF g = "payment_pending" THEN {"paid", "cancelled"}
        ELSE IF g = "paid" THEN {"refunded", "disputed", "completed"} ELSE {}]
MayMove(d, to) == to \in ALLOWED_TRANSITIONS[d.gig] \cup {d.gig}

----------------------------------------------------------------------------
(* Completion: gallery_completion.py *)

\* transition_gig(paid -> completed) and create_earnings_entry, which keeps an
\* entry the gig already has
Complete(d) ==
    LET paid == Succeeded(d)
        e == [d EXCEPT !.gig = "completed"]
    IN  IF paid = {} \/ d.entry # "none" THEN e
        ELSE [e EXCEPT !.entry = "live", !.gross = Total(paid), !.original = Total(paid)]

IsSelectionFullyPaid(d) == d.owed => d.difference = "succeeded"

Finalize(d) ==
    LET e == [d EXCEPT !.delivered = TRUE]
    IN  IF d.gig = "paid" THEN Complete(e) ELSE e

SubmitMutNoWait(d) ==
    Outcome(Finalize([d EXCEPT !.selection = "submitted", !.owed = d.dear,
                               !.difference = IF d.dear THEN "pending" ELSE @]))
\* submit_selection: a dear selection owes a difference on top of the base payment
Submit(d) ==
    LET e == [d EXCEPT !.selection = "submitted"]
    IN  IF d.dear THEN Outcome([e EXCEPT !.owed = TRUE, !.difference = "pending",
                                         !.oldest = IF d.base = "none" THEN "difference" ELSE @])
        ELSE Outcome(Finalize(e))

----------------------------------------------------------------------------
(* Payment events: _apply_stripe_event *)

PaymentSucceededMutSwallow(d, k) ==
    LET e == [d EXCEPT ![k] = "succeeded"]
        f == [e EXCEPT !.gig = "paid"]
    IN  IF d[k] = "none" \/ ~MayMove(d, "paid") THEN Outcome(e)
        ELSE [Outcome(f) EXCEPT !.book = {Captured(k)}]
PaymentSucceeded(d, k) ==
    LET e == [d EXCEPT ![k] = "succeeded"]
        f == [e EXCEPT !.gig = "paid"]
        close == k = "difference" /\ d.selection = "submitted" /\ IsSelectionFullyPaid(f)
    IN  IF d[k] = "none" THEN Outcome(d)
        ELSE IF ~MayMove(d, "paid") THEN Raised(e)
        ELSE [Outcome(IF close THEN Finalize(f) ELSE f) EXCEPT !.book = {Captured(k)}]

PaymentEnds(d, k, status) ==
    IF d[k] = "none" THEN Outcome(d) ELSE Outcome([d EXCEPT ![k] = status])

Chargeback(d, k) ==
    LET e == [d EXCEPT ![k] = "disputed"]
    IN  IF d[k] = "none" THEN Outcome(d)
        ELSE IF ~MayMove(d, "disputed") THEN Raised(e)
        ELSE [Outcome([e EXCEPT !.gig = "disputed"])
              EXCEPT !.book = {Op("chargeback_opened", k, Amount[k], "none")}]

----------------------------------------------------------------------------
(* Refund events *)

\* reverse_earnings_entries_for_source
Reverse(d) == IF d.entry = "live" THEN [d EXCEPT !.entry = "reversed"] ELSE d

\* adjust_earnings_for_partial_refund
Adjust(d, amount) ==
    IF d.entry # "live" \/ amount <= d.returned THEN d
    ELSE [d EXCEPT !.returned = amount,
                   !.gross = IF d.original > amount THEN d.original - amount ELSE 0]

\* finalize_refund_case_success: by refund id, else by payment intent, which
\* only the cases of a dispute record
FinalizeAdminCase(d, k, ref) ==
    LET c == Column[k]["admin"]
    IN  IF d[c].known /\ ref = "admin" THEN [d EXCEPT ![c].status = "refunded"] ELSE d
FinalizeDisputeCaseMutByIdOnly(d, k, ref) ==
    LET c == Column[k]["dispute"]
    IN  IF d[c].known /\ ref = "dispute" THEN Reverse([d EXCEPT ![c].status = "refunded"]) ELSE d
FinalizeDisputeCase(d, k, ref) ==
    LET c == Column[k]["dispute"]
        byId == d[c].known /\ ref = "dispute"
        byIntent == d[c].status = "refund_initiated"
                    /\ ~(ref = "admin" /\ d[Column[k]["admin"]].known)
        part == d[c].amount < d[c].authorized
    IN  IF ~(byId \/ byIntent) THEN d
        ELSE Reverse([d EXCEPT ![c].status = "refunded",
                               !.dispute = IF part THEN "resolved_partial_refund"
                                           ELSE "resolved_refund"])

RefundSucceededMutAdjustAlways(d, k, amount, ref) ==
    IF d[k] = "none" THEN Outcome(d)
    ELSE [Outcome(FinalizeDisputeCase(FinalizeAdminCase(Adjust(d, amount), k, ref), k, ref))
          EXCEPT !.book = {Op("refund_succeeded", k, amount, ref)}]
\* charge.refunded and refund.succeeded
RefundSucceeded(d, k, amount, ref) ==
    LET e == IF amount >= Amount[k] THEN Reverse([d EXCEPT ![k] = "refunded"])
             ELSE Adjust(d, amount)
    IN  IF d[k] = "none" THEN Outcome(d)
        ELSE [Outcome(FinalizeDisputeCase(FinalizeAdminCase(e, k, ref), k, ref))
              EXCEPT !.book = {Op("refund_succeeded", k, amount, ref)}]

\* initiate_refund_case, the refund.initiate event of a dispute
InitiateRefund(d, k) ==
    LET c == Column[k]["dispute"]
        e == [d EXCEPT ![c].status = "refund_initiated"]
    IN  IF d[c].status = "refunded" \/ (d[c].status = "refund_initiated" /\ d[c].known)
        THEN Outcome(d)
        ELSE [Outcome([e EXCEPT ![c].known = TRUE])
              EXCEPT !.halfway = e, !.ref = "dispute",
                     !.take = [j \in Kinds |-> IF j = k THEN d[c].amount ELSE 0]]

----------------------------------------------------------------------------
(* Requests *)

\* create_or_get_gig_payment_intent for the base payment
CreateIntent(d) == Outcome([d EXCEPT !.base = "pending",
                                     !.oldest = IF d.difference = "none" THEN "base" ELSE @])

\* the client's refund: whatever is left of each payment, and no status moves
\* before Stripe's event
ClientRefund(d) ==
    [Outcome(d) EXCEPT !.ref = "client",
                       !.take = [k \in Kinds |-> IF k \in Succeeded(d) THEN Amount[k] ELSE 0]]

AdminRefund(d, amount) ==
    LET take == Allocate(d, amount)
        Refunding(k) == IF take[k] > 0
                        THEN [status |-> "processing", amount |-> take[k],
                              authorized |-> 0, known |-> TRUE]
                        ELSE d[Column[k]["admin"]]
    IN  [Outcome([d EXCEPT !.base_admin = Refunding("base"),
                           !.difference_admin = Refunding("difference"),
                           !.base = IF take["base"] > 0 THEN "pending" ELSE @,
                           !.difference = IF take["difference"] > 0 THEN "pending" ELSE @])
         EXCEPT !.take = take, !.ref = "admin"]

\* the endpoint moves the gig itself, from any status it accepts
OpenDispute(d) == Outcome([d EXCEPT !.dispute = "open", !.gig = "disputed"])

\* admin_resolve_dispute and create_or_get_refund_case_for_dispute
Cases(d) == {k \in Kinds : d[Column[k]["dispute"]].status # "none"}
NewCaseMutSettled(amount, all) ==
    [status |-> "refunded", amount |-> amount, authorized |-> all, known |-> FALSE]
NewCase(amount, all) ==
    [status |-> "pending", amount |-> amount, authorized |-> all, known |-> FALSE]
ResolveDispute(d, amount) ==
    LET all == Total(Succeeded(d))
        take == Allocate(d, amount)
        Asked(k) == IF Cases(d) = {} /\ take[k] > 0
                    THEN NewCase(take[k], all)
                    ELSE d[Column[k]["dispute"]]
        e == [d EXCEPT !.dispute = IF amount = 0 THEN "resolved_no_refund"
                                   ELSE IF amount < all THEN "resolved_partial_refund"
                                   ELSE "resolved_refund"]
        f == [e EXCEPT !.base_dispute = Asked("base"),
                       !.difference_dispute = Asked("difference")]
    IN  IF amount = 0 THEN Outcome(e)
        ELSE [Outcome(f) EXCEPT !.send = {Op("refund.initiate", k, 0, "none") : k \in Cases(f)}]

AdminComplete(d) == Outcome(Complete(d))

----------------------------------------------------------------------------
(* Requests and events *)

Event(type, k) == Op(type, k, 0, "none")
EventTypes == {"payment_intent.succeeded", "payment_intent.payment_failed",
               "payment_intent.canceled", "charge.refunded", "refund.succeeded",
               "charge.dispute.created", "refund.initiate"}

Request ==
    {Op(type, "base", 0, "none") : type \in {"create_intent", "submit", "client_refund", "open_dispute",
                                             "cancel_dispute", "admin_complete"}}
    \cup {Op("admin_refund", "base", n, "none") : n \in 1..Total(Kinds)}
    \cup {Op("resolve_dispute", "base", n, "none") : n \in 0..Total(Kinds)}
    \cup {Op("admin_set", "base", 0, status) : status \in AdminStatuses}
Optional == {"client_refund", "open_dispute", "cancel_dispute", "admin_complete",
             "admin_refund", "resolve_dispute"}

\* the endpoints' own checks
Accepts(op, d) ==
    /\ op.type \in Optional => op.type \in Features
    /\ CASE op.type = "create_intent" -> d.gig = "payment_pending" /\ d.base = "none"
         [] op.type = "submit" -> d.selection = "draft"
         [] op.type = "client_refund" -> d.gig = "paid" /\ Succeeded(d) # {}
         [] op.type = "admin_refund" ->
                /\ d.gig \in {"paid", "disputed"}
                /\ \A k \in Kinds : d[Column[k]["admin"]].status # "processing"
                /\ op.amount <= Total(Succeeded(d))
         [] op.type = "open_dispute" ->
                /\ d.gig \in {"paid", "disputed", "refunded", "completed"}
                /\ d.dispute = "none"
         [] op.type = "cancel_dispute" -> d.dispute = "open"
         [] op.type = "resolve_dispute" ->
                /\ d.dispute # "none"
                /\ op.amount > 0 /\ Cases(d) = {} => Succeeded(d) # {}
                /\ op.amount <= Total(Succeeded(d))
         [] op.type = "admin_complete" -> MayMove(d, "completed")
         [] OTHER -> TRUE

Handle(op, d) ==
    CASE op.type = "payment_intent.succeeded" -> PaymentSucceeded(d, op.kind)
      [] op.type = "payment_intent.payment_failed" -> PaymentEnds(d, op.kind, "failed")
      [] op.type = "payment_intent.canceled" -> PaymentEnds(d, op.kind, "cancelled")
      [] op.type = "charge.dispute.created" -> Chargeback(d, op.kind)
      [] op.type \in {"charge.refunded", "refund.succeeded"} ->
             RefundSucceeded(d, op.kind, op.amount, op.ref)
      [] op.type = "refund.initiate" -> InitiateRefund(d, op.kind)
      [] op.type = "create_intent" -> CreateIntent(d)
      [] op.type = "submit" -> Submit(d)
      [] op.type = "client_refund" -> ClientRefund(d)
      [] op.type = "admin_refund" -> AdminRefund(d, op.amount)
      [] op.type = "open_dispute" -> OpenDispute(d)
      [] op.type = "cancel_dispute" -> Outcome([d EXCEPT !.dispute = "cancelled"])
      [] op.type = "resolve_dispute" -> ResolveDispute(d, op.amount)
      [] op.type = "admin_complete" -> AdminComplete(d)
      [] op.type = "admin_set" -> Outcome([d EXCEPT !.gig = op.ref])

----------------------------------------------------------------------------
(* Sessions *)

Begin(s, op) ==
    /\ ~sess[s].busy
    /\ sess' = [sess EXCEPT ![s] = [busy |-> TRUE, op |-> op, seen |-> db, answer |-> "none"]]

BeginRequest(s, op) ==
    /\ Accepts(op, db)
    /\ Begin(s, op)
    /\ UNCHANGED <<db, ledger, stripe, inbox, sent, done, dead>>

\* the dispatcher: a claimed row is locked until its task ends
BeginEvent(s, e) ==
    /\ e \in inbox
    /\ Begin(s, e)
    /\ inbox' = inbox \ {e}
    /\ UNCHANGED <<db, ledger, stripe, sent, done, dead>>

Running(s) == Handle(sess[s].op, sess[s].seen)
CallsStripe(o) == \E k \in Kinds : o.take[k] > 0

\* What stripe.Refund.create asks for: a client's refund names no amount and
\* takes what is left.  The answer to an idempotency key is repeated, and a key
\* used with another amount is refused, as is money that is not there.
Wanted(o, k) == IF o.ref = "client" THEN Amount[k] - stripe[k].refunded ELSE o.take[k]
Repeats(o, k) == o.ref \in DOMAIN stripe[k].made
Refuses(o, k) ==
    /\ o.take[k] > 0
    /\ IF Repeats(o, k) THEN o.ref # "client" /\ stripe[k].made[o.ref] # o.take[k]
       ELSE \/ stripe[k].intent # "succeeded"
            \/ Wanted(o, k) = 0
            \/ stripe[k].refunded + Wanted(o, k) > Amount[k]
Reached(o, k, oldest) == o.take[k] > 0 /\ (k = oldest \/ ~Refuses(o, oldest))
RefundMade(o, oldest) == {k \in Kinds : Reached(o, k, oldest) /\ ~Refuses(o, k) /\ ~Repeats(o, k)}
RefundEvents(o, oldest) ==
    {e \in UNION {{Op("charge.refunded", k, stripe[k].refunded + Wanted(o, k),
                      IF Expanded THEN o.ref ELSE "none"),
                   Op("refund.succeeded", k, Wanted(o, k), o.ref)} : k \in RefundMade(o, oldest)}
        : e.type \in Notices}

\* The refunds of one handler, oldest payment first, up to the first refusal.
CallStripe(s) ==
    LET o == Running(s)
        oldest == sess[s].seen.oldest
        stored == RefundEvents(o, oldest) \ sent
        refused == \E k \in Kinds : Refuses(o, k)
    IN  /\ sess[s].busy /\ sess[s].answer = "none" /\ CallsStripe(o)
        /\ stripe' = [k \in Kinds |->
                         IF k \in RefundMade(o, oldest)
                         THEN [stripe[k] EXCEPT !.refunded = @ + Wanted(o, k),
                                                !.made = [r \in DOMAIN @ \cup {o.ref} |->
                                                    IF r = o.ref THEN Wanted(o, k) ELSE @[r]]]
                         ELSE stripe[k]]
        /\ sess' = [sess EXCEPT ![s].answer = IF refused THEN "refused" ELSE "made"]
        /\ inbox' = inbox \cup stored
        /\ sent' = sent \cup stored
        /\ UNCHANGED <<db, ledger, done, dead>>

\* The columns a session changed are written over whatever is there now; the
\* unique key of earnings entries keeps an entry that came first.
Merge(seen, new, cur) ==
    LET m == [c \in DOMAIN cur |-> IF new[c] # seen[c] THEN new[c] ELSE cur[c]]
    IN  IF seen.entry = "none" /\ cur.entry # "none"
        THEN [m EXCEPT !.entry = cur.entry, !.gross = cur.gross,
                       !.original = cur.original, !.returned = cur.returned]
        ELSE m

\* _ledger_reference_exists; the ledger is a set, so the same row written by two
\* sessions that overlap counts once here
NewRows(rows) ==
    {r \in rows : ~\E x \in ledger : x.type = r.type /\ x.kind = r.kind /\ x.ref = r.ref}

\* What the session wrote becomes visible at once.  A handler that raises keeps
\* its half-done rows and its event, unless it was the last attempt; a request
\* that raises writes nothing.
Commit(s) ==
    LET op == sess[s].op
        seen == sess[s].seen
        o == Running(s)
        refused == sess[s].answer = "refused"
        ok == o.ok /\ ~refused
        isEvent == op.type \in EventTypes
        stored == IF ok THEN o.send \ sent ELSE {}
    IN  /\ sess[s].busy
        /\ CallsStripe(o) => sess[s].answer # "none"
        /\ db' = IF ok \/ isEvent
                 THEN Merge(seen, IF refused THEN o.halfway ELSE o.db, db) ELSE db
        /\ ledger' = IF ok THEN ledger \cup NewRows(o.book) ELSE ledger
        /\ sent' = sent \cup stored
        /\ done' = IF ok /\ isEvent THEN done \cup {op} ELSE done
        /\ \/ /\ inbox' = inbox \cup stored \cup (IF isEvent /\ ~ok THEN {op} ELSE {})
              /\ UNCHANGED dead
           \/ /\ isEvent /\ ~ok
              /\ inbox' = inbox
              /\ dead' = dead \cup {op}
        /\ sess' = [sess EXCEPT ![s] = Idle]
        /\ UNCHANGED stripe

\* the process dies: nothing of the session is written and its event is free
Crash(s) ==
    /\ "crash" \in Features
    /\ sess[s].busy
    /\ sess' = [sess EXCEPT ![s] = Idle]
    /\ inbox' = IF sess[s].op.type \in EventTypes THEN inbox \cup {sess[s].op} ELSE inbox
    /\ UNCHANGED <<db, ledger, stripe, sent, done, dead>>

----------------------------------------------------------------------------
(* Stripe *)

Notify(e) ==
    /\ e \notin sent
    /\ inbox' = inbox \cup {e}
    /\ sent' = sent \cup {e}
    /\ UNCHANGED <<db, ledger, done, dead, sess>>

\* the client has the secret of an intent once its row is committed
Pay(k) ==
    /\ db[k] # "none" /\ stripe[k].intent = "open"
    /\ stripe' = [stripe EXCEPT ![k].intent = "succeeded"]
    /\ Notify(Event("payment_intent.succeeded", k))
Decline(k) ==
    /\ "decline" \in Features
    /\ db[k] # "none" /\ stripe[k].intent = "open"
    /\ Notify(Event("payment_intent.payment_failed", k))
    /\ UNCHANGED stripe
CancelIntent(k) ==
    /\ "cancel_intent" \in Features
    /\ db[k] # "none" /\ stripe[k].intent = "open"
    /\ stripe' = [stripe EXCEPT ![k].intent = "canceled"]
    /\ Notify(Event("payment_intent.canceled", k))
OpenChargeback(k) ==
    /\ "chargeback" \in Features
    /\ stripe[k].intent = "succeeded"
    /\ Notify(Event("charge.dispute.created", k))
    /\ UNCHANGED stripe

----------------------------------------------------------------------------
Init ==
    /\ \E dear \in BOOLEAN : db = [NewDB EXCEPT !.dear = dear]
    /\ ledger = {} /\ inbox = {} /\ sent = {} /\ done = {} /\ dead = {}
    /\ stripe = [k \in Kinds |-> [intent |-> "open", refunded |-> 0, made |-> <<>>]]
    /\ sess = [s \in Sessions |-> Idle]

Next ==
    \/ \E s \in Sessions :
           \/ \E op \in Request : BeginRequest(s, op)
           \/ \E e \in inbox : BeginEvent(s, e)
           \/ CallStripe(s)
           \/ Commit(s)
           \/ Crash(s)
    \/ \E k \in Kinds : Pay(k) \/ Decline(k) \/ CancelIntent(k) \/ OpenChargeback(k)

Spec == Init /\ [][Next]_vars

----------------------------------------------------------------------------
(* Properties *)

\* Rows and Stripe's view have their types; what waits, was applied or was given
\* up has its idempotency key stored.
TypeOK ==
    /\ db \in DB
    /\ \A k \in Kinds : /\ stripe[k].intent \in {"open", "succeeded", "canceled"}
                        /\ stripe[k].refunded \in 0..Amount[k]
                        /\ DOMAIN stripe[k].made \subseteq Refs
    /\ \A x \in ledger \cup sent : x.kind \in Kinds /\ x.amount \in Nat
    /\ inbox \cup done \cup dead \subseteq sent
    /\ \A s \in Sessions : sess[s].busy => sess[s].seen \in DB

\* A success event recorded as delivered has landed: the captured payment is in
\* the gig's ledger, whatever order events came in and whatever overlapped.
DeliveredIsBooked ==
    \A k \in Kinds : Event("payment_intent.succeeded", k) \in done => Captured(k) \in ledger

Booked == {k \in Kinds : Captured(k) \in ledger}

\* A selection that owes a difference unlocks the gallery only after the
\* difference was captured.
UnlockedIsPaid == db.delivered /\ db.owed => "difference" \in Booked

\* A cancelled, refunded or completed gig is never again waiting to be shot.
Closed == {"completed", "cancelled", "refunded"}
ClosedStaysClosed == [][db.gig \in Closed => db'.gig \notin {"payment_pending", "paid"}]_vars

\* When everything was refunded and every event applied, nothing is left to the
\* photographer.
Quiet == inbox = {} /\ dead = {} /\ \A s \in Sessions : ~sess[s].busy
Kept(k) == IF stripe[k].intent = "succeeded" THEN Amount[k] - stripe[k].refunded ELSE 0
RefundedEarnsNothing ==
    Quiet /\ (\A k \in Kinds : Kept(k) = 0) => (db.entry = "live" => db.gross = 0)

\* A refund case is closed as refunded only when its own refund was made.
CaseIsBacked ==
    \A k \in Kinds : \A by \in {"admin", "dispute"} :
        db[Column[k][by]].status = "refunded"
            => by \in DOMAIN stripe[k].made /\ stripe[k].made[by] = db[Column[k][by]].amount

\* Once every event was applied, the case of each refund that was made says so.
CasesSettle ==
    Quiet => \A k \in Kinds : \A by \in {"admin", "dispute"} \cap DOMAIN stripe[k].made :
                 db[Column[k][by]].status = "refunded"

\* A refund that leaves part of the gig's money with the platform leaves the
\* photographer the share of that part.
PartialRefundKeepsShare ==
    Quiet /\ db.entry # "none" /\ Kept("base") + Kept("difference") > 0
        => db.entry = "live" /\ db.gross = Kept("base") + Kept("difference")
=============================================================================
