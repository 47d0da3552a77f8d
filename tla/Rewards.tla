------------------------------- MODULE Rewards -------------------------------
(***************************************************************************)
(* The reward points of one user and what they are spent on:               *)
(* api/app/services/rewards.py, services/store.py, the checkout, gig and   *)
(* upsell intents, and the branches of the Stripe webhook that apply or    *)
(* release a redemption.                                                   *)
(*                                                                         *)
(* A request is two steps: Begin reads what is committed, Commit takes the *)
(* row lock of the balance, recomputes the balance from the locked row and *)
(* commits.  Between the two, other requests, the dispatcher and Stripe    *)
(* move.  Redemptions are not locked: a step decides about them with what  *)
(* Begin read.  Every redemption costs Cost points.                        *)
(*                                                                         *)
(* An operator whose name contains Mut is a deliberately wrong form of the *)
(* definition that follows it, for the mutation tests only.                *)
(***************************************************************************)
EXTENDS Integers, Sequences, FiniteSets

CONSTANTS
    Requests,  \* API requests that may overlap
    Workers,   \* outbox dispatchers that may overlap
    Orders,    \* store orders
    Gigs,      \* gig payments
    Upsells,   \* purchases of extra images
    Reasons,   \* references a reward is issued for
    Reward,    \* points of the rule
    Cap,       \* lifetime_cap_per_user
    Cost,      \* points a redemption spends
    Adjustments, \* amounts an admin may adjust by
    Adjusted,  \* bound on the sum of the adjustments
    AdminStatuses, \* statuses an admin gives an order
    Scopes,    \* sets of contexts; a behaviour uses those of one of them
    MaxDeclines \* bound on the failed attempts of an intent

ASSUME RewardsAssumption ==
    /\ Reward \in Nat /\ Cap \in Nat /\ Cost \in Nat \ {0}
    /\ Adjustments \subseteq Int /\ Adjusted \subseteq Int /\ 0 \in Adjusted
    /\ AdminStatuses \subseteq {"shipped", "delivered", "cancelled", "refunded"}
    /\ MaxDeclines \in Nat /\ UNION Scopes \subseteq Orders \cup Gigs \cup Upsells
    /\ Requests \cap Workers = {}
    /\ Orders \cap Gigs = {} /\ Orders \cap Upsells = {} /\ Gigs \cap Upsells = {}

Contexts == Orders \cup Gigs \cup Upsells
Actors == Requests \cup Workers

VARIABLES
    scope,    \* the contexts of this behaviour
    balance,  \* reward_balance
    earned,   \* how many earn entries each reason has in the ledger
    adjusted, \* the sum of the admin adjustments in the ledger
    rows,     \* discount_redemption rows of each context, oldest first
    order,    \* commerce_order.status
    cart,     \* the cart holds a product that is on sale
    frozen,   \* a freeze_rewards action is active
    intent,   \* Stripe's payment intents
    inbox,    \* webhook events that wait in the outbox
    tasks,    \* submit_order_to_partner tasks in the broker
    txn       \* what each open transaction has read

points == <<balance, earned, adjusted, rows>>
store == <<order, cart, tasks>>
stripe == <<intent, inbox>>
rewardsVars == <<scope, points, store, stripe, frozen, txn>>

----------------------------------------------------------------------------
OrderStatus == {"none", "payment_pending", "paid", "submitted_to_partner",
                "shipped", "delivered", "cancelled", "refunded"}
Settled == {"paid", "submitted_to_partner", "shipped", "delivered"}
Intent == [state : {"none", "open", "captured", "canceled"},
           discount : BOOLEAN, declines : 0..MaxDeclines]
NoIntent == [state |-> "none", discount |-> FALSE, declines |-> 0]

Event == [type : {"succeeded", "payment_failed", "canceled"}, context : Contexts,
          number : 0..MaxDeclines]
None == [type |-> "none"]

Idle == [op |-> "idle", on |-> None, points |-> FALSE, found |-> {}, seen |-> "none"]

\* Rows that are reserved, or reserved and applied, as committed.
Reserved(c) == {k \in DOMAIN rows[c] : rows[c][k] = "reserved"}
Live(c) == {k \in DOMAIN rows[c] : rows[c][k] \in {"reserved", "applied"}}
Held == UNION {{c} \X Live(c) : c \in Contexts}

Enough == balance >= Cost

\* _get_or_create_reward_balance_locked and reserve_points_for_discount: a live
\* row of the context is returned as it is, else the points leave the balance
Reserve(t, c) ==
    IF ~t.points \/ t.found # {}
    THEN UNCHANGED <<balance, rows>>
    ELSE /\ Enough
         /\ balance' = balance - Cost
         /\ rows' = [rows EXCEPT ![c] = Append(@, "reserved")]

Open(discount) == [state |-> "open", discount |-> discount, declines |-> 0]

Start(a, t) == txn' = [txn EXCEPT ![a] = t]
End(a) == txn' = [txn EXCEPT ![a] = Idle]
Read(a, op, c, spends) ==
    /\ txn[a] = Idle
    /\ Start(a, [op |-> op, on |-> c, points |-> spends,
                 found |-> IF spends THEN Live(c) ELSE {},
                 seen |-> intent[c].state])
    /\ UNCHANGED <<points, store, stripe, frozen>>

----------------------------------------------------------------------------
(* The store: cart, checkout, admin *)

FillCart ==
    /\ ~cart
    /\ \E o \in Orders \cap scope : order[o] = "none"
    /\ cart' = TRUE
    /\ UNCHANGED <<points, stripe, order, frozen, tasks, txn>>

\* an item is removed, or its product goes off sale
EmptyCart ==
    /\ cart
    /\ cart' = FALSE
    /\ UNCHANGED <<points, stripe, order, frozen, tasks, txn>>

\* create_order_from_cart reads the cart and makes an order of it
BeginCheckout(a, o, spends) ==
    /\ cart /\ order[o] = "none"
    /\ \A b \in Actors : txn[b].on # o
    /\ Read(a, "checkout", o, spends)

Checkout(a) ==
    LET t == txn[a]
    IN  /\ t.op = "checkout"
        /\ Reserve(t, t.on)
        /\ order' = [order EXCEPT ![t.on] = "payment_pending"]
        /\ intent' = [intent EXCEPT ![t.on] = Open(t.points)]
        /\ cart' = FALSE
        /\ End(a)
        /\ UNCHANGED <<earned, adjusted, frozen, inbox, tasks>>

\* admin_store_order_update_status, whatever the order's status
AdminUpdate(o, status) ==
    /\ order[o] # "none" /\ order[o] # status
    /\ order' = [order EXCEPT ![o] = status]
    /\ UNCHANGED <<points, stripe, cart, frozen, tasks, txn>>

\* submit_order_to_partner_task, in a session of its own
Submittable(o) == order[o] = "paid"
SubmitTask(o) ==
    /\ o \in tasks
    /\ order' = IF Submittable(o)
                THEN [order EXCEPT ![o] = "submitted_to_partner"] ELSE order
    /\ tasks' = tasks \ {o}
    /\ UNCHANGED <<points, stripe, cart, frozen, txn>>

----------------------------------------------------------------------------
(* Other requests that reserve points *)

\* create_payment_intent of a gig: points are refused once there is an intent
\* that was made without them
BeginGigIntent(a, g, spends) ==
    /\ intent[g].state \in {"none", "open"}
    /\ ~(spends /\ intent[g].state = "open" /\ Live(g) = {})
    /\ txn[a] = Idle
    /\ Start(a, [op |-> "gig_intent", on |-> g, points |-> spends,
                 found |-> Live(g), seen |-> intent[g].state])
    /\ UNCHANGED <<points, store, stripe, frozen>>

\* _ensure_upsell_intent: an intent that exists is returned as it is
BeginUpsell(a, u, spends) ==
    /\ intent[u].state = "none"
    /\ Read(a, "upsell", u, spends)

\* both: Stripe's idempotency key gives one intent, and the unique column
\* stripe_payment_intent_id lets one of two transactions that overlap commit
CommitIntent(a) ==
    LET t == txn[a]
    IN  /\ t.op \in {"gig_intent", "upsell"}
        /\ t.seen = "none" => intent[t.on].state = "none"
        /\ Reserve(t, t.on)
        /\ intent' = IF t.seen = "none"
                     THEN [intent EXCEPT ![t.on] = Open(t.op = "gig_intent"
                             /\ (t.points \/ \E k \in t.found : rows[t.on][k] = "reserved"))]
                     ELSE intent
        /\ End(a)
        /\ UNCHANGED <<store, earned, adjusted, frozen, inbox>>

\* POST /rewards/spend names any context
BeginSpend(a, c) == Read(a, "spend", c, TRUE)

Spend(a) ==
    /\ txn[a].op = "spend"
    /\ Reserve(txn[a], txn[a].on)
    /\ End(a)
    /\ UNCHANGED <<store, stripe, earned, adjusted, frozen>>

\* the API refuses and rolls back, or the request dies
Abort(a) ==
    /\ txn[a].op \in {"checkout", "gig_intent", "upsell", "spend", "issue"}
    /\ End(a)
    /\ UNCHANGED <<points, store, stripe, frozen>>

----------------------------------------------------------------------------
(* issue_reward, admin adjustments and the freeze of trust_safety *)

EarnedPoints == Reward * Cardinality(UNION {{r} \X (1..earned[r]) : r \in Reasons})

\* the duplicate and the caps are looked up before the balance is locked
BeginIssue(a, r) ==
    /\ txn[a] = Idle
    /\ ~frozen /\ earned[r] = 0
    /\ EarnedPoints + Reward <= Cap
    /\ Start(a, [Idle EXCEPT !.op = "issue", !.on = r])
    /\ UNCHANGED <<points, store, stripe, frozen>>

IssueMutStale(a) ==
    /\ txn[a].op = "issue"
    /\ balance' = EarnedPoints + Reward
    /\ earned' = [earned EXCEPT ![txn[a].on] = @ + 1]
    /\ End(a)
    /\ UNCHANGED <<store, stripe, adjusted, rows, frozen>>
Issue(a) ==
    /\ txn[a].op = "issue"
    /\ balance' = balance + Reward
    /\ earned' = [earned EXCEPT ![txn[a].on] = @ + 1]
    /\ End(a)
    /\ UNCHANGED <<store, stripe, adjusted, rows, frozen>>

Adjust(n) ==
    /\ adjusted + n \in Adjusted
    /\ balance + n >= 0
    /\ balance' = balance + n
    /\ adjusted' = adjusted + n
    /\ UNCHANGED <<store, stripe, earned, rows, frozen, txn>>

Freeze ==
    /\ ~frozen
    /\ frozen' = TRUE
    /\ UNCHANGED <<points, store, stripe, txn>>

----------------------------------------------------------------------------
(* Stripe *)

Settle(c, state, type) ==
    /\ intent[c].state = "open"
    /\ intent' = [intent EXCEPT ![c].state = state]
    /\ inbox' = inbox \cup {[type |-> type, context |-> c, number |-> 0]}
    /\ UNCHANGED <<points, store, frozen, txn>>
Pay(c) == Settle(c, "captured", "succeeded")
CancelIntent(c) == Settle(c, "canceled", "canceled")

\* a failed attempt leaves the intent open for another one
Decline(c) ==
    /\ intent[c].state = "open" /\ intent[c].declines < MaxDeclines
    /\ intent' = [intent EXCEPT ![c].declines = @ + 1]
    /\ inbox' = inbox \cup {[type |-> "payment_failed", context |-> c,
                             number |-> intent[c].declines + 1]}
    /\ UNCHANGED <<points, store, frozen, txn>>

----------------------------------------------------------------------------
(* The webhook events, in the dispatcher *)

Taken(e) == \E w \in Workers : txn[w].op # "idle" /\ txn[w].on = e

\* scalar_one_or_none raises for two reserved rows, on every attempt
Ambiguous(c) == Cardinality(Reserved(c)) > 1

\* finalize_order_payment_success, handle_order_payment_failure and the gig and
\* upsell branches find the reserved row; the partner task of a paid order is
\* sent at once, or the order is submitted here when the broker is down
BeginEvent(w, e) ==
    LET c == e.context
        pays == e.type = "succeeded"
    IN  /\ txn[w] = Idle /\ e \in inbox /\ ~Taken(e)
        /\ ~Ambiguous(c)
        /\ \E down \in IF pays /\ c \in Orders THEN BOOLEAN ELSE {FALSE} :
               /\ Start(w, [op |-> e.type, on |-> e, points |-> down,
                            found |-> Reserved(c),
                            seen |-> IF c \in Orders THEN order[c] ELSE "none"])
               /\ tasks' = IF pays /\ c \in Orders /\ ~down THEN tasks \cup {c} ELSE tasks
        /\ UNCHANGED <<points, stripe, order, cart, frozen>>

\* the event's attempts run out; the order's status was written before the
\* handler raised
GiveUp(e) ==
    /\ e \in inbox /\ ~Taken(e) /\ Ambiguous(e.context)
    /\ order' = IF e.type = "succeeded" /\ e.context \in Orders
                   /\ order[e.context] \notin Settled
                THEN [order EXCEPT ![e.context] = "paid"] ELSE order
    /\ inbox' = inbox \ {e}
    /\ UNCHANGED <<points, cart, frozen, intent, tasks, txn>>

Mark(c, found, status) ==
    rows' = [rows EXCEPT ![c] = [k \in DOMAIN @ |-> IF k \in found THEN status ELSE @[k]]]

\* apply_redemption_for_context
Apply(w) ==
    LET t == txn[w]
        c == t.on.context
        first == c \in Orders => t.seen \notin Settled
        done == IF t.points THEN "submitted_to_partner" ELSE "paid"
    IN  /\ t.op = "succeeded"
        /\ Mark(c, IF first THEN t.found ELSE {}, "applied")
        /\ order' = IF c \in Orders /\ (first \/ (t.points /\ t.seen = "paid"))
                    THEN [order EXCEPT ![c] = done] ELSE order
        /\ inbox' = inbox \ {t.on}
        /\ End(w)
        /\ UNCHANGED <<balance, earned, adjusted, cart, frozen, intent, tasks>>

\* release_redemption_for_context
Release(w) ==
    LET t == txn[w]
        c == t.on.context
    IN  /\ t.op \in {"payment_failed", "canceled"}
        /\ Mark(c, t.found, "released")
        /\ balance' = balance + Cost * Cardinality(t.found)
        /\ inbox' = inbox \ {t.on}
        /\ End(w)
        /\ UNCHANGED <<store, earned, adjusted, frozen, intent>>

\* the worker dies: the batch is rolled back, a task it sent stays sent
CrashWorker(w) ==
    /\ txn[w] # Idle
    /\ End(w)
    /\ UNCHANGED <<points, store, stripe, frozen>>

----------------------------------------------------------------------------
RewardsInit ==
    /\ scope \in Scopes
    /\ balance = 0
    /\ earned = [r \in Reasons |-> 0]
    /\ adjusted = 0
    /\ rows = [c \in Contexts |-> <<>>]
    /\ order = [o \in Orders |-> "none"]
    /\ cart = FALSE
    /\ frozen = FALSE
    /\ intent = [c \in Contexts |-> NoIntent]
    /\ inbox = {}
    /\ tasks = {}
    /\ txn = [a \in Actors |-> Idle]

RequestStep(a) ==
    \/ \E spends \in BOOLEAN :
           \/ \E o \in Orders \cap scope : BeginCheckout(a, o, spends)
           \/ \E g \in Gigs \cap scope : BeginGigIntent(a, g, spends)
           \/ \E u \in Upsells \cap scope : BeginUpsell(a, u, spends)
    \/ \E c \in scope : BeginSpend(a, c)
    \/ \E r \in Reasons : BeginIssue(a, r)
    \/ Checkout(a) \/ CommitIntent(a) \/ Spend(a) \/ Issue(a) \/ Abort(a)

WorkerStep(w) ==
    \/ \E e \in inbox : BeginEvent(w, e)
    \/ Apply(w) \/ Release(w) \/ CrashWorker(w)

RewardsStep ==
    \/ \E a \in Requests : RequestStep(a)
    \/ \E w \in Workers : WorkerStep(w)
    \/ \E e \in inbox : GiveUp(e)
    \/ \E c \in Contexts : Pay(c) \/ CancelIntent(c) \/ Decline(c)
    \/ \E o \in Orders : \/ SubmitTask(o)
                         \/ \E s \in AdminStatuses : AdminUpdate(o, s)
    \/ \E n \in Adjustments : Adjust(n)
    \/ FillCart \/ EmptyCart \/ Freeze

RewardsNext == RewardsStep /\ UNCHANGED scope

RewardsSpec == RewardsInit /\ [][RewardsNext]_rewardsVars

----------------------------------------------------------------------------
(* Properties *)

\* The balance, the ledger and the redemptions have their types.
RewardsTypeOK ==
    /\ balance \in Int /\ adjusted \in Adjusted
    /\ earned \in [Reasons -> Nat]
    /\ rows \in [Contexts -> Seq({"reserved", "applied", "released"})]
    /\ order \in [Orders -> OrderStatus]
    /\ cart \in BOOLEAN /\ frozen \in BOOLEAN
    /\ intent \in [Contexts -> Intent]
    /\ inbox \subseteq Event
    /\ tasks \subseteq Orders

\* The balance is what was earned and adjusted, less the points of the
\* redemptions that hold some, and never negative: whatever requests overlap on
\* the balance, no points appear or vanish, a release gives points back once,
\* and reservations that race never spend points the user has not.
PointsConserved ==
    /\ balance >= 0
    /\ balance = EarnedPoints + adjusted - Cost * Cardinality(Held)

=============================================================================
