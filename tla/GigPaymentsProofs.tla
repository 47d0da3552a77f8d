-------------------------- MODULE GigPaymentsProofs --------------------------
(***************************************************************************)
(* Proofs about one gig's money, for any sessions that overlap and die,    *)
(* any amounts, optional operations and refund notices, and events in any  *)
(* order:                                                                  *)
(*   - a delivered success event is in the gig's ledger, and a gallery     *)
(*     whose selection owes a difference is unlocked only by its payment;  *)
(*   - every state is of its type, and no more is refunded than was        *)
(*     captured;                                                           *)
(*   - a gig whose money was all refunded leaves the photographer nothing, *)
(*     as long as sessions commit on rows nobody changed under them;       *)
(*   - a refund case is closed only by its own refund: an admin's always,  *)
(*     a dispute's as long as nobody else refunds its payment; and each    *)
(*     refund closes its case where sessions do not overlap or die.        *)
(*                                                                         *)
(* None is inductive.  A session writes what follows from the rows it has  *)
(* read, so LandInv says what stays true of them: a payment that has an    *)
(* event has its row, in the database and in what the event's handler has  *)
(* read, and only a dear selection ever owes anything.  TypeInv adds the   *)
(* types of what sessions have read; CleanInv what rows, events and Stripe *)
(* say of each other; AdminInv and DisputeInv what the cases in the        *)
(* database and in what sessions have read say of the refunds made; and    *)
(* SettleInv where the event waits that closes a case.                     *)
(***************************************************************************)
EXTENDS GigPayments, TLAPS

RowColumns ==
    {"gig", "base", "difference", "oldest", "selection", "dear", "owed", "delivered", "entry",
     "gross", "original", "returned", "dispute", "base_admin", "base_dispute",
     "difference_admin", "difference_dispute"}

Success == "payment_intent.succeeded"

IsEvent(e) == e.type \in EventTypes /\ e.kind \in Kinds

Shape ==
    /\ DOMAIN db = RowColumns /\ DOMAIN sess = Sessions
    /\ inbox \subseteq sent
    /\ \A e \in sent : IsEvent(e)

\* What a session that is busy may rely on.
Grounded(s) ==
    sess[s].busy =>
        /\ DOMAIN sess[s] = {"busy", "op", "seen", "answer"}
        /\ DOMAIN sess[s].seen = RowColumns
        /\ sess[s].op \in Request \/ sess[s].op \in sent
        /\ sess[s].op.type = Success => sess[s].seen[sess[s].op.kind] # "none"
        /\ sess[s].seen.dear = db.dear
        /\ sess[s].answer # "none" => CallsStripe(Running(s))

PaymentsHaveRows == \A e \in sent : e.type = Success => db[e.kind] # "none"

CapturedOnce == \A x \in ledger : x.type = "payment_captured" => x.kind \in Kinds /\ x = Captured(x.kind)

OwedIsDear ==
    /\ db.owed => db.dear
    /\ db.dear /\ db.delivered => Captured("difference") \in ledger

LandInv ==
    /\ Shape
    /\ \A s \in Sessions : Grounded(s)
    /\ PaymentsHaveRows
    /\ CapturedOnce
    /\ OwedIsDear
    /\ DeliveredIsBooked

----------------------------------------------------------------------------
(* What handlers leave alone *)

\* e is d but for columns that say nothing of payments and delivery.
SameDeal(d, e) ==
    /\ DOMAIN e = RowColumns
    /\ e.base = d.base /\ e.difference = d.difference
    /\ e.dear = d.dear /\ e.owed = d.owed /\ e.delivered = d.delivered

LEMMA ColumnIsOther ==
    ASSUME NEW k \in Kinds, NEW by \in {"admin", "dispute"}
    PROVE  Column[k][by] \in {"base_admin", "base_dispute", "difference_admin", "difference_dispute"}
BY DEF Column, Kinds

LEMMA CompleteKeeps ==
    ASSUME NEW d, DOMAIN d = RowColumns
    PROVE  SameDeal(d, Complete(d))
BY DEF Complete, SameDeal, RowColumns

LEMMA ReverseKeeps ==
    ASSUME NEW d, DOMAIN d = RowColumns
    PROVE  SameDeal(d, Reverse(d))
BY DEF Reverse, SameDeal, RowColumns

LEMMA AdjustKeeps ==
    ASSUME NEW d, DOMAIN d = RowColumns, NEW amount
    PROVE  SameDeal(d, Adjust(d, amount))
BY DEF Adjust, SameDeal, RowColumns

LEMMA CaseStatusKeeps ==
    ASSUME NEW d, DOMAIN d = RowColumns, NEW k \in Kinds, NEW by \in {"admin", "dispute"}, NEW v
    PROVE  SameDeal(d, [d EXCEPT ![Column[k][by]].status = v])
BY ColumnIsOther DEF SameDeal, RowColumns

LEMMA FinalizeCasesKeeps ==
    ASSUME NEW d, DOMAIN d = RowColumns, NEW k \in Kinds, NEW ref
    PROVE  SameDeal(d, FinalizeDisputeCase(FinalizeAdminCase(d, k, ref), k, ref))
<1> DEFINE e == FinalizeAdminCase(d, k, ref)
           c == Column[k]["dispute"]
<1>1. SameDeal(d, e)
    BY CaseStatusKeeps DEF FinalizeAdminCase, SameDeal
<1>2. ASSUME NEW v PROVE SameDeal(e, Reverse([e EXCEPT ![c].status = "refunded", !.dispute = v]))
    <2> DEFINE f == [e EXCEPT ![c].status = "refunded", !.dispute = v]
    <2>1. SameDeal(e, f)
        BY <1>1, ColumnIsOther DEF SameDeal, RowColumns
    <2>2. SameDeal(f, Reverse(f))
        BY <2>1, ReverseKeeps DEF SameDeal
    <2> QED
        BY <2>1, <2>2 DEF SameDeal
<1>3. SameDeal(e, FinalizeDisputeCase(e, k, ref))
    BY <1>1, <1>2 DEF FinalizeDisputeCase, SameDeal
<1> QED
    BY <1>1, <1>3 DEF SameDeal

----------------------------------------------------------------------------
(* What each handler comes to *)

\* From the rows d, outcome o: no payment loses its row, nothing is owed unless
\* the selection is dear, a dear gallery is unlocked only by booking the
\* difference, and a handler that asks Stripe unlocks nothing.
Tame(d, o) ==
    /\ \A k \in Kinds : /\ o.db[k] = "none" => d[k] = "none"
                        /\ o.halfway[k] = "none" => d[k] = "none"
    /\ o.db.dear = d.dear /\ o.halfway.dear = d.dear
    /\ o.db.owed # d.owed \/ o.halfway.owed # d.owed => d.dear
    /\ d.dear /\ o.db.delivered # d.delivered => o.ok /\ Captured("difference") \in o.book
    /\ CallsStripe(o) => o.db.delivered = d.delivered /\ o.halfway.delivered = d.delivered
    /\ \A e \in o.send : e.type = "refund.initiate" /\ e.kind \in Kinds
    /\ \A r \in o.book : r.type = "payment_captured" => r.kind \in Kinds /\ r = Captured(r.kind)

\* Rows that no payment has left, and no money asked for.
LEMMA OutcomeIsTame ==
    ASSUME NEW d, NEW e,
           \A j \in Kinds : e[j] = "none" => d[j] = "none",
           e.dear = d.dear, e.owed # d.owed => d.dear, d.dear => e.delivered = d.delivered
    PROVE  Tame(d, Outcome(e)) /\ ~CallsStripe(Outcome(e))
<1> DEFINE o == Outcome(e)
<1>1. /\ o.db = e /\ o.halfway = e /\ o.book = {} /\ o.send = {}
      /\ \A j \in Kinds : o.take[j] = 0
    BY DEF Outcome, NoTake
<1>2. ~CallsStripe(o)
    BY <1>1 DEF CallsStripe
<1> HIDE DEF o
<1>3. Tame(d, o)
    BY <1>1, <1>2 DEF Tame
<1> QED
    BY <1>2, <1>3 DEF o

\* Rows that differ from d in nothing that matters, and no money asked for.
LEMMA PlainIsTame ==
    ASSUME NEW d, DOMAIN d = RowColumns, NEW e, SameDeal(d, e)
    PROVE  Tame(d, Outcome(e)) /\ ~CallsStripe(Outcome(e))
<1>1. \A j \in Kinds : e[j] = d[j]
    BY DEF SameDeal, Kinds
<1> QED
    BY <1>1, OutcomeIsTame DEF SameDeal

LEMMA SubmitIsTame ==
    ASSUME NEW d, DOMAIN d = RowColumns
    PROVE  Tame(d, Submit(d)) /\ ~CallsStripe(Submit(d))
<1> DEFINE e == [d EXCEPT !.selection = "submitted"]
<1>1. SameDeal(d, e) /\ e.gig = d.gig
    BY DEF SameDeal, RowColumns
<1>2. CASE d.dear
    <2> DEFINE f == [e EXCEPT !.owed = TRUE, !.difference = "pending",
                              !.oldest = IF d.base = "none" THEN "difference" ELSE @]
    <2>1. /\ f.base = d.base /\ f.difference = "pending" /\ f.dear = d.dear
          /\ f.delivered = d.delivered
        BY <1>1 DEF SameDeal, RowColumns
    <2>2. Submit(d) = Outcome(f)
        BY <1>2 DEF Submit
    <2> HIDE DEF f
    <2>3. \A j \in Kinds : f[j] = "none" => d[j] = "none"
        BY <2>1 DEF Kinds
    <2>4. Tame(d, Outcome(f)) /\ ~CallsStripe(Outcome(f))
        BY <1>2, <2>1, <2>3, OutcomeIsTame
    <2> QED
        BY <2>2, <2>4
<1>3. CASE ~d.dear
    <2> DEFINE f == [e EXCEPT !.delivered = TRUE]
               g == Finalize(e)
    <2>1. /\ DOMAIN f = RowColumns /\ f.base = d.base /\ f.difference = d.difference
          /\ f.dear = d.dear /\ f.owed = d.owed
        BY <1>1 DEF SameDeal, RowColumns
    <2>2. SameDeal(f, Complete(f))
        BY <2>1, CompleteKeeps
    <2>3. g = f \/ g = Complete(f)
        BY DEF Finalize
    <2> HIDE DEF f
    <2>4. /\ g.base = d.base /\ g.difference = d.difference
          /\ g.dear = d.dear /\ g.owed = d.owed
        BY <2>1, <2>2, <2>3 DEF SameDeal
    <2>5. Submit(d) = Outcome(g)
        BY <1>3 DEF Submit
    <2> HIDE DEF g
    <2>6. \A j \in Kinds : g[j] = d[j]
        BY <2>4 DEF Kinds
    <2>7. Tame(d, Outcome(g)) /\ ~CallsStripe(Outcome(g))
        BY <1>3, <2>4, <2>6, OutcomeIsTame
    <2> QED
        BY <2>5, <2>7
<1> QED
    BY <1>2, <1>3

\* A handler of a success event that goes through has booked the payment.
LEMMA SucceededIsTame ==
    ASSUME NEW d, DOMAIN d = RowColumns, NEW k \in Kinds
    PROVE  /\ Tame(d, PaymentSucceeded(d, k))
           /\ d[k] # "none" /\ PaymentSucceeded(d, k).ok => Captured(k) \in PaymentSucceeded(d, k).book
<1> DEFINE e == [d EXCEPT ![k] = "succeeded"]
           f == [e EXCEPT !.gig = "paid"]
           g == [f EXCEPT !.delivered = TRUE]
           o == PaymentSucceeded(d, k)
           book == {Captured(k)}
<1>1. /\ DOMAIN e = RowColumns /\ e.dear = d.dear /\ e.owed = d.owed /\ e.delivered = d.delivered
      /\ \A j \in Kinds : e[j] = "none" => d[j] = "none"
    BY DEF RowColumns, Kinds
<1>2. /\ DOMAIN f = RowColumns /\ f.dear = d.dear /\ f.owed = d.owed /\ f.delivered = d.delivered
      /\ \A j \in Kinds : f[j] = "none" => d[j] = "none"
    BY <1>1 DEF RowColumns, Kinds
<1>3. /\ DOMAIN g = RowColumns /\ g.dear = d.dear /\ g.owed = d.owed
      /\ \A j \in Kinds : g[j] = "none" => d[j] = "none"
    BY <1>2 DEF RowColumns, Kinds
<1>4. SameDeal(g, Complete(g))
    BY <1>3, CompleteKeeps
<1>5. \/ d[k] = "none" /\ o = Outcome(d)
      \/ o = Raised(e)
      \/ o = [Outcome(f) EXCEPT !.book = book]
      \/ k = "difference" /\ o = [Outcome(g) EXCEPT !.book = book]
      \/ k = "difference" /\ o = [Outcome(Complete(g)) EXCEPT !.book = book]
    BY DEF PaymentSucceeded, Finalize
<1>6. \A r \in book : r.kind \in Kinds /\ r = Captured(r.kind)
    BY DEF Captured, Op
<1> HIDE DEF e, f, g, o, book
<1>7. CASE d[k] = "none" /\ o = Outcome(d)
    BY <1>7 DEF Tame, Outcome, CallsStripe, NoTake, o
<1>8. CASE o = Raised(e)
    BY <1>1, <1>8 DEF Tame, Raised, Outcome, CallsStripe, NoTake, o
<1>9. CASE o = [Outcome(f) EXCEPT !.book = book]
    <2>1. Tame(d, o)
        BY <1>2, <1>6, <1>9 DEF Tame, Outcome, CallsStripe, NoTake
    <2> QED
        BY <2>1, <1>9 DEF Outcome, o, book
<1>10. CASE k = "difference" /\ o = [Outcome(g) EXCEPT !.book = book]
    <2>1. Captured("difference") \in o.book
        BY <1>10 DEF Outcome, book
    <2>2. Tame(d, o)
        BY <1>3, <1>6, <1>10, <2>1 DEF Tame, Outcome, CallsStripe, NoTake
    <2> QED
        BY <1>10, <2>1, <2>2 DEF o
<1>11. CASE k = "difference" /\ o = [Outcome(Complete(g)) EXCEPT !.book = book]
    <2>1. Captured("difference") \in o.book
        BY <1>11 DEF Outcome, book
    <2>2. Tame(d, o)
        BY <1>3, <1>4, <1>6, <1>11, <2>1 DEF Tame, SameDeal, Outcome, CallsStripe, NoTake, Kinds
    <2> QED
        BY <1>11, <2>1, <2>2 DEF o
<1> QED
    BY <1>5, <1>7, <1>8, <1>9, <1>10, <1>11 DEF o

LEMMA EndsIsTame ==
    ASSUME NEW d, DOMAIN d = RowColumns, NEW k \in Kinds, NEW status, status # "none"
    PROVE  Tame(d, PaymentEnds(d, k, status))
<1> DEFINE e == [d EXCEPT ![k] = status]
<1>1. /\ e.dear = d.dear /\ e.owed = d.owed /\ e.delivered = d.delivered
      /\ \A j \in Kinds : e[j] = "none" => d[j] = "none"
    BY DEF RowColumns, Kinds
<1>2. PaymentEnds(d, k, status) = Outcome(d) \/ PaymentEnds(d, k, status) = Outcome(e)
    BY DEF PaymentEnds
<1> HIDE DEF e
<1> QED
    BY <1>1, <1>2 DEF Tame, Outcome, CallsStripe, NoTake

LEMMA ChargebackIsTame ==
    ASSUME NEW d, DOMAIN d = RowColumns, NEW k \in Kinds
    PROVE  Tame(d, Chargeback(d, k))
<1> DEFINE e == [d EXCEPT ![k] = "disputed"]
           f == [e EXCEPT !.gig = "disputed"]
           book == {Op("chargeback_opened", k, Amount[k], "none")}
<1>1. /\ DOMAIN e = RowColumns /\ e.dear = d.dear /\ e.owed = d.owed /\ e.delivered = d.delivered
      /\ \A j \in Kinds : e[j] = "none" => d[j] = "none"
    BY DEF RowColumns, Kinds
<1>2. /\ f.dear = d.dear /\ f.owed = d.owed /\ f.delivered = d.delivered
      /\ \A j \in Kinds : f[j] = "none" => d[j] = "none"
    BY <1>1 DEF RowColumns, Kinds
<1>3. \A r \in book : r.type # "payment_captured"
    BY DEF Op
<1>4. \/ Chargeback(d, k) = Outcome(d) \/ Chargeback(d, k) = Raised(e)
      \/ Chargeback(d, k) = [Outcome(f) EXCEPT !.book = book]
    BY DEF Chargeback
<1> HIDE DEF e, f, book
<1> QED
    BY <1>1, <1>2, <1>3, <1>4 DEF Tame, Raised, Outcome, CallsStripe, NoTake

LEMMA RefundIsTame ==
    ASSUME NEW d, DOMAIN d = RowColumns, NEW k \in Kinds, NEW amount, NEW ref
    PROVE  Tame(d, RefundSucceeded(d, k, amount, ref))
<1> DEFINE f == [d EXCEPT ![k] = "refunded"]
           e == IF amount >= Amount[k] THEN Reverse(f) ELSE Adjust(d, amount)
           g == FinalizeDisputeCase(FinalizeAdminCase(e, k, ref), k, ref)
           book == {Op("refund_succeeded", k, amount, ref)}
<1>1. /\ DOMAIN f = RowColumns /\ f.dear = d.dear /\ f.owed = d.owed /\ f.delivered = d.delivered
      /\ \A j \in Kinds : f[j] = "none" => d[j] = "none"
    BY DEF RowColumns, Kinds
<1>2. SameDeal(f, Reverse(f)) /\ SameDeal(d, Adjust(d, amount))
    BY <1>1, ReverseKeeps, AdjustKeeps
<1> HIDE DEF f
<1>3. /\ DOMAIN e = RowColumns /\ e.dear = d.dear /\ e.owed = d.owed /\ e.delivered = d.delivered
      /\ \A j \in Kinds : e[j] = "none" => d[j] = "none"
    BY <1>1, <1>2 DEF SameDeal, Kinds
<1> HIDE DEF e
<1>4. SameDeal(e, g)
    BY <1>3, FinalizeCasesKeeps
<1>5. \A r \in book : r.type # "payment_captured"
    BY DEF Op
<1>6. \/ RefundSucceeded(d, k, amount, ref) = Outcome(d)
      \/ RefundSucceeded(d, k, amount, ref) = [Outcome(g) EXCEPT !.book = book]
    BY DEF RefundSucceeded, e, f
<1> HIDE DEF g, book
<1> QED
    BY <1>3, <1>4, <1>5, <1>6 DEF Tame, SameDeal, Outcome, CallsStripe, NoTake, Kinds

\* Rows that differ from d in no payment that leaves and in no delivery.
Steady(d, e) ==
    /\ \A j \in Kinds : e[j] = "none" => d[j] = "none"
    /\ e.dear = d.dear /\ e.owed = d.owed /\ e.delivered = d.delivered

LEMMA SameIsSteady ==
    ASSUME NEW d, NEW e, SameDeal(d, e)
    PROVE  Steady(d, e)
BY DEF SameDeal, Steady, Kinds

LEMMA SteadyIsTame ==
    ASSUME NEW d, NEW o, Steady(d, o.db), Steady(d, o.halfway), o.book = {},
           \A e \in o.send : e.type = "refund.initiate" /\ e.kind \in Kinds
    PROVE  Tame(d, o)
BY DEF Tame, Steady

LEMMA InitiateIsTame ==
    ASSUME NEW d, DOMAIN d = RowColumns, NEW k \in Kinds
    PROVE  Tame(d, InitiateRefund(d, k))
<1> DEFINE c == Column[k]["dispute"]
           e == [d EXCEPT ![c].status = "refund_initiated"]
           f == [e EXCEPT ![c].known = TRUE]
           take == [j \in Kinds |-> IF j = k THEN d[c].amount ELSE 0]
           o == [Outcome(f) EXCEPT !.halfway = e, !.ref = "dispute", !.take = take]
<1>1. SameDeal(d, d) /\ SameDeal(d, e)
    BY CaseStatusKeeps DEF SameDeal
<1>2. SameDeal(e, f)
    BY <1>1, ColumnIsOther DEF SameDeal, RowColumns
<1>3. Steady(d, d) /\ Steady(d, e) /\ Steady(d, f)
    BY <1>1, <1>2, SameIsSteady DEF SameDeal
<1>4. InitiateRefund(d, k) = Outcome(d) \/ InitiateRefund(d, k) = o
    BY DEF InitiateRefund
<1> HIDE DEF e, f, take
<1>5. o.db = f /\ o.halfway = e /\ o.book = {} /\ o.send = {}
    BY DEF Outcome
<1> HIDE DEF o
<1>6. Tame(d, o)
    BY <1>3, <1>5, SteadyIsTame
<1> QED
    BY <1>1, <1>4, <1>6, PlainIsTame

LEMMA CreateIsTame ==
    ASSUME NEW d, DOMAIN d = RowColumns
    PROVE  Tame(d, CreateIntent(d))
<1> DEFINE e == [d EXCEPT !.base = "pending",
                          !.oldest = IF d.difference = "none" THEN "base" ELSE @]
<1>1. /\ e.base = "pending" /\ e.difference = d.difference
      /\ e.dear = d.dear /\ e.owed = d.owed /\ e.delivered = d.delivered
    BY DEF RowColumns
<1>2. CreateIntent(d) = Outcome(e)
    BY DEF CreateIntent
<1> HIDE DEF e
<1>3. \A j \in Kinds : e[j] = "none" => d[j] = "none"
    BY <1>1 DEF Kinds
<1> QED
    BY <1>1, <1>2, <1>3, OutcomeIsTame

LEMMA ClientRefundIsTame ==
    ASSUME NEW d
    PROVE  Tame(d, ClientRefund(d))
<1> DEFINE o == ClientRefund(d)
<1>1. o.db = d /\ o.halfway = d /\ o.book = {} /\ o.send = {}
    BY DEF ClientRefund, Outcome
<1>2. Steady(d, d)
    BY DEF Steady
<1> HIDE DEF o
<1>3. Tame(d, o)
    BY <1>1, <1>2, SteadyIsTame
<1> QED
    BY <1>3 DEF o

LEMMA AdminRefundIsTame ==
    ASSUME NEW d, DOMAIN d = RowColumns, NEW amount
    PROVE  Tame(d, AdminRefund(d, amount))
<1> DEFINE take == Allocate(d, amount)
           Refunding(k) == IF take[k] > 0
                           THEN [status |-> "processing", amount |-> take[k],
                                 authorized |-> 0, known |-> TRUE]
                           ELSE d[Column[k]["admin"]]
           e == [d EXCEPT !.base_admin = Refunding("base"),
                          !.difference_admin = Refunding("difference"),
                          !.base = IF take["base"] > 0 THEN "pending" ELSE @,
                          !.difference = IF take["difference"] > 0 THEN "pending" ELSE @]
           o == [Outcome(e) EXCEPT !.take = take, !.ref = "admin"]
<1>1. AdminRefund(d, amount) = o
    BY DEF AdminRefund
<1> HIDE DEF take, Refunding
<1>2. /\ e.base = d.base \/ e.base = "pending"
      /\ e.difference = d.difference \/ e.difference = "pending"
      /\ e.dear = d.dear /\ e.owed = d.owed /\ e.delivered = d.delivered
    BY DEF RowColumns
<1> HIDE DEF e
<1>3. o.db = e /\ o.halfway = e /\ o.book = {} /\ o.send = {}
    BY DEF Outcome
<1> HIDE DEF o
<1>4. Steady(d, e)
    BY <1>2 DEF Steady, Kinds
<1>5. Tame(d, o)
    BY <1>3, <1>4, SteadyIsTame
<1> QED
    BY <1>1, <1>5

LEMMA ResolveIsTame ==
    ASSUME NEW d, DOMAIN d = RowColumns, NEW amount
    PROVE  Tame(d, ResolveDispute(d, amount))
<1> DEFINE all == Total(Succeeded(d))
           take == Allocate(d, amount)
           Asked(k) == IF Cases(d) = {} /\ take[k] > 0
                       THEN NewCase(take[k], all)
                       ELSE d[Column[k]["dispute"]]
           e == [d EXCEPT !.dispute = IF amount = 0 THEN "resolved_no_refund"
                                      ELSE IF amount < all THEN "resolved_partial_refund"
                                      ELSE "resolved_refund"]
           f == [e EXCEPT !.base_dispute = Asked("base"), !.difference_dispute = Asked("difference")]
           send == {Op("refund.initiate", k, 0, "none") : k \in Cases(f)}
           o == [Outcome(f) EXCEPT !.send = send]
<1>1. ResolveDispute(d, amount) = Outcome(e) \/ ResolveDispute(d, amount) = o
    BY DEF ResolveDispute
<1> HIDE DEF all, take, Asked
<1>2. SameDeal(d, e)
    BY DEF SameDeal, RowColumns
<1>3. SameDeal(e, f)
    BY <1>2 DEF SameDeal, RowColumns
<1> HIDE DEF e, f
<1>4. \A x \in send : x.type = "refund.initiate" /\ x.kind \in Kinds
    BY DEF Op, Cases
<1> HIDE DEF send
<1>5. Steady(d, f)
    BY <1>2, <1>3, SameIsSteady DEF SameDeal
<1>6. o.db = f /\ o.halfway = f /\ o.book = {} /\ o.send = send
    BY DEF Outcome
<1> HIDE DEF o
<1>7. Tame(d, o)
    BY <1>4, <1>5, <1>6, SteadyIsTame
<1>8. Tame(d, Outcome(e))
    BY <1>2, PlainIsTame
<1> QED
    BY <1>1, <1>7, <1>8

LEMMA RequestIsNoEvent ==
    ASSUME NEW op \in Request
    PROVE  op.type \notin EventTypes
BY DEF Request, Op, EventTypes

\* Every handler is tame, and one of a success event that goes through books it.
LEMMA HandleIsTame ==
    ASSUME NEW op, op \in Request \/ IsEvent(op), NEW d, DOMAIN d = RowColumns
    PROVE  /\ Tame(d, Handle(op, d))
           /\ op.type = Success /\ d[op.kind] # "none" /\ Handle(op, d).ok
                  => Captured(op.kind) \in Handle(op, d).book
<1>1. CASE IsEvent(op)
    <2> DEFINE k == op.kind
    <2>1. k \in Kinds
        BY <1>1 DEF IsEvent
    <2>2. /\ Tame(d, PaymentSucceeded(d, k)) /\ Tame(d, PaymentEnds(d, k, "failed"))
          /\ Tame(d, PaymentEnds(d, k, "cancelled")) /\ Tame(d, Chargeback(d, k))
          /\ Tame(d, RefundSucceeded(d, k, op.amount, op.ref)) /\ Tame(d, InitiateRefund(d, k))
          /\ d[k] # "none" /\ PaymentSucceeded(d, k).ok
                 => Captured(k) \in PaymentSucceeded(d, k).book
        BY <2>1, SucceededIsTame, EndsIsTame, ChargebackIsTame, RefundIsTame, InitiateIsTame
    <2> QED
        BY <1>1, <2>2 DEF IsEvent, EventTypes, Handle, Success
<1>2. CASE op \in Request
    <2>1. /\ op.type \in {"create_intent", "submit", "client_refund", "open_dispute",
                          "cancel_dispute", "admin_complete", "admin_refund",
                          "resolve_dispute", "admin_set"}
        BY <1>2 DEF Request, Op
    <2>2. /\ Tame(d, CreateIntent(d)) /\ Tame(d, Submit(d)) /\ Tame(d, ClientRefund(d))
          /\ Tame(d, AdminRefund(d, op.amount)) /\ Tame(d, ResolveDispute(d, op.amount))
        BY CreateIsTame, SubmitIsTame, ClientRefundIsTame, AdminRefundIsTame, ResolveIsTame
    <2>3. ASSUME NEW v PROVE Tame(d, Outcome([d EXCEPT !.dispute = v]))
        <3>1. SameDeal(d, [d EXCEPT !.dispute = v])
            BY DEF SameDeal, RowColumns
        <3> QED
            BY <3>1, PlainIsTame
    <2>4. ASSUME NEW v PROVE Tame(d, Outcome([d EXCEPT !.gig = v]))
        <3>1. SameDeal(d, [d EXCEPT !.gig = v])
            BY DEF SameDeal, RowColumns
        <3> QED
            BY <3>1, PlainIsTame
    <2>5. Tame(d, OpenDispute(d))
        <3>1. SameDeal(d, [d EXCEPT !.dispute = "open", !.gig = "disputed"])
            BY DEF SameDeal, RowColumns
        <3> QED
            BY <3>1, PlainIsTame DEF OpenDispute
    <2>6. Tame(d, AdminComplete(d))
        BY CompleteKeeps, PlainIsTame DEF AdminComplete
    <2>7. Tame(d, Handle(op, d))
        BY <2>1, <2>2, <2>3, <2>4, <2>5, <2>6 DEF Handle
    <2> QED
        BY <2>1, <2>7 DEF Success
<1> QED
    BY <1>1, <1>2

----------------------------------------------------------------------------
(* The invariant is inductive *)

LEMMA LandInit == Init => LandInv
<1> SUFFICES ASSUME Init PROVE LandInv
    OBVIOUS
<1>1. PICK dear \in BOOLEAN : db = [NewDB EXCEPT !.dear = dear]
    BY DEF Init
<1>2. DOMAIN db = RowColumns /\ ~db.owed /\ ~db.delivered
    BY <1>1 DEF NewDB, RowColumns
<1>3. /\ ledger = {} /\ inbox = {} /\ sent = {} /\ done = {}
      /\ sess = [s \in Sessions |-> Idle]
    BY DEF Init
<1>4. \A s \in Sessions : ~sess[s].busy
    BY <1>3 DEF Idle
<1> QED
    BY <1>2, <1>3, <1>4 DEF LandInv, Shape, Grounded, PaymentsHaveRows, CapturedOnce,
                            OwedIsDear, DeliveredIsBooked

\* What sessions rely on stays true when the rows keep "dear" and events are
\* only added.
LEMMA GroundedStays ==
    ASSUME NEW s, Grounded(s), sess'[s] = sess[s], sent \subseteq sent', db'.dear = db.dear
    PROVE  Grounded(s)'
BY DEF Grounded, Running

\* New events are harmless to what the invariant says of the rows.
LEMMA EventsAdded ==
    ASSUME LandInv, NEW E, sent' = sent \cup E, UNCHANGED <<db, ledger, done>>,
           \A e \in E : IsEvent(e) /\ (e.type = Success => db[e.kind] # "none")
    PROVE  /\ \A e \in sent' : IsEvent(e)
           /\ PaymentsHaveRows' /\ CapturedOnce' /\ OwedIsDear' /\ DeliveredIsBooked'
BY DEF LandInv, Shape, PaymentsHaveRows, CapturedOnce, OwedIsDear, DeliveredIsBooked

LEMMA LandBegin ==
    ASSUME LandInv, NEW s \in Sessions, NEW op, op \in Request \/ op \in sent, Begin(s, op),
           inbox' \subseteq inbox, UNCHANGED <<db, ledger, sent, done>>
    PROVE  LandInv'
<1>1. /\ sess' = [sess EXCEPT ![s] = [busy |-> TRUE, op |-> op, seen |-> db, answer |-> "none"]]
      /\ DOMAIN sess = Sessions
    BY DEF Begin, LandInv, Shape
<1>2. op.type = Success => db[op.kind] # "none"
    BY RequestIsNoEvent DEF LandInv, PaymentsHaveRows, EventTypes, Success
<1>3. Grounded(s)'
    BY <1>1, <1>2 DEF Grounded, LandInv, Shape
<1>4. \A t \in Sessions \ {s} : Grounded(t)'
    BY <1>1, GroundedStays DEF LandInv
<1>5. Shape'
    BY <1>1 DEF Shape, LandInv
<1> QED
    BY <1>3, <1>4, <1>5 DEF LandInv, PaymentsHaveRows, CapturedOnce, OwedIsDear, DeliveredIsBooked

LEMMA LandCallStripe ==
    ASSUME LandInv, NEW s \in Sessions, CallStripe(s)
    PROVE  LandInv'
<1> DEFINE o == Running(s)
           E == RefundEvents(o, sess[s].seen.oldest) \ sent
           v == IF \E k \in Kinds : Refuses(o, k) THEN "refused" ELSE "made"
<1>1. /\ sess[s].busy /\ CallsStripe(o)
      /\ sess' = [sess EXCEPT ![s].answer = v]
      /\ inbox' = inbox \cup E /\ sent' = sent \cup E
      /\ UNCHANGED <<db, ledger, done>>
    BY DEF CallStripe
<1>2. \A e \in E : IsEvent(e) /\ e.type # Success
    BY DEF RefundEvents, RefundMade, Op, IsEvent, EventTypes, Success
<1> HIDE DEF E
<1>3. /\ \A e \in sent' : IsEvent(e)
      /\ PaymentsHaveRows' /\ CapturedOnce' /\ OwedIsDear' /\ DeliveredIsBooked'
    BY <1>1, <1>2, EventsAdded
<1>4. Shape'
    BY <1>1, <1>3 DEF Shape, LandInv
<1>5. /\ sess'[s].op = sess[s].op /\ sess'[s].seen = sess[s].seen /\ sess'[s].busy = sess[s].busy
      /\ DOMAIN sess'[s] = {"busy", "op", "seen", "answer"}
    BY <1>1 DEF LandInv, Shape, Grounded
<1>6. CallsStripe(Running(s)')
    BY <1>1, <1>5 DEF Running
<1>7. Grounded(s)'
    BY <1>1, <1>5, <1>6 DEF Grounded, LandInv, Running, CallsStripe
<1>8. \A t \in Sessions \ {s} : Grounded(t)'
    BY <1>1, GroundedStays DEF LandInv, Shape
<1> QED
    BY <1>3, <1>4, <1>7, <1>8 DEF LandInv

LEMMA LandCrash ==
    ASSUME LandInv, NEW s \in Sessions, Crash(s)
    PROVE  LandInv'
<1>1. /\ sess[s].busy /\ sess' = [sess EXCEPT ![s] = Idle] /\ DOMAIN sess = Sessions
      /\ inbox' = IF sess[s].op.type \in EventTypes THEN inbox \cup {sess[s].op} ELSE inbox
      /\ UNCHANGED <<db, ledger, sent, done>>
    BY DEF Crash, LandInv, Shape
<1>2. inbox' \subseteq sent
    BY <1>1, RequestIsNoEvent DEF LandInv, Shape, Grounded
<1>3. Grounded(s)'
    BY <1>1 DEF Grounded, Idle
<1>4. \A t \in Sessions \ {s} : Grounded(t)'
    BY <1>1, GroundedStays DEF LandInv
<1>5. Shape'
    BY <1>1, <1>2 DEF LandInv, Shape
<1> QED
    BY <1>1, <1>3, <1>4, <1>5 DEF LandInv, PaymentsHaveRows, CapturedOnce, OwedIsDear,
                                  DeliveredIsBooked

LEMMA LandNotify ==
    ASSUME LandInv, NEW type \in EventTypes, NEW k \in Kinds, Notify(Event(type, k)),
           type = Success => db[k] # "none"
    PROVE  LandInv'
<1> DEFINE E == {Event(type, k)}
<1>1. /\ inbox' = inbox \cup E /\ sent' = sent \cup E
      /\ UNCHANGED <<db, ledger, done, sess>>
    BY DEF Notify
<1>2. \A e \in E : IsEvent(e) /\ (e.type = Success => db[e.kind] # "none")
    BY DEF IsEvent, Event, Op
<1> HIDE DEF E
<1>3. /\ \A x \in sent' : IsEvent(x)
      /\ PaymentsHaveRows' /\ CapturedOnce' /\ OwedIsDear' /\ DeliveredIsBooked'
    BY <1>1, <1>2, EventsAdded
<1>4. \A t \in Sessions : Grounded(t)'
    BY <1>1, GroundedStays DEF LandInv
<1> QED
    BY <1>1, <1>3, <1>4 DEF LandInv, Shape

\* What Merge leaves in the columns that matter.
LEMMA MergeKeeps ==
    ASSUME NEW seen, NEW new, NEW cur, DOMAIN cur = RowColumns
    PROVE  /\ DOMAIN Merge(seen, new, cur) = RowColumns
           /\ \A c \in {"base", "difference", "dear", "owed", "delivered"} :
                  Merge(seen, new, cur)[c] = IF new[c] # seen[c] THEN new[c] ELSE cur[c]
<1> DEFINE m == [c \in DOMAIN cur |-> IF new[c] # seen[c] THEN new[c] ELSE cur[c]]
           n == [m EXCEPT !.entry = cur.entry, !.gross = cur.gross,
                          !.original = cur.original, !.returned = cur.returned]
<1>1. /\ DOMAIN m = RowColumns
      /\ \A c \in RowColumns : m[c] = IF new[c] # seen[c] THEN new[c] ELSE cur[c]
    OBVIOUS
<1> HIDE DEF m
<1>2. /\ DOMAIN n = RowColumns
      /\ \A c \in {"base", "difference", "dear", "owed", "delivered"} : n[c] = m[c]
    BY <1>1 DEF RowColumns
<1>3. Merge(seen, new, cur) = m \/ Merge(seen, new, cur) = n
    BY DEF Merge, m
<1> HIDE DEF n
<1> QED
    BY <1>1, <1>2, <1>3 DEF RowColumns

\* What the rows become when a session commits: a payment keeps its row, only a
\* dear selection owes, and a dear gallery is unlocked by booking the difference.
LEMMA CommitRows ==
    ASSUME LandInv, NEW s \in Sessions, Commit(s)
    PROVE  /\ DOMAIN db' = RowColumns
           /\ db'.dear = db.dear
           /\ \A k \in Kinds : db[k] # "none" => db'[k] # "none"
           /\ db'.owed => db.owed \/ db.dear
           /\ db.dear /\ db'.delivered =>
                  \/ db.delivered
                  \/ Running(s).ok /\ sess[s].answer # "refused"
                     /\ Captured("difference") \in Running(s).book
<1> DEFINE op == sess[s].op
           seen == sess[s].seen
           o == Running(s)
           refused == sess[s].answer = "refused"
           new == IF refused THEN o.halfway ELSE o.db
<1>1. db' = db \/ db' = Merge(seen, new, db)
    BY DEF Commit
<1>2. Grounded(s) /\ sess[s].busy
    BY DEF Commit, LandInv
<1>3. op \in Request \/ IsEvent(op)
    BY <1>2 DEF Grounded, LandInv, Shape
<1>4. Tame(seen, o)
    BY <1>2, <1>3, HandleIsTame DEF Running, Grounded
<1>5. refused => CallsStripe(o)
    BY <1>2 DEF Grounded
<1>6. seen.dear = db.dear /\ DOMAIN db = RowColumns
    BY <1>2 DEF Grounded, LandInv, Shape
<1> HIDE DEF o, op
<1>7. /\ \A k \in Kinds : new[k] = "none" => seen[k] = "none"
      /\ new.dear = seen.dear /\ (new.owed # seen.owed => seen.dear)
      /\ seen.dear /\ new.delivered # seen.delivered
             => o.ok /\ ~refused /\ Captured("difference") \in o.book
    BY <1>4, <1>5 DEF Tame
<1> HIDE DEF new, seen
<1>8. CASE db' = Merge(seen, new, db)
    <2>1. /\ DOMAIN db' = RowColumns
          /\ \A c \in {"base", "difference", "dear", "owed", "delivered"} :
                 db'[c] = IF new[c] # seen[c] THEN new[c] ELSE db[c]
        BY <1>6, <1>8, MergeKeeps
    <2>2. db'.dear = db.dear
        BY <1>6, <1>7, <2>1
    <2>3. \A k \in Kinds : db[k] # "none" => db'[k] # "none"
        BY <1>7, <2>1 DEF Kinds
    <2>4. db'.owed => db.owed \/ db.dear
        <3>1. CASE new.owed # seen.owed
            BY <1>6, <1>7, <3>1
        <3>2. CASE new.owed = seen.owed
            <4>1. db'.owed = db.owed
                BY <2>1, <3>2
            <4> QED
                BY <4>1
        <3> QED
            BY <3>1, <3>2
    <2>5. db.dear /\ db'.delivered =>
              db.delivered \/ (o.ok /\ ~refused /\ Captured("difference") \in o.book)
        <3>1. CASE new.delivered # seen.delivered
            BY <1>6, <1>7, <3>1
        <3>2. CASE new.delivered = seen.delivered
            <4>1. db'.delivered = db.delivered
                BY <2>1, <3>2
            <4> QED
                BY <4>1
        <3> QED
            BY <3>1, <3>2
    <2> QED
        BY <2>1, <2>2, <2>3, <2>4, <2>5 DEF o
<1>9. CASE db' = db
    BY <1>6, <1>9
<1> QED
    BY <1>1, <1>8, <1>9

\* What a session books is in the ledger once it has committed.
LEMMA CommitBooks ==
    ASSUME LandInv, NEW s \in Sessions, Commit(s)
    PROVE  /\ CapturedOnce'
           /\ ledger \subseteq ledger'
           /\ Running(s).ok /\ sess[s].answer # "refused" =>
                  \A k \in Kinds : Captured(k) \in Running(s).book => Captured(k) \in ledger'
<1> DEFINE o == Running(s)
           ok == o.ok /\ sess[s].answer # "refused"
<1>1. ledger' = IF ok THEN ledger \cup NewRows(o.book) ELSE ledger
    BY DEF Commit
<1>2. /\ sess[s].busy /\ Grounded(s) /\ CapturedOnce
      /\ sess[s].op \in Request \/ IsEvent(sess[s].op)
    BY DEF Commit, LandInv, Grounded, Shape
<1>3. Tame(sess[s].seen, o)
    BY <1>2, HandleIsTame DEF Running, Grounded
<1>4. NewRows(o.book) \subseteq o.book
    BY DEF NewRows
<1>5. \A r \in o.book : r.type = "payment_captured" => r.kind \in Kinds /\ r = Captured(r.kind)
    BY <1>3 DEF Tame
<1>6. ASSUME NEW k \in Kinds, Captured(k) \in o.book, ok
      PROVE  Captured(k) \in ledger'
    <2>1. CASE Captured(k) \in NewRows(o.book)
        BY <1>1, <1>6, <2>1
    <2>2. CASE Captured(k) \notin NewRows(o.book)
        <3>1. PICK x \in ledger : x.type = Captured(k).type /\ x.kind = Captured(k).kind
            BY <1>6, <2>2 DEF NewRows
        <3>2. x = Captured(k)
            BY <1>2, <3>1 DEF CapturedOnce, Captured, Op
        <3> QED
            BY <1>1, <3>2
    <2> QED
        BY <2>1, <2>2
<1> HIDE DEF o
<1>7. CapturedOnce'
    BY <1>1, <1>2, <1>4, <1>5 DEF CapturedOnce
<1> QED
    BY <1>1, <1>6, <1>7 DEF o

LEMMA LandCommit ==
    ASSUME LandInv, NEW s \in Sessions, Commit(s)
    PROVE  LandInv'
<1> DEFINE op == sess[s].op
           o == Running(s)
           ok == o.ok /\ sess[s].answer # "refused"
           isEvent == op.type \in EventTypes
           stored == IF ok THEN o.send \ sent ELSE {}
<1>1. /\ sess[s].busy /\ sess' = [sess EXCEPT ![s] = Idle]
      /\ sent' = sent \cup stored
      /\ done' = IF ok /\ isEvent THEN done \cup {op} ELSE done
      /\ inbox' \subseteq inbox \cup stored \cup (IF isEvent THEN {op} ELSE {})
    BY DEF Commit
<1>2. /\ Grounded(s) /\ DOMAIN sess = Sessions /\ inbox \subseteq sent
      /\ op \in Request \/ op \in sent
      /\ \A e \in sent : IsEvent(e)
    BY <1>1 DEF LandInv, Shape, Grounded
<1>3. /\ Tame(sess[s].seen, o)
      /\ op.type = Success /\ sess[s].seen[op.kind] # "none" /\ o.ok => Captured(op.kind) \in o.book
    BY <1>1, <1>2, HandleIsTame DEF Running, Grounded
<1>4. \A e \in stored : IsEvent(e) /\ e.type # Success
    BY <1>3 DEF Tame, IsEvent, EventTypes, Success
<1>5. isEvent => op \in sent
    BY <1>2, RequestIsNoEvent
<1>6. op.type = Success /\ ok => Captured(op.kind) \in o.book
    BY <1>1, <1>2, <1>3 DEF Grounded
<1> HIDE DEF stored, o
<1>7. /\ DOMAIN db' = RowColumns
      /\ db'.dear = db.dear
      /\ \A k \in Kinds : db[k] # "none" => db'[k] # "none"
      /\ db'.owed => db.owed \/ db.dear
      /\ db.dear /\ db'.delivered => db.delivered \/ (ok /\ Captured("difference") \in o.book)
    BY CommitRows DEF o
<1>8. /\ CapturedOnce' /\ ledger \subseteq ledger'
      /\ ok => \A k \in Kinds : Captured(k) \in o.book => Captured(k) \in ledger'
    BY CommitBooks DEF o
<1>9. Shape'
    <2>1. inbox' \subseteq sent'
        BY <1>1, <1>2, <1>5
    <2>2. \A e \in sent' : IsEvent(e)
        BY <1>1, <1>2, <1>4
    <2> QED
        BY <1>1, <1>2, <1>7, <2>1, <2>2 DEF Shape
<1>10. Grounded(s)'
    BY <1>1, <1>2 DEF Grounded, Idle
<1>11. \A t \in Sessions \ {s} : Grounded(t)'
    BY <1>1, <1>2, <1>7, GroundedStays DEF LandInv
<1>12. PaymentsHaveRows'
    BY <1>1, <1>2, <1>4, <1>7 DEF LandInv, PaymentsHaveRows, IsEvent
<1>13. OwedIsDear'
    <2>1. db'.owed => db'.dear
        BY <1>7 DEF LandInv, OwedIsDear
    <2>2. db'.dear /\ db'.delivered => Captured("difference") \in ledger'
        BY <1>7, <1>8 DEF LandInv, OwedIsDear, Kinds
    <2> QED
        BY <2>1, <2>2 DEF OwedIsDear, Captured
<1>14. DeliveredIsBooked'
    <2> SUFFICES ASSUME NEW k \in Kinds, Event(Success, k) \in done'
                 PROVE  Captured(k) \in ledger'
        BY DEF DeliveredIsBooked, Success, Captured
    <2>1. CASE Event(Success, k) \in done
        BY <1>8, <2>1 DEF LandInv, DeliveredIsBooked, Success
    <2>2. CASE Event(Success, k) \notin done
        <3>1. ok /\ op = Event(Success, k)
            BY <1>1, <2>2
        <3>2. op.type = Success /\ op.kind = k
            BY <3>1 DEF Event, Op
        <3> QED
            BY <1>6, <1>8, <3>1, <3>2
    <2> QED
        BY <2>1, <2>2
<1> QED
    BY <1>8, <1>9, <1>10, <1>11, <1>12, <1>13, <1>14 DEF LandInv

LEMMA LandStep == LandInv /\ [Next]_vars => LandInv'
<1> SUFFICES ASSUME LandInv, [Next]_vars PROVE LandInv'
    OBVIOUS
<1>1. ASSUME NEW s \in Sessions, NEW op \in Request, BeginRequest(s, op) PROVE LandInv'
    BY <1>1, LandBegin DEF BeginRequest
<1>2. ASSUME NEW s \in Sessions, NEW e \in inbox, BeginEvent(s, e) PROVE LandInv'
    <2>1. e \in sent /\ inbox' \subseteq inbox
        BY <1>2 DEF BeginEvent, LandInv, Shape
    <2> QED
        BY <1>2, <2>1, LandBegin DEF BeginEvent
<1>3. ASSUME NEW s \in Sessions, CallStripe(s) \/ Commit(s) \/ Crash(s) PROVE LandInv'
    BY <1>3, LandCallStripe, LandCommit, LandCrash
<1>4. ASSUME NEW k \in Kinds, Pay(k) \/ Decline(k) \/ CancelIntent(k) \/ OpenChargeback(k)
      PROVE  LandInv'
    BY <1>4, LandNotify DEF Pay, Decline, CancelIntent, OpenChargeback, EventTypes, Success
<1>5. CASE UNCHANGED vars
    <2>1. /\ UNCHANGED <<db, ledger, sess, inbox, sent, done>>
        BY <1>5 DEF vars
    <2>2. \A s \in Sessions : Grounded(s)'
        BY <2>1, GroundedStays DEF LandInv
    <2> QED
        BY <2>1, <2>2 DEF LandInv, Shape, PaymentsHaveRows, CapturedOnce, OwedIsDear,
                          DeliveredIsBooked
<1> QED
    BY <1>1, <1>2, <1>3, <1>4, <1>5 DEF Next

----------------------------------------------------------------------------
(* What was captured is booked, and what is unlocked is paid *)

\* Every reachable state keeps what overlapping sessions rely on: the payment
\* of a success event has its row, only a dear selection owes, and capture rows
\* carry the amount of their payment.
THEOREM LandInvHolds == Spec => []LandInv
BY LandInit, LandStep, PTL DEF Spec

\* A success event recorded as delivered is in the gig's ledger, whatever
\* overlapped it and however often it was tried (_apply_stripe_event).
THEOREM SuccessIsBooked == Spec => []DeliveredIsBooked
<1>1. LandInv => DeliveredIsBooked
    BY DEF LandInv
<1> QED
    BY <1>1, LandInvHolds, PTL

\* A selection that owes a difference has its gallery unlocked only after the
\* difference was captured (submit_selection, finalize_gallery_if_ready).
THEOREM UnlockIsPaid == Spec => []UnlockedIsPaid
<1>1. LandInv => UnlockedIsPaid
    BY DEF LandInv, OwedIsDear, UnlockedIsPaid, Booked, Kinds
<1> QED
    BY <1>1, LandInvHolds, PTL

----------------------------------------------------------------------------
(* Rows and their types *)

\* The type of each column of a gig's rows.
ColumnType ==
    [gig |-> GigStatus, base |-> PaymentStatus, difference |-> PaymentStatus, oldest |-> Kinds,
     selection |-> {"draft", "submitted"}, dear |-> BOOLEAN, owed |-> BOOLEAN,
     delivered |-> BOOLEAN, entry |-> {"none", "live", "reversed"}, gross |-> Nat,
     original |-> Nat, returned |-> Nat, dispute |-> DisputeStatus,
     base_admin |-> Case, base_dispute |-> Case, difference_admin |-> Case,
     difference_dispute |-> Case]

\* Rows are functions of their columns, each of its type.
LEMMA RowsAreColumns ==
    ASSUME NEW d
    PROVE  d \in DB <=> /\ d = [c \in RowColumns |-> d[c]]
                        /\ \A c \in RowColumns : d[c] \in ColumnType[c]
<1>1. ASSUME d \in DB
      PROVE  d = [c \in RowColumns |-> d[c]] /\ \A c \in RowColumns : d[c] \in ColumnType[c]
    BY <1>1 DEF DB, ColumnType, RowColumns
<1>2. ASSUME d = [c \in RowColumns |-> d[c]], \A c \in RowColumns : d[c] \in ColumnType[c]
      PROVE  d \in DB
    BY <1>2 DEF DB, ColumnType, RowColumns
<1> QED BY <1>1, <1>2

\* Writing one column.
LEMMA WriteColumn ==
    ASSUME NEW d \in DB, NEW c \in RowColumns, NEW v \in ColumnType[c]
    PROVE  /\ [d EXCEPT ![c] = v] \in DB
           /\ \A x \in RowColumns : [d EXCEPT ![c] = v][x] = IF x = c THEN v ELSE d[x]
<1> DEFINE e == [d EXCEPT ![c] = v]
<1>1. d = [x \in RowColumns |-> d[x]] /\ \A x \in RowColumns : d[x] \in ColumnType[x]
    BY RowsAreColumns
<1>2. e = [x \in RowColumns |-> e[x]] /\ \A x \in RowColumns : e[x] = IF x = c THEN v ELSE d[x]
    BY <1>1
<1>3. \A x \in RowColumns : e[x] \in ColumnType[x]
    BY <1>1, <1>2
<1>4. e \in DB
    BY <1>2, <1>3, RowsAreColumns
<1> QED BY <1>2, <1>4

\* Rows that differ in nothing but the columns X.
Writes(d, e, X) == e \in DB /\ \A x \in RowColumns \ X : e[x] = d[x]

LEMMA TotalIsNat == ASSUME NEW S PROVE Total(S) \in Nat
BY GigAssumption DEF Total, Kinds

LEMMA SucceededHas ==
    ASSUME NEW d, NEW k \in Kinds
    PROVE  k \in Succeeded(d) <=> d[k] = "succeeded"
BY DEF Succeeded

LEMMA CompleteWrites ==
    ASSUME NEW d \in DB
    PROVE  /\ Writes(d, Complete(d), {"gig", "entry", "gross", "original"})
           /\ Complete(d).gig = "completed"
           /\ Complete(d).entry = "live" => d.entry = "live" \/ Succeeded(d) # {}
<1> DEFINE T == Total(Succeeded(d))
           e == [d EXCEPT !.gig = "completed"]
           f == [e EXCEPT !.entry = "live"]
           g == [f EXCEPT !.gross = T]
           h == [g EXCEPT !.original = T]
<1>1. T \in Nat
    BY TotalIsNat
<1> HIDE DEF T
<1>2. e \in DB /\ \A x \in RowColumns : e[x] = IF x = "gig" THEN "completed" ELSE d[x]
    BY WriteColumn DEF RowColumns, ColumnType, GigStatus
<1> HIDE DEF e
<1>3. f \in DB /\ \A x \in RowColumns : f[x] = IF x = "entry" THEN "live" ELSE e[x]
    BY <1>2, WriteColumn DEF RowColumns, ColumnType
<1> HIDE DEF f
<1>4. g \in DB /\ \A x \in RowColumns : g[x] = IF x = "gross" THEN T ELSE f[x]
    BY <1>1, <1>3, WriteColumn DEF RowColumns, ColumnType
<1> HIDE DEF g
<1>5. h \in DB /\ \A x \in RowColumns : h[x] = IF x = "original" THEN T ELSE g[x]
    BY <1>1, <1>4, WriteColumn DEF RowColumns, ColumnType
<1> HIDE DEF h
<1>6. Complete(d) = e \/ (Complete(d) = h /\ Succeeded(d) # {})
    BY DEF Complete, e, f, g, h, T
<1> QED BY <1>2, <1>3, <1>4, <1>5, <1>6 DEF Writes, RowColumns

LEMMA FinalizeWrites ==
    ASSUME NEW d \in DB
    PROVE  /\ Writes(d, Finalize(d), {"gig", "entry", "gross", "original", "delivered"})
           /\ Finalize(d).gig = IF d.gig = "paid" THEN "completed" ELSE d.gig
           /\ Finalize(d).entry = "live" =>
                  d.entry = "live" \/ (d.gig = "paid" /\ Succeeded(d) # {})
<1> DEFINE e == [d EXCEPT !.delivered = TRUE]
<1>1. e \in DB /\ \A x \in RowColumns : e[x] = IF x = "delivered" THEN TRUE ELSE d[x]
    BY WriteColumn DEF RowColumns, ColumnType
<1>2. Finalize(d) = IF d.gig = "paid" THEN Complete(e) ELSE e
    BY DEF Finalize
<1> HIDE DEF e
<1>3. Succeeded(e) = Succeeded(d)
    BY <1>1 DEF Succeeded, Kinds, RowColumns
<1> QED
    BY <1>1, <1>2, <1>3, CompleteWrites DEF Writes, RowColumns

LEMMA ReverseWrites ==
    ASSUME NEW d \in DB
    PROVE  Writes(d, Reverse(d), {"entry"}) /\ Reverse(d).entry # "live"
<1> DEFINE e == [d EXCEPT !.entry = "reversed"]
<1>1. e \in DB /\ \A x \in RowColumns : e[x] = IF x = "entry" THEN "reversed" ELSE d[x]
    BY WriteColumn DEF RowColumns, ColumnType
<1>2. Reverse(d) = IF d.entry = "live" THEN e ELSE d
    BY DEF Reverse
<1> HIDE DEF e
<1> QED
    BY <1>1, <1>2 DEF Writes, RowColumns

LEMMA AdjustWrites ==
    ASSUME NEW d \in DB, NEW amount \in Nat
    PROVE  Writes(d, Adjust(d, amount), {"returned", "gross"})
<1> DEFINE v == IF d.original > amount THEN d.original - amount ELSE 0
           e == [d EXCEPT !.returned = amount]
           f == [e EXCEPT !.gross = v]
<1>1. d.original \in Nat
    BY RowsAreColumns DEF RowColumns, ColumnType
<1>2. v \in Nat
    BY <1>1
<1> HIDE DEF v
<1>3. e \in DB /\ \A x \in RowColumns : e[x] = IF x = "returned" THEN amount ELSE d[x]
    BY WriteColumn DEF RowColumns, ColumnType
<1>4. e.original = d.original
    BY <1>3 DEF RowColumns
<1>5. Adjust(d, amount) = d \/ Adjust(d, amount) = f
    BY <1>4 DEF Adjust, v
<1> HIDE DEF e
<1>6. f \in DB /\ \A x \in RowColumns : f[x] = IF x = "gross" THEN v ELSE e[x]
    BY <1>2, <1>3, WriteColumn DEF RowColumns, ColumnType
<1> HIDE DEF f
<1> QED
    BY <1>3, <1>5, <1>6 DEF Writes, RowColumns

CaseColumns == {"base_admin", "base_dispute", "difference_admin", "difference_dispute"}

LEMMA CaseIsCase ==
    ASSUME NEW d \in DB, NEW k \in Kinds, NEW by \in {"admin", "dispute"}
    PROVE  /\ Column[k][by] \in CaseColumns /\ Column[k][by] \in RowColumns
           /\ ColumnType[Column[k][by]] = Case /\ d[Column[k][by]] \in Case
<1>1. Column[k][by] \in CaseColumns
    BY ColumnIsOther DEF CaseColumns
<1>2. \A c \in CaseColumns : c \in RowColumns /\ ColumnType[c] = Case
    BY DEF CaseColumns, RowColumns, ColumnType
<1> QED
    BY <1>1, <1>2, RowsAreColumns

LEMMA StatusWrites ==
    ASSUME NEW d \in DB, NEW c \in CaseColumns,
           NEW v \in {"none", "pending", "refund_initiated", "processing", "refunded"}
    PROVE  LET e == [d EXCEPT ![c].status = v]
           IN  /\ Writes(d, e, {c})
               /\ e[c].status = v /\ e[c].amount = d[c].amount
               /\ e[c].authorized = d[c].authorized /\ e[c].known = d[c].known
<1> DEFINE w == [d[c] EXCEPT !.status = v]
           e == [d EXCEPT ![c] = w]
<1>1. c \in RowColumns /\ ColumnType[c] = Case
    BY DEF CaseColumns, RowColumns, ColumnType
<1>2. d[c] \in Case
    BY <1>1, RowsAreColumns
<1>3. /\ w \in Case /\ w.status = v /\ w.amount = d[c].amount
      /\ w.authorized = d[c].authorized /\ w.known = d[c].known
    BY <1>2 DEF Case
<1>4. [d EXCEPT ![c].status = v] = e
    OBVIOUS
<1> HIDE DEF w
<1>5. e \in DB /\ \A x \in RowColumns : e[x] = IF x = c THEN w ELSE d[x]
    BY <1>1, <1>3, WriteColumn
<1> HIDE DEF e
<1> QED
    BY <1>1, <1>3, <1>4, <1>5 DEF Writes

LEMMA KnownWrites ==
    ASSUME NEW d \in DB, NEW c \in CaseColumns
    PROVE  LET e == [d EXCEPT ![c].known = TRUE]
           IN  /\ Writes(d, e, {c})
               /\ e[c].status = d[c].status /\ e[c].amount = d[c].amount
               /\ e[c].authorized = d[c].authorized /\ e[c].known = TRUE
<1> DEFINE w == [d[c] EXCEPT !.known = TRUE]
           e == [d EXCEPT ![c] = w]
<1>1. c \in RowColumns /\ ColumnType[c] = Case
    BY DEF CaseColumns, RowColumns, ColumnType
<1>2. d[c] \in Case
    BY <1>1, RowsAreColumns
<1>3. /\ w \in Case /\ w.status = d[c].status /\ w.amount = d[c].amount
      /\ w.authorized = d[c].authorized /\ w.known = TRUE
    BY <1>2 DEF Case
<1>4. [d EXCEPT ![c].known = TRUE] = e
    OBVIOUS
<1> HIDE DEF w
<1>5. e \in DB /\ \A x \in RowColumns : e[x] = IF x = c THEN w ELSE d[x]
    BY <1>1, <1>3, WriteColumn
<1> HIDE DEF e
<1> QED
    BY <1>1, <1>3, <1>4, <1>5 DEF Writes

\* Case c of rows e is that of d with another status and nothing else changed.
Restated(d, e, c, status) ==
    /\ e[c].status = status /\ e[c].amount = d[c].amount
    /\ e[c].authorized = d[c].authorized /\ e[c].known = d[c].known

LEMMA AdminCaseWrites ==
    ASSUME NEW d \in DB, NEW k \in Kinds, NEW ref
    PROVE  LET c == Column[k]["admin"]
               e == FinalizeAdminCase(d, k, ref)
           IN  /\ Writes(d, e, {c})
               /\ e[c] = d[c] \/ (d[c].known /\ ref = "admin" /\ Restated(d, e, c, "refunded"))
<1> DEFINE c == Column[k]["admin"]
           e == [d EXCEPT ![c].status = "refunded"]
<1>1. c \in CaseColumns
    BY CaseIsCase
<1>2. FinalizeAdminCase(d, k, ref) = IF d[c].known /\ ref = "admin" THEN e ELSE d
    BY DEF FinalizeAdminCase
<1> HIDE DEF c
<1>3. Writes(d, e, {c}) /\ Restated(d, e, c, "refunded")
    BY <1>1, StatusWrites DEF Restated
<1> HIDE DEF e
<1>4. Writes(d, d, {c})
    BY DEF Writes
<1> QED
    BY <1>2, <1>3, <1>4 DEF c

LEMMA DisputeCaseWrites ==
    ASSUME NEW d \in DB, NEW k \in Kinds, NEW ref
    PROVE  LET c == Column[k]["dispute"]
               e == FinalizeDisputeCase(d, k, ref)
           IN  \/ e = d /\ ~(d[c].status = "refund_initiated" /\ ref # "admin")
               \/ /\ Writes(d, e, {c, "dispute", "entry"})
                  /\ e.entry # "live" /\ Restated(d, e, c, "refunded")
                  /\ (d[c].known /\ ref = "dispute") \/ d[c].status = "refund_initiated"
<1> DEFINE c == Column[k]["dispute"]
           v == IF d[c].amount < d[c].authorized THEN "resolved_partial_refund" ELSE "resolved_refund"
           e == [d EXCEPT ![c].status = "refunded"]
           f == [e EXCEPT !.dispute = v]
<1>1. c \in CaseColumns
    BY CaseIsCase
<1>2. \/ /\ FinalizeDisputeCase(d, k, ref) = d
         /\ ~(d[c].status = "refund_initiated" /\ ref # "admin")
      \/ /\ FinalizeDisputeCase(d, k, ref) = Reverse(f)
         /\ (d[c].known /\ ref = "dispute") \/ d[c].status = "refund_initiated"
    BY DEF FinalizeDisputeCase
<1> HIDE DEF c, v
<1>3. v \in DisputeStatus
    BY DEF v, DisputeStatus
<1>4. Writes(d, e, {c}) /\ Restated(d, e, c, "refunded")
    BY <1>1, StatusWrites DEF Restated
<1> HIDE DEF e
<1>5. f \in DB /\ \A x \in RowColumns : f[x] = IF x = "dispute" THEN v ELSE e[x]
    BY <1>3, <1>4, WriteColumn DEF Writes, RowColumns, ColumnType
<1> HIDE DEF f
<1>6. Writes(f, Reverse(f), {"entry"}) /\ Reverse(f).entry # "live"
    BY <1>5, ReverseWrites
<1>7. Writes(d, Reverse(f), {c, "dispute", "entry"})
    BY <1>4, <1>5, <1>6 DEF Writes
<1>8. Reverse(f)[c] = e[c]
    BY <1>1, <1>5, <1>6 DEF Writes, CaseColumns, RowColumns
<1>9. Restated(d, Reverse(f), c, "refunded")
    BY <1>4, <1>8 DEF Restated
<1> QED
    BY <1>2, <1>6, <1>7, <1>9 DEF c

LEMMA AllocateTyped ==
    ASSUME NEW d, NEW amount \in Nat
    PROVE  /\ Allocate(d, amount) \in [Kinds -> Int]
           /\ \A k \in Kinds : Allocate(d, amount)[k] > 0 => k \in Succeeded(d)
<1> DEFINE Share(k, left) == IF k \in Succeeded(d) THEN Least(left, Amount[k]) ELSE 0
           first == Share(d.oldest, amount)
<1>1. \A k \in Kinds : Amount[k] \in Nat \ {0}
    BY GigAssumption
<1>2. first \in Int
    <2>1. d.oldest \in Succeeded(d) => d.oldest \in Kinds
        BY DEF Succeeded
    <2> QED
        BY <1>1, <2>1 DEF Least
<1>3. \A k \in Kinds : Share(k, amount - first) \in Int
    BY <1>1, <1>2 DEF Least
<1>4. Allocate(d, amount) = [k \in Kinds |-> IF k = d.oldest THEN first ELSE Share(k, amount - first)]
    BY DEF Allocate
<1>5. ASSUME NEW k \in Kinds, Allocate(d, amount)[k] > 0 PROVE k \in Succeeded(d)
    BY <1>4, <1>5
<1> HIDE DEF Share, first
<1> QED
    BY <1>2, <1>3, <1>4, <1>5

----------------------------------------------------------------------------
(* What handlers make of the rows they read *)

\* Statuses no gig comes back from.
Gone == {"disputed", "cancelled", "refunded"}
Disputed(d) ==
    \/ d.dispute # "none"
    \/ d.base_dispute # NoCase \/ d.difference_dispute # NoCase
Full(k, e) == e.type = "charge.refunded" /\ e.kind = k /\ e.amount >= Amount[k]

\* What a handler of op may make of the rows d: only a success event makes a
\* payment succeeded, a gig that is gone stays gone, a dispute takes the gig out
\* of service, and earnings arise only with the completion of a paid gig.
Moves(op, d, e) ==
    /\ e \in DB
    /\ \A k \in Kinds : e[k] = "succeeded" => d[k] = "succeeded" \/ (op.type = Success /\ op.kind = k)
    /\ d.gig \in Gone => e.gig \in Gone
    /\ d.gig = "completed" => e.gig \in Gone \cup {"completed"}
    /\ Disputed(e) => Disputed(d) \/ e.gig \in Gone \/ op.type = "refund.initiate"
    /\ e.entry = "live" => d.entry = "live" \/ (e.gig = "completed" /\ Succeeded(e) # {})

\* What it may ask for, enqueue and book, and when it may raise.
Effect(op, d, o) ==
    /\ Moves(op, d, o.db) /\ Moves(op, d, o.halfway)
    /\ o.ok \in BOOLEAN /\ o.ref \in Refs /\ o.take \in [Kinds -> Int]
    /\ ~o.ok => op.type \in EventTypes /\ (op.type = Success => d.gig \in Gone \cup {"completed"})
    /\ ~o.ok => op.type # "charge.refunded"
    /\ \A k \in Kinds : o.take[k] > 0 =>
           \/ op.type \in {"client_refund", "admin_refund"} /\ k \in Succeeded(d)
           \/ op.type = "refund.initiate"
    /\ \A e \in o.send : Disputed(d) /\ e.kind \in Kinds /\ e.amount \in Nat /\ e.ref \in Refs
    /\ \A r \in o.book : r.kind \in Kinds /\ r.amount \in Nat
    /\ \A k \in Kinds : Full(k, op) /\ d[k] # "none" => o.db[k] # "succeeded" /\ o.db.entry # "live"

LEMMA SameMoves == ASSUME NEW op, NEW d \in DB PROVE Moves(op, d, d)
BY DEF Moves

LEMMA QuietMoves ==
    ASSUME NEW op, NEW d \in DB, NEW e, NEW X, Writes(d, e, X),
           X \cap {"gig", "base", "difference", "entry", "dispute", "base_dispute",
                   "difference_dispute"} = {}
    PROVE  Moves(op, d, e)
<1>1. /\ e.gig = d.gig /\ e.base = d.base /\ e.difference = d.difference /\ e.entry = d.entry
      /\ e.dispute = d.dispute /\ e.base_dispute = d.base_dispute
      /\ e.difference_dispute = d.difference_dispute
    BY DEF Writes, RowColumns
<1> QED
    BY <1>1 DEF Writes, Moves, Kinds, Disputed

\* A handler that only writes rows.
LEMMA RowsEffect ==
    ASSUME NEW op, NEW d, NEW e, Moves(op, d, e),
           op.type # "charge.refunded" \/ d[op.kind] = "none"
    PROVE  Effect(op, d, Outcome(e))
<1> DEFINE o == Outcome(e)
<1>1. /\ o.db = e /\ o.halfway = e /\ o.ok = TRUE /\ o.ref = "none" /\ o.take = NoTake
      /\ o.send = {} /\ o.book = {}
    BY DEF Outcome
<1>2. NoTake \in [Kinds -> Int] /\ \A k \in Kinds : ~(NoTake[k] > 0)
    BY DEF NoTake
<1> HIDE DEF o
<1>3. Effect(op, d, o)
    BY <1>1, <1>2 DEF Effect, Refs, Full
<1> QED
    BY <1>3 DEF o

LEMMA CompleteMoves ==
    ASSUME NEW op, NEW d \in DB, d.gig \notin Gone
    PROVE  Moves(op, d, Complete(d))
<1> DEFINE e == Complete(d)
<1>1. /\ Writes(d, e, {"gig", "entry", "gross", "original"}) /\ e.gig = "completed"
      /\ e.entry = "live" => d.entry = "live" \/ Succeeded(d) # {}
    BY CompleteWrites
<1> HIDE DEF e
<1>2. /\ e.base = d.base /\ e.difference = d.difference
      /\ e.dispute = d.dispute /\ e.base_dispute = d.base_dispute
      /\ e.difference_dispute = d.difference_dispute
    BY <1>1 DEF Writes, RowColumns
<1>3. Succeeded(e) = Succeeded(d)
    BY <1>2 DEF Succeeded, Kinds
<1>4. Moves(op, d, e)
    BY <1>1, <1>2, <1>3 DEF Moves, Writes, Kinds, Disputed
<1> QED
    BY <1>4 DEF e

LEMMA FinalizeMoves ==
    ASSUME NEW op, NEW d \in DB
    PROVE  Moves(op, d, Finalize(d))
<1> DEFINE e == Finalize(d)
<1>1. /\ Writes(d, e, {"gig", "entry", "gross", "original", "delivered"})
      /\ e.gig = IF d.gig = "paid" THEN "completed" ELSE d.gig
      /\ e.entry = "live" => d.entry = "live" \/ (d.gig = "paid" /\ Succeeded(d) # {})
    BY FinalizeWrites
<1> HIDE DEF e
<1>2. /\ e.base = d.base /\ e.difference = d.difference
      /\ e.dispute = d.dispute /\ e.base_dispute = d.base_dispute
      /\ e.difference_dispute = d.difference_dispute
    BY <1>1 DEF Writes, RowColumns
<1>3. Succeeded(e) = Succeeded(d)
    BY <1>2 DEF Succeeded, Kinds
<1>4. Moves(op, d, e)
    BY <1>1, <1>2, <1>3 DEF Moves, Writes, Kinds, Disputed, Gone
<1> QED
    BY <1>4 DEF e

\* Handlers one after the other.
LEMMA MovesOn ==
    ASSUME NEW op, NEW d, NEW e, NEW f, Moves(op, d, e), Moves(op, e, f),
           e.entry = "live" /\ d.entry # "live" => e = f
    PROVE  Moves(op, d, f)
BY DEF Moves

LEMMA BookedEffect ==
    ASSUME NEW op, NEW d, NEW e, NEW B, Moves(op, d, e),
           \A r \in B : r.kind \in Kinds /\ r.amount \in Nat,
           \A k \in Kinds : Full(k, op) /\ d[k] # "none" => e[k] # "succeeded" /\ e.entry # "live"
    PROVE  Effect(op, d, [Outcome(e) EXCEPT !.book = B])
<1> DEFINE o == [Outcome(e) EXCEPT !.book = B]
<1>1. /\ o.db = e /\ o.halfway = e /\ o.ok = TRUE /\ o.ref = "none" /\ o.take = NoTake
      /\ o.send = {} /\ o.book = B
    BY DEF Outcome
<1>2. NoTake \in [Kinds -> Int] /\ \A k \in Kinds : ~(NoTake[k] > 0)
    BY DEF NoTake
<1> HIDE DEF o
<1>3. Effect(op, d, o)
    BY <1>1, <1>2 DEF Effect, Refs
<1> QED
    BY <1>3 DEF o

LEMMA RaisedEffect ==
    ASSUME NEW op, NEW d, NEW e, Moves(op, d, e), op.type \in EventTypes \ {"charge.refunded"},
           op.type = Success => d.gig \in Gone \cup {"completed"}
    PROVE  Effect(op, d, Raised(e))
<1> DEFINE o == Raised(e)
<1>1. /\ o.db = e /\ o.halfway = e /\ o.ok = FALSE /\ o.ref = "none" /\ o.take = NoTake
      /\ o.send = {} /\ o.book = {}
    BY DEF Raised, Outcome
<1>2. NoTake \in [Kinds -> Int] /\ \A k \in Kinds : ~(NoTake[k] > 0)
    BY DEF NoTake
<1> HIDE DEF o
<1>3. Effect(op, d, o)
    BY <1>1, <1>2 DEF Effect, Refs, Full
<1> QED
    BY <1>3 DEF o

\* Where a gig may go.
LEMMA MayMoveOnly ==
    ASSUME NEW d \in DB
    PROVE  /\ MayMove(d, "paid") <=> d.gig \in {"payment_pending", "paid"}
           /\ MayMove(d, "completed") => d.gig \notin Gone
           /\ d.gig \in GigStatus
           /\ d.base \in PaymentStatus /\ d.difference \in PaymentStatus
<1>1. d.gig \in GigStatus /\ d.base \in PaymentStatus /\ d.difference \in PaymentStatus
    BY RowsAreColumns DEF RowColumns, ColumnType
<1> QED
    BY <1>1 DEF MayMove, ALLOWED_TRANSITIONS, GigStatus, Gone

LEMMA SubmitEffect ==
    ASSUME NEW op, NEW d \in DB, op.type = "submit"
    PROVE  Effect(op, d, Submit(d))
<1> DEFINE e == [d EXCEPT !.selection = "submitted"]
           f == [e EXCEPT !.owed = TRUE]
           g == [f EXCEPT !.difference = "pending"]
           v == IF d.base = "none" THEN "difference" ELSE g.oldest
           h == [g EXCEPT !.oldest = v]
<1>1. e \in DB /\ \A x \in RowColumns : e[x] = IF x = "selection" THEN "submitted" ELSE d[x]
    BY WriteColumn DEF RowColumns, ColumnType
<1>2. e.base = d.base
    BY <1>1 DEF RowColumns
<1>3. Submit(d) = IF d.dear THEN Outcome(h) ELSE Outcome(Finalize(e))
    BY <1>2 DEF Submit
<1> HIDE DEF e
<1>4. f \in DB /\ \A x \in RowColumns : f[x] = IF x = "owed" THEN TRUE ELSE e[x]
    BY <1>1, WriteColumn DEF RowColumns, ColumnType
<1> HIDE DEF f
<1>5. g \in DB /\ \A x \in RowColumns : g[x] = IF x = "difference" THEN "pending" ELSE f[x]
    BY <1>4, WriteColumn DEF RowColumns, ColumnType, PaymentStatus
<1>6. v \in Kinds
    BY <1>5, RowsAreColumns DEF RowColumns, ColumnType, Kinds
<1> HIDE DEF g, v
<1>7. h \in DB /\ \A x \in RowColumns : h[x] = IF x = "oldest" THEN v ELSE g[x]
    BY <1>5, <1>6, WriteColumn DEF RowColumns, ColumnType
<1> HIDE DEF h
<1>8. /\ h.gig = d.gig /\ h.base = d.base /\ h.difference = "pending" /\ h.entry = d.entry
      /\ h.dispute = d.dispute /\ h.base_dispute = d.base_dispute
      /\ h.difference_dispute = d.difference_dispute
    BY <1>1, <1>4, <1>5, <1>7 DEF RowColumns
<1>9. Moves(op, d, h)
    BY <1>7, <1>8 DEF Moves, Kinds, Disputed
<1>10. Moves(op, d, e) /\ e.entry = d.entry
    <2>1. Writes(d, e, {"selection"})
        BY <1>1 DEF Writes
    <2> QED
        BY <1>1, <2>1, QuietMoves DEF RowColumns
<1>11. Moves(op, d, Finalize(e))
    BY <1>1, <1>10, FinalizeMoves, MovesOn
<1> QED
    BY <1>3, <1>9, <1>11, RowsEffect

LEMMA SucceededEffect ==
    ASSUME NEW op, NEW d \in DB, op.type = Success, op.kind \in Kinds
    PROVE  Effect(op, d, PaymentSucceeded(d, op.kind))
<1> DEFINE k == op.kind
           e == [d EXCEPT ![k] = "succeeded"]
           f == [e EXCEPT !.gig = "paid"]
           B == {Captured(k)}
           o == PaymentSucceeded(d, k)
<1>1. \/ o = Outcome(d)
      \/ o = Raised(e) /\ ~MayMove(d, "paid")
      \/ MayMove(d, "paid") /\ o = [Outcome(f) EXCEPT !.book = B]
      \/ MayMove(d, "paid") /\ o = [Outcome(Finalize(f)) EXCEPT !.book = B]
    BY DEF PaymentSucceeded
<1>2. \A r \in B : r.kind \in Kinds /\ r.amount \in Nat
    BY GigAssumption DEF Captured, Op
<1>3. k \in RowColumns /\ ColumnType[k] = PaymentStatus /\ k \in Kinds
    BY DEF Kinds, RowColumns, ColumnType
<1> SUFFICES Effect(op, d, o)
    OBVIOUS
<1> HIDE DEF B, o, k
<1>4. e \in DB /\ \A x \in RowColumns : e[x] = IF x = k THEN "succeeded" ELSE d[x]
    BY <1>3, WriteColumn DEF PaymentStatus
<1> HIDE DEF e
<1>5. f \in DB /\ \A x \in RowColumns : f[x] = IF x = "gig" THEN "paid" ELSE e[x]
    BY <1>4, WriteColumn DEF RowColumns, ColumnType, GigStatus
<1> HIDE DEF f
<1>6. /\ e.gig = d.gig /\ e.entry = d.entry /\ f.gig = "paid" /\ f.entry = d.entry
      /\ e.dispute = d.dispute /\ e.base_dispute = d.base_dispute
      /\ e.difference_dispute = d.difference_dispute
      /\ f.dispute = d.dispute /\ f.base_dispute = d.base_dispute
      /\ f.difference_dispute = d.difference_dispute
    BY <1>3, <1>4, <1>5 DEF RowColumns, Kinds
<1>7. \A j \in Kinds : j # k => e[j] = d[j] /\ f[j] = d[j]
    BY <1>4, <1>5 DEF RowColumns, Kinds
<1>8. Moves(op, d, e)
    BY <1>3, <1>4, <1>6, <1>7 DEF Moves, Disputed, k
<1>9. ASSUME MayMove(d, "paid") PROVE Moves(op, d, f)
    <2>1. d.gig \in {"payment_pending", "paid"}
        BY <1>9, MayMoveOnly
    <2> QED
        BY <1>3, <1>5, <1>6, <1>7, <2>1 DEF Moves, Disputed, Gone, k
<1>10. ASSUME MayMove(d, "paid") PROVE Moves(op, d, Finalize(f))
    BY <1>5, <1>6, <1>9, <1>10, FinalizeMoves, MovesOn
<1>11. op.type # "charge.refunded" /\ \A j \in Kinds : ~Full(j, op)
    BY DEF Full, Success
<1>12. CASE o = Outcome(d)
    BY <1>11, <1>12, SameMoves, RowsEffect
<1>13. CASE o = Raised(e) /\ ~MayMove(d, "paid")
    <2>1. d.gig \in Gone \cup {"completed"}
        BY <1>13, MayMoveOnly DEF GigStatus, Gone
    <2> QED
        BY <1>8, <1>13, <2>1, RaisedEffect DEF EventTypes, Success
<1>14. CASE MayMove(d, "paid") /\ o = [Outcome(f) EXCEPT !.book = B]
    BY <1>2, <1>9, <1>11, <1>14, BookedEffect
<1>15. CASE MayMove(d, "paid") /\ o = [Outcome(Finalize(f)) EXCEPT !.book = B]
    BY <1>2, <1>10, <1>11, <1>15, BookedEffect
<1> QED
    BY <1>1, <1>12, <1>13, <1>14, <1>15

LEMMA EndsEffect ==
    ASSUME NEW op, NEW d \in DB, op.kind \in Kinds, NEW status \in {"failed", "cancelled"},
           op.type # "charge.refunded"
    PROVE  Effect(op, d, PaymentEnds(d, op.kind, status))
<1> DEFINE k == op.kind
           e == [d EXCEPT ![k] = status]
           o == PaymentEnds(d, k, status)
<1>1. o = Outcome(d) \/ o = Outcome(e)
    BY DEF PaymentEnds
<1>2. k \in RowColumns /\ ColumnType[k] = PaymentStatus /\ k \in Kinds
    BY DEF Kinds, RowColumns, ColumnType
<1> SUFFICES Effect(op, d, o)
    OBVIOUS
<1> HIDE DEF o, k
<1>3. e \in DB /\ \A x \in RowColumns : e[x] = IF x = k THEN status ELSE d[x]
    BY <1>2, WriteColumn DEF PaymentStatus
<1> HIDE DEF e
<1>4. /\ e.gig = d.gig /\ e.entry = d.entry /\ e.dispute = d.dispute
      /\ e.base_dispute = d.base_dispute /\ e.difference_dispute = d.difference_dispute
      /\ \A j \in Kinds : e[j] = IF j = k THEN status ELSE d[j]
    BY <1>2, <1>3 DEF RowColumns, Kinds
<1>5. Moves(op, d, e)
    BY <1>3, <1>4 DEF Moves, Disputed
<1> QED
    BY <1>1, <1>5, SameMoves, RowsEffect

LEMMA ChargebackEffect ==
    ASSUME NEW op, NEW d \in DB, op.type = "charge.dispute.created", op.kind \in Kinds
    PROVE  Effect(op, d, Chargeback(d, op.kind))
<1> DEFINE k == op.kind
           e == [d EXCEPT ![k] = "disputed"]
           f == [e EXCEPT !.gig = "disputed"]
           B == {Op("chargeback_opened", k, Amount[k], "none")}
           o == Chargeback(d, k)
<1>1. o = Outcome(d) \/ o = Raised(e) \/ o = [Outcome(f) EXCEPT !.book = B]
    BY DEF Chargeback
<1>2. \A r \in B : r.kind \in Kinds /\ r.amount \in Nat
    BY GigAssumption DEF Op
<1>3. k \in RowColumns /\ ColumnType[k] = PaymentStatus /\ k \in Kinds
    BY DEF Kinds, RowColumns, ColumnType
<1> SUFFICES Effect(op, d, o)
    OBVIOUS
<1> HIDE DEF B, o, k
<1>4. e \in DB /\ \A x \in RowColumns : e[x] = IF x = k THEN "disputed" ELSE d[x]
    BY <1>3, WriteColumn DEF PaymentStatus
<1> HIDE DEF e
<1>5. f \in DB /\ \A x \in RowColumns : f[x] = IF x = "gig" THEN "disputed" ELSE e[x]
    BY <1>4, WriteColumn DEF RowColumns, ColumnType, GigStatus
<1> HIDE DEF f
<1>6. /\ e.gig = d.gig /\ e.entry = d.entry /\ e.dispute = d.dispute
      /\ e.base_dispute = d.base_dispute /\ e.difference_dispute = d.difference_dispute
      /\ \A j \in Kinds : e[j] = IF j = k THEN "disputed" ELSE d[j]
    BY <1>3, <1>4 DEF RowColumns, Kinds
<1>7. f.gig = "disputed" /\ f.entry = d.entry /\ \A j \in Kinds : f[j] = e[j]
    BY <1>5, <1>6 DEF RowColumns, Kinds
<1>8. Moves(op, d, e)
    BY <1>4, <1>6 DEF Moves, Disputed
<1>9. Moves(op, d, f)
    BY <1>5, <1>6, <1>7 DEF Moves, Gone
<1>10. op.type \in EventTypes \ {"charge.refunded", Success} /\ \A j \in Kinds : ~Full(j, op)
    BY DEF Full, Success, EventTypes
<1>11. CASE o = Outcome(d)
    BY <1>10, <1>11, SameMoves, RowsEffect
<1>12. CASE o = Raised(e)
    BY <1>8, <1>10, <1>12, RaisedEffect
<1>13. CASE o = [Outcome(f) EXCEPT !.book = B]
    BY <1>2, <1>9, <1>10, <1>13, BookedEffect
<1> QED
    BY <1>1, <1>11, <1>12, <1>13

LEMMA AdminCaseMoves ==
    ASSUME NEW op, NEW d \in DB, NEW k \in Kinds, NEW ref
    PROVE  /\ Moves(op, d, FinalizeAdminCase(d, k, ref))
           /\ Writes(d, FinalizeAdminCase(d, k, ref), {"base_admin", "difference_admin"})
<1>1. Column[k]["admin"] \in {"base_admin", "difference_admin"}
    BY DEF Column, Kinds
<1>2. Writes(d, FinalizeAdminCase(d, k, ref), {"base_admin", "difference_admin"})
    BY <1>1, AdminCaseWrites DEF Writes
<1> QED
    BY <1>2, QuietMoves

LEMMA DisputeCaseMoves ==
    ASSUME NEW op, NEW d \in DB, NEW k \in Kinds, NEW ref
    PROVE  LET e == FinalizeDisputeCase(d, k, ref)
           IN  /\ Moves(op, d, e)
               /\ Writes(d, e, {"base_dispute", "difference_dispute", "dispute", "entry"})
               /\ e.entry = "live" => d.entry = "live"
<1> DEFINE c == Column[k]["dispute"]
           e == FinalizeDisputeCase(d, k, ref)
<1>1. c = IF k = "base" THEN "base_dispute" ELSE "difference_dispute"
    BY DEF Column, Kinds
<1>2. \/ e = d
      \/ /\ Writes(d, e, {c, "dispute", "entry"})
         /\ e.entry # "live"
         /\ d[c].known \/ d[c].status = "refund_initiated"
    BY DisputeCaseWrites
<1> HIDE DEF e, c
<1>3. CASE e # d
    <2>1. /\ e.gig = d.gig /\ \A j \in Kinds : e[j] = d[j]
          /\ e \in DB
        BY <1>1, <1>2, <1>3 DEF Writes, RowColumns, Kinds
    <2>2. d[c] # NoCase
        BY <1>2, <1>3 DEF NoCase
    <2>3. Disputed(d)
        BY <1>1, <2>2 DEF Disputed
    <2>4. Moves(op, d, e)
        BY <1>2, <1>3, <2>1, <2>3 DEF Moves
    <2>5. Writes(d, e, {"base_dispute", "difference_dispute", "dispute", "entry"})
        BY <1>1, <1>2, <1>3 DEF Writes
    <2> QED
        BY <1>2, <1>3, <2>4, <2>5 DEF e
<1>4. CASE e = d
    <2>1. Moves(op, d, e) /\ Writes(d, e, {"base_dispute", "difference_dispute", "dispute", "entry"})
        BY <1>4, SameMoves DEF Writes
    <2> QED
        BY <1>4, <2>1 DEF e
<1> QED
    BY <1>3, <1>4

LEMMA RefundEffect ==
    ASSUME NEW op, NEW d \in DB, op.type \in {"charge.refunded", "refund.succeeded"},
           op.kind \in Kinds, op.amount \in Nat
    PROVE  Effect(op, d, RefundSucceeded(d, op.kind, op.amount, op.ref))
<1> DEFINE k == op.kind
           f == [d EXCEPT ![k] = "refunded"]
           e == IF op.amount >= Amount[k] THEN Reverse(f) ELSE Adjust(d, op.amount)
           g == FinalizeAdminCase(e, k, op.ref)
           h == FinalizeDisputeCase(g, k, op.ref)
           B == {Op("refund_succeeded", k, op.amount, op.ref)}
           o == RefundSucceeded(d, k, op.amount, op.ref)
<1>1. \/ d[k] = "none" /\ o = Outcome(d)
      \/ o = [Outcome(h) EXCEPT !.book = B]
    BY DEF RefundSucceeded
<1>2. \A r \in B : r.kind \in Kinds /\ r.amount \in Nat
    BY DEF Op
<1>3. k \in RowColumns /\ ColumnType[k] = PaymentStatus /\ k \in Kinds
    BY DEF Kinds, RowColumns, ColumnType
<1> SUFFICES Effect(op, d, o)
    OBVIOUS
<1> HIDE DEF B, o, h, g, k
<1>4. f \in DB /\ \A x \in RowColumns : f[x] = IF x = k THEN "refunded" ELSE d[x]
    BY <1>3, WriteColumn DEF PaymentStatus
<1> HIDE DEF f
<1>5. /\ f.gig = d.gig /\ f.entry = d.entry /\ f.dispute = d.dispute
      /\ f.base_dispute = d.base_dispute /\ f.difference_dispute = d.difference_dispute
      /\ \A j \in Kinds : f[j] = IF j = k THEN "refunded" ELSE d[j]
    BY <1>3, <1>4 DEF RowColumns, Kinds
<1>6. /\ Moves(op, d, e)
      /\ op.amount >= Amount[k] => e[k] = "refunded" /\ e.entry # "live"
      /\ e.entry = "live" => d.entry = "live"
    <2>1. CASE op.amount >= Amount[k]
        <3>1. Writes(f, Reverse(f), {"entry"}) /\ Reverse(f).entry # "live"
            BY <1>4, ReverseWrites
        <3>2. Writes(f, e, {"entry"}) /\ e.entry # "live"
            BY <2>1, <3>1
        <3> HIDE DEF e
        <3>3. /\ e.gig = f.gig /\ e.dispute = f.dispute
              /\ e.base_dispute = f.base_dispute /\ e.difference_dispute = f.difference_dispute
              /\ e \in DB /\ \A j \in Kinds : e[j] = f[j]
            BY <3>2 DEF Writes, RowColumns, Kinds
        <3> QED
            BY <1>3, <1>5, <3>2, <3>3 DEF Moves, Disputed
    <2>2. CASE ~(op.amount >= Amount[k])
        <3>1. Writes(d, e, {"returned", "gross"})
            BY <2>2, AdjustWrites
        <3> HIDE DEF e
        <3>2. Moves(op, d, e)
            BY <3>1, QuietMoves
        <3>3. e.entry = d.entry
            BY <3>1 DEF Writes, RowColumns
        <3> QED
            BY <2>2, <3>2, <3>3
    <2> QED
        BY <2>1, <2>2
<1> HIDE DEF e
<1>7. e \in DB
    BY <1>6 DEF Moves
<1>8. Moves(op, e, g) /\ Writes(e, g, {"base_admin", "difference_admin"})
    BY <1>3, <1>7, AdminCaseMoves DEF g
<1>9. g \in DB /\ g.entry = e.entry /\ g[k] = e[k]
    BY <1>3, <1>8 DEF Writes, RowColumns, Kinds
<1>10. /\ Moves(op, g, h) /\ Writes(g, h, {"base_dispute", "difference_dispute", "dispute", "entry"})
       /\ h.entry = "live" => g.entry = "live"
    BY <1>3, <1>9, DisputeCaseMoves DEF h
<1>11. h[k] = g[k]
    BY <1>3, <1>10 DEF Writes, RowColumns, Kinds
<1>12. Moves(op, d, g)
    BY <1>6, <1>8, <1>9, MovesOn
<1>13. Moves(op, d, h)
    BY <1>6, <1>9, <1>10, <1>12, MovesOn
<1>14. \A j \in Kinds : Full(j, op) => h[j] # "succeeded" /\ h.entry # "live"
    BY <1>6, <1>9, <1>10, <1>11 DEF Full, k
<1>15. CASE o = [Outcome(h) EXCEPT !.book = B]
    BY <1>2, <1>13, <1>14, <1>15, BookedEffect
<1>16. CASE d[k] = "none" /\ o = Outcome(d)
    BY <1>16, SameMoves, RowsEffect DEF k
<1> QED
    BY <1>1, <1>15, <1>16

\* A handler that asks Stripe for refunds.
LEMMA AskingEffect ==
    ASSUME NEW op, NEW d, NEW e, NEW h, NEW take \in [Kinds -> Int], NEW ref \in Refs,
           Moves(op, d, e), Moves(op, d, h), op.type # "charge.refunded",
           \A k \in Kinds : take[k] > 0 =>
               \/ op.type \in {"client_refund", "admin_refund"} /\ k \in Succeeded(d)
               \/ op.type = "refund.initiate",
           NEW o, o = [Outcome(e) EXCEPT !.halfway = h, !.ref = ref, !.take = take]
    PROVE  Effect(op, d, o)
<1>1. /\ o.db = e /\ o.halfway = h /\ o.ok = TRUE /\ o.ref = ref /\ o.take = take
      /\ o.send = {} /\ o.book = {}
    BY DEF Outcome
<1> QED
    BY <1>1 DEF Effect, Full

LEMMA InitiateEffect ==
    ASSUME NEW op, NEW d \in DB, op.type = "refund.initiate", op.kind \in Kinds
    PROVE  Effect(op, d, InitiateRefund(d, op.kind))
<1> DEFINE k == op.kind
           c == Column[k]["dispute"]
           e == [d EXCEPT ![c].status = "refund_initiated"]
           f == [e EXCEPT ![c].known = TRUE]
           take == [j \in Kinds |-> IF j = k THEN d[c].amount ELSE 0]
           o == InitiateRefund(d, k)
<1>1. o = Outcome(d) \/ o = [Outcome(f) EXCEPT !.halfway = e, !.ref = "dispute", !.take = take]
    BY DEF InitiateRefund
<1>2. c \in CaseColumns /\ d[c] \in Case /\ c \in {"base_dispute", "difference_dispute"}
    BY CaseIsCase DEF Column, Kinds
<1>3. take \in [Kinds -> Int]
    BY <1>2 DEF Case
<1> SUFFICES Effect(op, d, o)
    OBVIOUS
<1> HIDE DEF o, c, take, k
<1>4. Writes(d, e, {c})
    BY <1>2, StatusWrites
<1> HIDE DEF e
<1>5. e \in DB
    BY <1>4 DEF Writes
<1>6. Writes(e, f, {c})
    BY <1>2, <1>5, KnownWrites
<1> HIDE DEF f
<1>7. Writes(d, f, {c})
    BY <1>4, <1>6 DEF Writes
<1>8. ASSUME NEW g, Writes(d, g, {c}) PROVE Moves(op, d, g)
    <2>1. /\ g.gig = d.gig /\ g.entry = d.entry /\ \A j \in Kinds : g[j] = d[j]
          /\ g \in DB
        BY <1>2, <1>8 DEF Writes, RowColumns, Kinds
    <2> QED
        BY <2>1 DEF Moves
<1>9. Moves(op, d, e) /\ Moves(op, d, f)
    BY <1>4, <1>7, <1>8
<1>10. CASE o = Outcome(d)
    BY <1>10, SameMoves, RowsEffect
<1>11. CASE o = [Outcome(f) EXCEPT !.halfway = e, !.ref = "dispute", !.take = take]
    BY <1>3, <1>9, <1>11, AskingEffect DEF Refs
<1> QED
    BY <1>1, <1>10, <1>11

LEMMA CreateEffect ==
    ASSUME NEW op, NEW d \in DB, op.type = "create_intent"
    PROVE  Effect(op, d, CreateIntent(d))
<1> DEFINE e == [d EXCEPT !.base = "pending"]
           v == IF d.difference = "none" THEN "base" ELSE e.oldest
           f == [e EXCEPT !.oldest = v]
<1>1. CreateIntent(d) = Outcome(f)
    BY DEF CreateIntent
<1>2. e \in DB /\ \A x \in RowColumns : e[x] = IF x = "base" THEN "pending" ELSE d[x]
    BY WriteColumn DEF RowColumns, ColumnType, PaymentStatus
<1>3. v \in Kinds
    BY <1>2, RowsAreColumns DEF RowColumns, ColumnType, Kinds
<1> HIDE DEF e, v
<1>4. f \in DB /\ \A x \in RowColumns : f[x] = IF x = "oldest" THEN v ELSE e[x]
    BY <1>2, <1>3, WriteColumn DEF RowColumns, ColumnType
<1> HIDE DEF f
<1>5. /\ f.gig = d.gig /\ f.base = "pending" /\ f.difference = d.difference /\ f.entry = d.entry
      /\ f.dispute = d.dispute /\ f.base_dispute = d.base_dispute
      /\ f.difference_dispute = d.difference_dispute
    BY <1>2, <1>4 DEF RowColumns
<1>6. Moves(op, d, f)
    BY <1>4, <1>5 DEF Moves, Kinds, Disputed
<1> QED
    BY <1>1, <1>6, RowsEffect

LEMMA ClientRefundEffect ==
    ASSUME NEW op, NEW d \in DB, op.type = "client_refund"
    PROVE  Effect(op, d, ClientRefund(d))
<1> DEFINE take == [k \in Kinds |-> IF k \in Succeeded(d) THEN Amount[k] ELSE 0]
           o == ClientRefund(d)
<1>1. /\ o.db = d /\ o.halfway = d /\ o.ok = TRUE /\ o.ref = "client" /\ o.take = take
      /\ o.send = {} /\ o.book = {}
    BY DEF ClientRefund, Outcome
<1>2. take \in [Kinds -> Int] /\ \A k \in Kinds : take[k] > 0 => k \in Succeeded(d)
    BY GigAssumption
<1> HIDE DEF o, take
<1>3. Effect(op, d, o)
    BY <1>1, <1>2, SameMoves DEF Effect, Full, Refs
<1> QED
    BY <1>3 DEF o

LEMMA AdminRefundEffect ==
    ASSUME NEW op, NEW d \in DB, op.type = "admin_refund", op.amount \in Nat
    PROVE  Effect(op, d, AdminRefund(d, op.amount))
<1> DEFINE take == Allocate(d, op.amount)
           Refunding(k) == IF take[k] > 0
                           THEN [status |-> "processing", amount |-> take[k],
                                 authorized |-> 0, known |-> TRUE]
                           ELSE d[Column[k]["admin"]]
           ba == Refunding("base")
           da == Refunding("difference")
           e == [d EXCEPT !.base_admin = ba]
           f == [e EXCEPT !.difference_admin = da]
           v == IF take["base"] > 0 THEN "pending" ELSE f.base
           g == [f EXCEPT !.base = v]
           w == IF take["difference"] > 0 THEN "pending" ELSE g.difference
           h == [g EXCEPT !.difference = w]
           o == AdminRefund(d, op.amount)
<1>1. /\ o.db = h /\ o.halfway = h /\ o.ok = TRUE /\ o.ref = "admin" /\ o.take = take
      /\ o.send = {} /\ o.book = {}
    BY DEF AdminRefund, Outcome
<1>2. take \in [Kinds -> Int] /\ \A k \in Kinds : take[k] > 0 => k \in Succeeded(d)
    BY AllocateTyped
<1> HIDE DEF take, o
<1>3. \A k \in Kinds : Refunding(k) \in Case
    BY <1>2, CaseIsCase DEF Case
<1>4. ba \in Case /\ da \in Case
    BY <1>3 DEF Kinds
<1> HIDE DEF ba, da
<1>5. e \in DB /\ \A x \in RowColumns : e[x] = IF x = "base_admin" THEN ba ELSE d[x]
    BY <1>4, WriteColumn DEF RowColumns, ColumnType
<1> HIDE DEF e
<1>6. f \in DB /\ \A x \in RowColumns : f[x] = IF x = "difference_admin" THEN da ELSE e[x]
    BY <1>4, <1>5, WriteColumn DEF RowColumns, ColumnType
<1> HIDE DEF f
<1>7. v \in PaymentStatus /\ (v = "succeeded" => f.base = "succeeded")
    BY <1>6, MayMoveOnly DEF PaymentStatus
<1> HIDE DEF v
<1>8. g \in DB /\ \A x \in RowColumns : g[x] = IF x = "base" THEN v ELSE f[x]
    BY <1>6, <1>7, WriteColumn DEF RowColumns, ColumnType
<1> HIDE DEF g
<1>9. w \in PaymentStatus /\ (w = "succeeded" => g.difference = "succeeded")
    BY <1>8, MayMoveOnly DEF PaymentStatus
<1> HIDE DEF w
<1>10. h \in DB /\ \A x \in RowColumns : h[x] = IF x = "difference" THEN w ELSE g[x]
    BY <1>8, <1>9, WriteColumn DEF RowColumns, ColumnType
<1> HIDE DEF h
<1>11. /\ h.gig = d.gig /\ h.base = v /\ h.difference = w /\ h.entry = d.entry
       /\ h.dispute = d.dispute /\ h.base_dispute = d.base_dispute
       /\ h.difference_dispute = d.difference_dispute
       /\ f.base = d.base /\ g.difference = d.difference
    BY <1>5, <1>6, <1>8, <1>10 DEF RowColumns
<1>12. Moves(op, d, h)
    BY <1>7, <1>9, <1>10, <1>11 DEF Moves, Kinds, Disputed
<1>13. Effect(op, d, o)
    BY <1>1, <1>2, <1>12 DEF Effect, Full, Refs
<1> QED
    BY <1>13 DEF o

LEMMA OpenEffect ==
    ASSUME NEW op, NEW d \in DB, op.type = "open_dispute"
    PROVE  Effect(op, d, OpenDispute(d))
<1> DEFINE e == [d EXCEPT !.dispute = "open"]
           f == [e EXCEPT !.gig = "disputed"]
<1>1. OpenDispute(d) = Outcome(f)
    BY DEF OpenDispute
<1>2. e \in DB /\ \A x \in RowColumns : e[x] = IF x = "dispute" THEN "open" ELSE d[x]
    BY WriteColumn DEF RowColumns, ColumnType, DisputeStatus
<1> HIDE DEF e
<1>3. f \in DB /\ \A x \in RowColumns : f[x] = IF x = "gig" THEN "disputed" ELSE e[x]
    BY <1>2, WriteColumn DEF RowColumns, ColumnType, GigStatus
<1> HIDE DEF f
<1>4. f.gig = "disputed" /\ f.base = d.base /\ f.difference = d.difference /\ f.entry = d.entry
    BY <1>2, <1>3 DEF RowColumns
<1>5. Moves(op, d, f)
    BY <1>3, <1>4 DEF Moves, Kinds, Gone
<1> QED
    BY <1>1, <1>5, RowsEffect

\* The dispute row is written, once there is one.
LEMMA StatedMoves ==
    ASSUME NEW op, NEW d \in DB, d.dispute # "none", NEW v \in DisputeStatus
    PROVE  /\ Moves(op, d, [d EXCEPT !.dispute = v])
           /\ Writes(d, [d EXCEPT !.dispute = v], {"dispute"})
<1> DEFINE e == [d EXCEPT !.dispute = v]
<1>1. e \in DB /\ \A x \in RowColumns : e[x] = IF x = "dispute" THEN v ELSE d[x]
    BY WriteColumn DEF RowColumns, ColumnType
<1> HIDE DEF e
<1>2. Moves(op, d, e) /\ Writes(d, e, {"dispute"})
    BY <1>1 DEF Moves, Kinds, RowColumns, Disputed, Writes
<1> QED
    BY <1>2 DEF e

LEMMA ResolveEffect ==
    ASSUME NEW op, NEW d \in DB, op.type = "resolve_dispute", op.amount \in Nat, d.dispute # "none"
    PROVE  Effect(op, d, ResolveDispute(d, op.amount))
<1> DEFINE all == Total(Succeeded(d))
           take == Allocate(d, op.amount)
           Asked(k) == IF Cases(d) = {} /\ take[k] > 0 THEN NewCase(take[k], all)
                       ELSE d[Column[k]["dispute"]]
           v == IF op.amount = 0 THEN "resolved_no_refund"
                ELSE IF op.amount < all THEN "resolved_partial_refund" ELSE "resolved_refund"
           bd == Asked("base")
           dd == Asked("difference")
           e == [d EXCEPT !.dispute = v]
           f == [e EXCEPT !.base_dispute = bd]
           g == [f EXCEPT !.difference_dispute = dd]
           S == {Op("refund.initiate", k, 0, "none") : k \in Cases(g)}
           o == ResolveDispute(d, op.amount)
<1>1. o = Outcome(e) \/ o = [Outcome(g) EXCEPT !.send = S]
    BY DEF ResolveDispute
<1>2. take \in [Kinds -> Int] /\ all \in Nat /\ v \in DisputeStatus
    BY AllocateTyped, TotalIsNat DEF DisputeStatus
<1>3. \A k \in Kinds : Asked(k) \in Case
    BY <1>2, CaseIsCase DEF Case, NewCase
<1>4. bd \in Case /\ dd \in Case
    BY <1>3 DEF Kinds
<1>5. Cases(g) \subseteq Kinds
    BY DEF Cases
<1> SUFFICES Effect(op, d, o)
    OBVIOUS
<1> HIDE DEF o, v, bd, dd, S, g
<1>6. Moves(op, d, e) /\ Writes(d, e, {"dispute"})
    BY <1>2, StatedMoves
<1>7. e \in DB
    BY <1>6 DEF Moves
<1>8. e.gig = d.gig /\ e.entry = d.entry /\ \A k \in Kinds : e[k] = d[k]
    BY <1>6 DEF Writes, RowColumns, Kinds
<1> HIDE DEF e
<1>9. f \in DB /\ \A x \in RowColumns : f[x] = IF x = "base_dispute" THEN bd ELSE e[x]
    BY <1>4, <1>7, WriteColumn DEF RowColumns, ColumnType
<1> HIDE DEF f
<1>10. g \in DB /\ \A x \in RowColumns : g[x] = IF x = "difference_dispute" THEN dd ELSE f[x]
    BY <1>4, <1>9, WriteColumn DEF RowColumns, ColumnType, g
<1>11. g.gig = d.gig /\ g.entry = d.entry /\ \A k \in Kinds : g[k] = d[k]
    BY <1>8, <1>9, <1>10 DEF RowColumns, Kinds
<1>12. Disputed(d)
    BY DEF Disputed
<1>13. Moves(op, d, g)
    BY <1>10, <1>11, <1>12 DEF Moves
<1>14. CASE o = [Outcome(g) EXCEPT !.send = S]
    <2>0. \A x \in S : x.kind \in Kinds /\ x.amount \in Nat /\ x.ref \in Refs
        BY <1>5 DEF Op, Refs, S
    <2>1. /\ o.db = g /\ o.halfway = g /\ o.ok = TRUE /\ o.ref = "none" /\ o.take = NoTake
          /\ o.send = S /\ o.book = {}
        BY <1>14 DEF Outcome
    <2>2. NoTake \in [Kinds -> Int] /\ \A k \in Kinds : ~(NoTake[k] > 0)
        BY DEF NoTake
    <2> QED
        BY <1>12, <1>13, <2>0, <2>1, <2>2 DEF Effect, Full, Refs
<1>15. CASE o = Outcome(e)
    BY <1>6, <1>15, RowsEffect
<1> QED
    BY <1>1, <1>14, <1>15

LEMMA SetEffect ==
    ASSUME NEW op, NEW d \in DB, op.type = "admin_set", op.ref \in AdminStatuses
    PROVE  Effect(op, d, Outcome([d EXCEPT !.gig = op.ref]))
<1> DEFINE e == [d EXCEPT !.gig = op.ref]
<1>1. op.ref \in GigStatus /\ op.ref \in Gone
    BY GigAssumption DEF GigStatus, Gone
<1>2. e \in DB /\ \A x \in RowColumns : e[x] = IF x = "gig" THEN op.ref ELSE d[x]
    BY <1>1, WriteColumn DEF RowColumns, ColumnType
<1> HIDE DEF e
<1>3. e.gig = op.ref /\ e.base = d.base /\ e.difference = d.difference /\ e.entry = d.entry
    BY <1>2 DEF RowColumns
<1>4. Moves(op, d, e)
    BY <1>1, <1>2, <1>3 DEF Moves, Kinds, Gone
<1>5. Effect(op, d, Outcome(e))
    BY <1>4, RowsEffect
<1> QED
    BY <1>5 DEF e

LEMMA RequestIsTyped ==
    ASSUME NEW op \in Request
    PROVE  /\ op.type \in {"create_intent", "submit", "client_refund", "open_dispute",
                           "cancel_dispute", "admin_complete", "admin_refund",
                           "resolve_dispute", "admin_set"}
           /\ op.kind \in Kinds /\ op.amount \in Nat
           /\ op.type = "admin_set" => op.ref \in AdminStatuses
<1> DEFINE T == Total(Kinds)
<1>1. T \in Nat
    BY TotalIsNat
<1> HIDE DEF T
<1>2. /\ \A n \in 1..T : n \in Nat
      /\ \A n \in 0..T : n \in Nat
    BY <1>1
<1>3. \/ \E type \in {"create_intent", "submit", "client_refund", "open_dispute",
                      "cancel_dispute", "admin_complete"} : op = Op(type, "base", 0, "none")
      \/ \E n \in 1..T : op = Op("admin_refund", "base", n, "none")
      \/ \E n \in 0..T : op = Op("resolve_dispute", "base", n, "none")
      \/ \E status \in AdminStatuses : op = Op("admin_set", "base", 0, status)
    BY DEF Request, T
<1> QED
    BY <1>2, <1>3 DEF Op, Kinds

\* Every handler, from rows its request was accepted on.
LEMMA HandleEffect ==
    ASSUME NEW op, NEW d \in DB,
           (op \in Request /\ Accepts(op, d)) \/ (IsEvent(op) /\ op.amount \in Nat)
    PROVE  Effect(op, d, Handle(op, d))
<1>1. CASE IsEvent(op) /\ op.amount \in Nat
    <2>1. op.kind \in Kinds /\ op.type \in EventTypes
        BY <1>1 DEF IsEvent
    <2>2. /\ op.type = Success => Effect(op, d, PaymentSucceeded(d, op.kind))
          /\ op.type # "charge.refunded" => /\ Effect(op, d, PaymentEnds(d, op.kind, "failed"))
                                            /\ Effect(op, d, PaymentEnds(d, op.kind, "cancelled"))
          /\ op.type = "charge.dispute.created" => Effect(op, d, Chargeback(d, op.kind))
          /\ op.type = "refund.initiate" => Effect(op, d, InitiateRefund(d, op.kind))
        BY <2>1, SucceededEffect, EndsEffect, ChargebackEffect, InitiateEffect
    <2>3. op.type \in {"charge.refunded", "refund.succeeded"} =>
              Effect(op, d, RefundSucceeded(d, op.kind, op.amount, op.ref))
        BY <1>1, <2>1, RefundEffect
    <2> QED
        BY <2>1, <2>2, <2>3 DEF EventTypes, Handle, Success
<1>2. CASE op \in Request /\ Accepts(op, d)
    <2>1. /\ op.type \in {"create_intent", "submit", "client_refund", "open_dispute",
                          "cancel_dispute", "admin_complete", "admin_refund",
                          "resolve_dispute", "admin_set"}
          /\ op.kind \in Kinds /\ op.amount \in Nat
          /\ op.type = "admin_set" => op.ref \in AdminStatuses
        BY <1>2, RequestIsTyped
    <2>2. /\ op.type = "create_intent" => Effect(op, d, CreateIntent(d))
          /\ op.type = "submit" => Effect(op, d, Submit(d))
          /\ op.type = "client_refund" => Effect(op, d, ClientRefund(d))
          /\ op.type = "admin_refund" => Effect(op, d, AdminRefund(d, op.amount))
          /\ op.type = "open_dispute" => Effect(op, d, OpenDispute(d))
        BY <2>1, CreateEffect, SubmitEffect, ClientRefundEffect, AdminRefundEffect, OpenEffect
    <2>3. op.type = "admin_set" => Effect(op, d, Outcome([d EXCEPT !.gig = op.ref]))
        BY <2>1, SetEffect
    <2>4. /\ op.type = "cancel_dispute" => d.dispute = "open"
          /\ op.type = "resolve_dispute" => d.dispute # "none"
          /\ op.type = "admin_complete" => MayMove(d, "completed")
        BY <1>2 DEF Accepts
    <2>5. op.type = "resolve_dispute" => Effect(op, d, ResolveDispute(d, op.amount))
        BY <2>1, <2>4, ResolveEffect
    <2>6. op.type = "cancel_dispute" => Effect(op, d, Outcome([d EXCEPT !.dispute = "cancelled"]))
        <3>1. "cancelled" \in DisputeStatus
            BY DEF DisputeStatus
        <3>2. op.type = "cancel_dispute" => Moves(op, d, [d EXCEPT !.dispute = "cancelled"])
            BY <2>4, <3>1, StatedMoves
        <3> QED
            BY <3>2, RowsEffect
    <2>7. op.type = "admin_complete" => Effect(op, d, AdminComplete(d))
        <3>1. op.type = "admin_complete" => Moves(op, d, Complete(d))
            BY <2>4, MayMoveOnly, CompleteMoves
        <3> QED
            BY <3>1, RowsEffect DEF AdminComplete
    <2> QED
        BY <2>1, <2>2, <2>3, <2>5, <2>6, <2>7 DEF Handle
<1> QED
    BY <1>1, <1>2

----------------------------------------------------------------------------
(* Every state is of its type *)

\* What Stripe is told of payment k, if the call of session s goes that far.
Paying(s, k) == k \in RefundMade(Running(s), sess[s].seen.oldest)

StripeTyped ==
    /\ DOMAIN stripe = Kinds
    /\ \A k \in Kinds : /\ DOMAIN stripe[k] = {"intent", "refunded", "made"}
                        /\ stripe[k].intent \in {"open", "succeeded", "canceled"}
                        /\ stripe[k].refunded \in 0..Amount[k]
                        /\ DOMAIN stripe[k].made \subseteq Refs

\* What a session has read and is asked to do are rows and an event or a
\* request that was accepted on them.
Reading(s) ==
    sess[s].busy =>
        /\ sess[s].seen \in DB
        /\ sess[s].op \in Request => Accepts(sess[s].op, sess[s].seen)

Stored ==
    /\ \A x \in ledger \cup sent : x.kind \in Kinds /\ x.amount \in Nat
    /\ done \cup dead \subseteq sent

TypeInv ==
    /\ LandInv
    /\ db \in DB
    /\ StripeTyped
    /\ Stored
    /\ \A s \in Sessions : Reading(s)

\* A map of keys with one more.
With(f, a, b) == [r \in DOMAIN f \cup {a} |-> IF r = a THEN b ELSE f[r]]

\* What a session comes to follows from rows and an operation it may be given.
LEMMA RunningEffect ==
    ASSUME TypeInv, NEW s \in Sessions, sess[s].busy
    PROVE  Effect(sess[s].op, sess[s].seen, Running(s)) /\ sess[s].seen \in DB
<1> DEFINE op == sess[s].op
           seen == sess[s].seen
<1>1. /\ Grounded(s) /\ Reading(s)
      /\ \A e \in sent : IsEvent(e) /\ e.amount \in Nat
    BY DEF TypeInv, LandInv, Shape, Stored
<1>2. seen \in DB /\ ((op \in Request /\ Accepts(op, seen)) \/ (IsEvent(op) /\ op.amount \in Nat))
    BY <1>1 DEF Grounded, Reading
<1> HIDE DEF op, seen
<1>3. Effect(op, seen, Handle(op, seen))
    BY <1>2, HandleEffect
<1> QED
    BY <1>2, <1>3 DEF Running, op, seen

LEMMA CallMakes ==
    ASSUME TypeInv, NEW s \in Sessions, CallStripe(s)
    PROVE  LET o == Running(s)
           IN  /\ Effect(sess[s].op, sess[s].seen, o)
               /\ DOMAIN stripe' = Kinds
               /\ \A k \in Kinds : ~Paying(s, k) => stripe'[k] = stripe[k]
               /\ \A k \in Kinds : Paying(s, k) =>
                      /\ o.take[k] > 0 /\ stripe[k].intent = "succeeded"
                      /\ Wanted(o, k) \in Nat \ {0} /\ ~Repeats(o, k)
                      /\ o.ref # "client" => Wanted(o, k) = o.take[k]
                      /\ stripe[k].refunded + Wanted(o, k) <= Amount[k]
                      /\ DOMAIN stripe'[k] = {"intent", "refunded", "made"}
                      /\ stripe'[k].intent = "succeeded"
                      /\ stripe'[k].refunded = stripe[k].refunded + Wanted(o, k)
                      /\ stripe'[k].made = With(stripe[k].made, o.ref, Wanted(o, k))
<1> DEFINE o == Running(s)
           op == sess[s].op
           seen == sess[s].seen
<1>1. sess[s].busy
    BY DEF CallStripe
<1>2. Effect(op, seen, o)
    BY <1>1, RunningEffect
<1>3. stripe' = [k \in Kinds |->
                     IF Paying(s, k)
                     THEN [stripe[k] EXCEPT !.refunded = @ + Wanted(o, k),
                                            !.made = With(@, o.ref, Wanted(o, k))]
                     ELSE stripe[k]]
    BY DEF CallStripe, Paying, With
<1>4. ASSUME NEW k \in Kinds, Paying(s, k)
      PROVE  ~Refuses(o, k) /\ ~Repeats(o, k) /\ o.take[k] > 0
    BY <1>4 DEF Paying, RefundMade, Reached
<1>5. o.take \in [Kinds -> Int]
    BY <1>2 DEF Effect
<1> HIDE DEF o
<1>6. ASSUME NEW k \in Kinds, Paying(s, k)
      PROVE  /\ stripe[k].intent = "succeeded"
             /\ Wanted(o, k) \in Nat \ {0}
             /\ o.ref # "client" => Wanted(o, k) = o.take[k]
             /\ stripe[k].refunded + Wanted(o, k) <= Amount[k]
    <2>1. stripe[k].refunded \in 0..Amount[k] /\ Amount[k] \in Nat
        BY GigAssumption DEF TypeInv, StripeTyped
    <2>2. /\ stripe[k].intent = "succeeded" /\ Wanted(o, k) # 0
          /\ ~(stripe[k].refunded + Wanted(o, k) > Amount[k])
        BY <1>4, <1>6 DEF Refuses
    <2>3. Wanted(o, k) \in Int /\ Wanted(o, k) >= 0
        BY <1>4, <1>5, <1>6, <2>1 DEF Wanted
    <2>4. o.ref # "client" => Wanted(o, k) = o.take[k]
        BY DEF Wanted
    <2> QED
        BY <2>1, <2>2, <2>3, <2>4
<1>7. ASSUME NEW k \in Kinds, Paying(s, k)
      PROVE  /\ DOMAIN stripe'[k] = {"intent", "refunded", "made"}
             /\ stripe'[k].intent = "succeeded"
             /\ stripe'[k].refunded = stripe[k].refunded + Wanted(o, k)
             /\ stripe'[k].made = With(stripe[k].made, o.ref, Wanted(o, k))
    <2> DEFINE w == Wanted(o, k)
               m == With(stripe[k].made, o.ref, w)
    <2>1. DOMAIN stripe[k] = {"intent", "refunded", "made"}
        BY DEF TypeInv, StripeTyped
    <2>2. stripe'[k] = [stripe[k] EXCEPT !.refunded = stripe[k].refunded + w, !.made = m]
        BY <1>3, <1>7
    <2> HIDE DEF w, m
    <2>3. /\ DOMAIN stripe'[k] = {"intent", "refunded", "made"}
          /\ stripe'[k].intent = stripe[k].intent
          /\ stripe'[k].refunded = stripe[k].refunded + w
          /\ stripe'[k].made = m
        BY <2>1, <2>2
    <2> QED
        BY <1>6, <1>7, <2>3 DEF w, m
<1>8. DOMAIN stripe' = Kinds /\ \A k \in Kinds : ~Paying(s, k) => stripe'[k] = stripe[k]
    BY <1>3
<1> QED
    BY <1>2, <1>4, <1>6, <1>7, <1>8 DEF o

LEMMA TypeInit == Init => TypeInv
<1> SUFFICES ASSUME Init PROVE TypeInv
    OBVIOUS
<1>1. PICK dear \in BOOLEAN : db = [NewDB EXCEPT !.dear = dear]
    BY DEF Init
<1>2. db \in DB
    <2>1. NewDB \in DB
        BY DEF NewDB, NoCase, DB, Case, GigStatus, PaymentStatus, DisputeStatus, Kinds
    <2> QED
        BY <1>1, <2>1, WriteColumn DEF RowColumns, ColumnType
<1>3. /\ ledger = {} /\ inbox = {} /\ sent = {} /\ done = {} /\ dead = {}
      /\ sess = [s \in Sessions |-> Idle]
      /\ stripe = [k \in Kinds |-> [intent |-> "open", refunded |-> 0, made |-> <<>>]]
    BY DEF Init
<1>4. \A s \in Sessions : ~sess[s].busy
    BY <1>3 DEF Idle
<1>5. StripeTyped
    BY <1>3, GigAssumption DEF StripeTyped
<1> QED
    BY <1>2, <1>3, <1>4, <1>5, LandInit DEF TypeInv, Stored, Reading

LEMMA ReadingStays ==
    ASSUME NEW s, Reading(s), sess'[s] = sess[s]
    PROVE  Reading(s)'
BY DEF Reading

LEMMA TypeBegin ==
    ASSUME TypeInv, NEW s \in Sessions, NEW op, Begin(s, op), op \in Request => Accepts(op, db),
           UNCHANGED <<db, ledger, stripe, sent, done, dead>>, LandInv'
    PROVE  TypeInv'
<1>1. /\ sess' = [sess EXCEPT ![s] = [busy |-> TRUE, op |-> op, seen |-> db, answer |-> "none"]]
      /\ DOMAIN sess = Sessions
    BY DEF Begin, TypeInv, LandInv, Shape
<1>2. Reading(s)'
    BY <1>1 DEF Reading, TypeInv
<1>3. \A t \in Sessions \ {s} : Reading(t)'
    BY <1>1, ReadingStays DEF TypeInv
<1> QED
    BY <1>2, <1>3 DEF TypeInv, StripeTyped, Stored

\* What Stripe announces is of a payment and an amount.
LEMMA NoticesAreTyped ==
    ASSUME TypeInv, NEW s \in Sessions, CallStripe(s),
           NEW e \in RefundEvents(Running(s), sess[s].seen.oldest)
    PROVE  \E k \in Kinds :
               /\ Paying(s, k) /\ e.kind = k /\ e.type \in {"charge.refunded", "refund.succeeded"}
               /\ e.amount \in Nat /\ e.type \in Notices
               /\ e.type = "charge.refunded" => e.amount = stripe'[k].refunded
<1> DEFINE o == Running(s)
           oldest == sess[s].seen.oldest
<1>1. PICK k \in RefundMade(o, oldest) :
          /\ e.type \in Notices
          /\ \/ e = Op("charge.refunded", k, stripe[k].refunded + Wanted(o, k),
                       IF Expanded THEN o.ref ELSE "none")
             \/ e = Op("refund.succeeded", k, Wanted(o, k), o.ref)
    BY DEF RefundEvents
<1>2. k \in Kinds /\ Paying(s, k)
    BY <1>1 DEF RefundMade, Paying
<1>3. /\ Wanted(o, k) \in Nat \ {0}
      /\ stripe'[k].refunded = stripe[k].refunded + Wanted(o, k)
    BY <1>2, CallMakes
<1>4. stripe[k].refunded \in Nat
    BY <1>2, GigAssumption DEF TypeInv, StripeTyped
<1> HIDE DEF o
<1>5. /\ e.kind = k /\ e.type \in {"charge.refunded", "refund.succeeded"} /\ e.amount \in Nat
      /\ e.type = "charge.refunded" => e.amount = stripe'[k].refunded
    BY <1>1, <1>3, <1>4 DEF Op
<1> QED
    BY <1>1, <1>2, <1>5

LEMMA TypeCall ==
    ASSUME TypeInv, NEW s \in Sessions, CallStripe(s), LandInv'
    PROVE  TypeInv'
<1> DEFINE o == Running(s)
           E == RefundEvents(o, sess[s].seen.oldest) \ sent
           v == IF \E k \in Kinds : Refuses(o, k) THEN "refused" ELSE "made"
<1>1. /\ sess[s].busy /\ DOMAIN sess = Sessions
      /\ sess' = [sess EXCEPT ![s].answer = v] /\ sent' = sent \cup E
      /\ UNCHANGED <<db, ledger, done, dead>>
    BY DEF CallStripe, TypeInv, LandInv, Shape
<1>2. \A e \in E : e.kind \in Kinds /\ e.amount \in Nat
    BY NoticesAreTyped
<1> HIDE DEF E
<1>3. StripeTyped'
    <2> SUFFICES ASSUME NEW k \in Kinds
                 PROVE  /\ DOMAIN stripe'[k] = {"intent", "refunded", "made"}
                        /\ stripe'[k].intent \in {"open", "succeeded", "canceled"}
                        /\ stripe'[k].refunded \in 0..Amount[k]
                        /\ DOMAIN stripe'[k].made \subseteq Refs
        BY CallMakes DEF StripeTyped
    <2>1. CASE ~Paying(s, k)
        BY <2>1, CallMakes DEF TypeInv, StripeTyped
    <2>2. CASE Paying(s, k)
        <3> DEFINE w == Wanted(o, k)
        <3>1. /\ w \in Nat /\ stripe[k].refunded + w <= Amount[k] /\ o.ref \in Refs
              /\ DOMAIN stripe'[k] = {"intent", "refunded", "made"}
              /\ stripe'[k].intent = "succeeded"
              /\ stripe'[k].refunded = stripe[k].refunded + w
              /\ stripe'[k].made = With(stripe[k].made, o.ref, w)
            BY <2>2, CallMakes DEF Effect
        <3> HIDE DEF w, o
        <3>2. stripe[k].refunded \in 0..Amount[k] /\ Amount[k] \in Nat
            BY GigAssumption DEF TypeInv, StripeTyped
        <3>3. DOMAIN stripe'[k].made \subseteq Refs
            BY <3>1 DEF TypeInv, StripeTyped, With
        <3> QED
            BY <3>1, <3>2, <3>3
    <2> QED
        BY <2>1, <2>2
<1>4. Reading(s)'
    <2>1. sess'[s].op = sess[s].op /\ sess'[s].seen = sess[s].seen
        BY <1>1 DEF TypeInv, LandInv, Grounded
    <2> QED
        BY <1>1, <2>1 DEF Reading, TypeInv
<1>5. \A t \in Sessions \ {s} : Reading(t)'
    BY <1>1, ReadingStays DEF TypeInv
<1>6. Stored'
    BY <1>1, <1>2 DEF TypeInv, Stored
<1> QED
    BY <1>1, <1>3, <1>4, <1>5, <1>6 DEF TypeInv

LEMMA TypeCrash ==
    ASSUME TypeInv, NEW s \in Sessions, Crash(s), LandInv'
    PROVE  TypeInv'
<1>1. /\ sess' = [sess EXCEPT ![s] = Idle] /\ DOMAIN sess = Sessions
      /\ UNCHANGED <<db, ledger, stripe, sent, done, dead>>
    BY DEF Crash, TypeInv, LandInv, Shape
<1>2. Reading(s)'
    BY <1>1 DEF Reading, Idle
<1>3. \A t \in Sessions \ {s} : Reading(t)'
    BY <1>1, ReadingStays DEF TypeInv
<1> QED
    BY <1>1, <1>2, <1>3 DEF TypeInv, StripeTyped, Stored

LEMMA MergeTyped ==
    ASSUME NEW seen \in DB, NEW new \in DB, NEW cur \in DB
    PROVE  Merge(seen, new, cur) \in DB
<1> DEFINE m == [c \in DOMAIN cur |-> IF new[c] # seen[c] THEN new[c] ELSE cur[c]]
           a == [m EXCEPT !.entry = cur.entry]
           b == [a EXCEPT !.gross = cur.gross]
           c1 == [b EXCEPT !.original = cur.original]
           d == [c1 EXCEPT !.returned = cur.returned]
<1>1. /\ DOMAIN cur = RowColumns
      /\ \A c \in RowColumns : cur[c] \in ColumnType[c] /\ new[c] \in ColumnType[c]
    BY RowsAreColumns
<1>2. m = [c \in RowColumns |-> m[c]] /\ \A c \in RowColumns : m[c] \in ColumnType[c]
    BY <1>1
<1>3. Merge(seen, new, cur) = m \/ Merge(seen, new, cur) = d
    BY DEF Merge
<1> HIDE DEF m
<1>4. m \in DB
    BY <1>2, RowsAreColumns
<1>5. /\ {"entry", "gross", "original", "returned"} \subseteq RowColumns
      /\ cur.entry \in ColumnType["entry"] /\ cur.gross \in ColumnType["gross"]
      /\ cur.original \in ColumnType["original"] /\ cur.returned \in ColumnType["returned"]
    BY <1>1 DEF RowColumns
<1>6. a \in DB
    BY <1>4, <1>5, WriteColumn
<1> HIDE DEF a
<1>7. b \in DB
    BY <1>5, <1>6, WriteColumn
<1> HIDE DEF b
<1>8. c1 \in DB
    BY <1>5, <1>7, WriteColumn
<1> HIDE DEF c1
<1>9. d \in DB
    BY <1>5, <1>8, WriteColumn
<1> QED
    BY <1>3, <1>4, <1>9

LEMMA TypeCommit ==
    ASSUME TypeInv, NEW s \in Sessions, Commit(s), LandInv'
    PROVE  TypeInv'
<1> DEFINE op == sess[s].op
           seen == sess[s].seen
           o == Running(s)
           new == IF sess[s].answer = "refused" THEN o.halfway ELSE o.db
           ok == o.ok /\ sess[s].answer # "refused"
           isEvent == op.type \in EventTypes
           stored == IF ok THEN o.send \ sent ELSE {}
<1>1. /\ sess[s].busy /\ DOMAIN sess = Sessions
      /\ sess' = [sess EXCEPT ![s] = Idle]
      /\ db' = db \/ db' = Merge(seen, new, db)
      /\ ledger' \subseteq ledger \cup o.book
      /\ sent' = sent \cup stored
      /\ done' \subseteq done \cup (IF isEvent THEN {op} ELSE {})
      /\ dead' \subseteq dead \cup (IF isEvent THEN {op} ELSE {})
      /\ UNCHANGED stripe
    BY DEF Commit, NewRows, TypeInv, LandInv, Shape
<1>2. Effect(op, seen, o) /\ seen \in DB
    BY <1>1, RunningEffect
<1>3. isEvent => op \in sent
    BY <1>1, RequestIsNoEvent DEF TypeInv, LandInv, Grounded
<1> HIDE DEF o, op, seen
<1>4. new \in DB
    BY <1>2 DEF Effect, Moves
<1>5. /\ \A e \in stored : e.kind \in Kinds /\ e.amount \in Nat
      /\ \A r \in o.book : r.kind \in Kinds /\ r.amount \in Nat
    BY <1>2 DEF Effect
<1> HIDE DEF new, stored, isEvent
<1>6. db' \in DB
    BY <1>1, <1>2, <1>4, MergeTyped DEF TypeInv
<1>7. Stored'
    BY <1>1, <1>3, <1>5 DEF TypeInv, Stored
<1>8. Reading(s)'
    BY <1>1 DEF Reading, Idle
<1>9. \A t \in Sessions \ {s} : Reading(t)'
    BY <1>1, ReadingStays DEF TypeInv
<1> QED
    BY <1>1, <1>6, <1>7, <1>8, <1>9 DEF TypeInv, StripeTyped

LEMMA TypeStripe ==
    ASSUME TypeInv, NEW k \in Kinds, Pay(k) \/ Decline(k) \/ CancelIntent(k) \/ OpenChargeback(k),
           LandInv'
    PROVE  TypeInv'
<1>1. \E type \in EventTypes : Notify(Event(type, k))
    BY DEF Pay, Decline, CancelIntent, OpenChargeback, EventTypes
<1>2. PICK e : e.kind = k /\ e.amount = 0 /\ Notify(e)
    BY <1>1 DEF Event, Op
<1>3. \/ UNCHANGED stripe
      \/ \E v \in {"succeeded", "canceled"} : stripe' = [stripe EXCEPT ![k].intent = v]
    BY DEF Pay, Decline, CancelIntent, OpenChargeback
<1>4. StripeTyped'
    <2>1. CASE UNCHANGED stripe
        BY <2>1 DEF TypeInv, StripeTyped
    <2>2. CASE \E v \in {"succeeded", "canceled"} : stripe' = [stripe EXCEPT ![k].intent = v]
        <3>1. PICK v \in {"succeeded", "canceled"} : stripe' = [stripe EXCEPT ![k].intent = v]
            BY <2>2
        <3>2. StripeTyped
            BY DEF TypeInv
        <3> QED
            BY <3>1, <3>2 DEF StripeTyped
    <2> QED
        BY <1>3, <2>1, <2>2
<1>5. /\ sent' = sent \cup {e} /\ UNCHANGED <<db, ledger, done, dead, sess>>
    BY <1>2 DEF Notify
<1>6. \A t \in Sessions : Reading(t)'
    BY <1>5, ReadingStays DEF TypeInv
<1> QED
    BY <1>2, <1>4, <1>5, <1>6 DEF TypeInv, Stored

LEMMA TypeStep == TypeInv /\ [Next]_vars => TypeInv'
<1> SUFFICES ASSUME TypeInv, [Next]_vars PROVE TypeInv'
    OBVIOUS
<1>0. LandInv'
    BY LandStep DEF TypeInv
<1>1. ASSUME NEW s \in Sessions, NEW op \in Request, BeginRequest(s, op) PROVE TypeInv'
    BY <1>0, <1>1, TypeBegin DEF BeginRequest
<1>2. ASSUME NEW s \in Sessions, NEW e \in inbox, BeginEvent(s, e) PROVE TypeInv'
    <2>1. e \notin Request
        BY RequestIsNoEvent DEF TypeInv, LandInv, Shape, IsEvent
    <2> QED
        BY <1>0, <1>2, <2>1, TypeBegin DEF BeginEvent
<1>3. ASSUME NEW s \in Sessions, CallStripe(s) \/ Commit(s) \/ Crash(s) PROVE TypeInv'
    BY <1>0, <1>3, TypeCall, TypeCommit, TypeCrash
<1>4. ASSUME NEW k \in Kinds, Pay(k) \/ Decline(k) \/ CancelIntent(k) \/ OpenChargeback(k)
      PROVE  TypeInv'
    BY <1>0, <1>4, TypeStripe
<1>5. CASE UNCHANGED vars
    BY <1>0, <1>5 DEF TypeInv, vars, StripeTyped, Stored, Reading
<1> QED
    BY <1>1, <1>2, <1>3, <1>4, <1>5 DEF Next

\* Every reachable state has its rows, Stripe's view and what is stored of the
\* declared types, and no more is refunded than was captured.
THEOREM TypeCorrect == Spec => []TypeOK
<1>1. TypeInv => TypeOK
    BY DEF TypeInv, StripeTyped, Stored, Reading, LandInv, Shape, TypeOK
<1> QED
    BY <1>1, TypeInit, TypeStep, PTL DEF Spec

----------------------------------------------------------------------------
(* What was refunded earns nothing *)

\* A session commits on rows that nobody has changed since it read them.
FreshCommits == \A s \in Sessions : Commit(s) => sess[s].seen = db

Succ(k) == Event(Success, k)
Holds(s, e) == sess[s].busy /\ sess[s].op = e
Waiting(e) == e \in inbox \/ \E s \in Sessions : Holds(s, e)
FullSent(k) == \E e \in sent : Full(k, e)
FullDone(k) == \E e \in done : Full(k, e)
GigGone == db.gig \in Gone

\* Every event is in one place: it waits, one session works on it, or it was
\* delivered or given up.
Placed ==
    /\ \A e \in sent : Waiting(e) \/ e \in done \cup dead
    /\ \A s \in Sessions, e \in sent : Holds(s, e) =>
           e \notin inbox /\ \A t \in Sessions : Holds(t, e) => t = s

\* What the success event of payment k, its row and Stripe say of each other.
Captures(k) ==
    /\ \A e \in sent : e.type = Success /\ e.kind = k => e = Succ(k)
    /\ Succ(k) \in sent <=> stripe[k].intent = "succeeded"
    /\ db[k] = "succeeded" => Succ(k) \in sent
    /\ Waiting(Succ(k)) /\ db[k] = "succeeded" => db.gig \in Gone \cup {"completed"}

\* What is refunded was captured, was applied or takes the gig out of service,
\* and is announced when it is everything.
Refunds(k) ==
    /\ DOMAIN stripe[k].made # {} => stripe[k].intent = "succeeded"
    /\ Waiting(Succ(k)) /\ DOMAIN stripe[k].made # {} => GigGone
    /\ FullSent(k) => DOMAIN stripe[k].made # {}
    /\ stripe[k].refunded = Amount[k] => FullSent(k)
    /\ FullDone(k) /\ db[k] = "succeeded" => GigGone

DisputesClose == Disputed(db) \/ (\E e \in sent : e.type = "refund.initiate") => GigGone

EarningsHaveMoney == db.entry = "live" => \E k \in Kinds : Succ(k) \in sent /\ ~FullDone(k)

\* What a session that is busy has read of payments it may refund.
Refunding(s) ==
    sess[s].busy => \A k \in Succeeded(sess[s].seen) :
        /\ Succ(k) \in sent
        /\ sess[s].op.type \in {"client_refund", "admin_refund"} => ~Waiting(Succ(k)) \/ GigGone

CleanInv ==
    /\ TypeInv
    /\ Placed
    /\ \A k \in Kinds : Captures(k) /\ Refunds(k)
    /\ DisputesClose
    /\ EarningsHaveMoney
    /\ \A s \in Sessions : Refunding(s)

LEMMA CleanInit == Init => CleanInv
<1> SUFFICES ASSUME Init PROVE CleanInv
    OBVIOUS
<1>1. PICK dear \in BOOLEAN : db = [NewDB EXCEPT !.dear = dear]
    BY DEF Init
<1>2. /\ db.gig = "payment_pending" /\ db.base = "none" /\ db.difference = "none"
      /\ db.entry = "none" /\ db.dispute = "none"
      /\ db.base_dispute = NoCase /\ db.difference_dispute = NoCase
    BY <1>1 DEF NewDB
<1>3. /\ inbox = {} /\ sent = {} /\ done = {} /\ dead = {}
      /\ sess = [s \in Sessions |-> Idle]
      /\ stripe = [k \in Kinds |-> [intent |-> "open", refunded |-> 0, made |-> <<>>]]
    BY DEF Init
<1>4. \A s \in Sessions : ~sess[s].busy
    BY <1>3 DEF Idle
<1>5. ASSUME NEW k \in Kinds PROVE Captures(k) /\ Refunds(k)
    <2>1. /\ stripe[k].intent = "open" /\ stripe[k].refunded = 0 /\ DOMAIN stripe[k].made = {}
          /\ db[k] = "none" /\ Amount[k] # 0
        BY <1>2, <1>3, GigAssumption DEF Kinds
    <2> QED
        BY <1>3, <1>4, <2>1 DEF Captures, Refunds, Waiting, Holds, FullSent, FullDone
<1>6. Placed /\ DisputesClose /\ EarningsHaveMoney /\ \A s \in Sessions : Refunding(s)
    BY <1>2, <1>3, <1>4 DEF Placed, DisputesClose, EarningsHaveMoney, Refunding, Disputed, Holds
<1> QED
    BY <1>5, <1>6, TypeInit DEF CleanInv

LEMMA SuccIsNoRequest ==
    ASSUME NEW k \in Kinds
    PROVE  Succ(k) \notin Request /\ Succ(k).type = Success /\ Succ(k).kind = k
<1>1. Succ(k).type = Success /\ Succ(k).kind = k
    BY DEF Succ, Event, Op
<1> QED
    BY <1>1, RequestIsNoEvent DEF EventTypes, Success

\* What stays true of a payment when its rows, its refunds and its events do.
LEMMA PaymentStays ==
    ASSUME NEW k \in Kinds, Captures(k), Refunds(k), UNCHANGED <<db, stripe, sent, done>>,
           Waiting(Succ(k))' => Waiting(Succ(k))
    PROVE  Captures(k)' /\ Refunds(k)'
BY DEF Captures, Refunds, FullSent, FullDone, GigGone, Succ

LEMMA RefundingStays ==
    ASSUME NEW s, Refunding(s), sess'[s] = sess[s], sent \subseteq sent', GigGone => GigGone',
           \A k \in Kinds : Succ(k) \in sent /\ Waiting(Succ(k))' => Waiting(Succ(k))
    PROVE  Refunding(s)'
<1>1. Succeeded(sess[s].seen)' = Succeeded(sess[s].seen)
    BY DEF Succeeded
<1>2. \A k \in Succeeded(sess[s].seen) : k \in Kinds
    BY DEF Succeeded
<1> QED
    BY <1>1, <1>2 DEF Refunding, Succ

\* An event that is taken up waits with its session.
LEMMA CleanBegin ==
    ASSUME CleanInv, NEW s \in Sessions, NEW op, Begin(s, op),
           \/ op \in Request /\ Accepts(op, db) /\ inbox' = inbox
           \/ op \in inbox /\ inbox' = inbox \ {op},
           UNCHANGED <<db, ledger, stripe, sent, done, dead>>, TypeInv'
    PROVE  CleanInv'
<1>1. /\ sess' = [sess EXCEPT ![s] = [busy |-> TRUE, op |-> op, seen |-> db, answer |-> "none"]]
      /\ DOMAIN sess = Sessions /\ inbox \subseteq sent /\ ~sess[s].busy
      /\ \A e \in sent : IsEvent(e) /\ e \notin Request
    BY RequestIsNoEvent DEF Begin, CleanInv, TypeInv, LandInv, Shape, IsEvent
<1>2. \A t \in Sessions \ {s} : sess'[t] = sess[t]
    BY <1>1
<1>3. sess'[s].busy /\ sess'[s].op = op /\ sess'[s].seen = db
    BY <1>1
<1>4. ASSUME NEW e, e \notin Request
      PROVE  Waiting(e)' <=> Waiting(e)
    <2>1. Waiting(e)' => Waiting(e)
        BY <1>2, <1>3, <1>4 DEF Waiting, Holds
    <2>2. Waiting(e) => Waiting(e)'
        BY <1>1, <1>2, <1>3, <1>4 DEF Waiting, Holds
    <2> QED
        BY <2>1, <2>2
<1>5. Placed'
    <2>1. \A e \in sent' : Waiting(e)' \/ e \in done' \cup dead'
        BY <1>1, <1>4 DEF CleanInv, Placed
    <2>2. ASSUME NEW t \in Sessions, NEW e \in sent, Holds(t, e)'
          PROVE  e \notin inbox' /\ \A u \in Sessions : Holds(u, e)' => u = t
        BY <1>1, <1>2, <1>3, <2>2 DEF CleanInv, Placed, Holds
    <2> QED
        BY <2>1, <2>2 DEF Placed
<1>6. ASSUME NEW k \in Kinds PROVE Waiting(Succ(k))' => Waiting(Succ(k))
    BY <1>4, SuccIsNoRequest
<1>7. ASSUME NEW k \in Kinds PROVE Captures(k)' /\ Refunds(k)'
    BY <1>6, PaymentStays DEF CleanInv
<1>8. DisputesClose' /\ EarningsHaveMoney'
    BY DEF CleanInv, DisputesClose, EarningsHaveMoney, GigGone, FullDone, Succ
<1>9. Refunding(s)'
    <2> SUFFICES ASSUME NEW k \in Succeeded(db)
                 PROVE  /\ Succ(k) \in sent
                        /\ op.type \in {"client_refund", "admin_refund"} => ~Waiting(Succ(k)) \/ GigGone
        BY <1>3, <1>6 DEF Refunding, GigGone, Succeeded, Succ
    <2>1. k \in Kinds /\ db[k] = "succeeded"
        BY DEF Succeeded
    <2>2. Captures(k)
        BY <2>1 DEF CleanInv
    <2>3. op.type \in {"client_refund", "admin_refund"} => op \in Request
        BY <1>1 DEF IsEvent, EventTypes
    <2>4. op.type \in {"client_refund", "admin_refund"} => db.gig \in {"paid", "disputed"}
        BY <1>1, <2>3 DEF Accepts
    <2> QED
        BY <2>1, <2>2, <2>4 DEF Captures, GigGone, Gone
<1>10. \A t \in Sessions \ {s} : Refunding(t)'
    BY <1>2, <1>6, RefundingStays DEF CleanInv, GigGone
<1> QED
    BY <1>5, <1>7, <1>8, <1>9, <1>10 DEF CleanInv

LEMMA CleanCall ==
    ASSUME CleanInv, "charge.refunded" \in Notices, NEW s \in Sessions, CallStripe(s), TypeInv'
    PROVE  CleanInv'
<1> DEFINE o == Running(s)
           op == sess[s].op
           seen == sess[s].seen
           E == RefundEvents(o, seen.oldest) \ sent
           v == IF \E k \in Kinds : Refuses(o, k) THEN "refused" ELSE "made"
<1>1. /\ sess[s].busy /\ DOMAIN sess = Sessions /\ TypeInv
      /\ sess' = [sess EXCEPT ![s].answer = v]
      /\ inbox' = inbox \cup E /\ sent' = sent \cup E
      /\ UNCHANGED <<db, ledger, done, dead>>
    BY DEF CallStripe, CleanInv, TypeInv, LandInv, Shape
<1>2. /\ sess'[s].op = op /\ sess'[s].seen = seen /\ sess'[s].busy
      /\ \A t \in Sessions \ {s} : sess'[t] = sess[t]
    BY <1>1 DEF TypeInv, LandInv, Grounded
<1>3. \A e \in E : /\ e \notin sent /\ e.type \in {"charge.refunded", "refund.succeeded"}
                   /\ \E k \in Kinds : Paying(s, k) /\ e.kind = k
    BY <1>1, NoticesAreTyped
<1>4. ASSUME NEW k \in Kinds, Paying(s, k), stripe'[k].refunded = Amount[k]
      PROVE  FullSent(k)'
    <2> DEFINE e == Op("charge.refunded", k, stripe[k].refunded + Wanted(o, k),
                       IF Expanded THEN o.ref ELSE "none")
    <2>1. e \in RefundEvents(o, seen.oldest)
        BY <1>4 DEF RefundEvents, Paying, Op
    <2>2. e.type = "charge.refunded" /\ e.kind = k /\ e.amount = Amount[k]
        BY <1>1, <1>4, CallMakes DEF Op
    <2>3. Amount[k] >= Amount[k]
        BY GigAssumption
    <2>4. Full(k, e)
        BY <2>2, <2>3 DEF Full
    <2>5. e \in sent'
        BY <1>1, <2>1
    <2> HIDE DEF e
    <2> QED
        BY <2>4, <2>5 DEF FullSent, Full
<1>5. ASSUME NEW k \in Kinds, Paying(s, k)
      PROVE  /\ stripe[k].intent = "succeeded" /\ stripe'[k].intent = "succeeded"
             /\ DOMAIN stripe'[k].made # {}
             /\ \/ op.type \in {"client_refund", "admin_refund"} /\ k \in Succeeded(seen)
                \/ op.type = "refund.initiate"
    <2>1. /\ Effect(op, seen, o) /\ o.take[k] > 0
          /\ stripe[k].intent = "succeeded" /\ stripe'[k].intent = "succeeded"
          /\ stripe'[k].made = With(stripe[k].made, o.ref, Wanted(o, k))
        BY <1>1, <1>5, CallMakes
    <2>2. DOMAIN stripe'[k].made # {}
        BY <2>1 DEF With
    <2> QED
        BY <2>1, <2>2 DEF Effect
<1>6. ASSUME NEW k \in Kinds, ~Paying(s, k) PROVE stripe'[k] = stripe[k]
    BY <1>1, <1>6, CallMakes
<1> HIDE DEF E
<1>7. ASSUME NEW e
      PROVE  /\ Waiting(e)' <=> Waiting(e) \/ e \in E
             /\ \A t \in Sessions : Holds(t, e)' <=> Holds(t, e)
    <2>1. \A t \in Sessions : Holds(t, e)' <=> Holds(t, e)
        BY <1>1, <1>2 DEF Holds
    <2> QED
        BY <1>1, <2>1 DEF Waiting
<1>8. ASSUME NEW k \in Kinds PROVE Succ(k) \notin E /\ (Waiting(Succ(k))' <=> Waiting(Succ(k)))
    BY <1>3, <1>7, SuccIsNoRequest DEF Success
<1>9. Placed'
    <2>1. \A e \in sent' : Waiting(e)' \/ e \in done' \cup dead'
        BY <1>1, <1>7 DEF CleanInv, Placed
    <2>2. \A t \in Sessions, e \in E : ~Holds(t, e)
        <3> SUFFICES ASSUME NEW t \in Sessions, NEW e \in E, Holds(t, e) PROVE FALSE
            OBVIOUS
        <3>1. sess[t].busy /\ sess[t].op = e /\ Grounded(t)
            BY <1>1 DEF Holds, TypeInv, LandInv
        <3>2. e \in Request
            BY <1>3, <3>1 DEF Grounded
        <3> QED
            BY <1>3, <3>2, RequestIsNoEvent DEF EventTypes
    <2>3. ASSUME NEW t \in Sessions, NEW e \in sent', Holds(t, e)'
          PROVE  e \notin inbox' /\ \A u \in Sessions : Holds(u, e)' => u = t
        BY <1>1, <1>7, <2>2, <2>3 DEF CleanInv, Placed
    <2> QED
        BY <2>1, <2>3 DEF Placed
<1>10. ASSUME NEW k \in Kinds PROVE Captures(k)'
    <2>1. Captures(k) /\ stripe'[k].intent = stripe[k].intent
        BY <1>5, <1>6 DEF CleanInv
    <2>2. \A e \in E : ~(e.type = Success)
        BY <1>3 DEF Success
    <2>3. Succ(k)' = Succ(k)
        BY DEF Succ
    <2> QED
        BY <1>1, <1>8, <2>1, <2>2, <2>3 DEF Captures
<1>11. ASSUME NEW k \in Kinds, Paying(s, k), Waiting(Succ(k)) PROVE GigGone
    <2>1. CASE op.type = "refund.initiate"
        <3>1. op \in sent
            BY <1>1, <2>1, RequestIsNoEvent DEF TypeInv, LandInv, Grounded, EventTypes
        <3> QED
            BY <2>1, <3>1 DEF CleanInv, DisputesClose
    <2>2. CASE op.type \in {"client_refund", "admin_refund"} /\ k \in Succeeded(seen)
        BY <1>1, <1>11, <2>2 DEF CleanInv, Refunding
    <2> QED
        BY <1>5, <1>11, <2>1, <2>2
<1>12. ASSUME NEW k \in Kinds PROVE Refunds(k)'
    <2>1. Refunds(k) /\ (GigGone' <=> GigGone) /\ (FullDone(k)' <=> FullDone(k))
        BY <1>1 DEF CleanInv, GigGone, FullDone
    <2>2. Succ(k)' = Succ(k)
        BY DEF Succ
    <2>3. FullSent(k) => FullSent(k)'
        BY <1>1 DEF FullSent, Full
    <2>4. CASE Paying(s, k)
        BY <1>1, <1>4, <1>5, <1>8, <1>11, <2>1, <2>2, <2>3, <2>4 DEF Refunds
    <2>5. CASE ~Paying(s, k)
        <3>1. FullSent(k)' => FullSent(k)
            BY <1>1, <1>3, <2>5 DEF FullSent, Full
        <3> QED
            BY <1>1, <1>6, <1>8, <2>1, <2>2, <2>3, <2>5, <3>1 DEF Refunds
    <2> QED
        BY <2>4, <2>5
<1>13. DisputesClose'
    BY <1>1, <1>3 DEF CleanInv, DisputesClose, GigGone
<1>14. EarningsHaveMoney'
    BY <1>1 DEF CleanInv, EarningsHaveMoney, FullDone, Succ
<1>15. Refunding(s)'
    <2>1. Succeeded(seen) \subseteq Kinds /\ (GigGone' <=> GigGone)
        BY <1>1 DEF Succeeded, GigGone
    <2>2. \A k \in Kinds : Succ(k)' = Succ(k)
        BY DEF Succ
    <2> QED
        BY <1>1, <1>2, <1>8, <2>1, <2>2 DEF CleanInv, Refunding, Succeeded
<1>16. \A t \in Sessions \ {s} : Refunding(t)'
    BY <1>1, <1>2, <1>8, RefundingStays DEF CleanInv, GigGone
<1> QED
    BY <1>9, <1>10, <1>12, <1>13, <1>14, <1>15, <1>16 DEF CleanInv

LEMMA CleanCrash ==
    ASSUME CleanInv, NEW s \in Sessions, Crash(s), TypeInv'
    PROVE  CleanInv'
<1> DEFINE op == sess[s].op
<1>1. /\ sess[s].busy /\ sess' = [sess EXCEPT ![s] = Idle] /\ DOMAIN sess = Sessions
      /\ inbox' = IF op.type \in EventTypes THEN inbox \cup {op} ELSE inbox
      /\ UNCHANGED <<db, ledger, stripe, sent, done, dead>>
      /\ \A e \in sent : IsEvent(e)
    BY DEF Crash, CleanInv, TypeInv, LandInv, Shape
<1>2. ~sess'[s].busy /\ \A t \in Sessions \ {s} : sess'[t] = sess[t]
    BY <1>1 DEF Idle
<1>3. /\ \A e : ~Holds(s, e)'
      /\ \A e : \A t \in Sessions \ {s} : Holds(t, e)' <=> Holds(t, e)
    BY <1>2 DEF Holds
<1>4. ASSUME NEW e PROVE Waiting(e)' => Waiting(e)
    BY <1>1, <1>3 DEF Waiting, Holds
<1>5. Placed'
    <2>1. ASSUME NEW e \in sent PROVE Waiting(e)' \/ e \in done \cup dead
        <3>1. CASE Holds(s, e)
            BY <1>1, <3>1 DEF Holds, Waiting, IsEvent
        <3>2. CASE ~Holds(s, e)
            BY <1>1, <1>3, <3>2 DEF CleanInv, Placed, Waiting
        <3> QED
            BY <3>1, <3>2
    <2>2. ASSUME NEW t \in Sessions, NEW e \in sent, Holds(t, e)'
          PROVE  e \notin inbox' /\ \A u \in Sessions : Holds(u, e)' => u = t
        <3>1. t # s /\ Holds(t, e)
            BY <1>3, <2>2
        <3>2. ~Holds(s, e) /\ e \notin inbox /\ \A u \in Sessions : Holds(u, e) => u = t
            BY <3>1 DEF CleanInv, Placed
        <3> QED
            BY <1>1, <1>3, <3>2 DEF Holds
    <2> QED
        BY <1>1, <2>1, <2>2 DEF Placed
<1>6. ASSUME NEW k \in Kinds PROVE Captures(k)' /\ Refunds(k)'
    BY <1>1, <1>4, PaymentStays DEF CleanInv
<1>7. DisputesClose' /\ EarningsHaveMoney'
    BY <1>1 DEF CleanInv, DisputesClose, EarningsHaveMoney, GigGone, FullDone, Succ
<1>8. Refunding(s)'
    BY <1>2 DEF Refunding
<1>9. \A t \in Sessions \ {s} : Refunding(t)'
    BY <1>1, <1>2, <1>4, RefundingStays DEF CleanInv, GigGone
<1> QED
    BY <1>5, <1>6, <1>7, <1>8, <1>9 DEF CleanInv

\* What Stripe announces of itself: a payment that succeeds has not before.
LEMMA CleanStripe ==
    ASSUME CleanInv, NEW k \in Kinds, NEW type \in EventTypes \ {"charge.refunded", "refund.initiate"},
           Notify(Event(type, k)),
           \/ /\ type = Success /\ stripe[k].intent = "open"
              /\ stripe' = [stripe EXCEPT ![k].intent = "succeeded"]
           \/ /\ type # Success /\ stripe[k].intent = "open"
              /\ stripe' = [stripe EXCEPT ![k].intent = "canceled"]
           \/ type # Success /\ UNCHANGED stripe,
           TypeInv'
    PROVE  CleanInv'
<1> DEFINE e == Event(type, k)
<1>1. /\ e \notin sent /\ inbox' = inbox \cup {e} /\ sent' = sent \cup {e}
      /\ UNCHANGED <<db, ledger, done, dead, sess>>
      /\ e.type = type /\ e.kind = k
    BY DEF Notify, Event, Op
<1>2. \A x : \A t \in Sessions : Holds(t, x)' <=> Holds(t, x)
    BY <1>1 DEF Holds
<1>3. \A x : Waiting(x)' <=> Waiting(x) \/ x = e
    BY <1>1, <1>2 DEF Waiting
<1>4. \A t \in Sessions : ~Holds(t, e)
    <2> SUFFICES ASSUME NEW t \in Sessions, Holds(t, e) PROVE FALSE
        OBVIOUS
    <2>1. e \in Request
        BY <1>1 DEF Holds, CleanInv, TypeInv, LandInv, Grounded
    <2> QED
        BY <1>1, <2>1, RequestIsNoEvent
<1>5. e = Succ(k) <=> type = Success
    BY <1>1, SuccIsNoRequest DEF Succ
<1> HIDE DEF e
<1>6. Placed'
    <2>1. \A x \in sent' : Waiting(x)' \/ x \in done' \cup dead'
        BY <1>1, <1>3 DEF CleanInv, Placed
    <2>2. ASSUME NEW t \in Sessions, NEW x \in sent', Holds(t, x)'
          PROVE  x \notin inbox' /\ \A u \in Sessions : Holds(u, x)' => u = t
        BY <1>1, <1>2, <1>4, <2>2 DEF CleanInv, Placed
    <2> QED
        BY <2>1, <2>2 DEF Placed
<1>7. ASSUME NEW j \in Kinds
      PROVE  /\ stripe'[j].made = stripe[j].made /\ stripe'[j].refunded = stripe[j].refunded
             /\ type = Success /\ j = k => /\ stripe[j].intent = "open"
                                           /\ stripe'[j].intent = "succeeded"
             /\ ~(type = Success /\ j = k) =>
                    (stripe'[j].intent = "succeeded" <=> stripe[j].intent = "succeeded")
    <2>1. DOMAIN stripe = Kinds /\ DOMAIN stripe[j] = {"intent", "refunded", "made"}
        BY DEF CleanInv, TypeInv, StripeTyped
    <2>2. CASE UNCHANGED stripe /\ type # Success
        BY <2>2
    <2>3. CASE stripe' = [stripe EXCEPT ![k].intent = "succeeded"] /\ stripe[k].intent = "open"
               /\ type = Success
        BY <2>1, <2>3
    <2>4. CASE stripe' = [stripe EXCEPT ![k].intent = "canceled"] /\ stripe[k].intent = "open"
               /\ type # Success
        BY <2>1, <2>4
    <2> QED
        BY <2>2, <2>3, <2>4
<1>8. ASSUME NEW j \in Kinds
      PROVE  /\ Succ(j)' = Succ(j)
             /\ Succ(j) = e <=> type = Success /\ j = k
    BY <1>1, <1>5, SuccIsNoRequest DEF Succ
<1>9. ASSUME NEW j \in Kinds PROVE Captures(j)'
    <2>1. Captures(j)
        BY DEF CleanInv
    <2>2. \A x \in sent' : x.type = Success /\ x.kind = j => x = Succ(j)
        BY <1>1, <1>8, <2>1 DEF Captures
    <2>3. Succ(j) \in sent' <=> stripe'[j].intent = "succeeded"
        BY <1>1, <1>7, <1>8, <2>1 DEF Captures
    <2>4. /\ db'[j] = "succeeded" => Succ(j) \in sent'
          /\ Waiting(Succ(j))' /\ db'[j] = "succeeded" => db'.gig \in Gone \cup {"completed"}
        BY <1>1, <1>3, <1>8, <2>1 DEF Captures
    <2> QED
        BY <1>8, <2>2, <2>3, <2>4 DEF Captures
<1>10. ASSUME NEW j \in Kinds PROVE Refunds(j)'
    <2>1. Refunds(j)
        BY DEF CleanInv
    <2>2. (FullSent(j)' <=> FullSent(j)) /\ (FullDone(j)' <=> FullDone(j)) /\ (GigGone' <=> GigGone)
        BY <1>1 DEF FullSent, FullDone, Full, GigGone
    <2>3. Waiting(Succ(j))' /\ DOMAIN stripe'[j].made # {} => GigGone
        BY <1>3, <1>7, <1>8, <2>1 DEF Refunds
    <2>4. DOMAIN stripe'[j].made # {} => stripe'[j].intent = "succeeded"
        BY <1>7, <2>1 DEF Refunds
    <2> QED
        BY <1>1, <1>7, <1>8, <2>1, <2>2, <2>3, <2>4 DEF Refunds
<1>11. DisputesClose'
    BY <1>1 DEF CleanInv, DisputesClose, GigGone
<1>12. EarningsHaveMoney'
    BY <1>1 DEF CleanInv, EarningsHaveMoney, FullDone, Succ
<1>13. \A t \in Sessions : Refunding(t)'
    BY <1>1, <1>3, RefundingStays DEF CleanInv, GigGone
<1> QED
    BY <1>6, <1>9, <1>10, <1>11, <1>12, <1>13 DEF CleanInv

\* Rows nobody else changed are replaced by what the handler leaves.
LEMMA MergeFresh ==
    ASSUME NEW d \in DB, NEW new \in DB
    PROVE  Merge(d, new, d) = new
<1> DEFINE m == [c \in DOMAIN d |-> IF new[c] # d[c] THEN new[c] ELSE d[c]]
<1>1. DOMAIN d = RowColumns /\ new = [c \in RowColumns |-> new[c]]
    BY RowsAreColumns
<1>2. m = new
    BY <1>1
<1>3. Merge(d, new, d) = m
    BY DEF Merge
<1> QED
    BY <1>2, <1>3

\* A commit on fresh rows leaves what its handler came to, or the rows as they are.
LEMMA CommitFresh ==
    ASSUME TypeInv, NEW s \in Sessions, Commit(s), sess[s].seen = db
    PROVE  LET op == sess[s].op
               o == Running(s)
               ok == o.ok /\ sess[s].answer # "refused"
           IN  /\ Effect(op, db, o)
               /\ Moves(op, db, db')
               /\ ok => db' = o.db
               /\ op.type = Success \/ op.type = "charge.refunded" => sess[s].answer # "refused"
<1> DEFINE op == sess[s].op
           o == Running(s)
           refused == sess[s].answer = "refused"
           ok == o.ok /\ ~refused
           isEvent == op.type \in EventTypes
           new == IF refused THEN o.halfway ELSE o.db
<1>1. /\ sess[s].busy /\ Grounded(s) /\ db \in DB
      /\ db' = IF ok \/ isEvent THEN Merge(db, new, db) ELSE db
    BY DEF Commit, TypeInv, LandInv
<1>2. Effect(op, db, o)
    BY <1>1, RunningEffect
<1>3. refused => CallsStripe(o)
    BY <1>1 DEF Grounded
<1> HIDE DEF o, op
<1>4. Moves(op, db, new) /\ new \in DB
    BY <1>2 DEF Effect, Moves
<1> HIDE DEF new
<1>5. Merge(db, new, db) = new
    BY <1>1, <1>4, MergeFresh
<1>6. Moves(op, db, db')
    BY <1>1, <1>4, <1>5, SameMoves
<1>7. ok => db' = o.db
    BY <1>1, <1>5 DEF new
<1>8. op.type = Success \/ op.type = "charge.refunded" => ~refused
    BY <1>2, <1>3 DEF Effect, CallsStripe, Success
<1> QED
    BY <1>2, <1>6, <1>7, <1>8 DEF o, op

\* Where events are after a commit.
LEMMA CommitPlaces ==
    ASSUME CleanInv, NEW s \in Sessions, Commit(s)
    PROVE  LET op == sess[s].op
               ok == Running(s).ok /\ sess[s].answer # "refused"
           IN  /\ Placed'
               /\ \A k \in Kinds : Waiting(Succ(k))' => Waiting(Succ(k))
               /\ op.type \in EventTypes => op \in sent /\ Waiting(op)
               /\ \A e \in sent : e = op /\ ok => ~Waiting(e)'
               /\ \A e \in done' : e \in done \/ (ok /\ e = op)
               /\ \A e \in sent' : e \in sent \/ e \in Running(s).send
               /\ \A e \in sent' : e \in sent \/ e.type = "refund.initiate"
               /\ sent \subseteq sent' /\ done \subseteq done'
<1> DEFINE op == sess[s].op
           o == Running(s)
           ok == o.ok /\ sess[s].answer # "refused"
           isEvent == op.type \in EventTypes
           stored == IF ok THEN o.send \ sent ELSE {}
<1>1. /\ sess[s].busy /\ DOMAIN sess = Sessions /\ Grounded(s) /\ inbox \subseteq sent
      /\ sess' = [sess EXCEPT ![s] = Idle]
      /\ sent' = sent \cup stored
      /\ done' = IF ok /\ isEvent THEN done \cup {op} ELSE done
      /\ \/ inbox' = inbox \cup stored \cup (IF isEvent /\ ~ok THEN {op} ELSE {}) /\ dead' = dead
         \/ isEvent /\ ~ok /\ inbox' = inbox /\ dead' = dead \cup {op}
    BY DEF Commit, CleanInv, TypeInv, LandInv, Shape
<1>2. /\ isEvent => op \in sent
      /\ op \in sent => isEvent
      /\ \A e \in sent : e \notin Request
    BY <1>1, RequestIsNoEvent DEF Grounded, CleanInv, TypeInv, LandInv, Shape, IsEvent
<1>3. \A e \in stored : e.type = "refund.initiate" /\ e \notin sent
    <2>1. op \in Request \/ IsEvent(op)
        BY <1>1 DEF Grounded, CleanInv, TypeInv, LandInv, Shape
    <2>2. Tame(sess[s].seen, o)
        BY <1>1, <2>1, HandleIsTame DEF Running, Grounded
    <2> QED
        BY <2>2 DEF Tame
<1>4. stored \subseteq o.send
    OBVIOUS
<1> HIDE DEF stored, o
<1>5. /\ \A e : ~Holds(s, e)'
      /\ \A e : \A t \in Sessions \ {s} : Holds(t, e)' <=> Holds(t, e)
      /\ Holds(s, op)
    BY <1>1 DEF Holds, Idle
<1>6. \A e : \A t \in Sessions : Holds(t, e) => e \in Request \/ e \in sent
    BY DEF Holds, CleanInv, TypeInv, LandInv, Grounded
<1>7. /\ \A e \in sent : Waiting(e) \/ e \in done \cup dead
      /\ \A t \in Sessions, e \in sent : Holds(t, e) =>
             e \notin inbox /\ \A u \in Sessions : Holds(u, e) => u = t
    BY DEF CleanInv, Placed
<1>8. ASSUME NEW e \in sent PROVE Waiting(e)' => Waiting(e)
    BY <1>1, <1>3, <1>5, <1>8 DEF Waiting
<1>9. ASSUME NEW e \in sent, e = op, ok PROVE ~Waiting(e)'
    <2>1. e \notin inbox /\ \A t \in Sessions \ {s} : ~Holds(t, e)
        BY <1>5, <1>7, <1>9
    <2>2. e \notin inbox'
        BY <1>1, <1>3, <1>9, <2>1
    <2> QED
        BY <1>5, <2>1, <2>2 DEF Waiting
<1>10. Placed'
    <2>1. ASSUME NEW e \in sent' PROVE Waiting(e)' \/ e \in done' \cup dead'
        <3>1. CASE e \in stored
            BY <1>1, <3>1 DEF Waiting, stored
        <3>2. CASE e \in sent /\ Holds(s, e)
            <4>1. e = op /\ isEvent
                BY <1>2, <3>2 DEF Holds
            <4> QED
                BY <1>1, <4>1 DEF Waiting
        <3>3. CASE e \in sent /\ ~Holds(s, e)
            BY <1>1, <1>5, <1>7, <3>3 DEF Waiting
        <3> QED
            BY <1>1, <2>1, <3>1, <3>2, <3>3
    <2>2. ASSUME NEW t \in Sessions, NEW e \in sent', Holds(t, e)'
          PROVE  e \notin inbox' /\ \A u \in Sessions : Holds(u, e)' => u = t
        <3>1. t # s /\ Holds(t, e)
            BY <1>5, <2>2
        <3>2. \A x \in stored : x \notin sent /\ x \notin Request
            BY <1>3, RequestIsNoEvent DEF EventTypes
        <3>3. e \in sent /\ e \notin stored
            BY <1>1, <1>6, <2>2, <3>1, <3>2
        <3>4. e \notin inbox /\ e # op /\ \A u \in Sessions : Holds(u, e) => u = t
            BY <1>5, <1>7, <3>1, <3>3
        <3> QED
            BY <1>1, <1>5, <3>3, <3>4
    <2> QED
        BY <2>1, <2>2 DEF Placed
<1>11. ASSUME NEW k \in Kinds PROVE Waiting(Succ(k))' => Waiting(Succ(k))
    <2>1. Succ(k) \notin stored
        BY <1>3, SuccIsNoRequest DEF Success
    <2> QED
        BY <1>1, <1>2, <1>5, <1>8, <2>1 DEF Waiting
<1> QED
    BY <1>1, <1>2, <1>3, <1>4, <1>5, <1>9, <1>10, <1>11 DEF Waiting, o

LEMMA CleanCommit ==
    ASSUME CleanInv, NEW s \in Sessions, Commit(s), sess[s].seen = db, TypeInv'
    PROVE  CleanInv'
<1> DEFINE op == sess[s].op
           o == Running(s)
           ok == o.ok /\ sess[s].answer # "refused"
<1>1. /\ sess[s].busy /\ sess' = [sess EXCEPT ![s] = Idle] /\ DOMAIN sess = Sessions
      /\ UNCHANGED stripe /\ TypeInv
      /\ \A k \in Kinds : Succ(k) \in sent => db[k] # "none"
    BY SuccIsNoRequest DEF Commit, CleanInv, TypeInv, LandInv, Shape, PaymentsHaveRows
<1>2. /\ Effect(op, db, o) /\ Moves(op, db, db')
      /\ ok => db' = o.db
      /\ op.type = Success \/ op.type = "charge.refunded" => sess[s].answer # "refused"
    BY <1>1, CommitFresh
<1>3. /\ Placed'
      /\ \A k \in Kinds : Waiting(Succ(k))' => Waiting(Succ(k))
      /\ op.type \in EventTypes => op \in sent /\ Waiting(op)
      /\ \A e \in sent : e = op /\ ok => ~Waiting(e)'
      /\ \A e \in done' : e \in done \/ (ok /\ e = op)
      /\ \A e \in sent' : e \in sent \/ e \in o.send
      /\ \A e \in sent' : e \in sent \/ e.type = "refund.initiate"
      /\ sent \subseteq sent' /\ done \subseteq done'
    BY CommitPlaces
<1>4. done \subseteq sent
    BY DEF CleanInv, TypeInv, Stored
<1> HIDE DEF op, o
<1>5. GigGone => GigGone'
    BY <1>2 DEF Moves, GigGone
<1>6. ASSUME NEW k \in Kinds
      PROVE  /\ Succ(k)' = Succ(k) /\ Captures(k) /\ Refunds(k)
             /\ (FullSent(k)' <=> FullSent(k))
             /\ FullDone(k) => FullSent(k)
             /\ FullSent(k) => db[k] # "none"
    <2>1. Succ(k)' = Succ(k) /\ Captures(k) /\ Refunds(k)
        BY DEF Succ, CleanInv
    <2>2. FullSent(k)' <=> FullSent(k)
        BY <1>3 DEF FullSent, Full
    <2>3. FullDone(k) => FullSent(k)
        BY <1>4 DEF FullDone, FullSent
    <2> QED
        BY <1>1, <2>1, <2>2, <2>3 DEF Captures, Refunds
\* a success event that lands
<1>7. ASSUME NEW k \in Kinds, db'[k] = "succeeded", db[k] # "succeeded"
      PROVE  op = Succ(k) /\ Succ(k) \in sent /\ Waiting(Succ(k))
    <2>1. op.type = Success /\ op.kind = k
        BY <1>2, <1>7 DEF Moves
    <2>2. op \in sent /\ Waiting(op)
        BY <1>3, <2>1 DEF EventTypes, Success
    <2>3. op = Succ(k)
        BY <1>6, <2>1, <2>2 DEF Captures
    <2> QED
        BY <2>2, <2>3
<1>8. ASSUME NEW k \in Kinds PROVE Captures(k)'
    <2>1. \A e \in sent' : e.type = Success /\ e.kind = k => e = Succ(k)
        BY <1>3, <1>6 DEF Captures, Success
    <2>2. Succ(k) \in sent' <=> stripe'[k].intent = "succeeded"
        BY <1>1, <1>3, <1>6, SuccIsNoRequest DEF Captures, Success
    <2>3. db'[k] = "succeeded" => Succ(k) \in sent'
        BY <1>3, <1>6, <1>7 DEF Captures
    <2>4. ASSUME Waiting(Succ(k))', db'[k] = "succeeded"
          PROVE  db'.gig \in Gone \cup {"completed"}
        <3>1. CASE op = Succ(k)
            <4>1. op \in sent /\ op.type = Success
                BY <1>3, <3>1, SuccIsNoRequest DEF EventTypes, Success
            <4>2. ~ok
                BY <1>3, <1>6, <2>4, <3>1, <4>1
            <4>3. ~o.ok
                BY <1>2, <4>1, <4>2
            <4>4. o.ok \in BOOLEAN /\ (~o.ok /\ op.type = Success => db.gig \in Gone \cup {"completed"})
                BY <1>2 DEF Effect
            <4> QED
                BY <1>2, <4>1, <4>3, <4>4 DEF Moves
        <3>2. CASE op # Succ(k)
            <4>1. Waiting(Succ(k)) /\ db[k] = "succeeded"
                BY <1>3, <1>7, <2>4, <3>2
            <4> QED
                BY <1>2, <1>6, <4>1 DEF Captures, Moves
        <3> QED
            BY <3>1, <3>2
    <2> QED
        BY <1>6, <2>1, <2>2, <2>3, <2>4 DEF Captures
\* a refund of everything that is applied
<1>9. ASSUME NEW k \in Kinds, FullDone(k)', ~FullDone(k)
      PROVE  db'[k] # "succeeded" /\ db'.entry # "live"
    <2>1. PICK e \in done' : Full(k, e)
        BY <1>9 DEF FullDone, Full
    <2>2. ok /\ e = op
        BY <1>3, <1>9, <2>1 DEF FullDone
    <2>3. Full(k, op) /\ op \in sent
        BY <1>3, <2>1, <2>2 DEF Full, EventTypes
    <2>4. db[k] # "none"
        BY <1>6, <2>3 DEF FullSent
    <2> QED
        BY <1>2, <2>2, <2>3, <2>4 DEF Effect
<1>10. ASSUME NEW k \in Kinds PROVE Refunds(k)'
    <2>1. Waiting(Succ(k))' /\ DOMAIN stripe'[k].made # {} => GigGone'
        BY <1>1, <1>3, <1>5, <1>6 DEF Refunds
    <2>2. ASSUME FullDone(k)', db'[k] = "succeeded" PROVE GigGone'
        <3>1. FullDone(k)
            BY <1>9, <2>2
        <3>2. CASE db[k] = "succeeded"
            BY <1>5, <1>6, <3>1, <3>2 DEF Refunds
        <3>3. CASE db[k] # "succeeded"
            BY <1>5, <1>6, <1>7, <2>2, <3>1, <3>3 DEF Refunds
        <3> QED
            BY <3>2, <3>3
    <2> QED
        BY <1>1, <1>6, <2>1, <2>2 DEF Refunds
<1>11. DisputesClose'
    <2>1. Disputed(db') => Disputed(db) \/ GigGone' \/ op.type = "refund.initiate"
        BY <1>2 DEF Moves, GigGone
    <2>2. op.type = "refund.initiate" => op \in sent
        BY <1>3 DEF EventTypes
    <2>3. o.send # {} => Disputed(db)
        BY <1>2 DEF Effect
    <2>4. Disputed(db) \/ (\E e \in sent : e.type = "refund.initiate") => GigGone
        BY DEF CleanInv, DisputesClose
    <2>5. Disputed(db') => GigGone'
        BY <1>5, <2>1, <2>2, <2>4
    <2>6. (\E e \in sent' : e.type = "refund.initiate") => GigGone'
        BY <1>3, <1>5, <2>3, <2>4
    <2> QED
        BY <2>5, <2>6 DEF DisputesClose, Disputed
<1>12. EarningsHaveMoney'
    <2> SUFFICES ASSUME db'.entry = "live"
                 PROVE  \E k \in Kinds : Succ(k) \in sent' /\ ~FullDone(k)'
        BY <1>6 DEF EarningsHaveMoney
    <2>1. CASE db.entry = "live"
        <3>1. PICK k \in Kinds : Succ(k) \in sent /\ ~FullDone(k)
            BY <2>1 DEF CleanInv, EarningsHaveMoney
        <3> QED
            BY <1>3, <1>9, <3>1
    <2>2. CASE db.entry # "live"
        <3>1. db'.gig = "completed" /\ Succeeded(db') # {}
            BY <1>2, <2>2 DEF Moves
        <3>2. PICK k \in Kinds : db'[k] = "succeeded"
            BY <3>1 DEF Succeeded
        <3>3. Succ(k) \in sent'
            BY <1>6, <1>8, <3>2 DEF Captures
        <3>4. ~FullDone(k)'
            BY <1>10, <3>1, <3>2 DEF Refunds, GigGone, Gone
        <3> QED
            BY <3>3, <3>4
    <2> QED
        BY <2>1, <2>2
<1>13. ~sess'[s].busy /\ \A t \in Sessions \ {s} : sess'[t] = sess[t]
    BY <1>1 DEF Idle
<1>14. Refunding(s)'
    BY <1>13 DEF Refunding
<1>15. \A t \in Sessions \ {s} : Refunding(t)'
    BY <1>3, <1>5, <1>13, RefundingStays DEF CleanInv
<1> QED
    BY <1>3, <1>8, <1>10, <1>11, <1>12, <1>14, <1>15 DEF CleanInv

LEMMA CleanStep ==
    ASSUME "charge.refunded" \in Notices
    PROVE  CleanInv /\ [Next]_vars /\ [FreshCommits]_vars => CleanInv'
<1> SUFFICES ASSUME CleanInv, [Next]_vars, [FreshCommits]_vars PROVE CleanInv'
    OBVIOUS
<1>0. TypeInv'
    BY TypeStep DEF CleanInv
<1>1. CASE UNCHANGED vars
    <2>1. UNCHANGED <<db, stripe, inbox, sent, done, dead, sess>>
        BY <1>1 DEF vars
    <2>2. /\ \A e : Waiting(e)' <=> Waiting(e)
          /\ \A e : \A t \in Sessions : Holds(t, e)' <=> Holds(t, e)
        BY <2>1 DEF Waiting, Holds
    <2>3. \A k \in Kinds : Captures(k)' /\ Refunds(k)'
        BY <2>1, <2>2, PaymentStays DEF CleanInv
    <2>4. \A s \in Sessions : Refunding(s)'
        BY <2>1, <2>2, RefundingStays DEF CleanInv, GigGone
    <2>5. Placed'
        BY <2>1, <2>2 DEF CleanInv, Placed
    <2>6. DisputesClose' /\ EarningsHaveMoney'
        BY <2>1 DEF CleanInv, DisputesClose, EarningsHaveMoney, GigGone, FullDone, Succ
    <2> QED
        BY <1>0, <2>3, <2>4, <2>5, <2>6 DEF CleanInv
<1>2. ASSUME NEW s \in Sessions, NEW op \in Request, BeginRequest(s, op) PROVE CleanInv'
    BY <1>0, <1>2, CleanBegin DEF BeginRequest
<1>3. ASSUME NEW s \in Sessions, NEW e \in inbox, BeginEvent(s, e) PROVE CleanInv'
    BY <1>0, <1>3, CleanBegin DEF BeginEvent
<1>4. ASSUME NEW s \in Sessions, CallStripe(s) \/ Crash(s) PROVE CleanInv'
    BY <1>0, <1>4, CleanCall, CleanCrash
<1>5. ASSUME NEW s \in Sessions, Commit(s) PROVE CleanInv'
    BY <1>0, <1>1, <1>5, CleanCommit DEF FreshCommits
<1>6. ASSUME NEW k \in Kinds, Pay(k) \/ Decline(k) \/ CancelIntent(k) \/ OpenChargeback(k)
      PROVE  CleanInv'
    BY <1>0, <1>6, CleanStripe DEF Pay, Decline, CancelIntent, OpenChargeback, EventTypes, Success
<1> QED
    BY <1>1, <1>2, <1>3, <1>4, <1>5, <1>6 DEF Next

LEMMA CleanIsEmpty == CleanInv => RefundedEarnsNothing
<1> SUFFICES ASSUME CleanInv, Quiet, \A k \in Kinds : Kept(k) = 0, db.entry = "live" PROVE FALSE
    BY DEF RefundedEarnsNothing
<1>1. PICK k \in Kinds : Succ(k) \in sent /\ ~FullDone(k)
    BY DEF CleanInv, EarningsHaveMoney
<1>2. stripe[k].intent = "succeeded"
    BY <1>1 DEF CleanInv, Captures
<1>3. stripe[k].refunded = Amount[k]
    <2>1. stripe[k].refunded \in Int /\ Amount[k] \in Int
        BY GigAssumption DEF CleanInv, TypeInv, StripeTyped
    <2> QED
        BY <1>2, <2>1 DEF Kept
<1>4. PICK e \in sent : Full(k, e)
    BY <1>3 DEF CleanInv, Refunds, FullSent
<1>5. ~Waiting(e) /\ e \notin dead
    BY DEF Quiet, Waiting, Holds
<1>6. e \in done
    BY <1>5 DEF CleanInv, Placed
<1> QED
    BY <1>1, <1>4, <1>6 DEF FullDone

\* A gig whose captured money was all refunded leaves the photographer nothing,
\* once every event was applied: however sessions and crashes interleave, as
\* long as a session commits on rows that are still as it read them, and Stripe
\* sends charge.refunded.
THEOREM RefundsLeaveNothing ==
    ASSUME "charge.refunded" \in Notices
    PROVE  Spec /\ [][FreshCommits]_vars => []RefundedEarnsNothing
<1>1. CleanInv /\ [Next]_vars /\ [FreshCommits]_vars => CleanInv'
    BY CleanStep
<1> QED
    BY <1>1, CleanInit, CleanIsEmpty, PTL DEF Spec

\* One request or task is at work on the gig at a time.
OneSession == \A s, t \in Sessions : s = t

\* What a lone session has read is what is there.
ReadsLast == \A s \in Sessions : sess[s].busy => sess[s].seen = db

LEMMA AloneReadsLast ==
    ASSUME OneSession
    PROVE  TypeInv /\ ReadsLast /\ [Next]_vars => ReadsLast' /\ [FreshCommits]_vars
<1> SUFFICES ASSUME TypeInv, ReadsLast, [Next]_vars PROVE ReadsLast' /\ [FreshCommits]_vars
    OBVIOUS
<1>0. DOMAIN sess = Sessions /\ \A s \in Sessions : Grounded(s)
    BY DEF TypeInv, LandInv, Shape
<1>1. FreshCommits
    BY DEF FreshCommits, ReadsLast, Commit
<1>2. ASSUME NEW s \in Sessions, NEW op, Begin(s, op), db' = db PROVE ReadsLast'
    BY <1>0, <1>2 DEF OneSession, Begin, ReadsLast
<1>3. ASSUME NEW s \in Sessions, CallStripe(s) PROVE ReadsLast'
    BY <1>0, <1>3 DEF OneSession, CallStripe, ReadsLast, Grounded
<1>4. ASSUME NEW s \in Sessions, Commit(s) \/ Crash(s) PROVE ReadsLast'
    BY <1>0, <1>4 DEF OneSession, Commit, Crash, ReadsLast, Idle
<1>5. ASSUME db' = db, sess' = sess PROVE ReadsLast'
    BY <1>5 DEF ReadsLast
<1>6. ReadsLast'
    BY <1>2, <1>3, <1>4, <1>5 DEF Next, BeginRequest, BeginEvent, Pay, Decline, CancelIntent,
                                  OpenChargeback, Notify, vars
<1> QED
    BY <1>1, <1>6

\* While one session runs at a time, whichever crash, a gig whose money was all
\* refunded leaves the photographer nothing once every event was applied.
THEOREM RefundsLeaveNothingAlone ==
    ASSUME OneSession, "charge.refunded" \in Notices
    PROVE  Spec => []RefundedEarnsNothing
<1>1. Init => ReadsLast
    BY DEF Init, ReadsLast, Idle
<1>2. TypeInv /\ ReadsLast /\ [Next]_vars => ReadsLast' /\ [FreshCommits]_vars
    BY AloneReadsLast
<1>3. CleanInv /\ [Next]_vars /\ [FreshCommits]_vars => CleanInv'
    BY CleanStep
<1> QED
    BY <1>1, <1>2, <1>3, TypeInit, TypeStep, CleanInit, CleanIsEmpty, PTL DEF Spec

----------------------------------------------------------------------------
(* What handlers make of refund cases *)

\* The columns of the cases of payment k.
Adm(k) == Column[k]["admin"]
Dis(k) == Column[k]["dispute"]
Notice(e) == e.type \in {"charge.refunded", "refund.succeeded"}

SameCases(d, e) == \A c \in CaseColumns : e[c] = d[c]

\* What a handler of op, which comes to o from the rows d, may make of the cases
\* of payment k: rows e.
AdminCase(op, d, o, e, k) ==
    \/ e[Adm(k)] = d[Adm(k)]
    \/ d[Adm(k)].known /\ Restated(d, e, Adm(k), "refunded")
    \/ /\ op.type = "admin_refund" /\ o.ref = "admin"
       /\ o.take[k] > 0 /\ e[Adm(k)].amount = o.take[k]
Closes(op, d, e, k) ==
    /\ Notice(op) /\ op.kind = k
    /\ d[Dis(k)].known \/ d[Dis(k)].status = "refund_initiated"
    /\ Restated(d, e, Dis(k), "refunded")
Initiates(op, d, o, e, k) ==
    /\ op.type = "refund.initiate" /\ op.kind = k
    /\ e[Dis(k)].status = "refund_initiated" /\ e[Dis(k)].amount = d[Dis(k)].amount
    /\ e[Dis(k)].known => d[Dis(k)].known \/ (o.ref = "dispute" /\ o.take[k] = d[Dis(k)].amount)
Asks(op, d, e, k) ==
    /\ op.type = "resolve_dispute" /\ Cases(d) = {}
    /\ e[Dis(k)].status = "pending" /\ ~e[Dis(k)].known /\ e[Dis(k)].amount > 0
DisputeCase(op, d, o, e, k) ==
    \/ e[Dis(k)] = d[Dis(k)]
    \/ Closes(op, d, e, k) \/ Initiates(op, d, o, e, k) \/ Asks(op, d, e, k)

Cased(op, d, o) ==
    /\ \A k \in Kinds : /\ AdminCase(op, d, o, o.db, k) /\ AdminCase(op, d, o, o.halfway, k)
                        /\ DisputeCase(op, d, o, o.db, k) /\ DisputeCase(op, d, o, o.halfway, k)
                        /\ o.halfway[Dis(k)].known => d[Dis(k)].known
    /\ o.ref = "dispute" => \A k \in Kinds :
           o.take[k] > 0 => op.type = "refund.initiate" /\ op.kind = k /\ o.take[k] = d[Dis(k)].amount
    /\ \A e \in o.send : e.kind \in Kinds /\ o.db[Dis(e.kind)].status # "none"

LEMMA CaseNames ==
    ASSUME NEW k \in Kinds
    PROVE  /\ Adm(k) \in CaseColumns /\ Dis(k) \in CaseColumns
           /\ \A j \in Kinds : /\ Adm(k) # Dis(j)
                               /\ Adm(k) = Adm(j) => k = j
                               /\ Dis(k) = Dis(j) => k = j
BY DEF Adm, Dis, Column, Kinds, CaseColumns

LEMMA WritesNoCase ==
    ASSUME NEW d, NEW e, NEW X, Writes(d, e, X), X \cap CaseColumns = {}
    PROVE  SameCases(d, e)
BY DEF Writes, SameCases, CaseColumns, RowColumns

LEMMA SameIsCased ==
    ASSUME NEW op, NEW d, NEW o, SameCases(d, o.db), SameCases(d, o.halfway),
           o.send = {}, o.ref # "dispute"
    PROVE  Cased(op, d, o)
BY CaseNames DEF SameCases, Cased, AdminCase, DisputeCase

LEMMA RowsAreCased ==
    ASSUME NEW op, NEW d, NEW e, SameCases(d, e)
    PROVE  /\ Cased(op, d, Outcome(e)) /\ Cased(op, d, Raised(e))
           /\ \A B : Cased(op, d, [Outcome(e) EXCEPT !.book = B])
<1>1. ASSUME NEW o, o.db = e, o.halfway = e, o.send = {}, o.ref = "none" PROVE Cased(op, d, o)
    BY <1>1, SameIsCased
<1>2. /\ Outcome(e).db = e /\ Outcome(e).halfway = e /\ Outcome(e).send = {} /\ Outcome(e).ref = "none"
      /\ Raised(e).db = e /\ Raised(e).halfway = e /\ Raised(e).send = {} /\ Raised(e).ref = "none"
    BY DEF Raised, Outcome
<1>3. ASSUME NEW B PROVE Cased(op, d, [Outcome(e) EXCEPT !.book = B])
    <2> DEFINE o == [Outcome(e) EXCEPT !.book = B]
    <2>1. o.db = e /\ o.halfway = e /\ o.send = {} /\ o.ref = "none"
        BY DEF Outcome
    <2> HIDE DEF o
    <2>2. Cased(op, d, o)
        BY <1>1, <2>1
    <2> QED
        BY <2>2 DEF o
<1>4. Cased(op, d, Outcome(e)) /\ Cased(op, d, Raised(e))
    BY <1>1, <1>2
<1> QED
    BY <1>3, <1>4

\* Payments that come in or end touch no case.
LEMMA PaymentIsCased ==
    ASSUME NEW op, NEW d \in DB, NEW k \in Kinds, NEW status
    PROVE  /\ Cased(op, d, PaymentSucceeded(d, k)) /\ Cased(op, d, Chargeback(d, k))
           /\ Cased(op, d, PaymentEnds(d, k, status))
<1>1. DOMAIN d = RowColumns
    BY RowsAreColumns
<1>2. k \in RowColumns /\ k \notin CaseColumns /\ ColumnType[k] = PaymentStatus
    BY DEF Kinds, RowColumns, CaseColumns, ColumnType
<1>3. SameCases(d, d)
    BY DEF SameCases
<1>4. ASSUME NEW v PROVE SameCases(d, [d EXCEPT ![k] = v])
    BY <1>1, <1>2 DEF SameCases, CaseColumns, RowColumns
<1>5. ASSUME NEW v, NEW g PROVE SameCases(d, [[d EXCEPT ![k] = v] EXCEPT !.gig = g])
    BY <1>1, <1>2 DEF SameCases, CaseColumns, RowColumns
<1>6. SameCases(d, Finalize([[d EXCEPT ![k] = "succeeded"] EXCEPT !.gig = "paid"]))
    <2> DEFINE e == [d EXCEPT ![k] = "succeeded"]
               f == [e EXCEPT !.gig = "paid"]
    <2>1. e \in DB
        BY <1>2, WriteColumn DEF PaymentStatus
    <2>2. f \in DB
        BY <2>1, WriteColumn DEF RowColumns, ColumnType, GigStatus
    <2>3. SameCases(d, f)
        BY <1>5
    <2> HIDE DEF f
    <2>4. Writes(f, Finalize(f), {"gig", "entry", "gross", "original", "delivered"})
        BY <2>2, FinalizeWrites
    <2>5. SameCases(f, Finalize(f))
        BY <2>4, WritesNoCase DEF CaseColumns
    <2>6. SameCases(d, Finalize(f))
        BY <2>3, <2>5 DEF SameCases
    <2> QED
        BY <2>6 DEF f
<1>7. Cased(op, d, PaymentEnds(d, k, status))
    BY <1>3, <1>4, RowsAreCased DEF PaymentEnds
<1>8. Cased(op, d, Chargeback(d, k))
    BY <1>3, <1>4, <1>5, RowsAreCased DEF Chargeback
<1>9. Cased(op, d, PaymentSucceeded(d, k))
    BY <1>3, <1>4, <1>5, <1>6, RowsAreCased DEF PaymentSucceeded
<1> QED
    BY <1>7, <1>8, <1>9

\* The rows e of the outcome o are both what it leaves and what a refusal leaves.
LEMMA OneRowCased ==
    ASSUME NEW op, NEW d, NEW o, NEW e, o.db = e, o.halfway = e, o.send = {}, o.ref # "dispute",
           \A k \in Kinds : /\ AdminCase(op, d, o, e, k) /\ DisputeCase(op, d, o, e, k)
                            /\ e[Dis(k)].known => d[Dis(k)].known
    PROVE  Cased(op, d, o)
BY DEF Cased

LEMMA AdminFinalized ==
    ASSUME NEW d \in DB, NEW k \in Kinds, NEW ref, NEW e, e = FinalizeAdminCase(d, k, ref)
    PROVE  /\ Writes(d, e, {Adm(k)})
           /\ e[Adm(k)] = d[Adm(k)] \/ (d[Adm(k)].known /\ Restated(d, e, Adm(k), "refunded"))
BY AdminCaseWrites DEF Adm

LEMMA RefundIsCased ==
    ASSUME NEW op, NEW d \in DB, Notice(op), op.kind \in Kinds, op.amount \in Nat
    PROVE  Cased(op, d, RefundSucceeded(d, op.kind, op.amount, op.ref))
<1> DEFINE k == op.kind
           f == [d EXCEPT ![k] = "refunded"]
           e == IF op.amount >= Amount[k] THEN Reverse(f) ELSE Adjust(d, op.amount)
           g == FinalizeAdminCase(e, k, op.ref)
           h == FinalizeDisputeCase(g, k, op.ref)
           B == {Op("refund_succeeded", k, op.amount, op.ref)}
           o == RefundSucceeded(d, k, op.amount, op.ref)
<1>1. o = Outcome(d) \/ o = [Outcome(h) EXCEPT !.book = B]
    BY DEF RefundSucceeded
<1>2. k \in RowColumns /\ k \notin CaseColumns /\ ColumnType[k] = PaymentStatus /\ k \in Kinds
    BY DEF Kinds, RowColumns, CaseColumns, ColumnType
<1> SUFFICES Cased(op, d, o)
    OBVIOUS
<1> HIDE DEF B, o, h, g
<1>3. SameCases(d, e) /\ e \in DB
    <2> HIDE DEF k
    <2>1. Writes(d, f, {k})
        BY <1>2, WriteColumn DEF Writes, PaymentStatus
    <2> HIDE DEF f
    <2>2. Writes(f, Reverse(f), {"entry"}) /\ Writes(d, Adjust(d, op.amount), {"returned", "gross"})
        BY <2>1, ReverseWrites, AdjustWrites DEF Writes
    <2>3. SameCases(d, f) /\ SameCases(f, Reverse(f)) /\ SameCases(d, Adjust(d, op.amount))
        BY <1>2, <2>1, <2>2, WritesNoCase DEF CaseColumns
    <2> QED
        BY <2>2, <2>3 DEF SameCases, Writes
<1> HIDE DEF e
<1>4. /\ Writes(e, g, {Adm(k)})
      /\ g[Adm(k)] = e[Adm(k)] \/ (e[Adm(k)].known /\ Restated(e, g, Adm(k), "refunded"))
    BY <1>2, <1>3, AdminFinalized DEF g
<1>5. \/ h = g
      \/ /\ Writes(g, h, {Dis(k), "dispute", "entry"})
         /\ Restated(g, h, Dis(k), "refunded")
         /\ g[Dis(k)].known \/ g[Dis(k)].status = "refund_initiated"
    <2>1. g \in DB
        BY <1>4 DEF Writes
    <2> QED
        BY <1>2, <2>1, DisputeCaseWrites DEF h, Dis
<1> HIDE DEF k
<1>6. /\ \A j \in Kinds : g[Dis(j)] = e[Dis(j)] /\ h[Adm(j)] = g[Adm(j)]
      /\ \A j \in Kinds \ {k} : g[Adm(j)] = e[Adm(j)] /\ h[Dis(j)] = g[Dis(j)]
    BY <1>2, <1>4, <1>5, CaseNames DEF Writes, CaseColumns, RowColumns
<1>7. \A j \in Kinds : e[Adm(j)] = d[Adm(j)] /\ e[Dis(j)] = d[Dis(j)]
    BY <1>3, CaseNames DEF SameCases
<1>8. ASSUME NEW p, NEW j \in Kinds PROVE AdminCase(op, d, p, h, j)
    BY <1>2, <1>4, <1>6, <1>7 DEF AdminCase, Restated
<1>9. ASSUME NEW p, NEW j \in Kinds
      PROVE  DisputeCase(op, d, p, h, j) /\ (h[Dis(j)].known => d[Dis(j)].known)
    BY <1>2, <1>5, <1>6, <1>7 DEF DisputeCase, Closes, Restated, k
<1>10. CASE o = [Outcome(h) EXCEPT !.book = B]
    <2>1. o.db = h /\ o.halfway = h /\ o.send = {} /\ o.ref = "none"
        BY <1>10 DEF Outcome
    <2> QED
        BY <1>8, <1>9, <2>1, OneRowCased
<1>11. CASE o = Outcome(d)
    BY <1>11, RowsAreCased DEF SameCases
<1> QED
    BY <1>1, <1>10, <1>11

LEMMA InitiateIsCased ==
    ASSUME NEW op, NEW d \in DB, op.type = "refund.initiate", op.kind \in Kinds
    PROVE  Cased(op, d, InitiateRefund(d, op.kind))
<1> DEFINE k == op.kind
           c == Column[k]["dispute"]
           e == [d EXCEPT ![c].status = "refund_initiated"]
           f == [e EXCEPT ![c].known = TRUE]
           take == [j \in Kinds |-> IF j = k THEN d[c].amount ELSE 0]
           o == InitiateRefund(d, k)
<1>1. o = Outcome(d) \/ o = [Outcome(f) EXCEPT !.halfway = e, !.ref = "dispute", !.take = take]
    BY DEF InitiateRefund
<1>0. c \in CaseColumns
    BY CaseIsCase
<1>2. c \in CaseColumns /\ c = Dis(k)
    BY <1>0 DEF Dis
<1>3. \A j \in Kinds : take[j] = IF j = k THEN d[c].amount ELSE 0
    OBVIOUS
<1> SUFFICES Cased(op, d, o)
    OBVIOUS
<1> HIDE DEF o, c, take, k
<1>4. Writes(d, e, {c}) /\ Restated(d, e, c, "refund_initiated")
    BY <1>0, StatusWrites DEF Restated
<1> HIDE DEF e
<1>5. /\ Writes(e, f, {c}) /\ f[c].status = e[c].status /\ f[c].amount = e[c].amount
    BY <1>2, <1>4, KnownWrites DEF Writes
<1> HIDE DEF f
<1>6. /\ \A j \in Kinds : e[Adm(j)] = d[Adm(j)] /\ f[Adm(j)] = d[Adm(j)]
      /\ \A j \in Kinds \ {k} : e[Dis(j)] = d[Dis(j)] /\ f[Dis(j)] = d[Dis(j)]
    BY <1>2, <1>4, <1>5, CaseNames DEF Writes, CaseColumns, RowColumns, k
<1>7. CASE o = [Outcome(f) EXCEPT !.halfway = e, !.ref = "dispute", !.take = take]
    <2>1. o.db = f /\ o.halfway = e /\ o.send = {} /\ o.ref = "dispute" /\ o.take = take
        BY <1>7 DEF Outcome
    <2>2. ASSUME NEW j \in Kinds
          PROVE  /\ DisputeCase(op, d, o, f, j) /\ DisputeCase(op, d, o, e, j)
                 /\ e[Dis(j)].known => d[Dis(j)].known
                 /\ AdminCase(op, d, o, e, j) /\ AdminCase(op, d, o, f, j)
        <3>1. AdminCase(op, d, o, e, j) /\ AdminCase(op, d, o, f, j)
            BY <1>6 DEF AdminCase
        <3>2. CASE j = k
            BY <1>2, <1>3, <1>4, <1>5, <2>1, <3>1, <3>2 DEF DisputeCase, Initiates, Restated, k
        <3>3. CASE j # k
            BY <1>6, <3>1, <3>3 DEF DisputeCase
        <3> QED
            BY <3>2, <3>3
    <2>3. \A j \in Kinds : o.take[j] > 0 => op.kind = j /\ o.take[j] = d[Dis(j)].amount
        BY <1>2, <1>3, <2>1 DEF k
    <2> QED
        BY <2>1, <2>2, <2>3 DEF Cased
<1>8. CASE o = Outcome(d)
    BY <1>8, RowsAreCased DEF SameCases
<1> QED
    BY <1>1, <1>7, <1>8

\* Writing a column that holds no case, or anything that follows from it.
LEMMA PlainIsSame ==
    ASSUME NEW d, DOMAIN d = RowColumns, NEW c \in RowColumns \ CaseColumns, NEW v
    PROVE  SameCases(d, [d EXCEPT ![c] = v]) /\ DOMAIN [d EXCEPT ![c] = v] = RowColumns
BY DEF SameCases, CaseColumns, RowColumns

\* Requests that touch no case.
LEMMA PlainRequestIsCased ==
    ASSUME NEW op, NEW d \in DB, NEW v
    PROVE  /\ Cased(op, d, Submit(d)) /\ Cased(op, d, CreateIntent(d))
           /\ Cased(op, d, ClientRefund(d)) /\ Cased(op, d, OpenDispute(d))
           /\ Cased(op, d, AdminComplete(d))
           /\ Cased(op, d, Outcome([d EXCEPT !.dispute = v]))
           /\ Cased(op, d, Outcome([d EXCEPT !.gig = v]))
<1>1. DOMAIN d = RowColumns
    BY RowsAreColumns
<1>2. Cased(op, d, Submit(d))
    <2> DEFINE e == [d EXCEPT !.selection = "submitted"]
               h == [e EXCEPT !.owed = TRUE, !.difference = "pending",
                              !.oldest = IF d.base = "none" THEN "difference" ELSE @]
    <2>1. e \in DB
        BY WriteColumn DEF RowColumns, ColumnType
    <2>2. SameCases(d, e) /\ SameCases(d, h)
        BY <1>1 DEF SameCases, CaseColumns, RowColumns
    <2>3. Submit(d) = IF d.dear THEN Outcome(h) ELSE Outcome(Finalize(e))
        BY DEF Submit
    <2> HIDE DEF e, h
    <2>4. Writes(e, Finalize(e), {"gig", "entry", "gross", "original", "delivered"})
        BY <2>1, FinalizeWrites
    <2>5. SameCases(e, Finalize(e))
        BY <2>4, WritesNoCase DEF CaseColumns
    <2>6. SameCases(d, Finalize(e))
        BY <2>2, <2>5 DEF SameCases
    <2> QED
        BY <2>2, <2>3, <2>6, RowsAreCased
<1>3. Cased(op, d, CreateIntent(d))
    <2> DEFINE w == IF d.difference = "none" THEN "base" ELSE d.oldest
               e == [d EXCEPT !.base = "pending", !.oldest = w]
    <2>1. CreateIntent(d) = Outcome(e)
        BY DEF CreateIntent
    <2>2. SameCases(d, e)
        BY <1>1 DEF SameCases, CaseColumns, RowColumns
    <2> QED
        BY <2>1, <2>2, RowsAreCased
<1>4. Cased(op, d, ClientRefund(d))
    <2> DEFINE o == ClientRefund(d)
    <2>1. o.db = d /\ o.halfway = d /\ o.send = {} /\ o.ref = "client"
        BY DEF ClientRefund, Outcome
    <2> HIDE DEF o
    <2>2. Cased(op, d, o)
        BY <2>1, SameIsCased DEF SameCases
    <2> QED
        BY <2>2 DEF o
<1>5. Cased(op, d, OpenDispute(d))
    <2> DEFINE e == [d EXCEPT !.dispute = "open", !.gig = "disputed"]
    <2>1. SameCases(d, e)
        BY <1>1 DEF SameCases, CaseColumns, RowColumns
    <2> QED
        BY <2>1, RowsAreCased DEF OpenDispute
<1>6. Cased(op, d, AdminComplete(d))
    <2>1. Writes(d, Complete(d), {"gig", "entry", "gross", "original"})
        BY CompleteWrites
    <2>2. SameCases(d, Complete(d))
        BY <2>1, WritesNoCase DEF CaseColumns
    <2> QED
        BY <2>2, RowsAreCased DEF AdminComplete
<1>7. /\ SameCases(d, [d EXCEPT !.dispute = v]) /\ SameCases(d, [d EXCEPT !.gig = v])
    BY <1>1, PlainIsSame DEF RowColumns, CaseColumns
<1>8. /\ Cased(op, d, Outcome([d EXCEPT !.dispute = v]))
      /\ Cased(op, d, Outcome([d EXCEPT !.gig = v]))
    BY <1>7, RowsAreCased
<1> QED
    BY <1>2, <1>3, <1>4, <1>5, <1>6, <1>8

LEMMA AdminRefundIsCased ==
    ASSUME NEW op, NEW d \in DB, op.type = "admin_refund", op.amount \in Nat
    PROVE  Cased(op, d, AdminRefund(d, op.amount))
<1> DEFINE take == Allocate(d, op.amount)
           CaseOf(k) == IF take[k] > 0
                           THEN [status |-> "processing", amount |-> take[k],
                                 authorized |-> 0, known |-> TRUE]
                           ELSE d[Column[k]["admin"]]
           ba == CaseOf("base")
           da == CaseOf("difference")
           v == IF take["base"] > 0 THEN "pending" ELSE d.base
           w == IF take["difference"] > 0 THEN "pending" ELSE d.difference
           h == [d EXCEPT !.base_admin = ba, !.difference_admin = da, !.base = v, !.difference = w]
           o == AdminRefund(d, op.amount)
<1>1. /\ o.db = h /\ o.halfway = h /\ o.ref = "admin" /\ o.take = take /\ o.send = {}
    BY DEF AdminRefund, Outcome
<1>2. DOMAIN d = RowColumns
    BY RowsAreColumns
<1> HIDE DEF o, take, CaseOf
<1>3. \A k \in Kinds : h[Adm(k)] = CaseOf(k) /\ h[Dis(k)] = d[Dis(k)]
    <2>1. ba = CaseOf("base") /\ da = CaseOf("difference")
        OBVIOUS
    <2> HIDE DEF ba, da, v, w
    <2>2. /\ h["base_admin"] = ba /\ h["difference_admin"] = da
          /\ h["base_dispute"] = d["base_dispute"] /\ h["difference_dispute"] = d["difference_dispute"]
        BY <1>2 DEF RowColumns
    <2> HIDE DEF h
    <2>3. h[Adm("base")] = CaseOf("base") /\ h[Dis("base")] = d[Dis("base")]
        BY <2>1, <2>2 DEF Adm, Dis, Column
    <2>4. h[Adm("difference")] = CaseOf("difference") /\ h[Dis("difference")] = d[Dis("difference")]
        BY <2>1, <2>2 DEF Adm, Dis, Column
    <2> QED
        BY <2>3, <2>4 DEF Kinds
<1> HIDE DEF h
<1>4. \A k \in Kinds : \/ h[Adm(k)] = d[Adm(k)]
                       \/ take[k] > 0 /\ h[Adm(k)].amount = take[k]
    <2>1. ASSUME NEW k \in Kinds
          PROVE  \/ CaseOf(k) = d[Adm(k)]
                 \/ take[k] > 0 /\ CaseOf(k).amount = take[k]
        BY DEF CaseOf, Adm
    <2> QED
        BY <1>3, <2>1
<1>5. \A k \in Kinds : /\ AdminCase(op, d, o, h, k) /\ DisputeCase(op, d, o, h, k)
                       /\ h[Dis(k)].known => d[Dis(k)].known
    BY <1>1, <1>3, <1>4 DEF AdminCase, DisputeCase
<1>6. Cased(op, d, o)
    BY <1>1, <1>5, OneRowCased
<1> QED
    BY <1>6 DEF o

LEMMA ResolveIsCased ==
    ASSUME NEW op, NEW d \in DB, op.type = "resolve_dispute", op.amount \in Nat
    PROVE  Cased(op, d, ResolveDispute(d, op.amount))
<1> DEFINE all == Total(Succeeded(d))
           take == Allocate(d, op.amount)
           Asked(k) == IF Cases(d) = {} /\ take[k] > 0 THEN NewCase(take[k], all)
                       ELSE d[Column[k]["dispute"]]
           v == IF op.amount = 0 THEN "resolved_no_refund"
                ELSE IF op.amount < all THEN "resolved_partial_refund" ELSE "resolved_refund"
           bd == Asked("base")
           dd == Asked("difference")
           e == [d EXCEPT !.dispute = v]
           g == [e EXCEPT !.base_dispute = bd, !.difference_dispute = dd]
           S == {Op("refund.initiate", k, 0, "none") : k \in Cases(g)}
           o == ResolveDispute(d, op.amount)
<1>1. o = Outcome(e) \/ o = [Outcome(g) EXCEPT !.send = S]
    BY DEF ResolveDispute
<1>2. DOMAIN d = RowColumns
    BY RowsAreColumns
<1>3. SameCases(d, e) /\ DOMAIN e = RowColumns
    BY <1>2, PlainIsSame DEF RowColumns, CaseColumns
<1> SUFFICES Cased(op, d, o)
    OBVIOUS
<1> HIDE DEF o, v, Asked, S, e
<1>4. \A k \in Kinds : g[Dis(k)] = Asked(k) /\ g[Adm(k)] = e[Adm(k)]
    <2>1. bd = Asked("base") /\ dd = Asked("difference")
        OBVIOUS
    <2> HIDE DEF bd, dd
    <2>2. /\ g["base_dispute"] = bd /\ g["difference_dispute"] = dd
          /\ g["base_admin"] = e["base_admin"] /\ g["difference_admin"] = e["difference_admin"]
        BY <1>3 DEF RowColumns
    <2> HIDE DEF g
    <2>3. g[Dis("base")] = Asked("base") /\ g[Adm("base")] = e[Adm("base")]
        BY <2>1, <2>2 DEF Adm, Dis, Column
    <2>4. g[Dis("difference")] = Asked("difference") /\ g[Adm("difference")] = e[Adm("difference")]
        BY <2>1, <2>2 DEF Adm, Dis, Column
    <2> QED
        BY <2>3, <2>4 DEF Kinds
<1>5. \A k \in Kinds : e[Adm(k)] = d[Adm(k)]
    BY <1>3, CaseNames DEF SameCases
<1>6. \A r \in S : r.kind \in Kinds /\ g[Dis(r.kind)].status # "none"
    BY DEF S, Cases, Op, Dis
<1> HIDE DEF g, take
<1>7. ASSUME NEW k \in Kinds
      PROVE  \/ g[Dis(k)] = d[Dis(k)]
             \/ /\ Cases(d) = {} /\ take[k] > 0 /\ g[Dis(k)].status = "pending"
                /\ g[Dis(k)].amount = take[k] /\ g[Dis(k)].known = FALSE
    <2>1. \/ Asked(k) = d[Dis(k)]
          \/ Cases(d) = {} /\ take[k] > 0 /\ Asked(k) = NewCase(take[k], all)
        BY DEF Asked, Dis
    <2>2. /\ NewCase(take[k], all).status = "pending"
          /\ NewCase(take[k], all).amount = take[k] /\ NewCase(take[k], all).known = FALSE
        BY DEF NewCase
    <2> QED
        BY <1>4, <2>1, <2>2
<1>8. ASSUME NEW p, NEW k \in Kinds
      PROVE  AdminCase(op, d, p, g, k) /\ DisputeCase(op, d, p, g, k)
             /\ (g[Dis(k)].known => d[Dis(k)].known)
    BY <1>4, <1>5, <1>7 DEF AdminCase, DisputeCase, Asks
<1>9. CASE o = [Outcome(g) EXCEPT !.send = S]
    <2>1. o.db = g /\ o.halfway = g /\ o.send = S /\ o.ref = "none"
        BY <1>9 DEF Outcome
    <2> QED
        BY <1>6, <1>8, <2>1 DEF Cased
<1>10. CASE o = Outcome(e)
    BY <1>3, <1>10, RowsAreCased
<1> QED
    BY <1>1, <1>9, <1>10

\* Every handler, from rows its request was accepted on.
LEMMA HandleIsCased ==
    ASSUME NEW op, NEW d \in DB, op \in Request \/ (IsEvent(op) /\ op.amount \in Nat)
    PROVE  Cased(op, d, Handle(op, d))
<1>1. CASE IsEvent(op) /\ op.amount \in Nat
    <2>1. op.kind \in Kinds /\ op.type \in EventTypes
        BY <1>1 DEF IsEvent
    <2>2. /\ Cased(op, d, PaymentSucceeded(d, op.kind)) /\ Cased(op, d, Chargeback(d, op.kind))
          /\ Cased(op, d, PaymentEnds(d, op.kind, "failed"))
          /\ Cased(op, d, PaymentEnds(d, op.kind, "cancelled"))
          /\ op.type = "refund.initiate" => Cased(op, d, InitiateRefund(d, op.kind))
        BY <2>1, PaymentIsCased, InitiateIsCased
    <2>3. op.type \in {"charge.refunded", "refund.succeeded"} =>
              Cased(op, d, RefundSucceeded(d, op.kind, op.amount, op.ref))
        BY <1>1, <2>1, RefundIsCased DEF Notice
    <2> QED
        BY <2>1, <2>2, <2>3 DEF EventTypes, Handle
<1>2. CASE op \in Request
    <2>1. /\ op.type \in {"create_intent", "submit", "client_refund", "open_dispute",
                          "cancel_dispute", "admin_complete", "admin_refund",
                          "resolve_dispute", "admin_set"}
          /\ op.amount \in Nat
        BY <1>2, RequestIsTyped
    <2>2. /\ op.type = "admin_refund" => Cased(op, d, AdminRefund(d, op.amount))
          /\ op.type = "resolve_dispute" => Cased(op, d, ResolveDispute(d, op.amount))
        BY <2>1, AdminRefundIsCased, ResolveIsCased
    <2>3. /\ Cased(op, d, Submit(d)) /\ Cased(op, d, CreateIntent(d))
          /\ Cased(op, d, ClientRefund(d)) /\ Cased(op, d, OpenDispute(d))
          /\ Cased(op, d, AdminComplete(d))
          /\ Cased(op, d, Outcome([d EXCEPT !.dispute = "cancelled"]))
          /\ Cased(op, d, Outcome([d EXCEPT !.gig = op.ref]))
        BY PlainRequestIsCased
    <2> QED
        BY <2>1, <2>2, <2>3 DEF Handle
<1> QED
    BY <1>1, <1>2

----------------------------------------------------------------------------
(* A case is closed by its own refund *)

\* The refund a case stands for was made at Stripe, for the amount of the case.
BackedBy(k, by, c) == by \in DOMAIN stripe[k].made /\ stripe[k].made[by] = c.amount

\* A session that has its answer asked for refunds that were made.
Answered(s) ==
    sess[s].busy /\ sess[s].answer \notin {"none", "refused"} =>
        \A k \in Kinds : Running(s).take[k] > 0 /\ Running(s).ref # "client" =>
            /\ Running(s).ref \in DOMAIN stripe[k].made
            /\ stripe[k].made[Running(s).ref] = Running(s).take[k]

LEMMA RunningIsCased ==
    ASSUME TypeInv, NEW s \in Sessions, sess[s].busy
    PROVE  Cased(sess[s].op, sess[s].seen, Running(s))
<1> DEFINE op == sess[s].op
           seen == sess[s].seen
<1>1. /\ Grounded(s) /\ Reading(s)
      /\ \A e \in sent : IsEvent(e) /\ e.amount \in Nat
    BY DEF TypeInv, LandInv, Shape, Stored
<1>2. seen \in DB /\ (op \in Request \/ (IsEvent(op) /\ op.amount \in Nat))
    BY <1>1 DEF Grounded, Reading
<1> HIDE DEF op, seen
<1>3. Cased(op, seen, Handle(op, seen))
    BY <1>2, HandleIsCased
<1> QED
    BY <1>3 DEF Running, op, seen

\* Refunds that were made stay made, and a call adds none but its own.
LEMMA MadeStays ==
    ASSUME TypeInv, NEW s \in Sessions, CallStripe(s), NEW k \in Kinds
    PROVE  /\ \A r \in DOMAIN stripe[k].made :
                  r \in DOMAIN stripe'[k].made /\ stripe'[k].made[r] = stripe[k].made[r]
           /\ \A r \in DOMAIN stripe'[k].made : r \notin DOMAIN stripe[k].made =>
                  /\ Paying(s, k) /\ r = Running(s).ref /\ Running(s).take[k] > 0
                  /\ r # "client" => stripe'[k].made[r] = Running(s).take[k]
           /\ Paying(s, k) => Running(s).ref \in DOMAIN stripe'[k].made
<1> DEFINE o == Running(s)
           w == Wanted(o, k)
<1>1. /\ ~Paying(s, k) => stripe'[k] = stripe[k]
      /\ Paying(s, k) => /\ o.take[k] > 0 /\ o.ref \notin DOMAIN stripe[k].made
                         /\ o.ref # "client" => w = o.take[k]
                         /\ stripe'[k].made = With(stripe[k].made, o.ref, w)
    BY CallMakes DEF Repeats
<1> HIDE DEF o, w
<1>2. CASE ~Paying(s, k)
    BY <1>1, <1>2
<1>3. CASE Paying(s, k)
    <2>1. /\ DOMAIN stripe'[k].made = DOMAIN stripe[k].made \cup {o.ref}
          /\ \A r \in DOMAIN stripe'[k].made :
                 stripe'[k].made[r] = IF r = o.ref THEN w ELSE stripe[k].made[r]
        BY <1>1, <1>3 DEF With
    <2> QED
        BY <1>1, <1>3, <2>1 DEF o
<1> QED
    BY <1>2, <1>3

LEMMA CallAnswers ==
    ASSUME TypeInv, NEW s \in Sessions, CallStripe(s)
    PROVE  Answered(s)'
<1> DEFINE o == Running(s)
           oldest == sess[s].seen.oldest
<1>1. /\ sess[s].busy /\ DOMAIN sess = Sessions /\ Grounded(s)
      /\ sess' = [sess EXCEPT ![s].answer = IF \E k \in Kinds : Refuses(o, k) THEN "refused" ELSE "made"]
    BY DEF CallStripe, TypeInv, LandInv, Shape
<1>2. DOMAIN sess[s] = {"busy", "op", "seen", "answer"}
    BY <1>1 DEF Grounded
<1>3. /\ sess'[s].op = sess[s].op /\ sess'[s].seen = sess[s].seen
      /\ sess'[s].answer # "refused" => \A k \in Kinds : ~Refuses(o, k)
    BY <1>1, <1>2
<1>4. Running(s)' = o
    BY <1>3 DEF Running
<1>5. oldest \in Kinds
    BY <1>1, RunningEffect, RowsAreColumns DEF RowColumns, ColumnType
<1>6. ASSUME NEW k \in Kinds, o.take[k] > 0, o.ref # "client", \A j \in Kinds : ~Refuses(o, j)
      PROVE  o.ref \in DOMAIN stripe'[k].made /\ stripe'[k].made[o.ref] = o.take[k]
    <2>1. CASE o.ref \in DOMAIN stripe[k].made
        <3>1. stripe[k].made[o.ref] = o.take[k]
            BY <1>6, <2>1 DEF Refuses, Repeats
        <3> QED
            BY <2>1, <3>1, MadeStays
    <2>2. CASE o.ref \notin DOMAIN stripe[k].made
        <3>1. Paying(s, k)
            BY <1>5, <1>6, <2>2 DEF Paying, RefundMade, Reached, Repeats
        <3> QED
            BY <1>6, <2>2, <3>1, MadeStays
    <2> QED
        BY <2>1, <2>2
<1> QED
    BY <1>3, <1>4, <1>6 DEF Answered

LEMMA AnsweredStays ==
    ASSUME NEW s \in Sessions, Answered(s), sess'[s] = sess[s],
           \A k \in Kinds : \A r \in DOMAIN stripe[k].made :
               r \in DOMAIN stripe'[k].made /\ stripe'[k].made[r] = stripe[k].made[r]
    PROVE  Answered(s)'
<1>1. Running(s)' = Running(s)
    BY DEF Running
<1> QED
    BY <1>1 DEF Answered

LEMMA MergeCases ==
    ASSUME NEW seen, NEW new, NEW cur, DOMAIN cur = RowColumns, NEW c \in CaseColumns
    PROVE  Merge(seen, new, cur)[c] = IF new[c] # seen[c] THEN new[c] ELSE cur[c]
<1> DEFINE m == [x \in DOMAIN cur |-> IF new[x] # seen[x] THEN new[x] ELSE cur[x]]
           n == [m EXCEPT !.entry = cur.entry, !.gross = cur.gross,
                          !.original = cur.original, !.returned = cur.returned]
<1>1. DOMAIN m = RowColumns /\ m[c] = IF new[c] # seen[c] THEN new[c] ELSE cur[c]
    BY DEF CaseColumns, RowColumns
<1> HIDE DEF m
<1>2. n[c] = m[c]
    BY <1>1 DEF CaseColumns, RowColumns
<1>3. Merge(seen, new, cur) = m \/ Merge(seen, new, cur) = n
    BY DEF Merge, m
<1> QED
    BY <1>1, <1>2, <1>3

\* What a commit makes of the cases: nothing, or what the handler made of those
\* it read.
LEMMA CommitCases ==
    ASSUME TypeInv, NEW s \in Sessions, Commit(s)
    PROVE  LET op == sess[s].op
               seen == sess[s].seen
               o == Running(s)
               From(new) == \A c \in CaseColumns : db'[c] = IF new[c] # seen[c] THEN new[c] ELSE db[c]
           IN  /\ \/ \A c \in CaseColumns : db'[c] = db[c]
                  \/ From(o.halfway) /\ sess[s].answer = "refused" /\ op.type \in EventTypes
                  \/ From(o.db) /\ sess[s].answer # "refused"
               /\ o.ok /\ sess[s].answer # "refused" => From(o.db)
               /\ op.type \in EventTypes /\ sess[s].answer = "refused" => From(o.halfway)
<1> DEFINE seen == sess[s].seen
           o == Running(s)
           refused == sess[s].answer = "refused"
           new == IF refused THEN o.halfway ELSE o.db
           written == (o.ok /\ ~refused) \/ sess[s].op.type \in EventTypes
<1>1. /\ db' = IF written THEN Merge(seen, new, db) ELSE db
      /\ DOMAIN db = RowColumns
    BY DEF Commit, TypeInv, LandInv, Shape
<1>2. written => \A c \in CaseColumns : db'[c] = IF new[c] # seen[c] THEN new[c] ELSE db[c]
    BY <1>1, MergeCases
<1>3. /\ o.ok /\ ~refused => written
      /\ sess[s].op.type \in EventTypes => written
    OBVIOUS
<1>4. /\ ~written => db' = db
      /\ refused /\ written => sess[s].op.type \in EventTypes
    BY <1>1
<1> HIDE DEF o, seen, written
<1> QED
    BY <1>2, <1>3, <1>4 DEF o, seen

\* The rows d say of an admin's refund that Stripe has it only when it was made.
AdminBacked(d) ==
    \A k \in Kinds : d[Adm(k)].known \/ d[Adm(k)].status = "refunded" => BackedBy(k, "admin", d[Adm(k)])

AdminInv ==
    /\ TypeInv
    /\ AdminBacked(db)
    /\ \A s \in Sessions : /\ sess[s].busy => AdminBacked(sess[s].seen)
                           /\ Answered(s)

\* Refunds that were made stay made.
MadeGrows ==
    \A k \in Kinds : \A r \in DOMAIN stripe[k].made :
        r \in DOMAIN stripe'[k].made /\ stripe'[k].made[r] = stripe[k].made[r]

LEMMA SameStripe == stripe' = stripe => MadeGrows
BY DEF MadeGrows

\* What rows say of refunds that were made stays so.
LEMMA AdminBackedStays ==
    ASSUME MadeGrows
    PROVE  /\ AdminBacked(db) /\ db' = db => AdminBacked(db)'
           /\ \A s \in Sessions : AdminBacked(sess[s].seen) /\ sess'[s].seen = sess[s].seen
                  => AdminBacked(sess[s].seen)'
           /\ \A s \in Sessions : AdminBacked(db) /\ sess'[s].seen = db
                  => AdminBacked(sess[s].seen)'
BY DEF MadeGrows, AdminBacked, BackedBy

LEMMA AdminCommit ==
    ASSUME AdminInv, NEW s \in Sessions, Commit(s)
    PROVE  AdminBacked(db)'
<1> DEFINE op == sess[s].op
           seen == sess[s].seen
           o == Running(s)
<1>1. sess[s].busy /\ (CallsStripe(o) => sess[s].answer # "none") /\ stripe' = stripe
    BY DEF Commit
<1>2. Cased(op, seen, o) /\ AdminBacked(seen) /\ AdminBacked(db) /\ Answered(s)
    BY <1>1, RunningIsCased DEF AdminInv
<1>3. \/ \A c \in CaseColumns : db'[c] = db[c]
      \/ /\ sess[s].answer = "refused" /\ op.type \in EventTypes
         /\ \A c \in CaseColumns : db'[c] = IF o.halfway[c] # seen[c] THEN o.halfway[c] ELSE db[c]
      \/ /\ sess[s].answer # "refused"
         /\ \A c \in CaseColumns : db'[c] = IF o.db[c] # seen[c] THEN o.db[c] ELSE db[c]
    BY CommitCases DEF AdminInv
<1>4. op.type = "admin_refund" => op.type \notin EventTypes
    BY DEF EventTypes
<1>5. ASSUME NEW k \in Kinds
      PROVE  \/ db'[Adm(k)] = db[Adm(k)]
             \/ seen[Adm(k)].known /\ db'[Adm(k)].amount = seen[Adm(k)].amount
             \/ /\ sess[s].answer # "refused" /\ o.ref = "admin" /\ o.take[k] > 0
                /\ db'[Adm(k)].amount = o.take[k]
    <2>1. Adm(k) \in CaseColumns
        BY CaseNames
    <2>2. AdminCase(op, seen, o, o.db, k) /\ AdminCase(op, seen, o, o.halfway, k)
        BY <1>2 DEF Cased
    <2> HIDE DEF o, seen, op
    <2> QED
        BY <1>3, <1>4, <2>1, <2>2 DEF AdminCase, Restated
<1>6. ASSUME NEW k \in Kinds, db'[Adm(k)] # db[Adm(k)]
      PROVE  "admin" \in DOMAIN stripe[k].made /\ stripe[k].made["admin"] = db'[Adm(k)].amount
    <2>1. CASE seen[Adm(k)].known /\ db'[Adm(k)].amount = seen[Adm(k)].amount
        BY <1>2, <2>1 DEF AdminBacked, BackedBy
    <2>2. CASE /\ sess[s].answer # "refused" /\ o.ref = "admin" /\ o.take[k] > 0
               /\ db'[Adm(k)].amount = o.take[k]
        <3>1. CallsStripe(o)
            BY <2>2 DEF CallsStripe
        <3> QED
            BY <1>1, <1>2, <2>2, <3>1 DEF Answered
    <2> QED
        BY <1>5, <1>6, <2>1, <2>2
<1> QED
    BY <1>1, <1>2, <1>6 DEF AdminBacked, BackedBy

LEMMA AdminStep == AdminInv /\ [Next]_vars => AdminInv'
<1> SUFFICES ASSUME AdminInv, [Next]_vars PROVE AdminInv'
    OBVIOUS
<1>0. TypeInv /\ DOMAIN sess = Sessions /\ TypeInv'
    BY TypeStep DEF AdminInv, TypeInv, LandInv, Shape
<1>1. ASSUME UNCHANGED <<db, sess>>, MadeGrows
      PROVE  AdminInv'
    <2>1. \A s \in Sessions : (sess[s].busy => AdminBacked(sess[s].seen)')
        BY <1>1, AdminBackedStays DEF AdminInv
    <2>2. \A s \in Sessions : Answered(s)'
        BY <1>1, AnsweredStays DEF MadeGrows, AdminInv
    <2> QED
        BY <1>0, <1>1, <2>1, <2>2, AdminBackedStays DEF AdminInv
<1>2. ASSUME NEW s \in Sessions, NEW v, sess' = [sess EXCEPT ![s] = v],
             v.busy => AdminBacked(db) /\ v.seen = db /\ v.answer = "none",
             AdminBacked(db)', UNCHANGED stripe, v.busy => db' = db
      PROVE  AdminInv'
    <2>0. MadeGrows /\ sess'[s] = v /\ \A t \in Sessions \ {s} : sess'[t] = sess[t]
        BY <1>0, <1>2, SameStripe
    <2>1. \A t \in Sessions \ {s} : (sess[t].busy => AdminBacked(sess[t].seen)') /\ Answered(t)'
        BY <2>0, AdminBackedStays, AnsweredStays DEF MadeGrows, AdminInv
    <2>2. (v.busy => AdminBacked(sess[s].seen)') /\ Answered(s)'
        BY <1>2, <2>0, AdminBackedStays DEF Answered
    <2> QED
        BY <1>0, <1>2, <2>0, <2>1, <2>2 DEF AdminInv
<1>3. ASSUME NEW s \in Sessions, NEW op, Begin(s, op), UNCHANGED <<db, stripe>> PROVE AdminInv'
    <2> DEFINE v == [busy |-> TRUE, op |-> op, seen |-> db, answer |-> "none"]
    <2>1. sess' = [sess EXCEPT ![s] = v] /\ v.seen = db /\ v.answer = "none"
        BY <1>3 DEF Begin
    <2>2. AdminBacked(db)'
        BY <1>3, SameStripe, AdminBackedStays DEF AdminInv
    <2> HIDE DEF v
    <2> QED
        BY <1>2, <1>3, <2>1, <2>2 DEF AdminInv
<1>4. ASSUME NEW s \in Sessions, CallStripe(s) PROVE AdminInv'
    <2>1. MadeGrows
        BY <1>0, <1>4, MadeStays DEF MadeGrows
    <2>2. /\ db' = db /\ \A t \in Sessions \ {s} : sess'[t] = sess[t]
          /\ sess'[s].seen = sess[s].seen /\ sess[s].busy
        BY <1>0, <1>4 DEF CallStripe, TypeInv, LandInv, Grounded
    <2>3. Answered(s)' /\ \A t \in Sessions \ {s} : Answered(t)'
        BY <1>0, <1>4, <2>1, <2>2, CallAnswers, AnsweredStays DEF MadeGrows, AdminInv
    <2>4. AdminBacked(db)' /\ \A t \in Sessions : (sess[t].busy => AdminBacked(sess[t].seen)')
        BY <2>1, <2>2, AdminBackedStays DEF AdminInv
    <2> QED
        BY <1>0, <2>2, <2>3, <2>4 DEF AdminInv
<1>5. ASSUME NEW s \in Sessions, Commit(s) PROVE AdminInv'
    <2>1. AdminBacked(db)'
        BY <1>5, AdminCommit
    <2>2. sess' = [sess EXCEPT ![s] = Idle] /\ ~Idle.busy /\ stripe' = stripe
        BY <1>5 DEF Commit, Idle
    <2> HIDE DEF Idle
    <2> QED
        BY <1>2, <2>1, <2>2
<1>6. ASSUME NEW s \in Sessions, Crash(s) PROVE AdminInv'
    <2>1. AdminBacked(db)'
        BY <1>6, SameStripe, AdminBackedStays DEF AdminInv, Crash
    <2>2. sess' = [sess EXCEPT ![s] = Idle] /\ ~Idle.busy /\ stripe' = stripe
        BY <1>6 DEF Crash, Idle
    <2> HIDE DEF Idle
    <2> QED
        BY <1>2, <2>1, <2>2
<1>7. ASSUME NEW k \in Kinds, Pay(k) \/ Decline(k) \/ CancelIntent(k) \/ OpenChargeback(k)
      PROVE  AdminInv'
    <2>1. UNCHANGED <<db, sess>>
        BY <1>7 DEF Pay, Decline, CancelIntent, OpenChargeback, Notify
    <2>2. \A j \in Kinds : stripe'[j].made = stripe[j].made
        BY <1>0, <1>7 DEF Pay, Decline, CancelIntent, OpenChargeback, TypeInv, StripeTyped
    <2>3. MadeGrows
        BY <2>2 DEF MadeGrows
    <2> QED
        BY <1>1, <2>1, <2>3
<1>8. CASE UNCHANGED vars
    BY <1>1, <1>8, SameStripe DEF vars
<1> QED
    BY <1>3, <1>4, <1>5, <1>6, <1>7, <1>8 DEF Next, BeginRequest, BeginEvent

LEMMA AdminInit == Init => AdminInv
<1> SUFFICES ASSUME Init PROVE AdminInv
    OBVIOUS
<1>1. PICK dear \in BOOLEAN : db = [NewDB EXCEPT !.dear = dear]
    BY DEF Init
<1>2. \A k \in Kinds : db[Adm(k)] = NoCase
    BY <1>1 DEF NewDB, Adm, Column, Kinds
<1>3. AdminBacked(db)
    BY <1>2 DEF AdminBacked, NoCase
<1>4. \A s \in Sessions : ~sess[s].busy
    BY DEF Init, Idle
<1> QED
    BY <1>3, <1>4, TypeInit DEF AdminInv, Answered

\* The case of an admin's refund is closed as refunded only when its refund was
\* made, for its amount: whatever sessions overlap and die, and whoever else
\* refunds (admin_refund_gig, finalize_refund_case_success).
THEOREM AdminCasesAreBacked ==
    Spec => [](\A k \in Kinds : db[Column[k]["admin"]].status = "refunded"
                   => BackedBy(k, "admin", db[Column[k]["admin"]]))
<1>1. AdminInv => \A k \in Kinds : db[Column[k]["admin"]].status = "refunded"
                      => BackedBy(k, "admin", db[Column[k]["admin"]])
    BY DEF AdminInv, AdminBacked, Adm
<1> QED
    BY <1>1, AdminInit, AdminStep, PTL DEF Spec

\* Disputes of a gig are resolved one at a time.
ResolvesApart ==
    \A s, t \in Sessions :
        /\ sess[s].busy /\ sess[s].op.type = "resolve_dispute"
        /\ sess[t].busy /\ sess[t].op.type = "resolve_dispute"
        => s = t

\* A refund that finds the case of a dispute initiated and not yet known to
\* Stripe is the dispute's own: nobody else refunds the payment meanwhile.
OwnNotices ==
    \A s \in Sessions : sess[s].busy /\ Notice(sess[s].op) =>
        LET k == sess[s].op.kind
            c == sess[s].seen[Column[k]["dispute"]]
        IN  c.status = "refund_initiated" /\ ~c.known => "dispute" \in DOMAIN stripe[k].made

\* The case of payment k in rows d is the one that is asked for now, and says
\* that Stripe has its refund only when it was made.
SoundCase(k, d) ==
    LET c == d[Dis(k)]
    IN  /\ c.known \/ c.status = "refunded" => BackedBy(k, "dispute", c)
        /\ c.known => c.status # "none"
        /\ c.status # "none" => /\ c.amount > 0 /\ c.amount = db[Dis(k)].amount
                                /\ db[Dis(k)].status # "none"
SoundCases(d) == \A k \in Kinds : SoundCase(k, d)

\* The dispute's refund of payment k is that of its case.
MadeForCase(k) ==
    "dispute" \in DOMAIN stripe[k].made =>
        db[Dis(k)].status # "none" /\ stripe[k].made["dispute"] = db[Dis(k)].amount

Initiating(s) ==
    sess[s].busy /\ sess[s].op.type = "refund.initiate" =>
        sess[s].seen[Dis(sess[s].op.kind)].status # "none"
Resolving(s) ==
    sess[s].busy /\ sess[s].op.type = "resolve_dispute" =>
        \A k \in Kinds : sess[s].seen[Dis(k)].status = "none" <=> db[Dis(k)].status = "none"

DisputeInv ==
    /\ TypeInv
    /\ SoundCases(db)
    /\ \A k \in Kinds : MadeForCase(k)
    /\ \A e \in sent : e.type = "refund.initiate" => db[Dis(e.kind)].status # "none"
    /\ \A s \in Sessions : /\ sess[s].busy => SoundCases(sess[s].seen)
                           /\ Initiating(s) /\ Resolving(s) /\ Answered(s)

LEMMA CasesAre ==
    ASSUME NEW d
    PROVE  Cases(d) = {} <=> \A k \in Kinds : d[Dis(k)].status = "none"
BY DEF Cases, Dis

\* What a commit makes of the case of payment k.
LEMMA DisputeMoves ==
    ASSUME DisputeInv, NEW s \in Sessions, Commit(s), NEW k \in Kinds
    PROVE  LET op == sess[s].op
               c == sess[s].seen[Dis(k)]
               o == Running(s)
           IN  \/ db'[Dis(k)] = db[Dis(k)]
               \/ /\ Notice(op) /\ op.kind = k /\ (c.known \/ c.status = "refund_initiated")
                  /\ db'[Dis(k)].status = "refunded" /\ db'[Dis(k)].amount = c.amount
                  /\ db'[Dis(k)].known = c.known
               \/ /\ op.type = "refund.initiate" /\ op.kind = k
                  /\ db'[Dis(k)].status = "refund_initiated" /\ db'[Dis(k)].amount = c.amount
                  /\ db'[Dis(k)].known => c.known \/ BackedBy(k, "dispute", c)
               \/ /\ op.type = "resolve_dispute" /\ \A j \in Kinds : sess[s].seen[Dis(j)].status = "none"
                  /\ db'[Dis(k)].status = "pending" /\ db'[Dis(k)].amount > 0 /\ ~db'[Dis(k)].known
<1> DEFINE op == sess[s].op
           seen == sess[s].seen
           o == Running(s)
           c == seen[Dis(k)]
<1>1. sess[s].busy /\ (CallsStripe(o) => sess[s].answer # "none") /\ stripe' = stripe
    BY DEF Commit
<1>2. Cased(op, seen, o) /\ Answered(s) /\ SoundCases(seen) /\ Initiating(s)
    BY <1>1, RunningIsCased DEF DisputeInv
<1>3. \/ \A x \in CaseColumns : db'[x] = db[x]
      \/ /\ sess[s].answer = "refused"
         /\ \A x \in CaseColumns : db'[x] = IF o.halfway[x] # seen[x] THEN o.halfway[x] ELSE db[x]
      \/ /\ sess[s].answer # "refused"
         /\ \A x \in CaseColumns : db'[x] = IF o.db[x] # seen[x] THEN o.db[x] ELSE db[x]
    BY CommitCases DEF DisputeInv
<1>4. Dis(k) \in CaseColumns
    BY CaseNames
<1>5. /\ DisputeCase(op, seen, o, o.db, k) /\ DisputeCase(op, seen, o, o.halfway, k)
      /\ o.halfway[Dis(k)].known => c.known
    BY <1>2 DEF Cased
<1>6. \/ db'[Dis(k)] = db[Dis(k)]
      \/ sess[s].answer = "refused" /\ db'[Dis(k)] = o.halfway[Dis(k)] /\ o.halfway[Dis(k)] # c
      \/ sess[s].answer # "refused" /\ db'[Dis(k)] = o.db[Dis(k)] /\ o.db[Dis(k)] # c
    BY <1>3, <1>4
<1>7. ASSUME op.type = "refund.initiate", op.kind = k, sess[s].answer # "refused",
             o.ref = "dispute", o.take[k] = c.amount
      PROVE  BackedBy(k, "dispute", c)
    <2>1. c.amount > 0
        BY <1>1, <1>2, <1>7 DEF Initiating, SoundCases, SoundCase
    <2>2. CallsStripe(o)
        BY <1>7, <2>1 DEF CallsStripe
    <2> QED
        BY <1>1, <1>2, <1>7, <2>1, <2>2 DEF Answered, BackedBy
<1>8. Cases(seen) = {} => \A j \in Kinds : seen[Dis(j)].status = "none"
    BY CasesAre
<1>9. ASSUME NEW e, DisputeCase(op, seen, o, e, k), e[Dis(k)] # c, db'[Dis(k)] = e[Dis(k)],
             e[Dis(k)].known => c.known \/ sess[s].answer # "refused"
      PROVE  \/ /\ Notice(op) /\ op.kind = k /\ (c.known \/ c.status = "refund_initiated")
                /\ db'[Dis(k)].status = "refunded" /\ db'[Dis(k)].amount = c.amount
                /\ db'[Dis(k)].known = c.known
             \/ /\ op.type = "refund.initiate" /\ op.kind = k
                /\ db'[Dis(k)].status = "refund_initiated" /\ db'[Dis(k)].amount = c.amount
                /\ db'[Dis(k)].known => c.known \/ BackedBy(k, "dispute", c)
             \/ /\ op.type = "resolve_dispute" /\ \A j \in Kinds : seen[Dis(j)].status = "none"
                /\ db'[Dis(k)].status = "pending" /\ db'[Dis(k)].amount > 0 /\ ~db'[Dis(k)].known
    <2>1. CASE Closes(op, seen, e, k)
        BY <1>9, <2>1 DEF Closes, Restated
    <2>2. CASE Initiates(op, seen, o, e, k)
        BY <1>7, <1>9, <2>2 DEF Initiates
    <2>3. CASE Asks(op, seen, e, k)
        BY <1>8, <1>9, <2>3 DEF Asks
    <2> QED
        BY <1>9, <2>1, <2>2, <2>3 DEF DisputeCase
<1> QED
    BY <1>5, <1>6, <1>9

\* The case of payment k after a commit.
LEMMA CommitCase ==
    ASSUME DisputeInv, OwnNotices, NEW s \in Sessions, Commit(s), NEW k \in Kinds
    PROVE  /\ db[Dis(k)].status # "none" => /\ db'[Dis(k)].status # "none"
                                            /\ db'[Dis(k)].amount = db[Dis(k)].amount
           /\ db[Dis(k)].status = "none" /\ db'[Dis(k)].status # "none" =>
                  /\ sess[s].op.type = "resolve_dispute"
                  /\ sess[s].seen[Dis(k)].status = "none"
           /\ db'[Dis(k)].known \/ db'[Dis(k)].status = "refunded" => BackedBy(k, "dispute", db[Dis(k)])
           /\ db'[Dis(k)].known => db'[Dis(k)].status # "none"
           /\ db'[Dis(k)].status # "none" => db'[Dis(k)].amount > 0
<1> DEFINE op == sess[s].op
           c == sess[s].seen[Dis(k)]
           b == db[Dis(k)]
<1>1. sess[s].busy
    BY DEF Commit
<1>2. /\ c.known \/ c.status = "refunded" => BackedBy(k, "dispute", c)
      /\ c.known => c.status # "none"
      /\ c.status # "none" => c.amount > 0 /\ c.amount = b.amount /\ b.status # "none"
      /\ b.known \/ b.status = "refunded" => BackedBy(k, "dispute", b)
      /\ b.known => b.status # "none"
      /\ b.status # "none" => b.amount > 0
      /\ op.type = "refund.initiate" /\ op.kind = k => c.status # "none"
      /\ op.type = "resolve_dispute" => (c.status = "none" <=> b.status = "none")
      /\ "dispute" \in DOMAIN stripe[k].made => stripe[k].made["dispute"] = b.amount
    BY <1>1 DEF DisputeInv, SoundCases, SoundCase, MadeForCase, Initiating, Resolving
<1>3. Notice(op) /\ op.kind = k /\ c.status = "refund_initiated" /\ ~c.known =>
          "dispute" \in DOMAIN stripe[k].made
    BY <1>1 DEF OwnNotices, Dis
<1>4. CASE db'[Dis(k)] = db[Dis(k)]
    BY <1>2, <1>4
<1>5. CASE /\ Notice(op) /\ op.kind = k /\ (c.known \/ c.status = "refund_initiated")
           /\ db'[Dis(k)].status = "refunded" /\ db'[Dis(k)].amount = c.amount
           /\ db'[Dis(k)].known = c.known
    <2>1. c.status # "none" /\ c.amount = b.amount /\ c.amount > 0 /\ b.status # "none"
        BY <1>2, <1>5
    <2>2. BackedBy(k, "dispute", b)
        BY <1>2, <1>3, <1>5, <2>1 DEF BackedBy
    <2> QED
        BY <1>5, <2>1, <2>2
<1>6. CASE /\ op.type = "refund.initiate" /\ op.kind = k
           /\ db'[Dis(k)].status = "refund_initiated" /\ db'[Dis(k)].amount = c.amount
           /\ db'[Dis(k)].known => c.known \/ BackedBy(k, "dispute", c)
    <2>1. c.status # "none" /\ c.amount = b.amount /\ c.amount > 0 /\ b.status # "none"
        BY <1>2, <1>6
    <2>2. db'[Dis(k)].known => BackedBy(k, "dispute", b)
        BY <1>2, <1>6, <2>1 DEF BackedBy
    <2> QED
        BY <1>6, <2>1, <2>2
<1>7. CASE /\ op.type = "resolve_dispute" /\ \A j \in Kinds : sess[s].seen[Dis(j)].status = "none"
           /\ db'[Dis(k)].status = "pending" /\ db'[Dis(k)].amount > 0 /\ ~db'[Dis(k)].known
    BY <1>2, <1>7
<1>8. \/ db'[Dis(k)] = db[Dis(k)]
      \/ /\ Notice(op) /\ op.kind = k /\ (c.known \/ c.status = "refund_initiated")
         /\ db'[Dis(k)].status = "refunded" /\ db'[Dis(k)].amount = c.amount
         /\ db'[Dis(k)].known = c.known
      \/ /\ op.type = "refund.initiate" /\ op.kind = k
         /\ db'[Dis(k)].status = "refund_initiated" /\ db'[Dis(k)].amount = c.amount
         /\ db'[Dis(k)].known => c.known \/ BackedBy(k, "dispute", c)
      \/ /\ op.type = "resolve_dispute" /\ \A j \in Kinds : sess[s].seen[Dis(j)].status = "none"
         /\ db'[Dis(k)].status = "pending" /\ db'[Dis(k)].amount > 0 /\ ~db'[Dis(k)].known
    BY DisputeMoves
<1> QED
    BY <1>4, <1>5, <1>6, <1>7, <1>8

LEMMA DisputeCommit ==
    ASSUME DisputeInv, ResolvesApart, OwnNotices, NEW s \in Sessions, Commit(s), TypeInv'
    PROVE  DisputeInv'
<1> DEFINE op == sess[s].op
           o == Running(s)
<1>1. /\ sess[s].busy /\ DOMAIN sess = Sessions /\ stripe' = stripe
      /\ sess' = [sess EXCEPT ![s] = Idle]
      /\ sent' = sent \cup (IF o.ok /\ sess[s].answer # "refused" THEN o.send \ sent ELSE {})
    BY DEF Commit, DisputeInv, TypeInv, LandInv, Shape
<1>2. ~sess'[s].busy /\ \A t \in Sessions \ {s} : sess'[t] = sess[t]
    BY <1>1 DEF Idle
<1>3. ASSUME NEW k \in Kinds PROVE SoundCase(k, db)'
    <2>1. MadeForCase(k)
        BY DEF DisputeInv
    <2> QED
        BY <1>1, <2>1, CommitCase DEF SoundCase, BackedBy, MadeForCase
<1>4. ASSUME NEW t \in Sessions \ {s}, sess[t].busy, NEW k \in Kinds
      PROVE  SoundCase(k, sess[t].seen)'
    <2>1. SoundCase(k, sess[t].seen) /\ sess'[t].seen = sess[t].seen
        BY <1>2, <1>4 DEF DisputeInv, SoundCases
    <2> QED
        BY <1>1, <2>1, CommitCase DEF SoundCase, BackedBy
<1>5. ASSUME NEW k \in Kinds PROVE MadeForCase(k)'
    BY <1>1, CommitCase DEF MadeForCase, DisputeInv
<1>6. ASSUME NEW e \in sent', e.type = "refund.initiate"
      PROVE  db'[Dis(e.kind)].status # "none"
    <2>1. CASE e \in sent
        <3>1. e.kind \in Kinds /\ db[Dis(e.kind)].status # "none"
            BY <1>6, <2>1 DEF DisputeInv, TypeInv, LandInv, Shape, IsEvent
        <3> QED
            BY <3>1, CommitCase
    <2>2. CASE e \notin sent
        <3>1. e \in o.send /\ o.ok /\ sess[s].answer # "refused"
            BY <1>1, <2>2
        <3>2. e.kind \in Kinds /\ o.db[Dis(e.kind)].status # "none"
            BY <1>1, <3>1, RunningIsCased DEF Cased, DisputeInv
        <3> DEFINE k == e.kind
        <3>3. db'[Dis(k)] = IF o.db[Dis(k)] # sess[s].seen[Dis(k)] THEN o.db[Dis(k)] ELSE db[Dis(k)]
            BY <3>1, <3>2, CommitCases, CaseNames DEF DisputeInv
        <3>4. SoundCase(k, sess[s].seen)
            BY <1>1, <3>2 DEF DisputeInv, SoundCases
        <3>5. sess[s].seen[Dis(k)].status # "none" => db[Dis(k)].status # "none"
            BY <3>4 DEF SoundCase
        <3> HIDE DEF o, k
        <3> QED
            BY <3>2, <3>3, <3>5 DEF k
    <2> QED
        BY <2>1, <2>2
<1>7. ASSUME NEW t \in Sessions \ {s} PROVE Initiating(t)' /\ Resolving(t)' /\ Answered(t)'
    <2>1. Initiating(t) /\ Resolving(t) /\ Answered(t) /\ sess'[t] = sess[t]
        BY <1>2 DEF DisputeInv
    <2>2. Initiating(t)'
        BY <2>1 DEF Initiating
    <2>3. Answered(t)'
        BY <1>1, <2>1, AnsweredStays
    <2>4. ASSUME sess[t].busy, sess[t].op.type = "resolve_dispute", NEW k \in Kinds
          PROVE  db[Dis(k)].status = "none" <=> db'[Dis(k)].status = "none"
        <3>1. op.type # "resolve_dispute"
            BY <1>1, <2>4 DEF ResolvesApart
        <3> QED
            BY <3>1, CommitCase
    <2>5. Resolving(t)'
        BY <2>1, <2>4 DEF Resolving
    <2> QED
        BY <2>2, <2>3, <2>5
<1>8. Initiating(s)' /\ Resolving(s)' /\ Answered(s)'
    BY <1>2 DEF Initiating, Resolving, Answered
<1>9. \A t \in Sessions : (sess[t].busy => SoundCases(sess[t].seen))'
    BY <1>2, <1>4 DEF SoundCases
<1>10. SoundCases(db)'
    BY <1>3 DEF SoundCases
<1> QED
    BY <1>5, <1>6, <1>7, <1>8, <1>9, <1>10 DEF DisputeInv

LEMMA SoundCasesStay ==
    ASSUME MadeGrows, UNCHANGED db
    PROVE  /\ SoundCases(db) => SoundCases(db)'
           /\ \A t \in Sessions : SoundCases(sess[t].seen) /\ sess'[t].seen = sess[t].seen
                  => SoundCases(sess[t].seen)'
           /\ \A t \in Sessions : SoundCases(db) /\ sess'[t].seen = db
                  => SoundCases(sess[t].seen)'
BY DEF MadeGrows, SoundCases, SoundCase, BackedBy

LEMMA SessionStays ==
    ASSUME NEW t \in Sessions, Initiating(t), Resolving(t), Answered(t),
           sess'[t] = sess[t], UNCHANGED db, MadeGrows
    PROVE  Initiating(t)' /\ Resolving(t)' /\ Answered(t)'
<1>1. Answered(t)'
    BY AnsweredStays DEF MadeGrows
<1> QED
    BY <1>1 DEF Initiating, Resolving

\* A session of s that begins or ends.
LEMMA DisputeTurn ==
    ASSUME DisputeInv, NEW s \in Sessions, NEW v, sess' = [sess EXCEPT ![s] = v],
           v.busy => /\ v.seen = db /\ v.answer = "none"
                     /\ v.op.type = "refund.initiate" => db[Dis(v.op.kind)].status # "none",
           UNCHANGED <<db, stripe, sent>>, TypeInv'
    PROVE  DisputeInv'
<1>1. /\ DOMAIN sess = Sessions /\ MadeGrows
    BY SameStripe DEF DisputeInv, TypeInv, LandInv, Shape
<1>2. sess'[s] = v /\ \A t \in Sessions \ {s} : sess'[t] = sess[t]
    BY <1>1
<1>3. SoundCases(db)' /\ \A k \in Kinds : MadeForCase(k)'
    BY <1>1, SoundCasesStay DEF DisputeInv, MadeForCase
<1>4. \A e \in sent' : e.type = "refund.initiate" => db'[Dis(e.kind)].status # "none"
    BY DEF DisputeInv
<1>5. \A t \in Sessions \ {s} : /\ (sess[t].busy => SoundCases(sess[t].seen))'
                                /\ Initiating(t)' /\ Resolving(t)' /\ Answered(t)'
    BY <1>1, <1>2, SoundCasesStay, SessionStays DEF DisputeInv
<1>6. (sess[s].busy => SoundCases(sess[s].seen))'
    BY <1>1, <1>2, SoundCasesStay DEF DisputeInv
<1>7. Initiating(s)' /\ Resolving(s)' /\ Answered(s)'
    BY <1>2 DEF Initiating, Resolving, Answered
<1> QED
    BY <1>3, <1>4, <1>5, <1>6, <1>7 DEF DisputeInv

\* Steps of Stripe that refund nothing.
LEMMA DisputeQuiet ==
    ASSUME DisputeInv, UNCHANGED <<db, sess>>, \A k \in Kinds : stripe'[k].made = stripe[k].made,
           \A e \in sent' : e \in sent \/ e.type # "refund.initiate", TypeInv'
    PROVE  DisputeInv'
<1>1. MadeGrows
    BY DEF MadeGrows
<1>2. SoundCases(db)' /\ \A k \in Kinds : MadeForCase(k)'
    BY <1>1, SoundCasesStay DEF DisputeInv, MadeForCase
<1>3. \A t \in Sessions : /\ (sess[t].busy => SoundCases(sess[t].seen))'
                          /\ Initiating(t)' /\ Resolving(t)' /\ Answered(t)'
    BY <1>1, SoundCasesStay, SessionStays DEF DisputeInv
<1>4. \A e \in sent' : e.type = "refund.initiate" => db'[Dis(e.kind)].status # "none"
    BY DEF DisputeInv
<1> QED
    BY <1>2, <1>3, <1>4 DEF DisputeInv

LEMMA DisputeCall ==
    ASSUME DisputeInv, NEW s \in Sessions, CallStripe(s), TypeInv'
    PROVE  DisputeInv'
<1> DEFINE o == Running(s)
           op == sess[s].op
           E == RefundEvents(o, sess[s].seen.oldest) \ sent
<1>1. /\ sess[s].busy /\ DOMAIN sess = Sessions /\ TypeInv /\ db' = db
      /\ sess' = [sess EXCEPT ![s].answer = IF \E k \in Kinds : Refuses(o, k) THEN "refused" ELSE "made"]
      /\ sent' = sent \cup E /\ Grounded(s)
    BY DEF CallStripe, DisputeInv, TypeInv, LandInv, Shape
<1>2. /\ \A t \in Sessions \ {s} : sess'[t] = sess[t]
      /\ sess'[s].busy = sess[s].busy /\ sess'[s].seen = sess[s].seen /\ sess'[s].op = sess[s].op
    BY <1>1 DEF Grounded
<1>3. MadeGrows
    BY <1>1, MadeStays DEF MadeGrows
<1>4. \A e \in E : e.type # "refund.initiate"
    BY <1>1, NoticesAreTyped
<1>5. \A e \in sent' : e.type = "refund.initiate" => db'[Dis(e.kind)].status # "none"
    BY <1>1, <1>4 DEF DisputeInv
<1>6. SoundCases(db)' /\ \A t \in Sessions : (sess[t].busy => SoundCases(sess[t].seen))'
    BY <1>1, <1>2, <1>3, SoundCasesStay DEF DisputeInv
<1>7. \A t \in Sessions \ {s} : Initiating(t)' /\ Resolving(t)' /\ Answered(t)'
    BY <1>1, <1>2, <1>3, SessionStays DEF DisputeInv
<1>8. Answered(s)'
    BY <1>1, CallAnswers
<1>9. Initiating(s)' /\ Resolving(s)'
    BY <1>1, <1>2 DEF DisputeInv, Initiating, Resolving
<1>10. ASSUME NEW k \in Kinds PROVE MadeForCase(k)'
    <2>1. CASE "dispute" \in DOMAIN stripe[k].made
        <3>1. stripe'[k].made["dispute"] = stripe[k].made["dispute"]
            BY <1>3, <2>1 DEF MadeGrows
        <3> QED
            BY <1>1, <2>1, <3>1 DEF DisputeInv, MadeForCase
    <2>2. CASE "dispute" \notin DOMAIN stripe[k].made
        <3> SUFFICES ASSUME "dispute" \in DOMAIN stripe'[k].made
                     PROVE  db[Dis(k)].status # "none" /\ stripe'[k].made["dispute"] = db[Dis(k)].amount
            BY <1>1 DEF MadeForCase
        <3>1. o.ref = "dispute" /\ o.take[k] > 0 /\ stripe'[k].made["dispute"] = o.take[k]
            BY <1>1, <2>2, MadeStays
        <3>2. op.type = "refund.initiate" /\ op.kind = k /\ o.take[k] = sess[s].seen[Dis(k)].amount
            BY <1>1, <3>1, RunningIsCased DEF Cased
        <3>3. sess[s].seen[Dis(k)].status # "none"
            BY <1>1, <3>2 DEF DisputeInv, Initiating
        <3>4. sess[s].seen[Dis(k)].amount = db[Dis(k)].amount /\ db[Dis(k)].status # "none"
            BY <1>1, <3>3 DEF DisputeInv, SoundCases, SoundCase
        <3> QED
            BY <3>1, <3>2, <3>4
    <2> QED
        BY <2>1, <2>2
<1> QED
    BY <1>5, <1>6, <1>7, <1>8, <1>9, <1>10 DEF DisputeInv

LEMMA DisputeStep ==
    DisputeInv /\ [Next]_vars /\ ResolvesApart /\ OwnNotices => DisputeInv'
<1> SUFFICES ASSUME DisputeInv, [Next]_vars, ResolvesApart, OwnNotices PROVE DisputeInv'
    OBVIOUS
<1>0. TypeInv /\ TypeInv' /\ inbox \subseteq sent
    BY TypeStep DEF DisputeInv, TypeInv, LandInv, Shape
<1>1. ASSUME NEW s \in Sessions, NEW op, Begin(s, op), UNCHANGED <<db, stripe, sent>>,
             op.type = "refund.initiate" => op \in sent
      PROVE  DisputeInv'
    <2> DEFINE v == [busy |-> TRUE, op |-> op, seen |-> db, answer |-> "none"]
    <2>1. sess' = [sess EXCEPT ![s] = v] /\ v.seen = db /\ v.answer = "none" /\ v.op = op
        BY <1>1 DEF Begin
    <2>2. op.type = "refund.initiate" => db[Dis(op.kind)].status # "none"
        BY <1>1 DEF DisputeInv
    <2> HIDE DEF v
    <2> QED
        BY <1>0, <1>1, <2>1, <2>2, DisputeTurn
<1>2. ASSUME NEW s \in Sessions, NEW op \in Request, BeginRequest(s, op) PROVE DisputeInv'
    BY <1>1, <1>2, RequestIsTyped DEF BeginRequest
<1>3. ASSUME NEW s \in Sessions, NEW e \in inbox, BeginEvent(s, e) PROVE DisputeInv'
    BY <1>0, <1>1, <1>3 DEF BeginEvent
<1>4. ASSUME NEW s \in Sessions, CallStripe(s) PROVE DisputeInv'
    BY <1>0, <1>4, DisputeCall
<1>5. ASSUME NEW s \in Sessions, Commit(s) PROVE DisputeInv'
    BY <1>0, <1>5, DisputeCommit
<1>6. ASSUME NEW s \in Sessions, Crash(s) PROVE DisputeInv'
    <2>1. sess' = [sess EXCEPT ![s] = Idle] /\ ~Idle.busy /\ UNCHANGED <<db, stripe, sent>>
        BY <1>6 DEF Crash, Idle
    <2> HIDE DEF Idle
    <2> QED
        BY <1>0, <2>1, DisputeTurn
<1>7. ASSUME NEW k \in Kinds, Pay(k) \/ Decline(k) \/ CancelIntent(k) \/ OpenChargeback(k)
      PROVE  DisputeInv'
    <2>1. UNCHANGED <<db, sess>>
        BY <1>7 DEF Pay, Decline, CancelIntent, OpenChargeback, Notify
    <2>2. \A j \in Kinds : stripe'[j].made = stripe[j].made
        BY <1>0, <1>7 DEF Pay, Decline, CancelIntent, OpenChargeback, TypeInv, StripeTyped
    <2>3. \A e \in sent' : e \in sent \/ e.type # "refund.initiate"
        BY <1>7 DEF Pay, Decline, CancelIntent, OpenChargeback, Notify, Event, Op
    <2> QED
        BY <1>0, <2>1, <2>2, <2>3, DisputeQuiet
<1>8. CASE UNCHANGED vars
    BY <1>0, <1>8, DisputeQuiet DEF vars
<1> QED
    BY <1>2, <1>3, <1>4, <1>5, <1>6, <1>7, <1>8 DEF Next

LEMMA DisputeInit == Init => DisputeInv
<1> SUFFICES ASSUME Init PROVE DisputeInv
    OBVIOUS
<1>1. PICK dear \in BOOLEAN : db = [NewDB EXCEPT !.dear = dear]
    BY DEF Init
<1>2. \A k \in Kinds : db[Dis(k)] = NoCase
    BY <1>1 DEF NewDB, Dis, Column, Kinds
<1>3. SoundCases(db)
    BY <1>2 DEF SoundCases, SoundCase, NoCase
<1>4. /\ \A s \in Sessions : ~sess[s].busy
      /\ \A k \in Kinds : DOMAIN stripe[k].made = {}
      /\ sent = {}
    BY DEF Init, Idle
<1> QED
    BY <1>3, <1>4, TypeInit DEF DisputeInv, Answered, Initiating, Resolving, MadeForCase

LEMMA CasesAreSound == AdminInv /\ DisputeInv => CaseIsBacked
<1> SUFFICES ASSUME AdminInv, DisputeInv, NEW k \in Kinds, NEW by \in {"admin", "dispute"},
                    db[Column[k][by]].status = "refunded"
             PROVE  /\ by \in DOMAIN stripe[k].made
                    /\ stripe[k].made[by] = db[Column[k][by]].amount
    BY DEF CaseIsBacked
<1>1. CASE by = "admin"
    BY <1>1 DEF AdminInv, AdminBacked, BackedBy, Adm
<1>2. CASE by = "dispute"
    <2>1. SoundCase(k, db)
        BY DEF DisputeInv, SoundCases
    <2> QED
        BY <1>2, <2>1 DEF SoundCase, BackedBy, Dis
<1> QED
    BY <1>1, <1>2

\* A refund case is closed as refunded only when its own refund was made, for
\* its amount: however sessions overlap, die and repeat events, as long as one
\* admin resolves the gig's dispute at a time and nobody else refunds a payment
\* whose case is initiated (finalize_refund_case_success closes the case of a
\* dispute by the payment's refund, whoever made it).
THEOREM CasesAreBacked == Spec /\ [](ResolvesApart /\ OwnNotices) => []CaseIsBacked
<1>1. DisputeInv /\ [Next]_vars /\ (ResolvesApart /\ OwnNotices) => DisputeInv'
    BY DisputeStep
<1>2. AdminInv /\ DisputeInv => CaseIsBacked
    BY CasesAreSound
<1> QED
    BY <1>1, <1>2, AdminInit, AdminStep, DisputeInit, PTL DEF Spec

\* Where only disputes refund, Stripe announces only their refunds.
DisputesOnly == Features \cap {"client_refund", "admin_refund"} = {}
NoticesAreOwn == \A e \in sent : Notice(e) => "dispute" \in DOMAIN stripe[e.kind].made

LEMMA OwnCalls ==
    ASSUME DisputesOnly, TypeInv, NEW s \in Sessions, CallStripe(s), NEW k \in Kinds, Paying(s, k)
    PROVE  Running(s).ref = "dispute"
<1> DEFINE o == Running(s)
           op == sess[s].op
           seen == sess[s].seen
<1>1. /\ sess[s].busy /\ Effect(op, seen, o) /\ o.take[k] > 0 /\ Grounded(s) /\ Reading(s)
      /\ \A e \in sent : IsEvent(e)
    BY CallMakes DEF CallStripe, TypeInv, LandInv, Shape
<1>2. op.type \notin {"client_refund", "admin_refund"}
    <2>1. op \in Request => Accepts(op, seen)
        BY <1>1 DEF Reading
    <2>2. Accepts(op, seen) /\ op.type \in Optional => op.type \in Features
        BY DEF Accepts
    <2>3. op \in Request \/ op.type \in EventTypes
        BY <1>1 DEF Grounded, IsEvent
    <2> QED
        BY <2>1, <2>2, <2>3 DEF Optional, EventTypes, DisputesOnly
<1>3. op.type = "refund.initiate"
    BY <1>1, <1>2 DEF Effect
<1>4. o = InitiateRefund(seen, op.kind)
    BY <1>3 DEF Running, Handle
<1>5. o = Outcome(seen) \/ o.ref = "dispute"
    <2> DEFINE c == Column[op.kind]["dispute"]
               e == [seen EXCEPT ![c].status = "refund_initiated"]
               f == [e EXCEPT ![c].known = TRUE]
               take == [j \in Kinds |-> IF j = op.kind THEN seen[c].amount ELSE 0]
    <2>1. o = Outcome(seen) \/ o = [Outcome(f) EXCEPT !.halfway = e, !.ref = "dispute", !.take = take]
        BY <1>4 DEF InitiateRefund
    <2> HIDE DEF o, f, e, take
    <2>2. [Outcome(f) EXCEPT !.halfway = e, !.ref = "dispute", !.take = take].ref = "dispute"
        BY DEF Outcome
    <2> QED
        BY <2>1, <2>2
<1>6. Outcome(seen).take[k] = 0
    BY DEF Outcome, NoTake
<1> HIDE DEF o
<1> QED
    BY <1>1, <1>5, <1>6 DEF o

LEMMA OwnStep ==
    ASSUME DisputesOnly
    PROVE  TypeInv /\ NoticesAreOwn /\ [Next]_vars => NoticesAreOwn'
<1> SUFFICES ASSUME TypeInv, NoticesAreOwn, [Next]_vars PROVE NoticesAreOwn'
    OBVIOUS
<1>0. DOMAIN sess = Sessions /\ \A e \in sent : e.kind \in Kinds
    BY DEF TypeInv, LandInv, Shape, IsEvent
<1>1. ASSUME \A k \in Kinds : stripe'[k].made = stripe[k].made,
             \A e \in sent' : e \in sent \/ ~Notice(e)
      PROVE  NoticesAreOwn'
    BY <1>0, <1>1 DEF NoticesAreOwn, Notice
<1>2. ASSUME NEW s \in Sessions, CallStripe(s) PROVE NoticesAreOwn'
    <2> DEFINE E == RefundEvents(Running(s), sess[s].seen.oldest) \ sent
    <2>1. sent' = sent \cup E
        BY <1>2 DEF CallStripe
    <2>2. ASSUME NEW e \in E PROVE "dispute" \in DOMAIN stripe'[e.kind].made
        <3>1. PICK k \in Kinds : Paying(s, k) /\ e.kind = k
            BY <1>2, NoticesAreTyped
        <3> QED
            BY <1>2, <3>1, OwnCalls, MadeStays
    <2>3. ASSUME NEW e \in sent, Notice(e) PROVE "dispute" \in DOMAIN stripe'[e.kind].made
        BY <1>0, <1>2, <2>3, MadeStays DEF NoticesAreOwn
    <2> HIDE DEF E
    <2> QED
        BY <2>1, <2>2, <2>3 DEF NoticesAreOwn, Notice
<1>3. ASSUME NEW s \in Sessions, Commit(s) PROVE NoticesAreOwn'
    <2>1. stripe' = stripe /\ \A e \in sent' : e \in sent \/ e \in Running(s).send
        BY <1>3 DEF Commit
    <2>2. \A e \in Running(s).send : e.type = "refund.initiate"
        <3>1. (sess[s].op \in Request \/ IsEvent(sess[s].op)) /\ DOMAIN sess[s].seen = RowColumns
            BY <1>3 DEF Commit, TypeInv, LandInv, Shape, Grounded
        <3> QED
            BY <3>1, HandleIsTame DEF Running, Tame
    <2> QED
        BY <1>1, <2>1, <2>2 DEF Notice
<1>4. ASSUME stripe' = stripe, sent' = sent PROVE NoticesAreOwn'
    BY <1>1, <1>4
<1>5. ASSUME NEW k \in Kinds, Pay(k) \/ Decline(k) \/ CancelIntent(k) \/ OpenChargeback(k)
      PROVE  NoticesAreOwn'
    <2>1. \A j \in Kinds : stripe'[j].made = stripe[j].made
        BY <1>5 DEF Pay, Decline, CancelIntent, OpenChargeback, TypeInv, StripeTyped
    <2>2. \A e \in sent' : e \in sent \/ ~Notice(e)
        BY <1>5 DEF Pay, Decline, CancelIntent, OpenChargeback, Notify, Event, Op, Notice
    <2> QED
        BY <1>1, <2>1, <2>2
<1> QED
    BY <1>2, <1>3, <1>4, <1>5 DEF Next, BeginRequest, BeginEvent, Crash, vars

LEMMA OwnIsOwn == TypeInv /\ NoticesAreOwn => OwnNotices
<1> SUFFICES ASSUME TypeInv, NoticesAreOwn, NEW s \in Sessions, sess[s].busy, Notice(sess[s].op)
             PROVE  "dispute" \in DOMAIN stripe[sess[s].op.kind].made
    BY DEF OwnNotices
<1>1. sess[s].op \in Request \/ sess[s].op \in sent
    BY DEF TypeInv, LandInv, Grounded
<1>2. sess[s].op \notin Request
    BY RequestIsTyped DEF Notice
<1> QED
    BY <1>1, <1>2 DEF NoticesAreOwn

\* Where neither the client nor an admin refunds, every case is closed by its
\* own refund, as long as one admin resolves the gig's dispute at a time.
THEOREM DisputeCasesAreBacked ==
    ASSUME DisputesOnly
    PROVE  Spec /\ []ResolvesApart => []CaseIsBacked
<1>1. Init => NoticesAreOwn
    BY DEF Init, NoticesAreOwn
<1>2. TypeInv /\ NoticesAreOwn /\ [Next]_vars => NoticesAreOwn'
    BY OwnStep
<1>3. DisputeInv /\ [Next]_vars /\ ResolvesApart /\ OwnNotices => DisputeInv'
    BY DisputeStep
<1>4. AdminInv /\ DisputeInv => CaseIsBacked
    BY CasesAreSound
<1>5. TypeInv /\ NoticesAreOwn => OwnNotices
    BY OwnIsOwn
<1> QED
    BY <1>1, <1>2, <1>3, <1>4, <1>5, TypeInit, TypeStep, AdminInit, AdminStep, DisputeInit, PTL DEF Spec

\* The same with one session at a time.
THEOREM CasesAreBackedAlone ==
    ASSUME OneSession, DisputesOnly
    PROVE  Spec => []CaseIsBacked
<1>1. ResolvesApart
    BY DEF OneSession, ResolvesApart
<1> QED
    BY <1>1, DisputeCasesAreBacked, PTL

----------------------------------------------------------------------------
(* A refund that was made closes its case *)

LEMMA InitiateSets ==
    ASSUME NEW d \in DB, NEW k \in Kinds
    PROVE  LET o == InitiateRefund(d, k)
           IN  /\ \A j \in Kinds \ {k} : o.take[j] = 0
               /\ \/ o = Outcome(d) /\ (d[Dis(k)].status = "refunded" \/ d[Dis(k)].status = "refund_initiated")
                  \/ /\ o.db[Dis(k)].status = "refund_initiated" /\ d[Dis(k)].status # "refunded"
                     /\ o.halfway[Dis(k)].status = "refund_initiated"
               /\ o.ok = TRUE
<1> DEFINE c == Column[k]["dispute"]
           e == [d EXCEPT ![c].status = "refund_initiated"]
           f == [e EXCEPT ![c].known = TRUE]
           take == [j \in Kinds |-> IF j = k THEN d[c].amount ELSE 0]
           o == InitiateRefund(d, k)
<1>1. \/ o = Outcome(d) /\ (d[c].status = "refunded" \/ d[c].status = "refund_initiated")
      \/ /\ d[c].status # "refunded"
         /\ o = [Outcome(f) EXCEPT !.halfway = e, !.ref = "dispute", !.take = take]
    BY DEF InitiateRefund
<1>2. c \in CaseColumns
    BY CaseIsCase
<1>3. c = Dis(k) /\ \A j \in Kinds \ {k} : take[j] = 0
    BY DEF Dis
<1>4. /\ \A j \in Kinds : Outcome(d).take[j] = 0
      /\ Outcome(d).ok = TRUE
    BY DEF Outcome, NoTake
<1> HIDE DEF o, c, take
<1>5. e \in DB /\ e[c].status = "refund_initiated"
    BY <1>2, StatusWrites DEF Writes
<1> HIDE DEF e
<1>6. f[c].status = "refund_initiated"
    BY <1>2, <1>5, KnownWrites
<1> HIDE DEF f
<1>7. ASSUME o = [Outcome(f) EXCEPT !.halfway = e, !.ref = "dispute", !.take = take]
      PROVE  /\ \A j \in Kinds \ {k} : o.take[j] = 0
             /\ o.db[Dis(k)].status = "refund_initiated"
             /\ o.halfway[Dis(k)].status = "refund_initiated"
             /\ o.ok = TRUE
    <2>1. o.db = f /\ o.halfway = e /\ o.take = take /\ o.ok = TRUE
        BY <1>7 DEF Outcome
    <2> QED
        BY <1>3, <1>5, <1>6, <2>1
<1>8. CASE o = Outcome(d) /\ (d[c].status = "refunded" \/ d[c].status = "refund_initiated")
    BY <1>3, <1>4, <1>8 DEF o
<1> QED
    BY <1>1, <1>3, <1>7, <1>8 DEF o

LEMMA RefundCloses ==
    ASSUME NEW op, NEW d \in DB, op.kind \in Kinds, op.amount \in Nat, op.ref # "admin",
           d[op.kind] # "none", d[Dis(op.kind)].status = "refund_initiated"
    PROVE  /\ RefundSucceeded(d, op.kind, op.amount, op.ref).db[Dis(op.kind)].status = "refunded"
           /\ RefundSucceeded(d, op.kind, op.amount, op.ref).ok = TRUE
<1> DEFINE k == op.kind
           f == [d EXCEPT ![k] = "refunded"]
           e == IF op.amount >= Amount[k] THEN Reverse(f) ELSE Adjust(d, op.amount)
           g == FinalizeAdminCase(e, k, op.ref)
           h == FinalizeDisputeCase(g, k, op.ref)
           B == {Op("refund_succeeded", k, op.amount, op.ref)}
           o == RefundSucceeded(d, k, op.amount, op.ref)
<1>1. o = [Outcome(h) EXCEPT !.book = B]
    BY DEF RefundSucceeded
<1>2. k \in RowColumns /\ k \notin CaseColumns /\ ColumnType[k] = PaymentStatus /\ k \in Kinds
    BY DEF Kinds, RowColumns, CaseColumns, ColumnType
<1> SUFFICES o.db[Dis(k)].status = "refunded" /\ o.ok = TRUE
    OBVIOUS
<1> HIDE DEF B, o, h, g
<1>3. SameCases(d, e) /\ e \in DB
    <2> HIDE DEF k
    <2>1. Writes(d, f, {k})
        BY <1>2, WriteColumn DEF Writes, PaymentStatus
    <2> HIDE DEF f
    <2>2. Writes(f, Reverse(f), {"entry"}) /\ Writes(d, Adjust(d, op.amount), {"returned", "gross"})
        BY <2>1, ReverseWrites, AdjustWrites DEF Writes
    <2>3. SameCases(d, f) /\ SameCases(f, Reverse(f)) /\ SameCases(d, Adjust(d, op.amount))
        BY <1>2, <2>1, <2>2, WritesNoCase DEF CaseColumns
    <2> QED
        BY <2>2, <2>3 DEF SameCases, Writes
<1> HIDE DEF e
<1>4. Writes(e, g, {Adm(k)})
    BY <1>2, <1>3, AdminFinalized DEF g
<1>5. g[Dis(k)] = d[Dis(k)] /\ g \in DB
    BY <1>2, <1>3, <1>4, CaseNames DEF Writes, CaseColumns, RowColumns, SameCases
<1>6. Restated(g, h, Dis(k), "refunded")
    BY <1>2, <1>5, DisputeCaseWrites DEF h, Dis
<1>7. o.db = h /\ o.ok = TRUE
    BY <1>1 DEF Outcome
<1> QED
    BY <1>6, <1>7 DEF Restated

\* Where only disputes refund, what is refunded and announced is theirs, of a
\* payment that has its row.
OwnRefunds ==
    /\ NoticesAreOwn
    /\ \A e \in sent : Notice(e) => e.ref # "admin"
    /\ \A k \in Kinds : DOMAIN stripe[k].made \subseteq {"dispute"}
    /\ \A k \in Kinds : stripe[k].intent = "succeeded" \/ DOMAIN stripe[k].made # {} => db[k] # "none"

\* A refund that was made for a dispute closes its case, or will: its event
\* waits for a case that is initiated, or for the session that initiates it.
Settling(k) ==
    "dispute" \in DOMAIN stripe[k].made =>
        \/ db[Dis(k)].status = "refunded"
        \/ /\ db[Dis(k)].status = "refund_initiated"
           /\ \E e \in sent : Notice(e) /\ e.kind = k /\ Waiting(e)
        \/ \E s \in Sessions :
               /\ sess[s].busy /\ sess[s].op.type = "refund.initiate" /\ sess[s].op.kind = k
               /\ sess[s].answer = "made"
               /\ \E e \in inbox : Notice(e) /\ e.kind = k

SettleInv ==
    /\ DisputeInv
    /\ ReadsLast
    /\ OwnRefunds
    /\ \A k \in Kinds : Settling(k)

\* One session at a time, no crash, and only disputes refund.
Alone == OneSession /\ DisputesOnly /\ "crash" \notin Features /\ Notices # {}

LEMMA SettleCommit ==
    ASSUME Alone, SettleInv, NEW s \in Sessions, Commit(s), NEW k \in Kinds
    PROVE  Settling(k)'
<1> DEFINE op == sess[s].op
           seen == sess[s].seen
           o == Running(s)
<1>1. /\ sess[s].busy /\ DOMAIN sess = Sessions /\ stripe' = stripe /\ seen = db /\ TypeInv
      /\ (CallsStripe(o) => sess[s].answer # "none")
      /\ inbox \subseteq inbox' /\ inbox \subseteq sent /\ sent \subseteq sent'
      /\ \A t \in Sessions : t = s
      /\ sess[s].answer # "none" => CallsStripe(o)
      /\ op \in Request \/ op \in sent
    BY DEF Commit, SettleInv, DisputeInv, TypeInv, LandInv, Shape, ReadsLast, Alone, OneSession, Grounded
<1> SUFFICES ASSUME "dispute" \in DOMAIN stripe[k].made
             PROVE  \/ db'[Dis(k)].status = "refunded"
                    \/ /\ db'[Dis(k)].status = "refund_initiated"
                       /\ \E e \in inbox : Notice(e) /\ e.kind = k
    BY <1>1 DEF Settling, Waiting, Notice
<1>2. \/ db[Dis(k)].status = "refunded"
      \/ /\ db[Dis(k)].status = "refund_initiated"
         /\ \E e \in sent : Notice(e) /\ e.kind = k /\ (e \in inbox \/ op = e)
      \/ /\ op.type = "refund.initiate" /\ op.kind = k
         /\ \E e \in inbox : Notice(e) /\ e.kind = k
    BY <1>1 DEF SettleInv, Settling, Waiting, Holds
<1>3. /\ o.ok /\ sess[s].answer # "refused" => db'[Dis(k)] = o.db[Dis(k)]
      /\ op.type \in EventTypes /\ sess[s].answer = "refused" => db'[Dis(k)] = o.halfway[Dis(k)]
    BY <1>1, CommitCases, CaseNames
<1>4. db \in DB
    BY <1>1 DEF TypeInv
<1>5. CASE op.type = "refund.initiate" /\ op.kind = k
    <2>1. o = InitiateRefund(db, k)
        BY <1>1, <1>5 DEF Running, Handle
    <2>2. ~Notice(op) /\ op.type \in EventTypes
        BY <1>5 DEF Notice, EventTypes
    <2>3. /\ o.ok = TRUE
          /\ \/ o = Outcome(db) /\ (db[Dis(k)].status = "refunded" \/ db[Dis(k)].status = "refund_initiated")
             \/ /\ o.db[Dis(k)].status = "refund_initiated" /\ db[Dis(k)].status # "refunded"
                /\ o.halfway[Dis(k)].status = "refund_initiated"
        <3> HIDE DEF o
        <3> QED
            BY <1>4, <2>1, InitiateSets
    <2>4. CASE o = Outcome(db) /\ (db[Dis(k)].status = "refunded" \/ db[Dis(k)].status = "refund_initiated")
        <3>1. o.db = db /\ o.halfway = db
            BY <2>4 DEF Outcome
        <3>2. db'[Dis(k)] = db[Dis(k)]
            BY <1>3, <2>2, <2>3, <3>1
        <3> QED
            BY <1>2, <2>2, <2>4, <3>2
    <2>5. CASE /\ o.db[Dis(k)].status = "refund_initiated" /\ db[Dis(k)].status # "refunded"
               /\ o.halfway[Dis(k)].status = "refund_initiated"
        BY <1>2, <1>3, <2>2, <2>3, <2>5
    <2> QED
        BY <2>3, <2>4, <2>5
<1>6. CASE Notice(op) /\ op.kind = k
    <2>1. op \notin Request
        BY <1>6, RequestIsTyped DEF Notice
    <2>2. op.ref # "admin" /\ op.amount \in Nat /\ db[k] # "none"
        BY <1>1, <1>6, <2>1 DEF SettleInv, OwnRefunds, TypeInv, Stored
    <2>3. o = RefundSucceeded(db, k, op.amount, op.ref)
        BY <1>1, <1>6 DEF Running, Handle, Notice
    <2>4. sess[s].answer = "none"
        <3>1. Effect(op, seen, o)
            BY <1>1, RunningEffect
        <3> QED
            BY <1>1, <1>6, <3>1 DEF Effect, CallsStripe, Notice
    <2>5. CASE db[Dis(k)].status = "refund_initiated"
        <3>1. o.db[Dis(k)].status = "refunded" /\ o.ok = TRUE
            BY <1>4, <1>6, <2>2, <2>3, <2>5, RefundCloses
        <3> QED
            BY <1>3, <2>4, <3>1
    <2>6. CASE db[Dis(k)].status = "refunded"
        BY <1>1, <1>6, <2>6, DisputeMoves DEF SettleInv, Notice
    <2> QED
        BY <1>2, <1>6, <2>5, <2>6 DEF Notice
<1>7. CASE ~(op.type = "refund.initiate" /\ op.kind = k) /\ ~(Notice(op) /\ op.kind = k)
    <2>1. db[Dis(k)].status # "none"
        BY DEF SettleInv, DisputeInv, MadeForCase
    <2>2. db'[Dis(k)] = db[Dis(k)]
        BY <1>1, <1>7, <2>1, DisputeMoves DEF SettleInv
    <2> QED
        BY <1>2, <1>7, <2>2
<1> QED
    BY <1>5, <1>6, <1>7

LEMMA SettleBegin ==
    ASSUME Alone, SettleInv, NEW s \in Sessions, NEW op, Begin(s, op), UNCHANGED <<db, stripe, sent>>,
           \A e \in inbox : e = op \/ e \in inbox', NEW k \in Kinds
    PROVE  Settling(k)'
<1>1. /\ ~sess[s].busy /\ DOMAIN sess = Sessions /\ \A t \in Sessions : t = s
      /\ sess' = [sess EXCEPT ![s] = [busy |-> TRUE, op |-> op, seen |-> db, answer |-> "none"]]
    BY DEF Begin, SettleInv, DisputeInv, TypeInv, LandInv, Shape, Alone, OneSession
<1>2. sess'[s].busy /\ sess'[s].op = op
    BY <1>1
<1> SUFFICES ASSUME "dispute" \in DOMAIN stripe[k].made
             PROVE  \/ db[Dis(k)].status = "refunded"
                    \/ /\ db[Dis(k)].status = "refund_initiated"
                       /\ \E e \in sent : Notice(e) /\ e.kind = k /\ (e \in inbox' \/ e = op)
    BY <1>2 DEF Settling, Waiting, Holds, Notice
<1> QED
    BY <1>1 DEF SettleInv, Settling, Waiting, Holds

LEMMA NoticeRefs ==
    ASSUME NEW s, NEW e \in RefundEvents(Running(s), sess[s].seen.oldest)
    PROVE  e.ref \in {Running(s).ref, "none"}
<1> DEFINE o == Running(s)
<1> HIDE DEF o
<1>1. ASSUME NEW x \in RefundEvents(o, sess[s].seen.oldest) PROVE x.ref \in {o.ref, "none"}
    BY <1>1 DEF RefundEvents, Op
<1> QED
    BY <1>1 DEF o

\* The call that makes a refund has it announced.
LEMMA RefundIsAnnounced ==
    ASSUME Notices # {}, NEW s \in Sessions, CallStripe(s), NEW k \in Kinds, Paying(s, k)
    PROVE  \E e \in sent' : /\ Notice(e) /\ e.kind = k
                            /\ e \in sent \/ e \in inbox'
<1> DEFINE o == Running(s)
           oldest == sess[s].seen.oldest
           c == Op("charge.refunded", k, stripe[k].refunded + Wanted(o, k),
                   IF Expanded THEN o.ref ELSE "none")
           r == Op("refund.succeeded", k, Wanted(o, k), o.ref)
<1>1. k \in RefundMade(o, oldest)
    BY DEF Paying
<1>2. /\ c.type = "charge.refunded" /\ c.kind = k
      /\ r.type = "refund.succeeded" /\ r.kind = k
    BY DEF Op
<1>3. "charge.refunded" \in Notices \/ "refund.succeeded" \in Notices
    BY GigAssumption
<1>4. PICK e \in {c, r} : e.type \in Notices
    BY <1>2, <1>3
<1>5. e \in RefundEvents(o, oldest)
    BY <1>1, <1>4 DEF RefundEvents
<1>6. Notice(e) /\ e.kind = k
    BY <1>2 DEF Notice
<1>7. e \in sent \/ (e \in inbox' /\ e \in sent')
    BY <1>5 DEF CallStripe
<1>8. sent \subseteq sent'
    BY DEF CallStripe
<1> HIDE DEF c, r
<1> QED
    BY <1>6, <1>7, <1>8

LEMMA SettleCall ==
    ASSUME Alone, SettleInv, NEW s \in Sessions, CallStripe(s), NEW k \in Kinds
    PROVE  Settling(k)'
<1> DEFINE o == Running(s)
           op == sess[s].op
           seen == sess[s].seen
           v == IF \E j \in Kinds : Refuses(o, j) THEN "refused" ELSE "made"
<1>1. /\ sess[s].busy /\ sess[s].answer = "none" /\ DOMAIN sess = Sessions /\ TypeInv
      /\ db' = db /\ inbox \subseteq inbox' /\ sent \subseteq sent'
      /\ sess' = [sess EXCEPT ![s].answer = v] /\ Grounded(s)
      /\ \A t \in Sessions : t = s
    BY DEF CallStripe, SettleInv, DisputeInv, TypeInv, LandInv, Shape, Alone, OneSession
<1>2. sess'[s].busy /\ sess'[s].op = op /\ sess'[s].answer = v
    BY <1>1 DEF Grounded
<1>3. CASE "dispute" \in DOMAIN stripe[k].made
    <2>1. \/ db[Dis(k)].status = "refunded"
          \/ /\ db[Dis(k)].status = "refund_initiated"
             /\ \E e \in sent : Notice(e) /\ e.kind = k /\ (e \in inbox \/ op = e)
        BY <1>1, <1>3 DEF SettleInv, Settling, Waiting, Holds
    <2>2. \/ db'[Dis(k)].status = "refunded"
          \/ /\ db'[Dis(k)].status = "refund_initiated"
             /\ \E e \in sent' : Notice(e) /\ e.kind = k /\ (e \in inbox' \/ (sess'[s].busy /\ sess'[s].op = e))
        BY <1>1, <1>2, <2>1
    <2> QED
        BY <2>2 DEF Settling, Waiting, Holds, Notice
<1>4. CASE "dispute" \notin DOMAIN stripe[k].made
    <2> SUFFICES ASSUME "dispute" \in DOMAIN stripe'[k].made
                 PROVE  /\ op.type = "refund.initiate" /\ op.kind = k /\ v = "made"
                        /\ \E e \in inbox' : Notice(e) /\ e.kind = k
        BY <1>2 DEF Settling, Notice
    <2>1. Paying(s, k) /\ o.ref = "dispute" /\ o.take[k] > 0
        BY <1>1, <1>4, MadeStays
    <2>2. op.type = "refund.initiate" /\ op.kind = k
        BY <1>1, <2>1, RunningIsCased DEF Cased
    <2>3. v = "made"
        <3>1. o = InitiateRefund(seen, k) /\ seen \in DB
            BY <1>1, <2>2, RunningEffect DEF Running, Handle
        <3>2. ~Refuses(o, k)
            BY <2>1 DEF Paying, RefundMade
        <3> HIDE DEF o
        <3>3. \A j \in Kinds \ {k} : o.take[j] = 0
            BY <3>1, InitiateSets
        <3>4. \A j \in Kinds : ~Refuses(o, j)
            BY <3>2, <3>3 DEF Refuses
        <3> QED
            BY <3>4 DEF o
    <2>4. PICK e \in sent' : Notice(e) /\ e.kind = k /\ (e \in sent \/ e \in inbox')
        BY <2>1, RefundIsAnnounced DEF Alone
    <2>5. e \notin sent
        BY <1>4, <2>4 DEF SettleInv, OwnRefunds, NoticesAreOwn
    <2> QED
        BY <2>2, <2>3, <2>4, <2>5
<1> QED
    BY <1>3, <1>4

LEMMA OwnRefundsStep ==
    ASSUME Alone, SettleInv, [Next]_vars
    PROVE  OwnRefunds'
<1>0. TypeInv /\ LandInv /\ NoticesAreOwn' /\ \A e \in sent : e.kind \in Kinds
    BY OwnStep DEF SettleInv, DisputeInv, TypeInv, LandInv, Shape, IsEvent, Alone, OwnRefunds
<1>1. ASSUME stripe' = stripe, \A e \in sent' : e \in sent \/ ~Notice(e),
             \A k \in Kinds : db[k] # "none" => db'[k] # "none"
      PROVE  OwnRefunds'
    BY <1>0, <1>1 DEF SettleInv, OwnRefunds, Notice
<1>2. ASSUME NEW s \in Sessions, CallStripe(s) PROVE OwnRefunds'
    <2> DEFINE E == RefundEvents(Running(s), sess[s].seen.oldest) \ sent
    <2>1. sent' = sent \cup E /\ db' = db
        BY <1>2 DEF CallStripe
    <2>2. ASSUME NEW e \in E PROVE e.ref # "admin"
        <3>1. PICK k \in Kinds : Paying(s, k)
            BY <1>0, <1>2, NoticesAreTyped
        <3> QED
            BY <1>0, <1>2, <3>1, OwnCalls, NoticeRefs DEF Alone
    <2>3. ASSUME NEW k \in Kinds
          PROVE  /\ DOMAIN stripe'[k].made \subseteq {"dispute"}
                 /\ stripe'[k].intent = "succeeded" \/ DOMAIN stripe'[k].made # {} => db[k] # "none"
        <3>1. CASE Paying(s, k)
            <4>1. stripe[k].intent = "succeeded"
                BY <1>0, <1>2, <3>1, CallMakes
            <4>2. \A r \in DOMAIN stripe'[k].made : r \in DOMAIN stripe[k].made \/ r = Running(s).ref
                BY <1>0, <1>2, MadeStays
            <4>3. Running(s).ref = "dispute"
                BY <1>0, <1>2, <3>1, OwnCalls DEF Alone
            <4> QED
                BY <4>1, <4>2, <4>3 DEF SettleInv, OwnRefunds
        <3>2. CASE ~Paying(s, k)
            <4>1. stripe'[k] = stripe[k]
                BY <1>0, <1>2, <3>2, CallMakes
            <4> QED
                BY <4>1 DEF SettleInv, OwnRefunds
        <3> QED
            BY <3>1, <3>2
    <2> HIDE DEF E
    <2>4. \A e \in sent' : Notice(e) => e.ref # "admin"
        BY <2>1, <2>2 DEF SettleInv, OwnRefunds
    <2> QED
        BY <1>0, <2>1, <2>3, <2>4 DEF OwnRefunds, Notice
<1>3. ASSUME NEW s \in Sessions, Commit(s) PROVE OwnRefunds'
    <2>1. stripe' = stripe /\ \A e \in sent' : e \in sent \/ e \in Running(s).send
        BY <1>3 DEF Commit
    <2>2. \A e \in Running(s).send : e.type = "refund.initiate"
        <3>1. (sess[s].op \in Request \/ IsEvent(sess[s].op)) /\ DOMAIN sess[s].seen = RowColumns
            BY <1>0, <1>3 DEF Commit, LandInv, Shape, Grounded
        <3> QED
            BY <3>1, HandleIsTame DEF Running, Tame
    <2>3. \A k \in Kinds : db[k] # "none" => db'[k] # "none"
        BY <1>0, <1>3, CommitRows
    <2> QED
        BY <1>1, <2>1, <2>2, <2>3 DEF Notice
<1>4. ASSUME stripe' = stripe, sent' = sent, db' = db PROVE OwnRefunds'
    BY <1>1, <1>4
<1>5. ASSUME NEW k \in Kinds, Pay(k) \/ Decline(k) \/ CancelIntent(k) \/ OpenChargeback(k)
      PROVE  OwnRefunds'
    <2>1. \A j \in Kinds : /\ stripe'[j].made = stripe[j].made
                           /\ stripe'[j].intent = "succeeded" =>
                                  stripe[j].intent = "succeeded" \/ db[j] # "none"
        BY <1>0, <1>5 DEF Pay, Decline, CancelIntent, OpenChargeback, TypeInv, StripeTyped
    <2>2. (\A e \in sent' : e \in sent \/ ~Notice(e)) /\ db' = db
        BY <1>5 DEF Pay, Decline, CancelIntent, OpenChargeback, Notify, Event, Op, Notice
    <2> QED
        BY <1>0, <2>1, <2>2 DEF SettleInv, OwnRefunds, Notice
<1> QED
    BY <1>2, <1>3, <1>4, <1>5 DEF Next, BeginRequest, BeginEvent, Crash, vars

LEMMA SettleStep ==
    ASSUME Alone
    PROVE  SettleInv /\ [Next]_vars => SettleInv'
<1> SUFFICES ASSUME SettleInv, [Next]_vars PROVE SettleInv'
    OBVIOUS
<1>1. TypeInv /\ ReadsLast' /\ OwnRefunds'
    BY AloneReadsLast, OwnRefundsStep DEF SettleInv, DisputeInv, Alone
<1>2. DisputeInv'
    <2>1. ResolvesApart /\ OwnNotices
        BY <1>1, OwnIsOwn DEF Alone, OneSession, ResolvesApart, SettleInv, OwnRefunds
    <2> QED
        BY <2>1, DisputeStep DEF SettleInv
<1>3. ASSUME NEW k \in Kinds PROVE Settling(k)'
    <2>1. ASSUME NEW s \in Sessions, NEW op \in Request, BeginRequest(s, op) PROVE Settling(k)'
        BY <2>1, SettleBegin DEF BeginRequest
    <2>2. ASSUME NEW s \in Sessions, NEW e \in inbox, BeginEvent(s, e) PROVE Settling(k)'
        BY <2>2, SettleBegin DEF BeginEvent
    <2>3. ASSUME NEW s \in Sessions, CallStripe(s) PROVE Settling(k)'
        BY <2>3, SettleCall
    <2>4. ASSUME NEW s \in Sessions, Commit(s) PROVE Settling(k)'
        BY <2>4, SettleCommit
    <2>5. ASSUME NEW s \in Sessions, Crash(s) PROVE FALSE
        BY <2>5 DEF Crash, Alone
    <2>6. ASSUME db' = db, sess' = sess, \A j \in Kinds : stripe'[j].made = stripe[j].made,
                 inbox \subseteq inbox', sent \subseteq sent'
          PROVE  Settling(k)'
        BY <2>6 DEF SettleInv, Settling, Waiting, Holds, Notice
    <2>7. ASSUME NEW j \in Kinds, Pay(j) \/ Decline(j) \/ CancelIntent(j) \/ OpenChargeback(j)
          PROVE  Settling(k)'
        <3>1. db' = db /\ sess' = sess /\ inbox \subseteq inbox' /\ sent \subseteq sent'
            BY <2>7 DEF Pay, Decline, CancelIntent, OpenChargeback, Notify
        <3>2. \A i \in Kinds : stripe'[i].made = stripe[i].made
            BY <1>1, <2>7 DEF Pay, Decline, CancelIntent, OpenChargeback, TypeInv, StripeTyped
        <3> QED
            BY <2>6, <3>1, <3>2
    <2>8. CASE UNCHANGED vars
        BY <2>6, <2>8 DEF vars
    <2> QED
        BY <2>1, <2>2, <2>3, <2>4, <2>5, <2>7, <2>8 DEF Next
<1> QED
    BY <1>1, <1>2, <1>3 DEF SettleInv

LEMMA SettledCases == SettleInv => CasesSettle
<1> SUFFICES ASSUME SettleInv, Quiet, NEW k \in Kinds,
                    NEW by \in {"admin", "dispute"} \cap DOMAIN stripe[k].made
             PROVE  db[Column[k][by]].status = "refunded"
    BY DEF CasesSettle
<1>1. by = "dispute"
    BY DEF SettleInv, OwnRefunds
<1>2. inbox = {} /\ \A s \in Sessions : ~sess[s].busy
    BY DEF Quiet
<1>3. db[Dis(k)].status = "refunded"
    BY <1>1, <1>2 DEF SettleInv, Settling, Waiting, Holds
<1> QED
    BY <1>1, <1>3 DEF Dis

\* Once every event was applied, the case of each refund made for a dispute says
\* so, whatever order events come in and whatever was retried: with one session
\* at a time, none of which dies, where only disputes refund and Stripe sends
\* one of its refund notices (initiate_refund_case, finalize_refund_case_success).
THEOREM CasesSettleAlone ==
    ASSUME Alone
    PROVE  Spec => []CasesSettle
<1>1. Init => ReadsLast /\ OwnRefunds /\ \A k \in Kinds : Settling(k)
    BY DEF Init, ReadsLast, Idle, OwnRefunds, NoticesAreOwn, Settling
<1>2. Init => SettleInv
    BY <1>1, DisputeInit DEF SettleInv
<1>3. SettleInv /\ [Next]_vars => SettleInv'
    BY SettleStep
<1> QED
    BY <1>2, <1>3, SettledCases, PTL DEF Spec
=============================================================================
