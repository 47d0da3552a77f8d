------------------------------ MODULE Disputes ------------------------------
(***************************************************************************)
(* The disputes over one paid gig: api/app/services/disputes.py,           *)
(* api/app/api/v1/disputes.py, the dispute and refund endpoints of         *)
(* api/v1/admin.py, and the sweep of api/app/tasks/dispute_tasks.py.       *)
(*                                                                         *)
(* Every request, worker and sweep reads the dispute, and writes it at its *)
(* commit: only the columns whose value it changed, whatever was committed *)
(* in between.  A dispute about money freezes the client's downloads; one  *)
(* against the photographer holds the gig's earnings.  What the refund     *)
(* does to the gig, its payments and its earnings is in GigPayments.       *)
(***************************************************************************)
EXTENDS Integers, FiniteSets, Sequences

CONSTANTS
    DisputeIds,      \* dispute rows over the gig
    ByPro,           \* those the photographer opens, the others are the client's
    AboutMoney,      \* those of category fraud, billing or payment
    DisputeSessions, \* requests, workers and sweeps that may overlap
    Decisions,       \* what an administrator may decide
    StatusEdits,     \* statuses an administrator may set by hand
    OpenLimit,       \* dispute_open_limit_30d
    MaxDecisions     \* bound of the decisions on all of them

ASSUME DisputesAssumption ==
    /\ ByPro \subseteq DisputeIds /\ AboutMoney \subseteq DisputeIds
    /\ Decisions \subseteq {"full_refund", "partial_refund", "no_refund"}
    /\ OpenLimit \in Nat /\ MaxDecisions \in Nat

Awaiting == {"open", "awaiting_response", "in_review"}
Resolved == {"resolved_refund", "resolved_partial_refund", "resolved_no_refund"}
Final == Resolved \cup {"closed", "cancelled"}
Outcome(d) == CASE d = "full_refund" -> "resolved_refund"
                [] d = "partial_refund" -> "resolved_partial_refund"
                [] d = "no_refund" -> "resolved_no_refund"

VARIABLES
    dispute,   \* status of each, "none" before it is opened
    resolution, \* resolution.decision of each
    acted,     \* disputes with an event by an administrator
    decisions, \* how many decisions were committed
    frozen,    \* active downloads_frozen holds of the gig's client
    heldBack,  \* active earnings holds of the gig
    cases,     \* the refund_case rows of each dispute
    docket,      \* what each session has read
    settled,   \* history: the decisions committed on each, "paid" after a refund
    lifted     \* history: whether an administrator lifted a freeze by hand

disputeVars == <<dispute, resolution, acted, decisions, frozen, heldBack, cases, docket, settled, lifted>>
rowVars == <<dispute, resolution, acted, decisions>>
holdVars == <<frozen, heldBack, lifted>>

Exists(d) == dispute[d] # "none"
OpenedBy(u) == {d \in DisputeIds : Exists(d) /\ (d \in ByPro <=> u = "pro")}
Against(d) == IF d \in ByPro THEN "client" ELSE "pro"

\* due says that a stored event asks for the refund, known that Stripe has it.
RefundCase(decision) == [status |-> "pending", decision |-> decision, due |-> TRUE, known |-> FALSE]
CaseAt(d, i) == i \in DOMAIN cases[d]

NoDocket == [op |-> "idle"]
DocketIdle(s) == docket[s] = NoDocket
DocketDone(s) == docket' = [docket EXCEPT ![s] = NoDocket]

\* SQLAlchemy writes a column only if it is not what was read.
Change(d, to) == IF to = dispute[d] THEN "none" ELSE to
Reads(s, op, d, to) ==
    /\ DocketIdle(s) /\ Exists(d)
    /\ docket' = [docket EXCEPT ![s] = [op |-> op, dispute |-> d, change |-> Change(d, to)]]
DisputeWritten(s) ==
    [dispute EXCEPT ![docket[s].dispute] = IF docket[s].change = "none" THEN @ ELSE docket[s].change]

----------------------------------------------------------------------------
(* The participants *)

\* active_entitlement_hold expects one row: two active holds, which no key
\* prevents, make it raise.
HoldIsFound == frozen <= 1
\* apply_entitlement_hold adds none to the one it finds.
AddsHold(d) == d \in AboutMoney /\ frozen = 0

\* create_dispute counts the opener's disputes and looks at the holds unlocked.
BeginDispute(s, d) ==
    LET opener == IF d \in ByPro THEN "pro" ELSE "client"
    IN  /\ DocketIdle(s) /\ ~Exists(d)
        /\ \A t \in DisputeSessions : docket[t].op = "open" => docket[t].dispute # d
        /\ Cardinality(OpenedBy(opener)) < OpenLimit
        /\ d \in AboutMoney => HoldIsFound
        /\ docket' = [docket EXCEPT ![s] = [op |-> "open", dispute |-> d,
                                            freezes |-> AddsHold(d)]]
        /\ UNCHANGED <<rowVars, holdVars, cases, settled>>

CommitDispute(s) ==
    LET d == docket[s].dispute
    IN  /\ docket[s].op = "open"
        /\ dispute' = [dispute EXCEPT ![d] = "open"]
        /\ frozen' = IF docket[s].freezes THEN frozen + 1 ELSE frozen
        /\ heldBack' = IF Against(d) = "pro" THEN heldBack + 1 ELSE heldBack
        /\ DocketDone(s)
        /\ UNCHANGED <<resolution, acted, decisions, lifted, cases, settled>>

\* post_dispute_message, to a dispute in any status.  Each sender's limit of
\* ten a day is left out: a message changes nothing else here.
AfterMessage(status) ==
    CASE status = "open" -> "awaiting_response"
      [] status = "awaiting_response" -> "in_review"
      [] OTHER -> status

BeginMessage(s, d) ==
    /\ Reads(s, "message", d, AfterMessage(dispute[d]))
    /\ UNCHANGED <<rowVars, holdVars, cases, settled>>

CommitMessage(s) ==
    /\ docket[s].op = "message"
    /\ dispute' = DisputeWritten(s)
    /\ DocketDone(s)
    /\ UNCHANGED <<resolution, acted, decisions, holdVars, cases, settled>>

\* One admin event is refused, several make the query raise: both end it.
BeginCancel(s, d) ==
    /\ dispute[d] \notin Final /\ d \notin acted
    /\ Reads(s, "cancel", d, "cancelled")
    /\ UNCHANGED <<rowVars, holdVars, cases, settled>>

CommitCancel(s) ==
    /\ docket[s].op = "cancel"
    /\ dispute' = DisputeWritten(s)
    /\ DocketDone(s)
    /\ UNCHANGED <<resolution, acted, decisions, holdVars, cases, settled>>

----------------------------------------------------------------------------
(* The sweep that escalates *)

\* escalate_due_disputes, which the beat and the outbox may run at once: due
\* are those whose time to respond has passed, at whatever time that is.
BeginSweepDue(s, due) ==
    /\ DocketIdle(s) /\ due # {}
    /\ \A d \in due : dispute[d] \in Awaiting
    /\ docket' = [docket EXCEPT ![s] = [op |-> "sweep", due |-> due]]
    /\ UNCHANGED <<rowVars, holdVars, cases, settled>>

\* A row that fails is rolled back alone; the others are written over
\* whatever was decided meanwhile.
CommitSweepDue(s, done) ==
    /\ docket[s].op = "sweep" /\ done \subseteq docket[s].due
    /\ dispute' = [d \in DisputeIds |-> IF d \in done THEN "awaiting_admin" ELSE dispute[d]]
    /\ DocketDone(s)
    /\ UNCHANGED <<resolution, acted, decisions, holdVars, cases, settled>>

----------------------------------------------------------------------------
(* The administrators *)

\* admin_set_dispute_status writes an event, update_dispute_status does not.
BeginEdit(s, d, to) ==
    /\ Reads(s, "edit", d, to)
    /\ UNCHANGED <<rowVars, holdVars, cases, settled>>

CommitEdit(s, logged) ==
    /\ docket[s].op = "edit"
    /\ dispute' = DisputeWritten(s)
    /\ acted' = IF logged THEN acted \cup {docket[s].dispute} ELSE acted
    /\ DocketDone(s)
    /\ UNCHANGED <<resolution, decisions, holdVars, cases, settled>>

SeesCasesMutByStatus(d) == dispute[d] \in Resolved
\* create_or_get_refund_case_for_dispute reads the dispute's cases unlocked.
SeesCases(d) == cases[d] # <<>>

BeginResolve(s, d, decision) ==
    /\ DocketIdle(s) /\ Exists(d) /\ decisions < MaxDecisions
    /\ docket' = [docket EXCEPT ![s] = [op |-> "resolve", dispute |-> d,
                                        change |-> Change(d, Outcome(decision)),
                                        decision |-> decision, hasCase |-> SeesCases(d)]]
    /\ UNCHANGED <<rowVars, holdVars, cases, settled>>

EasesMutAnyDecision(decision) == TRUE
\* Only a refusal gives the downloads and the earnings back at once.
Eases(decision) == decision = "no_refund"

\* The holds that are looked for are the opener's own, and those on the
\* earnings of whom the dispute is against: a photographer's finds none.
CommitResolve(s) ==
    LET d == docket[s].dispute
        decision == docket[s].decision
        eases == Eases(decision) /\ Against(d) = "pro"
        opensCase == decision # "no_refund" /\ ~docket[s].hasCase
    IN  /\ docket[s].op = "resolve"
        /\ dispute' = DisputeWritten(s)
        /\ resolution' = [resolution EXCEPT ![d] = decision]
        /\ acted' = acted \cup {d} /\ decisions' = decisions + 1
        /\ frozen' = IF eases THEN 0 ELSE frozen
        /\ heldBack' = IF eases THEN 0 ELSE heldBack
        /\ cases' = IF opensCase THEN [cases EXCEPT ![d] = Append(@, RefundCase(decision))] ELSE cases
        /\ settled' = [settled EXCEPT ![d] = @ \cup {decision}]
        /\ DocketDone(s)
        /\ UNCHANGED lifted

\* release_entitlement_hold_admin, one row
LiftFreeze ==
    /\ frozen > 0 /\ frozen' = frozen - 1 /\ lifted' = TRUE
    /\ UNCHANGED <<rowVars, heldBack, cases, docket, settled>>

\* retry_refund_case stores another event, once a minute.
RetryCase(d, i) ==
    /\ CaseAt(d, i) /\ cases[d][i].status \in {"failed", "pending", "refund_initiated"}
    /\ cases' = [cases EXCEPT ![d][i].due = TRUE]
    /\ UNCHANGED <<rowVars, holdVars, docket, settled>>

----------------------------------------------------------------------------
(* The refunds *)

\* initiate_refund_case: nothing is asked of a case that was paid back.
InitiateCase(d, i) ==
    /\ CaseAt(d, i) /\ cases[d][i].due
    /\ cases' = [cases EXCEPT ![d][i] =
                    IF @.status = "refunded" THEN [@ EXCEPT !.due = FALSE]
                    ELSE [@ EXCEPT !.due = FALSE, !.known = TRUE, !.status = "refund_initiated"]]
    /\ UNCHANGED <<rowVars, holdVars, docket, settled>>

\* finalize_refund_case_success looks for the opener's one active hold.
BeginPaidBack(s, d, i) ==
    /\ CaseAt(d, i) /\ cases[d][i].known
    /\ DocketIdle(s)
    /\ docket' = [docket EXCEPT ![s] = [op |-> "paid", dispute |-> d, case |-> i,
                                        change |-> Change(d, Outcome(cases[d][i].decision))]]
    /\ UNCHANGED <<rowVars, holdVars, cases, settled>>

CommitPaidBack(s) ==
    LET d == docket[s].dispute
        i == docket[s].case
        eases == Against(d) = "pro"
    IN  /\ docket[s].op = "paid"
        /\ eases => HoldIsFound
        /\ cases' = [cases EXCEPT ![d][i].status = "refunded"]
        /\ dispute' = DisputeWritten(s)
        /\ frozen' = IF eases THEN 0 ELSE frozen
        /\ heldBack' = IF eases THEN 0 ELSE heldBack
        /\ settled' = [settled EXCEPT ![d] = @ \cup {"paid"}]
        /\ DocketDone(s)
        /\ UNCHANGED <<resolution, acted, decisions, lifted>>

\* finalize_refund_case_failed
CaseFails(d, i) ==
    /\ CaseAt(d, i) /\ cases[d][i].known
    /\ cases' = [cases EXCEPT ![d][i].status = "failed"]
    /\ UNCHANGED <<rowVars, holdVars, docket, settled>>

\* A request dies, or is refused at the end
GiveUpDispute(s) ==
    /\ ~DocketIdle(s) /\ DocketDone(s)
    /\ UNCHANGED <<rowVars, holdVars, cases, settled>>

----------------------------------------------------------------------------
DisputesInit ==
    /\ dispute = [d \in DisputeIds |-> "none"] /\ resolution = [d \in DisputeIds |-> "none"]
    /\ acted = {} /\ decisions = 0
    /\ frozen = 0 /\ heldBack = 0 /\ cases = [d \in DisputeIds |-> <<>>]
    /\ docket = [s \in DisputeSessions |-> NoDocket]
    /\ settled = [d \in DisputeIds |-> {}] /\ lifted = FALSE

DisputesNext ==
    \/ \E s \in DisputeSessions, d \in DisputeIds :
          \/ BeginDispute(s, d) \/ BeginMessage(s, d) \/ BeginCancel(s, d)
          \/ \E to \in StatusEdits : BeginEdit(s, d, to)
          \/ \E decision \in Decisions : BeginResolve(s, d, decision)
          \/ \E i \in DOMAIN cases[d] : BeginPaidBack(s, d, i)
    \/ \E s \in DisputeSessions :
          \/ CommitDispute(s) \/ CommitMessage(s) \/ CommitCancel(s)
          \/ \E ds \in SUBSET DisputeIds : BeginSweepDue(s, ds) \/ CommitSweepDue(s, ds)
          \/ \E logged \in BOOLEAN : CommitEdit(s, logged)
          \/ CommitResolve(s) \/ CommitPaidBack(s) \/ GiveUpDispute(s)
    \/ \E d \in DisputeIds : \E i \in DOMAIN cases[d] : RetryCase(d, i) \/ InitiateCase(d, i) \/ CaseFails(d, i)
    \/ LiftFreeze

DisputesSpec == DisputesInit /\ [][DisputesNext]_disputeVars
----------------------------------------------------------------------------
DisputesTypeOK ==
    /\ \A d \in DisputeIds :
          /\ dispute[d] \in {"none", "awaiting_admin", "under_review"} \cup Awaiting \cup Final
          /\ resolution[d] \in Decisions \cup {"none"}
          /\ settled[d] \subseteq Decisions \cup {"paid"}
          /\ Len(cases[d]) <= Cardinality(DisputeSessions)
    /\ acted \subseteq DisputeIds
    /\ decisions \in 0..(MaxDecisions + Cardinality(DisputeSessions) - 1)
    /\ frozen \in 0..Cardinality(DisputeSessions) /\ heldBack \in 0..Cardinality(DisputeIds)

\* A decision is not lost, though a message, a cancellation, an edit or the
\* escalation that read the dispute before it write their status over it
\* (escalate_due_disputes): the row keeps the decision, and the refund it
\* grants has its case, which is asked for until Stripe has it.
DecisionSurvives ==
    \A d \in DisputeIds :
        /\ settled[d] # {} => resolution[d] \in settled[d]
        /\ cases[d] # <<>> <=> settled[d] \cap {"full_refund", "partial_refund"} # {}
        /\ \A i \in DOMAIN cases[d] : cases[d][i].due \/ cases[d][i].known

\* Until a dispute of the client was refused or paid back, or the freeze was
\* lifted by hand, a dispute about money freezes the downloads and one of the
\* client holds the earnings, in whatever order disputes are opened, messaged,
\* cancelled and escalated (disputes.py:266-276).
HeldUntilSettled ==
    \/ \E d \in OpenedBy("client") : settled[d] \cap {"no_refund", "paid"} # {}
    \/ /\ (\E d \in AboutMoney : Exists(d)) /\ ~lifted => frozen > 0
       /\ OpenedBy("client") # {} => heldBack > 0
=============================================================================
