-------------------------------- MODULE Prints --------------------------------
(***************************************************************************)
(* One print order from its creation to production:                        *)
(* api/app/services/prints_fulfillment.py, api/v1/prints.py and the print  *)
(* branches of the Stripe webhook.                                         *)
(*                                                                         *)
(* A request or an event reads the order when it begins and writes when it *)
(* commits; a column is written only if it changed.  The lines of an order *)
(* are the edits that put them there: two edits that overlap both insert   *)
(* theirs, and each deletes the lines it had read.                         *)
(***************************************************************************)
EXTENDS Integers, Sequences, FiniteSets

CONSTANTS
    Clients,      \* requests of the client that may overlap
    Printers,     \* outbox workers that may overlap
    Edits,        \* the line sets the client sends, the first with the order
    SetStatuses,  \* statuses an admin gives the order
    MaxFailures   \* bound on the failed attempts of the payment intent

PrintOrderStatus == {"draft", "pending_payment", "paid", "in_production", "shipped",
                     "delivered", "cancelled", "refunded", "failed"}

ASSUME PrintsAssumption ==
    /\ MaxFailures \in Nat /\ IsFiniteSet(Edits)
    /\ SetStatuses \subseteq PrintOrderStatus /\ Clients \cap Printers = {}

VARIABLES
    print,      \* the print_order row and its lines
    unsent,     \* edits the client has not sent
    onSale,     \* the product and its partner are active
    charge,     \* Stripe's payment intent
    notices,    \* webhook events and export events that wait in the outbox
    jobs,       \* print_export_job rows
    printing    \* what each open transaction has read

printVars == <<print, unsent, onSale, charge, notices, jobs, printing>>

NoPrint == [status |-> "none", lines |-> {}, total |-> 0, intent |-> FALSE]
PrintRow == [status : PrintOrderStatus \cup {"none"}, lines : SUBSET Edits, total : 0..Cardinality(Edits),
          intent : BOOLEAN]
NoCharge == [state |-> "none", amount |-> 0, failures |-> 0]
Charge == [state : {"none", "open", "captured", "canceled", "refunded"},
           amount : 0..Cardinality(Edits), failures : 0..MaxFailures]
Job == [status : {"queued", "done", "failed"}, lines : SUBSET Edits]
Notice == [type : {"succeeded", "payment_failed", "canceled", "refunded", "export"}, number : Nat]

NotPrinting == [op |-> "idle", on |-> [type |-> "none", number |-> 0], row |-> NoPrint, edit |-> {}]

\* one line per edit, all at one price; _recalc_order_totals
Price(lines) == Cardinality(lines)

WithStatus(row, from, to) == IF from = to THEN row ELSE [row EXCEPT !.status = to]
Tell(type, n) == notices' = notices \cup {[type |-> type, number |-> n]}

OpenPrint(a, op, on, edit) ==
    /\ printing[a] = NotPrinting
    /\ printing' = [printing EXCEPT ![a] = [op |-> op, on |-> on, row |-> print, edit |-> edit]]
ClosePrint(a) == printing' = [printing EXCEPT ![a] = NotPrinting]

----------------------------------------------------------------------------
(* The client *)

\* create_print_order: the order waits for payment as soon as it exists
CreatePrintOrder(e) ==
    /\ print = NoPrint /\ e \in unsent /\ onSale
    /\ print' = [status |-> "pending_payment", lines |-> {e}, total |-> Price({e}), intent |-> FALSE]
    /\ unsent' = unsent \ {e}
    /\ UNCHANGED <<onSale, charge, notices, jobs, printing>>

\* update_print_order
BeginUpdate(c, e) ==
    /\ print.status \in {"draft", "pending_payment"} /\ onSale
    /\ e \in unsent
    /\ OpenPrint(c, "update", NotPrinting.on, {e})
    /\ unsent' = unsent \ {e}
    /\ UNCHANGED <<print, onSale, charge, notices, jobs>>

CommitUpdate(c) ==
    LET t == printing[c]
        lines == (print.lines \ t.row.lines) \cup t.edit
    IN  /\ t.op = "update"
        /\ print' = [print EXCEPT !.lines = lines, !.total = Price(lines)]
        /\ ClosePrint(c)
        /\ UNCHANGED <<unsent, onSale, charge, notices, jobs>>

Payable == {"draft", "pending_payment", "failed"}

\* create_print_payment_intent: Stripe gives one intent for the order's key,
\* and refuses the key with another amount
BeginPay(c) ==
    /\ print.status \in Payable /\ print.total > 0 /\ ~print.intent
    /\ charge.state = "none" \/ charge.amount = print.total
    /\ OpenPrint(c, "pay", NotPrinting.on, {})
    /\ charge' = IF charge.state = "none"
                 THEN [state |-> "open", amount |-> print.total, failures |-> 0] ELSE charge
    /\ UNCHANGED <<print, unsent, onSale, notices, jobs>>

CommitPay(c) ==
    /\ printing[c].op = "pay"
    /\ print' = [WithStatus(print, printing[c].row.status, "pending_payment") EXCEPT !.intent = TRUE]
    /\ ClosePrint(c)
    /\ UNCHANGED <<unsent, onSale, charge, notices, jobs>>

----------------------------------------------------------------------------
(* Stripe: the client can pay once a request has committed and answered *)

Capture ==
    /\ print.intent /\ charge.state = "open"
    /\ charge' = [charge EXCEPT !.state = "captured"]
    /\ Tell("succeeded", 0)
    /\ UNCHANGED <<print, unsent, onSale, jobs, printing>>

FailCharge ==
    /\ print.intent /\ charge.state = "open" /\ charge.failures < MaxFailures
    /\ charge' = [charge EXCEPT !.failures = @ + 1]
    /\ Tell("payment_failed", charge.failures + 1)
    /\ UNCHANGED <<print, unsent, onSale, jobs, printing>>

CancelCharge ==
    /\ print.intent /\ charge.state = "open"
    /\ charge' = [charge EXCEPT !.state = "canceled"]
    /\ Tell("canceled", 0)
    /\ UNCHANGED <<print, unsent, onSale, jobs, printing>>

RefundCharge ==
    /\ charge.state = "captured"
    /\ charge' = [charge EXCEPT !.state = "refunded"]
    /\ Tell("refunded", 0)
    /\ UNCHANGED <<print, unsent, onSale, jobs, printing>>

----------------------------------------------------------------------------
(* The outbox workers *)

BeginNotice(w, n) ==
    /\ n \in notices
    /\ \A v \in Printers : printing[v].on # n
    /\ OpenPrint(w, n.type, n, {})
    /\ UNCHANGED <<print, unsent, onSale, charge, notices, jobs>>

Deliver(w, more) ==
    /\ notices' = (notices \ {printing[w].on}) \cup more
    /\ ClosePrint(w)
    /\ UNCHANGED <<unsent, onSale, charge>>

SucceededMutPendingOnly(w) ==
    LET t == printing[w]
        pending == t.row.status = "pending_payment"
    IN  /\ t.op = "succeeded"
        /\ print' = IF pending THEN WithStatus(print, t.row.status, "paid") ELSE print
        /\ jobs' = IF pending THEN Append(jobs, [status |-> "queued", lines |-> {}]) ELSE jobs
        /\ Deliver(w, IF pending THEN {[type |-> "export", number |-> Len(jobs) + 1]} ELSE {})
\* on_print_payment_succeeded, whatever the order's status
Succeeded(w) ==
    LET t == printing[w]
    IN  /\ t.op = "succeeded"
        /\ print' = WithStatus(print, t.row.status, "paid")
        /\ jobs' = Append(jobs, [status |-> "queued", lines |-> {}])
        /\ Deliver(w, {[type |-> "export", number |-> Len(jobs) + 1]})

\* on_print_payment_failed, also for a canceled intent
Failed(w) ==
    /\ printing[w].op \in {"payment_failed", "canceled"}
    /\ print' = WithStatus(print, printing[w].row.status, "failed")
    /\ Deliver(w, {})
    /\ UNCHANGED jobs

\* on_print_refund_event
Refunded(w) ==
    LET seen == printing[w].row.status
    IN  /\ printing[w].op = "refunded"
        /\ print' = IF seen \in {"pending_payment", "paid"} THEN WithStatus(print, seen, "refunded") ELSE print
        /\ Deliver(w, {})
        /\ UNCHANGED jobs

\* run_print_export_job: an exception leaves a failed job and is swallowed
Export(w) ==
    LET t == printing[w]
        k == t.on.number
    IN  /\ t.op = "export"
        /\ \E done \in BOOLEAN :
               /\ jobs' = [jobs EXCEPT ![k] = [status |-> IF done THEN "done" ELSE "failed",
                                               lines |-> IF done THEN print.lines ELSE {}]]
               /\ print' = IF done THEN WithStatus(print, t.row.status, "in_production") ELSE print
        /\ Deliver(w, {})

CrashPrinting(a) ==
    /\ printing[a] # NotPrinting
    /\ ClosePrint(a)
    /\ UNCHANGED <<print, unsent, onSale, charge, notices, jobs>>

----------------------------------------------------------------------------
(* The admin *)

AdminSetStatus(status) ==
    /\ print # NoPrint /\ print.status # status
    /\ print' = [print EXCEPT !.status = status]
    /\ UNCHANGED <<unsent, onSale, charge, notices, jobs, printing>>

AdminSetTracking ==
    /\ print.status \in {"in_production", "paid"}
    /\ print' = [print EXCEPT !.status = "shipped"]
    /\ UNCHANGED <<unsent, onSale, charge, notices, jobs, printing>>

\* upsert_print_product, upsert_print_partner
TakeOffSale ==
    /\ onSale
    /\ onSale' = FALSE
    /\ UNCHANGED <<print, unsent, charge, notices, jobs, printing>>

----------------------------------------------------------------------------
PrintsInit ==
    /\ print = NoPrint /\ unsent = Edits /\ onSale = TRUE
    /\ charge = NoCharge /\ notices = {} /\ jobs = <<>>
    /\ printing = [a \in Clients \cup Printers |-> NotPrinting]

PrintsNext ==
    \/ \E e \in Edits : CreatePrintOrder(e) \/ \E c \in Clients : BeginUpdate(c, e)
    \/ \E c \in Clients : CommitUpdate(c) \/ BeginPay(c) \/ CommitPay(c)
    \/ Capture \/ FailCharge \/ CancelCharge \/ RefundCharge
    \/ \E w \in Printers : \/ \E n \in notices : BeginNotice(w, n)
                           \/ Succeeded(w) \/ Failed(w) \/ Refunded(w) \/ Export(w)
    \/ \E a \in Clients \cup Printers : CrashPrinting(a)
    \/ \E status \in SetStatuses : AdminSetStatus(status)
    \/ AdminSetTracking \/ TakeOffSale

PrintsSpec == PrintsInit /\ [][PrintsNext]_printVars

----------------------------------------------------------------------------
(* Properties *)

PrintsTypeOK ==
    /\ print \in PrintRow /\ unsent \subseteq Edits /\ onSale \in BOOLEAN
    /\ charge \in Charge /\ notices \subseteq Notice /\ jobs \in Seq(Job)

Waits(type) == \E n \in notices : n.type = type

\* A payment that was captured is produced once: until its event is applied
\* it waits, afterwards the order has one export job, whose event waits or has
\* run, whatever failed attempts, refunds, admins and crashes come between.
\* Nothing is exported that was not paid.
CaptureIsExportedOnce ==
    IF charge.state \in {"captured", "refunded"} /\ ~Waits("succeeded")
    THEN /\ Len(jobs) = 1
         /\ jobs[1].status = "queued" <=> Waits("export")
    ELSE jobs = <<>>
=============================================================================
