------------------------------ MODULE Repairs ------------------------------
(***************************************************************************)
(* Repair tickets for a photographer's gear, the loaner asked for while a  *)
(* ticket is open, and a partner's score: api/app/api/v1/repairs.py and    *)
(* api/app/services/repair.py.                                             *)
(*                                                                         *)
(* The handlers of tickets and gear items read when they begin and write   *)
(* when they commit, so they may overlap; those of loaners and policies    *)
(* are one step.                                                           *)
(***************************************************************************)
EXTENDS Integers, FiniteSets

CONSTANTS
    RepairTickets, \* rows a repair ticket may take
    GearItems,     \* the photographer's gear items
    Benches,       \* repair partners
    Movers,        \* requests about tickets, and
    Removers,      \* requests to remove a gear item, that may overlap
    Moves,         \* the statuses a ticket and
    LoanerSteps,   \* a loaner is set to
    Overrides      \* admin decisions on the photographer's access

ASSUME RepairsAssumption == Overrides \subseteq {"none", "allowed", "blocked"}

VARIABLES
    owned,     \* gear_item: the rows there are
    ticket,    \* repair_ticket
    loaner,    \* loaner_request: the one of the last ticket it was asked for
    bench,     \* repair_partner: is_active, and which terms it has
    access,    \* what can_access_gear_benefits reads: override and standing
    desk       \* what each request has read

repairVars == <<owned, ticket, loaner, bench, access, desk>>

\* REPAIR_ALLOWED_TRANSITIONS
TicketMoves ==
    [submitted |-> {"partner_assigned", "cancelled"},
     partner_assigned |-> {"awaiting_quote", "cancelled"},
     awaiting_quote |-> {"quote_sent", "cancelled"},
     quote_sent |-> {"quote_approved", "quote_declined", "cancelled"},
     quote_approved |-> {"in_repair"},
     quote_declined |-> {"closed", "cancelled"},
     in_repair |-> {"ready_for_return"},
     ready_for_return |-> {"shipped_back"},
     shipped_back |-> {"closed"},
     closed |-> {}, cancelled |-> {}]

\* LOANER_ALLOWED_TRANSITIONS
LoanerMoves ==
    [requested |-> {"approved", "declined", "cancelled"},
     approved |-> {"ready_for_pickup", "shipped_to_pro", "cancelled"},
     ready_for_pickup |-> {"in_use", "cancelled"},
     shipped_to_pro |-> {"in_use", "cancelled"},
     in_use |-> {"return_due", "returned", "cancelled"},
     return_due |-> {"returned", "cancelled"},
     returned |-> {"closed"},
     declined |-> {}, closed |-> {}, cancelled |-> {}]

Desks == Movers \cup Removers
NoTicket == [status |-> "none", item |-> {}, bench |-> {}, quoted |-> FALSE]
NoLoaner == [status |-> "none", bench |-> {}, terms |-> {}, due |-> FALSE]
NoRequest == [op |-> "idle", on |-> {}, was |-> "none", to |-> "none", item |-> {}]

TicketsHeld == {t \in RepairTickets : ticket[t].status # "none"}

Begin(d, request) ==
    /\ desk[d] = NoRequest
    /\ desk' = [desk EXCEPT ![d] = request]
    /\ UNCHANGED <<owned, ticket, loaner, bench, access>>

Leave(d) == desk' = [desk EXCEPT ![d] = NoRequest]

Save(d, t, row) ==
    /\ ticket' = [ticket EXCEPT ![t] = row]
    /\ Leave(d)
    /\ UNCHANGED <<owned, loaner, bench, access>>

----------------------------------------------------------------------------
(* Gear items *)

CreateItem(i) ==
    /\ i \notin owned
    /\ owned' = owned \cup {i}
    /\ UNCHANGED <<ticket, loaner, bench, access, desk>>

\* delete_gear_item counts the tickets of the item
BeginDelete(d, i) ==
    /\ i \in owned
    /\ \A t \in TicketsHeld : ticket[t].item # {i}
    /\ Begin(d, [NoRequest EXCEPT !.op = "delete", !.item = {i}])

\* The foreign key of repair_ticket.gear_item_id, for a delete and an insert
NotReferencedMutNoKey(items) == TRUE
NotReferenced(items) == \A t \in TicketsHeld : ticket[t].item \cap items = {}
Existing(items) == items \subseteq owned

CommitDelete(d) ==
    /\ desk[d].op = "delete"
    /\ NotReferenced(desk[d].item)
    /\ owned' = owned \ desk[d].item
    /\ Leave(d)
    /\ UNCHANGED <<ticket, loaner, bench, access>>

----------------------------------------------------------------------------
(* Tickets *)

\* create_repair_ticket looks the item up, if the request names one
BeginTicket(d, items) ==
    /\ Existing(items)
    /\ Begin(d, [NoRequest EXCEPT !.op = "create", !.item = items])

CommitTicket(d, t) ==
    /\ desk[d].op = "create" /\ ticket[t] = NoTicket
    /\ Existing(desk[d].item)
    /\ Save(d, t, [NoTicket EXCEPT !.status = "submitted", !.item = desk[d].item])

\* approve_quote, decline_quote, close_ticket, admin_set_ticket_status:
\* transition_repair_ticket decides from the status that was read
BeginMove(d, t, to) ==
    /\ t \in TicketsHeld /\ to \in TicketMoves[ticket[t].status]
    /\ Begin(d, [op |-> "move", on |-> {t}, was |-> ticket[t].status, to |-> to, item |-> {}])

CommitMove(d) ==
    /\ desk[d].op = "move"
    /\ \E t \in desk[d].on : Save(d, t, [ticket[t] EXCEPT !.status = desk[d].to])

\* admin_set_ticket_status of a closed ticket to submitted: a new ticket
Reopen(t, new) ==
    /\ ticket[t].status = "closed" /\ ticket[new] = NoTicket
    /\ ticket' = [ticket EXCEPT ![new] = [ticket[t] EXCEPT !.status = "submitted", !.quoted = FALSE]]
    /\ UNCHANGED <<owned, loaner, bench, access, desk>>

\* admin_set_quote, through awaiting_quote
BeginQuote(d, t) ==
    /\ ticket[t].status \in {"partner_assigned", "awaiting_quote"}
    /\ Begin(d, [NoRequest EXCEPT !.op = "quote", !.on = {t}])

CommitQuote(d) ==
    /\ desk[d].op = "quote"
    /\ \E t \in desk[d].on : Save(d, t, [ticket[t] EXCEPT !.status = "quote_sent", !.quoted = TRUE])

\* admin_assign_partner: also after a quote was sent or approved
BeginAssign(d, t, b) ==
    /\ bench[b].active /\ t \in TicketsHeld
    /\ ticket[t].status \notin
          {"in_repair", "ready_for_return", "shipped_back", "closed", "cancelled"}
    /\ Begin(d, [NoRequest EXCEPT !.op = "assign", !.on = {t}, !.was = ticket[t].status, !.item = {b}])

CommitAssign(d) ==
    /\ desk[d].op = "assign"
    /\ \E t \in desk[d].on :
        Save(d, t, [ticket[t] EXCEPT !.bench = desk[d].item,
                        !.status = IF desk[d].was = "submitted" THEN "partner_assigned" ELSE @])

GiveUpDesk(d) ==
    /\ desk[d] # NoRequest
    /\ Leave(d)
    /\ UNCHANGED <<owned, ticket, loaner, bench, access>>

----------------------------------------------------------------------------
(* Partners, benefits and loaners *)

\* admin_update_repair_partner, admin_set_partner_active
EditBench(b, active) ==
    /\ bench' = [bench EXCEPT ![b] = [active |-> active, terms |-> ~@.terms]]
    /\ UNCHANGED <<owned, ticket, loaner, access, desk>>

\* admin_upsert_gear_override, admin_update_gear_policy, and what moves the
\* photographer's role, ban, KYC and tier
ChangeAccess(override, standing) ==
    /\ access' = [override |-> override, standing |-> standing]
    /\ UNCHANGED <<owned, ticket, loaner, bench, desk>>

\* can_access_gear_benefits: an override that stands decides alone
CanAccess ==
    IF access.override = "none" THEN access.standing ELSE access.override = "allowed"

\* request_loaner
RequestLoaner(t) ==
    /\ t \in TicketsHeld /\ ticket[t].status \notin {"closed", "cancelled"}
    /\ CanAccess /\ loaner = NoLoaner
    /\ loaner' = [NoLoaner EXCEPT !.status = "requested", !.bench = ticket[t].bench]
    /\ UNCHANGED <<owned, ticket, bench, access, desk>>

\* transition_loaner_request
LoanerAfter(row, to) ==
    [row EXCEPT !.status = to, !.due = @ \/ (to = "return_due" /\ row.terms # {})]

\* admin_set_loaner_status: approving takes the partner's terms, if there is one
SetLoaner(to) ==
    LET terms == {bench[b].terms : b \in loaner.bench}
        row == IF to = "approved" THEN [loaner EXCEPT !.terms = terms, !.due = terms # {}] ELSE loaner
    IN  /\ loaner.status # "none" /\ to \in LoanerMoves[loaner.status]
        /\ loaner' = LoanerAfter(row, to)
        /\ UNCHANGED <<owned, ticket, bench, access, desk>>

----------------------------------------------------------------------------
RepairsInit ==
    /\ owned = {}
    /\ ticket = [t \in RepairTickets |-> NoTicket]
    /\ loaner = NoLoaner
    /\ bench = [b \in Benches |-> [active |-> TRUE, terms |-> FALSE]]
    /\ access = [override |-> "none", standing |-> FALSE]
    /\ desk = [d \in Desks |-> NoRequest]

TicketStep(d) ==
    \/ \E items \in SUBSET GearItems : BeginTicket(d, items)
    \/ \E t \in RepairTickets :
          \/ \E to \in Moves : BeginMove(d, t, to)
          \/ \E b \in Benches : BeginAssign(d, t, b)
          \/ BeginQuote(d, t) \/ CommitTicket(d, t)
    \/ CommitMove(d) \/ CommitQuote(d) \/ CommitAssign(d)

LoanerStep ==
    \/ \E b \in Benches, active \in BOOLEAN : EditBench(b, active)
    \/ \E override \in Overrides, standing \in {FALSE} : ChangeAccess(override, standing)
    \/ \E t \in RepairTickets : RequestLoaner(t)
    \/ \E to \in LoanerSteps : SetLoaner(to)

RepairsNext ==
    \/ \E i \in GearItems : CreateItem(i)
    \/ \E t, new \in RepairTickets : Reopen(t, new)
    \/ \E d \in Movers : TicketStep(d)
    \/ \E d \in Removers, i \in GearItems : BeginDelete(d, i)
    \/ \E d \in Desks : CommitDelete(d) \/ GiveUpDesk(d)
    \/ LoanerStep

RepairsSpec == RepairsInit /\ [][RepairsNext]_repairVars
----------------------------------------------------------------------------
RepairsTypeOK ==
    /\ owned \subseteq GearItems
    /\ ticket \in [RepairTickets -> [status : {"none"} \cup DOMAIN TicketMoves, item : SUBSET GearItems,
                                     bench : SUBSET Benches, quoted : BOOLEAN]]
    /\ loaner \in [status : {"none"} \cup DOMAIN LoanerMoves, bench : SUBSET Benches,
                   terms : SUBSET BOOLEAN, due : BOOLEAN]
    /\ bench \in [Benches -> [active : BOOLEAN, terms : BOOLEAN]]
    /\ access \in [override : {"none", "allowed", "blocked"}, standing : BOOLEAN]
    /\ \A d \in Desks : desk[d].op \in {"idle", "delete", "create", "move", "quote", "assign"}

\* A ticket never names a gear item that was removed, however the removal and
\* the ticket overlap, and a reopened ticket names one as well.
TicketsNameAnItem == \A t \in RepairTickets : ticket[t].item \subseteq owned
============================================================================
