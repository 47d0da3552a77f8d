------------------------------ MODULE Bookings ------------------------------
(***************************************************************************)
(* The calendar of one photographer: booking requests, the gigs made of    *)
(* them and their confirmed slots.  api/app/services/scheduling.py,        *)
(* api/v1/scheduling.py, the booking handlers of api/v1/pro_onboarding.py  *)
(* and api/v1/client_launch.py.                                            *)
(*                                                                         *)
(* A request reads when it begins and writes, when it commits, only the    *)
(* columns it changed: no row is locked.  The database has the last word   *)
(* with a unique gig_id and the exclusion constraint of confirmed_slot.    *)
(* Times are sets of consecutive hours.                                    *)
(***************************************************************************)
EXTENDS Integers, FiniteSets, FiniteSetsExt

CONSTANTS
    Asked,       \* booking requests
    BookingSessions, \* API requests and sweeps that may overlap
    Hours,       \* the hours of the calendar, a set of integers
    Spans,       \* sets of hours asked for, offered, blocked or booked
    Buffer,      \* buffer_before_minutes and buffer_after_minutes, in hours
    AdvanceNotice,      \* advance_notice_hours
    DayHours,    \* hours of a day
    MaxPerDay,   \* max_bookings_per_day
    Deadline,    \* hours until an unanswered request expires
    ReminderLead, \* hours a reminder comes before its slot
    Takes,       \* values is_accepting_bookings takes once KYC is approved
    Offers, Blocks, Windows, \* sets of spans a photographer offers or blocks, a client sends
    MaxShoots    \* bound on the gigs

ASSUME BookingsAssumption ==
    /\ Hours \subseteq Int /\ Spans \subseteq SUBSET Hours /\ {} \notin Spans
    /\ Buffer \in Nat /\ AdvanceNotice \in Nat /\ DayHours \in Nat \ {0} /\ MaxPerDay \in Nat
    /\ Offers \cup Blocks \cup Windows \subseteq SUBSET SUBSET Hours
    /\ Takes \subseteq BOOLEAN
    /\ Deadline \in Nat /\ ReminderLead \in Nat /\ MaxShoots \in Nat

Shoots == 1..MaxShoots
NoTime == {}

VARIABLES
    booking,      \* booking_request: status, hours asked for, deadline
    windows,    \* the windows of the latest booking_time_request of each
    shoot,      \* the gigs of this photographer and their confirmed_slot
    offered,    \* pro_availability_rule
    away,       \* pro_availability_exception
    blackouts,  \* pro_blackout_date, written by a deprecated route
    verified,   \* KYC approved
    accepting,  \* is_accepting_bookings
    hour,       \* now
    reminders,  \* follow-up jobs of confirmed slots
    visit       \* what each open transaction has read

calendarVars == <<windows, offered, away, blackouts>>
personVars == <<verified, accepting>>
bookingVars == <<booking, shoot, calendarVars, personVars, hour, reminders, visit>>

BookingStatus == {"none", "pending", "accepted", "declined", "cancelled", "expired"}
SlotStatus == {"none", "confirmed", "cancelled"}
NotAsked == [status |-> "none", span |-> NoTime, due |-> 0]
NoShoot == [booking |-> "none", at |-> NoTime, slot |-> "none", intent |-> FALSE]
AtRest == [op |-> "idle", on |-> {}, at |-> NoTime, gig |-> 0, seen |-> "none", slot |-> "none"]

----------------------------------------------------------------------------
(* Reading the calendar *)

StartOf(span) == Min(span)
DayOf(span) == StartOf(span) \div DayHours
Close(span, other) == \E x \in span, y \in other : y \in (x - Buffer)..(x + Buffer)
Meets(span, other) == span \cap other # {}

\* any_rule_covers
RuleCovers(span) == \E r \in offered : span \subseteq r

\* blocked_intervals and window_fully_blocked read both tables
BlockedHours == UNION (away \cup blackouts)
FullyBlocked(span) == span \subseteq BlockedHours

Standing(g) == shoot[g].slot = "confirmed"
StandingOfDay(d) == {g \in Shoots : Standing(g) /\ DayOf(shoot[g].at) = d}

\* validate_slot_available: reads the exceptions, and no blackout
SlotAvailable(span) ==
    /\ StartOf(span) >= hour + AdvanceNotice
    /\ RuleCovers(span)
    /\ ~Meets(span, UNION away)
    /\ Cardinality(StandingOfDay(DayOf(span))) < MaxPerDay
    /\ \A g \in Shoots : Standing(g) => ~Close(span, shoot[g].at)

\* _validate_within_client_windows: before any are sent, windows is {Hours}
InWindows(b, span) == \E w \in windows[b] : span \subseteq w

\* _find_gig_by_booking_request: any gig that names the booking
ShootsOf(b) == {g \in Shoots : shoot[g].booking = b}
FreeRows == ShootsOf("none")
ShootsFound(b) == IF ShootsOf(b) = {} THEN {0} ELSE ShootsOf(b)

\* confirmed_slot_no_overlap, uq_confirmed_slot_pro_time: every other slot of
\* the photographer counts, the cancelled ones too
SlotFitsMutSameTime(g, span) ==
    \A k \in Shoots \ {g} : shoot[k].slot # "none" => shoot[k].at # span
SlotFits(g, span) ==
    \A k \in Shoots \ {g} : shoot[k].slot # "none" => ~Meets(shoot[k].at, span)

StartVisit(s, t) == visit[s] = AtRest /\ visit' = [visit EXCEPT ![s] = t]
EndVisit(s) == visit' = [visit EXCEPT ![s] = AtRest]

----------------------------------------------------------------------------
(* The client asks *)

Ask(b, span) ==
    /\ booking[b] = NotAsked /\ offered # {}
    /\ booking' = [booking EXCEPT ![b] = [status |-> "pending", span |-> span, due |-> hour + Deadline]]
    /\ UNCHANGED <<shoot, calendarVars, personVars, hour, reminders, visit>>

\* create_booking_request: exact hours
AskDirectly(b, span) == accepting /\ RuleCovers(span) /\ ~Meets(span, BlockedHours) /\ Ask(b, span)

\* client_booking_request: a window with some free time in it
AskInFunnel(b, span) == ~FullyBlocked(span) /\ Ask(b, span)

\* submit_booking_time_windows
SubmitWindows(b, ws) ==
    /\ booking[b] # NotAsked
    /\ windows' = [windows EXCEPT ![b] = ws]
    /\ UNCHANGED <<booking, shoot, offered, away, blackouts, personVars, hour, reminders, visit>>

----------------------------------------------------------------------------
(* The answer *)

\* accept_booking_request
BeginAccept(s, b) ==
    /\ verified /\ booking[b].status = "pending" /\ hour <= booking[b].due
    /\ ~FullyBlocked(booking[b].span)
    /\ \E g \in ShootsFound(b) :
           StartVisit(s, [AtRest EXCEPT !.op = "accept", !.on = {b}, !.gig = g, !.at = booking[b].span])
    /\ UNCHANGED <<booking, shoot, calendarVars, personVars, hour, reminders>>

\* the gig that was found, or a new one, with a payment intent
CommitAccept(s) ==
    LET t == visit[s]
    IN  /\ t.op = "accept"
        /\ t.gig = 0 => FreeRows # {}
        /\ booking' = [b \in Asked |-> IF b \in t.on THEN [booking[b] EXCEPT !.status = "accepted"]
                                     ELSE booking[b]]
        /\ shoot' = IF t.gig # 0 THEN [shoot EXCEPT ![t.gig].intent = TRUE]
                    ELSE [shoot EXCEPT ![Min(FreeRows)] =
                             [booking |-> CHOOSE b \in t.on : TRUE, at |-> t.at,
                              slot |-> "none", intent |-> TRUE]]
        /\ EndVisit(s)
        /\ UNCHANGED <<calendarVars, personVars, hour, reminders>>

\* accept_booking_request again, and client_booking_pay: the intent of the gig
EnsureIntent(b) ==
    /\ booking[b].status = "accepted"
    /\ \E g \in ShootsOf(b) : shoot' = [shoot EXCEPT ![g].intent = TRUE]
    /\ UNCHANGED <<booking, calendarVars, personVars, hour, reminders, visit>>

\* decline_booking_request, cancel_booking_request
BeginRefuse(s, b, status) ==
    /\ booking[b].status = "pending"
    /\ StartVisit(s, [AtRest EXCEPT !.op = status, !.on = {b}])
    /\ UNCHANGED <<booking, shoot, calendarVars, personVars, hour, reminders>>

\* expire_pending_booking_requests
BeginSweep(s) ==
    LET late == {b \in Asked : booking[b].status = "pending" /\ booking[b].due < hour}
    IN  /\ late # {}
        /\ StartVisit(s, [AtRest EXCEPT !.op = "expired", !.on = late])
        /\ UNCHANGED <<booking, shoot, calendarVars, personVars, hour, reminders>>

CommitStatus(s) ==
    /\ visit[s].op \in {"declined", "cancelled", "expired"}
    /\ booking' = [b \in Asked |-> IF b \in visit[s].on
                                 THEN [booking[b] EXCEPT !.status = visit[s].op] ELSE booking[b]]
    /\ EndVisit(s)
    /\ UNCHANGED <<shoot, calendarVars, personVars, hour, reminders>>

----------------------------------------------------------------------------
(* The slot *)

\* confirm_booking_slot, whatever the status of the booking
BeginConfirm(s, b, span) ==
    /\ booking[b] # NotAsked
    /\ SlotAvailable(span) /\ InWindows(b, span)
    /\ \E g \in ShootsFound(b) :
           StartVisit(s, [op |-> "confirm", on |-> {b}, at |-> span, gig |-> g, seen |-> booking[b].status,
                     slot |-> IF g = 0 THEN "none" ELSE shoot[g].slot])
    /\ UNCHANGED <<booking, shoot, calendarVars, personVars, hour, reminders>>

\* a slot that was not there when it was read must not be there now: gig_id is unique
CommitConfirm(s) ==
    LET t == visit[s]
        g == IF t.gig = 0 THEN Min(FreeRows) ELSE t.gig
        b == CHOOSE x \in t.on : TRUE
        early == StartOf(t.at) - ReminderLead
        status == IF t.slot = "confirmed" THEN shoot[g].slot ELSE "confirmed"
    IN  /\ t.op = "confirm"
        /\ t.gig = 0 => FreeRows # {}
        /\ t.slot = "none" => shoot[g].slot = "none"
        /\ SlotFits(g, t.at)
        /\ shoot' = [shoot EXCEPT ![g] = [@ EXCEPT !.booking = b, !.at = t.at, !.slot = status]]
        /\ booking' = IF t.seen = "pending" THEN [booking EXCEPT ![b].status = "accepted"] ELSE booking
        /\ reminders' = IF early > hour THEN reminders \cup {<<g, early>>} ELSE reminders
        /\ EndVisit(s)
        /\ UNCHANGED <<calendarVars, personVars, hour>>

\* cancel_slot: the row and its hours stay
CancelSlot(g) ==
    /\ shoot[g].slot # "none"
    /\ shoot' = [shoot EXCEPT ![g].slot = "cancelled"]
    /\ UNCHANGED <<booking, calendarVars, personVars, hour, reminders, visit>>

\* create_reschedule_request: new windows, and the slot goes if there is one
Reschedule(g, ws) ==
    /\ g \notin FreeRows
    /\ shoot' = IF shoot[g].slot = "none" THEN shoot ELSE [shoot EXCEPT ![g].slot = "cancelled"]
    /\ windows' = [windows EXCEPT ![shoot[g].booking] = ws]
    /\ UNCHANGED <<booking, offered, away, blackouts, personVars, hour, reminders, visit>>

\* the request fails: a constraint, an answer that came too late, a crash
AbortVisit(s) ==
    /\ visit[s] # AtRest
    /\ EndVisit(s)
    /\ UNCHANGED <<booking, shoot, calendarVars, personVars, hour, reminders>>

----------------------------------------------------------------------------
(* The photographer's settings and the clock *)

PutRules(spans) ==
    /\ offered' = spans
    /\ UNCHANGED <<booking, windows, shoot, away, blackouts, personVars, hour, reminders, visit>>

PutExceptions(spans) ==
    /\ away' = spans
    /\ UNCHANGED <<booking, windows, shoot, offered, blackouts, personVars, hour, reminders, visit>>

\* a blackout is never edited or removed
CreateBlackout(span) ==
    /\ blackouts' = blackouts \cup {span}
    /\ UNCHANGED <<booking, windows, shoot, offered, away, personVars, hour, reminders, visit>>

\* decided by the onboarding (module Onboarding)
SetPerson(approved, takes) ==
    /\ verified' = approved /\ accepting' = takes
    /\ UNCHANGED <<booking, shoot, calendarVars, hour, reminders, visit>>

PassHour ==
    /\ hour + 1 \in Hours
    /\ hour' = hour + 1
    /\ UNCHANGED <<booking, shoot, calendarVars, personVars, reminders, visit>>

----------------------------------------------------------------------------
BookingsInit ==
    /\ booking = [b \in Asked |-> NotAsked]
    /\ windows = [b \in Asked |-> {Hours}]
    /\ shoot = [g \in Shoots |-> NoShoot]
    /\ offered = {} /\ away = {} /\ blackouts = {}
    /\ verified = FALSE /\ accepting = FALSE
    /\ hour = Min(Hours) /\ reminders = {}
    /\ visit = [s \in BookingSessions |-> AtRest]

CustomerStep ==
    \/ \E b \in Asked, span \in Spans : AskDirectly(b, span) \/ AskInFunnel(b, span)
    \/ \E b \in Asked, ws \in Windows \ {{}} : SubmitWindows(b, ws)
    \/ \E b \in Asked : EnsureIntent(b)
    \/ \E g \in Shoots : CancelSlot(g) \/ \E ws \in Windows : Reschedule(g, ws)

SettingsStep ==
    \/ \E spans \in Offers : PutRules(spans)
    \/ \E spans \in Blocks : PutExceptions(spans) \/ \E span \in spans : CreateBlackout(span)
    \/ \E takes \in Takes : SetPerson(TRUE, takes)

SessionStep(s) ==
    \/ \E b \in Asked : \/ BeginAccept(s, b)
                        \/ \E status \in {"declined", "cancelled"} : BeginRefuse(s, b, status)
                        \/ \E span \in Spans : BeginConfirm(s, b, span)
    \/ BeginSweep(s)
    \/ CommitAccept(s) \/ CommitStatus(s) \/ CommitConfirm(s) \/ AbortVisit(s)

BookingsNext == CustomerStep \/ SettingsStep \/ PassHour \/ \E s \in BookingSessions : SessionStep(s)
BookingsSpec == BookingsInit /\ [][BookingsNext]_bookingVars

----------------------------------------------------------------------------
BookingsTypeOK ==
    /\ booking \in [Asked -> [status : BookingStatus, span : Spans \cup {NoTime}, due : Int]]
    /\ windows \in [Asked -> Windows \cup {{Hours}}]
    /\ shoot \in [Shoots -> [booking : Asked \cup {"none"}, at : Spans \cup {NoTime},
                             slot : SlotStatus, intent : BOOLEAN]]
    /\ offered \in Offers \cup {{}} /\ away \in Blocks \cup {{}} /\ blackouts \subseteq UNION Blocks
    /\ verified \in BOOLEAN /\ accepting \in BOOLEAN
    /\ hour \in Hours /\ reminders \subseteq Shoots \X Int
    /\ visit \in [BookingSessions -> [op : {"idle", "accept", "confirm", "declined", "cancelled", "expired"},
                                     on : SUBSET Asked, at : Spans \cup {NoTime}, gig : Shoots \cup {0},
                                     seen : BookingStatus, slot : SlotStatus]]

\* No two slots of a photographer share an hour, whatever sessions confirm,
\* cancel and move them at once: the exclusion constraint backs the check
\* that validate_slot_available makes on what it read.
SlotsDisjoint ==
    \A g, k \in Shoots : /\ g # k
                         /\ shoot[g].slot # "none" /\ shoot[k].slot # "none"
                         => shoot[g].at \cap shoot[k].at = {}
=============================================================================
