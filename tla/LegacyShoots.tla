---------------------------- MODULE LegacyShoots ----------------------------
(***************************************************************************)
(* A legacy shoot from its checkout to the delivery of its vault:          *)
(* api/app/services/legacy_shoot.py, api/app/api/v1/legacy.py, and the     *)
(* booking that api/v1/scheduling.py moves on when a slot is confirmed.    *)
(*                                                                         *)
(* Nothing is locked, and hardly a step looks at the booking's status: an  *)
(* endpoint reads the booking, the review and its items, and writes at its *)
(* commit the columns it changed.  A review names the items it is about and*)
(* may be answered as often as the client likes.                           *)
(***************************************************************************)
EXTENDS FiniteSets

CONSTANTS
    VaultItems,      \* items of the booking's vault
    LegacyReviews,   \* reviews submitted to the client
    LegacyRequests,  \* requests that may overlap
    HandSteps        \* statuses an administrator sets by hand

Stages == {"edit_preview", "final_delivery"}
\* changes_requested does what rejected does, pending nothing
Answers == {"approved", "rejected"}
BookingSteps == {"brief_pending", "brief_submitted", "pro_assigned", "scheduled", "shoot_done",
                 "edit_in_progress", "client_review", "approved", "delivered", "cancelled"}

VARIABLES
    booking,    \* legacy_booking.status, "none" before the checkout
    shootGig,   \* status of its gig
    shooter,    \* gig.pro_user_id: "client" until one is assigned
    vault,      \* vault_item.status of each item, "none" before its upload
    reviews,    \* legacy_review: "none", or its stage and the items it names
    accepted,   \* history: reviews the client has approved at some time
    byHand,     \* history: whether an administrator set the booking delivered
    request     \* what each session is about to write

legacyVars == <<booking, shootGig, shooter, vault, reviews, accepted, byHand, request>>
vaultVars == <<vault, reviews, accepted>>
gigVars == <<shootGig, shooter>>

NoReview == [stage |-> "none", items |-> {}]
NoLegacyRequest == [op |-> "idle"]
LegacyIdle(s) == request[s] = NoLegacyRequest
LegacyDone(s) == request' = [request EXCEPT ![s] = NoLegacyRequest]

\* What a session will write to the booking: nothing, if it is what it read
News(to) == IF to = booking THEN "none" ELSE to
BookingWritten(s) == IF request[s].becomes = "none" THEN booking ELSE request[s].becomes
Items(r) == reviews[r].items

----------------------------------------------------------------------------
(* The order *)

\* checkout_legacy_shoot
CheckoutShoot ==
    /\ booking = "none"
    /\ booking' = "brief_pending" /\ shootGig' = "payment_pending"
    /\ UNCHANGED <<shooter, vaultVars, byHand, request>>

\* payment_intent.succeeded of the gig
ShootIsPaid ==
    /\ booking # "none" /\ shootGig = "payment_pending"
    /\ shootGig' = "paid"
    /\ UNCHANGED <<booking, shooter, vaultVars, byHand, request>>

\* upsert_legacy_brief, which may come again whatever the booking has become
PutBrief ==
    /\ booking # "none"
    /\ booking' = "brief_submitted"
    /\ UNCHANGED <<gigVars, vaultVars, byHand, request>>

\* assign_legacy_pro, of one who is eligible or by the administrator's override
AssignPro ==
    /\ booking # "none"
    /\ booking' = "pro_assigned" /\ shooter' = "pro"
    /\ UNCHANGED <<shootGig, vaultVars, byHand, request>>

\* confirm_slot moves a booking on that has not gone further.
SlotIsConfirmed ==
    /\ booking \in {"brief_pending", "brief_submitted", "pro_assigned"}
    /\ booking' = "scheduled"
    /\ UNCHANGED <<gigVars, vaultVars, byHand, request>>

\* set_legacy_status writes over the gig's status whatever its payment is.
SetBooking(to) ==
    /\ booking # "none"
    /\ booking' = to
    /\ shootGig' = CASE to = "scheduled" -> "scheduled"
                     [] to \in {"shoot_done", "edit_in_progress"} -> "shoot_done"
                     [] OTHER -> shootGig
    /\ byHand' = (byHand \/ to = "delivered")
    /\ UNCHANGED <<shooter, vaultVars, request>>

\* pro_mark_shoot_done: both statuses in one request
MarkShootDone == shooter = "pro" /\ SetBooking("edit_in_progress")

----------------------------------------------------------------------------
(* The vault and its reviews *)

\* issue_vault_upload
Upload(i) ==
    /\ booking # "none" /\ shooter = "pro" /\ vault[i] = "none"
    /\ vault' = [vault EXCEPT ![i] = "draft"]
    /\ UNCHANGED <<booking, gigVars, reviews, accepted, byHand, request>>

\* The rows a session changes: the items whose status is not what it read
Differing(items, to) == {i \in items : vault[i] # to}

\* submit_legacy_review takes items of this booking in any status.
BeginSubmitReview(s, r, stage, items) ==
    /\ LegacyIdle(s) /\ shooter = "pro" /\ reviews[r] = NoReview
    /\ \A t \in LegacyRequests : request[t].op = "submit" => request[t].review # r
    /\ items # {} /\ \A i \in items : vault[i] # "none"
    /\ request' = [request EXCEPT ![s] =
            [op |-> "submit", review |-> r, stage |-> stage, items |-> items,
             writes |-> Differing(items, "submitted"), becomes |-> News("client_review")]]
    /\ UNCHANGED <<booking, gigVars, vaultVars, byHand>>

CommitSubmitReview(s) ==
    LET q == request[s]
    IN  /\ q.op = "submit"
        /\ vault' = [i \in VaultItems |-> IF i \in q.writes THEN "submitted" ELSE vault[i]]
        /\ reviews' = [reviews EXCEPT ![q.review] = [stage |-> q.stage, items |-> q.items]]
        /\ booking' = BookingWritten(s)
        /\ LegacyDone(s)
        /\ UNCHANGED <<gigVars, accepted, byHand>>

GrantedMutByBooking(stage) == IF booking \in {"approved", "delivered"} THEN "final" ELSE "approved"
\* What approval makes of an item is decided by the review that is answered.
Granted(stage) == IF stage = "final_delivery" THEN "final" ELSE "approved"

ItemAfter(r, answer) == IF answer = "approved" THEN Granted(reviews[r].stage) ELSE "rejected"
BookingAfter(r, answer) ==
    IF answer # "approved" THEN "edit_in_progress"
    ELSE IF reviews[r].stage = "final_delivery" THEN "delivered" ELSE "approved"

\* respond_legacy_review, of any review there is, answered or not
BeginRespond(s, r, answer) ==
    /\ LegacyIdle(s) /\ reviews[r] # NoReview
    /\ request' = [request EXCEPT ![s] =
            [op |-> "respond", review |-> r, answer |-> answer, to |-> ItemAfter(r, answer),
             writes |-> Differing(Items(r), ItemAfter(r, answer)),
             becomes |-> News(BookingAfter(r, answer))]]
    /\ UNCHANGED <<booking, gigVars, vaultVars, byHand>>

CommitRespond(s) ==
    LET q == request[s]
    IN  /\ q.op = "respond"
        /\ vault' = [i \in VaultItems |-> IF i \in q.writes THEN q.to ELSE vault[i]]
        /\ accepted' = IF q.answer = "approved" THEN accepted \cup {q.review} ELSE accepted
        /\ booking' = BookingWritten(s)
        /\ LegacyDone(s)
        /\ UNCHANGED <<gigVars, reviews, byHand>>

LoseLegacyRequest(s) ==
    /\ ~LegacyIdle(s) /\ LegacyDone(s)
    /\ UNCHANGED <<booking, gigVars, vaultVars, byHand>>

\* issue_vault_download
Downloads == {i \in VaultItems : vault[i] \in {"submitted", "approved", "final"}}

----------------------------------------------------------------------------
LegacyInit ==
    /\ booking = "none" /\ shootGig = "none" /\ shooter = "client"
    /\ vault = [i \in VaultItems |-> "none"]
    /\ reviews = [r \in LegacyReviews |-> NoReview] /\ accepted = {}
    /\ byHand = FALSE /\ request = [s \in LegacyRequests |-> NoLegacyRequest]

LegacyNext ==
    \/ CheckoutShoot \/ ShootIsPaid \/ PutBrief \/ AssignPro \/ SlotIsConfirmed \/ MarkShootDone
    \/ \E to \in HandSteps : SetBooking(to)
    \/ \E i \in VaultItems : Upload(i)
    \/ \E s \in LegacyRequests, r \in LegacyReviews :
          \/ \E stage \in Stages, items \in SUBSET VaultItems : BeginSubmitReview(s, r, stage, items)
          \/ \E answer \in Answers : BeginRespond(s, r, answer)
    \/ \E s \in LegacyRequests : CommitSubmitReview(s) \/ CommitRespond(s) \/ LoseLegacyRequest(s)

LegacySpec == LegacyInit /\ [][LegacyNext]_legacyVars
----------------------------------------------------------------------------
LegacyTypeOK ==
    /\ booking \in BookingSteps \cup {"none"} /\ shooter \in {"client", "pro"}
    /\ shootGig \in {"none", "payment_pending", "paid", "scheduled", "shoot_done"}
    /\ \A i \in VaultItems : vault[i] \in {"none", "draft", "submitted", "approved", "rejected", "final"}
    /\ \A r \in LegacyReviews : reviews[r] = NoReview \/ (reviews[r].stage \in Stages /\ Items(r) # {})
    /\ accepted \subseteq LegacyReviews

FinalByClient == UNION {Items(r) : r \in {r \in accepted : reviews[r].stage = "final_delivery"}}

\* The client decides what is delivered: an item is final only if the client
\* approved a final delivery that names it, and the booking is delivered only
\* after such an approval or by an administrator; what can be downloaded was
\* submitted to the client.  Submissions and answers that overlap, or answers
\* to a review answered before, change nothing of it (respond_legacy_review).
FinalIsAccepted ==
    /\ \A i \in VaultItems : vault[i] = "final" => i \in FinalByClient
    /\ booking = "delivered" => byHand \/ FinalByClient # {}
    /\ Downloads \subseteq UNION {Items(r) : r \in LegacyReviews}
=============================================================================
