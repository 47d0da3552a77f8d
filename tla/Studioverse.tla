----------------------------- MODULE Studioverse -----------------------------
(***************************************************************************)
(* One content pack, its review and its sale: services/studioverse.py and  *)
(* api/v1/studioverse.py.                                                  *)
(*                                                                         *)
(* A request reads when it begins and writes the columns it changed when   *)
(* it commits; the balances of credits are locked and read again at the    *)
(* commit.  reverse_paid_order has no caller outside the tests and is left *)
(* out.                                                                    *)
(***************************************************************************)
EXTENDS Integers, FiniteSets

CONSTANTS
    Buyers,
    PackOrders,    \* checkouts, each makes one order
    PackEditors,   \* requests of the creator that may overlap
    PackAdmins,    \* requests of admins that may overlap
    Contents,      \* what the creator puts in the pack: the consent its sources
                   \* need, or "unproven" without evidence.derivative_only
    Consents,      \* levels the gig's client gives
    PayMethods,
    IntentAnswers, \* states of the payment intent Stripe answers with
    PriceRaww, FeeRaww, StartRaww,
    DownloadLimit

ConsentLevels == {"none", "pro", "rawwers", "both"}

ASSUME StudioverseAssumption ==
    /\ IsFiniteSet(PackOrders)
    /\ Contents \subseteq ConsentLevels \cup {"unproven"}
    /\ Consents \subseteq ConsentLevels
    /\ PayMethods \subseteq {"stripe", "raww_credits", "mixed"}
    /\ IntentAnswers \subseteq {"open", "captured"}
    /\ PriceRaww \in Nat /\ FeeRaww \in 0..PriceRaww /\ StartRaww \in Nat
    /\ DownloadLimit \in Nat

VARIABLES
    pack,         \* content_pack: status and content
    cleared,      \* the contents a submission has validated
    consent,      \* gig_usage_consent of the pack's source
    packOrder,    \* content_pack_order, with the state of its payment intent
    downloads,    \* downloads_used of each order's entitlement, or NoEntitlement
    wallet,       \* credits of each buyer
    creatorRaww, treasuryRaww, \* credits of the creator and the platform
    creatorFrozen, \* a freeze_rewards action against the creator
    packWork      \* what each request has read

packRow == <<pack, cleared, consent>>
packSales == <<packOrder, downloads>>
packCredits == <<wallet, creatorRaww, treasuryRaww>>
studioVars == <<packRow, packSales, packCredits, creatorFrozen, packWork>>

PackStatus == {"draft", "submitted", "approved", "rejected", "delisted"}
PackOrder == [status : {"none", "pending", "paid"}, buyer : Buyers \cup {"none"},
              method : PayMethods \cup {"none"}, intent : {"none", "open", "captured"}]
NoEntitlement == -1
NoPackOrder == [status |-> "none", buyer |-> "none", method |-> "none", intent |-> "none"]
PackActors == PackEditors \cup PackAdmins \cup PackOrders
NotWorking == [op |-> "idle"]

BeginPackWork(a, t) ==
    /\ packWork[a] = NotWorking
    /\ packWork' = [packWork EXCEPT ![a] = t]
    /\ UNCHANGED <<packRow, packSales, packCredits, creatorFrozen>>
EndPackWork(a) == packWork' = [packWork EXCEPT ![a] = NotWorking]

----------------------------------------------------------------------------
(* The creator and the review *)

\* _consent_satisfies
ConsentSatisfies(actual, required) ==
    required = "none" \/ actual = required \/ actual = "both"

\* validate_submission_sources
SourcesAreValid(c) == c # "unproven" /\ ConsentSatisfies(consent, c)

EditableMutSubmitted == {"draft", "rejected", "submitted"}
Editable == {"draft", "rejected"}

BeginEditPack(a, c) ==
    /\ pack.status \in Editable
    /\ BeginPackWork(a, [op |-> "edit", content |-> c])
BeginSubmitPack(a) ==
    /\ pack.status \in Editable /\ SourcesAreValid(pack.content)
    /\ BeginPackWork(a, [op |-> "submit", content |-> pack.content])

CommitEditPack(a) ==
    /\ packWork[a].op = "edit"
    /\ pack' = [pack EXCEPT !.content = packWork[a].content]
    /\ EndPackWork(a)
    /\ UNCHANGED <<cleared, consent, packSales, packCredits, creatorFrozen>>
CommitSubmitPack(a) ==
    /\ packWork[a].op = "submit"
    /\ pack' = [pack EXCEPT !.status = "submitted"]
    /\ cleared' = cleared \cup {packWork[a].content}
    /\ EndPackWork(a)
    /\ UNCHANGED <<consent, packSales, packCredits, creatorFrozen>>

\* validate_review_transition
BeginReview(a, decision) ==
    /\ pack.status \in {"submitted", "approved"}
    /\ ~(decision = "approved" /\ pack.status = "approved")
    /\ BeginPackWork(a, [op |-> "review", to |-> decision])
BeginTakedown(a) == BeginPackWork(a, [op |-> "review", to |-> "delisted"])

CommitReview(a) ==
    /\ packWork[a].op = "review"
    /\ pack' = [pack EXCEPT !.status = packWork[a].to]
    /\ EndPackWork(a)
    /\ UNCHANGED <<cleared, consent, packSales, packCredits, creatorFrozen>>

\* the gig's client changes the consent, for which nobody looks again
ChangeConsent(level) ==
    /\ consent # level
    /\ consent' = level
    /\ UNCHANGED <<pack, cleared, packSales, packCredits, creatorFrozen, packWork>>

----------------------------------------------------------------------------
(* The sale *)

PaidBy(b) == {o \in PackOrders : packOrder[o].status = "paid" /\ packOrder[o].buyer = b}

\* checkout_content_pack: a paid order of the buyer is returned as it is
BeginPackCheckout(o, b, method) ==
    /\ packOrder[o].status = "none"
    /\ pack.status = "approved" /\ PaidBy(b) = {}
    /\ \E answer \in IF method = "raww_credits" THEN {"none"} ELSE IntentAnswers :
           BeginPackWork(o, [op |-> "checkout", answer |-> answer, pays |-> ~creatorFrozen,
                             buyer |-> b, method |-> method, credits |-> wallet[b]])

TakesCredits(t) == t.method = "raww_credits" \/ (t.method = "mixed" /\ t.answer = "captured")

\* process_raww_credit_split: the buyer's debit is refused below zero; the
\* creator's credit is silently dropped while the creator is frozen
SplitCredits(t) ==
    IF TakesCredits(t)
    THEN /\ wallet[t.buyer] >= PriceRaww
         /\ wallet' = [wallet EXCEPT ![t.buyer] = @ - PriceRaww]
         /\ creatorRaww' = IF t.pays THEN creatorRaww + (PriceRaww - FeeRaww) ELSE creatorRaww
         /\ treasuryRaww' = treasuryRaww + FeeRaww
    ELSE UNCHANGED packCredits

PaidAtOnce(t) == t.method = "raww_credits" \/ t.answer = "captured"

\* settle_paid_order: an entitlement the order has is kept.  The royalty is
\* what the credits of the creator and the platform already say.
SettlePaidOrder(o) ==
    downloads' = [downloads EXCEPT ![o] = IF @ = NoEntitlement THEN 0 ELSE @]

CommitPackCheckout(o) ==
    LET t == packWork[o]
        paid == PaidAtOnce(t)
    IN  /\ t.op = "checkout"
        /\ SplitCredits(t)
        /\ IF paid THEN SettlePaidOrder(o) ELSE UNCHANGED downloads
        /\ packOrder' = [packOrder EXCEPT ![o] =
               [status |-> IF paid THEN "paid" ELSE "pending", buyer |-> t.buyer,
                method |-> t.method, intent |-> t.answer]]
        /\ EndPackWork(o)
        /\ UNCHANGED <<packRow, creatorFrozen>>

\* Stripe captures a payment; its event finds no branch for a pack's order
CapturePack(o) ==
    /\ packOrder[o].intent = "open"
    /\ packOrder' = [packOrder EXCEPT ![o].intent = "captured"]
    /\ UNCHANGED <<packRow, downloads, packCredits, creatorFrozen, packWork>>

\* download_content_pack: a paid order with its entitlement
Downloadable(o) == packOrder[o].status = "paid" /\ downloads[o] # NoEntitlement

\* mark_download_or_raise
Download(o) ==
    /\ Downloadable(o) /\ downloads[o] < DownloadLimit
    /\ downloads' = [downloads EXCEPT ![o] = @ + 1]
    /\ UNCHANGED <<packRow, packOrder, packCredits, creatorFrozen, packWork>>

\* a request is refused at its end, or dies
AbortPackWork(a) ==
    /\ packWork[a] # NotWorking
    /\ EndPackWork(a)
    /\ UNCHANGED <<packRow, packSales, packCredits, creatorFrozen>>

FreezeCreator ==
    /\ creatorFrozen' = ~creatorFrozen
    /\ UNCHANGED <<packRow, packSales, packCredits, packWork>>

----------------------------------------------------------------------------
StudioInit ==
    /\ \E c \in Contents : pack = [status |-> "draft", content |-> c]
    /\ cleared = {} /\ consent \in Consents
    /\ packOrder = [o \in PackOrders |-> NoPackOrder]
    /\ downloads = [o \in PackOrders |-> NoEntitlement]
    /\ wallet = [b \in Buyers |-> StartRaww]
    /\ creatorRaww = 0 /\ treasuryRaww = 0 /\ creatorFrozen = FALSE
    /\ packWork = [a \in PackActors |-> NotWorking]

StudioNext ==
    \/ \E a \in PackEditors : \/ \E c \in Contents : BeginEditPack(a, c)
                              \/ BeginSubmitPack(a) \/ CommitEditPack(a) \/ CommitSubmitPack(a)
    \/ \E a \in PackAdmins : \/ \E d \in {"approved", "rejected"} : BeginReview(a, d)
                             \/ BeginTakedown(a) \/ CommitReview(a)
    \/ \E o \in PackOrders : \/ \E b \in Buyers, m \in PayMethods : BeginPackCheckout(o, b, m)
                             \/ CommitPackCheckout(o) \/ CapturePack(o) \/ Download(o)
    \/ \E a \in PackActors : AbortPackWork(a)
    \/ \E level \in Consents : ChangeConsent(level)
    \/ FreezeCreator

StudioSpec == StudioInit /\ [][StudioNext]_studioVars

----------------------------------------------------------------------------
(* Properties *)

StudioTypeOK ==
    /\ pack \in [status : PackStatus, content : Contents] /\ cleared \subseteq Contents
    /\ consent \in Consents
    /\ packOrder \in [PackOrders -> PackOrder] /\ downloads \in [PackOrders -> 0..DownloadLimit \cup {NoEntitlement}]
    /\ wallet \in [Buyers -> Int] /\ creatorRaww \in Nat /\ treasuryRaww \in Nat

\* What is sold was validated: the content of an approved pack passed the check
\* of its gig's consent when it was submitted, whatever the creator edits
\* around the review.  (One request of the creator and one of an admin at a
\* time; either overlapping with its like breaks it.)
SoldIsCleared == pack.status = "approved" => pack.content \in cleared

=============================================================================
