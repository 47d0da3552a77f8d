----------------------------- MODULE Selections -----------------------------
(***************************************************************************)
(* What a client selects of a gallery with a fixed price, the extra photos *)
(* it pays for, and what it may then fetch: the selection, upsell and      *)
(* download endpoints of api/app/api/v1/proof_galleries.py, the media      *)
(* endpoints of api/v1/media_rights.py with services/media_rights.py, and  *)
(* the upsell branches of api/v1/webhooks.py.  A selection's photos never  *)
(* change: saving makes a new one.  Which photos they are is left out; it  *)
(* is counted how many.                                                    *)
(*                                                                         *)
(* A client's requests read when they begin and write when they commit.    *)
(* Stripe's events come in any order.  What closing the gallery does to    *)
(* the gig is in GigPayments.                                              *)
(***************************************************************************)
EXTENDS Integers, FiniteSets

CONSTANTS
    SelectionIds,   \* selections the client may save
    Shoppers,       \* requests of the client that may overlap
    Counts,         \* how many photos of the gallery a selection may have
    Included,       \* included_photos
    MinimumPhotos,  \* MINIMUM_PHOTOS
    MaxExtras,      \* max_extra_images of the niche's policy
    Declined        \* selections whose payment may fail or be paid back

ASSUME SelectionsAssumption ==
    Counts \cup {Included, MinimumPhotos, MaxExtras} \subseteq Nat

VARIABLES
    gate,         \* proof_gallery.status once it is published
    picks,        \* client_selection with the number of its items
    extras,       \* upsell_purchase.status by selection, "none" without a row
    lastBought,   \* the selection of the newest upsell_purchase
    intent,       \* Stripe: the PaymentIntent of the selection's extras
    news,         \* Stripe: events not yet delivered
    rights,       \* gig_media_entitlement of the client
    shopping      \* what each request is about to write

selectVars == <<gate, picks, extras, lastBought, intent, news, rights, shopping>>
purchaseVars == <<extras, lastBought, intent>>

\* upsert_gig_entitlement and increment_entitlement_quantity: a row per type,
\* made or written again; its quantity_limit is never read
UpsertEntitlement(type) == rights' = rights \cup {type}

NoPick == [version |-> 0, count |-> 0, status |-> "none"]
NoPurchase == "no purchase"
NoShopping == [op |-> "idle", pick |-> "none", count |-> 0, version |-> 0,
               sold |-> FALSE, last |-> NoPurchase]
Browsing(s) == shopping[s] = NoShopping
EndShopping(s) == shopping' = [shopping EXCEPT ![s] = NoShopping]

Saved == {v \in SelectionIds : picks[v] # NoPick}
\* The selections of the highest version: saves that overlap share one.
Newest(of) == {v \in of : \A w \in of : picks[w].version <= picks[v].version}
Extra(v) == IF picks[v].count > Included THEN picks[v].count - Included ELSE 0

----------------------------------------------------------------------------
(* The client's requests *)

\* save_selection, of items of this gallery
BeginSave(s, v, n) ==
    /\ Browsing(s) /\ picks[v] = NoPick
    /\ \A t \in Shoppers : shopping[t].op = "save" => shopping[t].pick # v
    /\ shopping' = [shopping EXCEPT ![s] =
            [NoShopping EXCEPT !.op = "save", !.pick = v, !.count = n,
                !.version = 1 + (IF Saved = {} THEN 0
                                 ELSE picks[CHOOSE w \in Newest(Saved) : TRUE].version)]]
    /\ UNCHANGED <<gate, picks, purchaseVars, news, rights>>

CommitSave(s) ==
    LET q == shopping[s]
    IN  /\ q.op = "save"
        /\ picks' = [picks EXCEPT ![q.pick] =
                        [version |-> q.version, count |-> q.count, status |-> "draft"]]
        /\ EndShopping(s)
        /\ UNCHANGED <<gate, purchaseVars, news, rights>>

\* What a request reads before it asks Stripe for an intent
ReadsPurchase(s, op, v) ==
    shopping' = [shopping EXCEPT ![s] =
        [NoShopping EXCEPT !.op = op, !.pick = v, !.sold = extras[v] # "none", !.last = lastBought]]

\* submit_selection and create_upsell_intent take the latest selection; the
\* latter also one that is a draft.
BeginSubmitPick(s, v) ==
    /\ Browsing(s) /\ v \in Newest(Saved)
    /\ picks[v].status = "draft" /\ picks[v].count >= MinimumPhotos /\ Extra(v) <= MaxExtras
    /\ ReadsPurchase(s, "submit", v)
    /\ UNCHANGED <<gate, picks, purchaseVars, news, rights>>

BeginBuy(s, v) ==
    /\ Browsing(s) /\ v \in Newest(Saved)
    /\ Extra(v) \in 1..MaxExtras
    /\ ReadsPurchase(s, "buy", v)
    /\ UNCHANGED <<gate, picks, purchaseVars, news, rights>>

\* _ensure_upsell_intent: the intent's key and its unique column allow one row
\* for a selection, which a later call finds and keeps in its status.  Rows
\* are ordered by when they were made, not by when they were committed.
EnsureUpsell(s) ==
    LET v == shopping[s].pick
    IN  IF shopping[s].sold THEN UNCHANGED purchaseVars
        ELSE /\ extras[v] = "none"
             /\ extras' = [extras EXCEPT ![v] = "pending"]
             /\ intent' = [intent EXCEPT ![v] = "open"]
             /\ \/ lastBought' = v
                \/ lastBought # shopping[s].last /\ UNCHANGED lastBought

CommitSubmitPick(s) ==
    LET v == shopping[s].pick
    IN  /\ shopping[s].op = "submit"
        /\ picks' = [picks EXCEPT ![v].status = "submitted"]
        /\ UpsertEntitlement("download_finals")
        /\ IF Extra(v) > 0 THEN EnsureUpsell(s) /\ UNCHANGED gate
           ELSE gate' = "selection_submitted" /\ UNCHANGED purchaseVars
        /\ EndShopping(s)
        /\ UNCHANGED news

CommitBuy(s) ==
    /\ shopping[s].op = "buy" /\ EnsureUpsell(s) /\ EndShopping(s)
    /\ UNCHANGED <<gate, picks, news, rights>>

LoseShopper(s) ==
    /\ ~Browsing(s) /\ EndShopping(s)
    /\ UNCHANGED <<gate, picks, purchaseVars, news, rights>>

----------------------------------------------------------------------------
(* Stripe *)

CardFails(v) ==
    /\ v \in Declined /\ intent[v] = "open" /\ news' = news \cup {<<v, "failed">>}
    /\ UNCHANGED <<gate, picks, purchaseVars, rights, shopping>>

CardMoves(v, from, to, event) ==
    /\ intent[v] = from /\ intent' = [intent EXCEPT ![v] = to]
    /\ news' = news \cup {<<v, event>>}
    /\ UNCHANGED <<gate, picks, extras, lastBought, rights, shopping>>

\* The upsell branches of payment_intent.succeeded, .payment_failed and
\* charge.refunded: whichever is delivered last is what the purchase says.
\* A selection whose extras are paid closes the gallery, a draft as well.
UpsellEvent(v, event) ==
    /\ <<v, event>> \in news /\ news' = news \ {<<v, event>>}
    /\ extras' = [extras EXCEPT ![v] = event]
    /\ IF event = "succeeded"
       THEN UpsertEntitlement("download_extras") /\ gate' = "selection_submitted"
       ELSE UNCHANGED <<rights, gate>>
    /\ UNCHANGED <<picks, lastBought, intent, shopping>>

----------------------------------------------------------------------------
(* What the client may fetch *)

Submitted == {v \in SelectionIds : picks[v].status = "submitted"}

PaidForMutLatest(v) == lastBought # NoPurchase /\ extras[lastBought] = "succeeded"
\* get_download_links asks for the purchase of the selection
PaidFor(v) == extras[v] = "succeeded"
\* and unlocked_final_asset_ids for the newest purchase of the gallery.
PaidLast == lastBought # NoPurchase /\ extras[lastBought] = "succeeded"

\* How many photos get_download_links gives of the latest submitted selection
Downloaded(v) == IF Extra(v) > 0 /\ ~PaidFor(v) THEN 0 ELSE picks[v].count

\* How many in full size the media endpoints give, without a share link and
\* while no dispute holds the downloads
Fetched(v) ==
    IF rights \cap {"download_finals", "download_extras"} = {} THEN 0
    ELSE IF Extra(v) > 0 /\ ~PaidLast THEN Included ELSE picks[v].count

----------------------------------------------------------------------------
SelectInit ==
    /\ gate = "published" /\ picks = [v \in SelectionIds |-> NoPick]
    /\ extras = [v \in SelectionIds |-> "none"] /\ lastBought = NoPurchase
    /\ intent = [v \in SelectionIds |-> "none"] /\ news = {}
    /\ rights = {"view_proofs"} /\ shopping = [s \in Shoppers |-> NoShopping]

SelectNext ==
    \/ \E s \in Shoppers, v \in SelectionIds :
          \/ \E n \in Counts : BeginSave(s, v, n)
          \/ BeginSubmitPick(s, v) \/ BeginBuy(s, v)
    \/ \E s \in Shoppers : CommitSave(s) \/ CommitSubmitPick(s) \/ CommitBuy(s) \/ LoseShopper(s)
    \/ \E v \in SelectionIds :
          \/ CardFails(v) \/ CardMoves(v, "open", "paid", "succeeded")
          \/ v \in Declined /\ CardMoves(v, "paid", "refunded", "refunded")
          \/ \E event \in {"succeeded", "failed", "refunded"} : UpsellEvent(v, event)

SelectSpec == SelectInit /\ [][SelectNext]_selectVars
----------------------------------------------------------------------------
SelectTypeOK ==
    /\ gate \in {"published", "selection_submitted"}
    /\ \A v \in SelectionIds :
          /\ picks[v].status \in {"none", "draft", "submitted"} /\ picks[v].count \in Counts \cup {0}
          /\ extras[v] \in {"none", "pending", "succeeded", "failed", "refunded"}
          /\ intent[v] \in {"none", "open", "paid", "refunded"}
    /\ lastBought \in SelectionIds \cup {NoPurchase}
    /\ rights \subseteq {"view_proofs", "download_finals", "download_extras"}

Charged(v) == intent[v] \in {"paid", "refunded"}

\* However saves, submissions, purchases and Stripe's events overlap, photos
\* beyond the included ones are downloaded only if the extras of that very
\* selection were charged, fetched by the media endpoints only if some were,
\* and the gallery is closed only by a selection that owes nothing.
\* (get_download_links, unlocked_final_asset_ids, is_selection_fully_paid)
ExtrasArePaid ==
    /\ \A v \in Newest(Submitted) :
          /\ Downloaded(v) > Included => Charged(v)
          /\ Fetched(v) > Included => \E w \in SelectionIds : Charged(w)
    /\ gate = "selection_submitted" => \E v \in Saved : Extra(v) = 0 \/ Charged(v)
=============================================================================
