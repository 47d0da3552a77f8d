----------------------------- MODULE Onboarding -----------------------------
(***************************************************************************)
(* How a photographer comes to be listed and bookable: the stages of       *)
(* api/app/services/launch_ops.py, the onboarding, profile, package and    *)
(* niche handlers of api/v1/pro_onboarding.py, the admin's decisions in    *)
(* api/v1/admin.py, and the row services/discovery_index.py keeps of what  *)
(* clients may see.                                                        *)
(*                                                                         *)
(* Handlers are one step each, except update_pro_kyc, which commits the    *)
(* decision before it recomputes the row, and may die in between.          *)
(***************************************************************************)
EXTENDS Integers

CONSTANTS
    Missable  \* facets a photographer may lose again

Facets == {"profile", "portfolio", "packages", "prices", "niches", "gear"}
ASSUME OnboardingAssumption == Missable \subseteq Facets

VARIABLES
    stage,    \* pro_onboarding.status
    kyc,      \* pro_profile.kyc_status
    facets,   \* the checks the photographer passes
    bookable, \* pro_profile.is_accepting_bookings
    listing,  \* pro_public_index: what it says of the photographer
    reindex,  \* the recomputation update_pro_kyc owes, or lost as it died
    events,   \* reindex.pro events that wait
    approvals \* idempotency keys used: of the reindex event, of the referral reward

onboardingVars == <<stage, kyc, facets, bookable, listing, reindex, events, approvals>>

\* _TRANSITIONS; every stage but approved_public may be rejected
Stages == <<"started", "profile_completed", "portfolio_uploaded", "packages_configured",
            "niches_selected", "kyc_submitted", "kyc_approved", "ready_for_review",
            "approved_public">>
Next1(s) == {Stages[i + 1] : i \in {j \in 1..8 : Stages[j] = s}}
Transitions(s) ==
    IF s = "rejected" THEN {"started", "profile_completed"}
    ELSE Next1(s) \cup (IF s = "approved_public" THEN {} ELSE {"rejected"})

Stage == {Stages[i] : i \in 1..9} \cup {"none", "rejected"}
Kyc == {"unsubmitted", "pending", "approved", "rejected"}

\* get_or_create_pro_onboarding: every handler that needs the row creates it
Current == IF stage = "none" THEN "started" ELSE stage

\* set_pro_onboarding_status
CanBecome(from, to) == from = to \/ to \in Transitions(from)

\* onboarding_checks
PackagesConfigured(f) == {"packages", "prices"} \subseteq f
ReadyFor(k, f) == f = Facets /\ k = "approved"

\* maybe_advance_to_ready_for_review
Advanced(s, k) == IF s = "kyc_approved" /\ ReadyFor(k, facets) THEN "ready_for_review" ELSE s

\* recompute_pro_public_index
Listing(k, f, b) ==
    (IF k = "approved" THEN {"verified"} ELSE {})
    \cup (IF b THEN {"bookable"} ELSE {}) \cup (IF "packages" \in f THEN {"priced"} ELSE {})

Recompute(k, f, b) ==
    /\ listing' = Listing(k, f, b)
    /\ reindex' = IF reindex = "lost" THEN "none" ELSE reindex

----------------------------------------------------------------------------
(* The photographer *)

StartOnboarding ==
    /\ stage = "none"
    /\ stage' = "started"
    /\ UNCHANGED <<kyc, facets, bookable, listing, reindex, events, approvals>>

\* complete-profile, upload-portfolio, configure-packages, select-niches
CompleteStage(to) ==
    /\ \/ to = "profile_completed" /\ "profile" \in facets
       \/ to = "portfolio_uploaded" /\ "portfolio" \in facets
       \/ to = "packages_configured" /\ PackagesConfigured(facets)
       \/ to = "niches_selected" /\ "niches" \in facets
    /\ CanBecome(Current, to)
    /\ stage' = to
    /\ UNCHANGED <<kyc, facets, bookable, listing, reindex, events, approvals>>

\* submit_kyc_onboarding_stage; the listing is not recomputed
SubmitKyc ==
    LET k == IF kyc = "unsubmitted" THEN "pending" ELSE kyc
    IN  /\ k \in {"pending", "approved"} /\ CanBecome(Current, "kyc_submitted")
        /\ kyc' = k
        /\ stage' = IF k = "approved" THEN Advanced("kyc_approved", k) ELSE "kyc_submitted"
        /\ UNCHANGED <<facets, bookable, listing, reindex, events, approvals>>

ChangeFacet(f) ==
    /\ f \in facets => f \in Missable
    /\ facets' = IF f \in facets THEN facets \ {f} ELSE facets \cup {f}
    /\ UNCHANGED <<stage, kyc, bookable, events, approvals>>

\* profile, media and package handlers
ChangeListed(f) ==
    /\ f \in {"profile", "portfolio", "packages"}
    /\ ChangeFacet(f) /\ Recompute(kyc, facets', bookable)

\* update_my_niches replaces the list, which may be empty
ChangeNiches == ChangeFacet("niches") /\ Recompute(kyc, facets', bookable)

\* put_my_extra_image_prices, upsert_pro_extra_image_prices and the gear tools:
\* neither the prices nor the gear are part of the listing
ChangeUnlisted(f) ==
    /\ f \in {"prices", "gear"}
    /\ ChangeFacet(f) /\ UNCHANGED <<listing, reindex>>

\* activate_pro; no handler takes is_accepting_bookings back
Activate ==
    /\ kyc = "approved" /\ {"packages", "gear", "profile"} \subseteq facets
    /\ bookable' = TRUE
    /\ Recompute(kyc, facets, TRUE)
    /\ UNCHANGED <<stage, kyc, facets, events, approvals>>

----------------------------------------------------------------------------
(* The admin *)

\* set_pro_onboarding_status asks for a reindex with a key used once
Enter(to) ==
    /\ stage' = to
    /\ IF to = "approved_public" /\ Current # to /\ "reindex" \notin approvals
       THEN events' = events + 1 /\ approvals' = approvals \cup {"reindex"}
       ELSE UNCHANGED <<events, approvals>>

\* update_pro_kyc, up to its first commit
DecideKyc(k) ==
    LET approving == k = "approved" /\ kyc # "approved"
    IN  /\ reindex # "owed"
        /\ kyc' = k
        /\ stage' = IF approving THEN (IF Current = "kyc_submitted" THEN Advanced("kyc_approved", k)
                                       ELSE Current)
                    ELSE stage
        /\ approvals' = IF approving THEN approvals \cup {"referral"} ELSE approvals
        /\ reindex' = "owed"
        /\ UNCHANGED <<facets, bookable, listing, events>>

\* the rest of update_pro_kyc
RecomputeMutSkipped ==
    /\ reindex = "owed"
    /\ reindex' = "none"
    /\ UNCHANGED <<stage, kyc, facets, bookable, events, approvals, listing>>
RecomputeKyc ==
    /\ reindex = "owed"
    /\ listing' = Listing(kyc, facets, bookable)
    /\ reindex' = "none"
    /\ UNCHANGED <<stage, kyc, facets, bookable, events, approvals>>

DieBeforeRecompute ==
    /\ reindex = "owed"
    /\ reindex' = "lost"
    /\ UNCHANGED <<stage, kyc, facets, bookable, listing, events, approvals>>

\* approve_pro_onboarding: the gear, and no other check
ApproveReviewed ==
    /\ "gear" \in facets /\ CanBecome(Current, "approved_public")
    /\ Enter("approved_public")
    /\ UNCHANGED <<kyc, facets, bookable, listing, reindex>>

\* approve_pro: KYC and the public stage at once, without the gear
ApprovePro ==
    /\ {"profile", "portfolio", "niches"} \subseteq facets /\ PackagesConfigured(facets)
    /\ CanBecome(Current, "approved_public")
    /\ kyc' = "approved"
    /\ stage' = "approved_public"
    /\ Recompute("approved", facets, bookable)
    /\ events' = IF stage # "approved_public" /\ "reindex" \notin approvals THEN events + 1 ELSE events
    /\ approvals' = approvals \cup (IF stage # "approved_public" THEN {"reindex"} ELSE {})
                              \cup (IF kyc # "approved" THEN {"referral"} ELSE {})
    /\ UNCHANGED <<facets, bookable>>

\* reject_pro_onboarding, set_pro_onboarding_status_admin
SetStage(to) ==
    /\ CanBecome(Current, to)
    /\ Enter(to)
    /\ UNCHANGED <<kyc, facets, bookable, listing, reindex>>

\* the reindex.pro event, and the admin's rebuild
Reindex ==
    /\ events > 0
    /\ events' = events - 1
    /\ Recompute(kyc, facets, bookable)
    /\ UNCHANGED <<stage, kyc, facets, bookable, approvals>>

\* onboarding_ready_check, the only way on for gear that is verified late
ReadyCheck ==
    /\ stage' = Advanced(Current, kyc)
    /\ UNCHANGED <<kyc, facets, bookable, listing, reindex, events, approvals>>

----------------------------------------------------------------------------
OnboardingInit ==
    /\ stage = "none" /\ kyc = "unsubmitted" /\ facets = {} /\ bookable = FALSE
    /\ listing = {} /\ reindex = "none" /\ events = 0 /\ approvals = {}

OnboardingNext ==
    \/ StartOnboarding \/ SubmitKyc \/ Activate
    \/ \E f \in Facets : ChangeListed(f) \/ ChangeUnlisted(f)
    \/ ChangeNiches
    \/ \E to \in Stage \ {"none"} : CompleteStage(to) \/ SetStage(to)
    \/ \E k \in Kyc : DecideKyc(k)
    \/ RecomputeKyc \/ DieBeforeRecompute
    \/ ApproveReviewed \/ ApprovePro \/ Reindex \/ ReadyCheck

OnboardingSpec == OnboardingInit /\ [][OnboardingNext]_onboardingVars

----------------------------------------------------------------------------
OnboardingTypeOK ==
    /\ stage \in Stage /\ kyc \in Kyc /\ facets \subseteq Facets /\ bookable \in BOOLEAN
    /\ listing \subseteq {"verified", "bookable", "priced"}
    /\ reindex \in {"none", "owed", "lost"} /\ events \in 0..1
    /\ approvals \subseteq {"reindex", "referral"}

\* What clients see of a photographer is what the profile says, after every
\* handler and in whatever order admins and photographer act, until an admin's
\* KYC decision is committed without the recomputation that follows it.
ListingFollowsProfile ==
    reindex \in {"owed", "lost"} \/ listing = Listing(kyc, facets, bookable)
=============================================================================
