----------------------------- MODULE MCOperations -----------------------------
(***************************************************************************)
(* Small instances, for TLC, of the modules of the platform's operations:  *)
(* the calendar, onboarding, search, courses, repairs, skills, risk, calls,*)
(* disputes, selections and prices.  They share no state here, so a        *)
(* behaviour is one of the module that part names, while the others stay   *)
(* where they begin.                                                       *)
(***************************************************************************)
EXTENDS Bookings, Onboarding, Invites, SearchIndex, Learning, Repairs, Skills, Risk, Calls,
        Disputes, Selections, Pricing, TLC

CONSTANTS
    Parts,  \* the modules that are run
    Alike   \* names of requests, sessions and users that differ in nothing else

VARIABLE part

\* The curves of price_at_photo, with shape 1 for power and ln 2 for exponential
MCDecay(shape, n) ==
    IF n <= MINIMUM_PHOTOS THEN 100
    ELSE IF shape = "power" THEN (100 * MINIMUM_PHOTOS) \div n ELSE 100 \div 2 ^ (n - MINIMUM_PHOTOS)

OperationsSymmetry == Permutations(Alike)

OperationsInit ==
    /\ part \in Parts
    /\ BookingsInit /\ OnboardingInit /\ InvitesInit /\ SearchInit /\ LearningInit
    /\ RepairsInit /\ SkillsInit /\ RiskInit /\ CallsInit /\ DisputesInit /\ SelectInit
    /\ PricingInit
    /\ extraPrice = CHOOSE price \in ExtraPrices : TRUE
    /\ extraBounds = [min |-> extraPrice, max |-> extraPrice]
    /\ part # "pricing" => /\ tier = MasterTier
                           /\ package = CHOOSE offer \in [price : EntryPrices, included : IncludedCounts] : TRUE
                           /\ \A j \in Jobs : gigRow[j] = NoJob

\* Every module but p is left alone.
Only(p) ==
    /\ part = p /\ part' = part
    /\ IF p = "bookings" THEN TRUE ELSE UNCHANGED bookingVars
    /\ IF p = "onboarding" THEN TRUE ELSE UNCHANGED onboardingVars
    /\ IF p = "invites" THEN TRUE ELSE UNCHANGED inviteVars
    /\ IF p = "search" THEN TRUE ELSE UNCHANGED indexVars
    /\ IF p = "learning" THEN TRUE ELSE UNCHANGED learningVars
    /\ IF p = "repairs" THEN TRUE ELSE UNCHANGED repairVars
    /\ IF p = "skills" THEN TRUE ELSE UNCHANGED skillVars
    /\ IF p = "risk" THEN TRUE ELSE UNCHANGED riskVars
    /\ IF p = "calls" THEN TRUE ELSE UNCHANGED callVars
    /\ IF p = "disputes" THEN TRUE ELSE UNCHANGED disputeVars
    /\ IF p = "selections" THEN TRUE ELSE UNCHANGED selectVars
    /\ IF p = "pricing" THEN TRUE ELSE UNCHANGED pricingVars

OperationsNext ==
    \/ Only("bookings") /\ BookingsNext
    \/ Only("onboarding") /\ OnboardingNext
    \/ Only("invites") /\ InvitesNext
    \/ Only("search") /\ SearchNext
    \/ Only("learning") /\ LearningNext
    \/ Only("repairs") /\ RepairsNext
    \/ Only("skills") /\ SkillsNext
    \/ Only("risk") /\ RiskNext
    \/ Only("calls") /\ CallsNext
    \/ Only("disputes") /\ DisputesNext
    \/ Only("selections") /\ SelectNext
    \/ Only("pricing") /\ PricingNext

OperationsSpec == OperationsInit /\ [][OperationsNext]_<<
    part, bookingVars, onboardingVars, inviteVars, indexVars, learningVars, repairVars, skillVars,
    riskVars, callVars, disputeVars, selectVars, pricingVars>>

\* Every variable of these modules has its type.
OperationsTypeOK ==
    /\ BookingsTypeOK /\ OnboardingTypeOK /\ InvitesTypeOK /\ SearchTypeOK /\ LearningTypeOK
    /\ RepairsTypeOK /\ SkillsTypeOK /\ RiskTypeOK /\ CallsTypeOK /\ DisputesTypeOK
    /\ SelectTypeOK /\ PricingTypeOK
=============================================================================
