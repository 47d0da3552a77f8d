-------------------------- MODULE OperationsProofs --------------------------
(***************************************************************************)
(* Proofs about the operations of the marketplace, for any photographers,  *)
(* clients, hours, codes and sessions: the slots of a photographer never   *)
(* overlap (Bookings), the codes of an invite wave never exceed it         *)
(* (Invites), who is listed has what the profile needs (Onboarding), a     *)
(* fresh account is reviewed (Risk), a ticket of the repair shop names its *)
(* item (Repairs), and the index catches up with the database              *)
(* (SearchIndex).                                                          *)
(***************************************************************************)
EXTENDS Repairs, SearchIndex, Onboarding, Risk, Bookings, Invites, FiniteSetTheorems, TLAPS

----------------------------------------------------------------------------
(* Slots.  The exclusion constraint is checked against every other row when *)
(* a slot is written, and no other action moves the hours of a row or makes *)
(* a slot of none.                                                          *)

ShootsShape ==
    shoot = [g \in Shoots |-> [booking |-> shoot[g].booking, at |-> shoot[g].at,
                               slot |-> shoot[g].slot, intent |-> shoot[g].intent]]

SlotsInv == ShootsShape /\ SlotsDisjoint

\* A step that writes one row keeps the slots disjoint, when the row has no
\* slot afterwards, keeps the slot's hours, or passes the exclusion constraint.
LEMMA RowWritten ==
    ASSUME SlotsInv, NEW g, NEW written,
           written = [booking |-> written.booking, at |-> written.at, slot |-> written.slot, intent |-> written.intent],
           shoot' = [shoot EXCEPT ![g] = written],
           \/ written.slot = "none"
           \/ written.at = shoot[g].at /\ shoot[g].slot # "none"
           \/ SlotFits(g, written.at)
    PROVE  SlotsInv'
<1>1. \A k \in Shoots : shoot'[k] = IF k = g THEN written ELSE shoot[k]
    BY DEF SlotsInv, ShootsShape
<1>2. ShootsShape'
    BY <1>1 DEF SlotsInv, ShootsShape
<1>3. ASSUME NEW k \in Shoots, NEW m \in Shoots, k # m,
             shoot'[k].slot # "none", shoot'[m].slot # "none"
      PROVE  shoot'[k].at \cap shoot'[m].at = {}
    <2>1. CASE k # g /\ m # g
        BY <1>1, <1>3, <2>1 DEF SlotsInv, SlotsDisjoint
    <2>2. CASE k = g
        BY <1>1, <1>3, <2>2 DEF SlotsInv, SlotsDisjoint, SlotFits, Meets
    <2>3. CASE m = g
        BY <1>1, <1>3, <2>3 DEF SlotsInv, SlotsDisjoint, SlotFits, Meets
    <2> QED BY <2>1, <2>2, <2>3
<1> QED
    BY <1>2, <1>3 DEF SlotsInv, SlotsDisjoint

\* A row after an update is a row with the field updated.
LEMMA RowUpdated ==
    ASSUME SlotsInv, NEW g \in Shoots, NEW v
    PROVE  /\ [shoot[g] EXCEPT !.intent = v] =
                  [booking |-> shoot[g].booking, at |-> shoot[g].at, slot |-> shoot[g].slot, intent |-> v]
           /\ [shoot[g] EXCEPT !.slot = v] =
                  [booking |-> shoot[g].booking, at |-> shoot[g].at, slot |-> v, intent |-> shoot[g].intent]
<1>1. shoot[g] = [booking |-> shoot[g].booking, at |-> shoot[g].at,
                  slot |-> shoot[g].slot, intent |-> shoot[g].intent]
    BY DEF SlotsInv, ShootsShape
<1>2. [shoot[g] EXCEPT !.intent = v] =
          [booking |-> shoot[g].booking, at |-> shoot[g].at, slot |-> shoot[g].slot, intent |-> v]
    BY <1>1
<1>3. [shoot[g] EXCEPT !.slot = v] =
          [booking |-> shoot[g].booking, at |-> shoot[g].at, slot |-> v, intent |-> shoot[g].intent]
    BY <1>1
<1> QED BY <1>2, <1>3

LEMMA RowMoved ==
    ASSUME SlotsInv, NEW g \in Shoots, NEW b, NEW at, NEW slot, NEW written,
           written = [shoot[g] EXCEPT !.booking = b, !.at = at, !.slot = slot]
    PROVE  written = [booking |-> b, at |-> at, slot |-> slot, intent |-> shoot[g].intent]
<1> DEFINE moved == [shoot[g] EXCEPT !.booking = b]
           timed == [moved EXCEPT !.at = at]
<1>1. shoot[g] = [booking |-> shoot[g].booking, at |-> shoot[g].at,
                  slot |-> shoot[g].slot, intent |-> shoot[g].intent]
    BY DEF SlotsInv, ShootsShape
<1>2. moved = [booking |-> b, at |-> shoot[g].at, slot |-> shoot[g].slot, intent |-> shoot[g].intent]
    BY <1>1
<1> HIDE DEF moved
<1>3. timed = [booking |-> b, at |-> at, slot |-> shoot[g].slot, intent |-> shoot[g].intent]
    BY <1>2
<1> HIDE DEF timed
<1>4. [timed EXCEPT !.slot = slot] = [booking |-> b, at |-> at, slot |-> slot, intent |-> shoot[g].intent]
    BY <1>3
<1> QED BY <1>4 DEF timed, moved

\* A step that writes no row of the calendar keeps the slots.
LEMMA NoRowWritten ==
    ASSUME SlotsInv, NEW g, g \notin Shoots, NEW written, shoot' = [shoot EXCEPT ![g] = written]
    PROVE  SlotsInv'
BY DEF SlotsInv, ShootsShape, SlotsDisjoint

LEMMA IntentKeepsSlots ==
    ASSUME SlotsInv, NEW g \in Shoots, shoot' = [shoot EXCEPT ![g].intent = TRUE]
    PROVE  SlotsInv'
<1> DEFINE written == [booking |-> shoot[g].booking, at |-> shoot[g].at, slot |-> shoot[g].slot, intent |-> TRUE]
<1>1. shoot' = [shoot EXCEPT ![g] = written]
    BY RowUpdated
<1> QED BY <1>1, RowWritten

LEMMA AcceptKeepsSlots ==
    ASSUME SlotsInv, NEW s \in BookingSessions, CommitAccept(s)
    PROVE  SlotsInv'
<1> DEFINE t == visit[s]
           made == [booking |-> CHOOSE b \in t.on : TRUE, at |-> t.at, slot |-> "none", intent |-> TRUE]
<1>1. CASE t.gig = 0
    <2>1. shoot' = [shoot EXCEPT ![Min(FreeRows)] = made]
        BY <1>1 DEF CommitAccept
    <2>2. /\ made = [booking |-> made.booking, at |-> made.at, slot |-> made.slot, intent |-> made.intent]
          /\ made.slot = "none"
        OBVIOUS
    <2> HIDE DEF made
    <2> QED BY <2>1, <2>2, RowWritten
<1>2. CASE t.gig \in Shoots
    <2>1. t.gig # 0
        BY <1>2, BookingsAssumption DEF Shoots
    <2>2. shoot' = [shoot EXCEPT ![t.gig].intent = TRUE]
        BY <2>1 DEF CommitAccept
    <2> QED BY <1>2, <2>2, IntentKeepsSlots
<1>3. CASE t.gig # 0 /\ t.gig \notin Shoots
    <2> DEFINE written == [shoot[t.gig] EXCEPT !.intent = TRUE]
    <2>1. shoot' = [shoot EXCEPT ![t.gig] = written]
        BY <1>3 DEF CommitAccept
    <2> HIDE DEF written
    <2> QED BY <1>3, <2>1, NoRowWritten
<1> QED BY <1>1, <1>2, <1>3

LEMMA ConfirmKeepsSlots ==
    ASSUME SlotsInv, NEW s \in BookingSessions, CommitConfirm(s)
    PROVE  SlotsInv'
<1> DEFINE t == visit[s]
           g == IF t.gig = 0 THEN Min(FreeRows) ELSE t.gig
           b == CHOOSE x \in t.on : TRUE
           status == IF t.slot = "confirmed" THEN shoot[g].slot ELSE "confirmed"
           written == [booking |-> b, at |-> t.at, slot |-> status, intent |-> shoot[g].intent]
<1>1. /\ SlotFits(g, t.at)
      /\ shoot' = [shoot EXCEPT ![g] = [shoot[g] EXCEPT !.booking = b, !.at = t.at, !.slot = status]]
    BY DEF CommitConfirm
<1> HIDE DEF g, b, status
<1>2. CASE g \in Shoots
    <2>1. shoot' = [shoot EXCEPT ![g] = written]
        <3> DEFINE moved == [shoot[g] EXCEPT !.booking = b, !.at = t.at, !.slot = status]
        <3>1. shoot' = [shoot EXCEPT ![g] = moved]
            BY <1>1
        <3>2. moved = [shoot[g] EXCEPT !.booking = b, !.at = t.at, !.slot = status]
            OBVIOUS
        <3> HIDE DEF moved
        <3>3. moved = written
            BY <1>2, <3>2, RowMoved
        <3> QED BY <3>1, <3>3
    <2>2. written = [booking |-> written.booking, at |-> written.at, slot |-> written.slot, intent |-> written.intent]
          /\ written.at = t.at
        OBVIOUS
    <2> HIDE DEF written
    <2> QED BY <1>1, <2>1, <2>2, RowWritten
<1>3. CASE g \notin Shoots
    <2> DEFINE other == [shoot[g] EXCEPT !.booking = b, !.at = t.at, !.slot = status]
    <2>1. shoot' = [shoot EXCEPT ![g] = other]
        BY <1>1
    <2> HIDE DEF other
    <2> QED BY <1>3, <2>1, NoRowWritten
<1> QED BY <1>2, <1>3

\* cancel_slot and create_reschedule_request leave the hours where they are
LEMMA CancelKeepsSlots ==
    ASSUME SlotsInv, NEW g \in Shoots, shoot[g].slot # "none",
           shoot' = [shoot EXCEPT ![g].slot = "cancelled"]
    PROVE  SlotsInv'
<1> DEFINE written == [booking |-> shoot[g].booking, at |-> shoot[g].at, slot |-> "cancelled", intent |-> shoot[g].intent]
<1>1. shoot' = [shoot EXCEPT ![g] = written]
    BY RowUpdated
<1> QED BY <1>1, RowWritten

LEMMA SlotsStep == SlotsInv /\ [BookingsNext]_bookingVars => SlotsInv'
<1> SUFFICES ASSUME SlotsInv, [BookingsNext]_bookingVars PROVE SlotsInv'
    OBVIOUS
<1>1. CASE UNCHANGED shoot
    BY <1>1 DEF SlotsInv, ShootsShape, SlotsDisjoint
<1>2. ASSUME CustomerStep PROVE SlotsInv'
    <2>1. CASE \E b \in Asked, span \in Spans : AskDirectly(b, span) \/ AskInFunnel(b, span)
        BY <1>1, <2>1 DEF AskDirectly, AskInFunnel, Ask
    <2>2. CASE \E b \in Asked, ws \in Windows \ {{}} : SubmitWindows(b, ws)
        BY <1>1, <2>2 DEF SubmitWindows
    <2>3. CASE \E b \in Asked : EnsureIntent(b)
        BY <2>3, IntentKeepsSlots DEF EnsureIntent, ShootsOf
    <2>4. CASE \E g \in Shoots : CancelSlot(g)
        BY <2>4, CancelKeepsSlots DEF CancelSlot
    <2>5. CASE \E g \in Shoots, ws \in Windows : Reschedule(g, ws)
        BY <1>1, <2>5, CancelKeepsSlots DEF Reschedule
    <2> QED BY <1>2, <2>1, <2>2, <2>3, <2>4, <2>5 DEF CustomerStep
<1>3. ASSUME NEW s \in BookingSessions, SessionStep(s) PROVE SlotsInv'
    <2>1. CASE CommitAccept(s) BY <2>1, AcceptKeepsSlots
    <2>2. CASE CommitConfirm(s) BY <2>2, ConfirmKeepsSlots
    <2>3. CASE UNCHANGED shoot BY <1>1, <2>3
    <2> QED
        BY <1>3, <2>1, <2>2, <2>3
        DEF SessionStep, BeginAccept, BeginRefuse, BeginConfirm, BeginSweep, CommitStatus, AbortVisit
<1>4. SettingsStep \/ PassHour \/ UNCHANGED bookingVars => UNCHANGED shoot
    BY DEF SettingsStep, PutRules, PutExceptions, CreateBlackout, SetPerson, PassHour, bookingVars
<1> QED
    BY <1>1, <1>2, <1>3, <1>4 DEF BookingsNext

\* No two slots of a photographer ever share an hour, for any calendar and any
\* number of overlapping requests.
THEOREM SlotsNeverOverlap == BookingsSpec => []SlotsDisjoint
<1>1. BookingsInit => SlotsInv
    BY DEF BookingsInit, NoShoot, SlotsInv, ShootsShape, SlotsDisjoint
<1>2. SlotsInv => SlotsDisjoint
    BY DEF SlotsInv
<1> QED
    BY <1>1, <1>2, SlotsStep, PTL DEF BookingsSpec

----------------------------------------------------------------------------
(* Invite codes.  The row lock of the wave makes used_invites and the codes *)
(* agree from the read that generating starts with to the write that ends   *)
(* it; redeeming and revoking, which lock nothing, move no code into or out *)
(* of existence.                                                            *)

InvitesShape ==
    /\ wave \in [used : Nat, active : BOOLEAN, expired : BOOLEAN]
    /\ code \in [Codes -> [status : CodeStatus, by : Newcomers \cup {"nobody"}]]
    /\ issuing \in [Issuers -> Int] /\ redeeming \in [Newcomers -> Codes \cup {"none"}]

\* Only the request that holds the lock is generating, with the count the wave
\* has; a code not issued is nobody's, and a request that redeems one found it
\* in existence.
LockHeld == \A a \in Issuers : issuing[a] # -1 => locked = a /\ issuing[a] = wave.used
BlankUntilIssued == \A c \in Codes : code[c].status = "none" => code[c].by = "nobody"
FoundIssued == \A p \in Newcomers : redeeming[p] # "none" => redeeming[p] \in Issued
WaveInv == InvitesShape /\ LockHeld /\ BlankUntilIssued /\ FoundIssued /\ InvitesWithinWave

\* A step that leaves the wave's count and every code's existence alone keeps
\* the number of codes.
LEMMA SameCodes ==
    ASSUME InvitesWithinWave, wave'.used = wave.used,
           \A c \in Codes : code'[c].status # "none" <=> code[c].status # "none"
    PROVE  InvitesWithinWave' /\ Issued' = Issued
<1>1. Issued' = Issued
    BY DEF Issued
<1> QED BY <1>1 DEF InvitesWithinWave

\* Generating adds its codes, which did not exist, to those that do.
LEMMA GenerateKeepsWave ==
    ASSUME WaveInv, NEW a \in Issuers, NEW new \in SUBSET Codes, Generate(a, new)
    PROVE  WaveInv'
<1>1. locked = a /\ issuing[a] = wave.used
    BY DEF Generate, WaveInv, LockHeld
<1>2. Issued' = Issued \cup new /\ Issued \cap new = {}
    BY DEF Generate, Issued, Blank, WaveInv, InvitesShape
<1>3. IsFiniteSet(Issued) /\ IsFiniteSet(new)
    BY FS_Subset, InvitesAssumption DEF Issued
<1>4. Cardinality(Issued') = Cardinality(Issued) + Cardinality(new)
    <2>1. Cardinality(Issued \cap new) = 0
        BY <1>2, FS_EmptySet
    <2>2. Cardinality(Issued \cup new) = Cardinality(Issued) + Cardinality(new) - Cardinality(Issued \cap new)
        BY <1>3, FS_Union
    <2>3. Cardinality(Issued) \in Nat /\ Cardinality(new) \in Nat
        BY <1>3, FS_CardinalityType
    <2> QED BY <1>2, <2>1, <2>2, <2>3
<1>5. Cardinality(new) \in Nat
    BY <1>3, FS_CardinalityType
<1>6. wave'.used = issuing[a] + Cardinality(new) /\ Cardinality(new) <= MaxInvites - issuing[a]
    BY DEF Generate, WaveInv, InvitesShape
<1>7. InvitesWithinWave'
    BY <1>1, <1>4, <1>5, <1>6, InvitesAssumption DEF WaveInv, InvitesWithinWave, InvitesShape
<1>8. InvitesShape'
    BY <1>1, <1>5 DEF Generate, WaveInv, InvitesShape, Blank, CodeStatus
<1>9. LockHeld'
    BY <1>1 DEF Generate, WaveInv, LockHeld, InvitesShape
<1>10. FoundIssued' /\ BlankUntilIssued'
    BY <1>2 DEF Generate, WaveInv, BlankUntilIssued, FoundIssued, Blank, InvitesShape
<1> QED BY <1>7, <1>8, <1>9, <1>10 DEF WaveInv

LEMMA InvitesStep == WaveInv /\ [InvitesNext]_inviteVars => WaveInv'
<1> SUFFICES ASSUME WaveInv, [InvitesNext]_inviteVars PROVE WaveInv'
    OBVIOUS
<1>1. ASSUME NEW a \in Issuers, BeginGenerate(a) PROVE WaveInv'
    <2>1. InvitesWithinWave' /\ Issued' = Issued
        BY <1>1, SameCodes DEF BeginGenerate, WaveInv
    <2>2. \A b \in Issuers : issuing[b] = -1
        BY <1>1, InvitesAssumption DEF BeginGenerate, WaveInv, LockHeld
    <2>3. InvitesShape' /\ LockHeld'
        BY <1>1, <2>2 DEF BeginGenerate, WaveInv, InvitesShape, LockHeld
    <2> QED BY <1>1, <2>1, <2>3 DEF BeginGenerate, WaveInv, BlankUntilIssued, FoundIssued
<1>2. ASSUME NEW a \in Issuers, GiveUpGenerate(a) PROVE WaveInv'
    <2>1. InvitesWithinWave' /\ Issued' = Issued
        BY <1>2, SameCodes DEF GiveUpGenerate, WaveInv
    <2>2. InvitesShape' /\ LockHeld'
        BY <1>2 DEF GiveUpGenerate, WaveInv, InvitesShape, LockHeld
    <2> QED BY <1>2, <2>1, <2>2 DEF GiveUpGenerate, WaveInv, BlankUntilIssued, FoundIssued
<1>3. ASSUME NEW p \in Newcomers, NEW c \in Codes, BeginRedeem(p, c) PROVE WaveInv'
    <2>1. InvitesWithinWave' /\ Issued' = Issued
        BY <1>3, SameCodes DEF BeginRedeem, WaveInv
    <2>2. c \in Issued
        BY <1>3 DEF BeginRedeem, Issued
    <2> QED BY <1>3, <2>1, <2>2 DEF BeginRedeem, WaveInv, InvitesShape, LockHeld, BlankUntilIssued, FoundIssued
<1>4. ASSUME NEW p \in Newcomers, Redeem(p) PROVE WaveInv'
    <2>1. redeeming[p] \in Issued
        BY <1>4 DEF Redeem, WaveInv, BlankUntilIssued, FoundIssued
    <2>2. code' = [code EXCEPT ![redeeming[p]] = [status |-> "redeemed", by |-> p]]
        BY <1>4 DEF Redeem
    <2>3. \A c \in Codes : code'[c].status # "none" <=> code[c].status # "none"
        BY <2>1, <2>2 DEF Issued, WaveInv, InvitesShape
    <2>4. InvitesWithinWave' /\ Issued' = Issued
        BY <1>4, <2>3, SameCodes DEF Redeem, WaveInv
    <2>5. InvitesShape'
        BY <1>4, <2>1, <2>2 DEF Redeem, WaveInv, InvitesShape, CodeStatus, Issued
    <2> QED BY <1>4, <2>4, <2>5 DEF Redeem, WaveInv, InvitesShape, LockHeld, BlankUntilIssued, FoundIssued
<1>5. ASSUME NEW p \in Newcomers, GiveUpRedeem(p) PROVE WaveInv'
    <2>1. InvitesWithinWave' /\ Issued' = Issued
        BY <1>5, SameCodes DEF GiveUpRedeem, WaveInv
    <2> QED BY <1>5, <2>1 DEF GiveUpRedeem, WaveInv, InvitesShape, LockHeld, BlankUntilIssued, FoundIssued
<1>6. ASSUME NEW c \in Codes, Revoke(c) PROVE WaveInv'
    <2>1. code[c].status # "none"
        BY <1>6 DEF Revoke, Blank, WaveInv, InvitesShape, BlankUntilIssued
    <2>2. InvitesWithinWave' /\ Issued' = Issued
        BY <1>6, <2>1, SameCodes DEF Revoke, WaveInv, InvitesShape
    <2>3. InvitesShape'
        BY <1>6 DEF Revoke, WaveInv, InvitesShape, CodeStatus
    <2> QED BY <1>6, <2>2, <2>3 DEF Revoke, WaveInv, InvitesShape, LockHeld, BlankUntilIssued, FoundIssued
<1>7. CASE Expire
    <2>1. wave'.used = wave.used /\ InvitesShape'
        BY <1>7 DEF Expire, WaveInv, InvitesShape
    <2>2. InvitesWithinWave' /\ Issued' = Issued
        BY <1>7, <2>1, SameCodes DEF Expire, WaveInv
    <2> QED BY <1>7, <2>1, <2>2 DEF Expire, WaveInv, LockHeld, BlankUntilIssued, FoundIssued
<1>8. CASE UNCHANGED inviteVars
    BY <1>8 DEF inviteVars, WaveInv, InvitesShape, LockHeld, BlankUntilIssued, FoundIssued, InvitesWithinWave, Issued
<1> QED
    BY <1>1, <1>2, <1>3, <1>4, <1>5, <1>6, <1>7, <1>8, GenerateKeepsWave DEF InvitesNext

\* However many requests generate codes at once, those that exist are counted
\* by used_invites and within max_invites.
THEOREM InvitesStayWithinWave == InvitesSpec => []InvitesWithinWave
<1>1. InvitesInit => WaveInv
    <2> SUFFICES ASSUME InvitesInit PROVE WaveInv
        OBVIOUS
    <2>1. Issued = {}
        BY DEF InvitesInit, Issued, Blank
    <2>2. InvitesWithinWave
        BY <2>1, FS_EmptySet, InvitesAssumption DEF InvitesInit, InvitesWithinWave
    <2> QED
        BY <2>2 DEF InvitesInit, WaveInv, InvitesShape, LockHeld, BlankUntilIssued, FoundIssued, Blank, CodeStatus
<1>2. WaveInv => InvitesWithinWave
    BY DEF WaveInv
<1> QED
    BY <1>1, <1>2, InvitesStep, PTL DEF InvitesSpec

----------------------------------------------------------------------------
(* Listings.  Every handler that moves what a listing shows recomputes it,  *)
(* but for submit-kyc, which never moves whether KYC is approved.           *)

LEMMA OnboardingStep == ListingFollowsProfile /\ [OnboardingNext]_onboardingVars => ListingFollowsProfile'
<1> SUFFICES ASSUME ListingFollowsProfile, [OnboardingNext]_onboardingVars PROVE ListingFollowsProfile'
    OBVIOUS
<1>1. Recompute(kyc', facets', bookable') => ListingFollowsProfile'
    BY DEF Recompute, ListingFollowsProfile
<1>2. CASE UNCHANGED <<kyc, facets, bookable, listing, reindex>>
    BY <1>2 DEF ListingFollowsProfile, Listing
<1>3. CASE SubmitKyc
    <2>1. kyc' = "approved" <=> kyc = "approved"
        BY <1>3 DEF SubmitKyc
    <2> QED BY <1>3, <2>1 DEF SubmitKyc, ListingFollowsProfile, Listing
<1>4. ASSUME NEW f \in Facets, ChangeUnlisted(f) PROVE ListingFollowsProfile'
    <2>1. "packages" \in facets' <=> "packages" \in facets
        BY <1>4 DEF ChangeUnlisted, ChangeFacet
    <2> QED BY <1>4, <2>1 DEF ChangeUnlisted, ChangeFacet, ListingFollowsProfile, Listing
<1>10. CASE ChangeNiches \/ \E f \in Facets : ChangeListed(f)
    BY <1>1, <1>10 DEF ChangeListed, ChangeNiches, ChangeFacet
<1>5. CASE Activate
    BY <1>1, <1>5 DEF Activate
<1>6. CASE ApprovePro
    BY <1>1, <1>6 DEF ApprovePro
<1>7. CASE Reindex
    BY <1>1, <1>7 DEF Reindex
<1>8. CASE RecomputeKyc \/ DieBeforeRecompute \/ \E k \in Kyc : DecideKyc(k)
    BY <1>8 DEF RecomputeKyc, DieBeforeRecompute, DecideKyc, ListingFollowsProfile
<1>9. StartOnboarding \/ ApproveReviewed \/ ReadyCheck \/ UNCHANGED onboardingVars
      \/ (\E to \in Stage \ {"none"} : CompleteStage(to) \/ SetStage(to))
      => UNCHANGED <<kyc, facets, bookable, listing, reindex>>
    BY DEF StartOnboarding, ApproveReviewed, ReadyCheck, onboardingVars, CompleteStage, SetStage
<1> QED
    BY <1>2, <1>3, <1>4, <1>5, <1>6, <1>7, <1>8, <1>9, <1>10 DEF OnboardingNext

\* The public listing says what the profile says, but for a KYC decision whose
\* recomputation is still owed or was lost.
THEOREM ListingsFollowProfiles == OnboardingSpec => []ListingFollowsProfile
<1>1. OnboardingInit => ListingFollowsProfile
    BY DEF OnboardingInit, ListingFollowsProfile, Listing
<1> QED BY <1>1, OnboardingStep, PTL DEF OnboardingSpec

----------------------------------------------------------------------------
(* Payout accounts.  A session that found its account freshly changed is    *)
(* held by the freeze it adds or found, until an admin clears one: the      *)
(* clearance counts for the change of the moment, which is no older.        *)

RiskShape ==
    /\ account \in [change : Nat, recent : BOOLEAN]
    /\ inForce \in [ActionTypes -> Nat] /\ reviewed \in Nat
    /\ ruleOn \subseteq Rules
    /\ asking \in [RiskSessions -> [op : {"idle", "trigger", "payout"}, change : Nat, fires : SUBSET Rules,
                                    score : Int, missing : SUBSET ActionTypes]]
    /\ score \in Int /\ deltas \in Int /\ accepted \subseteq Nat

Frozen == inForce["freeze_payouts"] > 0

\* The change a payout request found is reviewed or its payouts are frozen, but
\* for a freeze that the session has still to add.
Guarded(s) ==
    /\ asking[s].change <= account.change
    /\ asking[s].op = "payout" /\ asking[s].change # 0 =>
          \/ reviewed >= asking[s].change \/ Frozen
          \/ asking[s].fires # {} /\ "freeze_payouts" \in asking[s].missing

RiskInv ==
    /\ RiskShape
    /\ \A s \in RiskSessions : Guarded(s)
    /\ reviewed <= account.change
    /\ FreshAccountsAreReviewed

LEMMA FreezeIsAnAction == "freeze_payouts" \in ActionTypes
BY DEF ActionTypes

LEMMA RulesAct == \A r \in DOMAIN DefaultRules : DefaultRules[r].delta \in Nat
BY DEF DefaultRules

LEMMA PayoutFreezes == Actions({"payout"}) = {"freeze_payouts", "manual_review"}
BY DEF Actions, DefaultRules

\* Whatever reads, a request about payouts starts guarded.
LEMMA ReadingGuards ==
    ASSUME RiskInv, NEW s \in RiskSessions, NEW op \in {"trigger", "payout"}, NEW change \in Nat,
           NEW fires \in SUBSET Rules, Reading(s, op, change, fires), change <= account.change,
           op = "payout" => (change = 0 \/ reviewed >= change \/ fires = {"payout"})
    PROVE  RiskInv'
<1>1. asking'[s].change = change /\ asking'[s].op = op /\ asking'[s].fires = fires
      /\ asking'[s].missing = {type \in Actions(fires) : ~Active(type)}
    BY DEF Reading, RiskInv, RiskShape
<1>2. Actions(fires) \subseteq ActionTypes
    BY DEF Actions, ActionTypes
<1>3. RiskShape'
    BY <1>2 DEF Reading, RiskInv, RiskShape
<1>4. Guarded(s)'
    <2>1. ASSUME fires = {"payout"} PROVE "freeze_payouts" \in asking'[s].missing \/ Frozen'
        BY <1>1, <2>1, PayoutFreezes, FreezeIsAnAction DEF Active, Frozen, Reading, RiskInv, RiskShape
    <2> QED BY <1>1, <2>1 DEF Guarded, Reading, RiskInv, RiskShape
<1>5. ASSUME NEW t \in RiskSessions, t # s PROVE Guarded(t)'
    BY <1>5 DEF Guarded, Frozen, Reading, RiskInv, RiskShape
<1> QED BY <1>3, <1>4, <1>5 DEF RiskInv, FreshAccountsAreReviewed, Reading

\* A session that adds the rows it found missing lifts no freeze, and adds one
\* if it found none.
LEMMA TriggeredFreezes ==
    ASSUME RiskInv, NEW s \in RiskSessions, Triggered(s)
    PROVE  /\ inForce' \in [ActionTypes -> Nat] /\ score' \in Int /\ deltas' \in Int
           /\ Frozen => Frozen'
           /\ "freeze_payouts" \in asking[s].missing => Frozen'
<1>1. inForce' \in [ActionTypes -> Nat]
    BY DEF Triggered, RiskInv, RiskShape
<1>2. score' \in Int /\ deltas' \in Int
    <2>1. asking[s].fires # {} => DefaultRules[CHOOSE r \in asking[s].fires : TRUE].delta \in Nat
        BY RulesAct, RiskAssumption DEF RiskInv, RiskShape
    <2> QED BY <2>1 DEF Triggered, RiskInv, RiskShape
<1>3. inForce'["freeze_payouts"] = IF "freeze_payouts" \in asking[s].missing
                                   THEN inForce["freeze_payouts"] + 1 ELSE inForce["freeze_payouts"]
    BY FreezeIsAnAction DEF Triggered
<1> QED BY <1>1, <1>2, <1>3, FreezeIsAnAction DEF Frozen, RiskInv, RiskShape

\* A step that gives one session what it asks, and frees no payouts, keeps the
\* others guarded.
LEMMA OthersGuarded ==
    ASSUME RiskInv, NEW s \in RiskSessions, \A t \in RiskSessions \ {s} : asking'[t] = asking[t],
           Frozen => Frozen', UNCHANGED <<account, reviewed>>
    PROVE  \A t \in RiskSessions \ {s} : Guarded(t)'
BY DEF RiskInv, RiskShape, Guarded

LEMMA AccountAged ==
    ASSUME NEW a \in [change : Nat, recent : BOOLEAN], NEW v
    PROVE  [a EXCEPT !.recent = v] = [change |-> a.change, recent |-> v]
<1>1. a = [change |-> a.change, recent |-> a.recent]
    OBVIOUS
<1> QED BY <1>1

LEMMA RiskStep == RiskInv /\ [RiskNext]_riskVars => RiskInv'
<1> SUFFICES ASSUME RiskInv, [RiskNext]_riskVars PROVE RiskInv'
    OBVIOUS
<1>1. ASSUME NEW s \in RiskSessions, NEW rule \in Rules, BeginTrigger(s, rule) PROVE RiskInv'
    <2>1. Reading(s, "trigger", 0, {rule}) /\ 0 <= account.change
        BY <1>1 DEF BeginTrigger, RiskInv, RiskShape
    <2> QED BY <2>1, ReadingGuards
<1>2. ASSUME NEW s \in RiskSessions, BeginPayout(s) PROVE RiskInv'
    <2> DEFINE fires == IF "payout" \in ruleOn /\ account.recent /\ ~ChangeReviewed THEN {"payout"} ELSE {}
               change == IF "payout" \in ruleOn /\ account.recent THEN account.change ELSE 0
    <2>1. Reading(s, "payout", change, fires)
        BY <1>2 DEF BeginPayout
    <2>2. fires \in SUBSET Rules /\ change \in Nat /\ change <= account.change
        BY DEF RiskInv, RiskShape
    <2>3. change = 0 \/ reviewed >= change \/ fires = {"payout"}
        BY DEF ChangeReviewed
    <2> HIDE DEF fires, change
    <2> QED BY <2>1, <2>2, <2>3, ReadingGuards
<1>3. ASSUME NEW s \in RiskSessions, CommitTrigger(s) \/ CommitFreeze(s) PROVE RiskInv'
    <2>1. /\ inForce' \in [ActionTypes -> Nat] /\ score' \in Int /\ deltas' \in Int
          /\ Frozen => Frozen'
          /\ "freeze_payouts" \in asking[s].missing => Frozen'
        BY <1>3, TriggeredFreezes DEF CommitTrigger, CommitFreeze
    <2>2. UNCHANGED <<account, reviewed, ruleOn, accepted>>
        BY <1>3 DEF CommitTrigger, CommitFreeze
    <2>3. RiskShape'
        BY <1>3, <2>1, <2>2 DEF CommitTrigger, CommitFreeze, RiskInv, RiskShape, NotAsking
    <2>4. \A t \in RiskSessions \ {s} : Guarded(t)'
        BY <1>3, <2>1, <2>2, OthersGuarded DEF CommitTrigger, CommitFreeze, RiskInv, RiskShape
    <2>5. Guarded(s)'
        <3>1. CASE CommitTrigger(s)
            BY <3>1, <2>2 DEF CommitTrigger, NotAsking, Guarded, RiskInv, RiskShape
        <3>2. CASE CommitFreeze(s)
            BY <3>2, <2>1, <2>2 DEF CommitFreeze, Guarded, RiskInv, RiskShape
        <3> QED BY <1>3, <3>1, <3>2
    <2> QED BY <2>2, <2>3, <2>4, <2>5 DEF RiskInv, FreshAccountsAreReviewed
<1>4. ASSUME NEW s \in RiskSessions, LetThrough(s) \/ AbortAsking(s) PROVE RiskInv'
    <2>1. UNCHANGED <<account, inForce, reviewed, score, deltas, ruleOn>>
          /\ asking' = [asking EXCEPT ![s] = NotAsking]
        BY <1>4 DEF LetThrough, AbortAsking
    <2>2. RiskShape' /\ Guarded(s)'
        <3>1. asking[s].change \in Nat /\ accepted \subseteq Nat
            BY DEF RiskInv, RiskShape
        <3>2. accepted' \subseteq accepted \cup {asking[s].change}
            BY <1>4 DEF LetThrough, AbortAsking
        <3>3. accepted' \subseteq Nat
            BY <3>1, <3>2
        <3>4. asking' \in [RiskSessions -> [op : {"idle", "trigger", "payout"}, change : Nat,
                                          fires : SUBSET Rules, score : Int, missing : SUBSET ActionTypes]]
            BY <2>1 DEF RiskInv, RiskShape, NotAsking
        <3>5. RiskShape'
            BY <2>1, <3>3, <3>4 DEF RiskInv, RiskShape
        <3>6. asking'[s] = NotAsking /\ account.change \in Nat
            BY <2>1 DEF RiskInv, RiskShape
        <3>7. Guarded(s)'
            BY <2>1, <3>6 DEF Guarded, NotAsking
        <3> QED BY <3>5, <3>7
    <2>3. \A t \in RiskSessions \ {s} : Guarded(t)'
        BY <2>1, OthersGuarded DEF Frozen, RiskInv, RiskShape
    <2>4. FreshAccountsAreReviewed'
        <3>1. CASE LetThrough(s)
            <4>1. asking[s].change # 0 => reviewed >= asking[s].change
                BY <3>1, FreezeIsAnAction DEF LetThrough, Guarded, Frozen, RiskInv, RiskShape
            <4> QED BY <3>1, <4>1 DEF LetThrough, FreshAccountsAreReviewed, RiskInv
        <3>2. CASE AbortAsking(s)
            BY <3>2 DEF AbortAsking, FreshAccountsAreReviewed, RiskInv
        <3> QED BY <1>4, <3>1, <3>2
    <2> QED BY <2>1, <2>2, <2>3, <2>4 DEF RiskInv
<1>5. CASE ChangeAccount \/ AgeAccount
    <2>1. account' \in [change : Nat, recent : BOOLEAN] /\ account'.change >= account.change
          /\ UNCHANGED <<inForce, reviewed, score, deltas, ruleOn, asking, accepted>>
        <3>1. CASE ChangeAccount
            BY <3>1 DEF ChangeAccount, RiskInv, RiskShape
        <3>2. CASE AgeAccount
            <4>1. PICK v \in BOOLEAN : account' = [account EXCEPT !.recent = v]
                BY <3>2 DEF AgeAccount
            <4>2. account \in [change : Nat, recent : BOOLEAN]
                BY DEF RiskInv, RiskShape
            <4>3. account' = [change |-> account.change, recent |-> v]
                BY <4>1, <4>2, AccountAged
            <4>4. account.change \in Nat
                BY <4>2
            <4>5. account' \in [change : Nat, recent : BOOLEAN] /\ account'.change = account.change
                BY <4>3, <4>4
            <4> QED BY <3>2, <4>4, <4>5 DEF AgeAccount
        <3> QED BY <1>5, <3>1, <3>2
    <2> QED BY <2>1 DEF RiskInv, RiskShape, Guarded, Frozen, FreshAccountsAreReviewed
<1>6. ASSUME NEW type \in ActionTypes, ClearAction(type) PROVE RiskInv'
    <2>1. CASE type = "freeze_payouts"
        BY <1>6, <2>1 DEF ClearAction, RiskInv, RiskShape, Guarded, FreshAccountsAreReviewed
    <2>2. CASE type # "freeze_payouts"
        <3>1. inForce'["freeze_payouts"] = inForce["freeze_payouts"] /\ UNCHANGED reviewed
            BY <1>6, <2>2, FreezeIsAnAction DEF ClearAction, RiskInv, RiskShape
        <3>2. RiskShape'
            BY <1>6, <3>1 DEF ClearAction, RiskInv, RiskShape
        <3> QED BY <1>6, <3>1, <3>2 DEF ClearAction, RiskInv, Guarded, Frozen, FreshAccountsAreReviewed
    <2> QED BY <2>1, <2>2
<1>7. CASE SetScore(0) \/ Reconcile \/ UNCHANGED riskVars
           \/ \E rule \in Switched, on \in BOOLEAN : PutRule(rule, on)
    <2>1. UNCHANGED <<account, inForce, reviewed, asking, accepted>>
          /\ score' \in Int /\ deltas' \in Int /\ ruleOn' \subseteq Rules
        BY <1>7, RiskAssumption DEF SetScore, Reconcile, PutRule, riskVars, RiskInv, RiskShape
    <2> QED BY <2>1 DEF RiskInv, RiskShape, Guarded, Frozen, FreshAccountsAreReviewed
<1> QED
    BY <1>1, <1>2, <1>3, <1>4, <1>5, <1>6, <1>7 DEF RiskNext

\* A payout request that found the payout account freshly changed went through
\* only after an admin cleared a freeze that came after that change, for any
\* rules, sessions and changes.
THEOREM FreshAccountsReviewed == RiskSpec => []FreshAccountsAreReviewed
<1>1. RiskInit => RiskInv
    BY DEF RiskInit, RiskInv, RiskShape, NotAsking, Guarded, FreshAccountsAreReviewed
<1>2. RiskInv => FreshAccountsAreReviewed
    BY DEF RiskInv
<1> QED BY <1>1, <1>2, RiskStep, PTL DEF RiskSpec

----------------------------------------------------------------------------
(* Gear.  The foreign key is checked when an item goes and when a ticket    *)
(* that names one comes; a ticket that exists never stops existing.         *)

TicketStatus == DOMAIN TicketMoves
RequestOps == {"idle", "delete", "create", "move", "quote", "assign"}
Things == GearItems \cup Benches

RepairsShape ==
    /\ owned \subseteq GearItems
    /\ ticket \in [RepairTickets -> [status : {"none"} \cup TicketStatus, item : SUBSET GearItems,
                                     bench : SUBSET Things, quoted : BOOLEAN]]
    /\ desk \in [Desks -> [op : RequestOps, on : SUBSET RepairTickets,
                           was : {"none"} \cup TicketStatus, to : {"none"} \cup TicketStatus,
                           item : SUBSET Things]]

\* A request to create names gear items; one that moves a ticket gives it a status.
Prepared(d) ==
    /\ desk[d].op = "create" => desk[d].item \subseteq GearItems
    /\ desk[d].op = "move" => desk[d].to # "none"

TicketsInv ==
    /\ RepairsShape
    /\ \A d \in Desks : Prepared(d)
    /\ \A t \in RepairTickets : ticket[t].item # {} => ticket[t].status # "none"
    /\ TicketsNameAnItem

LEMMA MovesStayStatus ==
    /\ \A s \in TicketStatus : TicketMoves[s] \subseteq TicketStatus
    /\ "none" \notin TicketStatus
    /\ {"submitted", "partner_assigned", "quote_sent"} \subseteq TicketStatus
BY DEF TicketStatus, TicketMoves

\* What a request starts with, field by field
LEMMA RequestNamed ==
    ASSUME NEW op, NEW on
    PROVE  [NoRequest EXCEPT !.op = op, !.on = on] =
               [op |-> op, on |-> on, was |-> "none", to |-> "none", item |-> {}]
<1> DEFINE named == [NoRequest EXCEPT !.op = op]
<1>1. named = [op |-> op, on |-> {}, was |-> "none", to |-> "none", item |-> {}]
    BY DEF NoRequest
<1> HIDE DEF named
<1>2. [named EXCEPT !.on = on] = [op |-> op, on |-> on, was |-> "none", to |-> "none", item |-> {}]
    BY <1>1
<1> QED BY <1>2 DEF named

LEMMA RequestOfItem ==
    ASSUME NEW op, NEW item
    PROVE  [NoRequest EXCEPT !.op = op, !.item = item] =
               [op |-> op, on |-> {}, was |-> "none", to |-> "none", item |-> item]
<1> DEFINE named == [NoRequest EXCEPT !.op = op]
<1>1. named = [op |-> op, on |-> {}, was |-> "none", to |-> "none", item |-> {}]
    BY DEF NoRequest
<1> HIDE DEF named
<1>2. [named EXCEPT !.item = item] = [op |-> op, on |-> {}, was |-> "none", to |-> "none", item |-> item]
    BY <1>1
<1> QED BY <1>2 DEF named

LEMMA RequestRead ==
    ASSUME NEW op, NEW on, NEW was, NEW item, NEW q,
           q = [NoRequest EXCEPT !.op = op, !.on = on, !.was = was, !.item = item]
    PROVE  q = [op |-> op, on |-> on, was |-> was, to |-> "none", item |-> item]
<1> DEFINE placed == [NoRequest EXCEPT !.op = op, !.on = on]
           read == [placed EXCEPT !.was = was]
<1>1. placed = [op |-> op, on |-> on, was |-> "none", to |-> "none", item |-> {}]
    BY RequestNamed
<1> HIDE DEF placed
<1>2. read = [op |-> op, on |-> on, was |-> was, to |-> "none", item |-> {}]
    BY <1>1
<1> HIDE DEF read
<1>3. [read EXCEPT !.item = item] = [op |-> op, on |-> on, was |-> was, to |-> "none", item |-> item]
    BY <1>2
<1> QED BY <1>3 DEF placed, read

\* A step that gives a request something to do, or ends it, and writes nothing
\* else keeps the invariant when the request is prepared.
LEMMA DeskStep ==
    ASSUME TicketsInv, NEW d \in Desks, NEW q,
           q \in [op : RequestOps, on : SUBSET RepairTickets, was : {"none"} \cup TicketStatus,
                  to : {"none"} \cup TicketStatus, item : SUBSET Things],
           desk' = [desk EXCEPT ![d] = q],
           q.op = "create" => q.item \subseteq GearItems, q.op = "move" => q.to # "none",
           UNCHANGED <<owned, ticket>>
    PROVE  TicketsInv'
BY DEF TicketsInv, RepairsShape, Prepared, TicketsNameAnItem

LEMMA EndedIsPrepared ==
    ASSUME TicketsInv, NEW d \in Desks, desk' = [desk EXCEPT ![d] = NoRequest]
    PROVE  /\ desk' \in [Desks -> [op : RequestOps, on : SUBSET RepairTickets,
                                   was : {"none"} \cup TicketStatus, to : {"none"} \cup TicketStatus,
                                   item : SUBSET Things]]
           /\ \A e \in Desks : Prepared(e)'
BY DEF TicketsInv, RepairsShape, Prepared, NoRequest, RequestOps

\* A request that saves a ticket with the items it had, or with gear that is
\* there, keeps the invariant.
LEMMA SaveStep ==
    ASSUME TicketsInv, NEW d \in Desks, NEW t \in RepairTickets, NEW r,
           r \in [status : {"none"} \cup TicketStatus, item : SUBSET GearItems,
                  bench : SUBSET Things, quoted : BOOLEAN],
           r.item # {} => r.status # "none", r.item = ticket[t].item \/ r.item \subseteq owned,
           Save(d, t, r)
    PROVE  TicketsInv'
<1>1. RepairsShape' /\ \A e \in Desks : Prepared(e)'
    BY EndedIsPrepared DEF Save, Leave, TicketsInv, RepairsShape
<1>2. \A u \in RepairTickets : ticket'[u] = IF u = t THEN r ELSE ticket[u]
    BY DEF Save, TicketsInv, RepairsShape
<1>3. owned' = owned
    BY DEF Save
<1> QED BY <1>1, <1>2, <1>3, MovesStayStatus DEF TicketsInv, TicketsNameAnItem

LEMMA TicketStepKeeps ==
    ASSUME TicketsInv, NEW d \in Desks, TicketStep(d)
    PROVE  TicketsInv'
<1>1. ASSUME NEW items \in SUBSET GearItems, BeginTicket(d, items) PROVE TicketsInv'
    <2> DEFINE q == [NoRequest EXCEPT !.op = "create", !.item = items]
    <2>1. q = [op |-> "create", on |-> {}, was |-> "none", to |-> "none", item |-> items]
        BY RequestOfItem
    <2>2. desk' = [desk EXCEPT ![d] = q] /\ UNCHANGED <<owned, ticket>>
        BY <1>1 DEF BeginTicket, Begin
    <2> HIDE DEF q
    <2> QED BY <2>1, <2>2, DeskStep DEF RequestOps, Things
<1>2. ASSUME NEW t \in RepairTickets, NEW to \in Moves, BeginMove(d, t, to) PROVE TicketsInv'
    <2> DEFINE q == [op |-> "move", on |-> {t}, was |-> ticket[t].status, to |-> to, item |-> {}]
    <2>1. ticket[t].status \in TicketStatus
        BY <1>2 DEF BeginMove, TicketsHeld, TicketsInv, RepairsShape
    <2>2. to \in TicketStatus /\ to # "none"
        BY <1>2, <2>1, MovesStayStatus DEF BeginMove
    <2>3. desk' = [desk EXCEPT ![d] = q] /\ UNCHANGED <<owned, ticket>>
        BY <1>2 DEF BeginMove, Begin
    <2> QED BY <2>1, <2>2, <2>3, DeskStep DEF RequestOps
<1>3. ASSUME NEW t \in RepairTickets, NEW b \in Benches, BeginAssign(d, t, b) PROVE TicketsInv'
    <2> DEFINE q == [NoRequest EXCEPT !.op = "assign", !.on = {t}, !.was = ticket[t].status, !.item = {b}]
    <2>1. q = [NoRequest EXCEPT !.op = "assign", !.on = {t}, !.was = ticket[t].status, !.item = {b}]
        OBVIOUS
    <2>2. desk' = [desk EXCEPT ![d] = q] /\ UNCHANGED <<owned, ticket>>
        BY <1>3 DEF BeginAssign, Begin
    <2>3. ticket[t].status \in {"none"} \cup TicketStatus
        BY DEF TicketsInv, RepairsShape
    <2> HIDE DEF q
    <2>4. q = [op |-> "assign", on |-> {t}, was |-> ticket[t].status, to |-> "none", item |-> {b}]
        BY <2>1, RequestRead
    <2> QED BY <2>2, <2>3, <2>4, DeskStep DEF RequestOps, Things
<1>4. ASSUME NEW t \in RepairTickets, BeginQuote(d, t) PROVE TicketsInv'
    <2> DEFINE q == [NoRequest EXCEPT !.op = "quote", !.on = {t}]
    <2>1. q = [op |-> "quote", on |-> {t}, was |-> "none", to |-> "none", item |-> {}]
        BY RequestNamed
    <2>2. desk' = [desk EXCEPT ![d] = q] /\ UNCHANGED <<owned, ticket>>
        BY <1>4 DEF BeginQuote, Begin
    <2> HIDE DEF q
    <2> QED BY <2>1, <2>2, DeskStep DEF RequestOps
<1>5. ASSUME NEW t \in RepairTickets, CommitTicket(d, t) PROVE TicketsInv'
    <2> DEFINE entered == [NoTicket EXCEPT !.status = "submitted"]
               r == [entered EXCEPT !.item = desk[d].item]
    <2>1. /\ entered = [status |-> "submitted", item |-> {}, bench |-> {}, quoted |-> NoTicket.quoted]
          /\ NoTicket.quoted \in BOOLEAN
        <3>1. NoTicket = [status |-> "none", item |-> {}, bench |-> {}, quoted |-> NoTicket.quoted]
            BY DEF NoTicket
        <3>2. NoTicket.quoted \in BOOLEAN
            BY DEF NoTicket
        <3> QED BY <3>1, <3>2
    <2>2. Save(d, t, r) /\ desk[d].item \subseteq owned /\ desk[d].op = "create"
        BY <1>5 DEF CommitTicket, Existing
    <2> HIDE DEF entered
    <2>3. r = [status |-> "submitted", item |-> desk[d].item, bench |-> {}, quoted |-> NoTicket.quoted]
        BY <2>1
    <2>4. desk[d].item \subseteq GearItems
        BY <2>2 DEF TicketsInv, Prepared
    <2> HIDE DEF r
    <2> QED BY <2>1, <2>2, <2>3, <2>4, MovesStayStatus, SaveStep
<1>6. CASE CommitMove(d)
    <2>1. PICK t \in desk[d].on : Save(d, t, [ticket[t] EXCEPT !.status = desk[d].to])
        BY <1>6 DEF CommitMove
    <2>2. t \in RepairTickets /\ desk[d].to \in TicketStatus
        BY <1>6, <2>1 DEF CommitMove, TicketsInv, RepairsShape, Prepared
    <2>3. [ticket[t] EXCEPT !.status = desk[d].to]
              \in [status : TicketStatus, item : SUBSET GearItems, bench : SUBSET Things, quoted : BOOLEAN]
          /\ [ticket[t] EXCEPT !.status = desk[d].to].item = ticket[t].item
        BY <2>2 DEF TicketsInv, RepairsShape
    <2> DEFINE r == [ticket[t] EXCEPT !.status = desk[d].to]
    <2> HIDE DEF r
    <2>4. Save(d, t, r)
        BY <2>1 DEF r
    <2>5. r \in [status : TicketStatus, item : SUBSET GearItems, bench : SUBSET Things, quoted : BOOLEAN]
          /\ r.item = ticket[t].item
        BY <2>3 DEF r
    <2> QED BY <2>2, <2>4, <2>5, MovesStayStatus, SaveStep
<1>7. CASE CommitQuote(d)
    <2>1. PICK t \in desk[d].on : Save(d, t, [ticket[t] EXCEPT !.status = "quote_sent", !.quoted = TRUE])
        BY <1>7 DEF CommitQuote
    <2>2. t \in RepairTickets
        BY <2>1 DEF TicketsInv, RepairsShape
    <2>3. [ticket[t] EXCEPT !.status = "quote_sent", !.quoted = TRUE]
              \in [status : TicketStatus, item : SUBSET GearItems, bench : SUBSET Things, quoted : BOOLEAN]
          /\ [ticket[t] EXCEPT !.status = "quote_sent", !.quoted = TRUE].item = ticket[t].item
        BY <2>2, MovesStayStatus DEF TicketsInv, RepairsShape
    <2> QED BY <2>1, <2>2, <2>3, SaveStep
<1>8. CASE CommitAssign(d)
    <2> DEFINE status(t) == IF desk[d].was = "submitted" THEN "partner_assigned" ELSE ticket[t].status
    <2>1. PICK t \in desk[d].on :
              Save(d, t, [ticket[t] EXCEPT !.bench = desk[d].item, !.status = status(t)])
        BY <1>8 DEF CommitAssign
    <2>2. t \in RepairTickets /\ desk[d].item \subseteq Things
        BY <2>1 DEF TicketsInv, RepairsShape
    <2>3. status(t) \in {"none"} \cup TicketStatus
          /\ (ticket[t].item # {} => status(t) # "none")
        BY <2>2, MovesStayStatus DEF TicketsInv, RepairsShape
    <2> HIDE DEF status
    <2> DEFINE moved == [ticket[t] EXCEPT !.bench = desk[d].item]
               r == [moved EXCEPT !.status = status(t)]
    <2>4. moved \in [status : {"none"} \cup TicketStatus, item : SUBSET GearItems,
                     bench : SUBSET Things, quoted : BOOLEAN]
          /\ moved.item = ticket[t].item
        BY <2>2 DEF TicketsInv, RepairsShape
    <2>5. Save(d, t, r)
        BY <2>1
    <2> HIDE DEF moved
    <2>6. r \in [status : {"none"} \cup TicketStatus, item : SUBSET GearItems,
                 bench : SUBSET Things, quoted : BOOLEAN]
          /\ r.item = ticket[t].item /\ r.status = status(t)
        BY <2>3, <2>4
    <2> HIDE DEF r
    <2> QED BY <2>2, <2>3, <2>5, <2>6, SaveStep
<1> QED
    BY <1>1, <1>2, <1>3, <1>4, <1>5, <1>6, <1>7, <1>8 DEF TicketStep

LEMMA RepairsStep == TicketsInv /\ [RepairsNext]_repairVars => TicketsInv'
<1> SUFFICES ASSUME TicketsInv, [RepairsNext]_repairVars PROVE TicketsInv'
    OBVIOUS
<1>1. ASSUME NEW i \in GearItems, CreateItem(i) PROVE TicketsInv'
    BY <1>1 DEF CreateItem, TicketsInv, RepairsShape, Prepared, TicketsNameAnItem
<1>2. ASSUME NEW t \in RepairTickets, NEW new \in RepairTickets, Reopen(t, new) PROVE TicketsInv'
    <2> DEFINE again == [ticket[t] EXCEPT !.status = "submitted"]
               r == [again EXCEPT !.quoted = FALSE]
    <2>1. ticket' = [ticket EXCEPT ![new] = r] /\ UNCHANGED <<owned, desk>>
        BY <1>2 DEF Reopen
    <2>2. again \in [status : {"none"} \cup TicketStatus, item : SUBSET GearItems,
                     bench : SUBSET Things, quoted : BOOLEAN]
          /\ again.item = ticket[t].item /\ again.status = "submitted"
        BY MovesStayStatus DEF TicketsInv, RepairsShape
    <2> HIDE DEF again
    <2>3. r \in [status : {"none"} \cup TicketStatus, item : SUBSET GearItems,
                 bench : SUBSET Things, quoted : BOOLEAN]
          /\ r.item = again.item /\ r.status = again.status
        BY <2>2
    <2> HIDE DEF r
    <2> QED BY <2>1, <2>2, <2>3 DEF TicketsInv, RepairsShape, Prepared, TicketsNameAnItem
<1>3. ASSUME NEW d \in Movers, TicketStep(d) PROVE TicketsInv'
    BY <1>3, TicketStepKeeps DEF Desks
<1>4. ASSUME NEW d \in Removers, NEW i \in GearItems, BeginDelete(d, i) PROVE TicketsInv'
    <2> DEFINE q == [NoRequest EXCEPT !.op = "delete", !.item = {i}]
    <2>1. q = [op |-> "delete", on |-> {}, was |-> "none", to |-> "none", item |-> {i}]
        BY RequestOfItem
    <2>2. desk' = [desk EXCEPT ![d] = q] /\ UNCHANGED <<owned, ticket>>
        BY <1>4 DEF BeginDelete, Begin
    <2> HIDE DEF q
    <2> QED BY <2>1, <2>2, DeskStep DEF RequestOps, Things, Desks
<1>5. ASSUME NEW d \in Desks, CommitDelete(d) PROVE TicketsInv'
    <2>1. owned' = owned \ desk[d].item /\ UNCHANGED ticket
        BY <1>5 DEF CommitDelete
    <2>2. \A t \in RepairTickets : ticket[t].item \cap desk[d].item = {}
        BY <1>5 DEF CommitDelete, NotReferenced, TicketsHeld, TicketsInv
    <2>3. RepairsShape' /\ \A e \in Desks : Prepared(e)'
        BY <1>5, <2>1, EndedIsPrepared DEF CommitDelete, Leave, TicketsInv, RepairsShape
    <2> QED BY <2>1, <2>2, <2>3 DEF TicketsInv, TicketsNameAnItem
<1>6. ASSUME NEW d \in Desks, GiveUpDesk(d) PROVE TicketsInv'
    BY <1>6, EndedIsPrepared
    DEF GiveUpDesk, Leave, TicketsInv, RepairsShape, TicketsNameAnItem
<1>7. CASE LoanerStep \/ UNCHANGED repairVars
    <2>1. UNCHANGED <<owned, ticket, desk>>
        BY <1>7 DEF LoanerStep, EditBench, ChangeAccess, RequestLoaner, SetLoaner, repairVars
    <2> QED BY <2>1 DEF TicketsInv, RepairsShape, Prepared, TicketsNameAnItem
<1> QED BY <1>1, <1>2, <1>3, <1>4, <1>5, <1>6, <1>7 DEF RepairsNext

\* A repair ticket never names a gear item that was removed, for any items,
\* tickets and overlapping requests.
THEOREM TicketsKeepTheirItem == RepairsSpec => []TicketsNameAnItem
<1>1. RepairsInit => TicketsInv
    BY DEF RepairsInit, TicketsInv, RepairsShape, Prepared, TicketsNameAnItem, NoTicket, NoRequest, RequestOps
<1>2. TicketsInv => TicketsNameAnItem
    BY DEF TicketsInv
<1> QED BY <1>1, <1>2, RepairsStep, PTL DEF RepairsSpec

----------------------------------------------------------------------------
(* Search.  A document may be older than what was announced only while an   *)
(* event of its row waits, or a worker that holds one has built a document  *)
(* new enough.  With two workers this fails: the one that read the rows     *)
(* first may write last.                                                    *)

OneIndexer == \A v, w \in Indexers : v = w

SearchShape ==
    /\ row \in [Indexed -> [version : Nat, listed : BOOLEAN]]
    /\ document \in [Indexed -> [version : Nat, listed : BOOLEAN]]
    /\ announced \in [Indexed -> Nat]
    /\ indexQueue \subseteq indexKeys /\ \A q \in indexQueue : q.of \in Indexed
    /\ indexing \in [Indexers -> [task : SUBSET indexQueue, built : [version : Nat, listed : BOOLEAN]]]

Held == UNION {indexing[w].task : w \in Indexers}
Waits(e) == \E q \in indexQueue \ Held : q.of = e
FreshEnough(w, e) == indexing[w].built.version >= announced[e]

SearchInv ==
    /\ SearchShape
    /\ \A w \in Indexers : \A q, r \in indexing[w].task : q = r
    /\ \A w \in Indexers : \A q \in indexing[w].task : FreshEnough(w, q.of) \/ Waits(q.of)
    /\ \A e \in Indexed : announced[e] <= row[e].version
    /\ \A e \in Indexed : \/ document[e].version >= announced[e] \/ Waits(e)
                          \/ \E w \in Indexers : \E q \in indexing[w].task : q.of = e

\* A step of no worker that adds to what waits, and announces no more than what
\* is waiting or was announced before, keeps the invariant.
LEMMA AnnouncedStep ==
    ASSUME SearchInv, UNCHANGED <<document, indexing>>,
           row' \in [Indexed -> [version : Nat, listed : BOOLEAN]],
           announced' \in [Indexed -> Nat],
           \A e \in Indexed : announced'[e] <= row'[e].version,
           indexQueue \subseteq indexQueue', indexQueue' \subseteq indexKeys',
           \A q \in indexQueue' : q.of \in Indexed,
           \A e \in Indexed : \/ announced'[e] = announced[e]
                              \/ \E q \in indexQueue' \ indexKeys : q.of = e
    PROVE  SearchInv'
<1>1. Held' = Held /\ Held \subseteq indexKeys
    BY DEF Held, SearchInv, SearchShape
<1>2. \A e : Waits(e) => Waits(e)'
    BY <1>1 DEF Waits
<1>3. \A e \in Indexed : announced'[e] = announced[e] \/ Waits(e)'
    BY <1>1 DEF Waits
<1>4. SearchShape'
    BY DEF SearchInv, SearchShape
<1>5. \A w \in Indexers : \A q \in indexing'[w].task : FreshEnough(w, q.of)' \/ Waits(q.of)'
    BY <1>2, <1>3 DEF SearchInv, SearchShape, FreshEnough
<1>6. \A e \in Indexed : \/ document'[e].version >= announced'[e] \/ Waits(e)'
                         \/ \E w \in Indexers : \E q \in indexing'[w].task : q.of = e
    BY <1>2, <1>3 DEF SearchInv
<1> QED BY <1>4, <1>5, <1>6 DEF SearchInv

LEMMA WrittenStep ==
    ASSUME SearchInv, NEW e \in Indexed, NEW listed \in BOOLEAN, Write(e, listed)
    PROVE  /\ row' \in [Indexed -> [version : Nat, listed : BOOLEAN]]
           /\ \A d \in Indexed : announced[d] <= row'[d].version
           /\ \A d \in Indexed : row'[d].version >= row[d].version
<1> DEFINE r == [version |-> row[e].version + 1, listed |-> listed]
<1>1. row' = [row EXCEPT ![e] = r]
    BY DEF Write
<1>2. row[e].version \in Nat
    BY DEF SearchInv, SearchShape
<1> QED BY <1>1, <1>2 DEF SearchInv, SearchShape

LEMMA ChangeStep ==
    ASSUME SearchInv, NEW e \in Indexed, NEW listed \in BOOLEAN, NEW tag, NEW at,
           Write(e, listed), UNCHANGED <<document, indexing>>,
           Announce(IndexEvent(e, tag, at))
    PROVE  SearchInv'
<1> DEFINE event == IndexEvent(e, tag, at)
<1>1. event.of = e
    BY DEF IndexEvent
<1>2. /\ indexQueue' = indexQueue \cup ({event} \ indexKeys)
      /\ indexKeys' = indexKeys \cup {event}
      /\ announced' = IF event \in indexKeys THEN announced
                      ELSE [announced EXCEPT ![event.of] = row'[event.of].version]
    BY DEF Announce
<1> HIDE DEF event
<1>3. row'[e].version \in Nat
    BY WrittenStep
<1>4. announced' \in [Indexed -> Nat]
    BY <1>1, <1>2, <1>3 DEF SearchInv, SearchShape
<1>5. \A d \in Indexed : announced'[d] <= row'[d].version
    BY <1>1, <1>2, <1>3, WrittenStep DEF SearchInv, SearchShape
<1>6. \A d \in Indexed : announced'[d] = announced[d] \/ \E q \in indexQueue' \ indexKeys : q.of = d
    BY <1>1, <1>2 DEF SearchInv, SearchShape
<1>7. indexQueue' \subseteq indexKeys' /\ \A q \in indexQueue' : q.of \in Indexed
    BY <1>1, <1>2 DEF SearchInv, SearchShape
<1> QED BY <1>2, <1>4, <1>5, <1>6, <1>7, WrittenStep, AnnouncedStep

LEMMA RebuildStep == ASSUME SearchInv, Rebuild PROVE SearchInv'
<1> DEFINE asked == {IndexEvent(e, "rebuild", 0) : e \in {x \in Indexed : row[x] # Nowhere}} \ indexKeys
<1>1. /\ indexQueue' = indexQueue \cup asked /\ indexKeys' = indexKeys \cup asked
      /\ announced' = [e \in Indexed |-> IF \E q \in asked : q.of = e THEN row[e].version ELSE announced[e]]
      /\ UNCHANGED <<row, document, indexing>>
    BY DEF Rebuild
<1>2. asked \cap indexKeys = {} /\ \A q \in asked : q.of \in Indexed
    BY DEF IndexEvent
<1> HIDE DEF asked
<1>3. announced' \in [Indexed -> Nat] /\ \A e \in Indexed : announced'[e] <= row'[e].version
    BY <1>1 DEF SearchInv, SearchShape
<1>4. \A e \in Indexed : announced'[e] = announced[e] \/ \E q \in indexQueue' \ indexKeys : q.of = e
    BY <1>1, <1>2
<1>5. indexQueue' \subseteq indexKeys' /\ (\A q \in indexQueue' : q.of \in Indexed)
      /\ row' \in [Indexed -> [version : Nat, listed : BOOLEAN]]
    BY <1>1, <1>2 DEF SearchInv, SearchShape
<1> QED BY <1>1, <1>3, <1>4, <1>5, AnnouncedStep

LEMMA PurgeStep == ASSUME SearchInv, Purge PROVE SearchInv'
<1>1. SearchShape' /\ Held' = Held
    BY DEF Purge, SearchInv, SearchShape, Nowhere, Held
<1>2. \A e \in Indexed : announced'[e] = 0 /\ row'[e].version >= 0 /\ document'[e].version = 0
    BY DEF Purge, Nowhere, SearchInv, SearchShape
<1>3. \A w \in Indexers : \A q \in indexing'[w].task : FreshEnough(w, q.of)'
    BY <1>2 DEF Purge, FreshEnough, SearchInv, SearchShape
<1> QED BY <1>1, <1>2, <1>3 DEF SearchInv, Purge

LEMMA RowHidden ==
    ASSUME NEW a \in [version : Nat, listed : BOOLEAN]
    PROVE  /\ [a EXCEPT !.listed = FALSE] \in [version : Nat, listed : BOOLEAN]
           /\ [a EXCEPT !.listed = FALSE].version = a.version
<1>1. PICK v \in BOOLEAN : [a EXCEPT !.listed = FALSE] = [a EXCEPT !.listed = v]
    OBVIOUS
<1>2. a = [version |-> a.version, listed |-> a.listed]
    OBVIOUS
<1>3. [a EXCEPT !.listed = v] = [version |-> a.version, listed |-> v]
    BY <1>2
<1>4. a.version \in Nat
    OBVIOUS
<1> QED BY <1>1, <1>3, <1>4, Zenon

\* Whoever begins has read the row as it is now.
LEMMA BeginIndexingStep ==
    ASSUME OneIndexer, SearchInv, NEW w \in Indexers, NEW event \in indexQueue, BeginIndexing(w, event)
    PROVE  SearchInv'
<1> DEFINE built == IF event.tag = "delete" THEN [row[event.of] EXCEPT !.listed = FALSE] ELSE Built(event.of)
<1>1. built \in [version : Nat, listed : BOOLEAN] /\ built.version = row[event.of].version
    <2> DEFINE r == row[event.of]
    <2>1. r \in [version : Nat, listed : BOOLEAN]
        BY DEF SearchInv, SearchShape
    <2>2. built = [r EXCEPT !.listed = FALSE] \/ built = r
        BY DEF Built
    <2> HIDE DEF r, built
    <2>3. built \in [version : Nat, listed : BOOLEAN] /\ built.version = r.version
        BY <2>1, <2>2, RowHidden
    <2> QED BY <2>3 DEF r
<1>2. indexing' = [indexing EXCEPT ![w] = [task |-> {event}, built |-> built]]
      /\ indexing[w].task = {} /\ UNCHANGED <<row, document, announced, indexQueue, indexKeys>>
    BY DEF BeginIndexing, NotIndexing
<1> HIDE DEF built
<1>3. SearchShape'
    BY <1>1, <1>2 DEF SearchInv, SearchShape
<1>4. Held' = Held \cup {event}
    BY <1>2 DEF Held, SearchInv, SearchShape
<1>5. \A e : Waits(e) => Waits(e)' \/ e = event.of
    BY <1>2, <1>4 DEF Waits
<1>6. FreshEnough(w, event.of)'
    BY <1>1, <1>2 DEF FreshEnough, SearchInv, SearchShape
<1>7. ASSUME NEW v \in Indexers, NEW q \in indexing'[v].task PROVE FreshEnough(v, q.of)' \/ Waits(q.of)'
    <2>1. v = w /\ q = event
        BY <1>2 DEF OneIndexer, SearchInv, SearchShape
    <2> QED BY <1>6, <2>1
<1>8. event \in indexing'[w].task
    BY <1>2 DEF SearchInv, SearchShape
<1>9. ASSUME NEW e \in Indexed
      PROVE  \/ document'[e].version >= announced'[e] \/ Waits(e)'
             \/ \E v \in Indexers : \E q \in indexing'[v].task : q.of = e
    <2>1. CASE e = event.of
        BY <1>8, <2>1
    <2>2. CASE e # event.of /\ \E v \in Indexers : \E q \in indexing[v].task : q.of = e
        BY <1>2, <2>2 DEF SearchInv, SearchShape, OneIndexer
    <2>3. CASE e # event.of /\ (document[e].version >= announced[e] \/ Waits(e))
        BY <1>2, <1>5, <2>3
    <2> QED BY <2>1, <2>2, <2>3 DEF SearchInv
<1>10. \A v \in Indexers : \A q, r \in indexing'[v].task : q = r
    BY <1>2 DEF SearchInv, SearchShape
<1> QED BY <1>2, <1>3, <1>7, <1>9, <1>10 DEF SearchInv

LEMMA SendStep ==
    ASSUME OneIndexer, SearchInv, NEW w \in Indexers, SendDocument(w)
    PROVE  SearchInv'
<1>1. PICK event \in indexing[w].task :
          /\ document' = [document EXCEPT ![event.of] = indexing[w].built]
          /\ indexing' = [indexing EXCEPT ![w] = NotIndexing]
          /\ indexQueue' \in {indexQueue \ {event}, indexQueue}
          /\ UNCHANGED <<row, announced, indexKeys>>
    BY DEF SendDocument
<1>2. indexing[w].task = {event} /\ event.of \in Indexed /\ \A v \in Indexers : v = w
    BY <1>1 DEF SearchInv, SearchShape, OneIndexer
<1>3. Held = {event}
    BY <1>2 DEF Held
<1>4. \A v \in Indexers : indexing'[v].task = {}
    BY <1>1, <1>2 DEF NotIndexing, SearchInv, SearchShape
<1>5. Held' = {}
    BY <1>4 DEF Held
<1>6. SearchShape'
    <2>1. document' \in [Indexed -> [version : Nat, listed : BOOLEAN]]
        BY <1>1 DEF SearchInv, SearchShape
    <2>2. indexing' \in [Indexers -> [task : SUBSET indexQueue', built : [version : Nat, listed : BOOLEAN]]]
        BY <1>1, <1>2 DEF NotIndexing, Nowhere, SearchInv, SearchShape
    <2> QED BY <1>1, <2>1, <2>2 DEF SearchInv, SearchShape
<1>7. \A e : Waits(e) => Waits(e)'
    BY <1>1, <1>3, <1>5 DEF Waits
<1>8. ASSUME NEW e \in Indexed PROVE document'[e].version >= announced'[e] \/ Waits(e)'
    <2>1. CASE e = event.of
        <3>1. FreshEnough(w, e) \/ Waits(e)
            BY <1>1, <2>1 DEF SearchInv
        <3>2. document'[e] = indexing[w].built
            BY <1>1, <2>1 DEF SearchInv, SearchShape
        <3> QED BY <1>1, <1>7, <3>1, <3>2 DEF FreshEnough
    <2>2. CASE e # event.of
        <3>1. document[e].version >= announced[e] \/ Waits(e)
            BY <1>2, <2>2 DEF SearchInv
        <3>2. document'[e] = document[e]
            BY <1>1, <2>2 DEF SearchInv, SearchShape
        <3> QED BY <1>1, <1>7, <3>1, <3>2
    <2> QED BY <2>1, <2>2
<1> QED BY <1>1, <1>4, <1>6, <1>8 DEF SearchInv

LEMMA FailStep ==
    ASSUME OneIndexer, SearchInv, NEW w \in Indexers, FailIndexing(w)
    PROVE  SearchInv'
<1>1. indexing' = [indexing EXCEPT ![w] = NotIndexing]
      /\ UNCHANGED <<row, document, announced, indexQueue, indexKeys>>
    BY DEF FailIndexing
<1>2. \A v \in Indexers : indexing'[v].task = {}
    BY <1>1 DEF NotIndexing, OneIndexer, SearchInv, SearchShape
<1>3. Held' = {}
    BY <1>2 DEF Held
<1>4. SearchShape'
    BY <1>1 DEF NotIndexing, Nowhere, SearchInv, SearchShape
<1>5. ASSUME NEW e \in Indexed PROVE document'[e].version >= announced'[e] \/ Waits(e)'
    <2>1. Waits(e) => Waits(e)'
        BY <1>1, <1>3 DEF Waits
    <2>2. ASSUME NEW v \in Indexers, NEW q \in indexing[v].task, q.of = e PROVE Waits(e)'
        BY <1>1, <1>3, <2>2 DEF Waits, SearchInv, SearchShape
    <2> QED BY <1>1, <2>1, <2>2 DEF SearchInv
<1> QED BY <1>1, <1>2, <1>4, <1>5 DEF SearchInv

LEMMA SearchStep == OneIndexer /\ SearchInv /\ [SearchNext]_indexVars => SearchInv'
<1> SUFFICES ASSUME OneIndexer, SearchInv, [SearchNext]_indexVars PROVE SearchInv'
    OBVIOUS
<1>1. ASSUME NEW e \in Indexed, NEW listed \in BOOLEAN, TimedChange(e, listed) PROVE SearchInv'
    BY <1>1, ChangeStep DEF TimedChange
<1>2. ASSUME NEW e \in Indexed, NEW listed \in BOOLEAN, NEW tag \in FixedTags, FixedChange(e, tag, listed)
      PROVE  SearchInv'
    BY <1>2, ChangeStep DEF FixedChange
<1>3. ASSUME NEW e \in Indexed \ RepairPartners, TakeDown(e) PROVE SearchInv'
    BY <1>3, ChangeStep DEF TakeDown
<1>4. ASSUME NEW e \in Indexed, NEW listed \in BOOLEAN, QuietChange(e, listed) PROVE SearchInv'
    <2>1. UNCHANGED <<document, announced, indexQueue, indexKeys, indexing>>
        BY <1>4 DEF QuietChange
    <2>2. /\ row' \in [Indexed -> [version : Nat, listed : BOOLEAN]]
          /\ \A d \in Indexed : announced[d] <= row'[d].version
        BY <1>4, WrittenStep DEF QuietChange
    <2>3. announced' \in [Indexed -> Nat] /\ indexQueue' \subseteq indexKeys'
          /\ \A q \in indexQueue' : q.of \in Indexed
        BY <2>1 DEF SearchInv, SearchShape
    <2> QED BY <2>1, <2>2, <2>3, AnnouncedStep
<1>5. ASSUME NEW w \in Indexers, SendDocument(w) \/ FailIndexing(w)
                                 \/ \E event \in indexQueue : BeginIndexing(w, event)
      PROVE  SearchInv'
    BY <1>5, SendStep, FailStep, BeginIndexingStep
<1>6. CASE Rebuild \/ Purge
    BY <1>6, RebuildStep, PurgeStep
<1>7. CASE UNCHANGED indexVars
    BY <1>7 DEF indexVars, SearchInv, SearchShape, FreshEnough, Waits, Held
<1> QED BY <1>1, <1>2, <1>3, <1>4, <1>5, <1>6, <1>7 DEF SearchNext

\* With one worker, a document is as new as the last change announced once no
\* event of its row waits, for any rows, changes, retries and rebuilds.
THEOREM IndexesCatchUp == ASSUME OneIndexer PROVE SearchSpec => []IndexCatchesUp
<1>1. SearchInit => SearchInv
    BY DEF SearchInit, SearchInv, SearchShape, Nowhere, NotIndexing
<1>2. SearchInv => IndexCatchesUp
    <2> SUFFICES ASSUME SearchInv, NEW e \in Indexed, \A q \in indexQueue : q.of # e
                 PROVE  document[e].version >= announced[e]
        BY DEF IndexCatchesUp
    <2>1. ~Waits(e)
        BY DEF Waits
    <2>2. \A w \in Indexers : \A q \in indexing[w].task : q.of # e
        BY DEF SearchInv, SearchShape
    <2> QED BY <2>1, <2>2 DEF SearchInv
<1> QED BY <1>1, <1>2, SearchStep, PTL DEF SearchSpec
=============================================================================
