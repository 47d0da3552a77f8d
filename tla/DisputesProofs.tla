--------------------------- MODULE DisputesProofs ---------------------------
(***************************************************************************)
(* Proofs about the disputes over a gig, for any disputes, sessions and    *)
(* decisions: the downloads and the earnings stay held until the client's  *)
(* dispute is settled, and a decision survives what overlaps it.           *)
(* HeldUntilSettled is not inductive: a session that opens a dispute may   *)
(* find a freeze and add none, and one that resolves or pays back acts on  *)
(* a dispute it read before; HeldInv says what these may rely on until     *)
(* they commit, and DecisionInv does for decisions and their refund cases. *)
(***************************************************************************)
EXTENDS Disputes, TLAPS

\* A dispute of the client was refused or paid back.
ClientSettled == \E d \in OpenedBy("client") : settled[d] \cap {"no_refund", "paid"} # {}

Shape ==
    /\ dispute = [d \in DisputeIds |-> dispute[d]] /\ settled = [d \in DisputeIds |-> settled[d]]
    /\ cases = [d \in DisputeIds |-> cases[d]] /\ docket = [s \in DisputeSessions |-> docket[s]]
    /\ frozen \in Nat /\ heldBack \in Nat /\ lifted \in BOOLEAN

Writers == {"message", "cancel", "edit", "resolve", "paid"}

\* A session that will write to disputes found them opened; one that will open
\* a dispute about money freezes the downloads, unless they are frozen.
Grounded(s) ==
    /\ docket[s].op \in Writers => docket[s].dispute \in DisputeIds /\ Exists(docket[s].dispute)
    /\ docket[s].op = "sweep" => \A d \in docket[s].due : d \in DisputeIds /\ Exists(d)
    /\ docket[s].op = "open" =>
          /\ docket[s].dispute \in DisputeIds
          /\ docket[s].dispute \in AboutMoney =>
                docket[s].freezes \/ frozen > 0 \/ lifted \/ ClientSettled

CasesAreOfDisputes == \A d \in DisputeIds : DOMAIN cases[d] # {} => Exists(d)

HeldInv ==
    /\ Shape
    /\ \A s \in DisputeSessions : Grounded(s)
    /\ CasesAreOfDisputes
    /\ HeldUntilSettled

----------------------------------------------------------------------------
\* A dispute is never unopened: whatever a step writes, a settled dispute of
\* the client stays one.
LEMMA SettledStays ==
    ASSUME ClientSettled,
           \A d \in DisputeIds : Exists(d) => dispute'[d] # "none",
           \A d \in DisputeIds : settled[d] \subseteq settled'[d]
    PROVE  ClientSettled'
BY DEF ClientSettled, OpenedBy, Exists

\* A step that opens no dispute, settles none and leaves the holds alone keeps
\* what they guarantee.
LEMMA StillHeld ==
    ASSUME HeldUntilSettled,
           \A d \in DisputeIds : Exists(d) <=> dispute'[d] # "none",
           UNCHANGED <<holdVars, settled>>
    PROVE  HeldUntilSettled' /\ (ClientSettled' <=> ClientSettled)
<1>1. OpenedBy("client")' = OpenedBy("client")
    BY DEF OpenedBy, Exists
<1>2. \A d \in AboutMoney : Exists(d)' <=> Exists(d)
    BY DisputesAssumption DEF Exists
<1> QED
    BY <1>1, <1>2 DEF HeldUntilSettled, ClientSettled, holdVars

\* What a session writes to the dispute it found opened leaves every dispute
\* as opened as it was.
LEMMA WritingOpensNone ==
    ASSUME NEW s \in DisputeSessions, Shape, Grounded(s), docket[s].op \in Writers,
           dispute' = DisputeWritten(s)
    PROVE  /\ dispute' = [d \in DisputeIds |-> dispute'[d]]
           /\ \A d \in DisputeIds : Exists(d) <=> dispute'[d] # "none"
BY DEF Shape, Grounded, DisputeWritten, Exists

\* Whatever a step gives one session, the others stay grounded while disputes
\* stay opened and what holds the downloads, or need not, stays so.
LEMMA OthersStay ==
    ASSUME HeldInv, NEW s \in DisputeSessions, NEW q,
           docket' = [docket EXCEPT ![s] = q], Grounded(s)',
           \A d \in DisputeIds : Exists(d) => dispute'[d] # "none",
           frozen > 0 \/ lifted \/ ClientSettled => (frozen > 0 \/ lifted \/ ClientSettled)'
    PROVE  /\ \A t \in DisputeSessions : Grounded(t)'
           /\ docket' = [t \in DisputeSessions |-> docket'[t]]
<1>1. ASSUME NEW t \in DisputeSessions, t # s PROVE Grounded(t)'
    <2>1. docket'[t] = docket[t] BY <1>1 DEF HeldInv, Shape
    <2>2. Grounded(t) BY DEF HeldInv
    <2> QED BY <2>1, <2>2 DEF Grounded, Exists
<1>2. docket' = [t \in DisputeSessions |-> docket'[t]]
    BY DEF HeldInv, Shape
<1> QED BY <1>1, <1>2

\* A step that disturbs neither disputes, holds, cases nor what is settled, and
\* gives one session a docket that is grounded, keeps the invariant.
LEMMA DocketStep ==
    ASSUME HeldInv, NEW s \in DisputeSessions, NEW q,
           docket' = [docket EXCEPT ![s] = q], Grounded(s)',
           UNCHANGED <<rowVars, holdVars, cases, settled>>
    PROVE  HeldInv'
<1>1. HeldUntilSettled' /\ (ClientSettled' <=> ClientSettled)
    BY StillHeld DEF HeldInv, rowVars, Exists
<1>2. /\ \A t \in DisputeSessions : Grounded(t)'
      /\ docket' = [t \in DisputeSessions |-> docket'[t]]
    BY <1>1, OthersStay DEF rowVars, holdVars, Exists
<1>3. Shape' /\ CasesAreOfDisputes'
    BY <1>2 DEF HeldInv, Shape, CasesAreOfDisputes, Exists, rowVars, holdVars
<1> QED
    BY <1>1, <1>2, <1>3 DEF HeldInv

\* A session that writes a status to its dispute and is done, as messages,
\* cancellations and edits are, keeps the invariant.
LEMMA WriteStep ==
    ASSUME HeldInv, NEW s \in DisputeSessions, docket[s].op \in Writers,
           dispute' = DisputeWritten(s), DocketDone(s),
           UNCHANGED <<holdVars, cases, settled>>
    PROVE  HeldInv'
<1>1. /\ dispute' = [d \in DisputeIds |-> dispute'[d]]
      /\ \A d \in DisputeIds : Exists(d) <=> dispute'[d] # "none"
    BY WritingOpensNone DEF HeldInv
<1>2. HeldUntilSettled' /\ (ClientSettled' <=> ClientSettled)
    BY <1>1, StillHeld DEF HeldInv
<1>3. Grounded(s)'
    BY DEF DocketDone, NoDocket, Grounded, HeldInv, Shape, Writers
<1>4. /\ \A t \in DisputeSessions : Grounded(t)'
      /\ docket' = [t \in DisputeSessions |-> docket'[t]]
    BY <1>1, <1>2, <1>3, OthersStay DEF DocketDone, holdVars
<1>5. Shape' /\ CasesAreOfDisputes'
    BY <1>1, <1>4 DEF HeldInv, Shape, CasesAreOfDisputes, Exists, holdVars
<1> QED
    BY <1>2, <1>4, <1>5 DEF HeldInv

----------------------------------------------------------------------------
(* The actions *)

LEMMA BeginKeeps ==
    ASSUME HeldInv, NEW s \in DisputeSessions, NEW d \in DisputeIds,
           \/ BeginDispute(s, d) \/ BeginMessage(s, d) \/ BeginCancel(s, d)
           \/ \E to \in StatusEdits : BeginEdit(s, d, to)
           \/ \E decision \in Decisions : BeginResolve(s, d, decision)
           \/ \E i \in DOMAIN cases[d] : BeginPaidBack(s, d, i)
    PROVE  HeldInv'
<1>1. CASE BeginDispute(s, d)
    <2> DEFINE q == [op |-> "open", dispute |-> d, freezes |-> AddsHold(d)]
    <2>1. docket' = [docket EXCEPT ![s] = q] /\ UNCHANGED <<rowVars, holdVars, cases, settled>>
        BY <1>1 DEF BeginDispute
    <2>2. docket'[s] = q BY <2>1 DEF HeldInv, Shape
    <2>3. d \in AboutMoney => AddsHold(d) \/ frozen > 0
        BY DEF AddsHold, HeldInv, Shape
    <2>4. Grounded(s)'
        BY <2>1, <2>2, <2>3 DEF Grounded, Writers, holdVars
    <2> QED BY <2>1, <2>4, DocketStep
<1>2. ASSUME NEW op \in Writers, NEW to, Reads(s, op, d, to),
             UNCHANGED <<rowVars, holdVars, cases, settled>>
      PROVE  HeldInv'
    <2> DEFINE q == [op |-> op, dispute |-> d, change |-> Change(d, to)]
    <2>1. docket' = [docket EXCEPT ![s] = q] BY <1>2 DEF Reads
    <2>2. docket'[s] = q BY <2>1 DEF HeldInv, Shape
    <2>3. Grounded(s)' BY <1>2, <2>2 DEF Grounded, Writers, Reads, Exists, rowVars
    <2> QED BY <1>2, <2>1, <2>3, DocketStep
<1>3. CASE BeginMessage(s, d) BY <1>2, <1>3 DEF BeginMessage, Writers
<1>4. CASE BeginCancel(s, d) BY <1>2, <1>4 DEF BeginCancel, Writers
<1>5. CASE \E to \in StatusEdits : BeginEdit(s, d, to) BY <1>2, <1>5 DEF BeginEdit, Writers
<1>6. ASSUME NEW decision \in Decisions, BeginResolve(s, d, decision) PROVE HeldInv'
    <2> DEFINE q == [op |-> "resolve", dispute |-> d, change |-> Change(d, Outcome(decision)),
                     decision |-> decision, hasCase |-> SeesCases(d)]
    <2>1. /\ docket' = [docket EXCEPT ![s] = q] /\ Exists(d)
          /\ UNCHANGED <<rowVars, holdVars, cases, settled>>
        BY <1>6 DEF BeginResolve
    <2>2. docket'[s] = q BY <2>1 DEF HeldInv, Shape
    <2>3. Grounded(s)' BY <2>1, <2>2 DEF Grounded, Writers, Exists, rowVars
    <2> QED BY <2>1, <2>3, DocketStep
<1>7. ASSUME NEW i \in DOMAIN cases[d], BeginPaidBack(s, d, i) PROVE HeldInv'
    <2> DEFINE q == [op |-> "paid", dispute |-> d, case |-> i,
                     change |-> Change(d, Outcome(cases[d][i].decision))]
    <2>1. /\ docket' = [docket EXCEPT ![s] = q]
          /\ UNCHANGED <<rowVars, holdVars, cases, settled>>
        BY <1>7 DEF BeginPaidBack
    <2>2. docket'[s] = q BY <2>1 DEF HeldInv, Shape
    <2>3. Exists(d) BY DEF HeldInv, CasesAreOfDisputes
    <2>4. Grounded(s)' BY <2>1, <2>2, <2>3 DEF Grounded, Writers, Exists, rowVars
    <2> QED BY <2>1, <2>4, DocketStep
<1> QED
    BY <1>1, <1>3, <1>4, <1>5, <1>6, <1>7

LEMMA CommitDisputeKeeps ==
    ASSUME HeldInv, NEW s \in DisputeSessions, CommitDispute(s)
    PROVE  HeldInv'
<1> DEFINE d == docket[s].dispute
<1>1. /\ d \in DisputeIds
      /\ d \in AboutMoney => docket[s].freezes \/ frozen > 0 \/ lifted \/ ClientSettled
    BY DEF HeldInv, Grounded, CommitDispute
<1>2. /\ dispute' = [dispute EXCEPT ![d] = "open"] /\ DocketDone(s)
      /\ frozen' = IF docket[s].freezes THEN frozen + 1 ELSE frozen
      /\ heldBack' = IF Against(d) = "pro" THEN heldBack + 1 ELSE heldBack
      /\ UNCHANGED <<lifted, cases, settled>>
    BY DEF CommitDispute
<1>3. /\ \A e \in DisputeIds : dispute'[e] = IF e = d THEN "open" ELSE dispute[e]
      /\ dispute' = [e \in DisputeIds |-> dispute'[e]]
    BY <1>1, <1>2 DEF HeldInv, Shape
<1>4. /\ frozen' \in Nat /\ heldBack' \in Nat
      /\ frozen > 0 => frozen' > 0
      /\ heldBack > 0 => heldBack' > 0
      /\ docket[s].freezes => frozen' > 0
      /\ d \notin ByPro => heldBack' > 0
    BY <1>2 DEF HeldInv, Shape, Against
<1>5. ClientSettled => ClientSettled'
    BY <1>2, <1>3, SettledStays DEF Exists
<1>6. Grounded(s)'
    BY <1>2 DEF DocketDone, NoDocket, Grounded, HeldInv, Shape, Writers
<1>7. /\ \A t \in DisputeSessions : Grounded(t)'
      /\ docket' = [t \in DisputeSessions |-> docket'[t]]
    BY <1>2, <1>3, <1>4, <1>5, <1>6, OthersStay DEF DocketDone, Exists
<1>8. Shape' /\ CasesAreOfDisputes'
    BY <1>2, <1>3, <1>4, <1>7 DEF HeldInv, Shape, CasesAreOfDisputes, Exists
<1>9. HeldUntilSettled'
    <2>1. CASE ClientSettled
        BY <1>5, <2>1 DEF ClientSettled, HeldUntilSettled
    <2>2. CASE ~ClientSettled
        <3>1. (\E e \in AboutMoney : Exists(e)) /\ ~lifted => frozen > 0
            BY <2>2 DEF HeldInv, HeldUntilSettled, ClientSettled
        <3>2. (\E e \in AboutMoney : Exists(e)') /\ ~lifted' => frozen' > 0
            BY <1>1, <1>2, <1>3, <1>4, <2>2, <3>1, DisputesAssumption DEF Exists
        <3>3. OpenedBy("client") # {} => heldBack > 0
            BY <2>2 DEF HeldInv, HeldUntilSettled, ClientSettled
        <3>4. OpenedBy("client")' # {} => heldBack' > 0
            BY <1>3, <1>4, <3>3 DEF OpenedBy, Exists
        <3> QED BY <3>2, <3>4 DEF HeldUntilSettled
    <2> QED BY <2>1, <2>2
<1> QED
    BY <1>7, <1>8, <1>9 DEF HeldInv

LEMMA SweepKeeps ==
    ASSUME HeldInv, NEW s \in DisputeSessions, NEW done, CommitSweepDue(s, done)
    PROVE  HeldInv'
<1>1. /\ \A d \in DisputeIds : Exists(d) <=> dispute'[d] # "none"
      /\ dispute' = [d \in DisputeIds |-> dispute'[d]]
    BY DEF HeldInv, Grounded, CommitSweepDue, Exists
<1>2. HeldUntilSettled' /\ (ClientSettled' <=> ClientSettled)
    BY <1>1, StillHeld DEF HeldInv, CommitSweepDue
<1>3. Grounded(s)'
    BY DEF CommitSweepDue, DocketDone, NoDocket, Grounded, HeldInv, Shape, Writers
<1>4. /\ \A t \in DisputeSessions : Grounded(t)'
      /\ docket' = [t \in DisputeSessions |-> docket'[t]]
    BY <1>1, <1>2, <1>3, OthersStay DEF CommitSweepDue, DocketDone, holdVars
<1>5. Shape' /\ CasesAreOfDisputes'
    BY <1>1, <1>4 DEF HeldInv, Shape, CasesAreOfDisputes, CommitSweepDue, Exists, holdVars
<1> QED
    BY <1>2, <1>4, <1>5 DEF HeldInv

\* A step that settles its session's dispute, and releases the holds only if
\* that refuses or pays back a dispute of the client, keeps the invariant.
LEMMA SettlingStep ==
    ASSUME HeldInv, NEW s \in DisputeSessions, docket[s].op \in Writers,
           NEW outcome, NEW eases \in BOOLEAN,
           eases => outcome \in {"no_refund", "paid"} /\ docket[s].dispute \notin ByPro,
           dispute' = DisputeWritten(s), DocketDone(s),
           frozen' = IF eases THEN 0 ELSE frozen,
           heldBack' = IF eases THEN 0 ELSE heldBack,
           settled' = [settled EXCEPT ![docket[s].dispute] = @ \cup {outcome}],
           UNCHANGED lifted,
           cases' = [d \in DisputeIds |-> cases'[d]],
           \A d \in DisputeIds : d # docket[s].dispute => DOMAIN cases'[d] = DOMAIN cases[d]
    PROVE  HeldInv'
<1> DEFINE d == docket[s].dispute
<1>1. /\ dispute' = [e \in DisputeIds |-> dispute'[e]]
      /\ \A e \in DisputeIds : Exists(e) <=> dispute'[e] # "none"
    BY WritingOpensNone DEF HeldInv
<1>2. d \in DisputeIds /\ Exists(d)
    BY DEF HeldInv, Grounded
<1>3. /\ settled' = [e \in DisputeIds |-> settled'[e]]
      /\ \A e \in DisputeIds : settled[e] \subseteq settled'[e]
      /\ outcome \in settled'[d]
    BY <1>2 DEF HeldInv, Shape
<1>4. ClientSettled => ClientSettled'
    BY <1>1, <1>3, SettledStays
<1>5. ClientSettled' \/ ~eases
    <2>1. CASE eases
        <3>1. d \in OpenedBy("client")'
            BY <1>1, <1>2, <2>1 DEF OpenedBy, Exists
        <3>2. outcome \in settled'[d] \cap {"no_refund", "paid"}
            BY <1>3, <2>1
        <3> QED BY <3>1, <3>2 DEF ClientSettled
    <2> QED BY <2>1
<1>6. frozen' \in Nat /\ heldBack' \in Nat
    BY DEF HeldInv, Shape
<1>7. frozen > 0 \/ lifted \/ ClientSettled => (frozen > 0 \/ lifted \/ ClientSettled)'
    BY <1>4, <1>5
<1>8. Grounded(s)'
    BY DEF DocketDone, NoDocket, Grounded, HeldInv, Shape, Writers
<1>9. /\ \A t \in DisputeSessions : Grounded(t)'
      /\ docket' = [t \in DisputeSessions |-> docket'[t]]
    BY <1>1, <1>7, <1>8, OthersStay DEF DocketDone
<1>10. Shape'
    BY <1>1, <1>3, <1>6, <1>9 DEF HeldInv, Shape
<1>11. CasesAreOfDisputes'
    BY <1>1, <1>2 DEF HeldInv, CasesAreOfDisputes, Exists
<1>12. HeldUntilSettled'
    <2>1. CASE ClientSettled'
        BY <2>1 DEF ClientSettled, HeldUntilSettled
    <2>2. CASE ~ClientSettled'
        <3>1. ~ClientSettled /\ frozen' = frozen /\ heldBack' = heldBack
            BY <1>4, <1>5, <2>2
        <3>2. /\ (\E e \in AboutMoney : Exists(e)) /\ ~lifted => frozen > 0
              /\ OpenedBy("client") # {} => heldBack > 0
            BY <3>1 DEF HeldInv, HeldUntilSettled, ClientSettled
        <3>3. OpenedBy("client")' = OpenedBy("client")
            BY <1>1 DEF OpenedBy, Exists
        <3>4. \A e \in AboutMoney : Exists(e)' <=> Exists(e)
            BY <1>1, DisputesAssumption DEF Exists
        <3> QED BY <3>1, <3>2, <3>3, <3>4 DEF HeldUntilSettled
    <2> QED BY <2>1, <2>2
<1> QED
    BY <1>9, <1>10, <1>11, <1>12 DEF HeldInv

LEMMA CommitResolveKeeps ==
    ASSUME HeldInv, NEW s \in DisputeSessions, CommitResolve(s)
    PROVE  HeldInv'
<1> DEFINE d == docket[s].dispute
           eases == Eases(docket[s].decision) /\ Against(d) = "pro"
<1>1. docket[s].op \in Writers
    BY DEF CommitResolve, Writers
<1>2. eases \in BOOLEAN
      /\ (eases => docket[s].decision \in {"no_refund", "paid"} /\ d \notin ByPro)
    BY DEF Eases, Against
<1>3. /\ cases' = [e \in DisputeIds |-> cases'[e]]
      /\ \A e \in DisputeIds : e # d => DOMAIN cases'[e] = DOMAIN cases[e]
    BY DEF HeldInv, Shape, CommitResolve
<1>4. /\ dispute' = DisputeWritten(s) /\ DocketDone(s)
      /\ frozen' = IF eases THEN 0 ELSE frozen
      /\ heldBack' = IF eases THEN 0 ELSE heldBack
      /\ settled' = [settled EXCEPT ![d] = @ \cup {docket[s].decision}]
      /\ UNCHANGED lifted
    BY DEF CommitResolve
<1> HIDE DEF eases
<1> QED
    BY <1>1, <1>2, <1>3, <1>4, SettlingStep

LEMMA CommitPaidBackKeeps ==
    ASSUME HeldInv, NEW s \in DisputeSessions, CommitPaidBack(s)
    PROVE  HeldInv'
<1> DEFINE d == docket[s].dispute
           eases == Against(d) = "pro"
<1>1. docket[s].op \in Writers
    BY DEF CommitPaidBack, Writers
<1>2. eases \in BOOLEAN /\ (eases => "paid" \in {"no_refund", "paid"} /\ d \notin ByPro)
    BY DEF Against
<1>3. /\ cases' = [e \in DisputeIds |-> cases'[e]]
      /\ \A e \in DisputeIds : e # d => DOMAIN cases'[e] = DOMAIN cases[e]
    BY DEF HeldInv, Shape, CommitPaidBack
<1>4. /\ dispute' = DisputeWritten(s) /\ DocketDone(s)
      /\ frozen' = IF eases THEN 0 ELSE frozen
      /\ heldBack' = IF eases THEN 0 ELSE heldBack
      /\ settled' = [settled EXCEPT ![d] = @ \cup {"paid"}]
      /\ UNCHANGED lifted
    BY DEF CommitPaidBack
<1> HIDE DEF eases
<1> QED
    BY <1>1, <1>2, <1>3, <1>4, SettlingStep

LEMMA LiftKeeps ==
    ASSUME HeldInv, LiftFreeze
    PROVE  HeldInv'
<1>1. frozen' \in Nat /\ lifted' = TRUE /\ UNCHANGED <<dispute, heldBack, cases, docket, settled>>
    BY DEF LiftFreeze, HeldInv, Shape, rowVars
<1>2. Shape' /\ CasesAreOfDisputes'
    BY <1>1 DEF HeldInv, Shape, CasesAreOfDisputes, Exists
<1>3. \A t \in DisputeSessions : Grounded(t)'
    BY <1>1 DEF HeldInv, Grounded, Exists
<1>4. HeldUntilSettled'
    BY <1>1 DEF HeldInv, HeldUntilSettled, OpenedBy, Exists
<1> QED
    BY <1>2, <1>3, <1>4 DEF HeldInv

LEMMA CaseStepKeeps ==
    ASSUME HeldInv, NEW d \in DisputeIds, NEW i \in DOMAIN cases[d],
           RetryCase(d, i) \/ InitiateCase(d, i) \/ CaseFails(d, i)
    PROVE  HeldInv'
<1>1. /\ UNCHANGED <<dispute, holdVars, docket, settled>>
      /\ cases' = [e \in DisputeIds |-> cases'[e]]
      /\ \A e \in DisputeIds : DOMAIN cases'[e] = DOMAIN cases[e]
    BY DEF RetryCase, InitiateCase, CaseFails, HeldInv, Shape, rowVars
<1>2. Shape' /\ CasesAreOfDisputes'
    BY <1>1 DEF HeldInv, Shape, CasesAreOfDisputes, Exists, holdVars
<1>3. HeldUntilSettled' /\ (ClientSettled' <=> ClientSettled)
    BY <1>1, StillHeld DEF HeldInv, Exists
<1>4. \A t \in DisputeSessions : Grounded(t)'
    BY <1>1, <1>3 DEF HeldInv, Grounded, Exists, holdVars
<1> QED
    BY <1>2, <1>3, <1>4 DEF HeldInv

----------------------------------------------------------------------------
\* HeldInv is an invariant, for any disputes, sessions and decisions.
THEOREM HeldInvHolds == DisputesSpec => []HeldInv
<1>1. DisputesInit => HeldInv
    <2> SUFFICES ASSUME DisputesInit PROVE HeldInv
        OBVIOUS
    <2>1. Shape
        BY DEF DisputesInit, Shape
    <2>2. \A s \in DisputeSessions : Grounded(s)
        BY DEF DisputesInit, Grounded, NoDocket, Writers
    <2>3. CasesAreOfDisputes
        BY DEF DisputesInit, CasesAreOfDisputes
    <2>4. \A d \in DisputeIds : ~Exists(d)
        BY DEF DisputesInit, Exists
    <2>5. HeldUntilSettled
        BY <2>4, DisputesAssumption DEF HeldUntilSettled, OpenedBy
    <2> QED
        BY <2>1, <2>2, <2>3, <2>5 DEF HeldInv
<1>2. HeldInv /\ [DisputesNext]_disputeVars => HeldInv'
    <2> SUFFICES ASSUME HeldInv, [DisputesNext]_disputeVars PROVE HeldInv'
        OBVIOUS
    <2>1. ASSUME NEW s \in DisputeSessions, NEW d \in DisputeIds,
                 \/ BeginDispute(s, d) \/ BeginMessage(s, d) \/ BeginCancel(s, d)
                 \/ \E to \in StatusEdits : BeginEdit(s, d, to)
                 \/ \E decision \in Decisions : BeginResolve(s, d, decision)
                 \/ \E i \in DOMAIN cases[d] : BeginPaidBack(s, d, i)
          PROVE  HeldInv'
        BY <2>1, BeginKeeps
    <2>2. ASSUME NEW s \in DisputeSessions, CommitDispute(s) PROVE HeldInv'
        BY <2>2, CommitDisputeKeeps
    <2>3. ASSUME NEW s \in DisputeSessions,
                 CommitMessage(s) \/ CommitCancel(s) \/ \E logged \in BOOLEAN : CommitEdit(s, logged)
          PROVE  HeldInv'
        BY <2>3, WriteStep DEF CommitMessage, CommitCancel, CommitEdit, Writers
    <2>4. ASSUME NEW s \in DisputeSessions, NEW ds \in SUBSET DisputeIds, BeginSweepDue(s, ds)
          PROVE  HeldInv'
        <3> DEFINE q == [op |-> "sweep", due |-> ds]
        <3>1. /\ docket' = [docket EXCEPT ![s] = q] /\ \A d \in ds : dispute[d] \in Awaiting
              /\ UNCHANGED <<rowVars, holdVars, cases, settled>>
            BY <2>4 DEF BeginSweepDue
        <3>2. docket'[s] = q BY <3>1 DEF HeldInv, Shape
        <3>3. Grounded(s)'
            BY <3>1, <3>2 DEF Grounded, Writers, Exists, rowVars, Awaiting
        <3> QED BY <3>1, <3>3, DocketStep
    <2>5. ASSUME NEW s \in DisputeSessions, NEW ds \in SUBSET DisputeIds, CommitSweepDue(s, ds)
          PROVE  HeldInv'
        BY <2>5, SweepKeeps
    <2>6. ASSUME NEW s \in DisputeSessions, CommitResolve(s) PROVE HeldInv'
        BY <2>6, CommitResolveKeeps
    <2>7. ASSUME NEW s \in DisputeSessions, CommitPaidBack(s) PROVE HeldInv'
        BY <2>7, CommitPaidBackKeeps
    <2>8. ASSUME NEW s \in DisputeSessions, GiveUpDispute(s) PROVE HeldInv'
        <3>1. Grounded(s)'
            BY <2>8 DEF GiveUpDispute, DocketDone, NoDocket, Grounded, HeldInv, Shape, Writers
        <3> QED BY <2>8, <3>1, DocketStep DEF GiveUpDispute, DocketDone
    <2>9. ASSUME NEW d \in DisputeIds, NEW i \in DOMAIN cases[d],
                 RetryCase(d, i) \/ InitiateCase(d, i) \/ CaseFails(d, i)
          PROVE  HeldInv'
        BY <2>9, CaseStepKeeps
    <2>10. CASE LiftFreeze
        BY <2>10, LiftKeeps
    <2>11. CASE UNCHANGED disputeVars
        <3>1. UNCHANGED <<dispute, holdVars, cases, docket, settled>>
            BY <2>11 DEF disputeVars, holdVars
        <3> QED
            BY <3>1 DEF HeldInv, Shape, Grounded, CasesAreOfDisputes, HeldUntilSettled,
                        ClientSettled, OpenedBy, Exists, holdVars
    <2> QED
        BY <2>1, <2>2, <2>3, <2>4, <2>5, <2>6, <2>7, <2>8, <2>9, <2>10, <2>11 DEF DisputesNext
<1> QED
    BY <1>1, <1>2, PTL DEF DisputesSpec

\* Until a dispute of the client was refused or paid back, or the freeze was
\* lifted by hand, a dispute about money freezes the downloads and one of the
\* client holds the earnings (apply_entitlement_hold and its releases).
THEOREM HoldsLast == DisputesSpec => []HeldUntilSettled
<1>1. HeldInv => HeldUntilSettled
    BY DEF HeldInv
<1> QED
    BY <1>1, HeldInvHolds, PTL

----------------------------------------------------------------------------
(* A decision survives *)

CaseStatus == {"pending", "refund_initiated", "refunded", "failed"}
CaseRow == [status : CaseStatus, decision : Decisions, due : BOOLEAN, known : BOOLEAN]

DecisionShape ==
    /\ cases \in [DisputeIds -> Seq(CaseRow)] /\ settled \in [DisputeIds -> SUBSET (Decisions \cup {"paid"})]
    /\ resolution = [d \in DisputeIds |-> resolution[d]]
    /\ docket = [s \in DisputeSessions |-> docket[s]]

\* What a session that decides or pays back found is still so when it commits:
\* cases are added and never taken away, and Stripe does not forget one.
Founded(s) ==
    /\ docket[s].op = "resolve" =>
          /\ docket[s].dispute \in DisputeIds /\ docket[s].decision \in Decisions
          /\ docket[s].hasCase => cases[docket[s].dispute] # <<>>
    /\ docket[s].op = "paid" =>
          /\ docket[s].dispute \in DisputeIds
          /\ docket[s].case \in DOMAIN cases[docket[s].dispute]
          /\ cases[docket[s].dispute][docket[s].case].known

PaidIsKnown ==
    \A d \in DisputeIds : \A i \in DOMAIN cases[d] :
        cases[d][i].status = "refunded" => cases[d][i].known

DecisionInv ==
    /\ DecisionShape
    /\ \A s \in DisputeSessions : Founded(s)
    /\ PaidIsKnown
    /\ DecisionSurvives

\* Rows of cases that only learn leave what sessions found true.
Learns ==
    \A d \in DisputeIds :
        /\ DOMAIN cases[d] \subseteq DOMAIN cases'[d]
        /\ cases[d] # <<>> => cases'[d] # <<>>
        /\ \A i \in DOMAIN cases[d] : cases[d][i].known => cases'[d][i].known

\* Writing one row of a dispute's cases
LEMMA RowWritten ==
    ASSUME DecisionInv, NEW d \in DisputeIds, NEW i \in DOMAIN cases[d], NEW c \in CaseRow,
           cases[d][i].known => c.known, c.due \/ c.known, c.status = "refunded" => c.known,
           cases' = [cases EXCEPT ![d] = [cases[d] EXCEPT ![i] = c]]
    PROVE  /\ cases' \in [DisputeIds -> Seq(CaseRow)] /\ Learns /\ PaidIsKnown'
           /\ \A e \in DisputeIds : (cases'[e] # <<>> <=> cases[e] # <<>>)
           /\ \A e \in DisputeIds : \A j \in DOMAIN cases'[e] : cases'[e][j].due \/ cases'[e][j].known
<1> DEFINE q == [cases[d] EXCEPT ![i] = c]
<1>1. cases[d] \in Seq(CaseRow)
    BY DEF DecisionInv, DecisionShape
<1>2. q \in Seq(CaseRow) /\ DOMAIN q = DOMAIN cases[d] /\ q[i] = c /\ q # <<>> /\ cases[d] # <<>>
      /\ \A j \in DOMAIN cases[d] : j # i => q[j] = cases[d][j]
    BY <1>1
<1> HIDE DEF q
<1>3. cases'[d] = q /\ \A e \in DisputeIds : e # d => cases'[e] = cases[e]
    BY DEF DecisionInv, DecisionShape, q
<1>4. cases' \in [DisputeIds -> Seq(CaseRow)]
    BY <1>2 DEF DecisionInv, DecisionShape, q
<1>5. Learns
    BY <1>2, <1>3 DEF Learns
<1>6. PaidIsKnown'
    BY <1>2, <1>3 DEF PaidIsKnown, DecisionInv
<1>7. \A e \in DisputeIds : \A j \in DOMAIN cases'[e] : cases'[e][j].due \/ cases'[e][j].known
    BY <1>2, <1>3 DEF DecisionInv, DecisionSurvives
<1> QED BY <1>2, <1>3, <1>4, <1>5, <1>6, <1>7

LEMMA FoundedStays ==
    ASSUME DecisionInv, Learns, NEW s \in DisputeSessions, NEW q, docket' = [docket EXCEPT ![s] = q],
           Founded(s)'
    PROVE  /\ docket' = [t \in DisputeSessions |-> docket'[t]]
           /\ \A t \in DisputeSessions : Founded(t)'
<1>1. docket' = [t \in DisputeSessions |-> docket'[t]]
    BY DEF DecisionInv, DecisionShape
<1>2. ASSUME NEW t \in DisputeSessions, t # s PROVE Founded(t)'
    <2>1. docket'[t] = docket[t] /\ Founded(t)
        BY <1>2 DEF DecisionInv, DecisionShape
    <2> QED BY <2>1 DEF Founded, Learns
<1> QED BY <1>1, <1>2

\* A step that only gives a session something to do or ends it
LEMMA OnlyTheDocket ==
    ASSUME DecisionInv, NEW s \in DisputeSessions, NEW q, docket' = [docket EXCEPT ![s] = q],
           UNCHANGED <<cases, settled, resolution>>,
           q.op = "resolve" =>
               /\ q.dispute \in DisputeIds /\ q.decision \in Decisions
               /\ q.hasCase => cases[q.dispute] # <<>>,
           q.op = "paid" =>
               /\ q.dispute \in DisputeIds /\ q.case \in DOMAIN cases[q.dispute]
               /\ cases[q.dispute][q.case].known
    PROVE  DecisionInv'
<1>1. docket'[s] = q
    BY DEF DecisionInv, DecisionShape
<1>2. Founded(s)' /\ Learns
    BY <1>1 DEF Founded, Learns
<1>3. docket' = [t \in DisputeSessions |-> docket'[t]] /\ \A t \in DisputeSessions : Founded(t)'
    BY <1>2, FoundedStays
<1> QED BY <1>3 DEF DecisionInv, DecisionShape, PaidIsKnown, DecisionSurvives

\* A decision is committed: it adds a case unless one was found.
LEMMA ResolveDecides ==
    ASSUME DecisionInv, NEW s \in DisputeSessions, CommitResolve(s)
    PROVE  DecisionInv'
<1>1. PICK d, decision : d = docket[s].dispute /\ decision = docket[s].decision
    OBVIOUS
<1>2. d \in DisputeIds /\ decision \in Decisions /\ (docket[s].hasCase => cases[d] # <<>>)
    BY <1>1 DEF DecisionInv, Founded, CommitResolve
<1>3. /\ resolution' = [resolution EXCEPT ![d] = decision]
      /\ settled' = [settled EXCEPT ![d] = settled[d] \cup {decision}]
      /\ docket' = [docket EXCEPT ![s] = NoDocket]
    BY <1>1 DEF CommitResolve, DocketDone
<1>4. PICK c : c = RefundCase(decision)
    OBVIOUS
<1>5. c \in CaseRow /\ c.status = "pending" /\ c.due = TRUE
    BY <1>2, <1>4 DEF RefundCase, CaseRow, CaseStatus
<1>6. PICK q : /\ q = cases[d] \/ q = Append(cases[d], c)
               /\ cases' = [cases EXCEPT ![d] = q]
               /\ q # <<>> <=> cases[d] # <<>> \/ decision # "no_refund"
    <2>1. CASE decision # "no_refund" /\ ~docket[s].hasCase
        <3>1. cases' = [cases EXCEPT ![d] = Append(cases[d], c)]
            BY <1>1, <1>4, <2>1 DEF CommitResolve
        <3>2. cases[d] \in Seq(CaseRow)
            BY <1>2 DEF DecisionInv, DecisionShape
        <3>3. Append(cases[d], c) # <<>>
            BY <1>5, <3>2
        <3> QED BY <2>1, <3>1, <3>3
    <2>2. CASE ~(decision # "no_refund" /\ ~docket[s].hasCase)
        <3>1. cases' = cases
            BY <1>1, <2>2 DEF CommitResolve
        <3>2. cases' = [cases EXCEPT ![d] = cases[d]]
            BY <3>1 DEF DecisionInv, DecisionShape
        <3>3. decision # "no_refund" => cases[d] # <<>>
            BY <1>2, <2>2
        <3> QED BY <3>2, <3>3
    <2> QED BY <2>1, <2>2
<1>7. cases[d] \in Seq(CaseRow)
    BY <1>2 DEF DecisionInv, DecisionShape
<1>8. q \in Seq(CaseRow) /\ DOMAIN cases[d] \subseteq DOMAIN q
      /\ (\A i \in DOMAIN cases[d] : q[i] = cases[d][i])
      /\ \A i \in DOMAIN q : i \notin DOMAIN cases[d] => q[i] = c
    BY <1>5, <1>6, <1>7
<1>9. cases'[d] = q /\ (\A e \in DisputeIds : e # d => cases'[e] = cases[e])
      /\ cases' \in [DisputeIds -> Seq(CaseRow)]
    BY <1>2, <1>6, <1>8 DEF DecisionInv, DecisionShape
<1>10. Learns
    BY <1>6, <1>8, <1>9 DEF Learns
<1>11. PaidIsKnown'
    BY <1>5, <1>8, <1>9 DEF DecisionInv, PaidIsKnown
<1>12. /\ settled'[d] = settled[d] \cup {decision} /\ resolution'[d] = decision
       /\ \A e \in DisputeIds : e # d => settled'[e] = settled[e] /\ resolution'[e] = resolution[e]
       /\ settled' \in [DisputeIds -> SUBSET (Decisions \cup {"paid"})]
       /\ resolution' = [e \in DisputeIds |-> resolution'[e]]
    BY <1>2, <1>3, <1>5 DEF DecisionInv, DecisionShape
<1>13. docket' = [t \in DisputeSessions |-> docket'[t]] /\ \A t \in DisputeSessions : Founded(t)'
    <2>1. Founded(s)'
        BY <1>3 DEF Founded, NoDocket, DecisionInv, DecisionShape
    <2> QED BY <1>3, <1>10, <2>1, FoundedStays
<1>14. ASSUME NEW e \in DisputeIds
       PROVE  /\ settled'[e] # {} => resolution'[e] \in settled'[e]
              /\ cases'[e] # <<>> <=> settled'[e] \cap {"full_refund", "partial_refund"} # {}
              /\ \A i \in DOMAIN cases'[e] : cases'[e][i].due \/ cases'[e][i].known
    <2>1. CASE e = d
        <3>1. decision # "no_refund" <=> decision \in {"full_refund", "partial_refund"}
            BY <1>2, DisputesAssumption
        <3>2. cases[d] # <<>> <=> settled[d] \cap {"full_refund", "partial_refund"} # {}
            BY <1>2 DEF DecisionInv, DecisionSurvives
        <3>3. \A i \in DOMAIN q : q[i].due \/ q[i].known
            BY <1>2, <1>5, <1>8 DEF DecisionInv, DecisionSurvives
        <3> QED BY <1>6, <1>9, <1>12, <2>1, <3>1, <3>2, <3>3
    <2>2. CASE e # d
        BY <1>9, <1>12, <2>2 DEF DecisionInv, DecisionSurvives
    <2> QED BY <2>1, <2>2
<1> QED
    BY <1>9, <1>11, <1>12, <1>13, <1>14 DEF DecisionInv, DecisionShape, DecisionSurvives

\* A refund is paid back: its case was asked for, and so decided.
LEMMA PaidBackDecides ==
    ASSUME DecisionInv, NEW s \in DisputeSessions, CommitPaidBack(s)
    PROVE  DecisionInv'
<1>1. PICK d, i : d = docket[s].dispute /\ i = docket[s].case
    OBVIOUS
<1>2. d \in DisputeIds /\ i \in DOMAIN cases[d] /\ cases[d][i].known
    BY <1>1 DEF DecisionInv, Founded, CommitPaidBack
<1>3. PICK c : c = [cases[d][i] EXCEPT !.status = "refunded"]
    OBVIOUS
<1>4. cases' = [cases EXCEPT ![d] = [cases[d] EXCEPT ![i] = c]]
    BY <1>1, <1>3 DEF CommitPaidBack
<1>5. cases[d][i] \in CaseRow
    BY <1>2 DEF DecisionInv, DecisionShape
<1>6. c \in CaseRow /\ c.known
    BY <1>2, <1>3, <1>5 DEF CaseRow, CaseStatus
<1>7. /\ cases' \in [DisputeIds -> Seq(CaseRow)] /\ Learns /\ PaidIsKnown'
      /\ \A e \in DisputeIds : (cases'[e] # <<>> <=> cases[e] # <<>>)
      /\ \A e \in DisputeIds : \A j \in DOMAIN cases'[e] : cases'[e][j].due \/ cases'[e][j].known
    BY <1>2, <1>4, <1>6, RowWritten
<1>8. /\ settled' = [settled EXCEPT ![d] = settled[d] \cup {"paid"}] /\ UNCHANGED resolution
      /\ docket' = [docket EXCEPT ![s] = NoDocket]
    BY <1>1 DEF CommitPaidBack, DocketDone
<1>9. /\ settled'[d] = settled[d] \cup {"paid"} /\ settled' \in [DisputeIds -> SUBSET (Decisions \cup {"paid"})]
      /\ \A e \in DisputeIds : e # d => settled'[e] = settled[e]
    BY <1>2, <1>8 DEF DecisionInv, DecisionShape
<1>10. cases[d] # <<>> /\ settled[d] # {}
    <2>1. cases[d] # <<>>
        BY <1>2 DEF DecisionInv, DecisionShape
    <2> QED BY <1>2, <2>1 DEF DecisionInv, DecisionSurvives
<1>11. docket' = [t \in DisputeSessions |-> docket'[t]] /\ \A t \in DisputeSessions : Founded(t)'
    <2>1. Founded(s)'
        BY <1>8 DEF Founded, NoDocket, DecisionInv, DecisionShape
    <2> QED BY <1>7, <1>8, <2>1, FoundedStays
<1>12. ASSUME NEW e \in DisputeIds
       PROVE  /\ settled'[e] # {} => resolution'[e] \in settled'[e]
              /\ cases'[e] # <<>> <=> settled'[e] \cap {"full_refund", "partial_refund"} # {}
    <2>1. /\ settled[e] # {} => resolution[e] \in settled[e]
          /\ cases[e] # <<>> <=> settled[e] \cap {"full_refund", "partial_refund"} # {}
        BY DEF DecisionInv, DecisionSurvives
    <2>2. CASE e = d
        <3>1. settled'[d] \cap {"full_refund", "partial_refund"} = settled[d] \cap {"full_refund", "partial_refund"}
            BY <1>9
        <3> QED BY <1>7, <1>8, <1>9, <1>10, <2>1, <2>2, <3>1
    <2>3. CASE e # d
        BY <1>7, <1>8, <1>9, <2>1, <2>3
    <2> QED BY <2>2, <2>3
<1> QED
    BY <1>7, <1>8, <1>9, <1>11, <1>12 DEF DecisionInv, DecisionShape, DecisionSurvives

\* A case is asked for, asked for again, or fails.
LEMMA CaseMoves ==
    ASSUME DecisionInv, NEW d \in DisputeIds, NEW i \in DOMAIN cases[d],
           RetryCase(d, i) \/ InitiateCase(d, i) \/ CaseFails(d, i)
    PROVE  DecisionInv'
<1>1. cases[d][i] \in CaseRow /\ (cases[d][i].due \/ cases[d][i].known)
      /\ (cases[d][i].status = "refunded" => cases[d][i].known)
    <2>1. cases[d][i] \in CaseRow
        BY DEF DecisionInv, DecisionShape
    <2> QED BY <2>1 DEF DecisionInv, DecisionSurvives, PaidIsKnown
<1>2. UNCHANGED <<settled, resolution, docket>>
    BY DEF RetryCase, InitiateCase, CaseFails, rowVars
<1>3. PICK c \in CaseRow : /\ cases' = [cases EXCEPT ![d] = [cases[d] EXCEPT ![i] = c]]
                           /\ cases[d][i].known => c.known
                           /\ c.due \/ c.known
                           /\ c.status = "refunded" => c.known
    <2>1. CASE RetryCase(d, i)
        <3>1. PICK c : c = [cases[d][i] EXCEPT !.due = TRUE]
            OBVIOUS
        <3>2. cases' = [cases EXCEPT ![d] = [cases[d] EXCEPT ![i] = c]]
            BY <2>1, <3>1 DEF RetryCase
        <3>3. c \in CaseRow /\ c.due /\ c.known = cases[d][i].known /\ c.status = cases[d][i].status
            BY <1>1, <3>1 DEF CaseRow, CaseStatus
        <3> QED BY <1>1, <3>2, <3>3
    <2>2. CASE InitiateCase(d, i) /\ cases[d][i].status = "refunded"
        <3>1. PICK c : c = [cases[d][i] EXCEPT !.due = FALSE]
            OBVIOUS
        <3>2. cases' = [cases EXCEPT ![d] = [cases[d] EXCEPT ![i] = c]]
            BY <2>2, <3>1 DEF InitiateCase
        <3>3. c \in CaseRow /\ c.known = cases[d][i].known /\ c.status = cases[d][i].status
            BY <1>1, <3>1 DEF CaseRow, CaseStatus
        <3> QED BY <1>1, <2>2, <3>2, <3>3
    <2>3. CASE InitiateCase(d, i) /\ cases[d][i].status # "refunded"
        <3>1. PICK c : c = [cases[d][i] EXCEPT !.due = FALSE, !.known = TRUE, !.status = "refund_initiated"]
            OBVIOUS
        <3>2. cases' = [cases EXCEPT ![d] = [cases[d] EXCEPT ![i] = c]]
            BY <2>3, <3>1 DEF InitiateCase
        <3>3. c \in CaseRow /\ c.known
            BY <1>1, <3>1 DEF CaseRow, CaseStatus
        <3> QED BY <3>2, <3>3
    <2>4. CASE CaseFails(d, i)
        <3>1. PICK c : c = [cases[d][i] EXCEPT !.status = "failed"]
            OBVIOUS
        <3>2. cases' = [cases EXCEPT ![d] = [cases[d] EXCEPT ![i] = c]]
            BY <2>4, <3>1 DEF CaseFails
        <3>3. c \in CaseRow /\ c.due = cases[d][i].due /\ c.known = cases[d][i].known /\ c.status = "failed"
            BY <1>1, <3>1 DEF CaseRow, CaseStatus
        <3> QED BY <1>1, <3>2, <3>3
    <2> QED BY <2>1, <2>2, <2>3, <2>4
<1>4. /\ cases' \in [DisputeIds -> Seq(CaseRow)] /\ Learns /\ PaidIsKnown'
      /\ \A e \in DisputeIds : (cases'[e] # <<>> <=> cases[e] # <<>>)
      /\ \A e \in DisputeIds : \A j \in DOMAIN cases'[e] : cases'[e][j].due \/ cases'[e][j].known
    BY <1>3, RowWritten
<1>5. \A s \in DisputeSessions : Founded(s)'
    BY <1>2, <1>4 DEF DecisionInv, Founded, Learns
<1> QED
    BY <1>2, <1>4, <1>5 DEF DecisionInv, DecisionShape, DecisionSurvives

\* DecisionInv is an invariant.
THEOREM DecisionInvHolds == DisputesSpec => []DecisionInv
<1>1. DisputesInit => DecisionInv
    <2> SUFFICES ASSUME DisputesInit PROVE DecisionInv
        OBVIOUS
    <2>1. DecisionShape /\ PaidIsKnown /\ DecisionSurvives
        BY DEF DisputesInit, DecisionShape, PaidIsKnown, DecisionSurvives
    <2>2. \A s \in DisputeSessions : Founded(s)
        BY DEF DisputesInit, Founded, NoDocket
    <2> QED BY <2>1, <2>2 DEF DecisionInv
<1>2. DecisionInv /\ [DisputesNext]_disputeVars => DecisionInv'
    <2> SUFFICES ASSUME DecisionInv, [DisputesNext]_disputeVars PROVE DecisionInv'
        OBVIOUS
    <2>1. ASSUME NEW s \in DisputeSessions, NEW d \in DisputeIds,
                 \/ BeginDispute(s, d) \/ BeginMessage(s, d) \/ BeginCancel(s, d)
                 \/ \E to \in StatusEdits : BeginEdit(s, d, to)
          PROVE  DecisionInv'
        <3>1. PICK q : /\ docket' = [docket EXCEPT ![s] = q] /\ q.op \in {"open", "message", "cancel", "edit"}
                       /\ UNCHANGED <<cases, settled, resolution>>
            BY <2>1 DEF BeginDispute, BeginMessage, BeginCancel, BeginEdit, Reads, rowVars
        <3> QED BY <3>1, OnlyTheDocket
    <2>2. ASSUME NEW s \in DisputeSessions, NEW ds, BeginSweepDue(s, ds) PROVE DecisionInv'
        <3>1. PICK q : /\ docket' = [docket EXCEPT ![s] = q] /\ q.op = "sweep"
                       /\ UNCHANGED <<cases, settled, resolution>>
            BY <2>2 DEF BeginSweepDue, rowVars
        <3> QED BY <3>1, OnlyTheDocket
    <2>3. ASSUME NEW s \in DisputeSessions, NEW d \in DisputeIds, NEW decision \in Decisions,
                 BeginResolve(s, d, decision)
          PROVE  DecisionInv'
        <3>1. PICK q : /\ q = [op |-> "resolve", dispute |-> d, change |-> Change(d, Outcome(decision)),
                               decision |-> decision, hasCase |-> SeesCases(d)]
                       /\ docket' = [docket EXCEPT ![s] = q]
                       /\ UNCHANGED <<cases, settled, resolution>>
            BY <2>3 DEF BeginResolve, rowVars
        <3>2. q.op = "resolve" /\ q.dispute = d /\ q.decision = decision /\ (q.hasCase => cases[d] # <<>>)
            BY <3>1 DEF SeesCases
        <3> QED BY <3>1, <3>2, OnlyTheDocket
    <2>4. ASSUME NEW s \in DisputeSessions, NEW d \in DisputeIds, NEW i \in DOMAIN cases[d],
                 BeginPaidBack(s, d, i)
          PROVE  DecisionInv'
        <3>1. PICK q : /\ q = [op |-> "paid", dispute |-> d, case |-> i,
                               change |-> Change(d, Outcome(cases[d][i].decision))]
                       /\ docket' = [docket EXCEPT ![s] = q] /\ cases[d][i].known
                       /\ UNCHANGED <<cases, settled, resolution>>
            BY <2>4 DEF BeginPaidBack, rowVars
        <3>2. q.op = "paid" /\ q.dispute = d /\ q.case = i
            BY <3>1
        <3> QED BY <3>1, <3>2, OnlyTheDocket
    <2>5. ASSUME NEW s \in DisputeSessions, NEW ds,
                 \/ CommitDispute(s) \/ CommitMessage(s) \/ CommitCancel(s) \/ CommitSweepDue(s, ds)
                 \/ (\E logged \in BOOLEAN : CommitEdit(s, logged)) \/ GiveUpDispute(s)
          PROVE  DecisionInv'
        <3>1. docket' = [docket EXCEPT ![s] = NoDocket] /\ UNCHANGED <<cases, settled, resolution>>
            BY <2>5 DEF CommitDispute, CommitMessage, CommitCancel, CommitSweepDue, CommitEdit,
                        GiveUpDispute, DocketDone, rowVars
        <3>2. NoDocket.op = "idle"
            BY DEF NoDocket
        <3> QED BY <3>1, <3>2, OnlyTheDocket
    <2>6. ASSUME NEW s \in DisputeSessions, CommitResolve(s) PROVE DecisionInv'
        BY <2>6, ResolveDecides
    <2>7. ASSUME NEW s \in DisputeSessions, CommitPaidBack(s) PROVE DecisionInv'
        BY <2>7, PaidBackDecides
    <2>8. ASSUME NEW d \in DisputeIds, NEW i \in DOMAIN cases[d],
                 RetryCase(d, i) \/ InitiateCase(d, i) \/ CaseFails(d, i)
          PROVE  DecisionInv'
        BY <2>8, CaseMoves
    <2>9. CASE LiftFreeze \/ UNCHANGED disputeVars
        <3>1. UNCHANGED <<cases, settled, resolution, docket>>
            BY <2>9 DEF LiftFreeze, disputeVars, rowVars
        <3> QED
            BY <3>1 DEF DecisionInv, DecisionShape, Founded, PaidIsKnown, DecisionSurvives
    <2> QED
        BY <2>1, <2>2, <2>3, <2>4, <2>5, <2>6, <2>7, <2>8, <2>9 DEF DisputesNext
<1> QED
    BY <1>1, <1>2, PTL DEF DisputesSpec

\* Whatever overlaps it, a decision is not lost, and the refund it grants has
\* its case (create_or_get_refund_case_for_dispute, escalate_due_disputes).
THEOREM DecisionsSurvive == DisputesSpec => []DecisionSurvives
<1>1. DecisionInv => DecisionSurvives
    BY DEF DecisionInv
<1> QED
    BY <1>1, DecisionInvHolds, PTL
=============================================================================
