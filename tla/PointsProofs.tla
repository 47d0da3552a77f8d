---------------------------- MODULE PointsProofs ----------------------------
(***************************************************************************)
(* Proofs about points and standing, for any users, requests, workers and  *)
(* policies: a threshold of a share link, a conversion of a referred       *)
(* friend and a level of consent pay once (Sharing, Growth, Consents), the *)
(* highest tier a photographer held stays among the credentials            *)
(* (Gamification), a mint is reversed once (Minting), and the points of a  *)
(* user are conserved (Rewards).                                           *)
(***************************************************************************)
EXTENDS Rewards, Minting, Sharing, Growth, Consents, Gamification, FiniteSetTheorems, TLAPS

----------------------------------------------------------------------------
(* Share links.  What an evaluation found booked had its grant; the unique  *)
(* grant therefore keeps it from both paying and not granting.              *)

Evaluated(v) ==
    visiting[v].op = "evaluate" =>
        visiting[v].award \subseteq Thresholds /\ visiting[v].booked \subseteq granted

ShareInv ==
    /\ visiting = [v \in Visits \cup Evaluators |-> visiting[v]]
    /\ \A v \in Visits \cup Evaluators : Evaluated(v)
    /\ ThresholdPaidOnce

\* A step that pays nothing and begins no evaluation
LEMMA NothingPaid ==
    ASSUME ShareInv, UNCHANGED <<paidOut, granted>>,
           visiting' = [v \in Visits \cup Evaluators |-> visiting'[v]],
           \A v \in Visits \cup Evaluators : visiting'[v] = visiting[v] \/ visiting'[v].op # "evaluate"
    PROVE  ShareInv'
BY DEF ShareInv, Evaluated, ThresholdPaidOnce

LEMMA BeginVisitStep ==
    ASSUME ShareInv, NEW v \in Visits, NEW who \in Fingerprints, NEW op \in {"view", "ping"},
           BeginVisit(v, op, who)
    PROVE  ShareInv'
<1> DEFINE row == [NoVisit EXCEPT !.op = op, !.who = {who}, !.fresh = seen[who] = "none", !.views = link.views]
<1>1. visiting' = [visiting EXCEPT ![v] = row] /\ UNCHANGED <<paidOut, granted>>
    BY DEF BeginVisit
<1>2. row.op = op
    BY DEF NoVisit
<1> HIDE DEF row
<1> QED BY <1>1, <1>2, NothingPaid DEF ShareInv

LEMMA EvaluateStep == ASSUME ShareInv, NEW v \in Evaluators, BeginEvaluate(v) PROVE ShareInv'
<1>1. PICK award \in SUBSET {t \in Thresholds : Reached(t) /\ t \notin granted} :
          visiting' = [visiting EXCEPT ![v] =
              [NoVisit EXCEPT !.op = "evaluate", !.award = award, !.booked = {t \in award : paidOut[t] > 0}]]
    BY DEF BeginEvaluate
<1> DEFINE booked == {t \in award : paidOut[t] > 0}
           row == [NoVisit EXCEPT !.op = "evaluate", !.award = award, !.booked = booked]
<1>2. visiting' = [visiting EXCEPT ![v] = row] /\ UNCHANGED <<paidOut, granted>>
    BY <1>1 DEF BeginEvaluate
<1>3. award \subseteq Thresholds /\ booked \subseteq granted
    BY <1>1 DEF ShareInv, ThresholdPaidOnce
<1>4. row.award = award /\ row.booked = booked
    BY DEF NoVisit
<1> HIDE DEF row, booked
<1> QED BY <1>2, <1>3, <1>4 DEF ShareInv, Evaluated, ThresholdPaidOnce

LEMMA PayThresholdStep == ASSUME ShareInv, NEW v \in Evaluators, CommitEvaluate(v) PROVE ShareInv'
<1> DEFINE q == visiting[v]
<1>1. /\ q.award \cap granted = {} /\ q.award \subseteq Thresholds /\ q.booked \subseteq granted
      /\ granted' = granted \cup q.award /\ visiting' = [visiting EXCEPT ![v] = NoVisit]
      /\ paidOut' = [t \in Thresholds |-> IF t \in q.award \ q.booked THEN paidOut[t] + 1 ELSE paidOut[t]]
    BY DEF CommitEvaluate, NotGranted, EndVisiting, ShareInv, Evaluated
<1>2. ThresholdPaidOnce'
    BY <1>1 DEF ShareInv, ThresholdPaidOnce
<1>3. NoVisit.op # "evaluate"
    BY DEF NoVisit
<1>4. \A w \in Visits \cup Evaluators : Evaluated(w)'
    BY <1>1, <1>3 DEF ShareInv, Evaluated
<1> QED BY <1>1, <1>2, <1>4 DEF ShareInv

LEMMA SharingStep == ShareInv /\ [ShareNext]_shareVars => ShareInv'
<1> SUFFICES ASSUME ShareInv, [ShareNext]_shareVars PROVE ShareInv'
    OBVIOUS
<1>1. CASE UNCHANGED <<paidOut, granted, visiting>>
    BY <1>1, NothingPaid DEF ShareInv
<1>2. ASSUME NEW v \in Visits \cup Evaluators, EndVisiting(v), UNCHANGED <<paidOut, granted>> PROVE ShareInv'
    BY <1>2, NothingPaid DEF EndVisiting, NoVisit, ShareInv
<1> QED
    BY <1>1, <1>2, BeginVisitStep, EvaluateStep, PayThresholdStep
    DEF ShareNext, shareVars, CommitView, CommitPing, AbortVisiting, CloseLink, HoldLink, Convert, FreezeSharer

\* A threshold of a share link is paid once and with its grant, for any visits,
\* thresholds, caps and evaluations that overlap.
THEOREM ThresholdsPayOnce == ShareSpec => []ThresholdPaidOnce
<1>1. ShareInit => ShareInv
    BY DEF ShareInit, ShareInv, Evaluated, NoVisit, ThresholdPaidOnce
<1>2. ShareInv => ThresholdPaidOnce
    BY DEF ShareInv
<1> QED BY <1>1, <1>2, SharingStep, PTL DEF ShareSpec

----------------------------------------------------------------------------
(* Consents.  An evaluation is asked for by a choice of the client, from a  *)
(* level it chose or was given; it writes one entry and no second.          *)

\* Levels a gig can be found at: chosen, or given by default.
Had(l) == l \in chosen \cup {DefaultLevel}

Toggled(s) ==
    /\ toggling[s].op = "put" => toggling[s].level \in UsageLevels
    /\ toggling[s].op \in {"put", "get"} => toggling[s].from = "absent" \/ Had(toggling[s].from)

ConsentInv ==
    /\ chosen \subseteq UsageLevels /\ (usage = "absent" \/ Had(usage))
    /\ toggling = [s \in ConsentSessions |-> toggling[s]]
    /\ \A s \in ConsentSessions : Toggled(s)
    /\ \A l \in UsageLevels : ForLevel(l) \in evaluate => l \in chosen
    /\ \A f, t \in UsageLevels : ForChange(f, t) \in evaluate => t \in chosen /\ Had(f)
    /\ entries \in [Evaluations -> Nat]
    /\ ConsentPaysOnce

LEMMA BeginReadStep ==
    ASSUME ConsentInv, NEW s \in ConsentSessions, NEW op \in {"get", "put"}, NEW wanted \in UsageLevels,
           BeginRead(s, op, wanted)
    PROVE  ConsentInv'
BY DEF BeginRead, ConsentInv, Toggled, Had, ConsentPaysOnce, consentRow, evaluations

LEMMA CommitPutStep == ASSUME ConsentInv, NEW s \in ConsentSessions, CommitPut(s) PROVE ConsentInv'
<1> DEFINE q == toggling[s]
<1>1. /\ q.op = "put" /\ q.level \in UsageLevels /\ (q.from = "absent" \/ Had(q.from))
      /\ usage' = LevelWritten(s) /\ chosen' = chosen \cup {q.level} /\ UNCHANGED entries
      /\ evaluate' = evaluate \cup (AsksFor(s) \ askedOnce)
      /\ toggling' = [toggling EXCEPT ![s] = NoToggle]
    BY DEF CommitPut, ConsentInv, Toggled, EndToggle
<1>2. usage' = "absent" \/ Had(usage)'
    BY <1>1 DEF LevelWritten, Had, ConsentInv
<1>3. ASSUME NEW t \in ConsentSessions PROVE Toggled(t)'
    BY <1>1 DEF ConsentInv, Toggled, NoToggle, Had
<1>4. ASSUME NEW l \in UsageLevels, ForLevel(l) \in evaluate' PROVE l \in chosen'
    <2>1. "reward" \notin {q.from} \ {"absent"}
        BY <1>1, ConsentsAssumption DEF ConsentInv, Had, UsageLevels
    <2>2. ForLevel(l) \in AsksFor(s) => l = q.level
        BY <2>1 DEF AsksFor, ForLevel, ForChange
    <2> QED BY <1>1, <1>4, <2>2 DEF ConsentInv
<1>5. ASSUME NEW f \in UsageLevels, NEW t \in UsageLevels, ForChange(f, t) \in evaluate'
      PROVE  t \in chosen' /\ Had(f)'
    <2>1. ForChange(f, t) \in AsksFor(s) => t = q.level /\ f = q.from /\ q.from # "absent"
        BY DEF AsksFor, ForLevel, ForChange, UsageLevels
    <2> QED BY <1>1, <1>5, <2>1 DEF ConsentInv, Had
<1>6. ConsentPaysOnce'
    BY <1>1 DEF ConsentInv, ConsentPaysOnce
<1> QED BY <1>1, <1>2, <1>3, <1>4, <1>5, <1>6 DEF ConsentInv

\* An evaluation that waits writes its entry, unless it is written.
LEMMA BookStep ==
    ASSUME ConsentInv, NEW e \in Evaluations, e \in evaluate, NEW room \in BOOLEAN, Book(e, room),
           evaluate' \subseteq evaluate, UNCHANGED <<usage, chosen, toggling>>
    PROVE  ConsentInv'
<1>1. (entries' = [entries EXCEPT ![e] = @ + 1] /\ entries[e] = 0) \/ UNCHANGED entries
    BY DEF Book, Written, ConsentInv
<1>2. entries' \in [Evaluations -> Nat] /\ \A d \in Evaluations : entries'[d] <= 1
    BY <1>1 DEF ConsentInv, ConsentPaysOnce
<1>3. \A d \in Evaluations : entries'[d] > 0 => entries[d] > 0 \/ d = e
    BY <1>1 DEF ConsentInv
<1>4. \A l \in UsageLevels : ForLevel(l) \in Evaluations
    BY DEF ForLevel, Evaluations
<1>5. \A f, t \in UsageLevels : ForChange(f, t) \in Evaluations
    BY DEF ForChange, Evaluations
<1>6. ASSUME NEW l \in UsageLevels, entries'[ForLevel(l)] > 0 PROVE l \in chosen
    BY <1>3, <1>4, <1>6 DEF ConsentInv, ConsentPaysOnce
<1>7. ASSUME NEW f \in UsageLevels, NEW t \in UsageLevels, entries'[ForChange(f, t)] > 0
      PROVE  t \in chosen /\ Had(f)
    BY <1>3, <1>5, <1>7 DEF ConsentInv, ConsentPaysOnce, Had
<1>8. ConsentPaysOnce'
    BY <1>2, <1>6, <1>7 DEF ConsentPaysOnce, Had
<1> QED BY <1>2, <1>8 DEF ConsentInv, Toggled, Had

LEMMA ConsentsStep == ConsentInv /\ [ConsentsNext]_consentVars => ConsentInv'
<1> SUFFICES ASSUME ConsentInv, [ConsentsNext]_consentVars PROVE ConsentInv'
    OBVIOUS
<1>1. CASE UNCHANGED <<usage, chosen, toggling, evaluate, entries>>
    BY <1>1 DEF ConsentInv, Toggled, Had, ConsentPaysOnce
<1>2. ASSUME NEW s \in ConsentSessions, CommitSnapshot(s) PROVE ConsentInv'
    BY <1>2 DEF CommitSnapshot, EndToggle, NoToggle, evaluations, ConsentInv, Toggled, Had, ConsentPaysOnce
<1>3. ASSUME NEW s \in ConsentSessions, LoseToggle(s) PROVE ConsentInv'
    BY <1>3 DEF LoseToggle, EndToggle, NoToggle, consentRow, evaluations, ConsentInv, Toggled, Had,
                ConsentPaysOnce
<1>4. ASSUME NEW l \in UsageLevels, ConsentAges(l) PROVE ConsentInv'
    BY <1>1, <1>4 DEF ConsentAges, evaluations
<1>5. ASSUME NEW room \in BOOLEAN, NEW raises \in BOOLEAN, NEW l \in UsageLevels, AwardLevel(l, room, raises)
      PROVE  ConsentInv'
    <2>1. ForLevel(l) \in Evaluations
        BY DEF ForLevel, Evaluations
    <2>2. PICK does \in BOOLEAN : Book(ForLevel(l), does)
        BY <1>5 DEF AwardLevel
    <2> QED BY <1>5, <2>1, <2>2, BookStep DEF AwardLevel, Handled, consentRow
<1>6. ASSUME NEW room \in BOOLEAN, NEW raises \in BOOLEAN, NEW f \in UsageLevels, NEW t \in UsageLevels,
             TakeBack(f, t, room, raises)
      PROVE  ConsentInv'
    <2>1. ForChange(f, t) \in Evaluations
        BY DEF ForChange, Evaluations
    <2>2. PICK does \in BOOLEAN : Book(ForChange(f, t), does)
        BY <1>6 DEF TakeBack
    <2> QED BY <1>6, <2>1, <2>2, BookStep DEF TakeBack, Handled, consentRow
<1> QED
    BY <1>1, <1>2, <1>3, <1>4, <1>5, <1>6, BeginReadStep, CommitPutStep, ConsentsAssumption
    DEF ConsentsNext, consentVars

\* A gig's consent pays a level, and takes a change back, once and only for what
\* its client chose, for any policy and any number of changes and retries.
THEOREM ConsentsPayOnce == ConsentsSpec => []ConsentPaysOnce
<1>1. ConsentsInit => ConsentInv
    BY DEF ConsentsInit, ConsentInv, Toggled, NoToggle, ConsentPaysOnce, ForLevel, ForChange, Evaluations
<1>2. ConsentInv => ConsentPaysOnce
    BY DEF ConsentInv
<1> QED BY <1>1, <1>2, ConsentsStep, PTL DEF ConsentsSpec

----------------------------------------------------------------------------
(* Credentials.  A session that replaces the rows of mode highest_ever has  *)
(* read a tier above each of those it will delete.                          *)

Surpassing(w) ==
    work[w].op = "credentials" =>
        /\ work[w].level \in Nat
        /\ work[w].surpasses => \A tier \in work[w].highest : work[w].level > tier

CredentialInv ==
    /\ level \in Nat /\ highest \subseteq Nat
    /\ work = [w \in Clerks \cup Judges |-> work[w]]
    /\ \A w \in Clerks \cup Judges : Surpassing(w)

Kept == \A tier \in highest : \E kept \in highest' : kept >= tier

\* A step of one session that leaves the rows of mode highest_ever as they are
LEMMA RowsStay ==
    ASSUME CredentialInv, UNCHANGED highest, level' \in Nat, NEW w \in Clerks \cup Judges, NEW row,
           work' = [work EXCEPT ![w] = row] \/ UNCHANGED work, row.op # "credentials"
    PROVE  CredentialInv' /\ Kept
<1>1. Kept
    BY DEF CredentialInv, Kept
<1>2. work' = [v \in Clerks \cup Judges |-> work'[v]]
    BY DEF CredentialInv
<1>3. ASSUME NEW v \in Clerks \cup Judges PROVE Surpassing(v)'
    BY DEF CredentialInv, Surpassing
<1> QED BY <1>1, <1>2, <1>3 DEF CredentialInv

LEMMA CredentialsRead == ASSUME CredentialInv, NEW w \in Clerks, BeginCredentials(w) PROVE CredentialInv' /\ Kept
<1>1. PICK renews \in BOOLEAN, surpasses \in BOOLEAN : renews = Renews /\ surpasses = Surpasses
    BY DEF Renews, Surpasses
<1> DEFINE row == [NoWork EXCEPT !.op = "credentials", !.level = level, !.renews = renews,
                                 !.surpasses = surpasses, !.current = current, !.highest = highest]
<1>2. work' = [work EXCEPT ![w] = row] /\ UNCHANGED <<level, highest>>
    BY <1>1 DEF BeginCredentials
<1>3. row.level = level /\ row.surpasses = surpasses /\ row.highest = highest
    BY DEF NoWork
<1> HIDE DEF row
<1>4. surpasses => \A tier \in highest : level > tier
    BY <1>1 DEF Surpasses
<1>5. ASSUME NEW v \in Clerks \cup Judges PROVE Surpassing(v)'
    <2>1. CASE v = w
        <3>1. work'[v] = row
            BY <1>2, <2>1 DEF CredentialInv
        <3> QED BY <1>2, <1>3, <1>4, <3>1 DEF CredentialInv, Surpassing
    <2>2. CASE v # w
        BY <1>2, <2>2 DEF CredentialInv, Surpassing
    <2> QED BY <2>1, <2>2
<1>6. Kept
    BY <1>2 DEF CredentialInv, Kept
<1> QED BY <1>2, <1>5, <1>6 DEF CredentialInv

\* The other sessions no longer have the rows this one deletes.
LEMMA OthersForget ==
    ASSUME CredentialInv, NEW w \in Clerks, FinishCredentials(w)
    PROVE  /\ work' = [v \in Clerks \cup Judges |-> work'[v]]
           /\ \A v \in Clerks \cup Judges : Surpassing(v)'
<1>1. ASSUME NEW v \in Clerks \cup Judges PROVE Surpassing(v)'
    <2>1. CASE v = w
        BY <2>1 DEF FinishCredentials, NoWork, Surpassing, CredentialInv
    <2>2. CASE v # w
        <3> DEFINE c == IF work[w].renews THEN work[v].current \ work[w].current ELSE work[v].current
                   h == IF work[w].surpasses THEN work[v].highest \ work[w].highest ELSE work[v].highest
                   row == [work[v] EXCEPT !.current = c, !.highest = h]
        <3>1. work'[v] = row
            BY <2>2 DEF FinishCredentials, CredentialInv
        <3>2. h \subseteq work[v].highest
            OBVIOUS
        <3>3. row.op = work[v].op /\ row.level = work[v].level /\ row.surpasses = work[v].surpasses
            OBVIOUS
        <3>4. row.highest \subseteq work[v].highest
            BY <3>2
        <3> HIDE DEF row
        <3> QED BY <3>1, <3>3, <3>4 DEF CredentialInv, Surpassing
    <2> QED BY <2>1, <2>2
<1> QED BY <1>1 DEF FinishCredentials, CredentialInv

LEMMA CredentialsWritten ==
    ASSUME CredentialInv, NEW w \in Clerks, CommitCredentials(w)
    PROVE  CredentialInv' /\ Kept
<1> DEFINE g == work[w]
<1>1. g.op = "credentials" /\ FinishCredentials(w) /\ UNCHANGED level
    BY DEF CommitCredentials
<1>2. g.level \in Nat /\ (g.surpasses => \A tier \in g.highest : g.level > tier)
    BY <1>1 DEF CredentialInv, Surpassing
<1>3. \/ UNCHANGED highest
      \/ g.surpasses /\ highest' = (highest \ g.highest) \cup {g.level}
    BY DEF CommitCredentials, Replaces
<1> HIDE DEF g
<1>4. highest' \subseteq Nat /\ Kept
    BY <1>2, <1>3 DEF CredentialInv, Kept
<1> QED BY <1>1, <1>4, OthersForget DEF CredentialInv

LEMMA GameStep == CredentialInv /\ [GameNext]_gameVars => CredentialInv' /\ Kept
<1> SUFFICES ASSUME CredentialInv, [GameNext]_gameVars PROVE CredentialInv' /\ Kept
    OBVIOUS
<1>1. NoWork.op # "credentials"
    BY DEF NoWork
<1>2. CASE UNCHANGED <<highest, work>> /\ level' \in Nat
    BY <1>2 DEF CredentialInv, Surpassing, Kept
<1>3. ASSUME NEW w \in Clerks \cup Judges, Finish(w), UNCHANGED <<level, highest>> PROVE CredentialInv' /\ Kept
    BY <1>1, <1>3, RowsStay DEF Finish, CredentialInv
<1>4. ASSUME NEW w \in Judges, NEW m \in Milestones, BeginEvaluation(w, m) PROVE CredentialInv' /\ Kept
    <2>1. PICK op \in {"achieved", "missed"} : op = IF Achieved THEN "achieved" ELSE "missed"
        OBVIOUS
    <2>2. PICK allowed : allowed = CompletionAllowed(m)
        OBVIOUS
    <2> DEFINE row == [NoWork EXCEPT !.op = op, !.on = {m}, !.status = milestone[m].status,
                                     !.allowed = allowed, !.points = season.points]
    <2>3. work' = [work EXCEPT ![w] = row] /\ UNCHANGED <<level, highest>>
        BY <1>4, <2>1, <2>2 DEF BeginEvaluation
    <2>4. row.op = op
        BY DEF NoWork
    <2> HIDE DEF row
    <2> QED BY <2>1, <2>3, <2>4, RowsStay DEF CredentialInv
<1>5. ASSUME NEW tier \in Ranks, Regrade(tier) PROVE CredentialInv' /\ Kept
    BY <1>2, <1>5, GamificationAssumption DEF Regrade
<1>6. ASSUME NEW m \in Milestones, SetMilestone(m) \/ CoolingEnds(m) PROVE CredentialInv' /\ Kept
    BY <1>2, <1>6 DEF SetMilestone, CoolingEnds, CredentialInv
<1>7. CASE SetSeason \/ UNCHANGED gameVars
    BY <1>2, <1>7 DEF SetSeason, gameVars, CredentialInv
<1> QED
    BY <1>3, <1>4, <1>5, <1>6, <1>7, CredentialsRead, CredentialsWritten
    DEF GameNext, CommitCompletion, CommitProgress, AbortWork

\* The highest tier a photographer ever held stays among the credentials, for
\* any tiers, sessions and recomputations that work from old rows.
THEOREM HighestStays == GameSpec => HighestNeverFalls
<1>1. GameInit => CredentialInv
    BY GamificationAssumption DEF GameInit, CredentialInv, Surpassing, NoWork
<1>2. Kept => \A tier \in highest : \E kept \in highest' : kept >= tier
    BY DEF Kept
<1>3. CredentialInv /\ [GameNext]_gameVars
      => CredentialInv' /\ [\A tier \in highest : \E kept \in highest' : kept >= tier]_gameVars
    BY <1>2, GameStep
<1> QED BY <1>1, <1>3, PTL DEF GameSpec, HighestNeverFalls

----------------------------------------------------------------------------
(* Referrals.  A friend's attribution is written once, before any link or   *)
(* grant names anybody, and a webhook has read no other referrer.           *)

Whom == {attribution, NoReferrer}

Converts(w) ==
    /\ converting[w].outcome \in {"nothing", "block", "pay"} => converting[w].to \in Whom
    /\ converting[w].outcome \in {"block", "pay"} => converting[w].to \in Referrers
    /\ converting[w].outcome = "pay" => converting[w].users \subseteq {converting[w].to, Friend}

\* Entries are of the pair that the grant names.
Granted(c) ==
    /\ grant[c].to \in Whom
    /\ \A u \in Earners : rewarded[c][u] <= IF grant[c].to # NoReferrer /\ u \in {grant[c].to, Friend}
                                            THEN 1 ELSE 0

GrowthShape ==
    /\ attribution \in Referrers \cup {NoReferrer} /\ arrival.cookie \in Referrers \cup {NoReferrer}
    /\ arrival = [registered |-> arrival.registered, cookie |-> arrival.cookie]
    /\ ~arrival.registered => attribution = NoReferrer
    /\ grant = [c \in Conversions |-> grant[c]] /\ converting = [w \in Webhooks |-> converting[w]]
    /\ rewarded \in [Conversions -> [Earners -> Nat]]
    /\ referral = [r \in Referrers |-> referral[r]]
GrowthInv ==
    /\ GrowthShape
    /\ \A r \in Referrers : referral[r] # "none" => r = attribution
    /\ \A c \in Conversions : Granted(c)
    /\ \A w \in Webhooks : Converts(w)

\* Before the attribution is written nobody is named; it is written once.
LEMMA AttributeStep ==
    ASSUME GrowthInv, NEW r \in Referrers, attribution = NoReferrer, attribution' = r, LinkTo(r),
           arrival' = [registered |-> TRUE, cookie |-> arrival'.cookie],
           arrival'.cookie \in Referrers \cup {NoReferrer}, UNCHANGED <<grant, rewarded, converting>>
    PROVE  GrowthInv'
<1>1. arrival'.registered
    OBVIOUS
<1>2. GrowthShape'
    BY <1>1 DEF GrowthInv, GrowthShape, LinkTo
<1>3. ASSUME NEW q \in Referrers, referral'[q] # "none" PROVE q = r
    BY <1>3, GrowthAssumption DEF GrowthInv, GrowthShape, LinkTo
<1>4. ASSUME NEW c \in Conversions PROVE Granted(c)'
    BY DEF GrowthInv, Granted, Whom
<1>5. ASSUME NEW w \in Webhooks PROVE Converts(w)'
    BY DEF GrowthInv, Converts, Whom
<1> QED BY <1>2, <1>3, <1>4, <1>5 DEF GrowthInv

LEMMA ArrivalStep ==
    ASSUME GrowthInv, NEW r \in Referrers, Land(r) \/ Regenerate(r) \/ Claim(r) \/ Register
    PROVE  GrowthInv'
<1>1. ASSUME NEW q \in Referrers \cup {NoReferrer}, arrival' = [arrival EXCEPT !.cookie = q],
             UNCHANGED <<attribution, referral, grant, rewarded, converting>>
      PROVE  GrowthInv'
    <2>1. arrival'.cookie = q /\ arrival'.registered = arrival.registered
          /\ arrival' = [registered |-> arrival.registered, cookie |-> q]
        BY <1>1 DEF GrowthInv, GrowthShape
    <2>2. GrowthShape'
        BY <1>1, <2>1 DEF GrowthInv, GrowthShape
    <2> QED BY <1>1, <2>2 DEF GrowthInv, Granted, Converts, Whom
<1>2. CASE Land(r) \/ Regenerate(r)
    BY <1>1, <1>2 DEF Land, Regenerate
<1>3. CASE Claim(r)
    <2>1. arrival.registered /\ UNCHANGED arrival
        BY <1>3 DEF Claim
    <2>2. arrival' = [registered |-> TRUE, cookie |-> arrival'.cookie]
        BY <2>1 DEF GrowthInv, GrowthShape
    <2> QED BY <1>3, <2>2, AttributeStep DEF Claim, Unclaimed, GrowthInv, GrowthShape
<1>4. CASE Register
    <2>1. ~arrival.registered /\ arrival' = [registered |-> TRUE, cookie |-> NoReferrer]
          /\ UNCHANGED <<grant, rewarded, converting>>
        BY <1>4 DEF Register
    <2>2. CASE arrival.cookie = NoReferrer
        <3>1. UNCHANGED <<attribution, referral>>
            BY <1>4, <2>2 DEF Register
        <3>2. GrowthShape'
            BY <2>1, <3>1 DEF GrowthInv, GrowthShape
        <3> QED BY <2>1, <3>1, <3>2 DEF GrowthInv, Granted, Converts, Whom
    <2>3. CASE arrival.cookie # NoReferrer
        BY <1>4, <2>1, <2>3, AttributeStep DEF Register, GrowthInv, GrowthShape
    <2> QED BY <2>2, <2>3
<1> QED BY <1>2, <1>3, <1>4

\* The referrer a webhook reads is whom the friend's attribution names.
LEMMA ReferrerNamed == ASSUME GrowthInv PROVE Referrer \in Whom /\ Referrer \in Referrers \cup {NoReferrer}
<1>1. CASE LiveLinks = {}
    BY <1>1 DEF Referrer, Whom
<1>2. CASE LiveLinks # {}
    <2>1. Referrer \in LiveLinks
        BY <1>2 DEF Referrer
    <2> QED BY <2>1 DEF LiveLinks, GrowthInv, Whom
<1> QED BY <1>1, <1>2

LEMMA BeginConvertStep ==
    ASSUME GrowthInv, NEW w \in Webhooks, NEW c \in Conversions, NEW roles, NEW barred,
           BeginConvert(w, c, roles, barred)
    PROVE  GrowthInv'
<1> DEFINE payees == Payees(Referrer, roles, barred)
           outcome == Outcome(c, Referrer, payees)
           users == {u \in payees : rewarded[c][u] = 0}
<1>1. PICK names, fulfilled :
          converting' = [converting EXCEPT ![w] =
              [conv |-> {c}, names |-> names, outcome |-> outcome, to |-> Referrer, converted |-> fulfilled,
               users |-> users]]
    BY DEF BeginConvert
<1>2. UNCHANGED <<arrival, attribution, referral, grant, rewarded>>
    BY DEF BeginConvert
<1>3. outcome \in {"block", "pay"} => Referrer \in Referrers
    <2>1. ASSUME NEW r, r = NoReferrer, NEW p PROVE Outcome(c, r, p) = "nothing"
        BY <2>1 DEF Outcome
    <2> HIDE DEF payees
    <2> QED BY <2>1, ReferrerNamed
<1>4. users \subseteq {Referrer, Friend}
    BY DEF Payees
<1> HIDE DEF outcome, users
<1>5. ASSUME NEW v \in Webhooks PROVE Converts(v)'
    <2>1. CASE v = w
        BY <1>1, <1>2, <1>3, <1>4, <2>1, ReferrerNamed DEF GrowthInv, GrowthShape, Converts, Whom
    <2>2. CASE v # w
        BY <1>1, <1>2, <2>2 DEF GrowthInv, GrowthShape, Converts, Whom
    <2> QED BY <2>1, <2>2
<1> QED BY <1>1, <1>2, <1>5 DEF GrowthInv, GrowthShape, Granted, Whom

LEMMA NotConverts == NotConverting.outcome = "idle"
BY DEF NotConverting

\* A webhook that ends: the others still hold what they read.
LEMMA OthersConvert ==
    ASSUME GrowthInv, NEW w \in Webhooks, converting' = [converting EXCEPT ![w] = NotConverting],
           UNCHANGED attribution
    PROVE  converting' = [v \in Webhooks |-> converting'[v]] /\ \A v \in Webhooks : Converts(v)'
BY NotConverts DEF GrowthInv, GrowthShape, Converts, Whom

LEMMA CommitGrantStep ==
    ASSUME GrowthInv, NEW w \in Webhooks, NEW c \in Conversions, CommitGrant(w, c)
    PROVE  GrowthInv'
<1> DEFINE q == converting[w]
<1>1. q.outcome = "pay" /\ grant[c].to = NoReferrer /\ UNCHANGED <<arrival, attribution>>
      /\ converting' = [converting EXCEPT ![w] = NotConverting]
    BY DEF CommitGrant, Ungranted
<1>2. q.to \in Referrers /\ q.to = attribution /\ q.users \subseteq {q.to, Friend}
    BY <1>1, GrowthAssumption DEF GrowthInv, Converts, Whom
<1>3. PICK status \in {referral[q.to], "converted"} : referral' = [referral EXCEPT ![q.to] = status]
    BY DEF CommitGrant, GrowthInv, GrowthShape
<1>4. grant' = [grant EXCEPT ![c] = [to |-> q.to, month |-> TRUE, cooling |-> TRUE]]
      /\ rewarded' = [rewarded EXCEPT ![c] =
              [u \in Earners |-> rewarded[c][u] + IF u \in q.users THEN 1 ELSE 0]]
    BY DEF CommitGrant
<1> HIDE DEF q
<1>5. rewarded' \in [Conversions -> [Earners -> Nat]] /\ grant' = [d \in Conversions |-> grant'[d]]
    <2>1. [u \in Earners |-> rewarded[c][u] + IF u \in q.users THEN 1 ELSE 0] \in [Earners -> Nat]
        BY DEF GrowthInv, GrowthShape
    <2> QED BY <1>4, <2>1 DEF GrowthInv, GrowthShape
<1>6. ASSUME NEW d \in Conversions PROVE Granted(d)'
    <2>1. CASE d = c
        <3>1. grant'[d].to = q.to /\ q.to # NoReferrer
            BY <1>2, <1>4, <2>1, GrowthAssumption DEF GrowthInv, GrowthShape
        <3>2. ASSUME NEW u \in Earners PROVE rewarded'[d][u] <= IF u \in {q.to, Friend} THEN 1 ELSE 0
            <4>1. rewarded[c][u] \in Nat /\ rewarded[c][u] <= 0
                BY <1>1 DEF GrowthInv, GrowthShape, Granted
            <4>2. rewarded'[d][u] = rewarded[c][u] + IF u \in q.users THEN 1 ELSE 0
                BY <1>4, <2>1 DEF GrowthInv, GrowthShape
            <4> QED BY <1>2, <4>1, <4>2
        <3> QED BY <1>1, <1>2, <3>1, <3>2 DEF Granted, Whom
    <2>2. CASE d # c
        BY <1>1, <1>4, <2>2 DEF GrowthInv, GrowthShape, Granted, Whom
    <2> QED BY <2>1, <2>2
<1>7. \A r \in Referrers : referral'[r] # "none" => r = attribution
    BY <1>2, <1>3 DEF GrowthInv, GrowthShape
<1>8. referral' = [r \in Referrers |-> referral'[r]]
    BY <1>3 DEF GrowthInv, GrowthShape
<1>9. converting' = [v \in Webhooks |-> converting'[v]] /\ \A v \in Webhooks : Converts(v)'
    BY <1>1, OthersConvert
<1> QED BY <1>1, <1>5, <1>6, <1>7, <1>8, <1>9 DEF GrowthInv, GrowthShape

LEMMA CommitOtherStep ==
    ASSUME GrowthInv, NEW w \in Webhooks, NEW c \in Conversions,
           CommitNothing(w, c) \/ CommitBlock(w, c) \/ AbortConvert(w)
    PROVE  GrowthInv'
<1>1. converting' = [converting EXCEPT ![w] = NotConverting]
      /\ UNCHANGED <<arrival, attribution, grant, rewarded>>
    BY DEF CommitNothing, CommitBlock, AbortConvert
<1>2. converting' = [v \in Webhooks |-> converting'[v]] /\ \A v \in Webhooks : Converts(v)'
    BY <1>1, OthersConvert
<1>3. \/ UNCHANGED referral
      \/ /\ referral' = [referral EXCEPT ![converting[w].to] = "blocked"]
         /\ converting[w].to = attribution
    BY GrowthAssumption DEF CommitNothing, CommitBlock, AbortConvert, GrowthInv, Converts, Whom
<1>4. /\ referral' = [r \in Referrers |-> referral'[r]]
      /\ \A r \in Referrers : referral'[r] # "none" => r = attribution
    BY <1>3 DEF GrowthInv, GrowthShape
<1> QED BY <1>1, <1>2, <1>4 DEF GrowthInv, GrowthShape, Granted, Whom

\* Grants grow old; whom they name stays.
LEMMA GrantsAge == ASSUME GrowthInv, NextMonth \/ CooldownEnds PROVE GrowthInv'
<1>1. PICK no \in BOOLEAN : no = FALSE
    OBVIOUS
<1>2. \/ grant' = [c \in Conversions |-> [grant[c] EXCEPT !.month = no]]
      \/ grant' = [c \in Conversions |-> [grant[c] EXCEPT !.cooling = no]]
    BY <1>1 DEF NextMonth, CooldownEnds
<1>3. ASSUME NEW c \in Conversions PROVE grant'[c].to = grant[c].to
    <2>1. grant'[c] = [grant[c] EXCEPT !.month = no] \/ grant'[c] = [grant[c] EXCEPT !.cooling = no]
        BY <1>2
    <2> DEFINE g == grant[c]
    <2>2. [g EXCEPT !.month = no].to = g.to /\ [g EXCEPT !.cooling = no].to = g.to
        <3> HIDE DEF g
        <3> QED OBVIOUS
    <2> QED BY <2>1, <2>2
<1>4. UNCHANGED <<arrival, attribution, referral, rewarded, converting>>
    BY DEF NextMonth, CooldownEnds
<1>5. ASSUME NEW c \in Conversions PROVE Granted(c)'
    BY <1>3, <1>4 DEF GrowthInv, Granted, Whom
<1>6. grant' = [c \in Conversions |-> grant'[c]]
    BY <1>2
<1> QED BY <1>4, <1>5, <1>6 DEF GrowthInv, GrowthShape, Converts, Whom

LEMMA GrowthStep == GrowthInv /\ [GrowthNext]_growthVars => GrowthInv'
<1> SUFFICES ASSUME GrowthInv, [GrowthNext]_growthVars PROVE GrowthInv'
    OBVIOUS
<1>1. CASE UNCHANGED <<arrival, attribution, referral, grant, rewarded, converting>>
    BY <1>1 DEF GrowthInv, GrowthShape, Granted, Converts, Whom
<1>2. CASE Register
    <2>1. CASE Referrers = {}
        <3>1. UNCHANGED <<attribution, referral, grant, rewarded, converting>>
              /\ arrival' = [registered |-> TRUE, cookie |-> NoReferrer]
            BY <1>2, <2>1 DEF Register, GrowthInv, GrowthShape
        <3> QED BY <3>1 DEF GrowthInv, GrowthShape, Granted, Converts, Whom
    <2>2. CASE Referrers # {}
        BY <1>2, <2>2, ArrivalStep
    <2> QED BY <2>1, <2>2
<1>3. ASSUME NEW w \in Webhooks, AbortConvert(w) PROVE GrowthInv'
    <2>1. converting' = [v \in Webhooks |-> converting'[v]] /\ \A v \in Webhooks : Converts(v)'
        BY <1>3, OthersConvert DEF AbortConvert
    <2> QED BY <1>3, <2>1 DEF AbortConvert, GrowthInv, GrowthShape, Granted, Whom
<1> QED
    BY <1>1, <1>2, <1>3, ArrivalStep, BeginConvertStep, CommitGrantStep, CommitOtherStep, GrantsAge
    DEF GrowthNext, growthVars, SetBlacklist

LEMMA GrowthStarts == GrowthInit => GrowthInv
<1> SUFFICES ASSUME GrowthInit PROVE GrowthInv
    OBVIOUS
<1>1. GrowthShape
    BY DEF GrowthInit, GrowthShape
<1>2. ASSUME NEW c \in Conversions PROVE Granted(c)
    BY DEF GrowthInit, Granted, NoGrant, Whom
<1> QED BY <1>1, <1>2 DEF GrowthInit, GrowthInv, Converts, NotConverting

\* A conversion rewards one pair, once, for any webhooks that overlap or come
\* again, and any policy, freeze and blacklist.
THEOREM ConversionsPayOnce == GrowthSpec => []ConversionPaysOnce
<1>1. GrowthInv => ConversionPaysOnce
    <2> SUFFICES ASSUME GrowthInv, NEW c \in Conversions, NEW u \in Earners
                 PROVE  rewarded[c][u] <= IF grant[c] # NoGrant /\ u \in {grant[c].to, Friend} THEN 1 ELSE 0
        BY DEF ConversionPaysOnce
    <2>1. grant[c].to # NoReferrer => grant[c] # NoGrant
        BY DEF NoGrant
    <2>2. rewarded[c][u] \in Nat
        BY DEF GrowthInv, GrowthShape
    <2> QED BY <2>1, <2>2 DEF GrowthInv, Granted
<1> QED BY <1>1, GrowthStarts, GrowthStep, PTL DEF GrowthSpec

\* No link and no grant names anybody but whom the friend's attribution names.
THEOREM FriendsHaveOneReferrer == GrowthSpec => []OneReferrer
<1>1. GrowthInv => OneReferrer
    BY DEF GrowthInv, Granted, Whom, OneReferrer
<1> QED BY <1>1, GrowthStarts, GrowthStep, PTL DEF GrowthSpec

----------------------------------------------------------------------------
(* Minted points.  A dispatcher that outlasts its period meets the next one; *)
(* two that reverse the mints of a gig at once debit them twice, so this is  *)
(* about one of them.                                                        *)

OneDispatcher == \A a, b \in Dispatchers : a = b

MintRead(a) ==
    /\ minting[a].op = "mint" =>
          minting[a].on.of \in Mints /\ minted[minting[a].on.of].status = "none"
    /\ minting[a].op = "reverse" =>
          minting[a].rows \subseteq {m \in Mints : minted[m].status = "minted"}

MintInv ==
    /\ minted = [m \in Mints |-> [status |-> minted[m].status, awarded |-> minted[m].awarded]]
    /\ earns \in [Mints -> Nat]
    /\ queue \subseteq MintEvents /\ asked \subseteq MintEvents
    /\ minting = [a \in Dispatchers |-> minting[a]]
    /\ \A a \in Dispatchers : MintRead(a)
    /\ ReversedOnce

\* A step that writes no row and reads none
LEMMA NoMintMoves ==
    ASSUME MintInv, UNCHANGED <<minted, earns, debits>>, queue' \subseteq MintEvents, asked' \subseteq MintEvents,
           minting' = [a \in Dispatchers |-> minting'[a]],
           \A a \in Dispatchers : minting'[a] = minting[a] \/ minting'[a].op = "idle"
    PROVE  MintInv'
BY DEF MintInv, MintRead, ReversedOnce

LEMMA ReferenceStep ==
    ASSUME MintInv, \/ \E m \in Mints : Earn(m)
                    \/ \E keys \in SUBSET RefundKeys, traced \in BOOLEAN : RefundGig(keys, traced)
                    \/ \E m \in ExtraMints : RefundExtra(m)
    PROVE  MintInv'
<1>1. ASSUME NEW m \in Mints, Earn(m) PROVE MintInv'
    BY <1>1, NoMintMoves DEF Earn, EnqueueMints, mintLedger, mintRows, MintInv, MintEvents
<1>2. ASSUME NEW keys \in SUBSET RefundKeys, NEW traced \in BOOLEAN, RefundGig(keys, traced) PROVE MintInv'
    BY <1>2, NoMintMoves DEF RefundGig, EnqueueReversals, mintLedger, mintRows, MintInv, MintEvents
<1>3. ASSUME NEW m \in ExtraMints, RefundExtra(m) PROVE MintInv'
    BY <1>3, NoMintMoves DEF RefundExtra, mintOutbox, mintLedger, mintRows, MintInv
<1> QED BY <1>1, <1>2, <1>3

LEMMA BeginMintStep ==
    ASSUME OneDispatcher, MintInv, NEW d \in Dispatchers, NEW e \in queue, BeginMint(d, e) \/ BeginReversal(d, e)
    PROVE  MintInv'
<1>1. UNCHANGED <<minted, earns, debits, queue, asked>>
    BY DEF BeginMint, BeginReversal, mintLedger, mintRows, mintOutbox
<1>2. PICK op, award, paid, taken :
          /\ minting' = [minting EXCEPT ![d] = [op |-> op, on |-> e, award |-> award, rows |-> taken, paid |-> paid]]
          /\ \/ op = "mint" /\ e.topic = "raww.mint" /\ minted[e.of] = NoMint
             \/ op = "reverse" /\ taken = StillMinted(GigMints)
    <2>1. CASE BeginMint(d, e)
        <3>1. PICK blocked \in BOOLEAN :
                  minting' = [minting EXCEPT ![d] =
                      [op |-> "mint", on |-> e, rows |-> {},
                       award |-> IF blocked THEN 0 ELSE UnderCap(Award),
                       paid |-> ledgerOpen /\ earns[e.of] = 0]]
            BY <2>1 DEF BeginMint
        <3>2. PICK award : award = IF blocked THEN 0 ELSE UnderCap(Award)
            OBVIOUS
        <3>3. PICK paid : paid = (ledgerOpen /\ earns[e.of] = 0)
            OBVIOUS
        <3>4. minting' = [minting EXCEPT ![d] = [op |-> "mint", on |-> e, award |-> award, rows |-> {}, paid |-> paid]]
            BY <3>1, <3>2, <3>3
        <3> QED BY <2>1, <3>4 DEF BeginMint
    <2>2. CASE BeginReversal(d, e)
        BY <2>2 DEF BeginReversal
    <2> QED BY <2>1, <2>2
<1>3. op = "mint" => e.of \in Mints /\ minted[e.of].status = "none"
    BY <1>2 DEF MintInv, MintEvents, NoMint
<1>4. op = "reverse" => taken \subseteq {m \in Mints : minted[m].status = "minted"}
    BY <1>2 DEF StillMinted, Mints
<1>5. \A a \in Dispatchers : MintRead(a)'
    BY <1>1, <1>2, <1>3, <1>4 DEF MintInv, MintRead, OneDispatcher
<1> QED BY <1>1, <1>2, <1>5 DEF MintInv, ReversedOnce

LEMMA CommitMintStep == ASSUME OneDispatcher, MintInv, NEW d \in Dispatchers, CommitMint(d) PROVE MintInv'
<1> DEFINE t == minting[d]
           m == t.on.of
           row == [status |-> IF t.award > 0 THEN "minted" ELSE "blocked", awarded |-> t.award]
<1>1. /\ m \in Mints /\ minted[m].status = "none"
      /\ minted' = [minted EXCEPT ![m] = row] /\ UNCHANGED <<debits, asked>>
      /\ queue' = queue \ {t.on} /\ minting' = [minting EXCEPT ![d] = NotMinting]
      /\ earns' = earns \/ (t.award > 0 /\ earns' = [earns EXCEPT ![m] = @ + 1])
    BY DEF CommitMint, MintInv, MintRead
<1>2. earns[m] = 0 /\ debits[m] = 0
    BY <1>1 DEF MintInv, ReversedOnce
<1>3. row.status \in {"minted", "blocked"} /\ (t.award > 0 => row.status = "minted")
      /\ row = [status |-> row.status, awarded |-> row.awarded]
    OBVIOUS
<1> HIDE DEF row, m, t
<1>4. minted' = [n \in Mints |-> [status |-> minted'[n].status, awarded |-> minted'[n].awarded]]
    BY <1>1, <1>3 DEF MintInv
<1>5. ReversedOnce'
    BY <1>1, <1>2, <1>3 DEF MintInv, ReversedOnce
<1>6. \A a \in Dispatchers : MintRead(a)'
    BY <1>1 DEF MintInv, MintRead, OneDispatcher, NotMinting
<1>7. earns' \in [Mints -> Nat]
    BY <1>1 DEF MintInv
<1>8. queue' \subseteq MintEvents /\ asked' \subseteq MintEvents /\ minting' = [a \in Dispatchers |-> minting'[a]]
    BY <1>1 DEF MintInv
<1> QED BY <1>4, <1>5, <1>6, <1>7, <1>8 DEF MintInv

LEMMA CommitReversalStep == ASSUME OneDispatcher, MintInv, NEW d \in Dispatchers, CommitReversal(d) PROVE MintInv'
<1> DEFINE t == minting[d]
<1>1. PICK S \in SUBSET t.rows :
          /\ debits' = [m \in Mints |-> IF m \in S THEN debits[m] + 1 ELSE debits[m]]
          /\ minted' = [m \in Mints |-> IF m \in S THEN [minted[m] EXCEPT !.status = "reversed"] ELSE minted[m]]
    BY DEF CommitReversal, Reverse
<1>2. /\ S \subseteq {m \in Mints : minted[m].status = "minted"} /\ UNCHANGED <<earns, asked>>
      /\ queue' = queue \ {t.on} /\ minting' = [minting EXCEPT ![d] = NotMinting]
    BY DEF CommitReversal, MintInv, MintRead
<1>3. ASSUME NEW m \in Mints
      PROVE  /\ minted'[m].status = IF m \in S THEN "reversed" ELSE minted[m].status
             /\ minted'[m] = [status |-> minted'[m].status, awarded |-> minted'[m].awarded]
    <2> DEFINE r == minted[m]
    <2>1. r = [status |-> r.status, awarded |-> r.awarded]
        BY DEF MintInv
    <2>2. minted'[m] = IF m \in S THEN [r EXCEPT !.status = "reversed"] ELSE r
        BY <1>1
    <2> HIDE DEF r
    <2>3. CASE m \in S
        <3>1. minted'[m] = [status |-> "reversed", awarded |-> r.awarded]
            BY <2>1, <2>2, <2>3
        <3> QED BY <2>3, <3>1
    <2> QED BY <2>1, <2>2, <2>3 DEF r
<1>4. ReversedOnce'
    <2> SUFFICES ASSUME NEW m \in Mints
                 PROVE  /\ debits'[m] = IF minted'[m].status = "reversed" THEN 1 ELSE 0
                        /\ earns'[m] <= IF minted'[m].status \in {"minted", "reversed"} THEN 1 ELSE 0
        BY DEF ReversedOnce
    <2>1. /\ debits[m] = IF minted[m].status = "reversed" THEN 1 ELSE 0
          /\ earns[m] <= IF minted[m].status \in {"minted", "reversed"} THEN 1 ELSE 0
        BY DEF MintInv, ReversedOnce
    <2>2. debits'[m] = IF m \in S THEN debits[m] + 1 ELSE debits[m]
        BY <1>1
    <2>3. m \in S => minted[m].status = "minted"
        BY <1>2
    <2>4. minted'[m].status = IF m \in S THEN "reversed" ELSE minted[m].status
        BY <1>3
    <2>5. earns' = earns
        BY <1>2
    <2>6. CASE m \in S
        BY <2>1, <2>2, <2>3, <2>4, <2>5, <2>6
    <2>7. CASE m \notin S
        BY <2>1, <2>2, <2>4, <2>5, <2>7
    <2> QED BY <2>6, <2>7
<1>5. \A a \in Dispatchers : MintRead(a)'
    BY <1>2 DEF MintInv, MintRead, OneDispatcher, NotMinting
<1>6. minted' = [n \in Mints |-> [status |-> minted'[n].status, awarded |-> minted'[n].awarded]]
    BY <1>1, <1>3
<1> QED BY <1>2, <1>4, <1>5, <1>6 DEF MintInv

LEMMA MintingStep == OneDispatcher /\ MintInv /\ [MintingNext]_mintingVars => MintInv'
<1> SUFFICES ASSUME OneDispatcher, MintInv, [MintingNext]_mintingVars PROVE MintInv'
    OBVIOUS
<1>1. CASE UNCHANGED <<minted, earns, debits, queue, asked, minting>>
    BY <1>1, NoMintMoves DEF MintInv
<1>2. ASSUME NEW d \in Dispatchers, NEW e \in queue, SkipMint(d, e) PROVE MintInv'
    BY <1>2, NoMintMoves DEF SkipMint, mintLedger, mintRows, MintInv
<1>3. ASSUME NEW a \in Dispatchers, CrashMinting(a) PROVE MintInv'
    BY <1>3, NoMintMoves DEF CrashMinting, NotMinting, mintLedger, mintRows, mintOutbox, MintInv
<1>4. ASSUME NEW n \in Clawbacks, Clawback(n) PROVE MintInv'
    BY <1>1, <1>4 DEF Clawback, CreateRawwClawback, mintRows, mintOutbox
<1>5. CASE ToggleLedger \/ NewDay
    BY <1>1, <1>5 DEF ToggleLedger, NewDay, mintLedger, mintRows, mintOutbox
<1>6. CASE UNCHANGED mintingVars
    BY <1>1, <1>6 DEF mintingVars, mintLedger, mintRows, mintOutbox
<1> QED
    BY <1>2, <1>3, <1>4, <1>5, <1>6, ReferenceStep, BeginMintStep, CommitMintStep, CommitReversalStep
    DEF MintingNext, DispatchMint

\* With one dispatcher a mint is earned once and taken back once, exactly when
\* its row says so, for any mints, refunds, caps, freezes and crashes.
THEOREM MintsReverseOnce == ASSUME OneDispatcher PROVE MintingSpec => []ReversedOnce
<1>1. MintingInit => MintInv
    BY DEF MintingInit, MintInv, MintRead, NoMint, NotMinting, ReversedOnce
<1>2. MintInv => ReversedOnce
    BY DEF MintInv
<1> QED BY <1>1, <1>2, MintingStep, PTL DEF MintingSpec

----------------------------------------------------------------------------
(* The balance.  With one worker, what an event found reserved is still      *)
(* reserved when it is applied or released: requests only add rows.  Two      *)
(* workers that release one row give its points back twice.                  *)

OneWorker == \A v, w \in Workers : v = w

RowStatus == {"reserved", "applied", "released"}
EarnedRows == UNION {{r} \X (1..earned[r]) : r \in Reasons}
EventOps == {"succeeded", "payment_failed", "canceled"}

Reads(a) ==
    /\ txn[a].op = "issue" => txn[a].on \in Reasons
    /\ txn[a].op \in {"checkout", "gig_intent", "upsell", "spend"} => txn[a].on \in Contexts
    /\ txn[a].op \in EventOps =>
          /\ a \in Workers /\ txn[a].on.context \in Contexts
          /\ txn[a].found \subseteq Reserved(txn[a].on.context)
          /\ txn[a].found = {} \/ \E k : txn[a].found = {k}

Ledger ==
    /\ balance \in Int /\ adjusted \in Int
    /\ IsFiniteSet(EarnedRows) /\ IsFiniteSet(Held)
    /\ PointsConserved

BalanceInv ==
    /\ scope \subseteq Contexts
    /\ \A e \in inbox : e.context \in Contexts /\ e.type \in EventOps
    /\ earned \in [Reasons -> Nat] /\ rows \in [Contexts -> Seq(RowStatus)]
    /\ txn = [a \in Actors |-> txn[a]]
    /\ \A a \in Actors : Reads(a)
    /\ Ledger

\* The ledger depends on these alone.
LEMMA LedgerStays == ASSUME Ledger, UNCHANGED <<balance, earned, adjusted, rows>> PROVE Ledger'
BY DEF Ledger, EarnedRows, Held, Live, PointsConserved, EarnedPoints

\* A reservation adds a row that holds points.
LEMMA HeldGrows ==
    ASSUME rows \in [Contexts -> Seq(RowStatus)], NEW c \in Contexts,
           rows' = [rows EXCEPT ![c] = Append(@, "reserved")]
    PROVE  /\ rows' \in [Contexts -> Seq(RowStatus)]
           /\ <<c, Len(rows[c]) + 1>> \notin Held /\ Held' = Held \cup {<<c, Len(rows[c]) + 1>>}
           /\ \A d \in Contexts : Reserved(d) \subseteq Reserved(d)'
<1> DEFINE n == Len(rows[c])
           s == rows[c]
<1>1. s \in Seq(RowStatus) /\ n \in Nat /\ DOMAIN s = 1..n /\ "reserved" \in RowStatus
    BY DEF RowStatus
<1>2. Append(s, "reserved") \in Seq(RowStatus)
    BY <1>1
<1>3. rows'[c] = Append(s, "reserved") /\ \A d \in Contexts \ {c} : rows'[d] = rows[d]
    OBVIOUS
<1>4. DOMAIN rows'[c] = 1..(n + 1) /\ rows'[c][n + 1] = "reserved" /\ \A k \in 1..n : rows'[c][k] = s[k]
    BY <1>1, <1>3
<1>5. Live(c)' = Live(c) \cup {n + 1} /\ n + 1 \notin Live(c)
    <2>1. Live(c)' = {k \in 1..(n + 1) : rows'[c][k] \in {"reserved", "applied"}}
        BY <1>4 DEF Live
    <2>2. Live(c) = {k \in 1..n : s[k] \in {"reserved", "applied"}}
        BY <1>1 DEF Live
    <2> HIDE DEF s, n
    <2>3. ASSUME NEW m \in Nat PROVE 1..(m + 1) = (1..m) \cup {m + 1} /\ m + 1 \notin 1..m
        OBVIOUS
    <2> QED BY <1>1, <1>4, <2>1, <2>2, <2>3
<1>6. \A d \in Contexts \ {c} : Live(d)' = Live(d) /\ Reserved(d)' = Reserved(d)
    BY <1>3 DEF Live, Reserved
<1>7. Reserved(c) \subseteq Reserved(c)'
    BY <1>1, <1>4 DEF Reserved
<1> HIDE DEF n, s
<1>8. <<c, n + 1>> \notin Held
    BY <1>5 DEF Held
<1>9. Held' = Held \cup {<<c, n + 1>>}
    BY <1>5, <1>6 DEF Held
<1> QED BY <1>2, <1>3, <1>6, <1>7, <1>8, <1>9 DEF n, s

LEMMA ReserveStep ==
    ASSUME BalanceInv, NEW t, NEW c \in Contexts, Reserve(t, c), UNCHANGED <<earned, adjusted>>
    PROVE  /\ Ledger' /\ rows' \in [Contexts -> Seq(RowStatus)]
           /\ \A d \in Contexts : Reserved(d) \subseteq Reserved(d)'
<1>1. CASE UNCHANGED <<balance, rows>>
    BY <1>1, LedgerStays DEF BalanceInv, Reserved
<1>2. CASE Enough /\ balance' = balance - Cost /\ rows' = [rows EXCEPT ![c] = Append(@, "reserved")]
    <2>1. /\ rows' \in [Contexts -> Seq(RowStatus)]
          /\ <<c, Len(rows[c]) + 1>> \notin Held /\ Held' = Held \cup {<<c, Len(rows[c]) + 1>>}
          /\ \A d \in Contexts : Reserved(d) \subseteq Reserved(d)'
        BY <1>2, HeldGrows DEF BalanceInv
    <2>2. IsFiniteSet(Held') /\ Cardinality(Held') = Cardinality(Held) + 1 /\ Cardinality(Held) \in Nat
        BY <2>1, FS_AddElement, FS_CardinalityType DEF BalanceInv, Ledger
    <2>3. EarnedRows' = EarnedRows /\ EarnedPoints' = EarnedPoints /\ Cardinality(EarnedRows) \in Nat
        BY FS_CardinalityType DEF EarnedRows, EarnedPoints, BalanceInv, Ledger
    <2>4. EarnedPoints \in Int
        BY <2>3, RewardsAssumption DEF EarnedPoints, EarnedRows
    <2>5. PointsConserved'
        <3>1. Cost * (Cardinality(Held) + 1) = Cost * Cardinality(Held) + Cost
            BY <2>2, RewardsAssumption
        <3> DEFINE n == Cost * Cardinality(Held)
        <3>2. n \in Int /\ Cost \in Int
            BY <2>2, RewardsAssumption
        <3>3. balance = EarnedPoints + adjusted - n /\ balance \in Int /\ adjusted \in Int
            BY DEF BalanceInv, Ledger, PointsConserved
        <3>4. Cost * Cardinality(Held') = n + Cost
            BY <2>2, <3>1
        <3> HIDE DEF n
        <3>5. balance' >= 0 /\ balance' = EarnedPoints + adjusted - (n + Cost)
            BY <1>2, <2>4, <3>2, <3>3 DEF Enough
        <3>6. balance' = EarnedPoints' + adjusted' - Cost * Cardinality(Held')
            BY <2>3, <3>4, <3>5
        <3> QED BY <3>5, <3>6 DEF PointsConserved
    <2> QED BY <1>2, <2>1, <2>2, <2>3, <2>5, RewardsAssumption DEF BalanceInv, Ledger
<1> QED BY <1>1, <1>2 DEF Reserve

\* A step that takes no reservation back: what was read stays true.
LEMMA TxnStep ==
    ASSUME BalanceInv, UNCHANGED scope, \A e \in inbox' : e \in inbox \/ (e.context \in Contexts /\ e.type \in EventOps),
           earned' \in [Reasons -> Nat], rows' \in [Contexts -> Seq(RowStatus)], Ledger',
           \A d \in Contexts : Reserved(d) \subseteq Reserved(d)',
           txn' = [a \in Actors |-> txn'[a]], \A a \in Actors : txn'[a] = txn[a] \/ Reads(a)'
    PROVE  BalanceInv'
<1>1. ASSUME NEW a \in Actors, txn'[a] = txn[a] PROVE Reads(a)'
    BY <1>1 DEF BalanceInv, Reads
<1> QED BY <1>1 DEF BalanceInv

\* A step that leaves the ledger alone
LEMMA QuietStep ==
    ASSUME BalanceInv, UNCHANGED <<scope, points>>, \A e \in inbox' : e \in inbox \/ (e.context \in Contexts /\ e.type \in EventOps),
           txn' = [a \in Actors |-> txn'[a]], \A a \in Actors : txn'[a] = txn[a] \/ Reads(a)'
    PROVE  BalanceInv'
BY LedgerStays, TxnStep DEF points, BalanceInv, Reserved

LEMMA IdleReads == Idle.op \notin EventOps \cup {"issue", "checkout", "gig_intent", "upsell", "spend"}
BY DEF Idle, EventOps

\* One actor begins, with what it read, or ends.
LEMMA OneActor ==
    ASSUME BalanceInv, NEW a \in Actors, NEW row, txn' = [txn EXCEPT ![a] = row],
           row.op = "issue" => row.on \in Reasons,
           row.op \in {"checkout", "gig_intent", "upsell", "spend"} => row.on \in Contexts,
           row.op \notin EventOps
    PROVE  txn' = [b \in Actors |-> txn'[b]] /\ \A b \in Actors : txn'[b] = txn[b] \/ Reads(b)'
<1>1. ASSUME NEW b \in Actors PROVE txn'[b] = txn[b] \/ Reads(b)'
    <2>1. CASE b = a
        BY <2>1 DEF BalanceInv, Reads
    <2>2. CASE b # a
        BY <2>2 DEF BalanceInv
    <2> QED BY <2>1, <2>2
<1> QED BY <1>1 DEF BalanceInv

LEMMA BeginRequestStep ==
    ASSUME BalanceInv, NEW a \in Requests, UNCHANGED scope,
           \/ \E spends \in BOOLEAN :
                  \/ \E o \in Orders \cap scope : BeginCheckout(a, o, spends)
                  \/ \E g \in Gigs \cap scope : BeginGigIntent(a, g, spends)
                  \/ \E u \in Upsells \cap scope : BeginUpsell(a, u, spends)
           \/ \E c \in scope : BeginSpend(a, c)
           \/ \E r \in Reasons : BeginIssue(a, r)
    PROVE  BalanceInv'
<1>0. a \in Actors
    BY DEF Actors
<1>1. ASSUME NEW op \in {"checkout", "gig_intent", "upsell", "spend"}, NEW c \in scope, NEW spends, NEW found,
             NEW known,
             txn' = [txn EXCEPT ![a] = [op |-> op, on |-> c, points |-> spends, found |-> found, seen |-> known]],
             UNCHANGED <<points, stripe>>
      PROVE  BalanceInv'
    <2> DEFINE row == [op |-> op, on |-> c, points |-> spends, found |-> found, seen |-> known]
    <2>1. row.op = op /\ row.on = c /\ c \in Contexts /\ txn' = [txn EXCEPT ![a] = row]
        BY <1>1 DEF BalanceInv
    <2>2. op \notin EventOps /\ op # "issue"
        BY DEF EventOps
    <2> HIDE DEF row
    <2>3. txn' = [b \in Actors |-> txn'[b]] /\ \A b \in Actors : txn'[b] = txn[b] \/ Reads(b)'
        BY <1>0, <2>1, <2>2, OneActor
    <2> QED BY <1>1, <2>3, QuietStep DEF stripe
<1>2. ASSUME NEW op \in {"checkout", "upsell", "spend"}, NEW c \in scope, NEW spends, Read(a, op, c, spends)
      PROVE  BalanceInv'
    BY <1>1, <1>2 DEF Read, Start
<1>3. ASSUME NEW g \in Gigs \cap scope, NEW spends, BeginGigIntent(a, g, spends) PROVE BalanceInv'
    BY <1>1, <1>3 DEF BeginGigIntent, Start
<1>4. ASSUME NEW r \in Reasons, BeginIssue(a, r) PROVE BalanceInv'
    <2> DEFINE row == [Idle EXCEPT !.op = "issue", !.on = r]
    <2>1. row.op = "issue" /\ row.on = r /\ txn' = [txn EXCEPT ![a] = row] /\ UNCHANGED <<points, stripe>>
        BY <1>4 DEF BeginIssue, Start, Idle
    <2>2. row.op \notin EventOps
        BY <2>1 DEF EventOps
    <2> HIDE DEF row
    <2>3. txn' = [b \in Actors |-> txn'[b]] /\ \A b \in Actors : txn'[b] = txn[b] \/ Reads(b)'
        BY <1>0, <2>1, <2>2, OneActor
    <2> QED BY <2>1, <2>3, QuietStep DEF stripe
<1> QED BY <1>2, <1>3, <1>4 DEF BeginCheckout, BeginUpsell, BeginSpend

LEMMA EndStep ==
    ASSUME BalanceInv, NEW a \in Actors, End(a)
    PROVE  txn' = [b \in Actors |-> txn'[b]] /\ \A b \in Actors : txn'[b] = txn[b] \/ Reads(b)'
<1>1. txn' = [txn EXCEPT ![a] = Idle]
    BY DEF End
<1>2. Idle.op \notin EventOps /\ Idle.op # "issue" /\ Idle.op \notin {"checkout", "gig_intent", "upsell", "spend"}
    BY IdleReads
<1> QED BY <1>1, <1>2, OneActor

LEMMA ReservingStep ==
    ASSUME BalanceInv, NEW a \in Requests, UNCHANGED scope, Checkout(a) \/ CommitIntent(a) \/ Spend(a)
    PROVE  BalanceInv'
<1>1. a \in Actors
    BY DEF Actors
<1>2. /\ txn[a].on \in Contexts /\ Reserve(txn[a], txn[a].on) /\ End(a)
      /\ UNCHANGED <<earned, adjusted, inbox>>
    BY <1>1 DEF Checkout, CommitIntent, Spend, BalanceInv, Reads, stripe
<1>3. /\ Ledger' /\ rows' \in [Contexts -> Seq(RowStatus)]
      /\ \A d \in Contexts : Reserved(d) \subseteq Reserved(d)'
    BY <1>2, ReserveStep
<1>4. txn' = [b \in Actors |-> txn'[b]] /\ \A b \in Actors : txn'[b] = txn[b] \/ Reads(b)'
    BY <1>1, <1>2, EndStep
<1>5. earned' \in [Reasons -> Nat]
    BY <1>2 DEF BalanceInv
<1> QED BY <1>2, <1>3, <1>4, <1>5, TxnStep

LEMMA AbortStep ==
    ASSUME BalanceInv, NEW a \in Actors, UNCHANGED scope, Abort(a) \/ (a \in Workers /\ CrashWorker(a))
    PROVE  BalanceInv'
<1>1. End(a) /\ UNCHANGED <<points, inbox>>
    BY DEF Abort, CrashWorker, stripe
<1>2. txn' = [b \in Actors |-> txn'[b]] /\ \A b \in Actors : txn'[b] = txn[b] \/ Reads(b)'
    BY <1>1, EndStep
<1> QED BY <1>1, <1>2, QuietStep

\* An earned reward is one more row of the ledger.
LEMMA IssueStep ==
    ASSUME BalanceInv, NEW a \in Requests, UNCHANGED scope, Issue(a)
    PROVE  BalanceInv'
<1> DEFINE r == txn[a].on
           n == earned[r]
<1>1. a \in Actors /\ r \in Reasons /\ n \in Nat
    BY DEF Actors, Issue, BalanceInv, Reads
<1>2. /\ balance' = balance + Reward /\ earned' = [earned EXCEPT ![r] = n + 1] /\ End(a)
      /\ UNCHANGED <<adjusted, rows, inbox>>
    BY DEF Issue, stripe
<1>3. earned' \in [Reasons -> Nat] /\ earned'[r] = n + 1 /\ \A s \in Reasons \ {r} : earned'[s] = earned[s]
    BY <1>1, <1>2 DEF BalanceInv
<1>4. 1..(n + 1) = (1..n) \cup {n + 1} /\ n + 1 \notin 1..n
    <2> HIDE DEF n
    <2> QED BY <1>1
<1> HIDE DEF r
<1>5. EarnedRows' = EarnedRows \cup {<<r, n + 1>>} /\ <<r, n + 1>> \notin EarnedRows
    <2> DEFINE mine == {r} \X (1..n)
               others == UNION {{s} \X (1..earned[s]) : s \in Reasons \ {r}}
    <2>1. EarnedRows = mine \cup others
        BY <1>1 DEF EarnedRows
    <2>2. EarnedRows' = ({r} \X (1..(n + 1))) \cup UNION {{s} \X (1..earned'[s]) : s \in Reasons \ {r}}
        BY <1>1, <1>3 DEF EarnedRows
    <2>3. UNION {{s} \X (1..earned'[s]) : s \in Reasons \ {r}} = others
        BY <1>3
    <2>4. <<r, n + 1>> \notin others
        OBVIOUS
    <2> HIDE DEF others
    <2>5. <<r, n + 1>> \notin mine /\ {r} \X (1..(n + 1)) = mine \cup {<<r, n + 1>>}
        <3> HIDE DEF n
        <3> QED BY <1>4
    <2> QED BY <2>1, <2>2, <2>3, <2>4, <2>5
<1>6. IsFiniteSet(EarnedRows') /\ Cardinality(EarnedRows') = Cardinality(EarnedRows) + 1 /\ Cardinality(EarnedRows) \in Nat
    BY <1>5, FS_AddElement, FS_CardinalityType DEF BalanceInv, Ledger
<1>7. Held' = Held /\ Cardinality(Held) \in Nat
    BY <1>2, FS_CardinalityType DEF Held, Live, BalanceInv, Ledger
<1>8. PointsConserved'
    <2> DEFINE m == Cardinality(EarnedRows)
               h == Cost * Cardinality(Held)
    <2>1. EarnedPoints = Reward * m /\ EarnedPoints' = Reward * Cardinality(EarnedRows')
        BY DEF EarnedPoints, EarnedRows
    <2>2. m \in Nat /\ h \in Int /\ Reward \in Nat /\ Cardinality(EarnedRows') = m + 1
        BY <1>6, <1>7, RewardsAssumption
    <2>3. balance \in Int /\ balance >= 0 /\ adjusted \in Int /\ balance = EarnedPoints + adjusted - h
        BY DEF BalanceInv, Ledger, PointsConserved
    <2>4. Cost * Cardinality(Held)' = h
        BY <1>7
    <2> HIDE DEF m, h
    <2>5. EarnedPoints' = Reward * m + Reward
        BY <2>1, <2>2
    <2>6. Reward * m \in Int
        BY <2>2
    <2>7. balance' = EarnedPoints' + adjusted' - h /\ balance' >= 0
        BY <1>2, <2>1, <2>2, <2>3, <2>5, <2>6
    <2> QED BY <2>4, <2>7 DEF PointsConserved
<1>9. Ledger'
    BY <1>2, <1>6, <1>7, <1>8, RewardsAssumption DEF BalanceInv, Ledger
<1>10. txn' = [b \in Actors |-> txn'[b]] /\ \A b \in Actors : txn'[b] = txn[b] \/ Reads(b)'
    BY <1>1, <1>2, EndStep
<1> QED BY <1>2, <1>3, <1>9, <1>10, TxnStep DEF BalanceInv, Reserved

LEMMA AdjustStep ==
    ASSUME BalanceInv, NEW n \in Adjustments, UNCHANGED scope, Adjust(n)
    PROVE  BalanceInv'
<1>1. /\ n \in Int /\ balance + n >= 0 /\ balance' = balance + n /\ adjusted' = adjusted + n
      /\ UNCHANGED <<earned, rows, txn, inbox>>
    BY RewardsAssumption DEF Adjust, stripe
<1>2. EarnedRows' = EarnedRows /\ Held' = Held /\ EarnedPoints' = EarnedPoints
    BY <1>1 DEF EarnedRows, Held, Live, EarnedPoints
<1>3. EarnedPoints \in Int /\ Cost * Cardinality(Held) \in Int
    BY FS_CardinalityType, RewardsAssumption DEF BalanceInv, Ledger, EarnedPoints, EarnedRows
<1>4. PointsConserved'
    <2> DEFINE h == Cost * Cardinality(Held)
    <2>1. h \in Int /\ balance \in Int /\ adjusted \in Int /\ balance = EarnedPoints + adjusted - h
        BY <1>3 DEF BalanceInv, Ledger, PointsConserved
    <2>2. Cost * Cardinality(Held)' = h
        BY <1>2
    <2> HIDE DEF h
    <2> QED BY <1>1, <1>2, <1>3, <2>1, <2>2 DEF PointsConserved
<1>5. Ledger'
    BY <1>1, <1>2, <1>4 DEF BalanceInv, Ledger
<1> QED BY <1>1, <1>5, TxnStep DEF BalanceInv, Reserved

LEMMA IntentStep ==
    ASSUME BalanceInv, NEW c \in Contexts, UNCHANGED scope, Pay(c) \/ CancelIntent(c) \/ Decline(c)
    PROVE  BalanceInv'
<1>1. ASSUME NEW state, NEW type \in EventOps, NEW number,
             inbox' = inbox \cup {[type |-> type, context |-> c, number |-> number]},
             UNCHANGED <<points, txn>>
      PROVE  BalanceInv'
    <2> DEFINE e == [type |-> type, context |-> c, number |-> number]
    <2>1. e.context \in Contexts /\ e.type \in EventOps /\ inbox' = inbox \cup {e}
        BY <1>1
    <2> HIDE DEF e
    <2> QED BY <1>1, <2>1, QuietStep DEF BalanceInv
<1> QED BY <1>1 DEF Pay, CancelIntent, Decline, Settle, EventOps

LEMMA ReservedFinite ==
    ASSUME BalanceInv, NEW c \in Contexts, ~Ambiguous(c)
    PROVE  Reserved(c) = {} \/ \E k : Reserved(c) = {k}
<1>1. rows[c] \in Seq(RowStatus) /\ Len(rows[c]) \in Nat /\ DOMAIN rows[c] = 1..Len(rows[c])
    BY DEF BalanceInv
<1>2. IsFiniteSet(Reserved(c))
    <2> DEFINE n == Len(rows[c])
    <2>1. Reserved(c) \subseteq 1..n
        BY <1>1 DEF Reserved
    <2>2. IsFiniteSet(1..n)
        BY <1>1, FS_Interval
    <2> QED BY <2>1, <2>2, FS_Subset
<1>3. Cardinality(Reserved(c)) \in Nat /\ Cardinality(Reserved(c)) <= 1
    BY <1>2, FS_CardinalityType DEF Ambiguous
<1>4. CASE Cardinality(Reserved(c)) = 0
    BY <1>2, <1>4, FS_EmptySet
<1>5. CASE Cardinality(Reserved(c)) = 1
    BY <1>2, <1>5, FS_Singleton
<1> QED BY <1>3, <1>4, <1>5

LEMMA BeginEventStep ==
    ASSUME BalanceInv, NEW w \in Workers, NEW e \in inbox, UNCHANGED scope, BeginEvent(w, e)
    PROVE  BalanceInv'
<1> DEFINE c == e.context
<1>1. w \in Actors /\ c \in Contexts /\ e.type \in EventOps /\ ~Ambiguous(c) /\ UNCHANGED <<points, inbox>>
    BY DEF Actors, BeginEvent, BalanceInv, stripe
<1>2. PICK down, known : txn' = [txn EXCEPT ![w] = [op |-> e.type, on |-> e, points |-> down,
                                                   found |-> Reserved(c), seen |-> known]]
    BY DEF BeginEvent, Start
<1> DEFINE row == [op |-> e.type, on |-> e, points |-> down, found |-> Reserved(c), seen |-> known]
<1>3. row.op = e.type /\ row.on = e /\ row.found = Reserved(c) /\ txn' = [txn EXCEPT ![w] = row]
    BY <1>2
<1> HIDE DEF row
<1>4. txn'[w] = row /\ txn' = [b \in Actors |-> txn'[b]] /\ \A b \in Actors : b # w => txn'[b] = txn[b]
    BY <1>1, <1>3 DEF BalanceInv
<1>5. e.type \notin {"issue", "checkout", "gig_intent", "upsell", "spend"}
    BY <1>1 DEF EventOps
<1>6. Reserved(c) = {} \/ \E k : Reserved(c) = {k}
    BY <1>1, ReservedFinite
<1>7. Reserved(c)' = Reserved(c)
    BY <1>1 DEF points, Reserved
<1>8. Reads(w)'
    <2> DEFINE x == txn'[w]
    <2>1. x.op = e.type /\ x.on = e /\ x.found = Reserved(c)
        BY <1>3, <1>4
    <2> HIDE DEF x
    <2>2. /\ x.op \notin {"issue", "checkout", "gig_intent", "upsell", "spend"}
          /\ x.on.context = c /\ c \in Contexts /\ x.found = Reserved(c)'
          /\ x.found = {} \/ \E k : x.found = {k}
        BY <1>1, <1>5, <1>6, <1>7, <2>1
    <2>3. (txn[w].on.context)' = c /\ Reserved(txn[w].on.context)' = Reserved(c)'
        BY <2>2 DEF x, Reserved
    <2> QED BY <2>2, <2>3 DEF Reads, x
<1> QED BY <1>1, <1>4, <1>8, QuietStep

\* Marking rows of one context leaves the others.
LEMMA MarkedRows ==
    ASSUME rows \in [Contexts -> Seq(RowStatus)], NEW c \in Contexts, NEW found, NEW status \in RowStatus,
           Mark(c, found, status)
    PROVE  /\ rows' \in [Contexts -> Seq(RowStatus)]
           /\ \A d \in Contexts \ {c} : Live(d)' = Live(d) /\ Reserved(d)' = Reserved(d)
           /\ DOMAIN rows'[c] = DOMAIN rows[c]
           /\ \A k \in DOMAIN rows[c] : rows'[c][k] = IF k \in found THEN status ELSE rows[c][k]
<1> DEFINE s == [k \in DOMAIN rows[c] |-> IF k \in found THEN status ELSE rows[c][k]]
           n == Len(rows[c])
<1>1. n \in Nat /\ DOMAIN rows[c] = 1..n /\ rows[c] \in Seq(RowStatus)
    OBVIOUS
<1>2. rows' = [rows EXCEPT ![c] = s]
    BY DEF Mark
<1>3. \A k \in 1..n : rows[c][k] \in RowStatus
    BY <1>1
<1>4. s \in [1..n -> RowStatus]
    BY <1>1, <1>3
<1>5. s \in Seq(RowStatus) /\ DOMAIN s = DOMAIN rows[c]
    <2> HIDE DEF n
    <2> QED BY <1>1, <1>4
<1>6. rows'[c] = s
    BY <1>2
<1>7. rows' \in [Contexts -> Seq(RowStatus)] /\ \A d \in Contexts \ {c} : rows'[d] = rows[d]
    <2> HIDE DEF s
    <2> QED BY <1>2, <1>5
<1> QED BY <1>5, <1>6, <1>7 DEF Live, Reserved

\* The rows an event found are those of its worker; no other worker has any.
LEMMA OnlyWorkerReads ==
    ASSUME BalanceInv, OneWorker, NEW w \in Workers, End(w)
    PROVE  /\ txn' = [b \in Actors |-> txn'[b]] /\ Reads(w)'
           /\ \A b \in Actors \ {w} : txn'[b] = txn[b] /\ txn[b].op \notin EventOps
<1>1. w \in Actors /\ txn' = [txn EXCEPT ![w] = Idle]
    BY DEF Actors, End
<1>2. \A b \in Actors \ {w} : b \notin Workers
    BY DEF OneWorker
<1>3. txn'[w] = Idle /\ \A b \in Actors \ {w} : txn'[b] = txn[b] /\ txn[b].op \notin EventOps
    BY <1>1, <1>2 DEF BalanceInv, Reads
<1>4. Reads(w)'
    BY <1>3, IdleReads DEF Reads
<1> QED BY <1>1, <1>3, <1>4 DEF BalanceInv

LEMMA EndedStep ==
    ASSUME BalanceInv, OneWorker, UNCHANGED <<scope, earned>>, NEW w \in Workers, End(w), inbox' \subseteq inbox,
           rows' \in [Contexts -> Seq(RowStatus)], Ledger'
    PROVE  BalanceInv'
<1>1. /\ txn' = [b \in Actors |-> txn'[b]] /\ Reads(w)'
      /\ \A b \in Actors \ {w} : txn'[b] = txn[b] /\ txn[b].op \notin EventOps
    BY OnlyWorkerReads
<1>2. ASSUME NEW b \in Actors \ {w} PROVE Reads(b)'
    BY <1>1 DEF BalanceInv, Reads
<1> QED BY <1>1, <1>2 DEF BalanceInv

LEMMA ApplyStep ==
    ASSUME BalanceInv, OneWorker, UNCHANGED scope, NEW w \in Workers, Apply(w)
    PROVE  BalanceInv'
<1>0. PICK c : c = txn[w].on.context
    OBVIOUS
<1>1. c \in Contexts /\ txn[w].found \subseteq Reserved(c)
    BY <1>0 DEF Apply, BalanceInv, Reads, EventOps, Actors
<1>2. PICK found \in SUBSET Reserved(c) : Mark(c, found, "applied")
    BY <1>0, <1>1 DEF Apply
<1>3. End(w) /\ inbox' \subseteq inbox /\ UNCHANGED <<balance, earned, adjusted>>
    BY DEF Apply
<1>4. "applied" \in RowStatus
    BY DEF RowStatus
<1>5. /\ rows' \in [Contexts -> Seq(RowStatus)]
      /\ \A d \in Contexts \ {c} : Live(d)' = Live(d)
      /\ DOMAIN rows'[c] = DOMAIN rows[c]
      /\ \A k \in DOMAIN rows[c] : rows'[c][k] = IF k \in found THEN "applied" ELSE rows[c][k]
    BY <1>1, <1>2, <1>4, MarkedRows DEF BalanceInv
<1>6. Live(c)' = Live(c)
    BY <1>2, <1>5 DEF Live, Reserved
<1>7. Held' = Held
    BY <1>5, <1>6 DEF Held
<1>8. Ledger'
    BY <1>3, <1>7 DEF BalanceInv, Ledger, EarnedRows, EarnedPoints, PointsConserved
<1> QED BY <1>3, <1>5, <1>8, EndedStep

\* A release gives back the points of a row that held them.
LEMMA ReleaseStep ==
    ASSUME BalanceInv, OneWorker, UNCHANGED scope, NEW w \in Workers, Release(w)
    PROVE  BalanceInv'
<1>0. PICK c, found : c = txn[w].on.context /\ found = txn[w].found
    OBVIOUS
<1>1. c \in Contexts /\ found \subseteq Reserved(c) /\ (found = {} \/ \E k : found = {k})
    BY <1>0 DEF Release, BalanceInv, Reads, EventOps, Actors
<1>2. Mark(c, found, "released") /\ balance' = balance + Cost * Cardinality(found)
    BY <1>0 DEF Release
<1>3. End(w) /\ inbox' \subseteq inbox /\ UNCHANGED <<earned, adjusted>>
    BY DEF Release
<1>4. "released" \in RowStatus
    BY DEF RowStatus
<1>5. /\ rows' \in [Contexts -> Seq(RowStatus)]
      /\ \A d \in Contexts \ {c} : Live(d)' = Live(d)
      /\ DOMAIN rows'[c] = DOMAIN rows[c]
      /\ \A k \in DOMAIN rows[c] : rows'[c][k] = IF k \in found THEN "released" ELSE rows[c][k]
    BY <1>1, <1>2, <1>4, MarkedRows DEF BalanceInv
<1>6. Live(c)' = Live(c) \ found /\ found \subseteq Live(c)
    BY <1>1, <1>5 DEF Live, Reserved
<1>7. Held' = Held \ ({c} \X found) /\ {c} \X found \subseteq Held
    BY <1>1, <1>5, <1>6 DEF Held
<1>8. EarnedRows' = EarnedRows /\ EarnedPoints' = EarnedPoints /\ EarnedPoints \in Int
    BY <1>3, FS_CardinalityType, RewardsAssumption DEF EarnedRows, EarnedPoints, BalanceInv, Ledger
<1>9. CASE found = {}
    <2>1. Held' = Held /\ balance' = balance
        <3>1. Cardinality(found) = 0 /\ balance \in Int /\ Cost \in Int
            BY <1>9, FS_EmptySet, RewardsAssumption DEF BalanceInv, Ledger
        <3>2. balance' = balance
            BY <1>2, <3>1
        <3> QED BY <1>7, <1>9, <3>2
    <2>2. Ledger'
        BY <1>3, <1>8, <2>1 DEF BalanceInv, Ledger, PointsConserved
    <2> QED BY <1>3, <1>5, <2>2, EndedStep
<1>10. ASSUME NEW k, found = {k} PROVE BalanceInv'
    <2>1. {c} \X found = {<<c, k>>}
        BY <1>10
    <2>2. Held' = Held \ {<<c, k>>} /\ <<c, k>> \in Held
        BY <1>7, <2>1
    <2>3. IsFiniteSet(Held') /\ Cardinality(Held') = Cardinality(Held) - 1 /\ Cardinality(Held) \in Nat
        BY <2>2, FS_RemoveElement, FS_CardinalityType DEF BalanceInv, Ledger
    <2>4. balance' = balance + Cost
        <3>1. Cardinality({k}) = 1
            BY FS_Singleton
        <3>2. balance' = balance + Cost * 1 /\ Cost \in Int
            BY <1>2, <1>10, <3>1, RewardsAssumption
        <3> QED BY <3>2
    <2>5. PointsConserved'
        <3>1. Cost * (Cardinality(Held) - 1) = Cost * Cardinality(Held) - Cost
            BY <2>3, RewardsAssumption
        <3> DEFINE h == Cost * Cardinality(Held)
        <3>2. h \in Int /\ Cost \in Nat /\ balance \in Int /\ adjusted \in Int
              /\ balance >= 0 /\ balance = EarnedPoints + adjusted - h
            BY <2>3, RewardsAssumption DEF BalanceInv, Ledger, PointsConserved
        <3>3. Cost * Cardinality(Held') = h - Cost
            BY <2>3, <3>1
        <3> HIDE DEF h
        <3>4. balance' >= 0 /\ balance' = EarnedPoints' + adjusted' - (h - Cost)
            BY <1>3, <1>8, <2>4, <3>2
        <3> QED BY <3>3, <3>4 DEF PointsConserved
    <2>6. Ledger'
        BY <1>3, <1>8, <2>3, <2>4, <2>5, RewardsAssumption DEF BalanceInv, Ledger
    <2> QED BY <1>3, <1>5, <2>6, EndedStep
<1> QED BY <1>1, <1>9, <1>10

LEMMA OtherRewardsStep ==
    ASSUME BalanceInv, UNCHANGED scope,
           \/ \E e \in inbox : GiveUp(e)
           \/ \E o \in Orders : SubmitTask(o) \/ \E s \in AdminStatuses : AdminUpdate(o, s)
           \/ FillCart \/ EmptyCart \/ Freeze
    PROVE  BalanceInv'
<1>1. UNCHANGED points /\ txn' = txn /\ inbox' \subseteq inbox
    BY DEF GiveUp, SubmitTask, AdminUpdate, FillCart, EmptyCart, Freeze, stripe
<1> QED BY <1>1, QuietStep DEF BalanceInv

\* The balance inductive invariant
LEMMA BalanceInvHolds == ASSUME OneWorker PROVE RewardsSpec => []BalanceInv
<1>1. ASSUME RewardsInit PROVE BalanceInv
    <2>1. \A c \in Contexts : rows[c] = <<>>
        BY <1>1 DEF RewardsInit
    <2>2. \A r \in Reasons : 1..earned[r] = {}
        BY <1>1 DEF RewardsInit
    <2>3. EarnedRows = {}
        BY <2>2 DEF EarnedRows
    <2>4. Held = {}
        BY <2>1 DEF Held, Live
    <2>5. IsFiniteSet({}) /\ Cardinality({}) = 0
        BY FS_EmptySet
    <2>6. EarnedPoints = 0 /\ Cost * Cardinality(Held) = 0
        <3>1. Cardinality(EarnedRows) = 0 /\ Cardinality(Held) = 0
            BY <2>3, <2>4, <2>5
        <3>2. Reward * 0 = 0 /\ Cost * 0 = 0
            BY RewardsAssumption
        <3> QED BY <3>1, <3>2 DEF EarnedPoints, EarnedRows
    <2>7. Ledger
        BY <1>1, <2>3, <2>4, <2>5, <2>6 DEF Ledger, PointsConserved, RewardsInit
    <2>8. \A a \in Actors : Reads(a)
        BY <1>1, IdleReads DEF RewardsInit, Reads
    <2>9. rows \in [Contexts -> Seq(RowStatus)]
        BY <1>1, <2>1 DEF RewardsInit
    <2>10. scope \subseteq Contexts
        BY <1>1, RewardsAssumption DEF RewardsInit, Contexts
    <2> QED BY <1>1, <2>7, <2>8, <2>9, <2>10 DEF RewardsInit, BalanceInv
<1>2. ASSUME OneWorker, BalanceInv, [RewardsNext]_rewardsVars PROVE BalanceInv'
    <2>1. CASE UNCHANGED rewardsVars
        BY <1>2, <2>1, QuietStep DEF rewardsVars, points, stripe, BalanceInv
    <2>2. CASE UNCHANGED scope /\ \E a \in Requests : RequestStep(a)
        <3>1. ASSUME NEW a \in Requests, RequestStep(a) PROVE BalanceInv'
            <4>1. a \in Actors /\ UNCHANGED scope
                BY <2>2 DEF Actors
            <4>2. CASE Checkout(a) \/ CommitIntent(a) \/ Spend(a)
                BY <1>2, <4>1, <4>2, ReservingStep
            <4>3. CASE Issue(a)
                BY <1>2, <4>1, <4>3, IssueStep
            <4>4. CASE Abort(a)
                BY <1>2, <4>1, <4>4, AbortStep
            <4> HIDE DEF OneWorker
            <4>5. CASE \/ \E spends \in BOOLEAN :
                              \/ \E o \in Orders \cap scope : BeginCheckout(a, o, spends)
                              \/ \E g \in Gigs \cap scope : BeginGigIntent(a, g, spends)
                              \/ \E u \in Upsells \cap scope : BeginUpsell(a, u, spends)
                       \/ \E c \in scope : BeginSpend(a, c)
                       \/ \E r \in Reasons : BeginIssue(a, r)
                BY <1>2, <4>1, <4>5, BeginRequestStep
            <4> QED BY <3>1, <4>2, <4>3, <4>4, <4>5 DEF RequestStep
        <3> QED BY <2>2, <3>1
    <2>3. CASE UNCHANGED scope /\ \E w \in Workers : WorkerStep(w)
        <3>1. ASSUME NEW w \in Workers, WorkerStep(w) PROVE BalanceInv'
            <4>1. w \in Actors /\ UNCHANGED scope
                BY <2>3 DEF Actors
            <4>2. CASE CrashWorker(w)
                BY <1>2, <4>1, <4>2, AbortStep
            <4>3. CASE \E e \in inbox : BeginEvent(w, e)
                BY <1>2, <4>1, <4>3, BeginEventStep
            <4>4. CASE Apply(w)
                BY <1>2, <4>1, <4>4, ApplyStep
            <4>5. CASE Release(w)
                BY <1>2, <4>1, <4>5, ReleaseStep
            <4> QED BY <3>1, <4>2, <4>3, <4>4, <4>5 DEF WorkerStep
        <3> QED BY <2>3, <3>1
    <2>4. CASE UNCHANGED scope /\ \E c \in Contexts : Pay(c) \/ CancelIntent(c) \/ Decline(c)
        BY <1>2, <2>4, IntentStep
    <2>5. CASE UNCHANGED scope /\ \E n \in Adjustments : Adjust(n)
        BY <1>2, <2>5, AdjustStep
    <2>6. CASE /\ UNCHANGED scope
               /\ \/ \E e \in inbox : GiveUp(e)
                  \/ \E o \in Orders : SubmitTask(o) \/ \E s \in AdminStatuses : AdminUpdate(o, s)
                  \/ FillCart \/ EmptyCart \/ Freeze
        BY <1>2, <2>6, OtherRewardsStep
    <2> QED BY <1>2, <2>1, <2>2, <2>3, <2>4, <2>5, <2>6 DEF RewardsNext, RewardsStep
<1> QED BY <1>1, <1>2, PTL DEF RewardsSpec

\* Points are conserved: whatever requests overlap, the balance is what was
\* earned and adjusted less what redemptions hold, and never negative.  Two
\* dispatchers can release one redemption twice, so this takes one of them.
THEOREM PointsAreConserved == ASSUME OneWorker PROVE RewardsSpec => []PointsConserved
<1>1. BalanceInv => PointsConserved
    BY DEF BalanceInv, Ledger
<1> QED BY <1>1, BalanceInvHolds, PTL
=============================================================================
