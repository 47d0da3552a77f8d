------------------------------ MODULE Consents ------------------------------
(***************************************************************************)
(* What a client lets be done with the photos of one gig, and the points   *)
(* given and taken back for it: api/app/services/media_rights.py,          *)
(* api/app/services/client_rewards_pricing.py, the consent endpoints of    *)
(* api/app/api/v1/media_rights.py and two topics of tasks/outbox_tasks.py. *)
(*                                                                         *)
(* A change is stored with the evaluations it asks for, each under a key   *)
(* that is used once for ever.  The dispatcher evaluates them in any order *)
(* and again, if a handler raises: what it wrote until then is committed   *)
(* with the failed mark.                                                   *)
(***************************************************************************)
EXTENDS Integers, FiniteSets

CONSTANTS
    ConsentSessions, \* requests that may overlap
    DefaultLevel,    \* default_gig_consent_level
    Offered,         \* levels the client asks for
    Claimable,       \* levels whose policy allows a clawback
    ToggleLimit,     \* events of a day before a change is reported, 6
    MaxToggles       \* bound of the events

UsageLevels == {"none", "pro_only", "rawwers_only", "both"}
ASSUME ConsentsAssumption ==
    /\ DefaultLevel \in UsageLevels /\ Offered \subseteq UsageLevels /\ Claimable \subseteq UsageLevels
    /\ {ToggleLimit, MaxToggles} \subseteq Nat

VARIABLES
    usage,      \* gig_usage_consent.consent_level, "absent" before the row
    recent,     \* levels whose latest event is not older than cooldown_hours
    toggles,    \* events of the client in the last day
    reported,   \* whether a consent_toggle_abuse signal was raised
    askedOnce,      \* idempotency_key: evaluations that were askedOnce for
    evaluate,   \* outbox_event: those to be carried out
    entries,    \* reward_ledger_entry of consents: how many, by evaluation
    chosen,     \* history: the levels the client has askedOnce for
    toggling    \* what each request has read

consentVars == <<usage, recent, toggles, reported, askedOnce, evaluate, entries, chosen, toggling>>
consentRow == <<usage, recent, toggles, reported, chosen>>
evaluations == <<askedOnce, evaluate, entries>>

\* ensure_default_consent_reward_policies
PointsAward == [l \in UsageLevels |->
    CASE l = "none" -> 0 [] l = "pro_only" -> 80 [] l = "rawwers_only" -> 100 [] l = "both" -> 160]

\* An evaluation is of a level taken up, or of one left for another.
ForLevel(l) == <<"reward", l>>
ForChange(f, t) == <<f, t>>
Evaluations == ({"reward"} \cup UsageLevels) \X UsageLevels

NoToggle == [op |-> "idle"]
Untoggled(s) == toggling[s] = NoToggle
EndToggle(s) == toggling' = [toggling EXCEPT ![s] = NoToggle]

----------------------------------------------------------------------------
(* Requests *)

\* get_gig_consent and put_gig_consent: what either reads of a row there may be
BeginRead(s, op, level) ==
    /\ Untoggled(s)
    /\ op = "get" => usage = "absent"
    /\ toggling' = [toggling EXCEPT ![s] =
            [op |-> op, level |-> level, from |-> usage, events |-> toggles]]
    /\ UNCHANGED <<consentRow, evaluations>>

\* gig_id is unique: a row that was missing must still be.
NoOtherRow(s) == toggling[s].from = "absent" => usage = "absent"
Defaults(s) == IF toggling[s].from = "absent" THEN {DefaultLevel} ELSE {}

\* ensure_gig_consent_snapshot
CommitSnapshot(s) ==
    /\ toggling[s].op = "get" /\ NoOtherRow(s) /\ toggles < MaxToggles
    /\ usage' = DefaultLevel /\ recent' = recent \cup {DefaultLevel}
    /\ toggles' = toggles + 1
    /\ EndToggle(s)
    /\ UNCHANGED <<reported, chosen, evaluations>>

\* The row is written only where it differs from what was read.
LevelWritten(s) ==
    LET q == toggling[s]
        before == IF q.from = "absent" THEN DefaultLevel ELSE q.from
    IN  IF q.level # before THEN q.level
        ELSE IF q.from = "absent" THEN DefaultLevel ELSE usage

\* The first change of all leaves no level: the row was missing when it was read.
AsksFor(s) ==
    LET q == toggling[s]
    IN  {ForLevel(q.level)} \cup
        (IF q.from \in {"absent", q.level} THEN {} ELSE {ForChange(q.from, q.level)})

\* set_gig_consent, the evaluations and maybe_emit_consent_toggle_abuse,
\* which counts the events this session sees
CommitPut(s) ==
    LET q == toggling[s]
        events == 1 + Cardinality(Defaults(s))
    IN  /\ q.op = "put" /\ NoOtherRow(s) /\ toggles + events <= MaxToggles
        /\ usage' = LevelWritten(s)
        /\ recent' = recent \cup {q.level} \cup Defaults(s)
        /\ toggles' = toggles + events
        /\ reported' = (reported \/ q.events + events > ToggleLimit)
        /\ chosen' = chosen \cup {q.level}
        /\ askedOnce' = askedOnce \cup AsksFor(s)
        /\ evaluate' = evaluate \cup (AsksFor(s) \ askedOnce)
        /\ EndToggle(s)
        /\ UNCHANGED entries

LoseToggle(s) ==
    /\ ~Untoggled(s) /\ EndToggle(s)
    /\ UNCHANGED <<consentRow, evaluations>>

ConsentAges(l) ==
    /\ l \in recent /\ recent' = recent \ {l}
    /\ UNCHANGED <<usage, toggles, reported, chosen, evaluations, toggling>>

----------------------------------------------------------------------------
(* The dispatcher *)

WrittenMutNoLookUp(e) == FALSE
\* add_reward_entry looks for the entry of this reference.
Written(e) == entries[e] > 0

\* The rewards of the client may be frozen, the month's awards, counted over
\* all its gigs, used up, or its balance at the floor: room is any of these.
Book(e, room) ==
    entries' = IF room /\ ~Written(e) THEN [entries EXCEPT ![e] = @ + 1] ELSE entries

\* A handler that raises has its event tried again.
Handled(e, raises) == evaluate' = IF raises THEN evaluate ELSE evaluate \ {e}

\* maybe_award_consent_points
AwardLevel(l, room, raises) ==
    /\ ForLevel(l) \in evaluate
    /\ Book(ForLevel(l), room /\ PointsAward[l] > 0)
    /\ Handled(ForLevel(l), raises)
    /\ UNCHANGED <<consentRow, askedOnce, toggling>>

\* maybe_clawback_consent_points
TakeBack(f, t, room, raises) ==
    /\ ForChange(f, t) \in evaluate
    /\ Book(ForChange(f, t), room /\ f \in Claimable \cap recent /\ PointsAward[f] > PointsAward[t])
    /\ Handled(ForChange(f, t), raises)
    /\ UNCHANGED <<consentRow, askedOnce, toggling>>

\* can_use_for_marketing, without the channels of the scope
MayUse(actor) ==
    usage \in (CASE actor = "pro" -> {"pro_only", "both"} [] actor = "rawwers" -> {"rawwers_only", "both"})

----------------------------------------------------------------------------
ConsentsInit ==
    /\ usage = "absent" /\ recent = {} /\ toggles = 0 /\ reported = FALSE
    /\ askedOnce = {} /\ evaluate = {} /\ entries = [e \in Evaluations |-> 0]
    /\ chosen = {} /\ toggling = [s \in ConsentSessions |-> NoToggle]

ConsentsNext ==
    \/ \E s \in ConsentSessions :
          \/ BeginRead(s, "get", DefaultLevel) \/ CommitSnapshot(s)
          \/ \E l \in Offered : BeginRead(s, "put", l)
          \/ CommitPut(s) \/ LoseToggle(s)
    \/ \E l \in UsageLevels : ConsentAges(l)
    \/ \E room, raises \in BOOLEAN :
          \/ \E l \in UsageLevels : AwardLevel(l, room, raises)
          \/ \E f, t \in UsageLevels : TakeBack(f, t, room, raises)

ConsentsSpec == ConsentsInit /\ [][ConsentsNext]_consentVars
----------------------------------------------------------------------------
ConsentsTypeOK ==
    /\ usage \in UsageLevels \cup {"absent"} /\ recent \subseteq UsageLevels
    /\ toggles \in 0..MaxToggles /\ reported \in BOOLEAN
    /\ evaluate \subseteq askedOnce /\ askedOnce \subseteq Evaluations
    /\ entries \in [Evaluations -> Nat] /\ chosen \subseteq UsageLevels

\* However often the client changes its mind, and whatever is evaluated twice,
\* a gig's consent pays each level once and takes the points of a change of
\* level back once; it pays and takes back only what the client chose to take
\* up and to leave, a level taken up by default aside.  (add_reward_entry's
\* references and put_gig_consent's keys)
ConsentPaysOnce ==
    /\ \A e \in Evaluations : entries[e] <= 1
    /\ \A l \in UsageLevels : entries[ForLevel(l)] > 0 => l \in chosen
    /\ \A f, t \in UsageLevels :
          entries[ForChange(f, t)] > 0 => t \in chosen /\ f \in chosen \cup {DefaultLevel}
=============================================================================
