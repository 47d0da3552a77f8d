---------------------------- MODULE Gamification ----------------------------
(***************************************************************************)
(* Credentials, milestones and cycle points, worked out again by Celery    *)
(* tasks from the photographer's standing:                                 *)
(* api/app/services/gamification.py.                                       *)
(*                                                                         *)
(* The tasks are sent before the grading that asks for them commits, may   *)
(* run twice or never, and an administrator may ask for them, so each may  *)
(* begin at any time; each reads when it begins and writes when it         *)
(* commits.                                                                *)
(***************************************************************************)
EXTENDS Integers, FiniteSets

CONSTANTS
    Clerks,         \* sessions that recompute credentials, and
    Judges,         \* sessions that evaluate milestones, that may overlap
    Ranks,          \* ranks of the skill tiers
    Milestones,     \* milestones, reached with a tier, and
    Repeatable,     \* those that are repeatable, with a cooldown
    CyclePoints,    \* a milestone's points in the performance cycle
    MaxCompletions  \* bound of the completions of a milestone

ASSUME GamificationAssumption ==
    /\ Ranks \subseteq Nat /\ 0 \in Ranks
    /\ Repeatable \subseteq Milestones
    /\ CyclePoints \in Nat \ {0} /\ MaxCompletions \in Nat

VARIABLES
    level,       \* pro_niche_skill.tier, as graded
    current,     \* pro_credential: the tiers of the rows of mode current, and
    highest,     \* of the rows of mode highest_ever
    milestone,   \* milestone_progress, and is it active, by milestone
    completions, \* milestone_completion: how many, and whether the last is cooling
    season,      \* performance_cycle: is it open, cycle_points and cycle_event
    work         \* what each session has read

gameVars == <<level, current, highest, milestone, completions, season, work>>

NoWork == [op |-> "idle", level |-> 0, renews |-> FALSE, surpasses |-> FALSE, current |-> {},
           highest |-> {}, on |-> {}, status |-> "none", allowed |-> FALSE, points |-> 0]
Finish(w) == work' = [work EXCEPT ![w] = NoWork]

----------------------------------------------------------------------------
(* Credentials *)

\* One of mode current for the tier stands, or replaces those there are.
Renews == level \notin current

SurpassesMutDiffers == level \notin highest
\* A tier above all of mode highest_ever replaces them.
Surpasses == \A tier \in highest : level > tier

\* recompute_credentials reads the tier and the rows of both modes.
BeginCredentials(w) ==
    /\ work[w] = NoWork
    /\ work' = [work EXCEPT ![w] =
           [NoWork EXCEPT !.op = "credentials", !.level = level, !.renews = Renews, !.surpasses = Surpasses,
                          !.current = current, !.highest = highest]]
    /\ UNCHANGED <<level, current, highest, milestone, completions, season>>

\* The rows after one is added and those seen are deleted; the unique
\* (photographer, niche, tier, mode) refuses the row another session added.
Replaces(rows, new, tier, seen) ==
    /\ tier \notin rows \ seen
    /\ new = (rows \ seen) \cup {tier}

\* The rows that another session has seen and this one deletes are gone for it.
FinishCredentials(w) ==
    work' = [v \in DOMAIN work |->
        IF v = w THEN NoWork
        ELSE [work[v] EXCEPT !.current = IF work[w].renews THEN @ \ work[w].current ELSE @,
                             !.highest = IF work[w].surpasses THEN @ \ work[w].highest ELSE @]]

CommitCredentials(w) ==
    LET g == work[w]
    IN  /\ g.op = "credentials"
        /\ IF g.renews THEN Replaces(current, current', g.level, g.current) ELSE UNCHANGED current
        /\ IF g.surpasses THEN Replaces(highest, highest', g.level, g.highest) ELSE UNCHANGED highest
        /\ FinishCredentials(w)
        /\ UNCHANGED <<level, milestone, completions, season>>

----------------------------------------------------------------------------
(* Milestones *)

\* _evaluate_milestone_criteria: the criterion tier_reached stands for all, that
\* compare a count of rows with a target
Achieved == \E r \in Ranks : r > 0 /\ level >= r

\* _is_completion_allowed
CompletionAllowed(m) ==
    \/ completions[m].count = 0
    \/ m \in Repeatable /\ ~completions[m].cooling

\* evaluate_user_milestones of one of the milestones
BeginEvaluation(w, m) ==
    /\ work[w] = NoWork
    /\ milestone[m].active
    /\ work' = [work EXCEPT ![w] =
           [NoWork EXCEPT !.op = IF Achieved THEN "achieved" ELSE "missed", !.on = {m},
                !.status = milestone[m].status, !.allowed = CompletionAllowed(m),
                !.points = season.points]]
    /\ UNCHANGED <<level, current, highest, milestone, completions, season>>

\* A new milestone row is refused by its unique key when another was added; a
\* status that was read is written only if it changes.
Marked(m, was, to) ==
    /\ was = "none" => milestone[m].status = "none"
    /\ milestone' = [milestone EXCEPT ![m].status = IF was = to THEN @ ELSE to]

\* add_cycle_points: the row of points is read after the completion is flushed,
\* unless this session had read it for an earlier milestone
AddCyclePoints(w) ==
    IF season.open
    THEN \E base \in {season.points, work[w].points} :
            /\ base = 0 => season.points = 0
            /\ season' = [season EXCEPT !.points = base + CyclePoints, !.events = @ + 1]
    ELSE UNCHANGED season

CommitCompletion(w, m) ==
    /\ m \in work[w].on /\ work[w].op = "achieved" /\ work[w].allowed
    /\ completions[m].count < MaxCompletions
    /\ Marked(m, work[w].status, "completed")
    /\ completions' = [completions EXCEPT ![m] = [count |-> @.count + 1, cooling |-> TRUE]]
    /\ AddCyclePoints(w)
    /\ Finish(w)
    /\ UNCHANGED <<level, current, highest>>

CommitProgress(w, m) ==
    /\ m \in work[w].on /\ ~(work[w].op = "achieved" /\ work[w].allowed)
    /\ Marked(m, work[w].status, IF work[w].op = "achieved" THEN "completed" ELSE "active")
    /\ Finish(w)
    /\ UNCHANGED <<level, current, highest, completions, season>>

AbortWork(w) ==
    /\ work[w] # NoWork
    /\ Finish(w)
    /\ UNCHANGED <<level, current, highest, milestone, completions, season>>

----------------------------------------------------------------------------
(* What the tasks read *)

\* A grading of the niche, or an override
Regrade(tier) ==
    /\ tier # level /\ level' = tier
    /\ UNCHANGED <<current, highest, milestone, completions, season, work>>

\* upsert_milestone, or its dates
SetMilestone(m) ==
    /\ milestone' = [milestone EXCEPT ![m].active = ~@]
    /\ UNCHANGED <<level, current, highest, completions, season, work>>

CoolingEnds(m) ==
    /\ completions' = [completions EXCEPT ![m].cooling = FALSE]
    /\ UNCHANGED <<level, current, highest, milestone, season, work>>

\* upsert_performance_cycle, or its dates
SetSeason ==
    /\ season' = [season EXCEPT !.open = ~@]
    /\ UNCHANGED <<level, current, highest, milestone, completions, work>>

----------------------------------------------------------------------------
GameInit ==
    /\ level = 0
    /\ current = {} /\ highest = {}
    /\ milestone = [m \in Milestones |-> [status |-> "none", active |-> TRUE]]
    /\ completions = [m \in Milestones |-> [count |-> 0, cooling |-> FALSE]]
    /\ season = [open |-> TRUE, points |-> 0, events |-> 0]
    /\ work = [w \in Clerks \cup Judges |-> NoWork]

GameNext ==
    \/ \E w \in Clerks : BeginCredentials(w) \/ CommitCredentials(w) \/ AbortWork(w)
    \/ \E w \in Judges :
          \/ AbortWork(w)
          \/ \E m \in Milestones : BeginEvaluation(w, m) \/ CommitCompletion(w, m) \/ CommitProgress(w, m)
    \/ \E tier \in Ranks : Regrade(tier)
    \/ \E m \in Milestones : SetMilestone(m) \/ CoolingEnds(m)
    \/ SetSeason

GameSpec == GameInit /\ [][GameNext]_gameVars
----------------------------------------------------------------------------
GameTypeOK ==
    /\ level \in Ranks
    /\ current \subseteq Ranks /\ highest \subseteq Ranks
    /\ milestone \in [Milestones -> [status : {"none", "active", "completed"}, active : BOOLEAN]]
    /\ \A m \in Milestones : /\ completions[m].count \in 0..MaxCompletions
                             /\ completions[m].cooling \in BOOLEAN
    /\ season.open \in BOOLEAN /\ season.points \in Nat /\ season.events \in Nat
    /\ \A w \in Clerks \cup Judges : work[w].op \in {"idle", "credentials", "achieved", "missed"}

\* The highest tier a photographer ever held stays among the credentials of
\* mode highest_ever, however many recomputations work from old rows.
HighestNeverFalls ==
    [][\A tier \in highest : \E kept \in highest' : kept >= tier]_gameVars
=============================================================================
