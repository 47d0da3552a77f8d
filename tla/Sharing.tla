------------------------------- MODULE Sharing -------------------------------
(***************************************************************************)
(* A public link to a gig's photos: who may open it, what its views count  *)
(* and the points its owner earns at the thresholds.                       *)
(* api/app/api/v1/media_rights.py and                                      *)
(* api/app/services/client_rewards_pricing.py.                             *)
(*                                                                         *)
(* Visits and evaluations read when they begin and write when they commit, *)
(* so they may overlap.                                                    *)
(***************************************************************************)
EXTENDS Integers, FiniteSets

CONSTANTS
    Visits,       \* requests of the link's visitors that may overlap
    Fingerprints,       \* fingerprints of visitors
    Evaluators,   \* outbox workers that evaluate the thresholds
    ViewTargets,  \* thresholds in unique views, and
    SaleTargets,  \* in conversions
    MaxViews,     \* max_views of the link
    PerMonth,     \* max_rewards_per_user_per_month
    MaxDue,       \* bound of the evaluations asked for
    MaxSales      \* bound of the conversions

ASSUME SharingAssumption ==
    /\ ViewTargets \subseteq Nat /\ SaleTargets \subseteq Nat
    /\ {MaxViews, PerMonth, MaxDue, MaxSales} \subseteq Nat

VARIABLES
    link,       \* share_link: is it revoked or on hold, and view_count
    seen,       \* share_link_view: none, opened, or watched for min_seconds_viewed
    converted,      \* share_link_engagement.conversions_30d
    due,        \* outbox_event: share.reward.evaluate
    paidOut,     \* reward_ledger_entry of share_reward: how many, by threshold
    granted,    \* share_reward_grant
    rewardsFrozen,  \* freeze_rewards
    visiting    \* what each request and worker has read

shareVars == <<link, seen, converted, due, paidOut, granted, rewardsFrozen, visiting>>

Thresholds == ({"views"} \X ViewTargets) \cup ({"sales"} \X SaleTargets)

NoVisit == [op |-> "idle", who |-> {}, fresh |-> FALSE, views |-> 0, award |-> {}, booked |-> {}]
EndVisiting(v) == visiting' = [visiting EXCEPT ![v] = NoVisit]

\* is_share_link_active; only a view asks for the switch, holds and risk actions
Opens(op) == ~link.closed /\ link.views < MaxViews /\ (op = "view" => ~link.held)

----------------------------------------------------------------------------
(* Visits *)

\* view_share_link and ping_share_link: record_share_link_view looks the day's
\* row of the fingerprint up
BeginVisit(v, op, who) ==
    /\ visiting[v] = NoVisit /\ Opens(op)
    /\ visiting' = [visiting EXCEPT ![v] =
           [NoVisit EXCEPT !.op = op, !.who = {who}, !.fresh = seen[who] = "none", !.views = link.views]]
    /\ UNCHANGED <<link, seen, converted, due, paidOut, granted, rewardsFrozen>>

\* The unique (link, fingerprint, day): a row that was missing still is.
StillFresh(v) == visiting[v].fresh => \A who \in visiting[v].who : seen[who] = "none"

\* An evaluation is asked for under a key of the link and the minute.
AskEvaluation == \E more \in {0, 1} : due + more <= MaxDue /\ due' = due + more

CommitView(v) ==
    /\ visiting[v].op = "view" /\ StillFresh(v)
    /\ link' = [link EXCEPT !.views = visiting[v].views + 1]
    /\ seen' = [who \in Fingerprints |->
                   IF who \in visiting[v].who /\ visiting[v].fresh THEN "opened" ELSE seen[who]]
    /\ AskEvaluation
    /\ EndVisiting(v)
    /\ UNCHANGED <<converted, paidOut, granted, rewardsFrozen>>

\* Enough seconds of the row, or too few
CommitPing(v, enough) ==
    /\ visiting[v].op = "ping" /\ StillFresh(v)
    /\ seen' = [who \in Fingerprints |->
                   IF who \notin visiting[v].who THEN seen[who]
                   ELSE IF enough THEN "watched"
                   ELSE IF visiting[v].fresh THEN "opened" ELSE seen[who]]
    /\ AskEvaluation
    /\ EndVisiting(v)
    /\ UNCHANGED <<link, converted, paidOut, granted, rewardsFrozen>>

\* admin_revoke_share_link, or its expiry
CloseLink ==
    /\ link' = [link EXCEPT !.closed = TRUE]
    /\ UNCHANGED <<seen, converted, due, paidOut, granted, rewardsFrozen, visiting>>

\* The switch public_share_enabled, a dispute's hold or a risk action, which may
\* be lifted
HoldLink(held) ==
    /\ link' = [link EXCEPT !.held = held]
    /\ UNCHANGED <<seen, converted, due, paidOut, granted, rewardsFrozen, visiting>>

\* increment_share_link_conversion: an upsell that came through the link is paid.
Convert ==
    /\ converted < MaxSales
    /\ converted' = converted + 1
    /\ UNCHANGED <<link, seen, due, paidOut, granted, rewardsFrozen, visiting>>

----------------------------------------------------------------------------
(* Rewards *)

\* refresh_share_link_engagement
UniqueViews == Cardinality({who \in Fingerprints : seen[who] = "watched"})

Reached(t) == t[2] <= IF t[1] = "views" THEN UniqueViews ELSE converted

Total(f) == LET sum[S \in SUBSET Thresholds] ==
                  IF S = {} THEN 0 ELSE LET t == CHOOSE t \in S : TRUE IN f[t] + sum[S \ {t}]
            IN  sum[Thresholds]

\* evaluate_share_reward_thresholds: the thresholds reached that have no grant,
\* while the month allows; add_reward_entry looks for the entry before it waits
\* for the balance
BeginEvaluate(v) ==
    LET open == {t \in Thresholds : Reached(t) /\ t \notin granted}
    IN  /\ visiting[v] = NoVisit /\ due > 0
        /\ \E award \in SUBSET open :
              /\ rewardsFrozen => award = {}
              /\ ~rewardsFrozen => Cardinality(award) =
                     IF Total(paidOut) >= PerMonth THEN 0
                     ELSE IF Total(paidOut) + Cardinality(open) <= PerMonth THEN Cardinality(open)
                     ELSE PerMonth - Total(paidOut)
              /\ visiting' = [visiting EXCEPT ![v] =
                     [NoVisit EXCEPT !.op = "evaluate", !.award = award,
                                     !.booked = {t \in award : paidOut[t] > 0}]]
        /\ UNCHANGED <<link, seen, converted, due, paidOut, granted, rewardsFrozen>>

NotGrantedMutNoKey(v) == TRUE
\* The unique (link, metric, threshold, user) of a grant: otherwise all is
\* rolled back, its entries too
NotGranted(v) == visiting[v].award \cap granted = {}

CommitEvaluate(v) ==
    /\ visiting[v].op = "evaluate" /\ due > 0
    /\ NotGranted(v)
    /\ paidOut' = [t \in Thresholds |->
                     IF t \in visiting[v].award \ visiting[v].booked THEN paidOut[t] + 1 ELSE paidOut[t]]
    /\ granted' = granted \cup visiting[v].award
    /\ due' = due - 1
    /\ EndVisiting(v)
    /\ UNCHANGED <<link, seen, converted, rewardsFrozen>>

FreezeSharer ==
    /\ rewardsFrozen' = ~rewardsFrozen
    /\ UNCHANGED <<link, seen, converted, due, paidOut, granted, visiting>>

AbortVisiting(v) ==
    /\ visiting[v] # NoVisit
    /\ EndVisiting(v)
    /\ UNCHANGED <<link, seen, converted, due, paidOut, granted, rewardsFrozen>>

----------------------------------------------------------------------------
ShareInit ==
    /\ link = [closed |-> FALSE, held |-> FALSE, views |-> 0]
    /\ seen = [who \in Fingerprints |-> "none"]
    /\ converted = 0 /\ due = 0
    /\ paidOut = [t \in Thresholds |-> 0]
    /\ granted = {}
    /\ rewardsFrozen = FALSE
    /\ visiting = [v \in Visits \cup Evaluators |-> NoVisit]

ShareNext ==
    \/ \E v \in Visits :
          \/ \E who \in Fingerprints, op \in {"view", "ping"} : BeginVisit(v, op, who)
          \/ CommitView(v) \/ AbortVisiting(v)
          \/ \E enough \in BOOLEAN : CommitPing(v, enough)
    \/ \E v \in Evaluators : BeginEvaluate(v) \/ CommitEvaluate(v) \/ AbortVisiting(v)
    \/ CloseLink \/ \E held \in BOOLEAN : HoldLink(held)
    \/ Convert \/ FreezeSharer

ShareSpec == ShareInit /\ [][ShareNext]_shareVars
----------------------------------------------------------------------------
ShareTypeOK ==
    /\ {link.closed, link.held} \subseteq BOOLEAN /\ link.views \in 0..MaxViews
    /\ seen \in [Fingerprints -> {"none", "opened", "watched"}]
    /\ converted \in 0..MaxSales /\ due \in 0..MaxDue
    /\ paidOut \in [Thresholds -> Nat] /\ granted \subseteq Thresholds
    /\ rewardsFrozen \in BOOLEAN
    /\ \A v \in Visits \cup Evaluators :
          visiting[v].op \in {"idle", "view", "ping", "evaluate"} /\ visiting[v].award \subseteq Thresholds

\* A threshold of a link pays its owner once, and with a grant, however the
\* evaluations that several views ask for overlap.
ThresholdPaidOnce ==
    \A t \in Thresholds : paidOut[t] = IF t \in granted THEN 1 ELSE 0
==============================================================================
