-------------------------------- MODULE Risk --------------------------------
(***************************************************************************)
(* The risk profile of one user: rules that raise a score and put actions  *)
(* in force, an admin who lifts them, and the freeze of payouts after the  *)
(* payout account changed.  api/app/services/trust_safety.py and           *)
(* api/app/api/v1/risk.py.                                                 *)
(*                                                                         *)
(* Requests read when they begin and write when they commit, so they may   *)
(* overlap.  What the actions in force forbid elsewhere (share links,      *)
(* rewards, bookings) is a switch of the modules concerned.                *)
(***************************************************************************)
EXTENDS Integers, FiniteSets

CONSTANTS
    RiskSessions,  \* requests, webhooks and tasks that may overlap
    Rules,         \* the rules in use: a subset of DefaultRules
    Switched,      \* the rules an admin switches
    MaxChanges,    \* bound of the changes of the payout account
    MaxScore       \* bound of the score

\* DEFAULT_RISK_RULES: score_delta and actions of each rule
DefaultRules ==
    [login    |-> [delta |-> 20, actions |-> {"require_verification"}],
     referral |-> [delta |-> 30, actions |-> {"freeze_rewards", "manual_review"}],
     share    |-> [delta |-> 30, actions |-> {"disable_share_links", "freeze_rewards"}],
     booking  |-> [delta |-> 20, actions |-> {"throttle_bookings"}],
     payment  |-> [delta |-> 25, actions |-> {"require_verification"}],
     payout   |-> [delta |-> 25, actions |-> {"freeze_payouts", "manual_review"}],
     dispute  |-> [delta |-> 20, actions |-> {"manual_review"}]]

ASSUME RiskAssumption ==
    /\ Switched \subseteq Rules /\ Rules \subseteq DOMAIN DefaultRules
    /\ MaxChanges \in Nat /\ MaxScore \in Nat

ActionTypes == (UNION {DefaultRules[r].actions : r \in Rules}) \cup {"freeze_payouts"}

VARIABLES
    account,   \* payout_account.updated_at: which change, and whether recent
    inForce,   \* risk_action: active rows of each type
    reviewed,  \* the last change before a payout freeze was cleared (0: none was)
    score,     \* risk_profile.risk_score
    deltas,    \* sum of risk_event.delta over 30 days
    ruleOn,    \* risk_rule.is_active
    asking,    \* what each session has read
    accepted   \* changes that were recent when a payout request was let through

riskVars == <<account, inForce, reviewed, score, deltas, ruleOn, asking, accepted>>

NotAsking == [op |-> "idle", change |-> 0, fires |-> {}, score |-> 0, missing |-> {}]

\* has_active_risk_action: scalar_one_or_none raises when there are two rows.
Active(type) == inForce[type] = 1
Readable(types) == \A type \in types : inForce[type] <= 1

Actions(rules) == UNION {DefaultRules[r].actions : r \in rules}

----------------------------------------------------------------------------
(* Rules *)

\* trigger_risk_rule and apply_risk_action look the profile and the active
\* actions up.
Reading(s, op, change, fires) ==
    /\ asking[s] = NotAsking /\ Readable(Actions(fires))
    /\ asking' = [asking EXCEPT ![s] =
           [op |-> op, change |-> change, fires |-> fires,
            score |-> IF fires = {} THEN 0 ELSE score,
            missing |-> {type \in Actions(fires) : ~Active(type)}]]
    /\ UNCHANGED <<account, inForce, reviewed, score, deltas, ruleOn, accepted>>

\* evaluate_login_failure_rule and the others: enough happened in the window
BeginTrigger(s, rule) ==
    /\ rule \in ruleOn \ {"payout"}
    /\ Reading(s, "trigger", 0, {rule})

\* What the session read decides the score and the rows it adds.
Triggered(s) ==
    LET delta == IF asking[s].fires = {} THEN 0
                 ELSE DefaultRules[CHOOSE r \in asking[s].fires : TRUE].delta
    IN  /\ asking[s].score + delta <= MaxScore /\ deltas + delta <= MaxScore
        /\ score' = IF delta = 0 THEN score ELSE asking[s].score + delta
        /\ deltas' = deltas + delta
        /\ inForce' = [type \in ActionTypes |->
                          IF type \in asking[s].missing THEN inForce[type] + 1 ELSE inForce[type]]

CommitTrigger(s) ==
    /\ asking[s].op = "trigger"
    /\ Triggered(s)
    /\ asking' = [asking EXCEPT ![s] = NotAsking]
    /\ UNCHANGED <<account, reviewed, ruleOn, accepted>>

----------------------------------------------------------------------------
(* Payouts *)

\* put_my_payout_account, a refresh from Stripe, account.updated: any of them
\* writes updated_at
ChangeAccount ==
    /\ account.change < MaxChanges
    /\ account' = [change |-> account.change + 1, recent |-> TRUE]
    /\ UNCHANGED <<inForce, reviewed, score, deltas, ruleOn, asking, accepted>>

AgeAccount ==
    /\ account' = [account EXCEPT !.recent = FALSE]
    /\ UNCHANGED <<inForce, reviewed, score, deltas, ruleOn, asking, accepted>>

ChangeReviewedMutOnce == reviewed > 0
\* A clearance after the last change of the account
ChangeReviewed == reviewed > 0 /\ reviewed >= account.change

\* create_payout_request: evaluate_payout_anomaly_rule
BeginPayout(s) ==
    LET fires == IF "payout" \in ruleOn /\ account.recent /\ ~ChangeReviewed THEN {"payout"} ELSE {}
    IN  Reading(s, "payout", IF "payout" \in ruleOn /\ account.recent THEN account.change ELSE 0, fires)

\* The freeze is committed before the request is refused.
CommitFreeze(s) ==
    /\ asking[s].op = "payout" /\ asking[s].fires # {}
    /\ Triggered(s)
    /\ asking' = [asking EXCEPT ![s].fires = {}, ![s].missing = {}]
    /\ UNCHANGED <<account, reviewed, ruleOn, accepted>>

\* enforce_risk_action_not_active: the request goes on, or is refused
LetThrough(s) ==
    /\ asking[s].op = "payout" /\ asking[s].fires = {}
    /\ inForce["freeze_payouts"] = 0
    /\ accepted' = accepted \cup ({asking[s].change} \ {0})
    /\ asking' = [asking EXCEPT ![s] = NotAsking]
    /\ UNCHANGED <<account, inForce, reviewed, score, deltas, ruleOn>>

AbortAsking(s) ==
    /\ asking[s] # NotAsking
    /\ asking' = [asking EXCEPT ![s] = NotAsking]
    /\ UNCHANGED <<account, inForce, reviewed, score, deltas, ruleOn, accepted>>

----------------------------------------------------------------------------
(* Admins *)

\* clear_risk_action: one row that is active
ClearAction(type) ==
    /\ Active(type)
    /\ inForce' = [inForce EXCEPT ![type] = 0]
    /\ reviewed' = IF type = "freeze_payouts" THEN account.change ELSE reviewed
    /\ UNCHANGED <<account, score, deltas, ruleOn, asking, accepted>>

\* set_risk_score_manual
SetScore(new) ==
    /\ score' = new
    /\ UNCHANGED <<account, inForce, reviewed, deltas, ruleOn, asking, accepted>>

\* reconcile_risk_profile: the score of the events, whatever an admin set
Reconcile == SetScore(deltas)

\* put_risk_rule
PutRule(rule, on) ==
    /\ ruleOn' = IF on THEN ruleOn \cup {rule} ELSE ruleOn \ {rule}
    /\ UNCHANGED <<account, inForce, reviewed, score, deltas, asking, accepted>>

----------------------------------------------------------------------------
RiskInit ==
    /\ account = [change |-> 0, recent |-> FALSE]
    /\ inForce = [type \in ActionTypes |-> 0]
    /\ reviewed = 0 /\ score = 0 /\ deltas = 0
    /\ ruleOn = Rules
    /\ asking = [s \in RiskSessions |-> NotAsking]
    /\ accepted = {}

RiskNext ==
    \/ \E s \in RiskSessions :
          \/ \E rule \in Rules : BeginTrigger(s, rule)
          \/ CommitTrigger(s) \/ AbortAsking(s)
          \/ BeginPayout(s) \/ CommitFreeze(s) \/ LetThrough(s)
    \/ ChangeAccount \/ AgeAccount
    \/ \E type \in ActionTypes : ClearAction(type)
    \/ SetScore(0) \/ Reconcile
    \/ \E rule \in Switched, on \in BOOLEAN : PutRule(rule, on)

RiskSpec == RiskInit /\ [][RiskNext]_riskVars
----------------------------------------------------------------------------
RiskTypeOK ==
    /\ account \in [change : 0..MaxChanges, recent : BOOLEAN]
    /\ inForce \in [ActionTypes -> 0..Cardinality(RiskSessions)]
    /\ reviewed \in 0..MaxChanges
    /\ score \in 0..MaxScore /\ deltas \in 0..MaxScore
    /\ ruleOn \subseteq Rules /\ accepted \subseteq 1..MaxChanges
    /\ \A s \in RiskSessions :
          /\ asking[s].op \in {"idle", "trigger", "payout"}
          /\ asking[s].fires \subseteq Rules /\ asking[s].missing \subseteq ActionTypes

\* "Only a later account change re-arms the rule": a payout request that found
\* the account recently changed goes through only once an admin cleared a
\* freeze after that very change, whichever sessions overlap and however often
\* the account changes.
FreshAccountsAreReviewed ==
    \A change \in accepted : reviewed >= change
=============================================================================
