------------------------------- MODULE Growth -------------------------------
(***************************************************************************)
(* Referrals: one friend arrives with a code, registers or claims it, and  *)
(* pays for things; each payment may reward the friend and whoever         *)
(* referred them.  api/app/services/growth_engine.py, claim_referral_code  *)
(* of services/rewards.py and api/app/api/v1/rewards.py.                   *)
(*                                                                         *)
(* A payment's webhook reads when it begins and writes when it commits, so *)
(* two may overlap, and a webhook may come again.  Codes are the referrers *)
(* they stand for; touches of campaigns and clicks decide nothing here.    *)
(***************************************************************************)
EXTENDS Integers, Sequences, FiniteSets

CONSTANTS
    Referrers,    \* users with a referral code
    Friend,       \* the user they refer
    NoReferrer,
    Conversions,  \* payments of the friend: (conversion_type, conversion_id)
    Small,        \* those below min_conversion_value_eur
    Webhooks,     \* webhooks that may be handled at once
    RolesPaid,    \* policies an admin sets: the roles with points
    Freezable,    \* users whose rewards may be frozen when a webhook reads
    Suspects,     \* referrers an admin may blacklist
    MonthlyCap    \* max_rewards_per_referrer_per_month

ASSUME GrowthAssumption ==
    /\ NoReferrer \notin Referrers \cup {Friend} /\ Friend \notin Referrers
    /\ Small \subseteq Conversions
    /\ RolesPaid \subseteq SUBSET {"referrer", "referee"}
    /\ Freezable \subseteq Referrers \cup {Friend}
    /\ Suspects \subseteq Referrers /\ MonthlyCap \in Nat

VARIABLES
    arrival,        \* the friend's account, and the code in the rw_ref cookie
    attribution,    \* referral_attribution: one row of a referred user
    referral,       \* referral_link: the friend's link to each referrer
    blacklist,      \* referral_blacklist
    primaries,      \* conversion_attribution: the rows of each conversion
    grant,          \* referral_reward_grant of each conversion, and its age
    rewarded,       \* reward_ledger_entry: entries of each user for a conversion
    converting      \* what each webhook has read

growthVars == <<arrival, attribution, referral, blacklist, primaries, grant,
                rewarded, converting>>

\* The rows of the tables, as far as they are told apart.
ReferralAttribution == Referrers \cup {NoReferrer}
ReferralBlacklist == SUBSET Referrers
ConversionAttribution == Seq(Referrers \cup {NoReferrer})
ReferralRewardGrant == [to : Referrers \cup {NoReferrer}, month : BOOLEAN, cooling : BOOLEAN]

Earners == Referrers \cup {Friend}
LinkStatus == {"none", "registered", "converted", "blocked"}
ReferralLink == [Referrers -> LinkStatus]
NoGrant == [to |-> NoReferrer, month |-> FALSE, cooling |-> FALSE]
NotConverting == [conv |-> {}, names |-> {}, outcome |-> "idle", to |-> NoReferrer,
                  converted |-> FALSE, users |-> {}]

----------------------------------------------------------------------------
(* Arriving *)

\* referral_landing leaves the code in a cookie.
Land(r) ==
    /\ ~arrival.registered
    /\ arrival' = [arrival EXCEPT !.cookie = r]
    /\ UNCHANGED <<attribution, referral, blacklist, primaries, grant, rewarded, converting>>

\* regenerate_referral_code: a code handed out before finds nobody.
Regenerate(r) ==
    /\ arrival.cookie = r
    /\ arrival' = [arrival EXCEPT !.cookie = NoReferrer]
    /\ UNCHANGED <<attribution, referral, blacklist, primaries, grant, rewarded, converting>>

\* link_referee_to_referrer: a link the pair has already stays as it is.
LinkTo(r) ==
    referral' = [referral EXCEPT ![r] = IF @ = "none" THEN "registered" ELSE @]

\* register: the code of the cookie, if it still finds a profile; nobody reads
\* the cookie again
Register ==
    /\ ~arrival.registered
    /\ arrival' = [registered |-> TRUE, cookie |-> NoReferrer]
    /\ IF arrival.cookie = NoReferrer THEN UNCHANGED <<attribution, referral>>
       ELSE /\ attribution' = arrival.cookie
            /\ LinkTo(arrival.cookie)
    /\ UNCHANGED <<blacklist, primaries, grant, rewarded, converting>>

\* Claimed already: the row is found, or its unique key refuses a second one.
Unclaimed == attribution = NoReferrer

\* claim_referral: the attribution and the link; the reward of a signup is one
\* of issue_reward (Rewards)
Claim(r) ==
    /\ arrival.registered /\ Unclaimed
    /\ referral[r] # "blocked"
    /\ attribution' = r
    /\ LinkTo(r)
    /\ UNCHANGED <<arrival, blacklist, primaries, grant, rewarded, converting>>

----------------------------------------------------------------------------
(* Converting *)

\* _get_registered_referral_link: the earliest; OneReferrer says there is no
\* choice.
LiveLinks == {r \in Referrers : referral[r] \in {"registered", "converted"}}
Referrer == IF LiveLinks = {} THEN NoReferrer ELSE CHOOSE r \in LiveLinks : TRUE

GrantedThisMonth(r) == Cardinality({c \in Conversions : grant[c].to = r /\ grant[c].month})
CoolingDown(r) == \E c \in Conversions : grant[c].to = r /\ grant[c].cooling

\* The roles with points in the policy of the day, but add_reward_entry gives
\* nothing to a user whose rewards are frozen.
Payees(r, roles, frozen) ==
    {u \in Earners \ frozen :
        (u = r /\ "referrer" \in roles) \/ (u = Friend /\ "referee" \in roles)}

\* What maybe_issue_referral_conversion_reward makes of its reads
Outcome(c, r, payees) ==
    IF grant[c] # NoGrant \/ r = NoReferrer \/ c \in Small THEN "nothing"
    ELSE IF r \in blacklist THEN "block"
    ELSE IF GrantedThisMonth(r) >= MonthlyCap \/ CoolingDown(r) \/ payees = {} THEN "nothing"
    ELSE "pay"

\* Two rows of one conversion make scalar_one_or_none raise, and the webhook
\* fails.
BeginConvert(w, c, roles, frozen) ==
    LET payees == Payees(Referrer, roles, frozen)
    IN  /\ converting[w] = NotConverting /\ arrival.registered
        /\ Len(primaries[c]) <= 1
        /\ converting' = [converting EXCEPT ![w] =
               [conv |-> {c}, names |-> IF primaries[c] = <<>> THEN {Referrer} ELSE {},
                outcome |-> Outcome(c, Referrer, payees), to |-> Referrer,
                converted |-> Referrer # NoReferrer /\ referral[Referrer] = "converted",
                users |-> {u \in payees : rewarded[c][u] = 0}]]
        /\ UNCHANGED <<arrival, attribution, referral, blacklist, primaries, grant, rewarded>>

\* ensure_conversion_attribution: the row the webhook found missing
Attributed(w, c) ==
    primaries' = [primaries EXCEPT ![c] = IF converting[w].names = {} THEN @
                                          ELSE Append(@, converting[w].to)]

\* Nothing but the attribution
CommitNothing(w, c) ==
    /\ converting[w].conv = {c} /\ converting[w].outcome = "nothing"
    /\ Attributed(w, c)
    /\ converting' = [converting EXCEPT ![w] = NotConverting]
    /\ UNCHANGED <<arrival, attribution, referral, blacklist, grant, rewarded>>

\* The referrer was blacklisted.
CommitBlock(w, c) ==
    /\ converting[w].conv = {c} /\ converting[w].outcome = "block"
    /\ Attributed(w, c)
    /\ referral' = [referral EXCEPT ![converting[w].to] = "blocked"]
    /\ converting' = [converting EXCEPT ![w] = NotConverting]
    /\ UNCHANGED <<arrival, attribution, blacklist, grant, rewarded>>

UngrantedMutNoKey(c) == TRUE
\* The unique key on (conversion_type, conversion_id) of the grants
Ungranted(c) == grant[c].to = NoReferrer

\* The entries, the grant and the link in one transaction: unless the webhook
\* read it as converted, a blocked status committed meanwhile is written over.
CommitGrant(w, c) ==
    /\ converting[w].conv = {c} /\ converting[w].outcome = "pay" /\ Ungranted(c)
    /\ Attributed(w, c)
    /\ rewarded' = [rewarded EXCEPT ![c] =
           [u \in Earners |-> rewarded[c][u] + IF u \in converting[w].users THEN 1 ELSE 0]]
    /\ grant' = [grant EXCEPT ![c] = [to |-> converting[w].to, month |-> TRUE, cooling |-> TRUE]]
    /\ referral' = [referral EXCEPT ![converting[w].to] =
                                    IF converting[w].converted THEN @ ELSE "converted"]
    /\ converting' = [converting EXCEPT ![w] = NotConverting]
    /\ UNCHANGED <<arrival, attribution, blacklist>>

\* The webhook fails elsewhere, or its commit does.
AbortConvert(w) ==
    /\ converting[w] # NotConverting
    /\ converting' = [converting EXCEPT ![w] = NotConverting]
    /\ UNCHANGED <<arrival, attribution, referral, blacklist, primaries, grant, rewarded>>

----------------------------------------------------------------------------
(* Admins and time *)

\* admin_blacklist_referrer and admin_unblacklist_referrer
SetBlacklist(listed) ==
    /\ blacklist' = listed
    /\ UNCHANGED <<arrival, attribution, referral, primaries, grant, rewarded, converting>>

NextMonth ==
    /\ grant' = [c \in Conversions |-> [grant[c] EXCEPT !.month = FALSE]]
    /\ UNCHANGED <<arrival, attribution, referral, blacklist, primaries, rewarded, converting>>

CooldownEnds ==
    /\ grant' = [c \in Conversions |-> [grant[c] EXCEPT !.cooling = FALSE]]
    /\ UNCHANGED <<arrival, attribution, referral, blacklist, primaries, rewarded, converting>>

----------------------------------------------------------------------------
GrowthInit ==
    /\ arrival = [registered |-> FALSE, cookie |-> NoReferrer]
    /\ attribution = NoReferrer
    /\ referral = [r \in Referrers |-> "none"]
    /\ blacklist = {}
    /\ primaries = [c \in Conversions |-> <<>>]
    /\ grant = [c \in Conversions |-> NoGrant]
    /\ rewarded = [c \in Conversions |-> [u \in Earners |-> 0]]
    /\ converting = [w \in Webhooks |-> NotConverting]

GrowthNext ==
    \/ \E r \in Referrers : Land(r) \/ Regenerate(r) \/ Claim(r)
    \/ Register
    \/ \E w \in Webhooks :
          \/ \E c \in Conversions :
                \/ \E roles \in RolesPaid, frozen \in SUBSET Freezable :
                      BeginConvert(w, c, roles, frozen)
                \/ CommitNothing(w, c) \/ CommitBlock(w, c) \/ CommitGrant(w, c)
          \/ AbortConvert(w)
    \/ \E listed \in SUBSET Suspects : SetBlacklist(listed)
    \/ NextMonth \/ CooldownEnds

GrowthSpec == GrowthInit /\ [][GrowthNext]_growthVars
----------------------------------------------------------------------------
GrowthTypeOK ==
    /\ arrival \in [registered : BOOLEAN, cookie : Referrers \cup {NoReferrer}]
    /\ attribution \in ReferralAttribution
    /\ referral \in ReferralLink
    /\ blacklist \in ReferralBlacklist
    /\ \A c \in Conversions : /\ primaries[c] \in ConversionAttribution
                             /\ Len(primaries[c]) <= Cardinality(Webhooks)
    /\ grant \in [Conversions -> ReferralRewardGrant]
    /\ rewarded \in [Conversions -> [Earners -> Nat]]
    /\ \A w \in Webhooks : converting[w].outcome \in {"idle", "nothing", "block", "pay"}

\* Each conversion rewards one pair, once: the friend and the referrer its
\* grant names have at most one entry each, and without the grant nobody has
\* any, whichever webhooks overlap or come again.
ConversionPaysOnce ==
    \A c \in Conversions, u \in Earners :
        rewarded[c][u] <= IF grant[c] # NoGrant /\ u \in {grant[c].to, Friend} THEN 1 ELSE 0

\* A friend has one referrer: no link and no grant names anybody but whom the
\* friend's attribution names.
OneReferrer ==
    /\ \A r \in Referrers : referral[r] # "none" => r = attribution
    /\ \A c \in Conversions : grant[c].to \in {attribution, NoReferrer}
=============================================================================
