------------------------------- MODULE Invites -------------------------------
(***************************************************************************)
(* One wave of invite codes and the photographers who start with them:     *)
(* create_invite_wave, generate_invite_codes, validate_invite_code_for_role*)
(* and redeem_invite_code of api/app/services/launch_ops.py and their      *)
(* admin handlers.                                                         *)
(*                                                                         *)
(* Generating locks the wave.  Redeeming locks nothing: a request decides  *)
(* with what it read and writes when it commits.                           *)
(***************************************************************************)
EXTENDS Integers, FiniteSets

CONSTANTS
    Codes,      \* invite codes
    Newcomers,  \* photographers that start
    Issuers,    \* admin requests that may overlap
    MaxInvites  \* max_invites

ASSUME InvitesAssumption ==
    /\ MaxInvites \in Nat /\ IsFiniteSet(Codes)
    /\ "nobody" \notin Issuers /\ "none" \notin Codes

VARIABLES
    wave,     \* invite_wave: used_invites, active, expired
    code,     \* invite_code: status and redeemed_by_user_id
    started,  \* the code each newcomer's onboarding names
    locked,   \* who holds the row lock of the wave
    issuing,  \* what each request that generates has read, or -1
    redeeming \* the code each newcomer's request has found valid

inviteVars == <<wave, code, started, locked, issuing, redeeming>>

CodeStatus == {"none", "issued", "redeemed", "revoked"}
Blank == [status |-> "none", by |-> "nobody"]
Issued == {c \in Codes : code[c].status # "none"}

\* the wave accepts: active and not past its end
Running == wave.active /\ ~wave.expired

\* SELECT ... FOR UPDATE
BeginGenerateMutUnlocked(a) ==
    /\ issuing[a] = -1
    /\ issuing' = [issuing EXCEPT ![a] = wave.used]
    /\ UNCHANGED <<wave, code, started, locked, redeeming>>
BeginGenerate(a) ==
    /\ issuing[a] = -1 /\ locked = "nobody"
    /\ locked' = a
    /\ issuing' = [issuing EXCEPT ![a] = wave.used]
    /\ UNCHANGED <<wave, code, started, redeeming>>

Generate(a, new) ==
    /\ issuing[a] # -1 /\ Running
    /\ new # {} /\ Cardinality(new) <= MaxInvites - issuing[a]
    /\ \A c \in new : code[c] = Blank
    /\ code' = [c \in Codes |-> IF c \in new THEN [Blank EXCEPT !.status = "issued"] ELSE code[c]]
    /\ wave' = [wave EXCEPT !.used = issuing[a] + Cardinality(new)]
    /\ issuing' = [issuing EXCEPT ![a] = -1]
    /\ locked' = "nobody"
    /\ UNCHANGED <<started, redeeming>>

GiveUpGenerate(a) ==
    /\ issuing[a] # -1
    /\ issuing' = [issuing EXCEPT ![a] = -1]
    /\ locked' = "nobody"
    /\ UNCHANGED <<wave, code, started, redeeming>>

\* validate_invite_code_for_role; the status expired it writes is rolled back
BeginRedeem(p, c) ==
    /\ redeeming[p] = "none" /\ code[c].status = "issued" /\ Running
    /\ redeeming' = [redeeming EXCEPT ![p] = c]
    /\ UNCHANGED <<wave, code, started, locked, issuing>>

\* redeem_invite_code and start_pro_onboarding
Redeem(p) ==
    LET c == redeeming[p]
    IN  /\ c # "none"
        /\ code' = [code EXCEPT ![c] = [status |-> "redeemed", by |-> p]]
        /\ started' = [started EXCEPT ![p] = c]
        /\ redeeming' = [redeeming EXCEPT ![p] = "none"]
        /\ UNCHANGED <<wave, locked, issuing>>

GiveUpRedeem(p) ==
    /\ redeeming[p] # "none"
    /\ redeeming' = [redeeming EXCEPT ![p] = "none"]
    /\ UNCHANGED <<wave, code, started, locked, issuing>>

\* revoke_invite_code, whatever the status
Revoke(c) ==
    /\ code[c] # Blank
    /\ code' = [code EXCEPT ![c].status = "revoked"]
    /\ UNCHANGED <<wave, started, locked, issuing, redeeming>>

Expire ==
    /\ ~wave.expired
    /\ wave' = [wave EXCEPT !.expired = TRUE]
    /\ UNCHANGED <<code, started, locked, issuing, redeeming>>

InvitesInit ==
    /\ wave = [used |-> 0, active |-> TRUE, expired |-> FALSE]
    /\ code = [c \in Codes |-> Blank]
    /\ started = [p \in Newcomers |-> "none"]
    /\ locked = "nobody" /\ issuing = [a \in Issuers |-> -1]
    /\ redeeming = [p \in Newcomers |-> "none"]

InvitesNext ==
    \/ \E a \in Issuers : \/ BeginGenerate(a) \/ GiveUpGenerate(a)
                          \/ \E new \in SUBSET Codes : Generate(a, new)
    \/ \E p \in Newcomers : Redeem(p) \/ GiveUpRedeem(p) \/ \E c \in Codes : BeginRedeem(p, c)
    \/ \E c \in Codes : Revoke(c)
    \/ Expire

InvitesSpec == InvitesInit /\ [][InvitesNext]_inviteVars

----------------------------------------------------------------------------
InvitesTypeOK ==
    /\ wave \in [used : 0..MaxInvites, active : BOOLEAN, expired : BOOLEAN]
    /\ code \in [Codes -> [status : CodeStatus, by : Newcomers \cup {"nobody"}]]
    /\ started \in [Newcomers -> Codes \cup {"none"}]
    /\ locked \in Issuers \cup {"nobody"} /\ issuing \in [Issuers -> -1..MaxInvites]
    /\ redeeming \in [Newcomers -> Codes \cup {"none"}]

\* However the requests of several admins overlap, the codes that exist are
\* those used_invites counts, and never more than max_invites: the count that
\* generate_invite_codes adds to is read under the wave's lock.
InvitesWithinWave == Cardinality(Issued) = wave.used /\ wave.used <= MaxInvites
=============================================================================
