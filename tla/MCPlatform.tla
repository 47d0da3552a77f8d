----------------------------- MODULE MCPlatform -----------------------------
(***************************************************************************)
(* Small instances, for TLC, of the modules of points, sales, messages and *)
(* media.  They share no state here, so a behaviour is one of the module   *)
(* that part names, while the others stay where they begin.                *)
(***************************************************************************)
EXTENDS Rewards, Minting, Prints, Studioverse, Gamification, Sharing, Growth, Notifications,
        Chats, Media, LegacyShoots, Consents, TLC

CONSTANTS
    Parts,  \* the modules that are run
    Alike   \* names of requests, sessions and users that differ in nothing else

VARIABLE part

PlatformSymmetry == Permutations(Alike)

PlatformInit ==
    /\ part \in Parts
    /\ RewardsInit /\ MintingInit /\ PrintsInit /\ StudioInit /\ GameInit /\ ShareInit
    /\ GrowthInit /\ NoticeInit /\ ChatsInit /\ MediaInit /\ LegacyInit /\ ConsentsInit
    /\ part # "rewards" => scope = CHOOSE s \in Scopes : TRUE
    /\ part # "studioverse" => /\ consent = CHOOSE l \in Consents : TRUE
                               /\ pack.content = CHOOSE c \in Contents : TRUE

\* Every module but p is left alone.
Only(p) ==
    /\ part = p /\ part' = part
    /\ IF p = "rewards" THEN TRUE ELSE UNCHANGED rewardsVars
    /\ IF p = "minting" THEN TRUE ELSE UNCHANGED mintingVars
    /\ IF p = "prints" THEN TRUE ELSE UNCHANGED printVars
    /\ IF p = "studioverse" THEN TRUE ELSE UNCHANGED studioVars
    /\ IF p = "gamification" THEN TRUE ELSE UNCHANGED gameVars
    /\ IF p = "sharing" THEN TRUE ELSE UNCHANGED shareVars
    /\ IF p = "growth" THEN TRUE ELSE UNCHANGED growthVars
    /\ IF p = "notifications" THEN TRUE ELSE UNCHANGED noticeVars
    /\ IF p = "chats" THEN TRUE ELSE UNCHANGED chatVars
    /\ IF p = "media" THEN TRUE ELSE UNCHANGED mediaVars
    /\ IF p = "legacy" THEN TRUE ELSE UNCHANGED legacyVars
    /\ IF p = "consents" THEN TRUE ELSE UNCHANGED consentVars

PlatformNext ==
    \/ Only("rewards") /\ RewardsNext
    \/ Only("minting") /\ MintingNext
    \/ Only("prints") /\ PrintsNext
    \/ Only("studioverse") /\ StudioNext
    \/ Only("gamification") /\ GameNext
    \/ Only("sharing") /\ ShareNext
    \/ Only("growth") /\ GrowthNext
    \/ Only("notifications") /\ NoticeNext
    \/ Only("chats") /\ ChatsNext
    \/ Only("media") /\ MediaNext
    \/ Only("legacy") /\ LegacyNext
    \/ Only("consents") /\ ConsentsNext

PlatformSpec == PlatformInit /\ [][PlatformNext]_<<
    part, rewardsVars, mintingVars, printVars, studioVars, gameVars, shareVars, growthVars,
    noticeVars, chatVars, mediaVars, legacyVars, consentVars>>

\* Every variable of these modules has its type.
PlatformTypeOK ==
    /\ RewardsTypeOK /\ MintingTypeOK /\ PrintsTypeOK /\ StudioTypeOK /\ GameTypeOK
    /\ ShareTypeOK /\ GrowthTypeOK /\ NoticeTypeOK /\ ChatsTypeOK /\ MediaTypeOK
    /\ LegacyTypeOK /\ ConsentsTypeOK
=============================================================================
