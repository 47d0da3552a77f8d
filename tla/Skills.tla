------------------------------- MODULE Skills -------------------------------
(***************************************************************************)
(* A photographer's standing in one niche: the evidence (shoots, reviews,  *)
(* a certificate), the pro_niche_skill row it is graded into, the badges   *)
(* and the administrator's override.  api/app/services/niche_skills.py and *)
(* api/app/api/v1/reviews.py.                                              *)
(*                                                                         *)
(* A grading reads the evidence and the row, and writes them when it       *)
(* commits; a review and its moderation grade in their own transaction.    *)
(* SQLAlchemy writes only the columns whose value differs from what was    *)
(* read.  Tiers are their ranks.                                           *)
(***************************************************************************)
EXTENDS Integers, FiniteSets

CONSTANTS
    Graders,     \* sessions that grade, and
    Overrulers,  \* administrators' sessions, that may overlap
    RatedGigs,      \* the photographer's gigs in the niche
    TopTier,     \* the tier that asks for a certificate
    Moderations, \* the statuses a moderator gives a review
    Decrees      \* the tiers an administrator gives, verified

ASSUME SkillsAssumption == TopTier \in Nat \ {0} /\ Decrees \subseteq 0..TopTier

VARIABLES
    finished,   \* gig: those completed
    review,     \* review: its status, by gig
    certified,  \* certificate of the niche's curriculum, not revoked
    skill,      \* pro_niche_skill
    badges,     \* user_badge: the niche's codes, of tiers and of VerifiedBadge
    grading     \* what each session has read

skillVars == <<finished, review, certified, skill, badges, grading>>

Tiers == 0..TopTier
VerifiedBadge == TopTier + 1
BadgesOf(tier, verified) == {tier} \cup (IF verified THEN {VerifiedBadge} ELSE {})

Grade(tier, verified) == [tier |-> tier, verified |-> verified]
NoGrading == [op |-> "idle", was |-> Grade(0, FALSE), to |-> Grade(0, FALSE), overruled |-> FALSE,
              review |-> {}, seen |-> {}]
GradingIdle(s) == grading[s] = NoGrading

----------------------------------------------------------------------------
(* Grading *)

\* default_tier_thresholds and _tier_from_thresholds, with its other minima
\* folded into the number of shoots: every tier above the first asks for a
\* rating, which is 0 without a published review
MeetsTier(t, published) ==
    t > 0 => /\ Cardinality(finished) >= t
             /\ published # {}
             /\ t = TopTier => certified

Earns(published) ==
    CHOOSE t \in Tiers : /\ MeetsTier(t, published)
                         /\ \A u \in Tiers : MeetsTier(u, published) => u <= t

\* _apply_hysteresis: one promotion, and one demotion, in HYSTERESIS_DAYS
Damped(tier) ==
    IF (tier > skill.tier /\ skill.raised) \/ (tier < skill.tier /\ skill.lowered)
    THEN skill.tier ELSE tier

\* The columns that differ from what the session read
Columns(row, g) ==
    [row EXCEPT !.tier = IF g.to.tier # g.was.tier THEN g.to.tier ELSE @,
                !.verified = IF g.to.verified # g.was.verified THEN g.to.verified ELSE @]

\* The reviews as they are with the one a session posts or moderates
Reviewed(posted) ==
    [g \in RatedGigs |-> IF \E p \in posted : p.gig = g
                      THEN (CHOOSE p \in posted : p.gig = g).status ELSE review[g]]
Published(reviews) == {g \in RatedGigs : reviews[g] = "published"}

\* recompute_pro_niche_skill, up to its flush, for the reviews the session sees
BeginGrade(s, op, posted) ==
    LET tier == Damped(Earns(Published(Reviewed(posted))))
    IN  /\ GradingIdle(s)
        /\ grading' = [grading EXCEPT ![s] =
               [op |-> op, was |-> Grade(skill.tier, skill.verified), to |-> Grade(tier, certified),
                overruled |-> skill.overruled, review |-> posted, seen |-> {}]]
        /\ UNCHANGED <<finished, review, certified, skill, badges>>

Recalculate(s) == BeginGrade(s, "grade", {})

\* create_review_for_gig of a reviewable gig that has none
BeginReviewing(s, g) ==
    /\ g \in finished /\ review[g] = "none"
    /\ BeginGrade(s, "review", {[gig |-> g, status |-> "published"]})

\* moderate_review
BeginModerate(s, g, status) ==
    /\ review[g] # "none"
    /\ BeginGrade(s, "grade", {[gig |-> g, status |-> status]})

\* The unique gig of a review
FirstReview(s) == grading[s].op = "review" => \A p \in grading[s].review : review[p.gig] = "none"

\* Badge rows other sessions had seen are gone when this one deletes them.
Unseen(s, gone) ==
    [o \in DOMAIN grading |->
        IF o = s THEN NoGrading ELSE [grading[o] EXCEPT !.seen = @ \ gone]]

BadgesKeptMutReadEarly(s) == badges \ BadgesOf(grading[s].was.tier, grading[s].was.verified)
\* _sync_niche_badges after the flush of the row, which waits for the other
\* sessions that wrote it: no badge of theirs is missed
BadgesKept(s) == {}

CommitGrade(s) ==
    LET g == grading[s]
    IN  /\ g.op \in {"grade", "review"} /\ FirstReview(s)
        /\ review' = Reviewed(g.review)
        \* breakdown is written unless it says what it said before
        /\ \E rewritten \in BOOLEAN :
              /\ g.overruled => rewritten
              /\ skill' = [Columns(skill, g) EXCEPT !.overruled = @ /\ ~rewritten,
                                                   !.raised = @ \/ g.to.tier > g.was.tier,
                                                   !.lowered = @ \/ g.to.tier < g.was.tier]
        /\ badges' = BadgesKept(s) \cup BadgesOf(g.to.tier, g.to.verified)
        /\ grading' = Unseen(s, badges)
        /\ UNCHANGED <<finished, certified>>

----------------------------------------------------------------------------
(* The override *)

\* admin_override_niche_skill: _sync_niche_badges reads the badges before
\* anything was flushed
BeginOverride(s, tier) ==
    /\ GradingIdle(s)
    /\ grading' = [grading EXCEPT ![s] =
           [NoGrading EXCEPT !.op = "override", !.was = Grade(skill.tier, skill.verified),
                             !.to = Grade(tier, TRUE), !.seen = badges]]
    /\ UNCHANGED <<finished, review, certified, skill, badges>>

\* The unique (user, badge) refuses a badge another session added.
CommitOverride(s) ==
    LET g == grading[s]
        new == BadgesOf(g.to.tier, g.to.verified)
    IN  /\ g.op = "override" /\ new \cap (badges \ g.seen) = {}
        /\ skill' = [Columns(skill, g) EXCEPT !.overruled = TRUE]
        /\ badges' = (badges \ g.seen) \cup new
        /\ grading' = Unseen(s, g.seen)
        /\ UNCHANGED <<finished, review, certified>>

AbortGrading(s) ==
    /\ ~GradingIdle(s)
    /\ grading' = [grading EXCEPT ![s] = NoGrading]
    /\ UNCHANGED <<finished, review, certified, skill, badges>>

----------------------------------------------------------------------------
(* The evidence *)

FinishShoot(g) ==
    /\ finished' = finished \cup {g}
    /\ UNCHANGED <<review, certified, skill, badges, grading>>

\* A curriculum certificate is issued, or revoked.
Certify ==
    /\ certified' = ~certified
    /\ UNCHANGED <<finished, review, skill, badges, grading>>

\* HYSTERESIS_DAYS pass.
CooldownEnds ==
    /\ skill.raised \/ skill.lowered
    /\ skill' = [skill EXCEPT !.raised = FALSE, !.lowered = FALSE]
    /\ UNCHANGED <<finished, review, certified, badges, grading>>

----------------------------------------------------------------------------
SkillsInit ==
    /\ finished = {}
    /\ review = [g \in RatedGigs |-> "none"]
    /\ certified = FALSE
    /\ skill = [tier |-> 0, verified |-> FALSE, overruled |-> FALSE, raised |-> FALSE, lowered |-> FALSE]
    /\ badges = BadgesOf(0, FALSE)
    /\ grading = [s \in Graders \cup Overrulers |-> NoGrading]

SkillsNext ==
    \/ \E s \in Graders :
          \/ Recalculate(s) \/ CommitGrade(s) \/ AbortGrading(s)
          \/ \E g \in RatedGigs : \/ BeginReviewing(s, g)
                               \/ \E status \in Moderations : BeginModerate(s, g, status)
    \/ \E s \in Overrulers :
          \/ \E tier \in Decrees : BeginOverride(s, tier)
          \/ CommitOverride(s) \/ AbortGrading(s)
    \/ \E g \in RatedGigs : FinishShoot(g)
    \/ Certify \/ CooldownEnds

SkillsSpec == SkillsInit /\ [][SkillsNext]_skillVars
----------------------------------------------------------------------------
Grades == [tier : Tiers, verified : BOOLEAN]

SkillsTypeOK ==
    /\ finished \subseteq RatedGigs
    /\ review \in [RatedGigs -> {"none", "published", "hidden"}]
    /\ certified \in BOOLEAN
    /\ skill \in [tier : Tiers, verified : BOOLEAN, overruled : BOOLEAN, raised : BOOLEAN, lowered : BOOLEAN]
    /\ badges \subseteq Tiers \cup {VerifiedBadge}
    /\ \A s \in DOMAIN grading : /\ grading[s].was \in Grades /\ grading[s].to \in Grades
                                 /\ grading[s].seen \subseteq Tiers \cup {VerifiedBadge}

\* However gradings overlap, a photographer shows the badge of one tier of the
\* niche; only an override may leave another, until the next grading.
OneTierBadge == ~skill.overruled => Cardinality(badges \cap Tiers) = 1
=============================================================================
