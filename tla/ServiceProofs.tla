---------------------------- MODULE ServiceProofs ----------------------------
(***************************************************************************)
(* Proofs about what photographers learn and deliver, for any courses,     *)
(* gigs, calls, selections and sessions: a curriculum certificate is       *)
(* earned (Learning), a niche shows one badge (Skills), a recipient is     *)
(* called within the daily limit (Calls), extra photos are paid for before *)
(* they are fetched (Selections), and photos are billed once and invoiced  *)
(* as they were booked (Pricing).                                          *)
(***************************************************************************)
EXTENDS WellFoundedInduction, Learning, Skills, Calls, Selections, Pricing, FiniteSetTheorems, TLAPS

----------------------------------------------------------------------------
(* Courses.  What a request of /learn counts as earned when it begins stays *)
(* earned until it commits: no handler takes a completed enrollment back.   *)

EnrollmentRow == [status : {"none", "enrolled", "completed"}, paid : BOOLEAN]

\* A request that studies is about one unit, and counts completed courses.
Counting(s) ==
    studying[s].op \in {"watch", "quiz"} =>
        /\ studying[s].on # {} /\ studying[s].on \subseteq Units
        /\ studying[s].earned \subseteq Earned

EarnedInv ==
    /\ enrollment \in [Courses -> EnrollmentRow] /\ certTasks \subseteq Courses
    /\ studying = [s \in Learners |-> studying[s]]
    /\ \A s \in Learners : Counting(s)
    /\ CurriculumIsEarned

\* A step that completes no more than it says and takes no completion back,
\* issues no curriculum certificate and begins no study keeps the invariant.
LEMMA EarnedStays ==
    ASSUME EarnedInv, enrollment' \in [Courses -> EnrollmentRow], certTasks' \subseteq Courses,
           Earned \subseteq Earned', "curriculum" \in certificates' => "curriculum" \in certificates,
           studying' = [s \in Learners |-> studying'[s]],
           \A s \in Learners : studying'[s] = studying[s] \/ studying'[s].op \notin {"watch", "quiz"}
    PROVE  EarnedInv'
<1>1. ASSUME NEW s \in Learners PROVE Counting(s)'
    BY DEF EarnedInv, Counting
<1>2. CurriculumIsEarned'
    BY DEF EarnedInv, CurriculumIsEarned, Earned
<1> QED BY <1>1, <1>2 DEF EarnedInv

LEMMA EnrollStep ==
    ASSUME EarnedInv, NEW c \in Courses, NEW paid \in BOOLEAN, Enroll(c, paid)
    PROVE  EarnedInv'
<1>1. enrollment' = [enrollment EXCEPT ![c] = [status |-> "enrolled", paid |-> paid]]
      /\ enrollment[c].status = "none" /\ UNCHANGED <<certificates, certTasks, studying>>
    BY DEF Enroll
<1>2. enrollment' \in [Courses -> EnrollmentRow]
    BY <1>1 DEF EarnedInv, EnrollmentRow
<1>3. Earned \subseteq Earned'
    BY <1>1 DEF Earned, EarnedInv
<1> QED BY <1>1, <1>2, <1>3, EarnedStays DEF EarnedInv

\* An enrollment that a step completes is earned, with those that were.
LEMMA Completed ==
    ASSUME EarnedInv, NEW c \in Courses, enrollment' = [enrollment EXCEPT ![c].status = "completed"]
    PROVE  enrollment' \in [Courses -> EnrollmentRow] /\ Earned' = Earned \cup {c}
BY DEF EarnedInv, EnrollmentRow, Earned

LEMMA LessonStep ==
    ASSUME EarnedInv, NEW u \in Older \X Chapters, NEW step, StudyLesson(u, step)
    PROVE  EarnedInv'
<1>1. u[1] \in Courses
    BY LearningAssumption
<1>2. UNCHANGED <<certificates, studying>>
      /\ (certTasks' = certTasks \/ certTasks' = certTasks \cup {u[1]})
      /\ (UNCHANGED enrollment \/ enrollment' = [enrollment EXCEPT ![u[1]].status = "completed"])
    BY DEF StudyLesson
<1>3. enrollment' \in [Courses -> EnrollmentRow] /\ Earned \subseteq Earned'
    BY <1>1, <1>2, Completed DEF EarnedInv, Earned
<1>4. certTasks' \subseteq Courses
    BY <1>1, <1>2 DEF EarnedInv
<1> QED BY <1>2, <1>3, <1>4, EarnedStays DEF EarnedInv

\* What a request wrote of the courses when it commits what it studied
LEMMA CommitStep ==
    ASSUME EarnedInv, NEW s \in Learners, studying[s].op \in {"watch", "quiz"},
           NEW u \in studying[s].on, NEW new, CommitStudy(s, new)
    PROVE  EarnedInv'
<1>1. PICK v \in studying[s].on :
          /\ \/ /\ enrollment' = [enrollment EXCEPT ![v[1]].status = "completed"]
                /\ certificates' = certificates \cup {v[1]} \cup
                       (IF Courses \subseteq studying[s].earned \cup {v[1]} THEN {"curriculum"} ELSE {})
             \/ UNCHANGED <<enrollment, certificates>>
          /\ studying' = [studying EXCEPT ![s] = NotStudying]
          /\ UNCHANGED certTasks
    BY DEF CommitStudy
<1>2. v[1] \in Courses
    BY <1>1 DEF EarnedInv, Counting, Units
<1>3. \A t \in Learners : studying'[t] = studying[t] \/ studying'[t].op \notin {"watch", "quiz"}
    BY <1>1 DEF EarnedInv, NotStudying
<1>4. studying' = [t \in Learners |-> studying'[t]]
    BY <1>1 DEF EarnedInv
<1>5. CASE UNCHANGED <<enrollment, certificates>>
    BY <1>1, <1>3, <1>4, <1>5, EarnedStays DEF EarnedInv, Earned
<1>6. CASE /\ enrollment' = [enrollment EXCEPT ![v[1]].status = "completed"]
           /\ certificates' = certificates \cup {v[1]} \cup
                  (IF Courses \subseteq studying[s].earned \cup {v[1]} THEN {"curriculum"} ELSE {})
    <2>1. enrollment' \in [Courses -> EnrollmentRow] /\ Earned' = Earned \cup {v[1]}
        BY <1>2, <1>6, Completed
    <2>2. CASE Courses \subseteq studying[s].earned \cup {v[1]}
        <3>1. Courses \subseteq Earned'
            BY <2>1, <2>2 DEF EarnedInv, Counting
        <3>2. CurriculumIsEarned'
            BY <3>1 DEF CurriculumIsEarned, Earned
        <3>3. \A t \in Learners : Counting(t)'
            BY <1>3, <2>1 DEF Counting, EarnedInv
        <3> QED BY <1>1, <1>4, <2>1, <3>2, <3>3 DEF EarnedInv
    <2>3. CASE ~(Courses \subseteq studying[s].earned \cup {v[1]})
        <3>1. "curriculum" \in certificates' => "curriculum" \in certificates
            BY <1>2, <1>6, <2>3, LearningAssumption
        <3> QED BY <1>1, <1>3, <1>4, <2>1, <3>1, EarnedStays DEF EarnedInv
    <2> QED BY <2>2, <2>3
<1> QED BY <1>1, <1>5, <1>6

LEMMA LearningStep == EarnedInv /\ [LearningNext]_learningVars => EarnedInv'
<1> SUFFICES ASSUME EarnedInv, [LearningNext]_learningVars PROVE EarnedInv'
    OBVIOUS
<1>1. CASE UNCHANGED <<enrollment, certificates, certTasks, studying>>
    BY <1>1, EarnedStays DEF EarnedInv, Earned
<1>2. ASSUME NEW c \in Edited, \/ \E k \in Chapters : AddUnit(c, k)
                               \/ SubmitCourse(c) \/ ReviewCourse(c) \/ PublishCourse(c) \/ UnpublishCourse(c)
      PROVE  EarnedInv'
    BY <1>1, <1>2 DEF AddUnit, SubmitCourse, ReviewCourse, PublishCourse, UnpublishCourse, SetCourse
<1>3. ASSUME NEW c \in Courses, EnrollToLearn(c) \/ EnrollPublished(c) PROVE EarnedInv'
    BY <1>3, EnrollStep DEF EnrollToLearn, EnrollPublished
<1>4. ASSUME NEW c \in Courses, IssueCertificate(c) \/ LoseTask(c) PROVE EarnedInv'
    BY <1>4, LearningAssumption, EarnedStays DEF IssueCertificate, LoseTask, EarnedInv, Earned
<1>5. ASSUME NEW s \in Learners, NEW op \in {"watch", "quiz"}, NEW u \in Newer \X Chapters, BeginStudy(s, op, u)
      PROVE  EarnedInv'
    <2>1. UNCHANGED <<enrollment, certificates, certTasks>>
          /\ studying' = [studying EXCEPT ![s] = [op |-> op, on |-> {u}, row |-> progress[u],
                              done |-> {v \in Units : progress[v].done}, earned |-> Earned]]
        BY <1>5 DEF BeginStudy
    <2>2. u \in Units
        BY LearningAssumption DEF Units
    <2>3. \A t \in Learners : Counting(t)'
        BY <2>1, <2>2 DEF Counting, Earned, EarnedInv
    <2> QED BY <2>1, <2>3 DEF EarnedInv, CurriculumIsEarned
<1>6. ASSUME NEW s \in Learners, NEW enough \in BOOLEAN, CommitWatch(s, enough) PROVE EarnedInv'
    <2>1. PICK u \in studying[s].on : TRUE
        BY <1>6 DEF CommitWatch, EarnedInv, Counting
    <2> QED BY <1>6, <2>1, CommitStep DEF CommitWatch
<1>7. ASSUME NEW s \in Learners, NEW result \in {"passed", "failed"}, CommitQuiz(s, result) PROVE EarnedInv'
    <2>1. PICK u \in studying[s].on : TRUE
        BY <1>7 DEF CommitQuiz, EarnedInv, Counting
    <2> QED BY <1>7, <2>1, CommitStep DEF CommitQuiz
<1>8. ASSUME NEW s \in Learners, NEW c \in Courses, BeginSettle(s, c) PROVE EarnedInv'
    <2> DEFINE t == [NotStudying EXCEPT !.op = "pay", !.earned = {c}]
    <2>1. t.op = "pay"
        BY DEF NotStudying
    <2>2. studying' = [studying EXCEPT ![s] = t] /\ UNCHANGED <<enrollment, certificates, certTasks>>
        BY <1>8 DEF BeginSettle
    <2> HIDE DEF t
    <2> QED BY <2>1, <2>2, EarnedStays DEF EarnedInv, Earned
<1>9. ASSUME NEW s \in Learners, CommitSettle(s) PROVE EarnedInv'
    <2>1. enrollment' \in [Courses -> EnrollmentRow] /\ Earned' = Earned
        BY <1>9 DEF CommitSettle, EarnedInv, EnrollmentRow, Earned
    <2> QED BY <1>9, <2>1, EarnedStays DEF CommitSettle, EarnedInv, NotStudying
<1>10. ASSUME NEW s \in Learners, AbortStudy(s) PROVE EarnedInv'
    BY <1>10, EarnedStays DEF AbortStudy, EarnedInv, NotStudying, Earned
<1> QED
    BY <1>1, <1>2, <1>3, <1>4, <1>5, <1>6, <1>7, <1>8, <1>9, <1>10, LessonStep, LearningAssumption
    DEF LearningNext, learningVars

\* A curriculum certificate is there only when every mandatory course was
\* completed, for any courses and any overlapping requests.
THEOREM CurriculaAreEarned == LearningSpec => []CurriculumIsEarned
<1>1. LearningInit => EarnedInv
    BY DEF LearningInit, EarnedInv, EnrollmentRow, Counting, NotStudying, CurriculumIsEarned
<1>2. EarnedInv => CurriculumIsEarned
    BY DEF EarnedInv
<1> QED BY <1>1, <1>2, LearningStep, PTL DEF LearningSpec

----------------------------------------------------------------------------
(* Greatest elements.  The library's induction theorems take a predicate;  *)
(* the least-number principle follows from the well-foundedness of < alone. *)

LEMMA LeastNumber ==
    ASSUME NEW T \in SUBSET Nat, T # {}
    PROVE  \E x \in T : \A y \in T : x <= y
<1> DEFINE R == {ss \in Nat \X Nat : ss[1] < ss[2]}
<1>1. IsWellFoundedOn(R, Nat)
    BY NatLessThanWellFounded DEF OpToRel
<1>2. PICK x \in T : \A y \in T : ~ (<<y, x>> \in R)
    <2> HIDE DEF R
    <2> QED BY <1>1, WFMin
<1>3. ASSUME NEW y \in T PROVE x <= y
    <2>1. ~ (<<y, x>> \in R)
        BY <1>2
    <2>2. y < x => <<y, x>> \in R
        OBVIOUS
    <2> QED BY <2>1, <2>2
<1> QED BY <1>2, <1>3

LEMMA GreatestNumber ==
    ASSUME NEW n \in Nat, NEW T \in SUBSET (0..n), T # {}
    PROVE  \E x \in T : \A y \in T : y <= x
<1> DEFINE U == {n - t : t \in T}
<1>1. \A t \in T : n - t \in Nat
    OBVIOUS
<1>2. U \in SUBSET Nat /\ U # {}
    BY <1>1
<1>3. PICK u \in U : \A v \in U : u <= v
    <2> HIDE DEF U
    <2> QED BY <1>2, LeastNumber
<1>4. PICK x \in T : u = n - x
    OBVIOUS
<1>5. \A y \in T : n - x <= n - y
    BY <1>3, <1>4
<1> QED BY <1>4, <1>5

----------------------------------------------------------------------------
(* Badges.  A grading replaces every badge of the niche by those of the    *)
(* tier it found; an override marks the row until the next grading.        *)

BadgeInv ==
    /\ "overruled" \in DOMAIN skill /\ skill.tier \in Tiers
    /\ grading = [s \in Graders \cup Overrulers |-> grading[s]]
    /\ \A s \in Graders \cup Overrulers : grading[s].to.tier \in Tiers
    /\ OneTierBadge

\* There is a tier that is earned: the first asks for nothing.
LEMMA EarnsATier == ASSUME NEW published PROVE Earns(published) \in Tiers
<1> DEFINE T == {t \in Tiers : MeetsTier(t, published)}
<1>1. T \in SUBSET (0..TopTier) /\ 0 \in T
    BY SkillsAssumption DEF Tiers, MeetsTier
<1>2. PICK t \in T : \A u \in T : u <= t
    <2> HIDE DEF T
    <2> QED BY <1>1, GreatestNumber, SkillsAssumption
<1>3. t \in Tiers /\ MeetsTier(t, published) /\ \A u \in Tiers : MeetsTier(u, published) => u <= t
    BY <1>2
<1> QED BY <1>3 DEF Earns

\* What a session is about to write names a tier of the niche, and the row is
\* overruled or the badges are of one tier.
LEMMA BadgesStay ==
    ASSUME BadgeInv, "overruled" \in DOMAIN skill', skill'.tier \in Tiers, OneTierBadge',
           grading' = [s \in Graders \cup Overrulers |-> grading'[s]],
           \A s \in Graders \cup Overrulers :
               grading'[s].to = grading[s].to \/ grading'[s].to.tier \in Tiers
    PROVE  BadgeInv'
BY DEF BadgeInv

LEMMA IdleTier == NoGrading.to.tier \in Tiers
BY SkillsAssumption DEF NoGrading, Grade, Tiers

LEMMA ColumnsTier ==
    ASSUME NEW g, g.to.tier \in Tiers, BadgeInv
    PROVE  Columns(skill, g).tier \in Tiers /\ DOMAIN Columns(skill, g) = DOMAIN skill
BY DEF Columns, BadgeInv

LEMMA UnseenTiers ==
    ASSUME BadgeInv, NEW s, NEW gone, grading' = Unseen(s, gone)
    PROVE  /\ grading' = [o \in Graders \cup Overrulers |-> grading'[o]]
           /\ \A o \in Graders \cup Overrulers :
                  grading'[o].to = grading[o].to \/ grading'[o].to.tier \in Tiers
<1>1. DOMAIN grading = Graders \cup Overrulers
    BY DEF BadgeInv
<1>2. ASSUME NEW o \in Graders \cup Overrulers
      PROVE  grading'[o].to = grading[o].to \/ grading'[o].to.tier \in Tiers
    <2>1. grading'[o] = IF o = s THEN NoGrading ELSE [grading[o] EXCEPT !.seen = @ \ gone]
        BY <1>1 DEF Unseen
    <2> QED BY <2>1, IdleTier
<1> QED BY <1>1, <1>2 DEF Unseen

LEMMA BeginGradeStep ==
    ASSUME BadgeInv, NEW s \in Graders \cup Overrulers, NEW op, NEW posted, BeginGrade(s, op, posted)
    PROVE  BadgeInv'
<1> DEFINE level == Damped(Earns(Published(Reviewed(posted))))
           row == [op |-> op, was |-> Grade(skill.tier, skill.verified), to |-> Grade(level, certified),
                   overruled |-> skill.overruled, review |-> posted, seen |-> {}]
<1>1. level \in Tiers
    BY EarnsATier DEF Damped, BadgeInv
<1>2. row.to.tier = level
    BY DEF Grade
<1>3. grading' = [grading EXCEPT ![s] = row] /\ UNCHANGED <<skill, badges>>
    BY DEF BeginGrade
<1> HIDE DEF level, row
<1> QED BY <1>1, <1>2, <1>3 DEF BadgeInv, OneTierBadge

LEMMA CommitGradeStep == ASSUME BadgeInv, NEW s \in Graders, CommitGrade(s) PROVE BadgeInv'
<1> DEFINE g == grading[s]
<1>1. g.to.tier \in Tiers
    BY DEF BadgeInv
<1>2. PICK rewritten \in BOOLEAN :
          skill' = [Columns(skill, g) EXCEPT !.overruled = @ /\ ~rewritten,
                                             !.raised = @ \/ g.to.tier > g.was.tier,
                                             !.lowered = @ \/ g.to.tier < g.was.tier]
    BY DEF CommitGrade
<1>3. "overruled" \in DOMAIN skill' /\ skill'.tier \in Tiers
    BY <1>1, <1>2, ColumnsTier DEF BadgeInv
<1>4. badges' \cap Tiers = {g.to.tier}
    BY <1>1, SkillsAssumption DEF CommitGrade, BadgesKept, BadgesOf, Tiers, VerifiedBadge
<1>5. Cardinality(badges' \cap Tiers) = 1
    BY <1>4, FS_Singleton
<1>6. OneTierBadge'
    BY <1>5 DEF OneTierBadge, Tiers
<1>7. grading' = Unseen(s, badges)
    BY DEF CommitGrade
<1> QED BY <1>3, <1>6, <1>7, UnseenTiers, BadgesStay

LEMMA CommitOverrideStep == ASSUME BadgeInv, NEW s \in Overrulers, CommitOverride(s) PROVE BadgeInv'
<1> DEFINE g == grading[s]
<1>1. g.to.tier \in Tiers
    BY DEF BadgeInv
<1>2. skill' = [Columns(skill, g) EXCEPT !.overruled = TRUE] /\ grading' = Unseen(s, g.seen)
    BY DEF CommitOverride
<1> DEFINE row == Columns(skill, g)
<1>3. row.tier \in Tiers /\ "overruled" \in DOMAIN row
    BY <1>1, ColumnsTier DEF BadgeInv
<1>4. skill'.tier \in Tiers /\ "overruled" \in DOMAIN skill'
    <2>1. skill' = [row EXCEPT !.overruled = TRUE]
        BY <1>2
    <2> HIDE DEF row
    <2> QED BY <2>1, <1>3
<1>5. skill'.overruled
    <2>1. skill' = [row EXCEPT !.overruled = TRUE]
        BY <1>2
    <2> HIDE DEF row
    <2> QED BY <2>1, <1>3, Zenon
<1>6. OneTierBadge'
    BY <1>5 DEF OneTierBadge
<1> QED BY <1>2, <1>4, <1>6, UnseenTiers, BadgesStay

LEMMA SkillsStep == BadgeInv /\ [SkillsNext]_skillVars => BadgeInv'
<1> SUFFICES ASSUME BadgeInv, [SkillsNext]_skillVars PROVE BadgeInv'
    OBVIOUS
<1>1. CASE UNCHANGED <<skill, badges, grading>>
    BY <1>1 DEF BadgeInv, OneTierBadge
<1>2. ASSUME NEW s \in Graders, Recalculate(s) PROVE BadgeInv'
    BY <1>2, BeginGradeStep DEF Recalculate
<1>3. ASSUME NEW s \in Graders, NEW g \in RatedGigs, BeginReviewing(s, g) PROVE BadgeInv'
    BY <1>3, BeginGradeStep DEF BeginReviewing
<1>4. ASSUME NEW s \in Graders, NEW g \in RatedGigs, NEW status \in Moderations, BeginModerate(s, g, status)
      PROVE  BadgeInv'
    BY <1>4, BeginGradeStep DEF BeginModerate
<1>5. ASSUME NEW s \in Overrulers, NEW level \in Decrees, BeginOverride(s, level) PROVE BadgeInv'
    <2> DEFINE row == [NoGrading EXCEPT !.op = "override", !.was = Grade(skill.tier, skill.verified),
                                        !.to = Grade(level, TRUE), !.seen = badges]
    <2>1. row.to.tier = level /\ level \in Tiers
        BY SkillsAssumption DEF NoGrading, Grade, Tiers
    <2>2. grading' = [grading EXCEPT ![s] = row] /\ UNCHANGED <<skill, badges>>
        BY <1>5 DEF BeginOverride
    <2> HIDE DEF row
    <2> QED BY <2>1, <2>2 DEF BadgeInv, OneTierBadge
<1>6. ASSUME NEW s \in Graders \cup Overrulers, AbortGrading(s) PROVE BadgeInv'
    BY <1>6, IdleTier DEF AbortGrading, BadgeInv, OneTierBadge
<1>7. CASE CooldownEnds
    <2>1. skill' = [skill EXCEPT !.raised = FALSE, !.lowered = FALSE] /\ UNCHANGED <<badges, grading>>
        BY <1>7 DEF CooldownEnds
    <2>2. PICK no \in BOOLEAN : no = FALSE
        OBVIOUS
    <2>3. skill' = [skill EXCEPT !.raised = no, !.lowered = no]
        BY <2>1, <2>2
    <2>4. DOMAIN skill' = DOMAIN skill /\ skill'.tier = skill.tier /\ skill'.overruled = skill.overruled
        BY <2>3 DEF BadgeInv
    <2> QED BY <2>1, <2>4 DEF BadgeInv, OneTierBadge
<1> QED
    BY <1>1, <1>2, <1>3, <1>4, <1>5, <1>6, <1>7, CommitGradeStep, CommitOverrideStep
    DEF SkillsNext, skillVars, FinishShoot, Certify

\* A photographer shows the badge of exactly one tier of a niche unless an
\* override stands, for any gradings, reviews and overrides that overlap.
THEOREM OneBadgePerNiche == SkillsSpec => []OneTierBadge
<1>1. SkillsInit => BadgeInv
    <2> SUFFICES ASSUME SkillsInit PROVE BadgeInv
        OBVIOUS
    <2>1. badges \cap Tiers = {0}
        BY SkillsAssumption DEF SkillsInit, BadgesOf, Tiers
    <2>2. OneTierBadge
        BY <2>1, FS_Singleton DEF OneTierBadge
    <2> QED BY <2>2, IdleTier, SkillsAssumption DEF SkillsInit, BadgeInv, Tiers
<1>2. BadgeInv => OneTierBadge
    BY DEF BadgeInv
<1> QED BY <1>1, <1>2, SkillsStep, PTL DEF SkillsSpec

----------------------------------------------------------------------------
(* Calls.  A call that is checked counts itself, and stays counted until   *)
(* it fails: so those the provider was told of are within the count that   *)
(* the last of them passed.                                                *)

TaskStatus == {"none", "waiting", "checked", "dialled", "known", "over"}
Live == (dialled \ lost) \cup {c \in CallIds : task[c] = "checked"}
Within(S) == S = {} \/ Cardinality(S) < DailyLimit

\* A call whose task passed its check was committed.
Started(c) == task[c] \in {"checked", "dialled", "known"} => call[c] \in {"queued"} \cup Reports

\* The calls a sweep flushed are its own until it commits.
Pending(p, c) == c \in sweep[p].calls =>
    c \in CallIds /\ call[c] = "flushed" /\ \A q \in Sweeps : q # p => c \notin sweep[q].calls

CallShape ==
    /\ call \in CallSession /\ task \in [CallIds -> TaskStatus]
    /\ dialled \subseteq CallIds /\ sweep = [p \in Sweeps |-> sweep[p]]
CallInv ==
    /\ CallShape
    /\ \A c \in CallIds : Started(c)
    /\ \A p \in Sweeps : \A c \in sweep[p].calls : Pending(p, c)
    /\ Live \subseteq Counted /\ Within(Live)

LEMMA WithinSubset == ASSUME NEW S, IsFiniteSet(S), Within(S), NEW T \in SUBSET S PROVE Within(T)
BY FS_Subset, FS_CardinalityType, CallsAssumption DEF Within

LEMMA LiveFinite == CallInv => IsFiniteSet(Live) /\ IsFiniteSet(Counted)
<1> SUFFICES ASSUME CallInv PROVE IsFiniteSet(Live) /\ IsFiniteSet(Counted)
    OBVIOUS
<1>1. Live \subseteq CallIds /\ Counted \subseteq CallIds
    BY DEF CallInv, CallShape, Live, Counted
<1> QED BY <1>1, FS_Subset, CallsAssumption

\* A step of one call c that makes no call live and moves c as its task says
LEMMA OneCallStep ==
    ASSUME CallInv, NEW c \in CallIds, NEW status \in CallSessionStatus, NEW stage \in TaskStatus,
           \A p \in Sweeps : c \notin sweep[p].calls,
           call' = [call EXCEPT ![c] = status], task' = [task EXCEPT ![c] = stage],
           stage \in {"checked", "dialled", "known"} => status \in {"queued"} \cup Reports,
           dialled' \subseteq CallIds, Live' \subseteq Live, UNCHANGED sweep,
           c \in Live' => status \in {"queued", "dialing", "in_progress", "completed"}
    PROVE  CallInv'
<1>1. CallShape'
    BY DEF CallInv, CallShape, CallSession
<1>2. \A d \in CallIds : Started(d)'
    BY DEF CallInv, CallShape, CallSession, Started
<1>3. \A p \in Sweeps : \A d \in sweep[p].calls : Pending(p, d)'
    BY DEF CallInv, CallShape, CallSession, Pending
<1>4. Live' \subseteq Counted'
    BY DEF CallInv, CallShape, CallSession, Counted
<1>5. Within(Live)'
    <2>1. Within(Live')
        BY LiveFinite, WithinSubset DEF CallInv
    <2> QED BY <2>1 DEF Within
<1> QED BY <1>1, <1>2, <1>3, <1>4, <1>5 DEF CallInv

LEMMA NotFlushed ==
    ASSUME CallInv, NEW c \in CallIds, call[c] # "flushed"
    PROVE  \A p \in Sweeps : c \notin sweep[p].calls
BY DEF CallInv, Pending

LEMMA RequestStep ==
    ASSUME CallInv, NEW c \in CallIds,
           (\E button \in BOOLEAN : AskCall(c, button)) \/ DelayCall(c) \/ CommitCall(c) \/ AbortCall(c)
    PROVE  CallInv'
<1>1. \A p \in Sweeps : c \notin sweep[p].calls
    BY NotFlushed DEF AskCall, DelayCall, CommitCall, AbortCall
<1>2. PICK status \in {"asked", "flushed", "queued", "gone"} : call' = [call EXCEPT ![c] = status]
    BY DEF AskCall, DelayCall, CommitCall, AbortCall
<1>3. PICK stage \in {"waiting", task[c]} : task' = [task EXCEPT ![c] = stage]
    BY DEF AskCall, DelayCall, CommitCall, AbortCall, CallInv, CallShape
<1>4. call[c] \in {"none", "asked", "flushed"} /\ UNCHANGED <<dialled, lost, sweep>>
    BY DEF AskCall, DelayCall, CommitCall, AbortCall
<1>5. task[c] \notin {"checked", "dialled", "known"} /\ c \notin Live
    BY <1>4 DEF CallInv, Started, Counted, Reports, Ended
<1>6. Live' \subseteq Live
    BY <1>3, <1>4, <1>5 DEF Live, CallInv, CallShape
<1>7. status \in CallSessionStatus /\ stage \in TaskStatus
    BY DEF CallSessionStatus, TaskStatus, CallInv, CallShape
<1> QED BY <1>1, <1>2, <1>3, <1>4, <1>5, <1>6, <1>7, OneCallStep DEF CallInv, CallShape

\* The check counts the call among those of the day.
LEMMA CheckStep == ASSUME CallInv, NEW c \in CallIds, CheckCall(c) PROVE CallInv'
<1>1. /\ task[c] = "waiting" /\ call[c] = "queued" /\ Cardinality(Counted \cup {}) < DailyLimit
      /\ task' = [task EXCEPT ![c] = "checked"] /\ UNCHANGED <<call, dialled, lost, sweep>>
    BY DEF CheckCall, CallAllowed
<1>2. Live' \subseteq Live \cup {c}
    BY <1>1 DEF Live, CallInv, CallShape
<1>3. Live' \in SUBSET Counted
    BY <1>1, <1>2 DEF CallInv, Counted
<1>4. Counted \cup {} = Counted
    OBVIOUS
<1>5. Within(Counted)
    BY <1>1, <1>4 DEF Within
<1>6. Within(Live')
    BY <1>3, <1>5, LiveFinite, WithinSubset
<1>7. Counted' = Counted /\ Within(Live)'
    BY <1>1, <1>6 DEF Counted, Within
<1>8. CallShape' /\ (\A d \in CallIds : Started(d)') /\ \A p \in Sweeps : \A d \in sweep[p].calls : Pending(p, d)'
    BY <1>1 DEF CallInv, CallShape, Started, Pending, TaskStatus
<1> QED BY <1>1, <1>3, <1>7, <1>8 DEF CallInv

\* A step of a task that leaves the call as it is and makes no call live
LEMMA QuietTaskStep ==
    ASSUME CallInv, NEW c \in CallIds, NEW stage \in {"dialled", "over"},
           task' = [task EXCEPT ![c] = stage], stage = "dialled" => task[c] = "checked",
           UNCHANGED <<call, lost, sweep>>, dialled' \subseteq CallIds, Live' \subseteq Live
    PROVE  CallInv'
<1>1. Within(Live')
    BY LiveFinite, WithinSubset DEF CallInv
<1>2. Counted' = Counted /\ Within(Live)'
    BY <1>1 DEF Counted, Within
<1>3. CallShape' /\ (\A d \in CallIds : Started(d)') /\ \A p \in Sweeps : \A d \in sweep[p].calls : Pending(p, d)'
    BY DEF CallInv, CallShape, Started, Pending, TaskStatus
<1> QED BY <1>2, <1>3 DEF CallInv

LEMMA TaskStep ==
    ASSUME CallInv, NEW c \in CallIds,
           \/ DropTask(c) \/ Dial(c) \/ FailTask(c) \/ CrashTask(c)
           \/ \E status \in Reports : CommitDial(c, status) \/ ReportCall(c, status)
    PROVE  CallInv'
<1>1. CASE DropTask(c) \/ CrashTask(c)
    <2>1. task' = [task EXCEPT ![c] = "over"] /\ UNCHANGED <<call, dialled, lost, sweep>>
        BY <1>1 DEF DropTask, CrashTask
    <2>2. Live' \subseteq Live
        BY <2>1 DEF Live, CallInv, CallShape
    <2> QED BY <2>1, <2>2, QuietTaskStep DEF CallInv, CallShape
<1>2. CASE Dial(c)
    <2>1. /\ task[c] = "checked" /\ task' = [task EXCEPT ![c] = "dialled"]
          /\ dialled' = dialled \cup {c} /\ UNCHANGED <<call, lost, sweep>>
        BY <1>2 DEF Dial
    <2>2. Live' \subseteq Live
        BY <2>1 DEF Live, CallInv, CallShape
    <2> QED BY <2>1, <2>2, QuietTaskStep DEF CallInv, CallShape
<1>3. CASE FailTask(c)
    <2>1. /\ task' = [task EXCEPT ![c] = "over"] /\ call' = [call EXCEPT ![c] = "failed"]
          /\ lost' = lost \cup {c} /\ UNCHANGED <<dialled, sweep>>
        BY <1>3 DEF FailTask
    <2>2. call[c] # "flushed"
        BY <1>3 DEF FailTask, CallInv, Started, Reports, Ended
    <2>3. Live' \subseteq Live /\ c \notin Live'
        BY <2>1 DEF Live, CallInv, CallShape
    <2>4. "failed" \in CallSessionStatus /\ "over" \in TaskStatus
        BY DEF CallSessionStatus, TaskStatus, Reports, Ended
    <2> QED BY <2>1, <2>2, <2>3, <2>4, NotFlushed, OneCallStep DEF CallInv, CallShape
<1>4. ASSUME NEW status \in Reports, CommitDial(c, status) \/ ReportCall(c, status) PROVE CallInv'
    <2>1. /\ task[c] \in {"dialled", "known"} /\ task' = [task EXCEPT ![c] = "known"]
          /\ call' = [call EXCEPT ![c] = status] /\ UNCHANGED <<dialled, sweep>>
        BY <1>4 DEF CommitDial, ReportCall, CallInv, CallShape
    <2>2. call[c] # "flushed"
        BY <2>1 DEF CallInv, Started, Reports, Ended
    <2>3. lost \subseteq lost' /\ (status \in {"failed", "cancelled"} => c \in lost')
        BY <1>4 DEF CommitDial, ReportCall
    <2>4. Live' \subseteq Live
        BY <2>1, <2>3 DEF Live, CallInv, CallShape
    <2>5. c \in Live' => status \in {"queued", "dialing", "in_progress", "completed"}
        BY <2>1, <2>3 DEF Live, CallInv, CallShape, Reports, Ended
    <2>6. status \in CallSessionStatus /\ "known" \in TaskStatus /\ status \in {"queued"} \cup Reports
        BY DEF CallSessionStatus, TaskStatus
    <2> QED BY <2>1, <2>2, <2>4, <2>5, <2>6, NotFlushed, OneCallStep DEF CallInv, CallShape
<1> QED BY <1>1, <1>2, <1>3, <1>4

\* A sweep's own steps: its row keeps its calls, and nothing else is touched.
LEMMA SweepMarked ==
    ASSUME CallInv, NEW p \in Sweeps, NEW row, row.calls = sweep[p].calls,
           sweep' = [sweep EXCEPT ![p] = row], UNCHANGED <<call, task, dialled, lost>>
    PROVE  CallInv'
<1>1. \A q \in Sweeps : sweep'[q].calls = sweep[q].calls
    BY DEF CallInv, CallShape
<1>2. CallShape' /\ (\A d \in CallIds : Started(d)')
    BY DEF CallInv, CallShape, Started
<1>3. \A q \in Sweeps : \A d \in sweep'[q].calls : Pending(q, d)'
    BY <1>1 DEF CallInv, Pending
<1>4. Live' = Live /\ Counted' = Counted
    BY DEF Live, Counted
<1>5. Within(Live)'
    BY <1>4 DEF CallInv, Within
<1> QED BY <1>2, <1>3, <1>4, <1>5 DEF CallInv

\* The sweep flushes a call of its own, which nobody has asked for.
LEMMA FlushStep ==
    ASSUME CallInv, NEW p \in Sweeps, NEW c \in CallIds, NEW row, call[c] = "none",
           row.calls = sweep[p].calls \cup {c}, sweep' = [sweep EXCEPT ![p] = row],
           call' = [call EXCEPT ![c] = "flushed"], task' = [task EXCEPT ![c] = "waiting"],
           UNCHANGED <<dialled, lost>>
    PROVE  CallInv'
<1>1. task[c] \notin {"checked", "dialled", "known"} /\ c \notin Live
    BY DEF CallInv, Started, Counted, Reports, Ended
<1>2. CallShape' /\ (\A d \in CallIds : Started(d)')
    BY DEF CallInv, CallShape, CallSession, CallSessionStatus, TaskStatus, Started
<1>3. \A q \in Sweeps : \A d \in sweep'[q].calls : Pending(q, d)'
    BY NotFlushed DEF CallInv, CallShape, CallSession, Pending
<1>4. Live' = Live /\ Live \subseteq Counted'
    BY <1>1 DEF Live, Counted, CallInv, CallShape, CallSession
<1>5. Within(Live)'
    BY <1>4 DEF CallInv, Within
<1> QED BY <1>2, <1>3, <1>4, <1>5 DEF CallInv

\* The sweep ends: its calls are queued, or gone.
LEMMA SweepEnds ==
    ASSUME CallInv, NEW p \in Sweeps, NEW status \in {"queued", "gone"},
           call' = [c \in CallIds |-> IF c \in sweep[p].calls THEN status ELSE call[c]],
           sweep' = [sweep EXCEPT ![p] = NotSweeping], UNCHANGED <<task, dialled, lost>>
    PROVE  CallInv'
<1>1. \A c \in sweep[p].calls : c \in CallIds /\ call[c] = "flushed"
    BY DEF CallInv, Pending
<1>2. \A c \in sweep[p].calls : task[c] \notin {"checked", "dialled", "known"} /\ c \notin Live
    BY <1>1 DEF CallInv, Started, Counted, Reports, Ended
<1>3. CallShape' /\ (\A d \in CallIds : Started(d)')
    BY <1>2 DEF CallInv, CallShape, CallSession, CallSessionStatus, Started
<1>4. \A q \in Sweeps : \A d \in sweep'[q].calls : Pending(q, d)'
    BY DEF CallInv, CallShape, Pending, NotSweeping
<1>5. Live' = Live /\ Live \subseteq Counted'
    BY <1>2 DEF Live, Counted, CallInv
<1>6. Within(Live)'
    BY <1>5 DEF CallInv, Within
<1> QED BY <1>3, <1>4, <1>5, <1>6 DEF CallInv

LEMMA CallsStep == CallInv /\ [CallsNext]_callVars => CallInv'
<1> SUFFICES ASSUME CallInv, [CallsNext]_callVars PROVE CallInv'
    OBVIOUS
<1>1. CASE UNCHANGED <<call, task, dialled, lost, sweep>>
    <2>1. Live' = Live /\ Counted' = Counted
        BY <1>1 DEF Live, Counted
    <2> QED BY <1>1, <2>1 DEF CallInv, CallShape, Started, Pending, Within
<1>2. ASSUME NEW p \in Sweeps, BeginJobSweep(p) PROVE CallInv'
    <2>1. PICK due \in SUBSET CallJobs : sweep' = [sweep EXCEPT ![p].due = due]
        BY <1>2 DEF BeginJobSweep
    <2> DEFINE row == [sweep[p] EXCEPT !.due = due]
    <2>2. row.calls = sweep[p].calls
        OBVIOUS
    <2>3. sweep' = [sweep EXCEPT ![p] = row]
        BY <2>1
    <2> HIDE DEF row
    <2> QED BY <1>2, <2>2, <2>3, SweepMarked DEF BeginJobSweep
<1>3. ASSUME NEW p \in Sweeps, NEW j \in CallJobs, FailJob(p, j) PROVE CallInv'
    <2> DEFINE row == [sweep[p] EXCEPT !.due = @ \ {j}, !.failed = @ \cup {j}]
    <2>1. row.calls = sweep[p].calls
        OBVIOUS
    <2>2. sweep' = [sweep EXCEPT ![p] = row]
        BY <1>3 DEF FailJob, CallInv, CallShape
    <2> HIDE DEF row
    <2> QED BY <1>3, <2>1, <2>2, SweepMarked DEF FailJob
<1>4. ASSUME NEW p \in Sweeps, NEW j \in CallJobs, NEW c \in CallIds, SendJob(p, j, c) PROVE CallInv'
    <2>1. CASE j \in PhoneJobs
        <3> DEFINE row == [sweep[p] EXCEPT !.due = @ \ {j}, !.done = @ \cup {j}, !.calls = @ \cup {c}]
        <3>1. row.calls = sweep[p].calls \cup {c}
            OBVIOUS
        <3>2. sweep' = [sweep EXCEPT ![p] = row]
            BY <1>4, <2>1 DEF SendJob, CallInv, CallShape
        <3> HIDE DEF row
        <3> QED BY <1>4, <2>1, <3>1, <3>2, FlushStep DEF SendJob
    <2>2. CASE j \notin PhoneJobs
        <3> DEFINE row == [sweep[p] EXCEPT !.due = @ \ {j}, !.done = @ \cup {j}]
        <3>1. row.calls = sweep[p].calls
            OBVIOUS
        <3>2. sweep' = [sweep EXCEPT ![p] = row]
            BY <1>4, <2>2 DEF SendJob, CallInv, CallShape
        <3> HIDE DEF row
        <3> QED BY <1>4, <2>2, <3>1, <3>2, SweepMarked DEF SendJob
    <2> QED BY <2>1, <2>2
<1>5. ASSUME NEW p \in Sweeps, CommitSweep(p) \/ AbortSweep(p) PROVE CallInv'
    BY <1>5, SweepEnds DEF CommitSweep, AbortSweep
<1> QED
    BY <1>1, <1>2, <1>3, <1>4, <1>5, RequestStep, CheckStep, TaskStep
    DEF CallsNext, callVars, SetConsent, SetQuiet, ScheduleJob

\* Fewer calls than the day's limit are made to a recipient and not lost, for
\* any limit, calls, jobs, sweeps and tasks that overlap without a lock.
THEOREM RecipientsAreSpared == CallsSpec => []CallsWithinDailyLimit
<1>1. CallsInit => CallInv
    BY DEF CallsInit, CallInv, CallShape, CallSession, CallSessionStatus, TaskStatus, Started, Pending,
           NotSweeping, Live, Within
<1>2. CallInv => CallsWithinDailyLimit
    <2> SUFFICES ASSUME CallInv PROVE CallsWithinDailyLimit
        OBVIOUS
    <2>1. dialled \ lost \in SUBSET Live
        BY DEF Live
    <2>2. Within(dialled \ lost)
        BY <2>1, LiveFinite, WithinSubset DEF CallInv
    <2> QED BY <2>2 DEF Within, CallsWithinDailyLimit
<1> QED BY <1>1, <1>2, CallsStep, PTL DEF CallsSpec

----------------------------------------------------------------------------
(* Extra photos.  A purchase says succeeded only after Stripe charged its  *)
(* intent, which is made once for a saved selection; and a saved selection *)
(* keeps its photos, for every save makes a new one.                       *)

Row(v) ==
    /\ picks[v].count \in Nat
    /\ intent[v] # "none" => v \in Saved /\ extras[v] # "none"
    /\ extras[v] = "succeeded" \/ <<v, "succeeded">> \in news => Charged(v)

Cart(s) ==
    /\ shopping[s].op = "save" =>
          /\ shopping[s].pick \in SelectionIds /\ picks[shopping[s].pick] = NoPick
          /\ shopping[s].count \in Nat
          /\ \A t \in Shoppers \ {s} : shopping[t].op = "save" => shopping[t].pick # shopping[s].pick
    /\ shopping[s].op \in {"submit", "buy"} => shopping[s].pick \in Saved

Closed == gate = "selection_submitted" => \E v \in Saved : Extra(v) = 0 \/ Charged(v)

SelectShape ==
    /\ picks = [v \in SelectionIds |-> picks[v]] /\ extras = [v \in SelectionIds |-> extras[v]]
    /\ intent = [v \in SelectionIds |-> intent[v]] /\ shopping = [s \in Shoppers |-> shopping[s]]
    /\ lastBought \in SelectionIds \cup {NoPurchase}
SelectInv ==
    /\ SelectShape
    /\ \A v \in SelectionIds : Row(v)
    /\ \A s \in Shoppers : Cart(s)
    /\ Closed

LEMMA Idles == NoShopping.op = "idle"
BY DEF NoShopping

\* Beginning a request: what it read is of a saved selection, or of a new one.
LEMMA ShoppingStep ==
    ASSUME SelectInv, NEW s \in Shoppers, NEW row, shopping' = [shopping EXCEPT ![s] = row],
           UNCHANGED <<gate, picks, purchaseVars, news>>,
           row.op = "save" => /\ row.pick \in SelectionIds /\ picks[row.pick] = NoPick /\ row.count \in Nat
                              /\ \A t \in Shoppers : shopping[t].op = "save" => shopping[t].pick # row.pick,
           row.op \in {"submit", "buy"} => row.pick \in Saved
    PROVE  SelectInv'
<1>1. Saved' = Saved
    BY DEF Saved
<1>2. ASSUME NEW t \in Shoppers PROVE Cart(t)'
    BY <1>1 DEF SelectInv, SelectShape, Cart
<1>3. SelectShape' /\ (\A v \in SelectionIds : Row(v)') /\ Closed'
    BY <1>1 DEF SelectInv, SelectShape, Row, Closed, Extra, Charged, purchaseVars
<1> QED BY <1>2, <1>3 DEF SelectInv

LEMMA BeginShoppingStep ==
    ASSUME SelectInv, NEW s \in Shoppers, NEW v \in SelectionIds,
           (\E n \in Counts : BeginSave(s, v, n)) \/ BeginSubmitPick(s, v) \/ BeginBuy(s, v)
    PROVE  SelectInv'
<1>1. ASSUME NEW n \in Counts, BeginSave(s, v, n) PROVE SelectInv'
    <2> DEFINE version == 1 + (IF Saved = {} THEN 0 ELSE picks[CHOOSE w \in Newest(Saved) : TRUE].version)
               row == [NoShopping EXCEPT !.op = "save", !.pick = v, !.count = n, !.version = version]
    <2>1. shopping' = [shopping EXCEPT ![s] = row]
        BY <1>1 DEF BeginSave
    <2>2. row.op = "save" /\ row.pick = v /\ row.count = n
        BY DEF NoShopping
    <2>3. n \in Nat
        BY SelectionsAssumption
    <2>4. /\ picks[v] = NoPick /\ \A t \in Shoppers : shopping[t].op = "save" => shopping[t].pick # v
          /\ UNCHANGED <<gate, picks, purchaseVars, news>>
        BY <1>1 DEF BeginSave
    <2> HIDE DEF row, version
    <2> QED BY <2>1, <2>2, <2>3, <2>4, ShoppingStep
<1>2. ASSUME NEW op \in {"submit", "buy"}, ReadsPurchase(s, op, v), v \in Newest(Saved),
             UNCHANGED <<gate, picks, purchaseVars, news, rights>>
      PROVE  SelectInv'
    <2> DEFINE row == [NoShopping EXCEPT !.op = op, !.pick = v, !.sold = extras[v] # "none", !.last = lastBought]
    <2>1. shopping' = [shopping EXCEPT ![s] = row]
        BY <1>2 DEF ReadsPurchase
    <2>2. row.op = op /\ row.pick = v
        BY DEF NoShopping
    <2>3. v \in Saved
        BY <1>2 DEF Newest
    <2> HIDE DEF row
    <2> QED BY <1>2, <2>1, <2>2, <2>3, ShoppingStep
<1> QED BY <1>1, <1>2 DEF BeginSubmitPick, BeginBuy

\* A new selection leaves those saved before as they are.
LEMMA CommitSaveStep == ASSUME SelectInv, NEW s \in Shoppers, CommitSave(s) PROVE SelectInv'
<1> DEFINE q == shopping[s]
           row == [version |-> q.version, count |-> q.count, status |-> "draft"]
<1>1. picks' = [picks EXCEPT ![q.pick] = row] /\ shopping' = [shopping EXCEPT ![s] = NoShopping]
      /\ q.op = "save" /\ UNCHANGED <<gate, extras, lastBought, intent, news>>
    BY DEF CommitSave, EndShopping, purchaseVars
<1>2. row # NoPick /\ row.count = q.count
    BY DEF NoPick
<1>3. q.pick \in SelectionIds /\ q.pick \notin Saved /\ q.count \in Nat
      /\ \A t \in Shoppers \ {s} : shopping[t].op = "save" => shopping[t].pick # q.pick
    BY <1>1 DEF SelectInv, Cart, Saved
<1> HIDE DEF row, q
<1>4. Saved' = Saved \cup {q.pick} /\ \A v \in Saved : picks'[v] = picks[v]
    BY <1>1, <1>2, <1>3 DEF Saved, SelectInv, SelectShape
<1>5. \A v \in SelectionIds : Row(v)'
    BY <1>1, <1>2, <1>3, <1>4 DEF SelectInv, SelectShape, Row, Charged
<1>6. ASSUME NEW t \in Shoppers PROVE Cart(t)'
    <2>1. CASE t = s
        BY <1>1, <2>1, Idles DEF SelectInv, SelectShape, Cart
    <2>2. CASE t # s
        <3>1. \A u \in Shoppers : shopping'[u] = IF u = s THEN NoShopping ELSE shopping[u]
            BY <1>1 DEF SelectInv, SelectShape
        <3>2. shopping'[t] = shopping[t] /\ Cart(t)
            BY <2>2, <3>1 DEF SelectInv
        <3>3. shopping[t].op = "save" => picks'[shopping[t].pick] = picks[shopping[t].pick]
            BY <1>1, <1>3, <2>2 DEF SelectInv, SelectShape
        <3>4. \A u \in Shoppers \ {t} : shopping'[u].op = "save" => u # s /\ shopping'[u] = shopping[u]
            BY <3>1, Idles
        <3> QED BY <1>4, <3>2, <3>3, <3>4 DEF Cart
    <2> QED BY <2>1, <2>2
<1>7. Closed'
    BY <1>1, <1>4 DEF SelectInv, Closed, Extra, Charged
<1> QED BY <1>1, <1>5, <1>6, <1>7 DEF SelectInv, SelectShape

\* A purchase is made with its intent, or was made before.
LEMMA UpsellRows ==
    ASSUME SelectInv, NEW s \in Shoppers, shopping[s].pick \in Saved, EnsureUpsell(s),
           Saved' = Saved, \A v \in SelectionIds : picks'[v].count = picks[v].count, UNCHANGED news
    PROVE  /\ extras' = [v \in SelectionIds |-> extras'[v]] /\ intent' = [v \in SelectionIds |-> intent'[v]]
           /\ lastBought' \in SelectionIds \cup {NoPurchase}
           /\ \A v \in SelectionIds : Row(v)' /\ (Charged(v) => Charged(v)')
<1> DEFINE v == shopping[s].pick
<1>1. v \in SelectionIds
    BY DEF Saved
<1>2. CASE UNCHANGED purchaseVars
    BY <1>2 DEF purchaseVars, SelectInv, SelectShape, Row, Charged
<1>3. CASE /\ extras[v] = "none" /\ extras' = [extras EXCEPT ![v] = "pending"]
           /\ intent' = [intent EXCEPT ![v] = "open"]
           /\ (lastBought' = v \/ lastBought' = lastBought)
    <2>1. intent[v] = "none"
        BY <1>1, <1>3 DEF SelectInv, Row
    <2>2. ASSUME NEW w \in SelectionIds PROVE Row(w)' /\ (Charged(w) => Charged(w)')
        BY <1>1, <1>3, <2>1, <2>2 DEF SelectInv, SelectShape, Row, Charged
    <2> QED BY <1>1, <1>3, <2>2 DEF SelectInv, SelectShape
<1> QED BY <1>2, <1>3 DEF EnsureUpsell

\* A request that ends is idle; the others still hold what they read.
LEMMA CartsStay ==
    ASSUME SelectInv, NEW s \in Shoppers, EndShopping(s), Saved' = Saved,
           \A v \in SelectionIds : picks[v] = NoPick => picks'[v] = NoPick
    PROVE  shopping' = [t \in Shoppers |-> shopping'[t]] /\ \A t \in Shoppers : Cart(t)'
<1>1. \A t \in Shoppers : shopping'[t] = IF t = s THEN NoShopping ELSE shopping[t]
    BY DEF EndShopping, SelectInv, SelectShape
<1>2. ASSUME NEW t \in Shoppers PROVE Cart(t)'
    <2>1. CASE t = s
        BY <1>1, <2>1, Idles DEF Cart
    <2>2. CASE t # s
        <3>1. shopping'[t] = shopping[t] /\ Cart(t)
            BY <1>1, <2>2 DEF SelectInv
        <3>2. \A u \in Shoppers : shopping'[u].op = "save" => shopping'[u] = shopping[u]
            BY <1>1, Idles
        <3> QED BY <3>1, <3>2 DEF Cart
    <2> QED BY <2>1, <2>2
<1> QED BY <1>2 DEF EndShopping, SelectInv, SelectShape

\* The gallery stays closed by a selection that owes nothing.
LEMMA ClosedStays ==
    ASSUME SelectInv, UNCHANGED gate, Saved \subseteq Saved',
           \A v \in Saved : picks'[v].count = picks[v].count /\ (Charged(v) => Charged(v)')
    PROVE  Closed'
BY DEF SelectInv, Closed, Extra

LEMMA CommitSubmitStep == ASSUME SelectInv, NEW s \in Shoppers, CommitSubmitPick(s) PROVE SelectInv'
<1>0. PICK v \in Saved : v = shopping[s].pick
    BY DEF CommitSubmitPick, SelectInv, Cart
<1> DEFINE row == [picks[v] EXCEPT !.status = "submitted"]
<1>1. v \in Saved /\ v \in SelectionIds
    BY DEF Saved
<1>2. picks' = [picks EXCEPT ![v] = row] /\ EndShopping(s) /\ UNCHANGED news
    BY <1>0 DEF CommitSubmitPick
<1>3. row.count = picks[v].count /\ row # NoPick
    BY <1>1 DEF NoPick, Saved
<1>4. /\ \A w \in SelectionIds : picks'[w].count = picks[w].count /\ (picks'[w] = NoPick <=> picks[w] = NoPick)
      /\ picks' = [w \in SelectionIds |-> picks'[w]]
    <2> HIDE DEF row
    <2> QED BY <1>1, <1>2, <1>3 DEF SelectInv, SelectShape, Saved
<1>5. Saved' = Saved
    BY <1>4 DEF Saved
<1>6. shopping' = [t \in Shoppers |-> shopping'[t]] /\ \A t \in Shoppers : Cart(t)'
    BY <1>2, <1>4, <1>5, CartsStay
<1>7. CASE Extra(v) > 0 /\ EnsureUpsell(s) /\ UNCHANGED gate
    <2>1. /\ extras' = [w \in SelectionIds |-> extras'[w]] /\ intent' = [w \in SelectionIds |-> intent'[w]]
          /\ lastBought' \in SelectionIds \cup {NoPurchase}
          /\ \A w \in SelectionIds : Row(w)' /\ (Charged(w) => Charged(w)')
        BY <1>0, <1>1, <1>2, <1>4, <1>5, <1>7, UpsellRows
    <2>2. Closed'
        BY <1>4, <1>5, <1>7, <2>1, ClosedStays DEF Saved
    <2> QED BY <1>4, <1>6, <2>1, <2>2 DEF SelectInv, SelectShape
<1>8. CASE ~(Extra(v) > 0) /\ UNCHANGED purchaseVars
    <2>1. Extra(v)' = 0
        <3>1. picks[v].count \in Nat /\ Included \in Nat
            BY <1>1, SelectionsAssumption DEF SelectInv, Row
        <3>2. ~ (picks[v].count > Included)
            BY <1>8, <3>1 DEF Extra
        <3>3. picks'[v].count = picks[v].count
            BY <1>1, <1>4
        <3> QED BY <3>2, <3>3 DEF Extra
    <2>2. Closed'
        BY <1>1, <1>5, <2>1 DEF Closed
    <2>3. \A w \in SelectionIds : Row(w)'
        BY <1>2, <1>4, <1>5, <1>8 DEF SelectInv, Row, Charged, purchaseVars
    <2> QED BY <1>4, <1>6, <1>8, <2>2, <2>3 DEF SelectInv, SelectShape, purchaseVars
<1> QED BY <1>0, <1>7, <1>8 DEF CommitSubmitPick

LEMMA CommitBuyStep == ASSUME SelectInv, NEW s \in Shoppers, CommitBuy(s) PROVE SelectInv'
<1>1. shopping[s].pick \in Saved /\ EnsureUpsell(s) /\ EndShopping(s) /\ UNCHANGED <<gate, picks, news>>
    BY DEF CommitBuy, SelectInv, Cart
<1>2. Saved' = Saved
    BY <1>1 DEF Saved
<1>3. /\ extras' = [w \in SelectionIds |-> extras'[w]] /\ intent' = [w \in SelectionIds |-> intent'[w]]
      /\ lastBought' \in SelectionIds \cup {NoPurchase}
      /\ \A w \in SelectionIds : Row(w)' /\ (Charged(w) => Charged(w)')
    BY <1>1, <1>2, UpsellRows
<1>4. shopping' = [t \in Shoppers |-> shopping'[t]] /\ \A t \in Shoppers : Cart(t)'
    BY <1>1, <1>2, CartsStay
<1>5. Closed'
    BY <1>1, <1>2, <1>3, ClosedStays DEF Saved
<1> QED BY <1>1, <1>3, <1>4, <1>5 DEF SelectInv, SelectShape

\* Stripe's part: an intent that is charged stays charged.
LEMMA StripeStep ==
    ASSUME SelectInv, NEW v \in SelectionIds,
           \/ CardFails(v) \/ CardMoves(v, "open", "paid", "succeeded")
           \/ CardMoves(v, "paid", "refunded", "refunded")
           \/ \E event \in {"succeeded", "failed", "refunded"} : UpsellEvent(v, event)
    PROVE  SelectInv'
<1>1. Saved' = Saved /\ UNCHANGED <<picks, lastBought, shopping>>
    BY DEF CardFails, CardMoves, UpsellEvent, Saved, purchaseVars
<1>2. \A s \in Shoppers : Cart(s)'
    BY <1>1 DEF SelectInv, Cart
<1>3. \A w \in SelectionIds : Charged(w) => Charged(w)'
    <2>1. \/ UNCHANGED intent
          \/ intent[v] = "open" /\ intent' = [intent EXCEPT ![v] = "paid"]
          \/ intent[v] = "paid" /\ intent' = [intent EXCEPT ![v] = "refunded"]
        BY DEF CardFails, CardMoves, UpsellEvent, purchaseVars
    <2> QED BY <2>1 DEF Charged, SelectInv, SelectShape
<1>4. CASE CardFails(v)
    <2>1. UNCHANGED <<gate, extras, intent>> /\ news' = news \cup {<<v, "failed">>}
        BY <1>4 DEF CardFails, purchaseVars
    <2>2. ASSUME NEW w \in SelectionIds PROVE Row(w)'
        BY <1>1, <1>3, <2>1 DEF SelectInv, Row
    <2>3. Closed'
        BY <1>1, <1>3, <2>1, ClosedStays DEF Saved
    <2> QED BY <1>1, <1>2, <2>1, <2>2, <2>3 DEF SelectInv, SelectShape
<1>5. ASSUME NEW from \in {"open", "paid"}, NEW to \in {"paid", "refunded"}, NEW event \in {"succeeded", "refunded"},
             CardMoves(v, from, to, event)
      PROVE  SelectInv'
    <2>1. /\ intent[v] = from /\ intent' = [intent EXCEPT ![v] = to] /\ news' = news \cup {<<v, event>>}
          /\ UNCHANGED <<gate, extras>>
        BY <1>5 DEF CardMoves
    <2>2. ASSUME NEW w \in SelectionIds PROVE Row(w)'
        BY <1>1, <1>3, <2>1 DEF SelectInv, SelectShape, Row, Charged
    <2> QED BY <1>1, <1>2, <1>3, <2>1, <2>2, ClosedStays DEF SelectInv, SelectShape, Saved
<1>6. ASSUME NEW event \in {"succeeded", "failed", "refunded"}, UpsellEvent(v, event)
      PROVE  SelectInv'
    <2>1. /\ <<v, event>> \in news /\ news' = news \ {<<v, event>>}
          /\ extras' = [extras EXCEPT ![v] = event] /\ UNCHANGED intent
          /\ IF event = "succeeded" THEN gate' = "selection_submitted" ELSE UNCHANGED gate
        BY <1>6 DEF UpsellEvent
    <2>2. event = "succeeded" => Charged(v)
        BY <2>1 DEF SelectInv, Row
    <2>3. ASSUME NEW w \in SelectionIds PROVE Row(w)'
        BY <1>1, <1>3, <2>1, <2>2 DEF SelectInv, SelectShape, Row
    <2>4. Closed'
        <3>1. CASE event = "succeeded"
            <4>1. v \in Saved /\ Charged(v)
                BY <2>2, <3>1 DEF Charged, SelectInv, Row
            <4> QED BY <1>1, <1>3, <4>1 DEF Closed
        <3>2. CASE event # "succeeded"
            BY <1>1, <1>3, <2>1, <3>2, ClosedStays DEF Saved
        <3> QED BY <3>1, <3>2
    <2> QED BY <1>1, <1>2, <2>1, <2>3, <2>4 DEF SelectInv, SelectShape
<1> QED BY <1>4, <1>5, <1>6

LEMMA SelectionsStep == SelectInv /\ [SelectNext]_selectVars => SelectInv'
<1> SUFFICES ASSUME SelectInv, [SelectNext]_selectVars PROVE SelectInv'
    OBVIOUS
<1>1. CASE UNCHANGED selectVars
    BY <1>1 DEF selectVars, SelectInv, SelectShape, Row, Cart, Closed, Saved, Extra, Charged
<1>2. ASSUME NEW s \in Shoppers, LoseShopper(s) PROVE SelectInv'
    <2>1. Saved' = Saved /\ EndShopping(s) /\ UNCHANGED <<gate, picks, extras, lastBought, intent, news>>
        BY <1>2 DEF LoseShopper, Saved, purchaseVars
    <2>2. shopping' = [t \in Shoppers |-> shopping'[t]] /\ \A t \in Shoppers : Cart(t)'
        BY <2>1, CartsStay
    <2> QED BY <2>1, <2>2 DEF SelectInv, SelectShape, Row, Closed, Extra, Charged
<1> QED BY <1>1, <1>2, BeginShoppingStep, CommitSaveStep, CommitSubmitStep, CommitBuyStep, StripeStep DEF SelectNext

\* Photos beyond the included ones are fetched, and the gallery is closed, only
\* with the extras charged, for any selections, requests and order of events.
THEOREM ExtraPhotosArePaid == SelectSpec => []ExtrasArePaid
<1>1. SelectInit => SelectInv
    BY SelectionsAssumption DEF SelectInit, SelectInv, SelectShape, Row, Cart, Closed, NoPick, NoShopping
<1>2. SelectInv => ExtrasArePaid
    <2> SUFFICES ASSUME SelectInv PROVE ExtrasArePaid
        OBVIOUS
    <2>1. ASSUME NEW v \in Newest(Submitted)
          PROVE  /\ Downloaded(v) > Included => Charged(v)
                 /\ Fetched(v) > Included => \E w \in SelectionIds : Charged(w)
        <3>1. v \in SelectionIds /\ picks[v].count \in Nat /\ Included \in Nat /\ Row(v)
            BY <2>1, SelectionsAssumption DEF Newest, Submitted, SelectInv, Row
        <3>2. picks[v].count > Included => Extra(v) > 0
            BY <3>1 DEF Extra
        <3>3. Downloaded(v) > Included => Charged(v)
            BY <3>1, <3>2 DEF Downloaded, PaidFor, Row
        <3>4. PaidLast => \E w \in SelectionIds : Charged(w)
            BY DEF PaidLast, SelectInv, SelectShape, Row
        <3>5. Fetched(v) > Included => PaidLast
            BY <3>1, <3>2 DEF Fetched
        <3> QED BY <3>3, <3>4, <3>5
    <2> QED BY <2>1 DEF ExtrasArePaid, SelectInv, Closed
<1> QED BY <1>1, <1>2, SelectionsStep, PTL DEF SelectSpec

----------------------------------------------------------------------------
(* Prices.  A running total is a recursive function: that there is one, and *)
(* that it grows, follow by the least number for which it would not.        *)

\* The running total starts at 0 and adds the price of one photo at a time.
LEMMA SumsAdd ==
    ASSUME NEW price \in [1..MaxPhotos -> Nat]
    PROVE  /\ Sums(price) \in [0..MaxPhotos -> Nat]
           /\ Sums(price)[0] = 0
           /\ \A n \in 1..MaxPhotos : Sums(price)[n] = Sums(price)[n - 1] + price[n]
<1> DEFINE Adds(f, k) == f[0] = 0 /\ \A n \in 1..k : f[n] = f[n - 1] + price[n]
           Next(f) == [n \in 0..MaxPhotos |-> IF n = 0 THEN 0 ELSE f[n - 1] + price[n]]
           Missing == {k \in 0..MaxPhotos : ~ \E f \in [0..k -> Nat] : Adds(f, k)}
           sum == CHOOSE f : f = Next(f)
           Odd == {k \in 0..MaxPhotos : sum[k] \notin Nat}
<1>0. MaxPhotos \in Nat
    BY PricingAssumption
<1>1. Missing = {}
    <2> SUFFICES ASSUME Missing # {} PROVE FALSE
        OBVIOUS
    <2>1. PICK x \in Missing : \A y \in Missing : x <= y
        <3>1. Missing \in SUBSET Nat
            BY <1>0
        <3> HIDE DEF Missing
        <3> QED BY <3>1, LeastNumber
    <2>x. x \in 0..MaxPhotos
        OBVIOUS
    <2>2. x # 0
        <3>1. [n \in 0..0 |-> 0] \in [0..0 -> Nat] /\ Adds([n \in 0..0 |-> 0], 0)
            OBVIOUS
        <3> QED BY <3>1
    <2>3. x - 1 \in 0..MaxPhotos /\ x - 1 \notin Missing
        <3> HIDE DEF Missing
        <3> QED BY <1>0, <2>1, <2>x, <2>2
    <2>4. PICK f \in [0..(x - 1) -> Nat] : Adds(f, x - 1)
        BY <2>3
    <2> DEFINE g == [n \in 0..x |-> IF n = x THEN f[x - 1] + price[x] ELSE f[n]]
    <2>5. g \in [0..x -> Nat]
        <3>1. ASSUME NEW n \in 0..x PROVE (IF n = x THEN f[x - 1] + price[x] ELSE f[n]) \in Nat
            <4>1. f[x - 1] \in Nat /\ price[x] \in Nat
                BY <1>0, <2>x, <2>2, <2>4
            <4>2. n # x => n \in 0..(x - 1)
                BY <1>0, <2>x
            <4> QED BY <2>4, <4>1, <4>2
        <3> QED BY <3>1
    <2>6. g[0] = 0
        BY <1>0, <2>x, <2>2, <2>4
    <2>7. ASSUME NEW n \in 1..x PROVE g[n] = g[n - 1] + price[n]
        <3>1. CASE n = x
            BY <1>0, <2>x, <2>2, <2>4, <3>1
        <3>2. CASE n # x
            <4>1. n \in 1..(x - 1) /\ n - 1 \in 0..x /\ n \in 0..x /\ n - 1 # x
                BY <1>0, <2>x, <3>2
            <4>2. g[n] = f[n] /\ g[n - 1] = f[n - 1]
                BY <4>1, <3>2
            <4> QED BY <2>4, <4>1, <4>2
        <3> QED BY <3>1, <3>2
    <2>8. ~ \E h \in [0..x -> Nat] : Adds(h, x)
        OBVIOUS
    <2>9. Adds(g, x)
        <3> HIDE DEF g
        <3> QED BY <2>6, <2>7
    <2> QED BY <2>5, <2>8, <2>9
<1>2. PICK f \in [0..MaxPhotos -> Nat] : Adds(f, MaxPhotos)
    <2>1. MaxPhotos \in 0..MaxPhotos
        BY <1>0
    <2>2. MaxPhotos \notin Missing
        <3> HIDE DEF Missing
        <3> QED BY <1>1
    <2> QED BY <2>1, <2>2
<1>3. f = Next(f)
    BY <1>0, <1>2
<1>4. sum = Next(sum)
    BY <1>3
<1>5. Sums(price) = sum
    BY DEF Sums
<1>6. Odd = {}
    <2> SUFFICES ASSUME Odd # {} PROVE FALSE
        OBVIOUS
    <2>1. PICK x \in Odd : \A y \in Odd : x <= y
        <3>1. Odd \in SUBSET Nat
            BY <1>0
        <3> HIDE DEF Odd
        <3> QED BY <3>1, LeastNumber
    <2>2. x \in 0..MaxPhotos /\ sum[x] \notin Nat
        BY <2>1
    <2>3. sum[x] = IF x = 0 THEN 0 ELSE sum[x - 1] + price[x]
        <3> HIDE DEF sum
        <3> QED BY <1>4, <2>2
    <2>4. x # 0
        BY <2>2, <2>3
    <2>5. x - 1 \in 0..MaxPhotos /\ x - 1 \notin Odd
        BY <1>0, <2>1, <2>2, <2>4
    <2>6. sum[x - 1] \in Nat /\ price[x] \in Nat
        BY <1>0, <2>2, <2>4, <2>5
    <2> QED BY <2>2, <2>3, <2>4, <2>6
<1>7. sum \in [0..MaxPhotos -> Nat]
    <2>1. \A n \in 0..MaxPhotos : sum[n] \in Nat
        BY <1>6
    <2> HIDE DEF sum
    <2> QED BY <1>4, <2>1
<1> HIDE DEF sum
<1>8. sum[0] = 0 /\ \A n \in 1..MaxPhotos : sum[n] = sum[n - 1] + price[n]
    BY <1>0, <1>4
<1> QED BY <1>5, <1>7, <1>8

\* More photos do not cost less.
LEMMA SumsGrow ==
    ASSUME NEW price \in [1..MaxPhotos -> Nat],
           NEW m \in 0..MaxPhotos, NEW n \in 0..MaxPhotos, m <= n
    PROVE  Sums(price)[m] <= Sums(price)[n]
<1> DEFINE sum == Sums(price)
           Less == {k \in 0..MaxPhotos : m <= k /\ ~(sum[m] <= sum[k])}
<1>0. /\ MaxPhotos \in Nat /\ sum \in [0..MaxPhotos -> Nat]
      /\ \A k \in 1..MaxPhotos : sum[k] = sum[k - 1] + price[k]
    BY PricingAssumption, SumsAdd
<1> HIDE DEF sum
<1>1. Less = {}
    <2> SUFFICES ASSUME Less # {} PROVE FALSE
        OBVIOUS
    <2>1. PICK x \in Less : \A y \in Less : x <= y
        <3>1. Less \in SUBSET Nat
            BY <1>0
        <3> HIDE DEF Less
        <3> QED BY <3>1, LeastNumber
    <2>2. x > m
        BY <1>0, <2>1
    <2>3. x - 1 \in 0..MaxPhotos /\ x - 1 \notin Less
        BY <1>0, <2>1, <2>2
    <2>4. sum[m] <= sum[x - 1] /\ sum[x] = sum[x - 1] + price[x] /\ price[x] \in Nat
        BY <1>0, <2>2, <2>3
    <2>5. sum[x - 1] \in Nat /\ sum[m] \in Nat
        BY <1>0, <2>3
    <2> QED BY <2>1, <2>4, <2>5
<1> QED BY <1>0, <1>1 DEF sum

\* A share of an amount is an amount.
LEMMA PercentIsNat == ASSUME NEW amount \in Nat, NEW percent \in 0..100 PROVE Percent(amount, percent) \in Nat
BY SMT DEF Percent

LEMMA PriceIsNat ==
    ASSUME NEW shape \in Curves \cup {"flat"}, NEW rate \in Nat, NEW n \in 1..MaxPhotos
    PROVE  PriceAt(shape, rate, n) \in Nat
<1>1. CASE n <= MINIMUM_PHOTOS \/ shape = "flat"
    BY <1>1 DEF PriceAt
<1>2. CASE ~(n <= MINIMUM_PHOTOS \/ shape = "flat")
    <2>1. FloorPercent \in 0..100 /\ Decay(shape, n) \in 0..100
        BY <1>2, PricingAssumption
    <2>2. Percent(rate, FloorPercent) \in Nat /\ Percent(rate, Decay(shape, n)) \in Nat
        BY <2>1, PercentIsNat
    <2> QED BY <1>2, <2>2 DEF PriceAt, Larger
<1> QED BY <1>1, <1>2

\* What a number of photos costs is an amount, and grows with the number.
LEMMA TotalGrows ==
    ASSUME NEW shape \in Curves \cup {"flat"}, NEW rate \in Nat,
           NEW m \in 0..MaxPhotos, NEW n \in 0..MaxPhotos
    PROVE  /\ PackageTotal(shape, rate, n) \in Nat
           /\ m <= n => PackageTotal(shape, rate, m) <= PackageTotal(shape, rate, n)
<1> DEFINE price == [k \in 1..MaxPhotos |-> PriceAt(shape, rate, k)]
<1>1. price \in [1..MaxPhotos -> Nat]
    BY PriceIsNat
<1> HIDE DEF price
<1>2. Sums(price)[n] \in Nat
    BY <1>1, SumsAdd
<1>3. m <= n => Sums(price)[m] <= Sums(price)[n]
    BY <1>1, SumsGrow
<1> QED BY <1>2, <1>3 DEF price, PackageTotal

\* A gig that the program could have: of a package or at an agreed price, with
\* its rates recorded or from before they were.
GigStatuses == {"payment_pending", "paid", "completed"}
JobRow ==
    [status : GigStatuses, rate : EntryPrices \cup {NoRate}, minimum : Nat, final : Int,
     included : 0..MaxPhotos, picked : 0..MaxPhotos, stamped : {TRUE}, retained : {RetainedPercent},
     raww : {RawwPercent}, credit : 0..100, vat : {0, StandardRate}]
OldRow ==
    [status : GigStatuses, rate : {NoRate}, minimum : Nat, final : {NoFinal},
     included : 0..MaxPhotos, picked : 0..MaxPhotos, stamped : {FALSE}]
Payment == [amount : Nat, paid : BOOLEAN]

\* What a curve charges for a row: its deposit, and its first selection
PricedByOne(row, count, c) ==
    /\ row.minimum = PackageTotal(c, row.rate, Larger(MINIMUM_PHOTOS, row.included))
    /\ count = 1 => row.final = PackageTotal(c, row.rate, row.picked)

\* The difference that the first selection of a row asks for
AskedOnce(row, diff) ==
    /\ row.final \in Nat
    /\ row.final > row.minimum => /\ diff.amount = row.final - row.minimum
                                  /\ row.status = "completed" => diff.paid
    /\ row.final <= row.minimum => diff = NoDifference

\* The rows of one gig, its payments and how they were priced fit together.
Billed(row, diff, extra, count, curvesUsed) ==
    /\ row.rate = NoRate => row.final = NoFinal /\ diff = NoDifference
    /\ row.rate # NoRate =>
          /\ extra = 0 /\ curvesUsed # {} /\ row.stamped
          /\ count = 0 => row.status # "completed" /\ diff = NoDifference
          /\ count = 1 => AskedOnce(row, diff)
          /\ \A c \in Curves \cup {"flat"} : curvesUsed = {c} => PricedByOne(row, count, c)

JobInv(j) ==
    /\ base[j] \in BOOLEAN /\ difference[j] \in Payment /\ submissions[j] \in Nat
    /\ \/ gigRow[j] = NoJob /\ difference[j] = NoDifference /\ upsell[j] = 0 /\ submissions[j] = 0
       \/ /\ gigRow[j] \in JobRow \cup OldRow
          /\ Billed(gigRow[j], difference[j], upsell[j], submissions[j], pricedBy[j])

SettingsInv ==
    /\ curve \in Curves \cup {"flat"} /\ credit \in 0..100
    /\ package \in [price : EntryPrices, included : IncludedCounts]

PricingInv ==
    /\ SettingsInv
    /\ gigRow = [j \in Jobs |-> gigRow[j]] /\ base = [j \in Jobs |-> base[j]]
    /\ difference = [j \in Jobs |-> difference[j]] /\ upsell = [j \in Jobs |-> upsell[j]]
    /\ submissions = [j \in Jobs |-> submissions[j]] /\ pricedBy = [j \in Jobs |-> pricedBy[j]]
    /\ \A j \in Jobs : JobInv(j)

PricingChange ==
    \/ \E percent \in FeePercents : PutFeePolicy(percent)
    \/ \E shape \in Curves \cup {"flat"} : PutCurve(shape)
    \/ \E prices \in PriceCaps : ApplyCaps(prices) \/ \E t \in PriceTiers : PutCap(t, prices)
    \/ \E t \in PriceTiers : Regrade(t)
    \/ \E included \in IncludedCounts :
          ResizePackage(included) \/ \E price \in EntryPrices : PricePackage(price, included)
    \/ \E percent \in CreditPercents : PutCredit(percent)
    \/ \E status \in {"not_registered", "registered"}, home \in BOOLEAN : PutTaxProfile(status, home)
    \/ \E price \in ExtraPrices :
          PutExtraPrice(price) \/ \E max \in ExtraPrices : price <= max /\ PutExtraPolicy(price, max)

\* A change of settings leaves the gigs and payments alone.
LEMMA SettingsStep ==
    ASSUME SettingsInv, PricingChange
    PROVE  UNCHANGED gigVars /\ SettingsInv'
<1>1. UNCHANGED gigVars
    BY Zenon DEF PricingChange, PutFeePolicy, PutCurve, ApplyCaps, PutCap, Regrade, ResizePackage, PricePackage,
        PutCredit, PutTaxProfile, PutExtraPrice, PutExtraPolicy, Changing
<1>2. curve' \in Curves \cup {"flat"}
    BY Zenon DEF SettingsInv, PricingChange, PutFeePolicy, PutCurve, ApplyCaps, PutCap, Regrade, ResizePackage,
        PricePackage, PutCredit, PutTaxProfile, PutExtraPrice, PutExtraPolicy
<1>3. credit' \in 0..100
    <2>1. \A percent \in CreditPercents : percent \in 0..100
        BY Zenon, PricingAssumption
    <2> QED BY <2>1, Zenon DEF SettingsInv, PricingChange, PutFeePolicy, PutCurve, ApplyCaps, PutCap, Regrade,
            ResizePackage, PricePackage, PutCredit, PutTaxProfile, PutExtraPrice, PutExtraPolicy
<1>4. package' \in [price : EntryPrices, included : IncludedCounts]
    <2>1. CASE package' = package
        BY <2>1 DEF SettingsInv
    <2>2. CASE \E included \in IncludedCounts : ResizePackage(included)
        BY <2>2 DEF SettingsInv, ResizePackage
    <2>3. CASE \E included \in IncludedCounts, price \in EntryPrices : PricePackage(price, included)
        BY <2>3 DEF SettingsInv, PricePackage
    <2> QED BY <2>1, <2>2, <2>3, Zenon DEF PricingChange, PutFeePolicy, PutCurve, ApplyCaps, PutCap, Regrade,
            PutCredit, PutTaxProfile, PutExtraPrice, PutExtraPolicy
<1> QED BY <1>1, <1>2, <1>3, <1>4 DEF SettingsInv

LEMMA PricingInitInv == PricingInit => PricingInv
<1> SUFFICES ASSUME PricingInit PROVE PricingInv
    OBVIOUS
<1>1. SettingsInv
    BY DEF PricingInit, SettingsInv
<1>2. PICK total \in TotalPrices, old \in SUBSET Jobs :
          gigRow = [j \in Jobs |-> IF j \in old THEN OldGig(total) ELSE NoJob]
    BY Zenon DEF PricingInit
<1>3. /\ difference = [j \in Jobs |-> NoDifference] /\ upsell = [j \in Jobs |-> 0]
      /\ base = [j \in Jobs |-> FALSE] /\ submissions = [j \in Jobs |-> 0]
      /\ pricedBy = [j \in Jobs |-> {}]
    BY Zenon DEF PricingInit
<1>4. ASSUME NEW j \in Jobs PROVE JobInv(j)
    <2>1. NoDifference \in Payment
        BY DEF NoDifference, Payment
    <2>2. base[j] \in BOOLEAN /\ difference[j] = NoDifference /\ upsell[j] = 0 /\ submissions[j] = 0
        BY <1>3
    <2>3. CASE j \notin old
        BY <1>2, <2>1, <2>2, <2>3 DEF JobInv
    <2>4. CASE j \in old
        <3>1. gigRow[j] = OldGig(total)
            BY <1>2, <2>4
        <3>2. total \in Nat /\ MINIMUM_PHOTOS \in 0..MaxPhotos /\ 0 \in 0..MaxPhotos
            BY PricingAssumption
        <3>3. OldGig(total) \in OldRow
            BY <3>2 DEF OldGig, OldRow, GigStatuses
        <3>4. OldGig(total).rate = NoRate /\ OldGig(total).final = NoFinal
            BY DEF OldGig
        <3>5. Billed(gigRow[j], difference[j], upsell[j], submissions[j], pricedBy[j])
            BY <2>2, <3>1, <3>4 DEF Billed
        <3> QED BY <2>1, <2>2, <3>1, <3>3, <3>5 DEF JobInv
    <2> QED BY <2>3, <2>4
<1> QED BY <1>1, <1>2, <1>3, <1>4 DEF PricingInv

\* What a row holds
LEMMA RowFields ==
    ASSUME NEW row \in JobRow \cup OldRow
    PROVE  /\ row.status \in GigStatuses /\ row.rate \in Nat /\ row.minimum \in Nat /\ row.final \in Int
           /\ row.included \in 0..MaxPhotos /\ row.picked \in 0..MaxPhotos /\ row.stamped \in BOOLEAN
           /\ row.stamped => row \in JobRow
           /\ row # NoJob
<1>1. EntryPrices \cup {NoRate} \subseteq Nat /\ NoFinal \in Int
    BY PricingAssumption DEF NoRate, NoFinal
<1>2. row.status \in GigStatuses
    BY DEF JobRow, OldRow
<1>3. row # NoJob
    <2>1. NoJob.status \notin GigStatuses
        BY DEF NoJob, GigStatuses
    <2> QED BY <1>2, <2>1
<1> QED BY <1>1, <1>2, <1>3 DEF JobRow, OldRow

\* A row keeps its form as its selection and status are written.
LEMMA RowKept ==
    ASSUME NEW row \in JobRow \cup OldRow, NEW status \in GigStatuses, NEW picked \in 0..MaxPhotos
    PROVE  /\ [row EXCEPT !.status = status] \in JobRow \cup OldRow
           /\ [row EXCEPT !.picked = picked, !.status = status] \in JobRow \cup OldRow
BY DEF JobRow, OldRow

LEMMA StampedRowKept ==
    ASSUME NEW row \in JobRow, NEW status \in GigStatuses, NEW picked \in 0..MaxPhotos, NEW final \in Int
    PROVE  [row EXCEPT !.final = final, !.picked = picked, !.status = status] \in JobRow
BY DEF JobRow

\* The photographer accepts: the deposit is priced by the curve of the day.
LEMMA AcceptPricing ==
    ASSUME PricingInv, NEW j \in Jobs, NEW percent \in CreditPercents \cup {credit}, AcceptBooking(j, percent)
    PROVE  PricingInv'
<1> DEFINE minimum == PackageTotal(curve, package.price, Larger(MINIMUM_PHOTOS, package.included))
           row == Gig(package.price, minimum, package.included, percent)
<1>1. /\ gigRow[j] = NoJob /\ package.price # NoRate
      /\ gigRow' = [gigRow EXCEPT ![j] = row] /\ pricedBy' = [pricedBy EXCEPT ![j] = {curve}]
      /\ UNCHANGED <<settingVars, base, difference, upsell, submissions>>
    BY DEF AcceptBooking, MinimumAmount
<1>2. /\ curve \in Curves \cup {"flat"} /\ percent \in 0..100
      /\ package.price \in EntryPrices /\ package.included \in IncludedCounts
    BY PricingAssumption DEF PricingInv, SettingsInv
<1>3. /\ package.price \in Nat /\ package.included \in 0..MaxPhotos /\ 0 \in 0..MaxPhotos
      /\ Larger(MINIMUM_PHOTOS, package.included) \in 0..MaxPhotos
    BY <1>2, PricingAssumption DEF Larger
<1>4. minimum \in Nat
    BY <1>2, <1>3, TotalGrows
<1>5. row \in JobRow
    <2>1. VatStamp \in {0, StandardRate}
        BY DEF VatStamp
    <2>2. NoFinal \in Int
        BY DEF NoFinal
    <2> HIDE DEF minimum
    <2> QED BY <1>2, <1>3, <1>4, <2>1, <2>2 DEF Gig, JobRow, GigStatuses
<1>6. JobInv(j)'
    <2>1. /\ base[j] \in BOOLEAN /\ difference[j] \in Payment /\ submissions[j] = 0
          /\ difference[j] = NoDifference /\ upsell[j] = 0
        BY <1>1, RowFields DEF PricingInv, JobInv
    <2>2. gigRow'[j] = row /\ pricedBy'[j] = {curve}
        BY <1>1 DEF PricingInv
    <2>3. Billed(row, NoDifference, 0, 0, {curve})
        <3>1. /\ row.rate = package.price /\ row.stamped /\ row.status # "completed"
              /\ row.minimum = minimum /\ row.included = package.included
            BY DEF Gig
        <3>2. \A c \in Curves \cup {"flat"} : {curve} = {c} => PricedByOne(row, 0, c)
            <4> HIDE DEF row
            <4> QED BY <3>1 DEF PricedByOne
        <3> HIDE DEF row, minimum
        <3> QED BY <1>1, <3>1, <3>2 DEF Billed
    <2> HIDE DEF row
    <2> QED BY <1>1, <1>5, <2>1, <2>2, <2>3 DEF JobInv
<1>7. ASSUME NEW k \in Jobs, k # j PROVE JobInv(k)'
    <2>1. /\ JobInv(k) /\ gigRow'[k] = gigRow[k] /\ pricedBy'[k] = pricedBy[k]
        BY <1>1, <1>7, Zenon DEF PricingInv
    <2> QED BY <1>1, <2>1 DEF JobInv
<1>8. SettingsInv'
    BY <1>1 DEF PricingInv, SettingsInv, settingVars
<1> HIDE DEF row
<1> QED BY <1>1, <1>6, <1>7, <1>8 DEF PricingInv

\* A gig at an agreed price
LEMMA CreatePricing ==
    ASSUME PricingInv, NEW j \in Jobs, NEW total \in TotalPrices, NEW included \in IncludedCounts,
           CreateGig(j, total, included)
    PROVE  PricingInv'
<1> DEFINE row == Gig(NoRate, total, included, credit)
<1>1. /\ gigRow[j] = NoJob /\ gigRow' = [gigRow EXCEPT ![j] = row]
      /\ UNCHANGED <<settingVars, base, difference, upsell, submissions, pricedBy>>
    BY DEF CreateGig
<1>2. row \in JobRow
    <2>1. VatStamp \in {0, StandardRate} /\ NoFinal \in Int
        BY DEF VatStamp, NoFinal
    <2>2. credit \in 0..100 /\ total \in Nat /\ included \in 0..MaxPhotos /\ 0 \in 0..MaxPhotos
        BY PricingAssumption DEF PricingInv, SettingsInv
    <2> QED BY <2>1, <2>2 DEF Gig, JobRow, GigStatuses
<1>3. JobInv(j)'
    <2>1. /\ base[j] \in BOOLEAN /\ difference[j] \in Payment /\ submissions[j] = 0
          /\ difference[j] = NoDifference /\ upsell[j] = 0
        BY <1>1, RowFields DEF PricingInv, JobInv
    <2>2. gigRow'[j] = row
        BY <1>1 DEF PricingInv
    <2>3. row.rate = NoRate /\ row.final = NoFinal
        BY DEF Gig
    <2> HIDE DEF row
    <2> QED BY <1>1, <1>2, <2>1, <2>2, <2>3 DEF JobInv, Billed
<1>4. ASSUME NEW k \in Jobs, k # j PROVE JobInv(k)'
    <2>1. JobInv(k) /\ gigRow'[k] = gigRow[k]
        BY <1>1, <1>4, Zenon DEF PricingInv
    <2> QED BY <1>1, <2>1 DEF JobInv
<1>5. SettingsInv'
    BY <1>1 DEF PricingInv, SettingsInv, settingVars
<1> HIDE DEF row
<1> QED BY <1>1, <1>3, <1>4, <1>5 DEF PricingInv

\* A row that changes its status only, and not to completed before a selection
\* or with its difference unpaid, is billed as before.
LEMMA StatusKeepsBilled ==
    ASSUME NEW row \in JobRow \cup OldRow, NEW diff, NEW extra, NEW count, NEW used,
           NEW status \in GigStatuses, Billed(row, diff, extra, count, used),
           row.rate # NoRate => status # "completed" \/ status = row.status
    PROVE  Billed([row EXCEPT !.status = status], diff, extra, count, used)
<1> DEFINE next == [row EXCEPT !.status = status]
<1>1. /\ next.rate = row.rate /\ next.minimum = row.minimum /\ next.final = row.final
      /\ next.included = row.included /\ next.picked = row.picked /\ next.stamped = row.stamped
      /\ next.status = status
    BY DEF JobRow, OldRow
<1> HIDE DEF next
<1>2. \A c \in Curves \cup {"flat"} : PricedByOne(row, count, c) => PricedByOne(next, count, c)
    BY <1>1 DEF PricedByOne
<1>3. AskedOnce(row, diff) /\ row.rate # NoRate => AskedOnce(next, diff)
    BY <1>1 DEF AskedOnce
<1>4. Billed(next, diff, extra, count, used)
    BY <1>1, <1>2, <1>3 DEF Billed
<1> QED BY <1>4 DEF next

\* The deposit is paid.
LEMMA MinimumPricing == ASSUME PricingInv, NEW j \in Jobs, PayMinimum(j) PROVE PricingInv'
<1>1. /\ gigRow[j].status \in {"payment_pending", "paid"}
      /\ gigRow' = [gigRow EXCEPT ![j] = [gigRow[j] EXCEPT !.status = "paid"]]
      /\ base' = [base EXCEPT ![j] = TRUE]
      /\ UNCHANGED <<settingVars, difference, upsell, submissions, pricedBy>>
    BY DEF PayMinimum
<1>2. /\ gigRow'[j] = [gigRow[j] EXCEPT !.status = "paid"] /\ base'[j] = TRUE
    BY <1>1 DEF PricingInv
<1>3. /\ gigRow[j] \in JobRow \cup OldRow /\ difference[j] \in Payment /\ submissions[j] \in Nat
      /\ Billed(gigRow[j], difference[j], upsell[j], submissions[j], pricedBy[j])
    BY <1>1 DEF PricingInv, JobInv, NoJob
<1>4. gigRow'[j] \in JobRow \cup OldRow
    <2>1. 0 \in 0..MaxPhotos /\ "paid" \in GigStatuses
        BY PricingAssumption DEF GigStatuses
    <2> QED BY <1>2, <1>3, <2>1, RowKept
<1>5. Billed(gigRow'[j], difference[j], upsell[j], submissions[j], pricedBy[j])
    <2>1. "paid" \in GigStatuses /\ "paid" # "completed"
        BY DEF GigStatuses
    <2>2. Billed([gigRow[j] EXCEPT !.status = "paid"], difference[j], upsell[j], submissions[j], pricedBy[j])
        BY <1>3, <2>1, StatusKeepsBilled
    <2> QED BY <1>2, <2>2
<1>6. JobInv(j)'
    BY <1>1, <1>2, <1>3, <1>4, <1>5 DEF JobInv
<1>7. ASSUME NEW k \in Jobs, k # j PROVE JobInv(k)'
    <2>1. JobInv(k) /\ gigRow'[k] = gigRow[k] /\ base'[k] = base[k]
        BY <1>1, <1>7, Zenon DEF PricingInv
    <2> QED BY <1>1, <2>1 DEF JobInv
<1>8. SettingsInv'
    BY <1>1 DEF PricingInv, SettingsInv, settingVars
<1> QED BY <1>1, <1>6, <1>7, <1>8 DEF PricingInv

\* The extra photos are paid, of a gig that is not of a package.
LEMMA ExtrasPricing == ASSUME PricingInv, NEW j \in Jobs, PayExtras(j) PROVE PricingInv'
<1> DEFINE status == Finalized(gigRow[j].status)
<1>1. /\ gigRow[j] # NoJob /\ upsell[j] > 0 /\ upsell' = [upsell EXCEPT ![j] = 0]
      /\ gigRow' = [gigRow EXCEPT ![j] = [gigRow[j] EXCEPT !.status = status]]
      /\ UNCHANGED <<settingVars, base, difference, submissions, pricedBy>>
    BY DEF PayExtras
<1>2. gigRow'[j] = [gigRow[j] EXCEPT !.status = status] /\ upsell'[j] = 0
    BY <1>1 DEF PricingInv
<1>3. /\ gigRow[j] \in JobRow \cup OldRow /\ difference[j] \in Payment /\ submissions[j] \in Nat
      /\ base[j] \in BOOLEAN
      /\ Billed(gigRow[j], difference[j], upsell[j], submissions[j], pricedBy[j])
    BY <1>1 DEF PricingInv, JobInv
<1>4. status \in GigStatuses /\ gigRow[j].rate = NoRate
    <2>1. gigRow[j].status \in GigStatuses
        BY <1>3, RowFields
    <2>2. gigRow[j].rate = NoRate
        BY <1>1, <1>3 DEF Billed
    <2> QED BY <2>1, <2>2 DEF Finalized, GigStatuses
<1> HIDE DEF status
<1>5. gigRow'[j] \in JobRow \cup OldRow
    <2>1. 0 \in 0..MaxPhotos
        BY PricingAssumption
    <2> QED BY <1>2, <1>3, <1>4, <2>1, RowKept
<1>6. Billed(gigRow'[j], difference[j], upsell[j], submissions[j], pricedBy[j])
    BY <1>2, <1>3, <1>4, StatusKeepsBilled
<1>7. gigRow'[j].rate = NoRate
    BY <1>2, <1>3, <1>4 DEF JobRow, OldRow
<1>8. Billed(gigRow'[j], difference[j], 0, submissions[j], pricedBy[j])
    BY <1>6, <1>7 DEF Billed
<1>9. JobInv(j)'
    BY <1>1, <1>2, <1>3, <1>5, <1>8 DEF JobInv
<1>10. ASSUME NEW k \in Jobs, k # j PROVE JobInv(k)'
    <2>1. JobInv(k) /\ gigRow'[k] = gigRow[k] /\ upsell'[k] = upsell[k]
        BY <1>1, <1>10, Zenon DEF PricingInv
    <2> QED BY <1>1, <2>1 DEF JobInv
<1>11. SettingsInv'
    BY <1>1 DEF PricingInv, SettingsInv, settingVars
<1> QED BY <1>1, <1>9, <1>10, <1>11 DEF PricingInv

\* A selection of a gig that is not of a package
LEMMA SelectExtrasPricing ==
    ASSUME PricingInv, NEW j \in Jobs, NEW count \in PickedCounts, SubmitExtras(j, count)
    PROVE  PricingInv'
<1>1. PICK status, extra :
          /\ gigRow[j] # NoJob /\ ~IsCurvePriced(j)
          /\ gigRow' = [gigRow EXCEPT ![j] = [gigRow[j] EXCEPT !.picked = count, !.status = status]]
          /\ status \in {Finalized(gigRow[j].status), gigRow[j].status}
          /\ upsell' = [upsell EXCEPT ![j] = extra]
          /\ submissions' = [submissions EXCEPT ![j] = submissions[j] + 1]
          /\ UNCHANGED <<settingVars, base, difference, pricedBy>>
    BY DEF SubmitExtras
<1>2. /\ gigRow'[j] = [gigRow[j] EXCEPT !.picked = count, !.status = status]
      /\ submissions'[j] = submissions[j] + 1
    BY <1>1 DEF PricingInv
<1>3. /\ gigRow[j] \in JobRow \cup OldRow /\ difference[j] \in Payment /\ submissions[j] \in Nat
      /\ base[j] \in BOOLEAN
      /\ Billed(gigRow[j], difference[j], upsell[j], submissions[j], pricedBy[j])
    BY <1>1 DEF PricingInv, JobInv
<1>4. status \in GigStatuses /\ count \in 0..MaxPhotos
    <2>1. gigRow[j].status \in GigStatuses
        BY <1>3, RowFields
    <2> QED BY <1>1, <2>1, PricingAssumption DEF Finalized, GigStatuses
<1> DEFINE next == [gigRow[j] EXCEPT !.picked = count, !.status = status]
<1>5. next \in JobRow \cup OldRow
    BY <1>3, <1>4, RowKept, Zenon
<1>a. next.rate = gigRow[j].rate /\ next.final = gigRow[j].final
    BY <1>3 DEF JobRow, OldRow
<1>b. gigRow'[j] = next
    BY <1>2
<1> HIDE DEF next
<1>6. gigRow'[j].rate = gigRow[j].rate /\ gigRow'[j].final = gigRow[j].final
    BY <1>a, <1>b
<1>7. Billed(gigRow'[j], difference[j], extra, submissions[j] + 1, pricedBy[j])
    BY <1>1, <1>3, <1>6 DEF Billed, IsCurvePriced
<1>8. JobInv(j)'
    <2>1. upsell'[j] = extra
        BY <1>1 DEF PricingInv
    <2> QED BY <1>1, <1>2, <1>3, <1>5, <1>b, <1>7, <2>1 DEF JobInv
<1>9. ASSUME NEW k \in Jobs, k # j PROVE JobInv(k)'
    <2>1. /\ JobInv(k) /\ gigRow'[k] = gigRow[k] /\ upsell'[k] = upsell[k]
          /\ submissions'[k] = submissions[k]
        BY <1>1, <1>9, Zenon DEF PricingInv
    <2> QED BY <1>1, <2>1 DEF JobInv
<1>10. SettingsInv'
    BY <1>1 DEF PricingInv, SettingsInv, settingVars
<1> QED BY <1>1, <1>8, <1>9, <1>10 DEF PricingInv

\* A selection of a package's gig: its difference is what the deposit lacks.
LEMMA SelectPricing ==
    ASSUME PricingInv, NEW j \in Jobs, NEW count \in PickedCounts, SubmitSelection(j, count)
    PROVE  PricingInv'
<1>0. /\ gigRow[j] # NoJob /\ IsCurvePriced(j)
      /\ gigRow[j] \in JobRow \cup OldRow /\ difference[j] \in Payment /\ submissions[j] \in Nat
      /\ base[j] \in BOOLEAN
      /\ Billed(gigRow[j], difference[j], upsell[j], submissions[j], pricedBy[j])
    BY DEF PricingInv, JobInv, SubmitSelection
<1> DEFINE n == submissions[j]
<1>1. PICK total, due, status, diff :
          /\ total = PackageTotal(curve, gigRow[j].rate, count)
          /\ due = Larger(0, total - gigRow[j].minimum)
          /\ status = IF due = 0 THEN Finalized(gigRow[j].status) ELSE gigRow[j].status
          /\ diff = IF due > 0 /\ difference[j] = NoDifference
                    THEN [amount |-> due, paid |-> FALSE] ELSE difference[j]
          /\ gigRow' = [gigRow EXCEPT ![j] =
                           [gigRow[j] EXCEPT !.final = total, !.picked = count, !.status = status]]
          /\ difference' = IF due > 0 /\ difference[j] = NoDifference
                           THEN [difference EXCEPT ![j] = [amount |-> due, paid |-> FALSE]]
                           ELSE difference
          /\ submissions' = [submissions EXCEPT ![j] = submissions[j] + 1]
          /\ pricedBy' = [pricedBy EXCEPT ![j] = pricedBy[j] \cup {curve}]
          /\ UNCHANGED <<settingVars, base, upsell>>
    BY DEF SubmitSelection, SelectionTotal, Due
<1>2. /\ gigRow'[j] = [gigRow[j] EXCEPT !.final = total, !.picked = count, !.status = status]
      /\ submissions'[j] = n + 1 /\ pricedBy'[j] = pricedBy[j] \cup {curve}
    BY <1>1 DEF PricingInv
<1>3. difference' = [difference EXCEPT ![j] = diff] /\ difference'[j] = diff
    <2>1. DOMAIN difference = Jobs
        BY DEF PricingInv
    <2>2. difference = [difference EXCEPT ![j] = difference[j]]
        BY DEF PricingInv
    <2> QED BY <1>1, <2>1, <2>2
<1>4. gigRow[j] \in JobRow /\ gigRow[j].minimum \in Nat /\ gigRow[j].rate \in Nat
    BY <1>0, RowFields DEF Billed, IsCurvePriced
<1>5. count \in 0..MaxPhotos /\ curve \in Curves \cup {"flat"}
    BY PricingAssumption DEF PricingInv, SettingsInv
<1>6. total \in Nat /\ due \in Nat /\ (due = 0 <=> total <= gigRow[j].minimum)
      /\ (due > 0 => due = total - gigRow[j].minimum)
    <2>1. total \in Nat
        BY <1>1, <1>4, <1>5, TotalGrows
    <2> QED BY <1>1, <1>4, <2>1 DEF Larger
<1>7. status \in GigStatuses
    <2>1. gigRow[j].status \in GigStatuses
        BY <1>0, RowFields
    <2> QED BY <1>1, <2>1 DEF Finalized, GigStatuses
<1>8. diff \in Payment
    BY <1>0, <1>1, <1>6 DEF Payment
<1> DEFINE next == [gigRow[j] EXCEPT !.final = total, !.picked = count, !.status = status]
<1>a. next \in JobRow
    <2>1. total \in Int
        BY <1>6
    <2> QED BY <1>4, <1>5, <2>1, <1>7, StampedRowKept, Zenon
<1>b. /\ next.rate = gigRow[j].rate /\ next.minimum = gigRow[j].minimum
      /\ next.included = gigRow[j].included /\ next.stamped
      /\ next.final = total /\ next.picked = count /\ next.status = status
    BY <1>4 DEF JobRow
<1>c. gigRow'[j] = next
    BY <1>2
<1> HIDE DEF next
<1>9. gigRow'[j] \in JobRow
    BY <1>a, <1>c
<1>10. /\ gigRow'[j].rate = gigRow[j].rate /\ gigRow'[j].minimum = gigRow[j].minimum
       /\ gigRow'[j].included = gigRow[j].included /\ gigRow'[j].stamped
       /\ gigRow'[j].final = total /\ gigRow'[j].picked = count /\ gigRow'[j].status = status
    BY <1>b, <1>c
<1>11. n + 1 = 1 => AskedOnce(gigRow'[j], diff)
    <2> SUFFICES ASSUME n + 1 = 1 PROVE AskedOnce(gigRow'[j], diff)
        OBVIOUS
    <2>1. n = 0
        BY <1>0
    <2>2. difference[j] = NoDifference /\ gigRow[j].status # "completed"
        BY <1>0, <2>1 DEF Billed, IsCurvePriced
    <2>3. CASE due = 0
        BY <1>1, <1>6, <1>10, <1>4, <2>2, <2>3 DEF AskedOnce
    <2>4. CASE due > 0
        <3>1. diff = [amount |-> due, paid |-> FALSE] /\ status = gigRow[j].status
            BY <1>1, <1>6, <2>2, <2>4
        <3> QED BY <1>6, <1>10, <1>4, <2>2, <2>4, <3>1 DEF AskedOnce
    <2> QED BY <1>6, <2>3, <2>4
<1>12. ASSUME NEW c \in Curves \cup {"flat"}, pricedBy[j] \cup {curve} = {c}
       PROVE  PricedByOne(gigRow'[j], n + 1, c)
    <2>1. curve = c /\ pricedBy[j] = {c}
        BY <1>0, <1>12 DEF Billed, IsCurvePriced
    <2>2. PricedByOne(gigRow[j], n, c)
        BY <1>0, <2>1 DEF Billed, IsCurvePriced
    <2> QED BY <1>1, <1>10, <2>1, <2>2 DEF PricedByOne
<1>13. Billed(gigRow'[j], diff, upsell[j], n + 1, pricedBy[j] \cup {curve})
    <2>1. gigRow'[j].rate # NoRate /\ upsell[j] = 0 /\ n + 1 # 0
        BY <1>0, <1>10 DEF Billed, IsCurvePriced
    <2> QED BY <1>10, <1>11, <1>12, <2>1 DEF Billed
<1>14. JobInv(j)'
    <2>1. n + 1 \in Nat
        BY <1>0
    <2> QED BY <1>0, <1>1, <1>2, <1>3, <1>8, <1>9, <1>13, <2>1 DEF JobInv
<1>15. ASSUME NEW k \in Jobs, k # j PROVE JobInv(k)'
    <2>1. /\ JobInv(k) /\ gigRow'[k] = gigRow[k] /\ difference'[k] = difference[k]
          /\ submissions'[k] = submissions[k] /\ pricedBy'[k] = pricedBy[k]
        BY <1>1, <1>3, <1>15, Zenon DEF PricingInv
    <2> QED BY <1>1, <2>1 DEF JobInv
<1>16. SettingsInv'
    BY <1>1 DEF PricingInv, SettingsInv, settingVars
<1> HIDE DEF n
<1> QED BY <1>1, <1>3, <1>14, <1>15, <1>16 DEF PricingInv

\* The difference is paid, which only a gig of a package has.
LEMMA DifferencePricing == ASSUME PricingInv, NEW j \in Jobs, PayDifference(j) PROVE PricingInv'
<1>1. /\ gigRow[j].status \in {"payment_pending", "paid"} /\ difference[j] # NoDifference
      /\ difference' = [difference EXCEPT ![j] = [amount |-> difference[j].amount, paid |-> TRUE]]
      /\ gigRow' = [gigRow EXCEPT ![j] = [gigRow[j] EXCEPT !.status = "completed"]]
      /\ UNCHANGED <<settingVars, base, upsell, submissions, pricedBy>>
    BY DEF PayDifference
<1> DEFINE row == gigRow[j]
           diff == [amount |-> difference[j].amount, paid |-> TRUE]
           next == [gigRow[j] EXCEPT !.status = "completed"]
<1>2. gigRow'[j] = next /\ difference'[j] = diff
    BY <1>1 DEF PricingInv
<1>3. /\ row \in JobRow \cup OldRow /\ difference[j] \in Payment /\ submissions[j] \in Nat
      /\ base[j] \in BOOLEAN
      /\ Billed(row, difference[j], upsell[j], submissions[j], pricedBy[j])
    BY <1>1 DEF PricingInv, JobInv
<1>4. next \in JobRow \cup OldRow
    <2>1. 0 \in 0..MaxPhotos /\ "completed" \in GigStatuses
        BY PricingAssumption DEF GigStatuses
    <2> QED BY <1>3, <2>1, RowKept
<1>5. /\ next.rate = row.rate /\ next.minimum = row.minimum /\ next.final = row.final
      /\ next.included = row.included /\ next.picked = row.picked /\ next.stamped = row.stamped
    BY <1>3 DEF JobRow, OldRow
<1>6. diff \in Payment /\ diff.paid /\ diff.amount = difference[j].amount
    BY <1>3 DEF Payment
<1> HIDE DEF next, diff
<1>7. row.rate # NoRate /\ submissions[j] # 0
    BY <1>1, <1>3 DEF Billed
<1>8. submissions[j] = 1 => AskedOnce(next, diff)
    BY <1>1, <1>3, <1>5, <1>6, <1>7 DEF AskedOnce, Billed
<1>9. \A c \in Curves \cup {"flat"} :
          PricedByOne(row, submissions[j], c) => PricedByOne(next, submissions[j], c)
    BY <1>5 DEF PricedByOne
<1>10. Billed(next, diff, upsell[j], submissions[j], pricedBy[j])
    BY <1>3, <1>5, <1>7, <1>8, <1>9 DEF Billed
<1>11. JobInv(j)'
    BY <1>1, <1>2, <1>3, <1>4, <1>6, <1>10 DEF JobInv
<1>12. ASSUME NEW k \in Jobs, k # j PROVE JobInv(k)'
    <2>1. JobInv(k) /\ gigRow'[k] = gigRow[k] /\ difference'[k] = difference[k]
        BY <1>1, <1>12, Zenon DEF PricingInv
    <2> QED BY <1>1, <2>1 DEF JobInv
<1>13. SettingsInv'
    BY <1>1 DEF PricingInv, SettingsInv, settingVars
<1> QED BY <1>1, <1>11, <1>12, <1>13 DEF PricingInv

LEMMA PricingStep == ASSUME PricingInv, [PricingNext]_pricingVars PROVE PricingInv'
<1>1. CASE PricingChange
    <2>1. UNCHANGED gigVars /\ SettingsInv'
        BY <1>1, SettingsStep DEF PricingInv
    <2>2. \A j \in Jobs : JobInv(j)'
        BY <2>1 DEF PricingInv, JobInv, gigVars
    <2> QED BY <2>1, <2>2 DEF PricingInv, gigVars
<1>2. CASE UNCHANGED pricingVars
    <2>1. UNCHANGED gigVars /\ SettingsInv'
        BY <1>2 DEF pricingVars, settingVars, PricingInv, SettingsInv
    <2>2. \A j \in Jobs : JobInv(j)'
        BY <2>1 DEF PricingInv, JobInv, gigVars
    <2> QED BY <2>1, <2>2 DEF PricingInv, gigVars
<1>3. CASE \E j \in Jobs : \E percent \in CreditPercents \cup {credit} : AcceptBooking(j, percent)
    BY <1>3, AcceptPricing
<1>4. CASE \E j \in Jobs : \E total \in TotalPrices, included \in IncludedCounts : CreateGig(j, total, included)
    BY <1>4, CreatePricing
<1>5. CASE \E j \in Jobs : PayMinimum(j) \/ PayDifference(j) \/ PayExtras(j)
    BY <1>5, MinimumPricing, DifferencePricing, ExtrasPricing
<1>6. CASE \E j \in Jobs : \E count \in PickedCounts : SubmitSelection(j, count) \/ SubmitExtras(j, count)
    BY <1>6, SelectPricing, SelectExtrasPricing
<1> QED BY <1>1, <1>2, <1>3, <1>4, <1>5, <1>6, Zenon DEF PricingNext, PricingChange

THEOREM PricingInvHolds == PricingSpec => []PricingInv
BY PricingInitInv, PricingStep, PTL DEF PricingSpec

\* What was received, by what the deposit lacked
LEMMA ReceivedOnce ==
    ASSUME PricingInv, NEW j \in Jobs, ClosedOnce(j)
    PROVE  /\ Received(j) = Larger(gigRow[j].minimum, Gross(j))
           /\ gigRow[j].rate # NoRate => Gross(j) = gigRow[j].final
           /\ gigRow[j] \in JobRow \cup OldRow
<1>1. /\ gigRow[j].status = "completed" /\ base[j] /\ submissions[j] = 1
      /\ difference[j] \in Payment
      /\ gigRow[j] \in JobRow \cup OldRow
      /\ Billed(gigRow[j], difference[j], upsell[j], submissions[j], pricedBy[j])
    BY DEF PricingInv, JobInv, ClosedOnce, NoJob
<1>2. gigRow[j].minimum \in Nat /\ gigRow[j].final \in Int
    BY <1>1, RowFields
<1>3. CASE gigRow[j].rate = NoRate
    <2>1. gigRow[j].final = NoFinal /\ ~difference[j].paid
        BY <1>1, <1>3 DEF Billed, NoDifference
    <2> QED BY <1>1, <1>2, <1>3, <2>1 DEF Received, Gross, Larger
<1>4. CASE gigRow[j].rate # NoRate
    <2>1. AskedOnce(gigRow[j], difference[j])
        BY <1>1, <1>4 DEF Billed
    <2>2. gigRow[j].final \in Nat /\ Gross(j) = gigRow[j].final
        BY <2>1 DEF AskedOnce, Gross, NoFinal
    <2>3. CASE gigRow[j].final > gigRow[j].minimum
        <3>1. difference[j].paid /\ difference[j].amount = gigRow[j].final - gigRow[j].minimum
            BY <1>1, <2>1, <2>3 DEF AskedOnce
        <3>2. Received(j) = gigRow[j].minimum + (gigRow[j].final - gigRow[j].minimum)
            BY <1>1, <3>1 DEF Received
        <3> QED BY <1>1, <1>2, <2>2, <2>3, <3>2 DEF Larger
    <2>4. CASE gigRow[j].final <= gigRow[j].minimum
        <3>1. ~difference[j].paid
            BY <1>2, <2>1, <2>2, <2>4 DEF AskedOnce, NoDifference
        <3>2. Received(j) = gigRow[j].minimum + 0
            BY <1>1, <3>1 DEF Received
        <3> QED BY <1>1, <1>2, <2>2, <2>4, <3>2 DEF Larger
    <2> QED BY <1>2, <2>2, <2>3, <2>4
<1> QED BY <1>3, <1>4, <1>1

\* Photos are billed once, by the deposit up to what was included and by the
\* difference beyond, under any curves and changes of settings: what was paid is
\* what the invoice divides, or the deposit (selection_quote.py,
\* compute_minimum_amount).
THEOREM PhotosBilledOnce == PricingSpec => []PhotosAreBilledOnce
<1>1. PricingInv => PhotosAreBilledOnce
    <2> SUFFICES ASSUME PricingInv PROVE PhotosAreBilledOnce
        OBVIOUS
    <2>1. PaidAsInvoiced
        BY ReceivedOnce DEF PaidAsInvoiced
    <2>2. ASSUME NEW j \in Jobs, ClosedOnce(j), IsCurvePriced(j),
                 NEW c \in Curves \cup {"flat"}, pricedBy[j] = {c},
                 gigRow[j].picked <= Larger(MINIMUM_PHOTOS, gigRow[j].included)
          PROVE  Received(j) = gigRow[j].minimum
        <3> DEFINE row == gigRow[j]
        <3>1. row.rate # NoRate /\ submissions[j] = 1 /\ row # NoJob
            BY <2>2 DEF IsCurvePriced, ClosedOnce, NoJob
        <3>2. PricedByOne(row, 1, c) /\ row \in JobRow \cup OldRow
            BY <2>2, <3>1 DEF PricingInv, JobInv, Billed
        <3>3. /\ row.rate \in Nat /\ row.picked \in 0..MaxPhotos /\ row.included \in 0..MaxPhotos
              /\ row.minimum \in Nat /\ row.final \in Int
            BY <3>2, RowFields
        <3>4. Larger(MINIMUM_PHOTOS, row.included) \in 0..MaxPhotos
            BY <3>3, PricingAssumption DEF Larger
        <3>5. row.final <= row.minimum
            BY <2>2, <3>2, <3>3, <3>4, TotalGrows DEF PricedByOne
        <3>6. Received(j) = Larger(row.minimum, row.final)
            BY <2>2, <3>1, ReceivedOnce
        <3> QED BY <3>3, <3>5, <3>6 DEF Larger
    <2>3. IncludedIsPaid
        BY <2>2 DEF IncludedIsPaid
    <2> QED BY <2>1, <2>3 DEF PhotosAreBilledOnce
<1> QED BY <1>1, PricingInvHolds, PTL

\* An invoice reads these columns of a gig whose rates were recorded.
LEMMA InvoiceColumns ==
    ASSUME NEW j, gigRow[j].stamped, gigRow'[j].stamped,
           gigRow'[j].minimum = gigRow[j].minimum, gigRow'[j].final = gigRow[j].final,
           gigRow'[j].retained = gigRow[j].retained, gigRow'[j].raww = gigRow[j].raww,
           gigRow'[j].credit = gigRow[j].credit, gigRow'[j].vat = gigRow[j].vat,
           gigRow'[j].picked = gigRow[j].picked
    PROVE  Invoice(j)' = Invoice(j)
BY DEF Invoice, Rates, Gross

\* Writing the status leaves those columns as they are.
LEMMA StatusKeepsInvoice ==
    ASSUME PricingInv, NEW j \in Jobs, gigRow[j] # NoJob, gigRow[j].stamped, NEW status,
           gigRow'[j] = [gigRow[j] EXCEPT !.status = status]
    PROVE  Invoice(j)' = Invoice(j)
<1>1. gigRow[j] \in JobRow
    BY RowFields DEF PricingInv, JobInv
<1> QED BY <1>1, InvoiceColumns DEF JobRow

\* A change of policy, credit, tax profile or curve rewrites no invoice of a gig
\* whose rates were recorded: only another selection does (invoices.py:3-7).
THEOREM InvoicesStandAsStamped == PricingSpec => InvoicesStand
<1>1. ASSUME PricingInv, [PricingNext]_pricingVars, NEW j \in Jobs,
             gigRow[j] # NoJob, gigRow[j].stamped, submissions'[j] = submissions[j]
      PROVE  Invoice(j)' = Invoice(j)
    <2>1. CASE gigRow'[j] = gigRow[j]
        BY <1>1, <2>1, InvoiceColumns
    <2>2. CASE \E status : gigRow'[j] = [gigRow[j] EXCEPT !.status = status]
        BY <1>1, <2>2, StatusKeepsInvoice
    <2>3. CASE UNCHANGED gigRow
        BY <2>1, <2>3
    <2>4. ASSUME NEW k \in Jobs, NEW row, gigRow' = [gigRow EXCEPT ![k] = row], k # j
          PROVE  gigRow'[j] = gigRow[j]
        BY <1>1, <2>4 DEF PricingInv
    <2>5. ASSUME NEW k \in Jobs, NEW status,
                 gigRow' = [gigRow EXCEPT ![k] = [gigRow[k] EXCEPT !.status = status]]
          PROVE  Invoice(j)' = Invoice(j)
        <3>1. CASE k = j
            <4>1. gigRow'[j] = [gigRow[j] EXCEPT !.status = status]
                BY <1>1, <2>5, <3>1 DEF PricingInv
            <4> QED BY <2>2, <4>1
        <3>2. CASE k # j
            BY <2>1, <2>4, <2>5, <3>2
        <3> QED BY <3>1, <3>2
    <2>6. CASE \E k \in Jobs : PayMinimum(k) \/ PayDifference(k) \/ PayExtras(k)
        BY <2>5, <2>6 DEF PayMinimum, PayDifference, PayExtras
    <2>7. CASE \E k \in Jobs : \/ \E percent \in CreditPercents \cup {credit} : AcceptBooking(k, percent)
                               \/ \E total \in TotalPrices, included \in IncludedCounts : CreateGig(k, total, included)
        <3>1. PICK k \in Jobs : gigRow[k] = NoJob /\ \E row : gigRow' = [gigRow EXCEPT ![k] = row]
            BY <2>7, Zenon DEF AcceptBooking, CreateGig
        <3> QED BY <1>1, <2>1, <2>4, <3>1
    <2>8. CASE \E k \in Jobs : \E count \in PickedCounts : SubmitSelection(k, count) \/ SubmitExtras(k, count)
        <3>1. PICK k \in Jobs :
                  /\ \E row : gigRow' = [gigRow EXCEPT ![k] = row]
                  /\ submissions' = [submissions EXCEPT ![k] = submissions[k] + 1]
            BY <2>8, Zenon DEF SubmitSelection, SubmitExtras
        <3>2. k # j
            <4>1. submissions[j] \in Nat /\ submissions = [i \in Jobs |-> submissions[i]]
                BY <1>1, Zenon DEF PricingInv, JobInv
            <4> QED BY <1>1, <3>1, <4>1
        <3> QED BY <2>1, <2>4, <3>1, <3>2
    <2>9. CASE PricingChange
        BY <1>1, <2>3, <2>9, SettingsStep DEF PricingInv, gigVars
    <2>10. CASE UNCHANGED pricingVars
        BY <2>3, <2>10 DEF pricingVars, gigVars
    <2> QED BY <1>1, <2>6, <2>7, <2>8, <2>9, <2>10, Zenon DEF PricingNext, PricingChange
<1>2. PricingInv /\ [PricingNext]_pricingVars =>
          [\A j \in Jobs : gigRow[j] # NoJob /\ gigRow[j].stamped /\ submissions'[j] = submissions[j]
                           => Invoice(j)' = Invoice(j)]_pricingVars
    BY <1>1
<1> QED BY <1>2, PricingInvHolds, PTL DEF PricingSpec, InvoicesStand
=============================================================================
