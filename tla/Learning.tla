------------------------------ MODULE Learning ------------------------------
(***************************************************************************)
(* The courses of one curriculum and one student's way through them:       *)
(* api/app/services/learning.py, tasks/learning_tasks.py, api/v1/courses.py*)
(* and the course handlers of api/v1/admin.py.                             *)
(*                                                                         *)
(* There are two ways to complete a course: the modules of /learn, watched *)
(* and quizzed, and the lessons of the older /enrollments handlers.  The   *)
(* requests of /learn read when they begin and write when they commit.     *)
(***************************************************************************)
EXTENDS Integers, FiniteSets

CONSTANTS
    Courses,       \* mandatory courses of the curriculum
    Chapters,        \* names of the modules of a course, each with one lesson
    Quizzed,       \* those that have a quiz
    PricedCourses, \* pricing_mode paid
    Learners,      \* requests of the student that may overlap
    Edited,        \* courses still being written; the others are approved
    Older, Newer   \* courses taken by their lessons, and by their modules

ASSUME LearningAssumption ==
    /\ Quizzed \subseteq Chapters /\ PricedCourses \cup Edited \cup Older \cup Newer \subseteq Courses
    /\ IsFiniteSet(Courses \X Chapters) /\ "curriculum" \notin Courses

VARIABLES
    course,       \* course: status, is_published, and the modules it has
    enrollment,   \* enrollment: status and paid
    progress,     \* module_progress: watched to 90 %, the last quiz, completed
    lessons,      \* lesson_progress and quiz_attempt: completed, passed attempts
    sales,        \* course_sale rows
    certificates, \* certificate: a course, or the curriculum
    certTasks,    \* issue_certificate tasks that wait
    studying      \* what each request has read

learningVars ==
    <<course, enrollment, progress, lessons, sales, certificates, certTasks, studying>>

CourseStatus == {"draft", "submitted", "approved", "rejected"}
Units == Courses \X Chapters
UnitsOf(c) == {c} \X course[c].parts
Unwatched == [watched |-> FALSE, quiz |-> "none", done |-> FALSE]
NotStudying == [op |-> "idle", on |-> {}, row |-> Unwatched, done |-> {}, earned |-> {}]

----------------------------------------------------------------------------
(* Authors and admins *)

\* instructor_create_module and instructor_create_lesson
AddUnit(c, k) ==
    /\ ~course[c].published /\ k \notin course[c].parts
    /\ course' = [course EXCEPT ![c].parts = @ \cup {k}]
    /\ UNCHANGED <<enrollment, progress, lessons, sales, certificates, certTasks, studying>>

SetCourse(c, status, published) ==
    /\ course' = [course EXCEPT ![c].status = status, ![c].published = published]
    /\ UNCHANGED <<enrollment, progress, lessons, sales, certificates, certTasks, studying>>

\* submit_course_for_review
SubmitCourse(c) ==
    course[c].status \in {"draft", "rejected"} /\ SetCourse(c, "submitted", course[c].published)

\* review_course_submission, whatever the status
ReviewCourse(c) == SetCourse(c, "approved", TRUE) \/ SetCourse(c, "rejected", FALSE)

\* assert_course_publishable
Publishable(c) == course[c].parts # {}

\* instructor_publish_course: no review is asked for
PublishCourse(c) == Publishable(c) /\ SetCourse(c, course[c].status, TRUE)

\* admin_unpublish_course
UnpublishCourse(c) == SetCourse(c, course[c].status, FALSE)

----------------------------------------------------------------------------
(* The student enrols *)

Enroll(c, paid) ==
    /\ enrollment[c].status = "none"
    /\ enrollment' = [enrollment EXCEPT ![c] = [status |-> "enrolled", paid |-> paid]]
    /\ UNCHANGED <<course, progress, lessons, sales, certificates, certTasks, studying>>

\* enroll_course
EnrollPublished(c) == course[c].published /\ Enroll(c, FALSE)

\* enroll_user_in_course
EnrollToLearn(c) ==
    course[c].published /\ course[c].status = "approved" /\ Enroll(c, c \notin PricedCourses)

----------------------------------------------------------------------------
(* Lessons *)

\* upsert_lesson_progress, or a passed quiz_attempt
LessonsAfter(u, step) ==
    [lessons EXCEPT ![u] = IF step = "pass" THEN [@ EXCEPT !.passed = @ + 1]
                           ELSE [@ EXCEPT !.done = (step = "done")]]

\* evaluate_enrollment_completion: it raises for a lesson passed twice
Raises(c, l) ==
    /\ \A u \in UnitsOf(c) : l[u].done
    /\ \E u \in UnitsOf(c) : u[2] \in Quizzed /\ l[u].passed > 1
AllLessons(c, l) ==
    \A u \in UnitsOf(c) : l[u].done /\ (u[2] \in Quizzed => l[u].passed = 1)

\* update_lesson_progress, submit_quiz_attempt: the certificate is asked for
\* before the commit, which may still fail
StudyLesson(u, step) ==
    LET c == u[1]
        after == LessonsAfter(u, step)
        completes == AllLessons(c, after) /\ enrollment[c].status # "completed"
    IN  /\ enrollment[c].status # "none" /\ u \in UnitsOf(c)
        /\ step = "pass" => u[2] \in Quizzed /\ lessons[u].passed < 2
        /\ ~Raises(c, after)
        /\ certTasks' = IF completes THEN certTasks \cup {c} ELSE certTasks
        /\ \/ /\ lessons' = after
              /\ enrollment' = IF completes THEN [enrollment EXCEPT ![c].status = "completed"]
                               ELSE enrollment
           \/ /\ completes
              /\ UNCHANGED <<lessons, enrollment>>
        /\ UNCHANGED <<course, progress, sales, certificates, studying>>

\* issue_certificate_for_enrollment, whatever the enrollment's status
IssueCertificate(c) ==
    /\ c \in certTasks
    /\ certTasks' = certTasks \ {c}
    /\ certificates' = certificates \cup {c}
    /\ UNCHANGED <<course, enrollment, progress, lessons, sales, studying>>

\* a task that dies is not tried again
LoseTask(c) ==
    /\ c \in certTasks
    /\ certTasks' = certTasks \ {c}
    /\ UNCHANGED <<course, enrollment, progress, lessons, sales, certificates, studying>>

----------------------------------------------------------------------------
(* Modules *)

EarnedMutEnrolled == {c \in Courses : enrollment[c].status # "none"}
Earned == {c \in Courses : enrollment[c].status = "completed"}

BeginStudy(s, op, u) ==
    /\ studying[s] = NotStudying
    /\ enrollment[u[1]].status # "none" /\ u \in UnitsOf(u[1])
    /\ op = "quiz" => u[2] \in Quizzed
    /\ studying' = [studying EXCEPT ![s] = [op |-> op, on |-> {u}, row |-> progress[u],
                        done |-> {v \in Units : progress[v].done}, earned |-> Earned]]
    /\ UNCHANGED <<course, enrollment, progress, lessons, sales, certificates, certTasks>>

\* upsert_module_progress: completed is decided anew each time
Watch(row, enough, quizzed) ==
    LET watched == row.watched \/ enough
    IN  [row EXCEPT !.watched = watched, !.done = watched /\ (quizzed => row.quiz = "passed")]

\* score_module_quiz
Score(row, result) ==
    [row EXCEPT !.quiz = result, !.done = @ \/ (result = "passed" /\ row.watched)]

\* Only the columns that changed are written.
Written(old, new, now) ==
    [watched |-> IF new.watched # old.watched THEN new.watched ELSE now.watched,
     quiz    |-> IF new.quiz # old.quiz THEN new.quiz ELSE now.quiz,
     done    |-> IF new.done # old.done THEN new.done ELSE now.done]

\* learn_module_progress, learn_module_quiz: try_complete_enrollment,
\* issue_learning_certificate_for_course, maybe_issue_curriculum_certificate
CommitStudy(s, new) ==
    \E u \in studying[s].on :
        LET t == studying[s]
            c == u[1]
            done == (t.done \ {u}) \cup (IF new.done THEN {u} ELSE {})
            completes == UnitsOf(c) \subseteq done
            earned == t.earned \cup {c}
        IN  /\ progress' = [progress EXCEPT ![u] = Written(t.row, new, @)]
            /\ IF completes
               THEN /\ enrollment' = [enrollment EXCEPT ![c].status = "completed"]
                    /\ certificates' = certificates \cup {c}
                                       \cup (IF Courses \subseteq earned THEN {"curriculum"} ELSE {})
               ELSE UNCHANGED <<enrollment, certificates>>
            /\ studying' = [studying EXCEPT ![s] = NotStudying]
            /\ UNCHANGED <<course, lessons, sales, certTasks>>

CommitWatch(s, enough) ==
    /\ studying[s].op = "watch"
    /\ \A u \in studying[s].on : CommitStudy(s, Watch(studying[s].row, enough, u[2] \in Quizzed))

CommitQuiz(s, result) ==
    /\ studying[s].op = "quiz"
    /\ CommitStudy(s, Score(studying[s].row, result))

\* learn_settle_enrollment_payment: no payment is asked of Stripe
BeginSettle(s, c) ==
    /\ studying[s] = NotStudying
    /\ enrollment[c].status # "none" /\ ~enrollment[c].paid
    /\ studying' = [studying EXCEPT ![s] = [NotStudying EXCEPT !.op = "pay", !.earned = {c}]]
    /\ UNCHANGED <<course, enrollment, progress, lessons, sales, certificates, certTasks>>

\* settle_paid_enrollment
CommitSettle(s) ==
    /\ studying[s].op = "pay"
    /\ enrollment' = [c \in Courses |-> IF c \in studying[s].earned
                                        THEN [enrollment[c] EXCEPT !.paid = TRUE] ELSE enrollment[c]]
    /\ sales' = [c \in Courses |-> IF c \in studying[s].earned THEN sales[c] + 1 ELSE sales[c]]
    /\ studying' = [studying EXCEPT ![s] = NotStudying]
    /\ UNCHANGED <<course, progress, lessons, certificates, certTasks>>

AbortStudy(s) ==
    /\ studying[s] # NotStudying
    /\ studying' = [studying EXCEPT ![s] = NotStudying]
    /\ UNCHANGED <<course, enrollment, progress, lessons, sales, certificates, certTasks>>

----------------------------------------------------------------------------
LearningInit ==
    /\ course = [c \in Courses |-> IF c \in Edited
                    THEN [status |-> "draft", published |-> FALSE, parts |-> {}]
                    ELSE [status |-> "approved", published |-> TRUE, parts |-> Chapters]]
    /\ enrollment = [c \in Courses |-> [status |-> "none", paid |-> FALSE]]
    /\ progress = [u \in Units |-> Unwatched]
    /\ lessons = [u \in Units |-> [done |-> FALSE, passed |-> 0]]
    /\ sales = [c \in Courses |-> 0]
    /\ certificates = {} /\ certTasks = {}
    /\ studying = [s \in Learners |-> NotStudying]

LearningNext ==
    \/ \E c \in Edited : \/ \E k \in Chapters : AddUnit(c, k)
                         \/ SubmitCourse(c) \/ ReviewCourse(c) \/ PublishCourse(c) \/ UnpublishCourse(c)
    \/ \E c \in Courses : EnrollToLearn(c) \/ IssueCertificate(c) \/ LoseTask(c)
    \/ \E c \in Older : EnrollPublished(c)
    \/ \E u \in Older \X Chapters, step \in {"done", "undone", "pass"} : StudyLesson(u, step)
    \/ \E s \in Learners : \/ \E op \in {"watch", "quiz"}, u \in Newer \X Chapters : BeginStudy(s, op, u)
                           \/ \E enough \in BOOLEAN : CommitWatch(s, enough)
                           \/ \E result \in {"passed", "failed"} : CommitQuiz(s, result)
                           \/ \E c \in Courses : BeginSettle(s, c)
                           \/ CommitSettle(s) \/ AbortStudy(s)

LearningSpec == LearningInit /\ [][LearningNext]_learningVars

----------------------------------------------------------------------------
ProgressRow == [watched : BOOLEAN, quiz : {"none", "failed", "passed"}, done : BOOLEAN]

LearningTypeOK ==
    /\ course \in [Courses -> [status : CourseStatus, published : BOOLEAN, parts : SUBSET Chapters]]
    /\ enrollment \in [Courses -> [status : {"none", "enrolled", "completed"}, paid : BOOLEAN]]
    /\ progress \in [Units -> ProgressRow]
    /\ lessons \in [Units -> [done : BOOLEAN, passed : 0..2]]
    /\ sales \in [Courses -> 0..Cardinality(Learners)]
    /\ certificates \subseteq Courses \cup {"curriculum"} /\ certTasks \subseteq Courses
    /\ studying \in [Learners -> [op : {"idle", "watch", "quiz", "pay"}, on : SUBSET Units,
                                  row : ProgressRow, done : SUBSET Units, earned : SUBSET Courses]]

\* A curriculum certificate is only there when every mandatory course was
\* completed, whichever way, and whatever requests overlapped or failed.
CurriculumIsEarned ==
    "curriculum" \in certificates => \A c \in Courses : enrollment[c].status = "completed"
=============================================================================
