------------------------------- MODULE Calls --------------------------------
(***************************************************************************)
(* Follow-up jobs and phone calls to one recipient, during one day.        *)
(* api/app/services/followups.py, call_compliance.py, telephony.py,        *)
(* api/app/tasks/call_tasks.py, followup_tasks.py and                      *)
(* api/app/api/v1/communications.py.                                       *)
(*                                                                         *)
(* A call is asked for by a request or by a sweep over the due jobs.  Both *)
(* read the consent and the count of calls, flush the call, hand its task  *)
(* to a worker and only then commit; the task reads everything again.      *)
(* Nothing is locked.  The limit per photographer, transcripts and AI      *)
(* summaries are left out.                                                 *)
(***************************************************************************)
EXTENDS Integers, FiniteSets

CONSTANTS
    CallIds,      \* calls to the recipient
    Sweeps,       \* runs of process_followup_jobs that may overlap
    CallJobs,     \* follow-up jobs of the recipient
    PhoneJobs,    \* those whose rule has the channel phone_call; in_app the rest
    DailyLimit,   \* call_rate_limit_per_user_per_day
    MaxConsents,  \* bound of the active consents
    MaxNotes      \* bound of the notifications of a job

ASSUME CallsAssumption ==
    /\ PhoneJobs \subseteq CallJobs /\ IsFiniteSet(CallIds)
    /\ DailyLimit \in Nat /\ MaxConsents \in Nat /\ MaxNotes \in Nat

VARIABLES
    call,     \* call_session.status; "asked" and "flushed" before the commit
    oneTime,  \* calls of the call-me button
    task,     \* the task of each call
    dialled,  \* calls the provider was told to make
    lost,     \* calls whose status was once failed or cancelled
    job,      \* followup_job.status
    notes,    \* notifications made for each job
    sweep,    \* what each sweep has read and done
    consents, \* contact_consent: active rows for transactional calls
    quiet     \* whether it is the recipient's quiet hours

callVars == <<call, oneTime, task, dialled, lost, job, notes, sweep, consents, quiet>>

\* The rows of the tables, as far as they are told apart; a call is asked for and
\* flushed before its row is committed as queued.
FollowupJobStatus == {"none", "scheduled", "sent", "failed"}
FollowupJob == [CallJobs -> FollowupJobStatus]
ContactConsent == 0..MaxConsents

Ended == {"completed", "failed", "cancelled"}
Reports == {"dialing", "in_progress"} \cup Ended
CallSessionStatus == {"none", "asked", "flushed", "gone", "queued"} \cup Reports
CallSession == [CallIds -> CallSessionStatus]

NotSweeping == [due |-> {}, done |-> {}, failed |-> {}, calls |-> {}]

----------------------------------------------------------------------------
(* Compliance *)

CountedMutNotQueued == {c \in CallIds : call[c] \in {"dialing", "in_progress", "completed"}}
\* enforce_call_rate_limits: the calls of the day that may still be answered.
\* A task counts its own call.
Counted == {c \in CallIds : call[c] \in {"queued", "dialing", "in_progress", "completed"}}

\* enforce_call_allowed: scalar_one_or_none raises when two consents are active.
\* A sweep sees the calls it has flushed itself.
CallAllowed(button, own) ==
    /\ ~quiet
    /\ button \/ consents = 1
    /\ Cardinality(Counted \cup own) < DailyLimit

\* set_my_consent: every grant adds a row, a withdrawal revokes them all
SetConsent(granted) ==
    /\ granted => consents < MaxConsents
    /\ consents' = IF granted THEN consents + 1 ELSE 0
    /\ UNCHANGED <<call, oneTime, task, dialled, lost, job, notes, sweep, quiet>>

\* upsert_my_contact moves the quiet hours, and so does the clock.
SetQuiet ==
    /\ quiet' = ~quiet
    /\ UNCHANGED <<call, oneTime, task, dialled, lost, job, notes, sweep, consents>>

----------------------------------------------------------------------------
(* Requests *)

\* request_outbound_call up to its checks
AskCall(c, button) ==
    /\ call[c] = "none" /\ CallAllowed(button, {})
    /\ call' = [call EXCEPT ![c] = "asked"]
    /\ oneTime' = IF button THEN oneTime \cup {c} ELSE oneTime
    /\ UNCHANGED <<task, dialled, lost, job, notes, sweep, consents, quiet>>

\* The call is flushed and its task handed over before the commit.
DelayCall(c) ==
    /\ call[c] = "asked"
    /\ call' = [call EXCEPT ![c] = "flushed"]
    /\ task' = [task EXCEPT ![c] = "waiting"]
    /\ UNCHANGED <<oneTime, dialled, lost, job, notes, sweep, consents, quiet>>

CommitCall(c) ==
    /\ call[c] = "flushed" /\ \A p \in Sweeps : c \notin sweep[p].calls
    /\ call' = [call EXCEPT ![c] = "queued"]
    /\ UNCHANGED <<oneTime, task, dialled, lost, job, notes, sweep, consents, quiet>>

\* The request dies: its row is gone, the task it handed over is not.
AbortCall(c) ==
    /\ call[c] \in {"asked", "flushed"} /\ \A p \in Sweeps : c \notin sweep[p].calls
    /\ call' = [call EXCEPT ![c] = "gone"]
    /\ UNCHANGED <<oneTime, task, dialled, lost, job, notes, sweep, consents, quiet>>

----------------------------------------------------------------------------
(* The task of a call *)

\* execute_outbound_call_task finds no queued call: not_found, invalid_state
DropTask(c) ==
    /\ task[c] = "waiting" /\ call[c] # "queued"
    /\ task' = [task EXCEPT ![c] = "over"]
    /\ UNCHANGED <<call, oneTime, dialled, lost, job, notes, sweep, consents, quiet>>

CheckCall(c) ==
    /\ task[c] = "waiting" /\ call[c] = "queued" /\ CallAllowed(c \in oneTime, {})
    /\ task' = [task EXCEPT ![c] = "checked"]
    /\ UNCHANGED <<call, oneTime, dialled, lost, job, notes, sweep, consents, quiet>>

\* create_outbound_call
Dial(c) ==
    /\ task[c] = "checked"
    /\ dialled' = dialled \cup {c}
    /\ task' = [task EXCEPT ![c] = "dialled"]
    /\ UNCHANGED <<call, oneTime, lost, job, notes, sweep, consents, quiet>>

\* The provider's answer is committed: the call is under way or already over.
CommitDial(c, status) ==
    /\ task[c] = "dialled" /\ status \in {"dialing", "completed"}
    /\ call' = [call EXCEPT ![c] = status]
    /\ task' = [task EXCEPT ![c] = "known"]
    /\ UNCHANGED <<oneTime, dialled, lost, job, notes, sweep, consents, quiet>>

\* A refused check, a provider that raises, a transcript that may not be read:
\* the transaction is rolled back and the call failed, dialled or not.
FailTask(c) ==
    /\ \/ task[c] = "waiting" /\ call[c] = "queued" /\ ~CallAllowed(c \in oneTime, {})
       \/ task[c] \in {"checked", "dialled"}
    /\ call' = [call EXCEPT ![c] = "failed"]
    /\ lost' = lost \cup {c}
    /\ task' = [task EXCEPT ![c] = "over"]
    /\ UNCHANGED <<oneTime, dialled, job, notes, sweep, consents, quiet>>

\* The worker dies: the call stays queued and counted.
CrashTask(c) ==
    /\ task[c] \in {"waiting", "checked", "dialled"}
    /\ task' = [task EXCEPT ![c] = "over"]
    /\ UNCHANGED <<call, oneTime, dialled, lost, job, notes, sweep, consents, quiet>>

\* telephony_webhook: any status after any other, for a call whose
\* provider_call_id was committed
ReportCall(c, status) ==
    /\ task[c] = "known"
    /\ call' = [call EXCEPT ![c] = status]
    /\ lost' = IF status \in {"failed", "cancelled"} THEN lost \cup {c} ELSE lost
    /\ UNCHANGED <<oneTime, task, dialled, job, notes, sweep, consents, quiet>>

----------------------------------------------------------------------------
(* Follow-up jobs *)

\* schedule_followups; a rebuild schedules another job, due at another time
ScheduleJob(j) ==
    /\ job[j] = "none"
    /\ job' = [job EXCEPT ![j] = "scheduled"]
    /\ UNCHANGED <<call, oneTime, task, dialled, lost, notes, sweep, consents, quiet>>

\* process_due_followup_jobs reads the due jobs without locking them.
BeginJobSweep(p) ==
    /\ sweep[p] = NotSweeping
    /\ \E due \in (SUBSET {j \in CallJobs : job[j] = "scheduled"}) \ {{}} :
          sweep' = [sweep EXCEPT ![p].due = due]
    /\ UNCHANGED <<call, oneTime, task, dialled, lost, job, notes, consents, quiet>>

\* A notification, or a call whose task is handed over before the commit
SendJob(p, j, c) ==
    /\ j \in sweep[p].due
    /\ IF j \in PhoneJobs
       THEN /\ call[c] = "none" /\ CallAllowed(FALSE, sweep[p].calls)
            /\ call' = [call EXCEPT ![c] = "flushed"]
            /\ task' = [task EXCEPT ![c] = "waiting"]
            /\ sweep' = [sweep EXCEPT ![p].due = @ \ {j}, ![p].done = @ \cup {j},
                                      ![p].calls = @ \cup {c}]
       ELSE /\ sweep' = [sweep EXCEPT ![p].due = @ \ {j}, ![p].done = @ \cup {j}]
            /\ UNCHANGED <<call, task>>
    /\ UNCHANGED <<oneTime, dialled, lost, job, notes, consents, quiet>>

\* The recipient may not be called: the job has failed and is not tried again.
FailJob(p, j) ==
    /\ j \in sweep[p].due \cap PhoneJobs /\ ~CallAllowed(FALSE, sweep[p].calls)
    /\ sweep' = [sweep EXCEPT ![p].due = @ \ {j}, ![p].failed = @ \cup {j}]
    /\ UNCHANGED <<call, oneTime, task, dialled, lost, job, notes, consents, quiet>>

CommitSweep(p) ==
    /\ sweep[p] # NotSweeping /\ sweep[p].due = {}
    /\ \A j \in sweep[p].done \ PhoneJobs : notes[j] < MaxNotes
    /\ job' = [j \in CallJobs |-> IF j \in sweep[p].done THEN "sent"
                                  ELSE IF j \in sweep[p].failed THEN "failed" ELSE job[j]]
    /\ notes' = [j \in CallJobs |-> IF j \in sweep[p].done \ PhoneJobs THEN notes[j] + 1 ELSE notes[j]]
    /\ call' = [c \in CallIds |-> IF c \in sweep[p].calls THEN "queued" ELSE call[c]]
    /\ sweep' = [sweep EXCEPT ![p] = NotSweeping]
    /\ UNCHANGED <<oneTime, task, dialled, lost, consents, quiet>>

AbortSweep(p) ==
    /\ sweep[p] # NotSweeping
    /\ call' = [c \in CallIds |-> IF c \in sweep[p].calls THEN "gone" ELSE call[c]]
    /\ sweep' = [sweep EXCEPT ![p] = NotSweeping]
    /\ UNCHANGED <<oneTime, task, dialled, lost, job, notes, consents, quiet>>

----------------------------------------------------------------------------
CallsInit ==
    /\ call = [c \in CallIds |-> "none"] /\ task = [c \in CallIds |-> "none"]
    /\ oneTime = {} /\ dialled = {} /\ lost = {}
    /\ job = [j \in CallJobs |-> "none"] /\ notes = [j \in CallJobs |-> 0]
    /\ sweep = [p \in Sweeps |-> NotSweeping]
    /\ consents = 0 /\ quiet = FALSE

CallsNext ==
    \/ \E granted \in BOOLEAN : SetConsent(granted)
    \/ SetQuiet
    \/ \E c \in CallIds :
          \/ \E button \in BOOLEAN : AskCall(c, button)
          \/ DelayCall(c) \/ CommitCall(c) \/ AbortCall(c)
          \/ DropTask(c) \/ CheckCall(c) \/ Dial(c) \/ FailTask(c) \/ CrashTask(c)
          \/ \E status \in Reports : CommitDial(c, status) \/ ReportCall(c, status)
    \/ \E j \in CallJobs : ScheduleJob(j)
    \/ \E p \in Sweeps :
          \/ BeginJobSweep(p) \/ CommitSweep(p) \/ AbortSweep(p)
          \/ \E j \in CallJobs : FailJob(p, j) \/ \E c \in CallIds : SendJob(p, j, c)

CallsSpec == CallsInit /\ [][CallsNext]_callVars
----------------------------------------------------------------------------
CallsTypeOK ==
    /\ call \in CallSession
    /\ task \in [CallIds -> {"none", "waiting", "checked", "dialled", "known", "over"}]
    /\ oneTime \subseteq CallIds /\ dialled \subseteq CallIds /\ lost \subseteq CallIds
    /\ job \in FollowupJob
    /\ notes \in [CallJobs -> 0..MaxNotes]
    /\ \A p \in Sweeps :
          /\ sweep[p].due \cup sweep[p].done \cup sweep[p].failed \subseteq CallJobs
          /\ sweep[p].calls \subseteq CallIds
    /\ consents \in ContactConsent /\ quiet \in BOOLEAN

\* The recipient is not called more often in a day than the limit allows:
\* fewer calls than the limit, for a task counts its own call, were made and
\* never reported failed or cancelled - although requests, sweeps and tasks
\* count without a lock and the provider is told before anything is committed.
CallsWithinDailyLimit ==
    dialled \subseteq lost \/ Cardinality(dialled \ lost) < DailyLimit
=============================================================================
