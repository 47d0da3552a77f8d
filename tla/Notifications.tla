---------------------------- MODULE Notifications ----------------------------
(***************************************************************************)
(* What becomes of a notification: a message inside the application and a  *)
(* mail, now, later or never.  api/app/services/notifications.py, the      *)
(* mail handlers and the sweep of api/app/tasks/outbox_tasks.py, and       *)
(* api/app/api/v1/notifications.py.                                        *)
(*                                                                         *)
(* A worker handles mails in one transaction: those of the outbox events   *)
(* it claimed, or those a sweep found scheduled.  It hands each mail to    *)
(* the provider at once and commits at the end, so a transaction that is   *)
(* rolled back has already sent.  Events are locked while a worker has     *)
(* them (Outbox), scheduled mails are not.  A mail is known by its         *)
(* dedupe_key; resending one makes another.                                *)
(***************************************************************************)
EXTENDS Integers, FiniteSets

CONSTANTS
    Notices,   \* notifications
    Copies,    \* mails an admin sends again
    Mailers,   \* workers
    MaxSends   \* bound of the times a mail is handed to the provider

ASSUME NotificationsAssumption == Notices \cap Copies = {} /\ MaxSends \in Nat \ {0}

Mails == Notices \cup Copies

VARIABLES
    wants,     \* whether the user wants mails, and whether they are deferred now
    noticed,   \* idempotency keys of notify-inapp and notify-email
    dueInapp,  \* notify.create_inapp events that wait
    dueMail,   \* notify.send_email events that wait
    inapp,     \* notification: status
    mail,      \* email_message: status
    logged,    \* notification_event of the channel email
    later,     \* scheduled_notification
    handed,    \* how often the provider took each mail
    posted,    \* how often in a transaction that was committed
    troubled,  \* mails whose sending failed or was rolled back
    mailing    \* the transaction of each worker

noticeVars == <<wants, noticed, dueInapp, dueMail, inapp, mail, logged, later, handed, posted,
                troubled, mailing>>

\* The rows of the tables, as far as they are told apart.
Notification == [Notices -> {"none", "unread", "read"}]
EmailMessage == [Mails -> {"none", "sent", "failed"}]
NotificationEvent == SUBSET Mails
ScheduledNotification == SUBSET Mails

Wants == {"mails", "later", "none"}
NotMailing == [op |-> "idle", todo |-> {}, reading |-> {}, was |-> "none",
               inserted |-> {}, sent |-> {}, failed |-> {}, done |-> {}, deferred |-> {}]

----------------------------------------------------------------------------
(* Asking, reading, preferences *)

\* enqueue_notification: two events, once for a key
Enqueue(S) ==
    /\ ~(S \subseteq noticed)
    /\ noticed' = noticed \cup S
    /\ dueInapp' = dueInapp \cup (S \ noticed) /\ dueMail' = dueMail \cup (S \ noticed)
    /\ UNCHANGED <<wants, inapp, mail, logged, later, handed, posted, troubled, mailing>>

Notify(m) == Enqueue({m})

\* find_and_flag_stuck_gigs: one notice for each admin of each gig that is
\* stuck, again in every sweep
FlagStuck(S) == Enqueue(S)

\* resend_email_message: a failed mail again, under a key of its own
Resend(m, again) ==
    /\ mail[m] = "failed" /\ again \notin noticed
    /\ noticed' = noticed \cup {again}
    /\ dueMail' = dueMail \cup {again}
    /\ UNCHANGED <<wants, dueInapp, inapp, mail, logged, later, handed, posted, troubled, mailing>>

\* _create_inapp_from_payload; shown: the user wants it and no rate limit is
\* exceeded, else the event is delivered and nothing is shown
CreateInapp(m, shown) ==
    /\ m \in dueInapp
    /\ dueInapp' = dueInapp \ {m}
    /\ inapp' = [inapp EXCEPT ![m] = IF shown THEN "unread" ELSE @]
    /\ UNCHANGED <<wants, noticed, dueMail, mail, logged, later, handed, posted, troubled, mailing>>

\* mark_notification_read and mark_all_notifications_read
MarkRead(S) ==
    /\ S # {} /\ \A m \in S : inapp[m] = "unread"
    /\ inapp' = [m \in Notices |-> IF m \in S THEN "read" ELSE inapp[m]]
    /\ UNCHANGED <<wants, noticed, dueInapp, dueMail, mail, logged, later, handed, posted, troubled,
                   mailing>>

\* put_my_notification_preferences, put_my_topic_preferences, and the clock
\* entering and leaving the quiet hours
SetWants(now) ==
    /\ wants' = now
    /\ UNCHANGED <<noticed, dueInapp, dueMail, inapp, mail, logged, later, handed, posted, troubled,
                   mailing>>

----------------------------------------------------------------------------
(* Mailing *)

\* The email events a worker claims, skipping those another one has
Claimed == UNION {mailing[d].todo \cup mailing[d].done \cup mailing[d].reading :
                     d \in {e \in Mailers : mailing[e].op = "batch"}}

ClaimMails(d, S) ==
    /\ mailing[d] = NotMailing
    /\ S # {} /\ S \subseteq dueMail \ Claimed
    /\ mailing' = [mailing EXCEPT ![d] = [NotMailing EXCEPT !.op = "batch", !.todo = S]]
    /\ UNCHANGED <<wants, noticed, dueInapp, dueMail, inapp, mail, logged, later, handed, posted,
                   troubled>>

\* process_due_scheduled_notifications reads the rows that are due, unlocked.
Sweep(d, S) ==
    /\ mailing[d] = NotMailing
    /\ S # {} /\ S \subseteq later
    /\ mailing' = [mailing EXCEPT ![d] = [NotMailing EXCEPT !.op = "sweep", !.todo = S]]
    /\ UNCHANGED <<wants, noticed, dueInapp, dueMail, inapp, mail, logged, later, handed, posted,
                   troubled>>

\* _send_email_from_payload, up to the provider; limited: over a rate limit
Verdict(d, m, limited) ==
    IF mail[m] = "sent" THEN "duplicate"
    ELSE IF wants = "none" THEN "suppressed"
    ELSE IF mailing[d].op = "batch" /\ wants = "later" THEN "deferred"
    ELSE IF limited THEN "rate_limited" ELSE "send"

\* An event is delivered whatever became of its mail; a scheduled mail that was
\* not wanted or not allowed stays.
Look(d, m, limited) ==
    LET t == mailing[d]
        verdict == Verdict(d, m, limited)
        over == verdict = "duplicate" \/ (verdict # "send" /\ t.op = "batch")
    IN  /\ m \in t.todo /\ t.reading = {}
        /\ mailing' = [mailing EXCEPT ![d] = [t EXCEPT
               !.todo = t.todo \ {m},
               !.reading = IF verdict = "send" THEN {m} ELSE {},
               !.was = mail[m],
               !.deferred = IF verdict = "deferred" THEN t.deferred \cup {m} ELSE t.deferred,
               !.done = IF over THEN t.done \cup {m} ELSE t.done]]
        /\ UNCHANGED <<wants, noticed, dueInapp, dueMail, inapp, mail, logged, later, handed,
                       posted, troubled>>

\* The row is inserted before the mail is sent: its unique dedupe_key makes the
\* worker wait for another that has inserted it, and fails it if that commits.
FreeKeyMutNoKey(d, m) == TRUE
FreeKey(d, m) ==
    mailing[d].was = "none" =>
        /\ mail[m] = "none"
        /\ \A e \in Mailers \ {d} : m \notin mailing[e].inserted

Send(d, m, accepted) ==
    LET t == mailing[d]
    IN  /\ m \in t.reading /\ FreeKey(d, m) /\ handed[m] < MaxSends
        /\ handed' = [handed EXCEPT ![m] = @ + IF accepted THEN 1 ELSE 0]
        /\ troubled' = IF accepted THEN troubled ELSE troubled \cup {m}
        /\ mailing' = [mailing EXCEPT ![d] = [t EXCEPT
               !.reading = {},
               !.inserted = IF t.was = "none" THEN t.inserted \cup {m} ELSE t.inserted,
               !.sent = IF accepted THEN t.sent \cup {m} ELSE t.sent,
               !.failed = IF accepted THEN t.failed ELSE t.failed \cup {m},
               !.done = IF accepted \/ t.op = "batch" THEN t.done \cup {m} ELSE t.done]]
        /\ UNCHANGED <<wants, noticed, dueInapp, dueMail, inapp, mail, logged, later, posted>>

\* The unique key on (channel, dedupe_key) of notification_event
Unlogged(S) == S \cap logged = {}

CommitMails(d) ==
    /\ mailing[d].op # "idle" /\ mailing[d].todo = {} /\ mailing[d].reading = {}
    /\ Unlogged(mailing[d].sent)
    /\ mail' = [m \in Mails |-> IF m \in mailing[d].sent THEN "sent"
                                ELSE IF m \in mailing[d].failed THEN "failed" ELSE mail[m]]
    /\ logged' = logged \cup mailing[d].sent
    /\ posted' = [m \in Mails |-> posted[m] + IF m \in mailing[d].sent THEN 1 ELSE 0]
    /\ IF mailing[d].op = "batch"
       THEN dueMail' = dueMail \ mailing[d].done /\ later' = later \cup mailing[d].deferred
       ELSE later' = later \ mailing[d].done /\ UNCHANGED dueMail
    /\ mailing' = [mailing EXCEPT ![d] = NotMailing]
    /\ UNCHANGED <<wants, noticed, dueInapp, inapp, handed, troubled>>

\* A duplicate key, another event of the batch, or a crash: what was sent stays
\* sent.
RollBack(d) ==
    /\ mailing[d] # NotMailing
    /\ troubled' = troubled \cup mailing[d].sent
    /\ mailing' = [mailing EXCEPT ![d] = NotMailing]
    /\ UNCHANGED <<wants, noticed, dueInapp, dueMail, inapp, mail, logged, later, handed, posted>>

----------------------------------------------------------------------------
NoticeInit ==
    /\ wants = "mails"
    /\ noticed = {} /\ dueInapp = {} /\ dueMail = {} /\ logged = {} /\ later = {} /\ troubled = {}
    /\ inapp = [m \in Notices |-> "none"]
    /\ mail = [m \in Mails |-> "none"]
    /\ handed = [m \in Mails |-> 0] /\ posted = [m \in Mails |-> 0]
    /\ mailing = [d \in Mailers |-> NotMailing]

NoticeNext ==
    \/ \E m \in Mails :
          \/ \E again \in Copies : Resend(m, again)
          \/ \E shown \in BOOLEAN : CreateInapp(m, shown)
    \/ \E m \in Notices : Notify(m)
    \/ \E S \in SUBSET Notices : FlagStuck(S) \/ MarkRead(S)
    \/ \E now \in Wants : SetWants(now)
    \/ \E d \in Mailers :
          \/ \E S \in SUBSET Mails : ClaimMails(d, S) \/ Sweep(d, S)
          \/ \E m \in Mails, b \in BOOLEAN : Look(d, m, b) \/ Send(d, m, b)
          \/ CommitMails(d) \/ RollBack(d)

NoticeSpec == NoticeInit /\ [][NoticeNext]_noticeVars
----------------------------------------------------------------------------
NoticeTypeOK ==
    /\ wants \in Wants
    /\ noticed \subseteq Mails /\ dueInapp \subseteq noticed /\ dueMail \subseteq noticed
    /\ logged \in NotificationEvent /\ later \in ScheduledNotification
    /\ logged \cup later \cup troubled \subseteq noticed
    /\ inapp \in Notification /\ mail \in EmailMessage
    /\ handed \in [Mails -> 0..MaxSends] /\ posted \in [Mails -> 0..MaxSends]
    /\ \A d \in Mailers : mailing[d].op \in {"idle", "batch", "sweep"}

\* However sweeps, batches and retries overlap, at most one transaction that
\* sent a mail commits, and a mail reaches the provider twice only after its
\* sending failed or was rolled back.
MailIsSentOnce ==
    \A m \in Mails : posted[m] <= 1 /\ (handed[m] > 1 => m \in troubled)
=============================================================================
