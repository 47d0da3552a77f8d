------------------------------- MODULE Outbox -------------------------------
(***************************************************************************)
(* The transactional outbox: api/app/services/outbox.py, the dispatcher of *)
(* api/app/tasks/outbox_tasks.py and the two webhook endpoints of          *)
(* api/app/api/v1/webhooks.py that feed it.                                *)
(*                                                                         *)
(* A webhook request inserts an idempotency key and a row in one           *)
(* transaction and answers 200 after its commit.  The unique key makes a   *)
(* second insert of the same key wait until the first transaction ends.    *)
(* A dispatcher locks the oldest due rows that nobody has locked, runs     *)
(* their handlers one by one in the SAME transaction, marks each row and   *)
(* commits once for the whole batch.  A handler that raises leaves what it *)
(* had written so far in the transaction.  A handler whose SQL fails       *)
(* leaves the session unusable: marking the row raises too, the task ends  *)
(* and the whole batch is rolled back.                                     *)
(*                                                                         *)
(* Rows are numbered by created_at.  An operator whose name contains Mut   *)
(* is a deliberately wrong form of the definition that follows it; nothing *)
(* uses it but the mutation tests.                                         *)
(***************************************************************************)
EXTENDS Integers, FiniteSets

CONSTANTS
    Events,      \* webhook events, numbered by the created_at of their rows
    NoEvent,
    Api,         \* API sessions that ingest webhooks
    Workers,     \* dispatcher tasks that may run at the same time
    BatchLimit,  \* OUTBOX_BATCH_SIZE
    MaxAttempts, \* OUTBOX_MAX_ATTEMPTS
    MayRaise,    \* events whose handler may raise
    MayBreak,    \* events whose handler's SQL may fail
    MustBreak,   \* events whose handler's SQL always fails
    MaxCrashes   \* bound on batches lost to a worker that dies, or to SQL that
                 \* fails but need not

ASSUME OutboxAssumption ==
    /\ Events \subseteq Nat /\ IsFiniteSet(Events) /\ NoEvent \notin Events
    /\ BatchLimit \in Nat \ {0} /\ MaxAttempts \in Nat \ {0}
    /\ MayRaise \subseteq Events /\ MustBreak \subseteq MayBreak
    /\ MayBreak \subseteq Events
    /\ MaxCrashes \in Nat

VARIABLES
    row,      \* committed outbox_event rows
    applied,  \* committed runs of each handler that went through
    partial,  \* committed runs of each handler that raised on the way
    acked,    \* events the provider got a 200 for
    ingest,   \* what each API session is storing
    work,     \* what each worker has done in its open transaction
    crashes

vars == <<row, applied, partial, acked, ingest, work, crashes>>

----------------------------------------------------------------------------
Row == [status : {"none", "pending", "delivered", "failed"},
        attempts : 0..MaxAttempts, due : BOOLEAN]
NoRow == [status |-> "none", attempts |-> 0, due |-> FALSE]

Ingest == [event : Events \cup {NoEvent}, fresh : BOOLEAN]
NoIngest == [event |-> NoEvent, fresh |-> FALSE]

Worker == [phase : {"idle", "running", "sweeping"},
           left : SUBSET Events, ok : SUBSET Events, bad : SUBSET Events]
IdleWorker == [phase |-> "idle", left |-> {}, ok |-> {}, bad |-> {}]

----------------------------------------------------------------------------
(* Ingest: the webhook endpoints *)

Stored(e) == row[e].status # "none"
Ingesting(e) == \E a \in Api : ingest[a].event = e

\* enqueue_outbox_event with an idempotency key: a savepoint tells whether the
\* key is new; the insert waits for a transaction that holds the same key
BeginIngest(a, e) ==
    /\ ingest[a] = NoIngest
    /\ ~Ingesting(e)
    /\ ingest' = [ingest EXCEPT ![a] = [event |-> e, fresh |-> ~Stored(e)]]
    /\ UNCHANGED <<row, applied, partial, acked, work, crashes>>

CommitIngestMutUpsert(a) ==
    LET e == ingest[a].event
    IN  /\ e # NoEvent
        /\ row' = [row EXCEPT ![e] = [status |-> "pending", attempts |-> 0, due |-> TRUE]]
        /\ acked' = acked \cup {e}
        /\ ingest' = [ingest EXCEPT ![a] = NoIngest]
        /\ UNCHANGED <<applied, partial, work, crashes>>
CommitIngest(a) ==
    LET e == ingest[a].event
    IN  /\ e # NoEvent
        /\ row' = IF ingest[a].fresh
                  THEN [row EXCEPT ![e] =
                          [status |-> "pending", attempts |-> 0, due |-> TRUE]]
                  ELSE row
        /\ acked' = acked \cup {e}
        /\ ingest' = [ingest EXCEPT ![a] = NoIngest]
        /\ UNCHANGED <<applied, partial, work, crashes>>

\* the request dies before its commit: no key, no row, no answer
AbortIngest(a) ==
    /\ ingest[a].event # NoEvent
    /\ ingest' = [ingest EXCEPT ![a] = NoIngest]
    /\ UNCHANGED <<row, applied, partial, acked, work, crashes>>

----------------------------------------------------------------------------
(* dispatch_outbox_events_task *)

Batch(w) == work[w].left \cup work[w].ok \cup work[w].bad
Locked(e) == \E w \in Workers : e \in Batch(w)
Oldest(S, n) == {e \in S : Cardinality({d \in S : d < e}) < n}

\* claim_pending_outbox_events: FOR UPDATE SKIP LOCKED
ClaimableMutNoSkip == {e \in Events : row[e].status = "pending" /\ row[e].due}
ClaimableMutNoRetry ==
    {e \in Events : row[e].status = "pending" /\ row[e].attempts = 0 /\ ~Locked(e)}
Claimable == {e \in Events : row[e].status = "pending" /\ row[e].due /\ ~Locked(e)}

Claim(w) ==
    /\ work[w].phase = "idle"
    /\ Claimable # {}
    /\ work' = [work EXCEPT ![w] =
                  [IdleWorker EXCEPT !.phase = "running",
                                     !.left = Oldest(Claimable, BatchLimit)]]
    /\ UNCHANGED <<row, applied, partial, acked, ingest, crashes>>

\* _dispatch_event on the next row of the batch, and the mark that follows it
Dispatch(w, e) ==
    LET x == work[w]
    IN  /\ x.phase = "running"
        /\ e \in x.left /\ \A d \in x.left : e <= d
        /\ \/ /\ e \notin MustBreak
              /\ work' = [work EXCEPT ![w] =
                            [x EXCEPT !.left = x.left \ {e}, !.ok = x.ok \cup {e}]]
              /\ UNCHANGED crashes
           \/ /\ e \in MayRaise \ MustBreak
              /\ work' = [work EXCEPT ![w] =
                            [x EXCEPT !.left = x.left \ {e}, !.bad = x.bad \cup {e}]]
              /\ UNCHANGED crashes
           \/ /\ e \in MayBreak
              /\ e \in MustBreak \/ crashes < MaxCrashes
              /\ work' = [work EXCEPT ![w] = IdleWorker]
              /\ crashes' = IF e \in MustBreak THEN crashes ELSE crashes + 1
        /\ UNCHANGED <<row, applied, partial, acked, ingest>>

\* mark_outbox_failed
GivesUp(e) == row[e].attempts + 1 >= MaxAttempts

Marked(x, e) ==
    IF e \in x.ok THEN [row[e] EXCEPT !.status = "delivered"]
    ELSE IF e \in x.bad
    THEN [status |-> IF GivesUp(e) THEN "failed" ELSE "pending",
          attempts |-> row[e].attempts + 1, due |-> FALSE]
    ELSE row[e]

\* the one commit of the batch, effects and marks together
CommitBatch(w) ==
    LET x == work[w]
    IN  /\ x.phase = "running" /\ x.left = {}
        /\ row' = [e \in Events |-> Marked(x, e)]
        /\ applied' = [e \in Events |-> IF e \in x.ok THEN applied[e] + 1 ELSE applied[e]]
        /\ partial' = [e \in Events |-> IF e \in x.bad THEN partial[e] + 1 ELSE partial[e]]
        /\ work' = [work EXCEPT ![w] = [IdleWorker EXCEPT !.phase = "sweeping"]]
        /\ UNCHANGED <<acked, ingest, crashes>>

\* the dispute and notification sweeps commit or roll back on their own
EndSweeps(w) ==
    /\ work[w].phase = "sweeping"
    /\ work' = [work EXCEPT ![w] = IdleWorker]
    /\ UNCHANGED <<row, applied, partial, acked, ingest, crashes>>

\* the worker process dies; the database rolls its transaction back
CrashWorker(w) ==
    /\ work[w].phase # "idle"
    /\ crashes < MaxCrashes
    /\ crashes' = crashes + 1
    /\ work' = [work EXCEPT ![w] = IdleWorker]
    /\ UNCHANGED <<row, applied, partial, acked, ingest>>

\* next_attempt_at passes
Backoff(e) ==
    /\ row[e].status = "pending" /\ ~row[e].due
    /\ row' = [row EXCEPT ![e] = [@ EXCEPT !.due = TRUE]]
    /\ UNCHANGED <<applied, partial, acked, ingest, work, crashes>>

----------------------------------------------------------------------------
Init ==
    /\ row = [e \in Events |-> NoRow]
    /\ applied = [e \in Events |-> 0]
    /\ partial = [e \in Events |-> 0]
    /\ acked = {}
    /\ ingest = [a \in Api |-> NoIngest]
    /\ work = [w \in Workers |-> IdleWorker]
    /\ crashes = 0

Next ==
    \/ \E a \in Api :
           \/ \E e \in Events : BeginIngest(a, e)
           \/ CommitIngest(a) \/ AbortIngest(a)
    \/ \E w \in Workers :
           \/ \E e \in Events : Dispatch(w, e)
           \/ Claim(w) \/ CommitBatch(w) \/ EndSweeps(w) \/ CrashWorker(w)
    \/ \E e \in Events : Backoff(e)

Spec == Init /\ [][Next]_vars

\* The beat schedule keeps starting the dispatcher, a started task goes on to
\* its end, and time passes.  Nothing makes a provider send an event.
Fairness ==
    /\ WF_vars(\E w \in Workers : Claim(w))
    /\ \A w \in Workers :
           WF_vars((\E e \in Events : Dispatch(w, e)) \/ CommitBatch(w) \/ EndSweeps(w))
    /\ \A e \in Events : WF_vars(Backoff(e))

FairSpec == Spec /\ Fairness

----------------------------------------------------------------------------
(* Properties *)

\* Rows, sessions and workers have their types; attempts stay within bounds.
TypeOK ==
    /\ row \in [Events -> Row]
    /\ applied \in [Events -> Nat]
    /\ partial \in [Events -> Nat]
    /\ acked \subseteq Events
    /\ ingest \in [Api -> Ingest]
    /\ work \in [Workers -> Worker]
    /\ crashes \in 0..MaxCrashes

\* The effects of an event are in the database exactly when its row says
\* delivered, and once, whatever workers overlap, die or are rolled back.
DeliveredIsAppliedOnce ==
    \A e \in Events : applied[e] = IF row[e].status = "delivered" THEN 1 ELSE 0

\* An event the provider was told to forget is stored: two deliveries of the
\* same event that overlap cannot lose it.
AckedIsStored == \A e \in acked : Stored(e)

\* Every run of a handler that left half of its effects behind is counted
\* against the event's attempts, so there are at most MaxAttempts of them, and
\* a row is given up only after that many.
PartialRunsAreCounted ==
    \A e \in Events :
        /\ partial[e] = row[e].attempts
        /\ row[e].status = "failed" <=> row[e].attempts = MaxAttempts

\* A row that was stored is eventually delivered or given up.
StoredIsSettled ==
    \A e \in Events :
        row[e].status = "pending" ~> row[e].status \in {"delivered", "failed"}

\* The outbox keeps the promise of Inbox: stored events take effect once or are
\* given up, and neither is ever undone.
Abstract == [none |-> "absent", pending |-> "queued", delivered |-> "done", failed |-> "dead"]
AbstractState == [e \in Events |-> Abstract[row[e].status]]
AsInbox == INSTANCE Inbox WITH state <- AbstractState, effects <- applied
ImplementsInbox == AsInbox!Spec

----------------------------------------------------------------------------
(* The inductive invariant: open transactions hold rows of their own, which *)
(* are still pending, and know whether their key was new.                   *)

BatchesArePending ==
    \A w \in Workers : \A e \in Batch(w) : row[e].status = "pending"
BatchesAreDisjoint ==
    \A v, w \in Workers : v # w => Batch(v) \cap Batch(w) = {}
RowsAreRunOnce ==
    \A w \in Workers : LET x == work[w]
                       IN  x.left \cap (x.ok \cup x.bad) = {} /\ x.ok \cap x.bad = {}
UnstoredIsBlank == \A e \in Events : row[e].status = "none" => row[e].attempts = 0
KeysAreUnique ==
    \A a, b \in Api : ingest[a].event = ingest[b].event /\ a # b
                      => ingest[a].event = NoEvent
FreshMeansAbsent ==
    \A a \in Api : ingest[a].event # NoEvent
                   => (ingest[a].fresh <=> ~Stored(ingest[a].event))

OutboxInv ==
    /\ BatchesArePending
    /\ BatchesAreDisjoint
    /\ RowsAreRunOnce
    /\ UnstoredIsBlank
    /\ KeysAreUnique
    /\ FreshMeansAbsent
    /\ DeliveredIsAppliedOnce
    /\ AckedIsStored
    /\ PartialRunsAreCounted
=============================================================================
