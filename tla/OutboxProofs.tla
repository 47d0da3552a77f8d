---------------------------- MODULE OutboxProofs ----------------------------
(***************************************************************************)
(* The outbox, for every number of events, API sessions and workers and    *)
(* every batch size: each event takes effect exactly when its row says     *)
(* delivered, and once; an acknowledged event is stored; and the outbox    *)
(* implements Inbox.                                                       *)
(***************************************************************************)
EXTENDS Outbox, TLAPS

USE OutboxAssumption

IInv == TypeOK /\ OutboxInv

(* The invariant holds initially. *)
LEMMA InitInv == Init => IInv
    BY DEF Init, IInv, TypeOK, OutboxInv, Row, NoRow, Ingest, NoIngest, Worker, IdleWorker,
           BatchesArePending, BatchesAreDisjoint, RowsAreRunOnce, KeysAreUnique,
           FreshMeansAbsent, DeliveredIsAppliedOnce, AckedIsStored, Stored,
           PartialRunsAreCounted, Batch, UnstoredIsBlank

(* A step that changes only what the workers have in progress keeps the       *)
(* invariant if every batch stays pending and its own.                        *)
LEMMA WorkKeepsInv ==
    ASSUME IInv, NEW w \in Workers, NEW x \in Worker,
           work' = [work EXCEPT ![w] = x],
           UNCHANGED <<row, applied, partial, acked, ingest>>,
           crashes' \in 0..MaxCrashes,
           x.left \cap (x.ok \cup x.bad) = {}, x.ok \cap x.bad = {},
           \A e \in x.left \cup x.ok \cup x.bad :
               /\ row[e].status = "pending"
               /\ \A v \in Workers \ {w} : e \notin Batch(v)
    PROVE  IInv'
<1>1. TypeOK' BY DEF IInv, TypeOK
<1>2. \A v \in Workers : work'[v] = IF v = w THEN x ELSE work[v]
    BY DEF IInv, TypeOK
<1>3. (BatchesArePending /\ BatchesAreDisjoint /\ RowsAreRunOnce)'
    BY <1>2 DEF IInv, OutboxInv, BatchesArePending, BatchesAreDisjoint, RowsAreRunOnce,
                Batch
<1>4. (KeysAreUnique /\ FreshMeansAbsent /\ DeliveredIsAppliedOnce /\ AckedIsStored
       /\ PartialRunsAreCounted /\ UnstoredIsBlank)'
    BY DEF IInv, OutboxInv, KeysAreUnique, FreshMeansAbsent, DeliveredIsAppliedOnce,
           AckedIsStored, PartialRunsAreCounted, Stored, UnstoredIsBlank
<1> QED BY <1>1, <1>3, <1>4 DEF IInv, OutboxInv

(* A step that changes only what the API sessions have in progress, and what  *)
(* is acknowledged.                                                           *)
LEMMA IngestKeepsInv ==
    ASSUME IInv, NEW a \in Api, NEW x \in Ingest,
           ingest' = [ingest EXCEPT ![a] = x],
           UNCHANGED <<row, applied, partial, work, crashes>>,
           acked' \subseteq Events, \A e \in acked' : Stored(e),
           x.event # NoEvent => (x.fresh <=> ~Stored(x.event)),
           x.event # NoEvent => \A b \in Api \ {a} : ingest[b].event # x.event
    PROVE  IInv'
<1>1. TypeOK' BY DEF IInv, TypeOK
<1>2. \A b \in Api : ingest'[b] = IF b = a THEN x ELSE ingest[b]
    BY DEF IInv, TypeOK
<1>3. KeysAreUnique'
    BY <1>2 DEF IInv, OutboxInv, KeysAreUnique
<1>4. FreshMeansAbsent'
    BY <1>2 DEF IInv, OutboxInv, FreshMeansAbsent, Stored
<1>5. AckedIsStored' BY DEF AckedIsStored, Stored
<1>6. (BatchesArePending /\ BatchesAreDisjoint /\ RowsAreRunOnce
       /\ DeliveredIsAppliedOnce /\ PartialRunsAreCounted /\ UnstoredIsBlank)'
    BY DEF IInv, OutboxInv, BatchesArePending, BatchesAreDisjoint, RowsAreRunOnce,
           DeliveredIsAppliedOnce, PartialRunsAreCounted, Batch, UnstoredIsBlank
<1> QED BY <1>1, <1>3, <1>4, <1>5, <1>6 DEF IInv, OutboxInv

(* Ingesting a webhook keeps the invariant. *)
LEMMA ApiKeepsInv ==
    ASSUME IInv, NEW a \in Api,
           (\E e \in Events : BeginIngest(a, e)) \/ CommitIngest(a) \/ AbortIngest(a)
    PROVE  IInv'
<1>1. ASSUME NEW e \in Events, BeginIngest(a, e) PROVE IInv'
    <2> DEFINE x == [event |-> e, fresh |-> ~Stored(e)]
    <2>1. x \in Ingest BY DEF Ingest, Stored
    <2>2. acked \subseteq Events /\ \A f \in acked : Stored(f)
        BY DEF IInv, TypeOK, OutboxInv, AckedIsStored
    <2>3. \A b \in Api \ {a} : ingest[b].event # x.event
        BY <1>1 DEF BeginIngest, Ingesting
    <2>4. x.event # NoEvent => (x.fresh <=> ~Stored(x.event))
        OBVIOUS
    <2>5. ingest' = [ingest EXCEPT ![a] = x]
          /\ UNCHANGED <<row, applied, partial, acked, work, crashes>>
        BY <1>1 DEF BeginIngest
    <2> HIDE DEF x
    <2> QED BY <2>1, <2>2, <2>3, <2>4, <2>5, IngestKeepsInv
<1>2. CASE AbortIngest(a)
    <2>1. NoIngest \in Ingest /\ NoIngest.event = NoEvent BY DEF NoIngest, Ingest
    <2>2. acked \subseteq Events /\ \A f \in acked : Stored(f)
        BY DEF IInv, TypeOK, OutboxInv, AckedIsStored
    <2> QED BY <1>2, <2>1, <2>2, IngestKeepsInv DEF AbortIngest
<1>3. CASE CommitIngest(a)
    <2> DEFINE e == ingest[a].event
    <2>1. e \in Events /\ ingest[a] \in Ingest BY <1>3 DEF CommitIngest, IInv, TypeOK, Ingest
    <2>2. ingest[a].fresh <=> ~Stored(e)
        BY <1>3 DEF CommitIngest, IInv, OutboxInv, FreshMeansAbsent
    <2>3. NoIngest \in Ingest /\ NoIngest.event = NoEvent BY DEF NoIngest, Ingest
    <2>4. ingest' = [ingest EXCEPT ![a] = NoIngest] /\ acked' = acked \cup {e}
          /\ UNCHANGED <<applied, partial, work, crashes>>
        BY <1>3 DEF CommitIngest
    <2>5. CASE Stored(e)
        <3>1. row' = row BY <1>3, <2>2, <2>5 DEF CommitIngest, IInv, TypeOK, Ingest
        <3>2. acked' \subseteq Events /\ \A f \in acked' : Stored(f)
            BY <2>1, <2>4, <2>5 DEF IInv, TypeOK, OutboxInv, AckedIsStored
        <3> QED BY <2>3, <2>4, <3>1, <3>2, IngestKeepsInv
    <2>6. CASE ~Stored(e)
        <3> DEFINE new == [status |-> "pending", attempts |-> 0, due |-> TRUE]
        <3>1. row' = [row EXCEPT ![e] = new] BY <1>3, <2>2, <2>6 DEF CommitIngest
        <3>2. new \in Row BY DEF Row
        <3>3. row' \in [Events -> Row] /\ \A f \in Events : row'[f] = IF f = e THEN new ELSE row[f]
            BY <2>1, <3>1, <3>2 DEF IInv, TypeOK
        <3>4. TypeOK' BY <2>1, <2>3, <2>4, <3>3 DEF IInv, TypeOK
        <3>5. row[e].status = "none" BY <2>6 DEF Stored
        <3>7. BatchesArePending'
            BY <2>4, <3>3, <3>5 DEF IInv, TypeOK, OutboxInv, BatchesArePending, Batch, Worker
        <3>8. (BatchesAreDisjoint /\ RowsAreRunOnce)'
            BY <2>4 DEF IInv, OutboxInv, BatchesAreDisjoint, RowsAreRunOnce, Batch
        <3>9. KeysAreUnique'
            BY <2>3, <2>4 DEF IInv, TypeOK, OutboxInv, KeysAreUnique
        <3>10. FreshMeansAbsent'
            <4>1. \A b \in Api \ {a} : ingest[b].event # e
                BY <2>1 DEF IInv, OutboxInv, KeysAreUnique
            <4>2. \A b \in Api \ {a} : ingest'[b] = ingest[b]
                                       /\ ingest[b].event \in Events \cup {NoEvent}
                BY <2>4 DEF IInv, TypeOK, Ingest
            <4>3. ingest'[a].event = NoEvent BY <2>3, <2>4 DEF IInv, TypeOK
            <4> SUFFICES ASSUME NEW b \in Api, ingest'[b].event # NoEvent
                         PROVE  ingest'[b].fresh <=> row'[ingest'[b].event].status = "none"
                BY DEF FreshMeansAbsent, Stored
            <4>4. b # a /\ ingest'[b] = ingest[b] BY <4>2, <4>3
            <4>5. row'[ingest[b].event] = row[ingest[b].event]
                BY <3>3, <4>1, <4>2, <4>4
            <4>6. ingest[b].fresh <=> ~Stored(ingest[b].event)
                BY <4>4 DEF IInv, OutboxInv, FreshMeansAbsent
            <4> QED BY <4>4, <4>5, <4>6 DEF Stored
        <3>11. DeliveredIsAppliedOnce'
            BY <2>4, <3>3, <3>5 DEF IInv, OutboxInv, DeliveredIsAppliedOnce
        <3>12. AckedIsStored'
            BY <2>1, <2>4, <3>3 DEF IInv, TypeOK, OutboxInv, AckedIsStored, Stored
        <3>13. PartialRunsAreCounted'
            <4>1. row[e].attempts = 0 BY <2>1, <3>5 DEF IInv, OutboxInv, UnstoredIsBlank
            <4> QED BY <2>4, <3>3, <4>1 DEF IInv, OutboxInv, PartialRunsAreCounted
        <3>14. UnstoredIsBlank'
            BY <3>3 DEF IInv, OutboxInv, UnstoredIsBlank
        <3> QED
            BY <3>4, <3>7, <3>8, <3>9, <3>10, <3>11, <3>12, <3>13, <3>14 DEF IInv, OutboxInv
    <2> QED BY <2>5, <2>6
<1> QED BY <1>1, <1>2, <1>3

(* A worker that claims, dispatches, sweeps, is rolled back or dies.          *)
LEMMA TaskKeepsInv ==
    ASSUME IInv, NEW w \in Workers,
           Claim(w) \/ (\E e \in Events : Dispatch(w, e)) \/ EndSweeps(w) \/ CrashWorker(w)
    PROVE  IInv'
<1>1. IdleWorker \in Worker /\ IdleWorker.left \cup IdleWorker.ok \cup IdleWorker.bad = {}
      /\ IdleWorker.ok \cap IdleWorker.bad = {}
      /\ IdleWorker.left \cap (IdleWorker.ok \cup IdleWorker.bad) = {}
    BY DEF IdleWorker, Worker
<1>2. crashes \in 0..MaxCrashes BY DEF IInv, TypeOK
<1>3. CASE Claim(w)
    <2> DEFINE x == [IdleWorker EXCEPT !.phase = "running",
                                       !.left = Oldest(Claimable, BatchLimit)]
    <2>1. Oldest(Claimable, BatchLimit) \subseteq Claimable BY DEF Oldest
    <2>2. x \in Worker /\ x.ok = {} /\ x.bad = {} /\ x.left \cup x.ok \cup x.bad \subseteq Claimable
        BY <2>1 DEF Worker, IdleWorker, Claimable
    <2>3. \A e \in Claimable : row[e].status = "pending"
                               /\ \A v \in Workers \ {w} : e \notin Batch(v)
        BY DEF Claimable, Locked
    <2>4. work' = [work EXCEPT ![w] = x]
          /\ UNCHANGED <<row, applied, partial, acked, ingest, crashes>>
        BY <1>3 DEF Claim
    <2> HIDE DEF x
    <2> QED BY <1>2, <2>2, <2>3, <2>4, WorkKeepsInv
<1>4. ASSUME NEW e \in Events, Dispatch(w, e) PROVE IInv'
    <2>1. work[w] \in Worker /\ e \in work[w].left BY <1>4 DEF IInv, TypeOK, Dispatch
    <2>2. \A f \in Batch(w) : row[f].status = "pending"
                              /\ \A v \in Workers \ {w} : f \notin Batch(v)
        BY DEF IInv, OutboxInv, BatchesArePending, BatchesAreDisjoint
    <2>3. UNCHANGED <<row, applied, partial, acked, ingest>>
        BY <1>4 DEF Dispatch
    <2>4. crashes' \in 0..MaxCrashes
        <3>1. crashes' = crashes \/ (crashes < MaxCrashes /\ crashes' = crashes + 1)
            BY <1>4, Zenon DEF Dispatch
        <3> QED BY <1>2, <3>1, OutboxAssumption
    <2>5. PICK x \in Worker : /\ work' = [work EXCEPT ![w] = x]
                              /\ x.left \cup x.ok \cup x.bad \subseteq Batch(w)
                              /\ x.left \cap (x.ok \cup x.bad) = {}
                              /\ x.ok \cap x.bad = {}
        <3> DEFINE y == [work[w] EXCEPT !.left = work[w].left \ {e}, !.ok = work[w].ok \cup {e}]
                   z == [work[w] EXCEPT !.left = work[w].left \ {e}, !.bad = work[w].bad \cup {e}]
        <3>1. work[w].left \cap (work[w].ok \cup work[w].bad) = {} /\ work[w].ok \cap work[w].bad = {}
            BY DEF IInv, OutboxInv, RowsAreRunOnce
        <3>2. /\ y \in Worker /\ y.left = work[w].left \ {e}
              /\ y.ok = work[w].ok \cup {e} /\ y.bad = work[w].bad
            BY <2>1 DEF Worker
        <3>3. /\ z \in Worker /\ z.left = work[w].left \ {e}
              /\ z.ok = work[w].ok /\ z.bad = work[w].bad \cup {e}
            BY <2>1 DEF Worker
        <3>4. \/ work' = [work EXCEPT ![w] = y]
              \/ work' = [work EXCEPT ![w] = z]
              \/ work' = [work EXCEPT ![w] = IdleWorker]
            BY <1>4 DEF Dispatch
        <3> HIDE DEF y, z
        <3>5. CASE work' = [work EXCEPT ![w] = y]
            BY <2>1, <3>1, <3>2, <3>5 DEF Batch
        <3>6. CASE work' = [work EXCEPT ![w] = z]
            <4>1. z.left \cap (z.ok \cup z.bad) = {} /\ z.ok \cap z.bad = {}
                BY <2>1, <3>1, <3>3
            <4>2. z.left \cup z.ok \cup z.bad \subseteq Batch(w)
                BY <2>1, <3>3 DEF Batch
            <4> QED BY <3>3, <3>6, <4>1, <4>2
        <3>7. CASE work' = [work EXCEPT ![w] = IdleWorker]
            BY <1>1, <3>7
        <3> QED BY <3>4, <3>5, <3>6, <3>7
    <2> QED BY <2>2, <2>3, <2>4, <2>5, WorkKeepsInv
<1>5. CASE EndSweeps(w)
    BY <1>1, <1>2, <1>5, WorkKeepsInv DEF EndSweeps
<1>6. CASE CrashWorker(w)
    <2>1. crashes' \in 0..MaxCrashes BY <1>2, <1>6 DEF CrashWorker
    <2> QED BY <1>1, <1>6, <2>1, WorkKeepsInv DEF CrashWorker
<1> QED BY <1>3, <1>4, <1>5, <1>6

(* The commit of a batch: its rows are its own and still pending, so each     *)
(* takes effect once, whatever the other workers hold.                        *)
LEMMA CommitKeepsInv ==
    ASSUME IInv, NEW w \in Workers, CommitBatch(w)
    PROVE  IInv'
<1> DEFINE x == work[w]
<1>1. x \in Worker /\ x.left = {} /\ x.ok \cap x.bad = {}
    BY DEF CommitBatch, IInv, TypeOK, OutboxInv, RowsAreRunOnce
<1>2. \A e \in x.ok \cup x.bad : e \in Events /\ row[e].status = "pending"
    BY <1>1 DEF IInv, OutboxInv, BatchesArePending, Batch, Worker
<1>3. \A e \in Events : row[e] \in Row /\ row[e].attempts \in 0..MaxAttempts
    BY DEF IInv, TypeOK, Row
<1>4. \A e \in Events : e \in x.bad => row[e].attempts < MaxAttempts
    BY <1>2, <1>3 DEF IInv, OutboxInv, PartialRunsAreCounted
<1>5. \A e \in Events : Marked(x, e) \in Row
    BY <1>3, <1>4 DEF Marked, GivesUp, Row
<1>6. \A e \in Events : e \in x.ok =>
          Marked(x, e).status = "delivered" /\ Marked(x, e).attempts = row[e].attempts
    BY <1>3 DEF Marked, Row
<1>7. \A e \in Events : e \in x.bad =>
          /\ Marked(x, e).status \in {"failed", "pending"}
          /\ Marked(x, e).attempts = row[e].attempts + 1
          /\ Marked(x, e).status = "failed" <=> row[e].attempts + 1 = MaxAttempts
    BY <1>1, <1>3, <1>4 DEF Marked, GivesUp
<1>8. \A e \in Events : e \notin x.ok \cup x.bad => Marked(x, e) = row[e]
    BY DEF Marked
<1>9. /\ row' = [e \in Events |-> Marked(x, e)]
      /\ applied' = [e \in Events |-> IF e \in x.ok THEN applied[e] + 1 ELSE applied[e]]
      /\ partial' = [e \in Events |-> IF e \in x.bad THEN partial[e] + 1 ELSE partial[e]]
      /\ work' = [work EXCEPT ![w] = [IdleWorker EXCEPT !.phase = "sweeping"]]
      /\ UNCHANGED <<acked, ingest, crashes>>
    BY DEF CommitBatch
<1>10. \A v \in Workers : work'[v] = IF v = w THEN [IdleWorker EXCEPT !.phase = "sweeping"]
                                     ELSE work[v]
    BY <1>9 DEF IInv, TypeOK
<1>11. TypeOK'
    BY <1>5, <1>9 DEF IInv, TypeOK, Worker, IdleWorker
<1>12. BatchesArePending'
    <2> SUFFICES ASSUME NEW v \in Workers, NEW e \in Batch(v)'
                 PROVE  row'[e].status = "pending"
        BY DEF BatchesArePending
    <2>1. v # w /\ e \in Batch(v) BY <1>10 DEF Batch, IdleWorker
    <2>2. e \in Events BY <2>1 DEF IInv, TypeOK, Worker, Batch
    <2>3. e \notin x.ok \cup x.bad
        BY <2>1 DEF IInv, OutboxInv, BatchesAreDisjoint, Batch
    <2>4. row'[e] = row[e] BY <1>8, <1>9, <2>2, <2>3
    <2> QED BY <2>1, <2>4 DEF IInv, OutboxInv, BatchesArePending
<1>13. (BatchesAreDisjoint /\ RowsAreRunOnce)'
    BY <1>10 DEF IInv, OutboxInv, BatchesAreDisjoint, RowsAreRunOnce, Batch, IdleWorker
<1>14. \A e \in Events : row'[e].status = "none" <=> row[e].status = "none"
    <2> SUFFICES ASSUME NEW e \in Events
                 PROVE  Marked(x, e).status = "none" <=> row[e].status = "none"
        BY <1>9
    <2>1. CASE e \in x.ok BY <1>2, <1>6, <2>1
    <2>2. CASE e \in x.bad BY <1>2, <1>7, <2>2
    <2>3. CASE e \notin x.ok \cup x.bad BY <1>8, <2>3
    <2> QED BY <2>1, <2>2, <2>3
<1>15. KeysAreUnique' BY <1>9 DEF IInv, OutboxInv, KeysAreUnique
<1>16. FreshMeansAbsent'
    BY <1>9, <1>14 DEF IInv, TypeOK, Ingest, OutboxInv, FreshMeansAbsent, Stored
<1>17. AckedIsStored'
    BY <1>9, <1>14 DEF IInv, TypeOK, OutboxInv, AckedIsStored, Stored
<1>18. (DeliveredIsAppliedOnce /\ PartialRunsAreCounted /\ UnstoredIsBlank)'
    <2> SUFFICES ASSUME NEW e \in Events
                 PROVE  /\ applied'[e] = IF row'[e].status = "delivered" THEN 1 ELSE 0
                        /\ partial'[e] = row'[e].attempts
                        /\ row'[e].status = "failed" <=> row'[e].attempts = MaxAttempts
                        /\ row'[e].status = "none" => row'[e].attempts = 0
        BY DEF DeliveredIsAppliedOnce, PartialRunsAreCounted, UnstoredIsBlank
    <2>1. /\ applied[e] = IF row[e].status = "delivered" THEN 1 ELSE 0
          /\ partial[e] = row[e].attempts
          /\ row[e].status = "failed" <=> row[e].attempts = MaxAttempts
          /\ row[e].status = "none" => row[e].attempts = 0
        BY DEF IInv, OutboxInv, DeliveredIsAppliedOnce, PartialRunsAreCounted, UnstoredIsBlank
    <2>2. row'[e] = Marked(x, e) BY <1>9
    <2>3. CASE e \in x.ok
        BY <1>1, <1>2, <1>4, <1>6, <1>9, <2>1, <2>2, <2>3
    <2>4. CASE e \in x.bad
        BY <1>1, <1>2, <1>3, <1>4, <1>7, <1>9, <2>1, <2>2, <2>4
    <2>5. CASE e \notin x.ok \cup x.bad
        BY <1>8, <1>9, <2>1, <2>2, <2>5
    <2> QED BY <2>3, <2>4, <2>5
<1> QED
    BY <1>11, <1>12, <1>13, <1>15, <1>16, <1>17, <1>18 DEF IInv, OutboxInv

(* The time that passes between attempts. *)
LEMMA BackoffKeepsInv ==
    ASSUME IInv, NEW e \in Events, Backoff(e)
    PROVE  IInv'
<1>1. \A f \in Events : /\ row'[f] \in Row /\ row'[f].status = row[f].status
                        /\ row'[f].attempts = row[f].attempts
    <2>1. row[e] \in Row BY DEF IInv, TypeOK
    <2>2. /\ [row[e] EXCEPT !.due = TRUE] \in Row
          /\ [row[e] EXCEPT !.due = TRUE].status = row[e].status
          /\ [row[e] EXCEPT !.due = TRUE].attempts = row[e].attempts
        BY <2>1 DEF Row
    <2> QED BY <2>2 DEF Backoff, IInv, TypeOK
<1>2. TypeOK' BY <1>1 DEF IInv, TypeOK, Backoff
<1>3. BatchesArePending'
    BY <1>1 DEF IInv, TypeOK, Worker, OutboxInv, BatchesArePending, Batch, Backoff
<1>4. (BatchesAreDisjoint /\ RowsAreRunOnce /\ KeysAreUnique)'
    BY DEF IInv, OutboxInv, BatchesAreDisjoint, RowsAreRunOnce, KeysAreUnique, Batch, Backoff
<1>5. FreshMeansAbsent'
    BY <1>1 DEF IInv, TypeOK, Ingest, OutboxInv, FreshMeansAbsent, Stored, Backoff
<1>6. (DeliveredIsAppliedOnce /\ AckedIsStored /\ PartialRunsAreCounted /\ UnstoredIsBlank)'
    BY <1>1 DEF IInv, TypeOK, OutboxInv, DeliveredIsAppliedOnce, AckedIsStored, Stored,
                PartialRunsAreCounted, UnstoredIsBlank, Backoff
<1> QED BY <1>2, <1>3, <1>4, <1>5, <1>6 DEF IInv, OutboxInv

(* Every step keeps the invariant. *)
LEMMA NextInv == IInv /\ [Next]_vars => IInv'
<1> SUFFICES ASSUME IInv, [Next]_vars PROVE IInv'
    OBVIOUS
<1>1. CASE UNCHANGED vars
    BY <1>1 DEF vars, IInv, TypeOK, OutboxInv, BatchesArePending, BatchesAreDisjoint,
           RowsAreRunOnce, KeysAreUnique, FreshMeansAbsent, DeliveredIsAppliedOnce,
           AckedIsStored, PartialRunsAreCounted, UnstoredIsBlank, Stored, Batch
<1> QED
    BY <1>1, ApiKeepsInv, TaskKeepsInv, CommitKeepsInv, BackoffKeepsInv DEF Next

(* The inductive invariant, for every value of the constants. *)
THEOREM InvHolds == Spec => []IInv
    BY InitInv, NextInv, PTL DEF Spec

(* Type correctness, for every value of the constants. *)
THEOREM TypeCorrect == Spec => []TypeOK
<1>1. IInv => TypeOK BY DEF IInv
<1> QED BY <1>1, InvHolds, PTL

(* An event takes effect exactly when its row says delivered, and once,       *)
(* however workers overlap, die and roll back.                                *)
THEOREM ExactlyOnce == Spec => []DeliveredIsAppliedOnce
<1>1. IInv => DeliveredIsAppliedOnce BY DEF IInv, OutboxInv
<1> QED BY <1>1, InvHolds, PTL

(* An acknowledged webhook is stored, however deliveries of it overlap.       *)
THEOREM AckIsDurable == Spec => []AckedIsStored
<1>1. IInv => AckedIsStored BY DEF IInv, OutboxInv
<1> QED BY <1>1, InvHolds, PTL

(* Every half-done run of a handler is counted against its attempts.          *)
THEOREM RetriesAreCounted == Spec => []PartialRunsAreCounted
<1>1. IInv => PartialRunsAreCounted BY DEF IInv, OutboxInv
<1> QED BY <1>1, InvHolds, PTL

----------------------------------------------------------------------------
(* The outbox implements Inbox.                                             *)

(* An empty outbox is an empty inbox. *)
LEMMA InitRefines == Init => AsInbox!Init
    BY DEF Init, AsInbox!Init, AbstractState, Abstract, NoRow

(* What leaves the status of every row, and the effects, alone is a stutter.  *)
LEMMA StatusStutters ==
    ASSUME \A e \in Events : row'[e].status = row[e].status
    PROVE  AbstractState' = AbstractState
    BY DEF AbstractState, Abstract

(* Storing a new row is a Store; a duplicate delivery is a stutter.           *)
LEMMA CommitIngestRefines ==
    ASSUME IInv, NEW a \in Api, CommitIngest(a)
    PROVE  (\E e \in Events : AsInbox!Store(e)) \/ UNCHANGED <<AbstractState, applied>>
<1> DEFINE e == ingest[a].event
<1>1. e \in Events BY DEF CommitIngest, IInv, TypeOK, Ingest
<1>2. ingest[a].fresh \in BOOLEAN BY DEF IInv, TypeOK, Ingest
<1>3. CASE ingest[a].fresh
    <2>1. row[e].status = "none"
        BY <1>3 DEF CommitIngest, IInv, OutboxInv, FreshMeansAbsent, Stored
    <2>2. \A f \in Events : row'[f].status = IF f = e THEN "pending" ELSE row[f].status
        BY <1>1, <1>3 DEF CommitIngest, IInv, TypeOK
    <2>3. AbstractState[e] = "absent"
        BY <1>1, <2>1 DEF AbstractState, Abstract
    <2>4. AbstractState' = [AbstractState EXCEPT ![e] = "queued"]
        <3>1. AbstractState' = [f \in Events |-> Abstract[row'[f].status]]
            BY DEF AbstractState, Abstract
        <3>2. Abstract["pending"] = "queued" BY DEF Abstract
        <3>3. \A f \in Events : Abstract[row'[f].status]
                                = IF f = e THEN "queued" ELSE AbstractState[f]
            BY <2>2, <3>2 DEF AbstractState
        <3>4. DOMAIN AbstractState = Events BY DEF AbstractState
        <3> HIDE DEF e
        <3> QED BY <3>1, <3>3, <3>4
    <2>5. AsInbox!Store(e)
        BY <2>3, <2>4 DEF AsInbox!Store, CommitIngest
    <2> QED BY <1>1, <2>5
<1>4. CASE ~ingest[a].fresh
    BY <1>4, StatusStutters DEF CommitIngest
<1> QED BY <1>2, <1>3, <1>4

(* The commit of a batch is a Settle: the rows of the batch are still pending *)
(* in the database, so each of them is queued.                                *)
LEMMA CommitBatchRefines ==
    ASSUME IInv, NEW w \in Workers, CommitBatch(w)
    PROVE  \E Done, Dead \in SUBSET Events : AsInbox!Settle(Done, Dead)
<1> DEFINE x == work[w]
           Done == x.ok
           Dead == {e \in x.bad : GivesUp(e)}
<1>1. x \in Worker /\ x.ok \cap x.bad = {}
    BY DEF IInv, TypeOK, OutboxInv, RowsAreRunOnce
<1>2. Done \in SUBSET Events /\ Dead \in SUBSET Events
    BY <1>1 DEF Worker
<1>3. \A e \in Done \cup Dead : row[e].status = "pending"
    BY DEF IInv, OutboxInv, BatchesArePending, Batch
<1>4. Done \cap Dead = {} BY <1>1
<1>5. \A e \in Done \cup Dead : AbstractState[e] = "queued"
    BY <1>2, <1>3 DEF AbstractState, Abstract
<1>6. \A e \in Events : row'[e].status = IF e \in Done THEN "delivered"
                                         ELSE IF e \in Dead THEN "failed"
                                         ELSE row[e].status
    <2> SUFFICES ASSUME NEW e \in Events
                 PROVE  Marked(x, e).status = IF e \in Done THEN "delivered"
                                              ELSE IF e \in Dead THEN "failed"
                                              ELSE row[e].status
        BY DEF CommitBatch
    <2>1. row[e] \in Row BY DEF IInv, TypeOK
    <2>2. e \in x.bad => row[e].status = "pending"
        BY DEF IInv, OutboxInv, BatchesArePending, Batch
    <2> QED BY <2>1, <2>2 DEF Marked, Row
<1>7. AbstractState' = [e \in Events |-> IF e \in Done THEN "done"
                                         ELSE IF e \in Dead THEN "dead"
                                         ELSE AbstractState[e]]
    <2>1. AbstractState' = [e \in Events |-> Abstract[row'[e].status]]
        BY DEF AbstractState, Abstract
    <2>2. \A e \in Events : Abstract[row'[e].status] = IF e \in Done THEN "done"
                                                       ELSE IF e \in Dead THEN "dead"
                                                       ELSE AbstractState[e]
        BY <1>6 DEF AbstractState, Abstract
    <2> HIDE DEF Done, Dead
    <2> QED BY <2>1, <2>2
<1>8. applied' = [e \in Events |-> IF e \in Done THEN applied[e] + 1 ELSE applied[e]]
    BY DEF CommitBatch
<1>9. AsInbox!Settle(Done, Dead)
    BY <1>4, <1>5, <1>7, <1>8 DEF AsInbox!Settle
<1> QED BY <1>2, <1>9

(* Every step of the outbox is a step of the inbox or a stutter.              *)
LEMMA NextRefines == IInv /\ [Next]_vars => [AsInbox!Next]_<<AbstractState, applied>>
<1> SUFFICES ASSUME IInv, [Next]_vars
             PROVE  AsInbox!Next \/ UNCHANGED <<AbstractState, applied>>
    OBVIOUS
<1>1. CASE UNCHANGED vars
    BY <1>1, StatusStutters DEF vars
<1>2. ASSUME NEW a \in Api, CommitIngest(a)
      PROVE  AsInbox!Next \/ UNCHANGED <<AbstractState, applied>>
    BY <1>2, CommitIngestRefines DEF AsInbox!Next
<1>3. ASSUME NEW a \in Api, (\E e \in Events : BeginIngest(a, e)) \/ AbortIngest(a)
      PROVE  UNCHANGED <<AbstractState, applied>>
    BY <1>3, StatusStutters DEF BeginIngest, AbortIngest
<1>4. ASSUME NEW w \in Workers, CommitBatch(w)
      PROVE  AsInbox!Next
    BY <1>4, CommitBatchRefines DEF AsInbox!Next
<1>5. ASSUME NEW w \in Workers,
             Claim(w) \/ (\E e \in Events : Dispatch(w, e)) \/ EndSweeps(w) \/ CrashWorker(w)
      PROVE  UNCHANGED <<AbstractState, applied>>
    BY <1>5, StatusStutters DEF Claim, Dispatch, EndSweeps, CrashWorker
<1>6. ASSUME NEW e \in Events, Backoff(e)
      PROVE  UNCHANGED <<AbstractState, applied>>
    <2>1. row[e] \in Row BY DEF IInv, TypeOK
    <2>2. [row[e] EXCEPT !.due = TRUE].status = row[e].status BY <2>1 DEF Row
    <2>3. \A f \in Events : row'[f].status = row[f].status
        BY <1>6, <2>2 DEF Backoff, IInv, TypeOK
    <2> QED BY <1>6, <2>3, StatusStutters DEF Backoff
<1> QED BY <1>1, <1>2, <1>3, <1>4, <1>5, <1>6 DEF Next

(* The outbox keeps the promise of Inbox, for every value of the constants.   *)
THEOREM Implements == Spec => ImplementsInbox
    BY InitRefines, NextRefines, InvHolds, PTL DEF Spec, ImplementsInbox, AsInbox!Spec
=============================================================================
