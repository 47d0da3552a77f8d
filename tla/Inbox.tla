------------------------------- MODULE Inbox -------------------------------
(***************************************************************************)
(* What the transactional outbox promises to the code that feeds it: an    *)
(* event that was stored is applied once or given up, never both, never    *)
(* twice, and never taken back.  Outbox.tla implements this.               *)
(***************************************************************************)
EXTENDS Naturals

CONSTANT Events

VARIABLES
    state,   \* absent, queued, done or dead
    effects  \* how many times the effects of an event took hold in full

Init ==
    /\ state = [e \in Events |-> "absent"]
    /\ effects = [e \in Events |-> 0]

Store(e) ==
    /\ state[e] = "absent"
    /\ state' = [state EXCEPT ![e] = "queued"]
    /\ UNCHANGED effects

\* one batch settles several events at once: Done took effect, Dead did not
Settle(Done, Dead) ==
    /\ Done \cap Dead = {}
    /\ \A e \in Done \cup Dead : state[e] = "queued"
    /\ state' = [e \in Events |-> IF e \in Done THEN "done"
                                  ELSE IF e \in Dead THEN "dead" ELSE state[e]]
    /\ effects' = [e \in Events |-> IF e \in Done THEN effects[e] + 1 ELSE effects[e]]

Next ==
    \/ \E e \in Events : Store(e)
    \/ \E Done, Dead \in SUBSET Events : Settle(Done, Dead)

Spec == Init /\ [][Next]_<<state, effects>>
=============================================================================
