------------------------------ MODULE MCOutbox ------------------------------
(* Small instances of Outbox for TLC. *)
EXTENDS Outbox, TLC

\* Sessions of the API, and workers, are interchangeable where no liveness is
\* checked.
SessionSymmetry == Permutations(Api) \cup Permutations(Workers)
=============================================================================
