----------------------------- MODULE MCPayouts -----------------------------
(* Small instances of Payouts for TLC. *)
EXTENDS Payouts, TLC

\* Requests, and sessions, are interchangeable where no liveness is checked.
RequestSymmetry == Permutations(Requests)
SessionSymmetry == Permutations(Sessions)
BothSymmetry == RequestSymmetry \cup SessionSymmetry
=============================================================================
