---------------------------- MODULE MCGigPayments ----------------------------
(* Small instances of GigPayments for TLC. *)
EXTENDS GigPayments, TLC

MCAmount == [base |-> 2, difference |-> 1]
SessionSymmetry == Permutations(Sessions)
=============================================================================
