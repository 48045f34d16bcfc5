----------------------------- MODULE MCWaitlist -----------------------------
(* Waitlist on a small instance.                                           *)
EXTENDS Waitlist, TLC

Symmetry == Permutations(Calls)
=============================================================================
