-------------------------- MODULE MCReconciliation --------------------------
(* Reconciliation on a small instance.                                     *)
EXTENDS Reconciliation, TLC

Symmetry == Permutations(Requests) \cup Permutations(Res)
            \cup Permutations(Keys)
=============================================================================
