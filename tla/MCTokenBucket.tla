--------------------------- MODULE MCTokenBucket ---------------------------
(* TokenBucket on a small instance.                                        *)
EXTENDS TokenBucket, TLC

Symmetry == Permutations(Requests)
=============================================================================
