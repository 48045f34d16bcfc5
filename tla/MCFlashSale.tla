---------------------------- MODULE MCFlashSale ----------------------------
(* FlashSale on a small instance, with racing clients and failing calls.   *)
EXTENDS FlashSale, TLC

\* Requests, reservation ids, keys and users are interchangeable names.
Symmetry == Permutations(Requests) \cup Permutations(Res)
            \cup Permutations(Keys) \cup Permutations(Users)
=============================================================================
