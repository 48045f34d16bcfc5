----------------------------- MODULE MCOrderly -----------------------------
(* OrderlyClients on a small instance.                                     *)
EXTENDS OrderlyClients, TLC

Symmetry == Permutations(Requests) \cup Permutations(Res)
            \cup Permutations(Keys) \cup Permutations(Users)
=============================================================================
