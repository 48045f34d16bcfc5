--------------------------- MODULE MCStockEvents ---------------------------
(* StockEvents on a small instance.                                        *)
EXTENDS StockEvents, TLC

Symmetry == Permutations(Handlers) \cup Permutations(Res)
=============================================================================
