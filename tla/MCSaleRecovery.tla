--------------------------- MODULE MCSaleRecovery ---------------------------
(* SaleRecovery on a small instance.                                       *)
EXTENDS SaleRecovery, TLC
=============================================================================
