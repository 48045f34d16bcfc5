-------------------------- MODULE MCExpiryWarning --------------------------
(* ExpiryWarning with the code's period and window, in units of 5 s.       *)
EXTENDS ExpiryWarning, TLC
=============================================================================
