---------------------------- MODULE StockLedger ----------------------------
(***************************************************************************)
(* What a sale promises about its stock, with neither Redis nor Postgres:  *)
(* every unit is free, held or sold; a customer takes a free unit, gives   *)
(* it back or buys it, and a sold unit stays sold.                         *)
(***************************************************************************)
EXTENDS Integers

CONSTANT Stock

VARIABLES free, held, sold

Init == free = Stock /\ held = 0 /\ sold = 0

Take == /\ free > 0
        /\ free' = free - 1 /\ held' = held + 1 /\ UNCHANGED sold

GiveBack == /\ held > 0
            /\ free' = free + 1 /\ held' = held - 1 /\ UNCHANGED sold

Buy == /\ held > 0
       /\ held' = held - 1 /\ sold' = sold + 1 /\ UNCHANGED free

Next == Take \/ GiveBack \/ Buy

Spec == Init /\ [][Next]_<<free, held, sold>>
=============================================================================
