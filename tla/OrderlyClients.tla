--------------------------- MODULE OrderlyClients ---------------------------
(***************************************************************************)
(* The sale when nothing overlaps that the handlers do not protect: at     *)
(* most one handler is finishing a given reservation at a time, every      *)
(* Confirm carries an idempotency key of its own, and no call fails.       *)
(* Handlers of different reservations still interleave freely, and so do   *)
(* the Reserves.  Under this discipline, which the code does not enforce,  *)
(* the Redis counters and the tables agree to the unit, and the sale       *)
(* implements StockLedger.                                                 *)
(***************************************************************************)
EXTENDS FlashSale

\* The handlers that are about to end reservation r.
Finishers(r) ==
    {p \in Requests : /\ proc[p].res = r
                      /\ proc[p].pc \in {"confirm_lua", "confirm_tx",
                                         "release_lua", "mark_released"}}
    \cup {p \in {r} : proc[p].pc \in {"expire_lua", "mark_expired"}}

Confirming == {p \in Requests : proc[p].pc \in {"confirm_lua", "confirm_tx"}}

Orderly ==
    /\ faults = 0
    /\ \A r \in Res : Cardinality(Finishers(r)) <= 1
    /\ \A p \in Confirming : proc[p].key # NoKey
    /\ \A p, q \in Confirming : proc[p].key = proc[q].key => p = q

OrderlyNext == Next /\ Orderly'

OrderlySpec == Init /\ [][OrderlyNext]_vars

-----------------------------------------------------------------------------
(* The units that are held, counted from rows and handlers alone.          *)

\* A unit taken from Redis for which there is no row, yet or any more.
InHand == {p \in Proc : proc[p].pc \in {"insert", "promote_insert", "undo"}}

\* The unit of r went back to Redis, its row is not updated yet.
GivenBack(r) ==
    \/ proc[r].pc = "mark_expired"
    \/ \E p \in Requests : proc[p].pc = "mark_released" /\ proc[p].res = r

LiveRows == {r \in Res : rows[r] = "reserved" /\ ~GivenBack(r)}

Held == Cardinality(InHand) + Cardinality(LiveRows)

\* The counters are exact at every instant, between any two steps of any
\* handler: stock = available + held + sold, and Redis "reserved" is the
\* held units less the ones whose order is being committed.
LedgerExact ==
    /\ available + Held + Cardinality(Sold) = TotalStock
    /\ reserved = Held - Cardinality(Checkout)

\* A confirmation of a live reservation is never turned away by confirm.lua:
\* the reserved counter is positive whenever a handler is about to run it.
ConfirmNotRefused ==
    (\E p \in Requests : At(p, "confirm_lua")) => reserved > 0

Ledger == INSTANCE StockLedger WITH Stock <- TotalStock, free <- available,
                                    held <- Held, sold <- Cardinality(Sold)

\* Every step of the sale takes one unit, gives one back, sells one or
\* leaves the ledger alone.
ImplementsLedger == Ledger!Spec
=============================================================================
