--------------------------- MODULE Reconciliation ---------------------------
(***************************************************************************)
(* The sale together with the two writers that recompute its counters from *)
(* Postgres: the periodic worker (worker/reconciler.go) and the startup    *)
(* pass (recovery/reconcile_startup.go), which run the same six calls, and *)
(* with crashes of the server process.  Counting, comparing and writing    *)
(* are separate calls; the worker does not stop the handlers meanwhile.    *)
(***************************************************************************)
EXTENDS FlashSale

CONSTANTS
    WorkerEnabled,   \* FALSE: no tick of the worker within the behaviour
    MaxCrashes       \* bound: crashes of the server process

ASSUME WorkerAssumption == WorkerEnabled \in BOOLEAN /\ MaxCrashes \in Nat

VARIABLES
    lapsed,     \* rows whose expires_at is in the past
    rec,        \* local state of the reconciler
    mode,       \* "serving", or "starting" until the startup pass is over
    crashes

recVars == <<lapsed, rec, mode, crashes>>
allVars == <<vars, recVars>>

RecSteps == {"idle", "count_orders", "get_available", "get_reserved",
             "set_available", "set_reserved"}
RecIdle == [pc |-> "idle", held |-> 0, sold |-> 0, seen |-> 0]

RInit ==
    /\ Init
    /\ lapsed = {} /\ rec = RecIdle /\ mode = "serving" /\ crashes = 0

-----------------------------------------------------------------------------
(* reconcileSingleSale and reconcileSale                                   *)

\* status = 'reserved' AND expires_at > NOW()
ActiveRows == {r \in Res : rows[r] = "reserved" /\ r \notin lapsed}

ExpectedAvailable == TotalStock - rec.held - rec.sold

\* A pass that ends, normally or by an error of this sale, waits for the next
\* tick; at startup the error is logged and the server goes on to serve.  If
\* the startup pass cannot list the sales, main exits: that is a Crash.
EndPass == rec' = RecIdle /\ mode' = "serving"

Advance(label) == rec' = [rec EXCEPT !.pc = label] /\ UNCHANGED mode

\* A failed query ends the pass.
CountReserved ==
    /\ rec.pc = "idle"
    /\ mode = "starting" \/ WorkerEnabled
    /\ \/ /\ rec' = [rec EXCEPT !.pc = "count_orders",
                                !.held = Cardinality(ActiveRows)]
          /\ UNCHANGED <<mode, faults>>
       \/ EndPass /\ Fault
    /\ UNCHANGED <<redisVars, pgVars, proc, known, owed, lapsed, crashes>>

CountOrders ==
    /\ rec.pc = "count_orders"
    /\ \/ /\ rec' = [rec EXCEPT !.pc = "get_available",
                                !.sold = Cardinality(Sold)]
          /\ UNCHANGED <<mode, faults>>
       \/ EndPass /\ Fault
    /\ UNCHANGED <<redisVars, pgVars, proc, known, owed, lapsed, crashes>>

\* The error of a GET is dropped, the value is then 0.
GetAvailable ==
    /\ rec.pc = "get_available"
    /\ \/ /\ rec' = [rec EXCEPT !.pc = "get_reserved", !.seen = available]
          /\ UNCHANGED faults
       \/ /\ rec' = [rec EXCEPT !.pc = "get_reserved", !.seen = 0]
          /\ Fault
    /\ UNCHANGED <<redisVars, pgVars, proc, known, owed, lapsed, mode, crashes>>

\* Variant: only a drift of both counters counts.
DriftedBoth(seenReserved) ==
    rec.seen # ExpectedAvailable /\ seenReserved # rec.held

Drifted(seenReserved) ==
    rec.seen # ExpectedAvailable \/ seenReserved # rec.held

GetReserved ==
    /\ rec.pc = "get_reserved"
    /\ \E seenReserved \in {reserved, 0} :
          /\ IF seenReserved = reserved THEN UNCHANGED faults ELSE Fault
          /\ IF Drifted(seenReserved) THEN Advance("set_available") ELSE EndPass
    /\ UNCHANGED <<redisVars, pgVars, proc, known, owed, lapsed, crashes>>

\* Variant: the pass ends after the first SET.
SetAvailableOnly ==
    /\ rec.pc = "set_available"
    /\ available' = ExpectedAvailable
    /\ EndPass
    /\ UNCHANGED <<reserved, ttl, idem, waitlist, pgVars, proc, known, owed,
                   faults, lapsed, crashes>>

\* A failed SET ends the pass; the other counter is then left as it is.
SetAvailable ==
    /\ rec.pc = "set_available"
    /\ \/ /\ available' = ExpectedAvailable
          /\ \/ Advance("set_reserved") /\ UNCHANGED faults
             \/ EndPass /\ Fault
       \/ EndPass /\ Fault /\ UNCHANGED available
    /\ UNCHANGED <<reserved, ttl, idem, waitlist, pgVars, proc, known, owed,
                   lapsed, crashes>>

SetReserved ==
    /\ rec.pc = "set_reserved"
    /\ \/ reserved' = rec.held /\ UNCHANGED faults
       \/ Fault /\ UNCHANGED reserved
    /\ EndPass
    /\ UNCHANGED <<available, ttl, idem, waitlist, pgVars, proc, known, owed,
                   lapsed, crashes>>

RecStep == \/ CountReserved \/ CountOrders \/ GetAvailable
           \/ GetReserved \/ SetAvailable \/ SetReserved

-----------------------------------------------------------------------------
(* Time and crashes                                                        *)

\* expires_at passes.  Clocks of the server, Redis and Postgres need not
\* agree, so this is not ordered with the expiry of the TTL key.
Lapse(r) ==
    /\ rows[r] # "none" /\ r \notin lapsed
    /\ lapsed' = lapsed \cup {r}
    /\ UNCHANGED <<vars, rec, mode, crashes>>

\* Every handler and undelivered notification is gone, stores keep theirs.
Crash ==
    /\ crashes < MaxCrashes
    /\ crashes' = crashes + 1
    /\ mode' = "starting"
    /\ rec' = RecIdle
    /\ proc' = [p \in Proc |-> IF At(p, "new") THEN New ELSE Finished]
    /\ UNCHANGED <<redisVars, pgVars, known, owed, faults, lapsed>>

\* A key that expires before the expiry handler has subscribed.
ExpiresUnheard(r) ==
    /\ mode = "starting"
    /\ r \in ttl /\ ttl' = ttl \ {r}
    /\ Done(r)
    /\ UNCHANGED <<available, reserved, idem, waitlist, pgVars, known, owed,
                   faults, recVars>>

Serve == mode = "serving" /\ Next /\ UNCHANGED recVars

RNext == \/ Serve \/ RecStep \/ Crash
         \/ \E r \in Res : Lapse(r) \/ ExpiresUnheard(r)

RSpec == RInit /\ [][RNext]_allVars

\* The ticker of the worker never stops.
FairRSpec == RSpec /\ WF_allVars(RecStep)

-----------------------------------------------------------------------------
RTypeOK ==
    /\ TypeOK
    /\ lapsed \subseteq Res
    /\ rec \in [pc : RecSteps, held : Nat, sold : Nat, seen : Int]
    /\ mode \in {"serving", "starting"}
    /\ crashes \in 0..MaxCrashes

\* No handler is running.
Quiet == mode = "serving" /\ \A p \in Proc : proc[p].pc \in {"new", "done"}

\* The counters are what Postgres says they should be.
Matches ==
    /\ reserved = Cardinality(ActiveRows)
    /\ available = TotalStock - Cardinality(ActiveRows) - Cardinality(Sold)

\* Drift is corrected (README.md:18): once no handler runs any more, the
\* worker brings both counters to what the tables say and leaves them so,
\* whatever races, failed calls and crashes came before.
DriftCorrected == <>[]Quiet => <>[]Matches

\* When the startup pass has found the tables and counters readable and has
\* written both counters, they add up to the stock that is not sold.
StartupConserves ==
    [][mode = "starting" /\ mode' = "serving" /\ faults' = 0
       => available' + reserved' + Cardinality(Sold) = TotalStock]_allVars

\* slo/budgets.go:21, "final orders <= total_stock, always", counting the
\* orders of one reservation once: the customers who bought a unit they
\* had reserved are no more than the units.
BuyersWithinStock == Cardinality({orders[k] : k \in Sold}) <= TotalStock
=============================================================================
