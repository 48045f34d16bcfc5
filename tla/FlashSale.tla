----------------------------- MODULE FlashSale -----------------------------
(***************************************************************************)
(* One flash sale: the Redis stock counters, the Postgres tables, and the  *)
(* handlers that move units of stock between them.  Every handler is a     *)
(* sequence of separate calls to two stores that share no transaction, so  *)
(* it is a sequence of steps here; requests, expiry goroutines, clients    *)
(* and the stores interleave between any two of them.                      *)
(*                                                                         *)
(* A Redis script is atomic, a Postgres statement or transaction is        *)
(* atomic, nothing else is.  A call to either store may fail: it is not    *)
(* executed, or it is executed and its reply is lost.                      *)
(***************************************************************************)
EXTENDS Integers, FiniteSets

CONSTANTS
    Requests,        \* HTTP requests; each one runs one handler, once
    Res,             \* reservation ids that uuid.New() can still produce
    Keys,            \* non-empty Idempotency-Key headers
    Users,           \* users who may join the waitlist
    NoKey,           \* the empty header ""
    None,            \* absent value
    TotalStock,      \* sales.total_stock
    MaxFaults,       \* bound: failed or unanswered calls in one behaviour
    ItemForeignKey   \* TRUE: reservations.item_id REFERENCES sale_items

ASSUME FiniteAssumption == /\ IsFiniteSet(Requests) /\ IsFiniteSet(Res)
                           /\ IsFiniteSet(Keys)
ASSUME DistinctAssumption == /\ Requests \cap Res = {}
                             /\ NoKey \notin Keys
                             /\ None \notin Res \cup Keys \cup Users \cup {NoKey}
ASSUME StockAssumption == TotalStock \in Nat
ASSUME FaultAssumption == MaxFaults \in Nat
ASSUME SchemaAssumption == ItemForeignKey \in BOOLEAN

AllKeys == Keys \cup {NoKey}

\* A process is an HTTP request, or the goroutine started for the expiry
\* notification of a reservation, which is named by that reservation.
Proc == Requests \cup Res

VARIABLES
    available,   \* Redis sale:{id}:available; an absent key reads as 0
    reserved,    \* Redis sale:{id}:reserved
    ttl,         \* Redis keys reservation:{id}:ttl that are set
    idem,        \* Redis sale:{id}:idempotency:{key}: a reservation or None
    waitlist,    \* Redis sale:{id}:waitlist: the users in the sorted set
    rows,        \* Postgres reservations: status by id, "none" if no row
    orders,      \* Postgres orders: reservation by (unique) idempotency key
    proc,        \* local state of every handler
    known,       \* reservation ids some client has been told
    owed,        \* history: users who joined, have not left or been served
    faults       \* number of failed calls so far

redisVars == <<available, reserved, ttl, idem, waitlist>>
pgVars == <<rows, orders>>
vars == <<available, reserved, ttl, idem, waitlist, rows, orders, proc,
          known, owed, faults>>

Status == {"none", "reserved", "confirmed", "released", "expired"}

RequestSteps == {"new", "reserve_lua", "insert", "set_ttl", "set_idem",
                 "confirm_lua", "confirm_tx", "release_lua",
                 "mark_released", "undo", "done"}
ExpirySteps == {"new", "notified", "expire_lua", "mark_expired",
                "promote_lua", "promote_insert", "promote_ttl",
                "undo", "done"}

Local(label, r, k, u) == [pc |-> label, res |-> r, key |-> k, user |-> u]
New == Local("new", None, None, None)
Finished == Local("done", None, None, None)

At(p, label) == proc[p].pc = label
Start(p, label, r, k, u) == proc' = [proc EXCEPT ![p] = Local(label, r, k, u)]
Goto(p, label) == proc' = [proc EXCEPT ![p].pc = label]
Done(p) == proc' = [proc EXCEPT ![p] = Finished]

\* Variant: an id is fresh as soon as no row has it.
FreshByRow(r) == rows[r] = "none"

\* uuid.New(): an id no row has and no handler holds.
Fresh(r) == rows[r] = "none" /\ \A q \in Proc : proc[q].res # r

Sold == {k \in AllKeys : orders[k] # None}

Fault == faults < MaxFaults /\ faults' = faults + 1

\* inventory.CreateSale has filled the counters.
Init ==
    /\ available = TotalStock
    /\ reserved = 0
    /\ ttl = {}
    /\ idem = [k \in Keys |-> None]
    /\ waitlist = {}
    /\ rows = [r \in Res |-> "none"]
    /\ orders = [k \in AllKeys |-> None]
    /\ proc = [p \in Proc |-> New]
    /\ known = {}
    /\ owed = {}
    /\ faults = 0

-----------------------------------------------------------------------------
(* The Lua scripts, each one atomic step of Redis.                         *)

\* Variant: the guard of reserve.lua off by one.
InStockOffByOne == available >= 0

InStock == available > 0

\* reserve.lua and waitlist_promote.lua, once their guard has passed.
TakeUnit == available' = available - 1 /\ reserved' = reserved + 1

\* Variant: release.lua forgets the DECR of reserved.
ReturnAvailableOnly == available' = available + 1 /\ UNCHANGED reserved

\* release.lua has no guard.
ReturnUnit == available' = available + 1 /\ reserved' = reserved - 1

\* Variant: confirm.lua without its guard.
ConfirmableAlways == TRUE

\* confirm.lua
Confirmable == reserved > 0
SellUnit == reserved' = reserved - 1 /\ UNCHANGED available

\* A script call that reports an error, or that the client library sends
\* again: the script ran (Effect) or it did not, and the handler gives up
\* or is still waiting for the answer to its next attempt.
ScriptFault(p, Effect) ==
    /\ Fault
    /\ Effect \/ UNCHANGED <<available, reserved>>
    /\ Done(p) \/ UNCHANGED proc

-----------------------------------------------------------------------------
(* reservation.Service.Reserve                                             *)

\* checkIdempotency finds nothing, or fails, which counts as a miss.
IdempotencyMiss(k) ==
    \/ idem[k] = None /\ UNCHANGED faults
    \/ idem[k] # None /\ Fault

\* A hit returns the stored reservation and changes nothing.
ReserveStart(p, k, r) ==
    /\ At(p, "new") /\ Fresh(r)
    /\ IF k = NoKey THEN UNCHANGED faults ELSE IdempotencyMiss(k)
    /\ Start(p, "reserve_lua", r, k, None)
    /\ UNCHANGED <<redisVars, pgVars, known, owed>>

ReserveLua(p) ==
    /\ At(p, "reserve_lua")
    /\ \/ InStock /\ TakeUnit /\ Goto(p, "insert") /\ UNCHANGED faults
       \/ ~InStock /\ Done(p) /\ UNCHANGED <<available, reserved, faults>>
       \/ ScriptFault(p, InStock /\ TakeUnit)
    /\ UNCHANGED <<ttl, idem, waitlist, pgVars, known, owed>>

\* Variant: a rejected INSERT returns without giving the unit back.
InsertWithoutUndo(p) ==
    /\ At(p, "insert")
    /\ \/ /\ rows' = [rows EXCEPT ![proc[p].res] = "reserved"]
          /\ Goto(p, "set_ttl")
       \/ Done(p) /\ UNCHANGED rows
    /\ UNCHANGED <<redisVars, orders, known, owed, faults>>

\* The INSERT is rejected when the request names no user or item of the
\* database; every error is answered by giving the unit back.
InsertReservation(p) ==
    /\ At(p, "insert")
    /\ \/ /\ rows' = [rows EXCEPT ![proc[p].res] = "reserved"]
          /\ \/ Goto(p, "set_ttl") /\ UNCHANGED faults
             \/ Goto(p, "undo") /\ Fault
       \/ Goto(p, "undo") /\ UNCHANGED <<rows, faults>>
    /\ UNCHANGED <<redisVars, orders, known, owed>>

\* Variant: the TTL key is only set for requests with a key.
SetTTLIfKeyed(p) ==
    /\ At(p, "set_ttl")
    /\ IF proc[p].key = NoKey
       THEN Done(p) /\ known' = known \cup {proc[p].res} /\ UNCHANGED ttl
       ELSE /\ Goto(p, "set_idem")
            /\ ttl' = ttl \cup {proc[p].res}
            /\ UNCHANGED known
    /\ UNCHANGED <<available, reserved, idem, waitlist, pgVars, owed, faults>>

\* An error of SET returns at once: the row and the counters stay.
SetTTL(p) ==
    /\ At(p, "set_ttl")
    /\ \/ /\ ttl' = ttl \cup {proc[p].res}
          /\ UNCHANGED faults
          /\ IF proc[p].key = NoKey
             THEN Done(p) /\ known' = known \cup {proc[p].res}
             ELSE Goto(p, "set_idem") /\ UNCHANGED known
       \/ /\ Fault
          /\ ttl' = ttl \cup {proc[p].res} \/ UNCHANGED ttl
          /\ Done(p) /\ UNCHANGED known
    /\ UNCHANGED <<available, reserved, idem, waitlist, pgVars, owed>>

\* setIdempotency overwrites.
WriteIdempotency(k, r) == idem' = [idem EXCEPT ![k] = r]

\* An error is ignored; then Reserve answers the client.
SetIdem(p) ==
    /\ At(p, "set_idem")
    /\ \/ WriteIdempotency(proc[p].key, proc[p].res) /\ UNCHANGED faults
       \/ Fault /\ UNCHANGED idem
    /\ known' = known \cup {proc[p].res}
    /\ Done(p)
    /\ UNCHANGED <<available, reserved, ttl, waitlist, pgVars, owed>>

\* The key of setIdempotency lives for 24 hours.
IdemExpires(k) ==
    /\ idem[k] # None
    /\ idem' = [idem EXCEPT ![k] = None]
    /\ UNCHANGED <<available, reserved, ttl, waitlist, pgVars, proc, known,
                   owed, faults>>

\* The compensating s.redis.Release of Reserve, Confirm and promoteNextUser;
\* its error is ignored.
Undo(p) ==
    /\ At(p, "undo")
    /\ \/ ReturnUnit /\ Done(p) /\ UNCHANGED faults
       \/ ScriptFault(p, ReturnUnit)
    /\ UNCHANGED <<ttl, idem, waitlist, pgVars, known, owed>>

-----------------------------------------------------------------------------
(* reservation.Service.Confirm                                             *)

HasReservedStatus(r) == rows[r] = "reserved"

\* getOrderByIdempotencyKey finds no order, or fails.
OrderMiss(k) ==
    \/ orders[k] = None /\ UNCHANGED faults
    \/ orders[k] # None /\ Fault

\* The key lookup, then SELECT and the status check.  The empty key is not
\* looked up.  The two reads are one step: a row that is "reserved" at the
\* second was so at the first.
ConfirmStart(p, r, k) ==
    /\ At(p, "new") /\ r \in known
    /\ IF k = NoKey THEN UNCHANGED faults ELSE OrderMiss(k)
    /\ HasReservedStatus(r)
    /\ Start(p, "confirm_lua", r, k, None)
    /\ UNCHANGED <<redisVars, pgVars, known, owed>>

ConfirmLua(p) ==
    /\ At(p, "confirm_lua")
    /\ \/ Confirmable /\ SellUnit /\ Goto(p, "confirm_tx") /\ UNCHANGED faults
       \/ ~Confirmable /\ Done(p) /\ UNCHANGED <<available, reserved, faults>>
       \/ ScriptFault(p, Confirmable /\ SellUnit)
    /\ UNCHANGED <<ttl, idem, waitlist, pgVars, known, owed>>

\* orders.idempotency_key is UNIQUE.
KeyUnused(k) == orders[k] = None

\* Variant: the UPDATE only touches rows that are still reserved, and the
\* order is inserted all the same.
CommitIfReserved(r, k) ==
    /\ KeyUnused(k)
    /\ rows' = [rows EXCEPT ![r] = IF @ = "reserved" THEN "confirmed" ELSE @]
    /\ orders' = [orders EXCEPT ![k] = r]

\* UPDATE reservations by id, whatever the status is by now; INSERT order.
CommitOrder(r, k) ==
    /\ KeyUnused(k)
    /\ rows' = [rows EXCEPT ![r] = "confirmed"]
    /\ orders' = [orders EXCEPT ![k] = r]

\* The transaction.  A duplicate key, a failed statement and a failed or
\* unanswered COMMIT run the compensation; a failed Begin does not.
ConfirmTx(p) ==
    /\ At(p, "confirm_tx")
    /\ \/ /\ CommitOrder(proc[p].res, proc[p].key)
          /\ \/ Done(p) /\ UNCHANGED faults
             \/ Goto(p, "undo") /\ Fault
       \/ /\ ~KeyUnused(proc[p].key)
          /\ Goto(p, "undo") /\ UNCHANGED <<pgVars, faults>>
       \/ /\ Fault
          /\ Goto(p, "undo") \/ Done(p)
          /\ UNCHANGED pgVars
    /\ UNCHANGED <<redisVars, known, owed>>

-----------------------------------------------------------------------------
(* reservation.Service.Release                                             *)

\* Variant: Release does not check the status it has read.
ReleaseUnchecked(p, r) ==
    /\ At(p, "new") /\ r \in known
    /\ Start(p, "release_lua", r, None, None)
    /\ UNCHANGED <<redisVars, pgVars, known, owed, faults>>

ReleaseStart(p, r) ==
    /\ At(p, "new") /\ r \in known
    /\ HasReservedStatus(r)
    /\ Start(p, "release_lua", r, None, None)
    /\ UNCHANGED <<redisVars, pgVars, known, owed, faults>>

ReleaseLua(p) ==
    /\ At(p, "release_lua")
    /\ \/ ReturnUnit /\ Goto(p, "mark_released") /\ UNCHANGED faults
       \/ ScriptFault(p, ReturnUnit)
    /\ UNCHANGED <<ttl, idem, waitlist, pgVars, known, owed>>

\* Variant: no CHECK constraint.
StatusAlwaysWritable(r) == TRUE

\* CHECK valid_confirmation: a row with confirmed_at set keeps its status,
\* so the UPDATE to any other status is an error.
StatusWritable(r) == rows[r] # "confirmed"

MarkReleased(p) ==
    /\ At(p, "mark_released")
    /\ \/ /\ StatusWritable(proc[p].res)
          /\ rows' = [rows EXCEPT ![proc[p].res] = "released"]
          /\ UNCHANGED faults
       \/ ~StatusWritable(proc[p].res) /\ UNCHANGED <<rows, faults>>
       \/ Fault /\ UNCHANGED rows
    /\ Done(p)
    /\ UNCHANGED <<redisVars, orders, known, owed>>

-----------------------------------------------------------------------------
(* queue.ExpiryHandler                                                     *)

\* Variant: keyspace notifications are not enabled.
KeyExpiresSilently(r) ==
    /\ r \in ttl
    /\ ttl' = ttl \ {r}
    /\ Done(r)
    /\ UNCHANGED <<available, reserved, idem, waitlist, pgVars, known, owed, faults>>

\* Redis deletes the key and publishes the expired event, at most once.
KeyExpires(r) ==
    /\ r \in ttl
    /\ ttl' = ttl \ {r}
    /\ \/ Goto(r, "notified") /\ UNCHANGED faults
       \/ Done(r) /\ Fault
    /\ UNCHANGED <<available, reserved, idem, waitlist, pgVars, known, owed>>

\* handleExpiredReservation: SELECT and the status check.
HandleExpired(r) ==
    /\ At(r, "notified")
    /\ \/ HasReservedStatus(r) /\ Goto(r, "expire_lua") /\ UNCHANGED faults
       \/ ~HasReservedStatus(r) /\ Done(r) /\ UNCHANGED faults
       \/ Done(r) /\ Fault
    /\ UNCHANGED <<redisVars, pgVars, known, owed>>

ExpireLua(r) ==
    /\ At(r, "expire_lua")
    /\ \/ ReturnUnit /\ Goto(r, "mark_expired") /\ UNCHANGED faults
       \/ ScriptFault(r, ReturnUnit)
    /\ UNCHANGED <<ttl, idem, waitlist, pgVars, known, owed>>

MarkExpired(r) ==
    /\ At(r, "mark_expired")
    /\ \/ /\ StatusWritable(r)
          /\ rows' = [rows EXCEPT ![r] = "expired"]
          /\ \/ Goto(r, "promote_lua") /\ UNCHANGED faults
             \/ Done(r) /\ Fault
       \/ ~StatusWritable(r) /\ Done(r) /\ UNCHANGED <<rows, faults>>
       \/ Done(r) /\ Fault /\ UNCHANGED rows
    /\ UNCHANGED <<redisVars, orders, known, owed>>

\* waitlist_promote.lua.  Which waiting user has the lowest score is left
\* open here.
Promotable == InStock /\ waitlist # {}

PromoteLua(r) ==
    /\ At(r, "promote_lua")
    /\ \/ /\ Promotable
          /\ \E u \in waitlist, n \in Res :
                /\ Fresh(n)
                /\ TakeUnit
                /\ waitlist' = waitlist \ {u}
                /\ Start(r, "promote_insert", n, None, u)
          /\ UNCHANGED faults
       \/ /\ ~Promotable /\ Done(r)
          /\ UNCHANGED <<available, reserved, waitlist, faults>>
       \/ /\ Fault
          /\ \/ /\ Promotable /\ TakeUnit
                /\ \E u \in waitlist : waitlist' = waitlist \ {u}
             \/ UNCHANGED <<available, reserved, waitlist>>
          /\ Done(r) \/ UNCHANGED proc
    /\ UNCHANGED <<ttl, idem, pgVars, known, owed>>

\* ItemID is a new random uuid, so the row is accepted only by a schema
\* without the foreign key on item_id.
ItemAccepted == ~ItemForeignKey

\* Join takes any uuid for a user, so the foreign key on user_id may refuse
\* the row too; the unit is given back, the popped user is not.
PromoteInsert(r) ==
    /\ At(r, "promote_insert")
    /\ \/ /\ ItemAccepted
          /\ rows' = [rows EXCEPT ![proc[r].res] = "reserved"]
          /\ owed' = owed \ {proc[r].user}
          /\ \/ Goto(r, "promote_ttl") /\ UNCHANGED faults
             \/ Goto(r, "undo") /\ Fault
       \/ Goto(r, "undo") /\ UNCHANGED <<rows, owed, faults>>
    /\ UNCHANGED <<redisVars, orders, known>>

\* SET of the TTL key, an error is only logged; then the user is told.
PromoteTTL(r) ==
    /\ At(r, "promote_ttl")
    /\ \/ ttl' = ttl \cup {proc[r].res} /\ UNCHANGED faults
       \/ UNCHANGED ttl /\ Fault
    /\ known' = known \cup {proc[r].res}
    /\ Done(r)
    /\ UNCHANGED <<available, reserved, idem, waitlist, pgVars, owed>>

-----------------------------------------------------------------------------
(* waitlist.Service                                                        *)

Join(u) ==
    /\ ~InStock /\ u \notin waitlist
    /\ waitlist' = waitlist \cup {u}
    /\ owed' = owed \cup {u}
    /\ UNCHANGED <<available, reserved, ttl, idem, pgVars, proc, known, faults>>

Leave(u) ==
    /\ u \in waitlist
    /\ waitlist' = waitlist \ {u}
    /\ owed' = owed \ {u}
    /\ UNCHANGED <<available, reserved, ttl, idem, pgVars, proc, known, faults>>

-----------------------------------------------------------------------------

\* A request arrives.
Arrive(p) ==
    \/ \E k \in AllKeys, r \in Res : ReserveStart(p, k, r)
    \/ \E k \in AllKeys, r \in Res : ConfirmStart(p, r, k)
    \/ \E r \in Res : ReleaseStart(p, r)

\* The next call of a request that has been accepted.
RequestStep(p) ==
    \/ ReserveLua(p) \/ InsertReservation(p) \/ SetTTL(p) \/ SetIdem(p)
    \/ ConfirmLua(p) \/ ConfirmTx(p)
    \/ ReleaseLua(p) \/ MarkReleased(p)
    \/ Undo(p)

\* The next call of an expiry goroutine.
ExpiryStep(r) ==
    \/ HandleExpired(r) \/ ExpireLua(r) \/ MarkExpired(r)
    \/ PromoteLua(r) \/ PromoteInsert(r) \/ PromoteTTL(r)
    \/ Undo(r)

Next ==
    \/ \E p \in Requests : Arrive(p) \/ RequestStep(p)
    \/ \E r \in Res : KeyExpires(r) \/ ExpiryStep(r)
    \/ \E u \in Users : Join(u) \/ Leave(u)
    \/ \E k \in Keys : IdemExpires(k)

Spec == Init /\ [][Next]_vars

-----------------------------------------------------------------------------
(* Properties that hold whatever the clients, the scheduler and the faults *)
(* do, as long as no reconciler writes the counters.                       *)

TypeOK ==
    /\ available \in Int
    /\ reserved \in Int
    /\ ttl \subseteq Res
    /\ idem \in [Keys -> Res \cup {None}]
    /\ waitlist \subseteq Users
    /\ rows \in [Res -> Status]
    /\ orders \in [AllKeys -> Res \cup {None}]
    /\ proc \in [Proc -> [pc : RequestSteps \cup ExpirySteps,
                          res : Res \cup {None},
                          key : AllKeys \cup {None},
                          user : Users \cup {None}]]
    /\ known \subseteq Res
    /\ owed \subseteq Users
    /\ faults \in 0..MaxFaults

\* No oversell: the orders never exceed the stock (slo/budgets.go:21,
\* "final orders <= total_stock, always"), although Confirm reads the
\* reservation's status long before it commits and never looks again.
NoOversell == Cardinality(Sold) <= TotalStock

\* The invariant confirm.lua:3 states and does not test, with the orders
\* added: released, retried and compensated units are never invented.
StockBounded ==
    /\ available >= 0
    /\ available + reserved + Cardinality(Sold) <= TotalStock

\* A reservation row is "confirmed" exactly when an order refers to it: the
\* transaction of Confirm writes both, and no Release, expiry, retry or
\* later INSERT ever separates them.
ConfirmedIffOrdered ==
    \A r \in Res : rows[r] = "confirmed" <=> \E k \in AllKeys : orders[k] = r

\* A confirmed reservation is never released or expired afterwards, however
\* late the UPDATE of a racing handler arrives.
ConfirmedIsFinal ==
    [][\A r \in Res : rows[r] = "confirmed" => rows'[r] = "confirmed"]_vars

\* Handlers past a label have the arguments that the label needs.
ArgsOK ==
    /\ \A p \in Requests :
          /\ proc[p].pc \in RequestSteps
          /\ proc[p].pc \notin {"new", "done"} => proc[p].res \in Res
          /\ proc[p].pc \in {"reserve_lua", "insert", "set_ttl", "set_idem",
                             "confirm_lua", "confirm_tx"}
             => proc[p].key \in AllKeys
          /\ proc[p].pc = "set_idem" => proc[p].key \in Keys
    /\ \A r \in Res :
          /\ proc[r].pc \in ExpirySteps
          /\ proc[r].pc \in {"promote_insert", "promote_ttl"}
             => proc[r].res \in Res /\ proc[r].user \in Users

\* A handler that has not inserted its reservation yet is the only one to
\* know the id, and no row has it.
Inserting(p) == proc[p].pc \in {"reserve_lua", "insert", "promote_insert"}
FreshIds ==
    \A p \in Proc : Inserting(p) =>
        /\ rows[proc[p].res] = "none"
        /\ \A q \in Proc : proc[q].res = proc[p].res => q = p

\* Whatever can make an expiry goroutine run refers to an existing row.
RowsExist ==
    /\ \A r \in Res : r \in ttl \/ proc[r].pc \notin {"new", "done"}
                      => rows[r] # "none"
    /\ \A p \in Proc : proc[p].pc \in {"set_ttl", "promote_ttl"}
                       => rows[proc[p].res] # "none"

\* A handler on its way to set the TTL key of its reservation.
Creating(p) == proc[p].pc \in {"reserve_lua", "insert", "set_ttl",
                               "promote_insert", "promote_ttl"}

\* The expiry goroutine of a reservation is started once: one handler sets
\* the TTL key, before the goroutine has ever run, and a notification never
\* interrupts a goroutine in its work.
OneExpiry ==
    /\ \A r \in ttl : At(r, "new")
    /\ \A r \in Res : ~At(r, "new") => rows[r] # "none"
    /\ \A p \in Proc : Creating(p) =>
          /\ proc[p].res \notin ttl /\ At(proc[p].res, "new")
          /\ \A q \in Proc : Creating(q) /\ proc[q].res = proc[p].res => q = p

\* Confirmations between confirm.lua and their transaction.
Checkout == {p \in Requests : proc[p].pc = "confirm_tx"}

\* A confirmation that passed confirm.lua has a unit set aside for it.
CheckoutBounded ==
    /\ available >= 0
    /\ available + reserved + Cardinality(Sold) + Cardinality(Checkout)
         <= TotalStock
    /\ Cardinality(Sold) + Cardinality(Checkout) <= TotalStock

\* The inductive invariant behind the safety properties above: units in
\* checkout are counted as sold from the instant confirm.lua lets them
\* through, ids stay private until their row exists, and a reservation
\* expires once.
IndInv == /\ TypeOK /\ ArgsOK /\ FreshIds /\ RowsExist /\ OneExpiry
          /\ CheckoutBounded /\ ConfirmedIffOrdered

\* Something will end the hold of reservation r if no client does: its TTL
\* key, the message that the key expired, the goroutine handling that
\* message, or the handler that is about to set the key.
Attended(r) ==
    \/ r \in ttl
    \/ proc[r].pc \in {"notified", "expire_lua", "mark_expired"}
    \/ \E p \in Proc : proc[p].pc \in {"set_ttl", "promote_ttl"}
                       /\ proc[p].res = r

\* As long as no call has failed, no reservation is left in status
\* "reserved" with nothing to expire it, whatever Confirm and Release do
\* to it in the meantime.
NoOrphanHold ==
    faults = 0 => \A r \in Res : rows[r] = "reserved" => Attended(r)

\* What README.md:195-198 says of a user who joined the waitlist and did not
\* leave: they are in the sorted set, in the hands of the goroutine that
\* promotes them, or have been given a reservation, unless a call failed.
NoWaiterLost ==
    faults = 0 => owed \subseteq waitlist \cup
        {proc[r].user : r \in {q \in Res : At(q, "promote_insert")}}

-----------------------------------------------------------------------------
(* Liveness.  An accepted request and an expiry goroutine run to their     *)
(* end, and Redis eventually drops an expired key; clients owe nothing.    *)

Fairness ==
    /\ \A p \in Requests : WF_vars(RequestStep(p))
    /\ \A r \in Res : WF_vars(KeyExpires(r)) /\ WF_vars(ExpiryStep(r))

FairSpec == Spec /\ Fairness

\* Every hold ends: a reservation does not stay "reserved" for ever, no
\* matter which handlers race over it, if no call fails.
HoldsEnd ==
    \A r \in Res : rows[r] = "reserved"
                   ~> (rows[r] # "reserved" \/ faults > 0)
=============================================================================
