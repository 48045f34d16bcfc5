----------------------------- MODULE SaleProofs -----------------------------
(***************************************************************************)
(* Proofs about the two specifications built on FlashSale: the disciplined *)
(* clients of OrderlyClients, whose sale keeps exact books and implements  *)
(* StockLedger, and the sale of Reconciliation, whose counters are         *)
(* rewritten while handlers run and whose server crashes.                  *)
(***************************************************************************)
EXTENDS OrderlyClients, Reconciliation, FlashSaleProofs

-----------------------------------------------------------------------------
(* Disciplined clients: one handler finishes a reservation at a time       *)

\* What the discipline adds to each handler's early check: the row that a
\* handler is finishing is still "reserved" and the key of a confirmation has
\* no order, until that handler itself writes them.
ChecksStillHold ==
    /\ \A r \in Res : Finishers(r) # {} => rows[r] = "reserved"
    /\ \A p \in Confirming : orders[proc[p].key] = None

Finishing == {"confirm_lua", "confirm_tx", "release_lua", "mark_released"}

\* Who finishes reservation x.
LEMMA FinisherCases ==
    ASSUME NEW x \in Res, NEW p
    PROVE  p \in Finishers(x) <=>
              \/ p \in Requests /\ proc[p].res = x /\ proc[p].pc \in Finishing
              \/ p = x /\ proc[x].pc \in {"expire_lua", "mark_expired"}
BY DEF Finishers, Finishing

\* Two handlers that finish the same reservation are the same.
LEMMA OneFinisher ==
    ASSUME Orderly, NEW x \in Res, NEW p \in Finishers(x), NEW q \in Finishers(x)
    PROVE  p = q
<1>1. IsFiniteSet(Requests \cup {x}) /\ Finishers(x) \subseteq Requests \cup {x}
  BY FiniteAssumption, FS_AddElement DEF Finishers
<1>2. IsFiniteSet(Finishers(x))
  BY <1>1, FS_Subset
<1>3. Cardinality(Finishers(x)) <= 1 /\ Cardinality(Finishers(x)) \in Nat
  BY <1>2, FS_CardinalityType DEF Orderly
<1>4. Cardinality(Finishers(x)) # 0
  BY <1>2, FS_EmptySet
<1>5. \E y : Finishers(x) = {y}
  BY <1>2, <1>3, <1>4, FS_Singleton
<1> QED BY <1>5

\* A row changes when it is inserted, and when its finisher is done.
LEMMA RowWriters ==
    ASSUME TypeOK, ArgsOK, FreshIds, [Next]_vars,
           NEW x \in Res, rows'[x] # rows[x]
    PROVE  \/ rows[x] = "none" /\ rows'[x] = "reserved"
           \/ \E p \in Finishers(x) : p \notin Finishers(x)'
<1> USE DistinctAssumption
    DEF Proc, Steps, RequestSteps, ExpirySteps, redisVars, pgVars
<1> DEFINE Goal == \/ rows[x] = "none" /\ rows'[x] = "reserved"
                   \/ \E p \in Finishers(x) : p \notin Finishers(x)'
<1>1. ASSUME NEW p \in Requests, InsertReservation(p)
      PROVE  Goal
  <2>1. proc[p].res \in Res /\ rows[proc[p].res] = "none"
    BY <1>1 DEF InsertReservation, At, ArgsOK, FreshIds, Inserting
  <2> QED BY <1>1, <2>1 DEF InsertReservation, TypeOK
<1>2. ASSUME NEW r \in Res, PromoteInsert(r)
      PROVE  Goal
  <2>1. proc[r].res \in Res /\ rows[proc[r].res] = "none"
    BY <1>2 DEF PromoteInsert, At, ArgsOK, FreshIds, Inserting
  <2> QED BY <1>2, <2>1 DEF PromoteInsert, TypeOK
<1>3. ASSUME NEW p \in Requests, ConfirmTx(p) \/ MarkReleased(p)
      PROVE  Goal
  <2>1. proc[p].res = x /\ proc[p].pc \in Finishing
    BY <1>3 DEF ConfirmTx, CommitOrder, MarkReleased, At, Finishing, TypeOK
  <2>2. Keeps(p, {"undo"}) \/ Keeps(p, {})
    BY <1>3, RequestFlow
  <2>3. proc'[p].pc \notin Finishing /\ p # x
    BY <2>2 DEF Keeps, Finishing
  <2> QED BY <2>1, <2>3 DEF Finishers, Finishing
<1>4. ASSUME NEW r \in Res, MarkExpired(r)
      PROVE  Goal
  <2>1. r = x /\ proc[x].pc = "mark_expired"
    BY <1>4 DEF MarkExpired, At, TypeOK
  <2>2. proc'[x].pc \notin {"expire_lua", "mark_expired"}
    BY <1>4, <2>1, ExpiryFlow DEF Keeps
  <2>3. x \in Finishers(x) /\ x \notin Finishers(x)'
    BY <2>1, <2>2 DEF Finishers
  <2> QED BY <2>3
<1>5. \/ UNCHANGED rows
      \/ \E p \in Requests : InsertReservation(p) \/ MarkReleased(p) \/ ConfirmTx(p)
      \/ \E r \in Res : PromoteInsert(r) \/ MarkExpired(r)
  BY DEF Next, Arrive, RequestStep, ExpiryStep, vars,
         ReserveStart, ReserveLua, SetTTL, SetIdem, Undo, ConfirmStart,
         ConfirmLua, ReleaseStart, ReleaseLua, KeyExpires, HandleExpired,
         ExpireLua, PromoteLua, PromoteTTL, Join, Leave, IdemExpires
<1> QED BY <1>1, <1>2, <1>3, <1>4, <1>5

\* A handler that begins to finish a reservation has just seen its row
\* "reserved".
LEMMA FinisherStarts ==
    ASSUME TypeOK, ArgsOK, [Next]_vars, ~Fault, NEW x \in Res,
           NEW p \in Finishers(x)', p \notin Finishers(x)
    PROVE  rows[x] = "reserved" /\ UNCHANGED rows
<1> USE DistinctAssumption
    DEF Proc, Steps, RequestSteps, ExpirySteps, redisVars, pgVars
<1> DEFINE Goal == rows[x] = "reserved" /\ UNCHANGED rows
<1>0. \/ p \in Requests /\ proc'[p].res = x /\ proc'[p].pc \in Finishing
      \/ p = x /\ proc'[x].pc \in {"expire_lua", "mark_expired"}
  BY DEF Finishers, Finishing
<1>1. ~ \/ p \in Requests /\ proc[p].res = x /\ proc[p].pc \in Finishing
        \/ p = x /\ proc[x].pc \in {"expire_lua", "mark_expired"}
  BY FinisherCases
<1>2. ASSUME NEW q \in Proc, NEW L \in SUBSET Steps, Keeps(q, L),
             \/ L \cap (Finishing \cup {"expire_lua", "mark_expired"}) = {}
             \/ proc[q].pc \in Finishing /\ q \in Requests
                /\ L \cap {"expire_lua", "mark_expired"} = {}
             \/ proc[q].pc \in {"expire_lua", "mark_expired"} /\ q \in Res
                /\ L \cap Finishing = {}
      PROVE  FALSE
  BY <1>0, <1>1, <1>2 DEF Keeps, Finishing
<1>3. ASSUME NEW q \in Requests, NEW k \in AllKeys, NEW r \in Res,
             ConfirmStart(q, r, k) \/ ReleaseStart(q, r)
      PROVE  Goal
  <2>1. /\ proc'[q].res = r /\ proc'[q].pc \in Finishing
        /\ \A y \in Proc : y # q => proc'[y] = proc[y]
    BY <1>3, StartEffect DEF ConfirmStart, ReleaseStart, Finishing
  <2> QED BY <1>0, <1>1, <1>3, <2>1 DEF ConfirmStart, ReleaseStart, HasReservedStatus
<1>4. ASSUME NEW r \in Res, HandleExpired(r)
      PROVE  Goal
  <2>1. Keeps(r, {"expire_lua"})
    BY <1>4, ExpiryFlow
  <2>2. r = x /\ proc'[x].pc = "expire_lua"
    BY <1>0, <1>1, <2>1 DEF Keeps, Finishing
  <2> QED BY <1>4, <2>2, DoneEffect DEF HandleExpired, HasReservedStatus
<1>5. ASSUME NEW q \in Requests, NEW k \in AllKeys, NEW r \in Res, ReserveStart(q, k, r)
      PROVE  FALSE
  <2>1. /\ proc'[q].pc = "reserve_lua" /\ \A y \in Proc : y # q => proc'[y] = proc[y]
    BY <1>5, StartEffect DEF ReserveStart
  <2> QED BY <1>0, <1>1, <2>1 DEF Finishing
<1>6. ASSUME NEW q \in Requests, RequestStep(q)
      PROVE  FALSE
  <2> USE <1>2, RequestFlow, UndoFlow DEF Finishing, At
  <2>1. CASE ReserveLua(q) \/ InsertReservation(q)
    BY <2>1
  <2>2. CASE SetTTL(q) \/ SetIdem(q)
    BY <2>2
  <2>3. CASE ConfirmLua(q)
    BY <2>3 DEF ConfirmLua
  <2>4. CASE ConfirmTx(q) \/ MarkReleased(q) \/ Undo(q)
    BY <2>4
  <2>5. CASE ReleaseLua(q)
    BY <2>5 DEF ReleaseLua
  <2> QED BY <1>6, <2>1, <2>2, <2>3, <2>4, <2>5 DEF RequestStep
<1>7. ASSUME NEW r \in Res, KeyExpires(r) \/ MarkExpired(r) \/ PromoteInsert(r)
                            \/ PromoteTTL(r) \/ Undo(r)
      PROVE  FALSE
  BY <1>2, <1>7, ExpiryFlow, UndoFlow DEF Finishing
<1>8. ASSUME NEW r \in Res, ExpireLua(r)
      PROVE  FALSE
  BY <1>2, <1>8, ExpiryFlow DEF Finishing, ExpireLua, At
<1>9. ASSUME NEW r \in Res, PromoteLua(r)
      PROVE  FALSE
  <2>1. /\ proc'[r].pc \in {"promote_lua", "promote_insert", "done"}
        /\ \A y \in Proc : y # r => proc'[y] = proc[y]
    BY <1>9 DEF PromoteLua, At, Start, Done, Local, Finished, TypeOK
  <2> QED BY <1>0, <1>1, <2>1 DEF Finishing
<1>10. ASSUME UNCHANGED proc
       PROVE  FALSE
  BY <1>0, <1>1, <1>10
<1>11. NoKey \in AllKeys
  BY DEF AllKeys
<1> QED
  BY <1>3, <1>4, <1>5, <1>6, <1>7, <1>8, <1>9, <1>10, <1>11
  DEF Next, Arrive, ExpiryStep, Join, Leave, IdemExpires, vars

\* The row a handler is finishing stays "reserved" until that handler
\* writes it.
LEMMA FinisherStep ==
    ASSUME TypeOK, ArgsOK, FreshIds, Orderly, ChecksStillHold, [Next]_vars,
           ~Fault, NEW x \in Res, Finishers(x)' # {}
    PROVE  rows'[x] = "reserved"
<1>1. PICK p \in Finishers(x)' : TRUE
  OBVIOUS
<1>2. CASE p \notin Finishers(x)
  BY <1>1, <1>2, FinisherStarts
<1>3. CASE p \in Finishers(x)
  <2>1. rows[x] = "reserved"
    BY <1>3 DEF ChecksStillHold
  <2>2. \A q \in Finishers(x) : q = p
    BY <1>3, OneFinisher
  <2> QED BY <1>1, <2>1, <2>2, RowWriters
<1> QED BY <1>2, <1>3

\* The key of a confirmation has no order until that confirmation commits.
LEMMA ConfirmerStep ==
    ASSUME TypeOK, ArgsOK, Orderly, Orderly', ChecksStillHold, [Next]_vars,
           ~Fault, NEW p \in Confirming'
    PROVE  orders'[proc'[p].key] = None
<1> USE DistinctAssumption
    DEF Proc, Steps, RequestSteps, ExpirySteps, redisVars, pgVars
<1>0. p \in Requests /\ proc'[p].pc \in {"confirm_lua", "confirm_tx"}
  BY DEF Confirming
<1>1. proc[p].pc \in {"confirm_lua", "confirm_tx"}
      => proc[p].key \in AllKeys /\ orders[proc[p].key] = None
  BY <1>0 DEF ChecksStillHold, Confirming, ArgsOK
<1>2. ASSUME UNCHANGED <<orders, proc>>
      PROVE  orders'[proc'[p].key] = None
  BY <1>0, <1>1, <1>2
<1>3. ASSUME UNCHANGED orders, NEW q \in Proc, NEW L \in SUBSET Steps, Keeps(q, L),
             L \cap {"confirm_lua", "confirm_tx"} = {} \/ At(q, "confirm_lua")
      PROVE  orders'[proc'[p].key] = None
  BY <1>0, <1>1, <1>3 DEF Keeps, At
<1>4. ASSUME NEW q \in Requests, NEW k \in AllKeys, NEW r \in Res, ConfirmStart(q, r, k)
      PROVE  orders'[proc'[p].key] = None
  <2>1. /\ proc'[q].pc = "confirm_lua" /\ proc'[q].key = k
        /\ \A y \in Proc : y # q => proc'[y] = proc[y]
    BY <1>4, StartEffect DEF ConfirmStart
  <2>2. k # NoKey
    BY <2>1 DEF Orderly, Confirming
  <2>3. orders[k] = None /\ UNCHANGED orders
    BY <1>4, <2>2 DEF ConfirmStart, OrderMiss
  <2> QED BY <1>0, <1>1, <2>1, <2>3
<1>5. ASSUME NEW q \in Requests, NEW k \in AllKeys, NEW r \in Res,
             ReserveStart(q, k, r) \/ ReleaseStart(q, r)
      PROVE  orders'[proc'[p].key] = None
  <2>1. /\ proc'[q].pc \in {"reserve_lua", "release_lua"}
        /\ \A y \in Proc : y # q => proc'[y] = proc[y]
    BY <1>5, StartEffect DEF ReserveStart, ReleaseStart
  <2> QED BY <1>0, <1>1, <1>5, <2>1 DEF ReserveStart, ReleaseStart
<1>6. ASSUME NEW q \in Requests, ConfirmTx(q)
      PROVE  orders'[proc'[p].key] = None
  <2>1. Keeps(q, {"undo"}) /\ q \in Confirming /\ proc[q].key \in AllKeys
    BY <1>6, RequestFlow DEF Confirming, ConfirmTx, At, ArgsOK
  <2>2. p # q /\ p \in Confirming /\ proc'[p] = proc[p]
    BY <1>0, <2>1 DEF Keeps, Confirming
  <2>3. proc[p].key # proc[q].key
    BY <2>1, <2>2 DEF Orderly
  <2>4. orders'[proc[p].key] = orders[proc[p].key]
    BY <1>1, <1>6, <2>1, <2>2, <2>3 DEF ConfirmTx, CommitOrder, TypeOK, Confirming
  <2> QED BY <1>1, <2>2, <2>4 DEF Confirming
<1>7. ASSUME NEW r \in Res, PromoteLua(r)
      PROVE  orders'[proc'[p].key] = None
  <2>1. \A y \in Proc : y # r => proc'[y] = proc[y]
    BY <1>7 DEF PromoteLua, Start, Done, TypeOK
  <2> QED BY <1>0, <1>1, <1>7, <2>1 DEF PromoteLua
<1>8. ASSUME NEW q \in Requests, RequestStep(q)
      PROVE  orders'[proc'[p].key] = None
  <2> USE <1>3, RequestFlow, UndoFlow
  <2>1. CASE ReserveLua(q) \/ InsertReservation(q)
    BY <2>1 DEF ReserveLua, InsertReservation
  <2>2. CASE SetTTL(q) \/ SetIdem(q)
    BY <2>2 DEF SetTTL, SetIdem
  <2>3. CASE ConfirmLua(q)
    BY <2>3 DEF ConfirmLua
  <2>4. CASE ReleaseLua(q) \/ MarkReleased(q) \/ Undo(q)
    BY <2>4 DEF ReleaseLua, MarkReleased, Undo
  <2> QED BY <1>6, <1>8, <2>1, <2>2, <2>3, <2>4 DEF RequestStep
<1>9. ASSUME NEW r \in Res, KeyExpires(r) \/ ExpiryStep(r)
      PROVE  orders'[proc'[p].key] = None
  <2> USE <1>3, ExpiryFlow, UndoFlow
  <2>1. CASE KeyExpires(r) \/ HandleExpired(r) \/ ExpireLua(r)
    BY <2>1 DEF KeyExpires, HandleExpired, ExpireLua
  <2>2. CASE MarkExpired(r) \/ PromoteInsert(r) \/ PromoteTTL(r) \/ Undo(r)
    BY <2>2 DEF MarkExpired, PromoteInsert, PromoteTTL, Undo
  <2> QED BY <1>7, <1>9, <2>1, <2>2 DEF ExpiryStep
<1>10. NoKey \in AllKeys
  BY DEF AllKeys
<1> QED
  BY <1>2, <1>4, <1>5, <1>8, <1>9, <1>10 DEF Next, Arrive, Join, Leave, IdemExpires, vars

\* What each handler checked first stays true until it acts on it.
LEMMA ChecksStep ==
    ASSUME IndInv, Orderly, Orderly', ChecksStillHold, [Next]_vars
    PROVE  ChecksStillHold'
<1>1. TypeOK /\ ArgsOK /\ FreshIds
  BY DEF IndInv
<1>2. ~Fault
  BY <1>1, NoFaultYet DEF Orderly
<1>3. \A r \in Res : Finishers(r)' # {} => rows'[r] = "reserved"
  BY <1>1, <1>2, FinisherStep
<1>4. \A p \in Confirming' : orders'[proc'[p].key] = None
  BY <1>1, <1>2, ConfirmerStep
<1> QED BY <1>3, <1>4 DEF ChecksStillHold

\* Behaviours of disciplined clients are behaviours of the sale.
LEMMA OrderlyIsSale == OrderlySpec => Spec
<1>1. [OrderlyNext]_vars => [Next]_vars
  BY DEF OrderlyNext
<1> QED BY <1>1, PTL DEF OrderlySpec, Spec

\* Disciplined clients stay disciplined, and every check stays true until
\* the handler that made it acts on it.
THEOREM ChecksHold == OrderlySpec => [](IndInv /\ Orderly /\ ChecksStillHold)
<1>1. Init => Orderly /\ ChecksStillHold
  <2> SUFFICES ASSUME Init PROVE Orderly /\ ChecksStillHold
    OBVIOUS
  <2>1. \A p \in Proc : proc[p].pc = "new"
    BY DEF Init, New, Local
  <2>2. Confirming = {} /\ \A r \in Res : Finishers(r) = {}
    BY <2>1 DEF Confirming, Finishers, Proc
  <2> QED BY <2>2, FS_EmptySet DEF Init, Orderly, ChecksStillHold
<1>2. Orderly /\ [OrderlyNext]_vars => Orderly'
  BY DEF OrderlyNext, vars, Orderly, Confirming, Finishers
<1>3. /\ IndInv /\ Orderly /\ Orderly' /\ ChecksStillHold /\ [OrderlyNext]_vars
      => ChecksStillHold'
  BY ChecksStep DEF OrderlyNext
<1> QED BY <1>1, <1>2, <1>3, OrderlyIsSale, Invariance, PTL DEF OrderlySpec

-----------------------------------------------------------------------------
(* Disciplined clients: the ledger                                         *)

\* What a step may do to the counters, the held units, the orders and the
\* confirmations in checkout.
Stays == UNCHANGED <<available, reserved, Held, Cardinality(Sold), Cardinality(Checkout)>>
Takes == /\ available > 0 /\ TakeUnit /\ Held' = Held + 1
         /\ UNCHANGED <<Cardinality(Sold), Cardinality(Checkout)>>
Returns == /\ Held > 0 /\ ReturnUnit /\ Held' = Held - 1
           /\ UNCHANGED <<Cardinality(Sold), Cardinality(Checkout)>>
SetsAside == /\ SellUnit /\ UNCHANGED <<Held, Cardinality(Sold)>>
             /\ Cardinality(Checkout)' = Cardinality(Checkout) + 1
Sells == /\ UNCHANGED <<available, reserved>>
         /\ Held > 0 /\ Held' = Held - 1
         /\ Cardinality(Sold)' = Cardinality(Sold) + 1
         /\ Cardinality(Checkout)' = Cardinality(Checkout) - 1
LedgerMove == Stays \/ Takes \/ Returns \/ SetsAside \/ Sells

\* The held units can be counted.
LEMMA HeldCountable ==
    /\ IsFiniteSet(InHand) /\ Cardinality(InHand) \in Nat
    /\ IsFiniteSet(LiveRows) /\ Cardinality(LiveRows) \in Nat
    /\ Held \in Nat
<1>1. IsFiniteSet(Proc)
  BY FiniteAssumption, FS_Union DEF Proc
<1>2. InHand \subseteq Proc /\ LiveRows \subseteq Res
  BY DEF InHand, LiveRows
<1>3. IsFiniteSet(InHand) /\ IsFiniteSet(LiveRows)
  BY <1>1, <1>2, FiniteAssumption, FS_Subset
<1> QED BY <1>3, FS_CardinalityType DEF Held

\* The unit of a row leaves the live rows by a step of its finisher only.
LEMMA LiveUntilFinished ==
    ASSUME Orderly, ChecksStillHold, NEW x \in Res, NEW p \in Finishers(x),
           proc[p].pc \notin {"mark_released", "mark_expired"}
    PROVE  x \in LiveRows
<1>1. rows[x] = "reserved"
  BY DEF ChecksStillHold
<1>2. \A q \in Finishers(x) : q = p
  BY OneFinisher
<1>3. ASSUME GivenBack(x) PROVE FALSE
  <2>1. PICK q \in Finishers(x) : proc[q].pc \in {"mark_released", "mark_expired"}
    BY <1>3 DEF GivenBack, Finishers
  <2> QED BY <1>2, <2>1
<1> QED BY <1>1, <1>3 DEF LiveRows

Booked == {"insert", "promote_insert", "undo", "mark_released", "mark_expired",
           "confirm_tx"}

\* A step between labels that book nothing keeps every count.
LEMMA NothingBooked ==
    ASSUME NEW p \in Proc, proc[p].pc \notin Booked, proc'[p].pc \notin Booked,
           \A q \in Proc : q # p => proc'[q] = proc[q], UNCHANGED pgVars
    PROVE  InHand' = InHand /\ LiveRows' = LiveRows /\ Checkout' = Checkout
           /\ Sold' = Sold
<1>1. InHand' = InHand /\ Checkout' = Checkout
  BY DEF InHand, Checkout, Booked, Proc
<1>2. \A x \in Res : GivenBack(x)' <=> GivenBack(x)
  BY DEF GivenBack, Booked, Proc
<1>3. LiveRows' = LiveRows
  BY <1>2 DEF LiveRows, pgVars
<1> QED BY <1>1, <1>3 DEF Sold, pgVars

\* Every step of disciplined clients is one move of the ledger.
LEMMA LedgerStep ==
    ASSUME IndInv, Orderly, Orderly', ChecksStillHold, [Next]_vars
    PROVE  LedgerMove
<1> USE DistinctAssumption
    DEF Proc, Steps, RequestSteps, ExpirySteps, redisVars, pgVars
<1>0. /\ TypeOK /\ ArgsOK /\ FreshIds /\ OneExpiry /\ TypeOK'
  BY TypeStep DEF IndInv
<1>a. ~Fault
  BY <1>0, NoFaultYet DEF Orderly
<1>b. ASSUME UNCHANGED <<available, reserved>>, InHand' = InHand,
             LiveRows' = LiveRows, Checkout' = Checkout, Sold' = Sold
      PROVE  LedgerMove
  BY <1>b DEF LedgerMove, Stays, Held
<1>c. ASSUME UNCHANGED <<available, reserved>>, NEW p \in Proc,
             proc[p].pc \notin Booked, proc'[p].pc \notin Booked,
             \A q \in Proc : q # p => proc'[q] = proc[q], UNCHANGED pgVars
      PROVE  LedgerMove
  BY <1>b, <1>c, NothingBooked
<1>1. ASSUME NEW p \in Requests, Arrive(p)
      PROVE  LedgerMove
  <2>1. /\ proc[p].pc = "new" /\ proc'[p].pc \in {"reserve_lua", "confirm_lua", "release_lua"}
        /\ \A q \in Proc : q # p => proc'[q] = proc[q]
        /\ UNCHANGED <<available, reserved, pgVars>>
    BY <1>0, <1>1 DEF Arrive, ReserveStart, ConfirmStart, ReleaseStart, At,
       Start, Local, TypeOK
  <2> QED BY <1>c, <2>1 DEF Booked
<1>2. ASSUME NEW p \in Proc, SetTTL(p) \/ SetIdem(p)
      PROVE  LedgerMove
  <2>1. /\ proc[p].pc \notin Booked /\ proc'[p].pc \in {"set_idem", "done"}
        /\ \A q \in Proc : q # p => proc'[q] = proc[q]
        /\ UNCHANGED <<available, reserved, pgVars>>
    BY <1>0, <1>2 DEF SetTTL, SetIdem, At, Goto, Done, Finished, Local, TypeOK, Booked
  <2> QED BY <1>c, <2>1 DEF Booked
<1>3. ASSUME NEW r \in Res, KeyExpires(r) \/ HandleExpired(r) \/ PromoteTTL(r)
      PROVE  LedgerMove
  <2>1. /\ proc[r].pc \notin Booked /\ proc'[r].pc \in {"notified", "expire_lua", "done"}
        /\ \A q \in Proc : q # r => proc'[q] = proc[q]
        /\ UNCHANGED <<available, reserved, pgVars>>
    BY <1>0, <1>3 DEF KeyExpires, HandleExpired, PromoteTTL, At, Goto, Done,
       Finished, Local, TypeOK, OneExpiry, Booked
  <2> QED BY <1>c, <2>1 DEF Booked
<1>4. ASSUME UNCHANGED <<available, reserved, rows, orders, proc>>
      PROVE  LedgerMove
  <2>1. InHand' = InHand /\ LiveRows' = LiveRows /\ Checkout' = Checkout /\ Sold' = Sold
    BY <1>4 DEF InHand, LiveRows, GivenBack, Checkout, Sold
  <2> QED BY <1>4, <1>b, <2>1
<1>5. ASSUME NEW p \in Proc, proc[p].pc \in {"reserve_lua", "promote_lua"},
             InStock, TakeUnit, UNCHANGED pgVars,
             proc'[p].pc \in {"insert", "promote_insert"},
             \A q \in Proc : q # p => proc'[q] = proc[q]
      PROVE  LedgerMove
  <2>1. p \notin InHand /\ InHand' = InHand \cup {p} /\ Checkout' = Checkout
    BY <1>5 DEF InHand, Checkout
  <2>2. \A x \in Res : GivenBack(x)' <=> GivenBack(x)
    BY <1>5 DEF GivenBack
  <2>3. LiveRows' = LiveRows /\ Sold' = Sold
    BY <1>5, <2>2 DEF LiveRows, Sold
  <2>4. Cardinality(InHand') = Cardinality(InHand) + 1
    BY <2>1, HeldCountable, FS_AddElement
  <2>5. Held' = Held + 1
    BY <2>3, <2>4, HeldCountable DEF Held
  <2> QED BY <1>5, <2>1, <2>3, <2>5 DEF LedgerMove, Takes, InStock
<1>6. ASSUME NEW p \in Requests, ReserveLua(p)
      PROVE  LedgerMove
  <2>1. CASE InStock /\ TakeUnit /\ Goto(p, "insert")
    BY <1>0, <1>5, <1>6, <2>1, GotoEffect DEF ReserveLua, At
  <2>2. CASE Done(p) /\ UNCHANGED <<available, reserved>>
    BY <1>0, <1>6, <1>c, <2>2, DoneEffect DEF ReserveLua, At, Booked
  <2> QED BY <1>6, <1>a, <2>1, <2>2 DEF ReserveLua, ScriptFault
<1>7. ASSUME NEW r \in Res, PromoteLua(r)
      PROVE  LedgerMove
  <2>1. CASE \E u \in waitlist, m \in Res :
               InStock /\ TakeUnit /\ Start(r, "promote_insert", m, None, u)
    <3>1. PICK u \in waitlist, m \in Res :
               InStock /\ TakeUnit /\ Start(r, "promote_insert", m, None, u)
      BY <2>1
    <3>2. proc'[r].pc = "promote_insert" /\ \A q \in Proc : q # r => proc'[q] = proc[q]
      BY <1>0, <3>1 DEF Start, Local, TypeOK
    <3> QED BY <1>5, <1>7, <3>1, <3>2 DEF PromoteLua, At
  <2>2. CASE Done(r) /\ UNCHANGED <<available, reserved>>
    BY <1>0, <1>7, <1>c, <2>2, DoneEffect DEF PromoteLua, At, Booked
  <2> QED BY <1>7, <1>a, <2>1, <2>2 DEF PromoteLua, Promotable
<1>8. ASSUME NEW p \in Proc, proc[p].pc \in {"insert", "promote_insert"},
             UNCHANGED <<available, reserved, orders>>,
             \A q \in Proc : q # p => proc'[q] = proc[q],
             \/ /\ proc'[p].pc \in {"set_ttl", "promote_ttl"}
                /\ rows' = [rows EXCEPT ![proc[p].res] = "reserved"]
             \/ proc'[p].pc = "undo" /\ UNCHANGED rows
      PROVE  LedgerMove
  <2>1. Checkout' = Checkout /\ Sold' = Sold
    BY <1>8 DEF Checkout, Sold
  <2>2. \A x \in Res : GivenBack(x)' <=> GivenBack(x)
    BY <1>8 DEF GivenBack
  <2>3. CASE proc'[p].pc = "undo" /\ UNCHANGED rows
    <3>1. InHand' = InHand /\ LiveRows' = LiveRows
      BY <1>8, <2>2, <2>3 DEF InHand, LiveRows
    <3> QED BY <1>8, <1>b, <2>1, <3>1
  <2>4. CASE /\ proc'[p].pc \in {"set_ttl", "promote_ttl"}
             /\ rows' = [rows EXCEPT ![proc[p].res] = "reserved"]
    <3> DEFINE x == proc[p].res
    <3>1. x \in Res /\ rows[x] = "none" /\ \A q \in Proc : proc[q].res = x => q = p
      BY <1>0, <1>8 DEF ArgsOK, FreshIds, Inserting
    <3>2. proc[x].pc = "new"
      BY <1>0, <1>8 DEF OneExpiry, Creating, At
    <3>3. ~GivenBack(x)
      BY <1>8, <3>1, <3>2 DEF GivenBack
    <3>4. InHand' = InHand \ {p} /\ p \in InHand
      BY <1>8, <2>4 DEF InHand
    <3>5. LiveRows' = LiveRows \cup {x} /\ x \notin LiveRows
      BY <1>0, <2>2, <2>4, <3>1, <3>3 DEF LiveRows, TypeOK
    <3>6. /\ Cardinality(InHand') = Cardinality(InHand) - 1
          /\ Cardinality(LiveRows') = Cardinality(LiveRows) + 1
      BY <3>4, <3>5, HeldCountable, FS_AddElement, FS_RemoveElement
    <3>7. Held' = Held
      BY <3>6, HeldCountable DEF Held
    <3> QED BY <1>8, <2>1, <3>7 DEF LedgerMove, Stays
  <2> QED BY <1>8, <2>3, <2>4
<1>9. ASSUME NEW p \in Requests, InsertReservation(p)
      PROVE  LedgerMove
  <2>1. \/ Goto(p, "set_ttl") /\ rows' = [rows EXCEPT ![proc[p].res] = "reserved"]
        \/ Goto(p, "undo") /\ UNCHANGED rows
    BY <1>9, <1>a DEF InsertReservation
  <2>2. /\ proc[p].pc = "insert" /\ UNCHANGED <<available, reserved, orders>>
        /\ p \in Proc /\ {"set_ttl", "undo"} \subseteq Steps
    BY <1>9 DEF InsertReservation, At
  <2>3. \A q \in Proc : q # p => proc'[q] = proc[q]
    BY <1>0, <2>1, <2>2, GotoEffect
  <2>4. \/ proc'[p].pc = "set_ttl" /\ rows' = [rows EXCEPT ![proc[p].res] = "reserved"]
        \/ proc'[p].pc = "undo" /\ UNCHANGED rows
    BY <1>0, <2>1, <2>2, GotoEffect
  <2> QED BY <1>8, <2>2, <2>3, <2>4
<1>10. ASSUME NEW r \in Res, PromoteInsert(r)
       PROVE  LedgerMove
  <2>1. \/ Goto(r, "promote_ttl") /\ rows' = [rows EXCEPT ![proc[r].res] = "reserved"]
        \/ Goto(r, "undo") /\ UNCHANGED rows
    BY <1>10, <1>a DEF PromoteInsert
  <2>2. /\ proc[r].pc = "promote_insert" /\ UNCHANGED <<available, reserved, orders>>
        /\ r \in Proc /\ {"promote_ttl", "undo"} \subseteq Steps
    BY <1>10 DEF PromoteInsert, At
  <2>3. \A q \in Proc : q # r => proc'[q] = proc[q]
    BY <1>0, <2>1, <2>2, GotoEffect
  <2>4. \/ proc'[r].pc = "promote_ttl" /\ rows' = [rows EXCEPT ![proc[r].res] = "reserved"]
        \/ proc'[r].pc = "undo" /\ UNCHANGED rows
    BY <1>0, <2>1, <2>2, GotoEffect
  <2> QED BY <1>8, <2>2, <2>3, <2>4
<1>11. ASSUME NEW p \in Proc, Undo(p)
       PROVE  LedgerMove
  <2>1. /\ proc[p].pc = "undo" /\ ReturnUnit /\ Done(p) /\ UNCHANGED <<rows, orders>>
    BY <1>11, <1>a DEF Undo, At, ScriptFault
  <2>2. proc'[p].pc = "done" /\ \A q \in Proc : q # p => proc'[q] = proc[q]
    BY <1>0, <2>1, DoneEffect
  <2>3. p \in InHand /\ InHand' = InHand \ {p} /\ Checkout' = Checkout
    BY <2>1, <2>2 DEF InHand, Checkout
  <2>4. \A x \in Res : GivenBack(x)' <=> GivenBack(x)
    BY <2>1, <2>2 DEF GivenBack
  <2>5. LiveRows' = LiveRows /\ Sold' = Sold
    BY <2>1, <2>4 DEF LiveRows, Sold
  <2>6. /\ Cardinality(InHand') = Cardinality(InHand) - 1
        /\ Cardinality(InHand') \in Nat
    BY <2>3, HeldCountable, FS_RemoveElement, FS_CardinalityType
  <2>7. Held' = Held - 1 /\ Held > 0
    BY <2>5, <2>6, HeldCountable DEF Held
  <2> QED BY <2>1, <2>3, <2>5, <2>7 DEF LedgerMove, Returns
<1>12. ASSUME NEW x \in Res, NEW p \in Finishers(x),
              proc[p].pc \in {"release_lua", "expire_lua"},
              proc'[p].pc = IF p = x THEN "mark_expired" ELSE "mark_released",
              proc'[p].res = proc[p].res,
              \A q \in Proc : q # p => proc'[q] = proc[q],
              ReturnUnit, UNCHANGED <<rows, orders>>
       PROVE  LedgerMove
  <2>0. \/ p \in Requests /\ proc[p].res = x /\ p # x
        \/ p = x
    BY <1>12, FinisherCases
  <2>1. x \in LiveRows
    BY <1>12, LiveUntilFinished
  <2>2. InHand' = InHand /\ Checkout' = Checkout /\ Sold' = Sold
    BY <1>12, <2>0 DEF InHand, Checkout, Sold
  <2>3. GivenBack(x)'
    BY <1>12, <2>0 DEF GivenBack
  <2>4. \A y \in Res : y # x => (GivenBack(y)' <=> GivenBack(y))
    BY <1>12, <2>0 DEF GivenBack
  <2>5. LiveRows' = LiveRows \ {x}
    BY <1>12, <2>3, <2>4 DEF LiveRows
  <2>6. /\ Cardinality(LiveRows') = Cardinality(LiveRows) - 1
        /\ Cardinality(LiveRows') \in Nat
    BY <2>1, <2>5, HeldCountable, FS_RemoveElement, FS_CardinalityType
  <2>7. Held' = Held - 1 /\ Held > 0
    BY <2>2, <2>6, HeldCountable DEF Held
  <2> QED BY <1>12, <2>2, <2>7 DEF LedgerMove, Returns
<1>13. ASSUME NEW p \in Requests, ReleaseLua(p)
       PROVE  LedgerMove
  <2>1. /\ proc[p].pc = "release_lua" /\ ReturnUnit /\ Goto(p, "mark_released")
        /\ UNCHANGED <<rows, orders>>
    BY <1>13, <1>a DEF ReleaseLua, At, ScriptFault
  <2>2. proc[p].res \in Res /\ p \in Finishers(proc[p].res) /\ p # proc[p].res
    BY <1>0, <2>1 DEF ArgsOK, Finishers
  <2>3. /\ proc'[p].pc = "mark_released" /\ proc'[p].res = proc[p].res
        /\ \A q \in Proc : q # p => proc'[q] = proc[q]
    BY <1>0, <2>1, GotoEffect
  <2> QED BY <1>12, <2>1, <2>2, <2>3
<1>14. ASSUME NEW r \in Res, ExpireLua(r)
       PROVE  LedgerMove
  <2>1. /\ proc[r].pc = "expire_lua" /\ ReturnUnit /\ Goto(r, "mark_expired")
        /\ UNCHANGED <<rows, orders>>
    BY <1>14, <1>a DEF ExpireLua, At, ScriptFault
  <2>2. r \in Finishers(r)
    BY <2>1 DEF Finishers
  <2>3. /\ proc'[r].pc = "mark_expired" /\ proc'[r].res = proc[r].res
        /\ \A q \in Proc : q # r => proc'[q] = proc[q]
    BY <1>0, <2>1, GotoEffect
  <2> QED BY <1>12, <2>1, <2>2, <2>3
<1>15. ASSUME NEW x \in Res, NEW p \in Proc, NEW s \in {"released", "expired"},
              \/ p \in Requests /\ proc[p].res = x /\ proc[p].pc = "mark_released"
              \/ p = x /\ proc[p].pc = "mark_expired",
              proc'[p].pc \in {"promote_lua", "done"},
              \A q \in Proc : q # p => proc'[q] = proc[q],
              UNCHANGED <<available, reserved, orders>>, rows' = [rows EXCEPT ![x] = s]
       PROVE  LedgerMove
  <2>1. InHand' = InHand /\ Checkout' = Checkout /\ Sold' = Sold
    BY <1>15 DEF InHand, Checkout, Sold
  <2>2. x \notin LiveRows /\ x \notin LiveRows'
    BY <1>0, <1>15 DEF LiveRows, GivenBack, TypeOK
  <2>3. \A y \in Res : y # x => (GivenBack(y)' <=> GivenBack(y))
    BY <1>15 DEF GivenBack
  <2>4. LiveRows' = LiveRows
    BY <1>0, <1>15, <2>2, <2>3 DEF LiveRows, TypeOK
  <2> QED BY <1>15, <1>b, <2>1, <2>4
<1>16. ASSUME NEW p \in Requests, MarkReleased(p)
       PROVE  LedgerMove
  <2>1. proc[p].pc = "mark_released" /\ proc[p].res \in Res
    BY <1>0, <1>16 DEF MarkReleased, At, ArgsOK
  <2>2. rows[proc[p].res] = "reserved"
    BY <2>1 DEF ChecksStillHold, Finishers
  <2>3. /\ rows' = [rows EXCEPT ![proc[p].res] = "released"] /\ Done(p)
        /\ UNCHANGED <<available, reserved, orders>>
    BY <1>16, <1>a, <2>2 DEF MarkReleased, StatusWritable
  <2>4. proc'[p].pc = "done" /\ \A q \in Proc : q # p => proc'[q] = proc[q]
    BY <1>0, <2>3, DoneEffect
  <2> QED BY <1>15, <2>1, <2>3, <2>4
<1>17. ASSUME NEW r \in Res, MarkExpired(r)
       PROVE  LedgerMove
  <2>1. proc[r].pc = "mark_expired"
    BY <1>17 DEF MarkExpired, At
  <2>2. rows[r] = "reserved"
    BY <2>1 DEF ChecksStillHold, Finishers
  <2>3. /\ rows' = [rows EXCEPT ![r] = "expired"]
        /\ UNCHANGED <<available, reserved, orders>>
    BY <1>17, <1>a, <2>2 DEF MarkExpired, StatusWritable
  <2>4. /\ proc'[r].pc \in {"promote_lua", "done"}
        /\ \A q \in Proc : q # r => proc'[q] = proc[q]
    BY <1>0, <1>17, ExpiryFlow DEF Keeps
  <2> QED BY <1>15, <2>1, <2>3, <2>4
<1>18. ASSUME NEW p \in Requests, ConfirmLua(p)
       PROVE  LedgerMove
  <2>1. proc[p].pc = "confirm_lua" /\ UNCHANGED <<rows, orders>>
    BY <1>18 DEF ConfirmLua, At
  <2>2. CASE SellUnit /\ Goto(p, "confirm_tx")
    <3>1. proc'[p].pc = "confirm_tx" /\ \A q \in Proc : q # p => proc'[q] = proc[q]
      BY <1>0, <2>2, GotoEffect
    <3>2. p \notin Checkout /\ Checkout' = Checkout \cup {p} /\ InHand' = InHand
      BY <2>1, <3>1 DEF Checkout, InHand
    <3>3. \A x \in Res : GivenBack(x)' <=> GivenBack(x)
      BY <2>1, <3>1 DEF GivenBack
    <3>4. LiveRows' = LiveRows /\ Sold' = Sold
      BY <2>1, <3>3 DEF LiveRows, Sold
    <3>5. Cardinality(Checkout') = Cardinality(Checkout) + 1
      BY <1>0, <3>2, Countable, FS_AddElement
    <3> QED BY <2>2, <3>2, <3>4, <3>5 DEF LedgerMove, SetsAside, Held
  <2>3. CASE Done(p) /\ UNCHANGED <<available, reserved>>
    BY <1>0, <1>c, <2>1, <2>3, DoneEffect DEF Booked
  <2> QED BY <1>18, <1>a, <2>2, <2>3 DEF ConfirmLua, ScriptFault
<1>19. ASSUME NEW p \in Requests, ConfirmTx(p)
       PROVE  LedgerMove
  <2> DEFINE x == proc[p].res
             k == proc[p].key
  <2>1. proc[p].pc = "confirm_tx" /\ x \in Res /\ k \in AllKeys
    BY <1>0, <1>19 DEF ConfirmTx, At, ArgsOK
  <2>2. p \in Finishers(x) /\ p \in Confirming
    BY <2>1 DEF Finishers, Confirming
  <2>3. orders[k] = None /\ x \in LiveRows
    BY <2>1, <2>2, LiveUntilFinished DEF ChecksStillHold
  <2>4. /\ CommitOrder(x, k) /\ Done(p) /\ UNCHANGED <<available, reserved>>
    BY <1>19, <1>a, <2>3 DEF ConfirmTx, KeyUnused
  <2>5. proc'[p].pc = "done" /\ \A q \in Proc : q # p => proc'[q] = proc[q]
    BY <1>0, <2>4, DoneEffect
  <2>6. InHand' = InHand /\ p \in Checkout /\ Checkout' = Checkout \ {p}
    BY <2>1, <2>5 DEF InHand, Checkout
  <2>7. k \notin Sold /\ Sold' = Sold \cup {k}
    BY <1>0, <2>1, <2>3, <2>4 DEF CommitOrder, Sold, TypeOK
  <2>8. \A y \in Res : GivenBack(y)' <=> GivenBack(y)
    BY <2>1, <2>5 DEF GivenBack
  <2>9. LiveRows' = LiveRows \ {x}
    BY <1>0, <2>1, <2>4, <2>8 DEF LiveRows, CommitOrder, TypeOK
  <2>10. /\ Cardinality(LiveRows') = Cardinality(LiveRows) - 1
         /\ Cardinality(LiveRows') \in Nat
    BY <2>3, <2>9, HeldCountable, FS_RemoveElement, FS_CardinalityType
  <2>11. Held' = Held - 1 /\ Held > 0
    BY <2>6, <2>10, HeldCountable DEF Held
  <2>12. /\ Cardinality(Sold') = Cardinality(Sold) + 1
         /\ Cardinality(Checkout') = Cardinality(Checkout) - 1
    BY <1>0, <2>6, <2>7, Countable, FS_AddElement, FS_RemoveElement
  <2> QED BY <2>4, <2>11, <2>12 DEF LedgerMove, Sells
<1>20. ASSUME NEW u \in Users, Join(u) \/ Leave(u)
       PROVE  LedgerMove
  BY <1>4, <1>20 DEF Join, Leave
<1>21. ASSUME NEW k \in Keys, IdemExpires(k)
       PROVE  LedgerMove
  BY <1>4, <1>21 DEF IdemExpires
<1>22. CASE UNCHANGED vars
  BY <1>4, <1>22 DEF vars
<1> QED
  BY <1>1, <1>2, <1>3, <1>6, <1>7, <1>9, <1>10, <1>11, <1>13, <1>14, <1>16, <1>17,
     <1>18, <1>19, <1>20, <1>21, <1>22
  DEF Next, RequestStep, ExpiryStep

\* At every instant, stock = available + held + sold, and the reserved
\* counter is the held units less those in checkout.
THEOREM LedgerIsExact == OrderlySpec => []LedgerExact
<1>1. Init => LedgerExact
  <2> SUFFICES ASSUME Init PROVE LedgerExact
    OBVIOUS
  <2>1. \A p \in Proc : proc[p].pc = "new"
    BY DEF Init, New, Local
  <2>2. InHand = {} /\ LiveRows = {} /\ Checkout = {} /\ Sold = {}
    BY <2>1 DEF Init, InHand, LiveRows, Checkout, Sold, Proc
  <2> QED BY <2>2, FS_EmptySet, StockAssumption DEF Init, LedgerExact, Held
<1>2. ASSUME IndInv, Orderly, Orderly', ChecksStillHold, LedgerExact, [OrderlyNext]_vars
      PROVE  LedgerExact'
  <2>1. LedgerMove
    BY <1>2, LedgerStep DEF OrderlyNext
  <2>2. /\ available \in Int /\ reserved \in Int /\ Held \in Nat
        /\ Cardinality(Sold) \in Nat /\ Cardinality(Checkout) \in Nat
    BY <1>2, HeldCountable, Countable DEF IndInv, TypeOK
  <2> QED
    BY <1>2, <2>1, <2>2, StockAssumption
    DEF LedgerExact, LedgerMove, Stays, Takes, Returns, SetsAside, Sells,
        TakeUnit, ReturnUnit, SellUnit
<1> QED BY <1>1, <1>2, ChecksHold, PTL DEF OrderlySpec

\* The sale implements the abstract ledger: each step takes a free unit,
\* gives one back, sells a held one or leaves the ledger alone.
THEOREM LedgerImplemented == OrderlySpec => ImplementsLedger
<1>1. Init => Ledger!Init
  <2> SUFFICES ASSUME Init PROVE Ledger!Init
    OBVIOUS
  <2>1. \A p \in Proc : proc[p].pc = "new"
    BY DEF Init, New, Local
  <2>2. InHand = {} /\ LiveRows = {} /\ Sold = {}
    BY <2>1 DEF Init, InHand, LiveRows, Sold, Proc
  <2> QED BY <2>2, FS_EmptySet DEF Init, Ledger!Init, Held
<1>2. ASSUME IndInv, Orderly, Orderly', ChecksStillHold, [OrderlyNext]_vars
      PROVE  [Ledger!Next]_<<available, Held, Cardinality(Sold)>>
  <2>1. LedgerMove
    BY <1>2, LedgerStep DEF OrderlyNext
  <2>2. CASE Stays \/ SetsAside
    BY <2>2 DEF Stays, SetsAside, SellUnit
  <2>3. CASE Takes
    BY <2>3 DEF Takes, TakeUnit, Ledger!Next, Ledger!Take
  <2>4. CASE Returns
    BY <2>4 DEF Returns, ReturnUnit, Ledger!Next, Ledger!GiveBack
  <2>5. CASE Sells
    BY <2>5 DEF Sells, Ledger!Next, Ledger!Buy
  <2> QED BY <2>1, <2>2, <2>3, <2>4, <2>5 DEF LedgerMove
<1> QED BY <1>1, <1>2, ChecksHold, PTL DEF OrderlySpec, ImplementsLedger, Ledger!Spec

\* confirm.lua never refuses a live reservation: every confirmation, in
\* checkout or about to enter it, has a live row of its own.
THEOREM NeverRefused == OrderlySpec => []ConfirmNotRefused
<1>1. ASSUME IndInv, Orderly, ChecksStillHold, LedgerExact
      PROVE  ConfirmNotRefused
  <2> SUFFICES ASSUME NEW p \in Requests, At(p, "confirm_lua")
               PROVE  reserved > 0
    BY DEF ConfirmNotRefused
  <2> DEFINE C == Checkout \cup {p}
             f == [q \in C |-> proc[q].res]
  <2>1. \A q \in C : /\ q \in Requests /\ proc[q].res \in Res
                    /\ q \in Finishers(proc[q].res)
                    /\ proc[q].pc \notin {"mark_released", "mark_expired"}
    BY <1>1 DEF Checkout, At, IndInv, ArgsOK, Finishers
  <2>2. f \in [C -> LiveRows]
    BY <1>1, <2>1, LiveUntilFinished
  <2>3. \A q, z \in C : f[q] = f[z] => q = z
    BY <1>1, <2>1, OneFinisher
  <2>4. /\ p \notin Checkout /\ IsFiniteSet(Checkout) /\ Cardinality(Checkout) \in Nat
        /\ IsFiniteSet(LiveRows) /\ Cardinality(LiveRows) \in Nat
        /\ Cardinality(InHand) \in Nat
    BY <1>1, Countable, HeldCountable DEF Checkout, At, IndInv
  <2>5. IsFiniteSet(C) /\ Cardinality(C) = Cardinality(Checkout) + 1
    BY <2>4, FS_AddElement
  <2>6. ~(Cardinality(LiveRows) < Cardinality(C))
    <3> HIDE DEF C, f
    <3> QED BY <2>2, <2>3, <2>4, <2>5, FS_PigeonHole
  <2> QED BY <1>1, <2>4, <2>5, <2>6 DEF LedgerExact, Held
<1> QED BY <1>1, ChecksHold, LedgerIsExact, PTL

-----------------------------------------------------------------------------
(* Reconcilers and crashes                                                 *)

\* The part of IndInv that survives a reconciler's writes and a crash.  The
\* bounds on the counters do not: a pass writes them from older counts (run
\* worker_oversell).
RInv == /\ RTypeOK /\ ArgsOK /\ FreshIds /\ RowsExist /\ OneExpiry
        /\ ConfirmedIffOrdered

RecState == [pc : RecSteps, held : Nat, sold : Nat, seen : Int]

\* The rows that the reconciler counts are finitely many.
LEMMA ActiveCountable == Cardinality(ActiveRows) \in Nat
<1>1. ActiveRows \subseteq Res
  BY DEF ActiveRows
<1> QED BY <1>1, FiniteAssumption, FS_Subset, FS_CardinalityType

\* A call of the reconciler touches the two counters and its own state.
LEMMA RecFrame ==
    ASSUME RecStep
    PROVE  UNCHANGED <<ttl, idem, waitlist, rows, orders, proc, known, owed,
                       lapsed, crashes>>
BY DEF RecStep, CountReserved, CountOrders, GetAvailable, GetReserved,
       SetAvailable, SetReserved, redisVars, pgVars

\* The types of what a call of the reconciler writes.
LEMMA RecTypes ==
    ASSUME RTypeOK, RecStep
    PROVE  /\ available' \in Int /\ reserved' \in Int /\ faults' \in 0..MaxFaults
           /\ rec' \in RecState /\ mode' \in {"serving", "starting"}
<1>0. /\ rec \in RecState /\ mode \in {"serving", "starting"}
      /\ available \in Int /\ reserved \in Int /\ faults \in 0..MaxFaults
  BY DEF RTypeOK, TypeOK, RecState
<1>1. Cardinality(ActiveRows) \in Nat /\ Cardinality(Sold) \in Nat
  BY ActiveCountable, Countable DEF RTypeOK
<1>2. RecIdle \in RecState /\ 0 \in Int
  BY DEF RecIdle, RecState, RecSteps
<1>3. UNCHANGED faults \/ Fault
  BY DEF RecStep, CountReserved, CountOrders, GetAvailable, GetReserved,
         SetAvailable, SetReserved
<1>4. faults' \in 0..MaxFaults
  BY <1>0, <1>3, FaultAssumption DEF Fault
<1>5. mode' \in {"serving", "starting"}
  BY <1>0 DEF RecStep, CountReserved, CountOrders, GetAvailable, GetReserved,
              SetAvailable, SetReserved, EndPass, Advance
<1>6. ExpectedAvailable \in Int /\ rec.held \in Int
  BY <1>0, StockAssumption DEF ExpectedAvailable, RecState
<1>7. available' \in Int /\ reserved' \in Int
  BY <1>0, <1>6 DEF RecStep, CountReserved, CountOrders, GetAvailable, GetReserved,
                    SetAvailable, SetReserved, redisVars
<1>8. /\ \A label \in RecSteps : [rec EXCEPT !.pc = label] \in RecState
      /\ \A label \in RecSteps, h \in Nat :
            /\ [rec EXCEPT !.pc = label, !.held = h] \in RecState
            /\ [rec EXCEPT !.pc = label, !.sold = h] \in RecState
      /\ \A label \in RecSteps, n \in Int : [rec EXCEPT !.pc = label, !.seen = n] \in RecState
  BY <1>0 DEF RecState
<1>9. rec' \in RecState
  <2>1. \/ rec' = RecIdle
        \/ \E label \in {"set_available", "set_reserved"} : rec' = [rec EXCEPT !.pc = label]
        \/ rec' = [rec EXCEPT !.pc = "count_orders", !.held = Cardinality(ActiveRows)]
        \/ rec' = [rec EXCEPT !.pc = "get_available", !.sold = Cardinality(Sold)]
        \/ rec' = [rec EXCEPT !.pc = "get_reserved", !.seen = available]
        \/ rec' = [rec EXCEPT !.pc = "get_reserved", !.seen = 0]
    BY Zenon DEF RecStep, CountReserved, CountOrders, GetAvailable, GetReserved,
                 SetAvailable, SetReserved, EndPass, Advance
  <2>2. /\ "count_orders" \in RecSteps /\ "get_available" \in RecSteps
        /\ "get_reserved" \in RecSteps /\ "set_available" \in RecSteps
        /\ "set_reserved" \in RecSteps
    BY Zenon DEF RecSteps
  <2>3. /\ [rec EXCEPT !.pc = "count_orders", !.held = Cardinality(ActiveRows)] \in RecState
        /\ [rec EXCEPT !.pc = "get_available", !.sold = Cardinality(Sold)] \in RecState
    BY <1>1, <1>8, <2>2, Zenon
  <2>4. /\ [rec EXCEPT !.pc = "get_reserved", !.seen = available] \in RecState
        /\ [rec EXCEPT !.pc = "get_reserved", !.seen = 0] \in RecState
    BY <1>0, <1>2, <1>8, <2>2, Zenon
  <2>5. \A label \in {"set_available", "set_reserved"} : [rec EXCEPT !.pc = label] \in RecState
    BY <1>8, <2>2, Zenon
  <2> QED BY <1>2, <2>1, <2>3, <2>4, <2>5, Zenon
<1> QED BY <1>4, <1>5, <1>7, <1>9

\* A crash ends every handler that has started, and nothing else.
LEMMA CrashFrame ==
    ASSUME RTypeOK, Crash
    PROVE  /\ UNCHANGED <<available, reserved, ttl, idem, waitlist, rows, orders,
                          known, owed, faults, lapsed>>
           /\ proc' \in [Proc -> LocalState]
           /\ \A p \in Proc : proc'[p] = IF proc[p].pc = "new" THEN New ELSE Finished
           /\ rec' = RecIdle /\ mode' = "starting" /\ crashes' \in 0..MaxCrashes
BY WorkerAssumption
   DEF Crash, At, redisVars, pgVars, RTypeOK, New, Finished, Local,
       LocalState, Steps, RequestSteps

\* Handlers, reconcilers, the clock and crashes keep the invariant.
LEMMA RInvStep ==
    ASSUME RInv, [RNext]_allVars
    PROVE  /\ RInv'
           /\ \A x \in Res : rows[x] = "confirmed" => rows'[x] = "confirmed"
<1> DEFINE Goal == /\ RInv'
                   /\ \A x \in Res : rows[x] = "confirmed" => rows'[x] = "confirmed"
<1>1. CASE Serve
  <2>1. TypeOK /\ ArgsOK /\ FreshIds /\ RowsExist /\ OneExpiry /\ ConfirmedIffOrdered
    BY DEF RInv, RTypeOK
  <2>2. [Next]_vars /\ UNCHANGED recVars
    BY <1>1 DEF Serve
  <2>3. TypeOK' /\ ArgsOK' /\ FreshIds' /\ RowsExist'
    BY <2>1, <2>2, TypeStep, FreshStep
  <2>4. OneExpiry'
    BY <2>1, <2>2, SingleExpiryStep
  <2>5. ConfirmedIffOrdered' /\ \A x \in Res : rows[x] = "confirmed" => rows'[x] = "confirmed"
    BY <2>1, <2>2, OrderStep
  <2>6. RTypeOK'
    BY <2>2, <2>3 DEF RInv, RTypeOK, recVars
  <2> QED BY <2>3, <2>4, <2>5, <2>6 DEF RInv
<1>2. CASE RecStep
  <2>1. /\ UNCHANGED <<ttl, idem, waitlist, rows, orders, proc, known, owed, lapsed, crashes>>
        /\ available' \in Int /\ reserved' \in Int /\ faults' \in 0..MaxFaults
        /\ rec' \in RecState /\ mode' \in {"serving", "starting"}
    BY <1>2, RecFrame, RecTypes DEF RInv
  <2>2. RTypeOK'
    BY <2>1 DEF RInv, RTypeOK, TypeOK, RecState
  <2>3. ArgsOK' /\ FreshIds' /\ RowsExist'
    BY <2>1 DEF RInv, ArgsOK, FreshIds, Inserting, RowsExist
  <2>4. OneExpiry' /\ ConfirmedIffOrdered'
    BY <2>1 DEF RInv, OneExpiry, Creating, At, ConfirmedIffOrdered
  <2> QED BY <2>1, <2>2, <2>3, <2>4 DEF RInv
<1>3. CASE Crash
  <2>1. /\ UNCHANGED <<available, reserved, ttl, idem, waitlist, rows, orders,
                       known, owed, faults, lapsed>>
        /\ proc' \in [Proc -> LocalState]
        /\ \A p \in Proc : proc'[p] = IF proc[p].pc = "new" THEN New ELSE Finished
        /\ rec' = RecIdle /\ mode' = "starting" /\ crashes' \in 0..MaxCrashes
    BY <1>3, CrashFrame DEF RInv
  <2>2. \A p \in Proc : /\ proc'[p].pc \in {"new", "done"}
                        /\ proc'[p].pc = "new" <=> proc[p].pc = "new"
    BY <2>1 DEF New, Finished, Local
  <2>3. RTypeOK'
    BY <2>1 DEF RInv, RTypeOK, TypeOK, LocalState, Steps, RecIdle, RecSteps
  <2>4. ArgsOK' /\ FreshIds' /\ RowsExist'
    BY <2>1, <2>2 DEF RInv, ArgsOK, FreshIds, Inserting, RowsExist, Proc,
       RequestSteps, ExpirySteps
  <2>5. OneExpiry' /\ ConfirmedIffOrdered'
    BY <2>1, <2>2 DEF RInv, RTypeOK, TypeOK, OneExpiry, Creating, At, Proc, ConfirmedIffOrdered
  <2> QED BY <2>1, <2>3, <2>4, <2>5 DEF RInv
<1>4. ASSUME NEW r \in Res, Lapse(r)
      PROVE  Goal
  <2>1. UNCHANGED vars /\ UNCHANGED <<rec, mode, crashes>> /\ lapsed' = lapsed \cup {r}
    BY <1>4 DEF Lapse
  <2>2. RTypeOK'
    BY <2>1 DEF RInv, RTypeOK, TypeOK, vars
  <2>3. ArgsOK' /\ FreshIds' /\ RowsExist'
    BY <2>1 DEF vars, RInv, ArgsOK, FreshIds, Inserting, RowsExist
  <2>4. OneExpiry' /\ ConfirmedIffOrdered' /\ UNCHANGED rows
    BY <2>1 DEF vars, RInv, OneExpiry, Creating, At, ConfirmedIffOrdered
  <2> QED BY <2>2, <2>3, <2>4 DEF RInv
<1>5. ASSUME NEW r \in Res, ExpiresUnheard(r)
      PROVE  Goal
  <2>1. /\ UNCHANGED <<available, reserved, idem, waitlist, rows, orders, known, owed,
                       faults, lapsed, rec, mode, crashes>>
        /\ r \in ttl /\ ttl' = ttl \ {r} /\ Done(r)
    BY <1>5 DEF ExpiresUnheard, pgVars, recVars
  <2>2. TypeOK /\ r \in Proc
    BY DEF RInv, RTypeOK, Proc
  <2>3. /\ proc' \in [Proc -> LocalState]
        /\ proc'[r].pc = "done" /\ proc'[r].res = None
        /\ \A q \in Proc : q # r => proc'[q] = proc[q]
    BY <2>1, <2>2, DoneEffect
  <2>4. RTypeOK'
    BY <2>1, <2>3 DEF RInv, RTypeOK, TypeOK, LocalState, Steps
  <2>5. ArgsOK'
    BY <2>3, DistinctAssumption DEF RInv, ArgsOK, Proc, ExpirySteps
  <2>6. RowsExist'
    BY <2>1, <2>3 DEF RInv, RowsExist, Proc
  <2>7. FreshIds'
    <3> SUFFICES ASSUME NEW p \in Proc, Inserting(p)'
                 PROVE  /\ rows'[proc'[p].res] = "none"
                        /\ \A q \in Proc : proc'[q].res = proc'[p].res => q = p
      BY DEF FreshIds, Inserting
    <3>1. p # r /\ proc'[p] = proc[p] /\ Inserting(p)
      BY <2>3 DEF Inserting
    <3>2. proc[p].res \in Res
      BY <3>1, DistinctAssumption DEF RInv, ArgsOK, Inserting, Proc, RequestSteps, ExpirySteps
    <3> QED BY <2>1, <2>3, <3>1, <3>2, DistinctAssumption DEF RInv, FreshIds
  <2>8. OneExpiry'
    <3>1. \A p \in Proc : Creating(p)' => /\ Creating(p) /\ proc'[p] = proc[p]
                                          /\ proc[p].res \in Res /\ proc[p].res # r
      BY <2>1, <2>3, CreatorHasId DEF RInv, OneExpiry, Creating
    <3>2. \A x \in ttl' : At(x, "new")'
      BY <2>1, <2>2, <2>3 DEF RInv, OneExpiry, At, TypeOK, Proc
    <3>3. \A x \in Res : ~At(x, "new")' => rows'[x] # "none"
      BY <2>1, <2>3 DEF RInv, OneExpiry, RowsExist, At, Proc
    <3>4. ASSUME NEW p \in Proc, Creating(p)'
          PROVE  /\ proc'[p].res \notin ttl' /\ proc'[proc'[p].res].pc = "new"
                 /\ \A q \in Proc : Creating(q)' /\ proc'[q].res = proc'[p].res => q = p
      BY <2>1, <2>3, <3>1, <3>4 DEF RInv, OneExpiry, At, Proc
    <3> QED BY <3>2, <3>3, <3>4 DEF OneExpiry, At
  <2>9. ConfirmedIffOrdered'
    BY <2>1 DEF RInv, ConfirmedIffOrdered
  <2> QED BY <2>1, <2>4, <2>5, <2>6, <2>7, <2>8, <2>9 DEF RInv
<1>6. CASE UNCHANGED allVars
  <2>1. UNCHANGED vars /\ UNCHANGED recVars
    BY <1>6 DEF allVars
  <2>2. RTypeOK'
    BY <2>1 DEF RInv, RTypeOK, TypeOK, vars, recVars
  <2>3. ArgsOK' /\ FreshIds' /\ RowsExist'
    BY <2>1 DEF vars, RInv, ArgsOK, FreshIds, Inserting, RowsExist
  <2>4. OneExpiry' /\ ConfirmedIffOrdered' /\ UNCHANGED rows
    BY <2>1 DEF vars, RInv, OneExpiry, Creating, At, ConfirmedIffOrdered
  <2> QED BY <2>2, <2>3, <2>4 DEF RInv
<1> QED BY <1>1, <1>2, <1>3, <1>4, <1>5, <1>6 DEF RNext

\* Types, ids, rows and orders stay consistent through every write of a
\* reconciler and every crash.
THEOREM ReconcilerInvariance == RSpec => []RInv
<1>1. RInit => RInv
  <2> SUFFICES ASSUME RInit PROVE RInv
    OBVIOUS
  <2> USE DEF RInit, Init
  <2>1. TypeOK
    BY StockAssumption, FaultAssumption
    DEF TypeOK, New, Local, Status, RequestSteps, ExpirySteps
  <2>2. RTypeOK
    BY <2>1, WorkerAssumption DEF RTypeOK, RecIdle, RecSteps
  <2>3. ArgsOK
    BY DEF ArgsOK, New, Local, Proc, RequestSteps, ExpirySteps
  <2>4. FreshIds /\ RowsExist /\ OneExpiry
    BY DEF FreshIds, Inserting, RowsExist, OneExpiry, Creating, At, New, Local, Proc
  <2>5. ConfirmedIffOrdered
    BY DistinctAssumption DEF ConfirmedIffOrdered
  <2> QED BY <2>2, <2>3, <2>4, <2>5 DEF RInv
<1>2. RInv /\ [RNext]_allVars => RInv'
  BY RInvStep
<1> QED BY <1>1, <1>2, PTL DEF RSpec

\* A crash between the two stores and a reconciler that runs beside the
\* handlers never separate a confirmed row from its order.
THEOREM ReconcilerKeepsOrders == RSpec => []ConfirmedIffOrdered
<1>1. RInv => ConfirmedIffOrdered
  BY DEF RInv
<1> QED BY <1>1, ReconcilerInvariance, PTL

\* Nor do they undo a confirmation.
THEOREM ReconcilerKeepsConfirmed == RSpec => ConfirmedIsFinal
<1>1. RInv /\ [RNext]_allVars
      => [\A r \in Res : rows[r] = "confirmed" => rows'[r] = "confirmed"]_vars
  BY RInvStep
<1> QED BY <1>1, ReconcilerInvariance, PTL DEF RSpec, ConfirmedIsFinal

\* What the startup pass has read so far is still so: no handler serves a
\* request before the pass has ended.
StartupReadsHold ==
    mode = "starting" /\ faults = 0 =>
        /\ rec.pc \notin {"idle", "count_orders"} => rec.sold = Cardinality(Sold)
        /\ rec.pc = "get_reserved" => rec.seen = available
        /\ rec.pc = "set_reserved" => available = ExpectedAvailable

\* Until the startup pass ends, what it has read stays true.
LEMMA StartupStep ==
    ASSUME RInv, StartupReadsHold, [RNext]_allVars
    PROVE  StartupReadsHold'
<1> SUFFICES ASSUME mode' = "starting", faults' = 0
             PROVE  /\ rec'.pc \notin {"idle", "count_orders"}
                       => rec'.sold = Cardinality(Sold)'
                    /\ rec'.pc = "get_reserved" => rec'.seen = available'
                    /\ rec'.pc = "set_reserved" => available' = ExpectedAvailable'
  BY DEF StartupReadsHold
<1> DEFINE Goal == /\ rec'.pc \notin {"idle", "count_orders"}
                      => rec'.sold = Cardinality(Sold)'
                   /\ rec'.pc = "get_reserved" => rec'.seen = available'
                   /\ rec'.pc = "set_reserved" => available' = ExpectedAvailable'
<1>1. CASE Serve
  BY <1>1 DEF Serve, recVars
<1>2. CASE Crash
  BY <1>2 DEF Crash, RecIdle
<1>3. CASE (\E r \in Res : Lapse(r) \/ ExpiresUnheard(r)) \/ UNCHANGED allVars
  <2>1. UNCHANGED <<rec, mode, faults, available, orders>>
    BY <1>3 DEF Lapse, ExpiresUnheard, allVars, vars, recVars, pgVars
  <2> QED BY <2>1 DEF StartupReadsHold, Sold, ExpectedAvailable
<1>4. CASE RecStep
  <2>1. rec \in RecState /\ faults \in 0..MaxFaults /\ UNCHANGED Sold
    BY <1>4, RecFrame DEF RInv, RTypeOK, TypeOK, RecState, Sold
  <2>2. ~Fault
    BY <2>1, FaultAssumption DEF Fault
  <2>3. ~EndPass
    BY DEF EndPass
  <2>4. UNCHANGED <<mode, faults>>
    BY <1>4, <2>2, <2>3
    DEF RecStep, CountReserved, CountOrders, GetAvailable, GetReserved,
        SetAvailable, SetReserved, Advance
  <2>5. /\ rec.pc \notin {"idle", "count_orders"} => rec.sold = Cardinality(Sold)
        /\ rec.pc = "get_reserved" => rec.seen = available
    BY <2>4 DEF StartupReadsHold
  <2>6. CASE CountReserved
    BY <2>1, <2>2, <2>6 DEF CountReserved, RecState, RecSteps
  <2>7. CASE CountOrders
    BY <2>1, <2>2, <2>7 DEF CountOrders, RecState, RecSteps
  <2>8. CASE GetAvailable
    BY <2>1, <2>2, <2>5, <2>8 DEF GetAvailable, redisVars, RecState, RecSteps
  <2>9. CASE GetReserved
    BY <2>1, <2>3, <2>5, <2>9 DEF GetReserved, Advance, RecState, RecSteps
  <2>10. CASE SetAvailable
    BY <2>1, <2>2, <2>5, <2>10
    DEF SetAvailable, Advance, ExpectedAvailable, RecState, RecSteps
  <2>11. CASE SetReserved
    BY <2>3, <2>11 DEF SetReserved
  <2> QED BY <1>4, <2>6, <2>7, <2>8, <2>9, <2>10, <2>11 DEF RecStep
<1> QED BY <1>1, <1>2, <1>3, <1>4 DEF RNext

\* A startup pass that met no failed call leaves counters that add up to
\* the stock that is not sold, whatever state the crash left behind.
THEOREM StartupConservesStock == RSpec => StartupConserves
<1>1. RInit => StartupReadsHold
  BY DEF RInit, StartupReadsHold
<1>2. RInv /\ StartupReadsHold /\ [RNext]_allVars => StartupReadsHold'
  BY StartupStep
<1>3. ASSUME RInv, StartupReadsHold, [RNext]_allVars,
             mode = "starting", mode' = "serving", faults' = 0
      PROVE  available' + reserved' + Cardinality(Sold) = TotalStock
  <2>1. RecStep
    BY <1>3 DEF RNext, Serve, Crash, Lapse, ExpiresUnheard, recVars, allVars
  <2>2. /\ rec \in RecState /\ faults \in 0..MaxFaults /\ Cardinality(Sold) \in Nat
        /\ available \in Int /\ reserved \in Int
    BY <1>3, Countable DEF RInv, RTypeOK, TypeOK, RecState
  <2>3. ~Fault
    BY <1>3, <2>2, FaultAssumption DEF Fault
  <2>4. GetReserved \/ SetReserved
    BY <1>3, <2>1, <2>3
    DEF RecStep, CountReserved, CountOrders, GetAvailable, SetAvailable, Advance
  <2>5. UNCHANGED faults
    BY <2>3, <2>4 DEF GetReserved, SetReserved
  <2>6. CASE GetReserved
    <3>1. rec.sold = Cardinality(Sold) /\ rec.seen = available
      BY <1>3, <2>5, <2>6 DEF GetReserved, StartupReadsHold
    <3>2. ~Drifted(reserved) /\ UNCHANGED <<available, reserved>>
      BY <1>3, <2>3, <2>6 DEF GetReserved, Advance, redisVars
    <3> QED BY <2>2, <3>1, <3>2, StockAssumption DEF Drifted, ExpectedAvailable, RecState
  <2>7. CASE SetReserved
    <3>1. rec.sold = Cardinality(Sold) /\ available = ExpectedAvailable
      BY <1>3, <2>5, <2>7 DEF SetReserved, StartupReadsHold
    <3>2. reserved' = rec.held /\ UNCHANGED available
      BY <2>3, <2>7 DEF SetReserved
    <3> QED BY <2>2, <3>1, <3>2, StockAssumption DEF ExpectedAvailable, RecState
  <2> QED BY <2>4, <2>6, <2>7
<1>4. RInv /\ StartupReadsHold /\ [RNext]_allVars
      => [mode = "starting" /\ mode' = "serving" /\ faults' = 0
          => available' + reserved' + Cardinality(Sold) = TotalStock]_allVars
  BY <1>3
<1> QED BY <1>1, <1>2, <1>4, ReconcilerInvariance, PTL DEF RSpec, StartupConserves
=============================================================================
