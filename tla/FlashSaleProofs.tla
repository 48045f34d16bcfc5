-------------------------- MODULE FlashSaleProofs --------------------------
(***************************************************************************)
(* Proofs about FlashSale, for any stock, any finite sets of requests,     *)
(* reservation ids and keys, any number of failed calls and either schema. *)
(* The inductive invariant is IndInv; each of its parts has a lemma that   *)
(* walks through the actions.                                              *)
(***************************************************************************)
EXTENDS FlashSale, FiniteSetTheorems, TLAPS

Steps == RequestSteps \cup ExpirySteps
LocalState == [pc : Steps, res : Res \cup {None},
               key : AllKeys \cup {None}, user : Users \cup {None}]

-----------------------------------------------------------------------------
(* What the three ways of updating proc do.                                *)

\* Goto changes nothing but the label of its process.
LEMMA GotoEffect ==
    ASSUME TypeOK, NEW p \in Proc, NEW l \in Steps, Goto(p, l)
    PROVE  /\ proc' \in [Proc -> LocalState]
           /\ proc'[p].pc = l
           /\ proc'[p].res = proc[p].res
           /\ proc'[p].key = proc[p].key
           /\ proc'[p].user = proc[p].user
           /\ \A q \in Proc : q # p => proc'[q] = proc[q]
BY DEF TypeOK, Goto, LocalState, Steps

\* Done clears the local state of its process.
LEMMA DoneEffect ==
    ASSUME TypeOK, NEW p \in Proc, Done(p)
    PROVE  /\ proc' \in [Proc -> LocalState]
           /\ proc'[p].pc = "done"
           /\ proc'[p].res = None
           /\ \A q \in Proc : q # p => proc'[q] = proc[q]
BY DEF TypeOK, Done, Finished, Local, LocalState, Steps, RequestSteps

\* The first step of a handler fills in its arguments.
LEMMA StartEffect ==
    ASSUME TypeOK, NEW p \in Proc, NEW l \in Steps, NEW r \in Res,
           NEW k \in AllKeys \cup {None}, NEW u \in Users \cup {None},
           Start(p, l, r, k, u)
    PROVE  /\ proc' \in [Proc -> LocalState]
           /\ proc'[p].pc = l
           /\ proc'[p].res = r
           /\ proc'[p].key = k
           /\ proc'[p].user = u
           /\ \A q \in Proc : q # p => proc'[q] = proc[q]
BY DEF TypeOK, Start, Local, LocalState, Steps


\* Process p keeps its arguments and moves to a label in L, or ends; no
\* other process moves.
Keeps(p, L) ==
    /\ proc' \in [Proc -> LocalState]
    /\ \A q \in Proc : q # p => proc'[q] = proc[q]
    /\ \/ proc'[p].pc = "done" /\ proc'[p].res = None
       \/ /\ proc'[p].pc \in L
          /\ proc'[p].res = proc[p].res
          /\ proc'[p].key = proc[p].key
          /\ proc'[p].user = proc[p].user

\* Goto, Done and waiting for a resent call are the three ways to keep.
LEMMA KeepsStep ==
    ASSUME TypeOK, NEW p \in Proc, NEW L \in SUBSET Steps,
           \/ \E l \in L : Goto(p, l)
           \/ Done(p)
           \/ UNCHANGED proc /\ proc[p].pc \in L
    PROVE  Keeps(p, L)
<1>1. CASE \E l \in L : Goto(p, l)
  BY <1>1, GotoEffect DEF Keeps
<1>2. CASE Done(p)
  BY <1>2, DoneEffect DEF Keeps
<1>3. CASE UNCHANGED proc /\ proc[p].pc \in L
  BY <1>3 DEF Keeps, TypeOK, LocalState, Steps
<1> QED BY <1>1, <1>2, <1>3

\* The control flow of the HTTP handlers.
LEMMA RequestFlow ==
    ASSUME TypeOK, NEW p \in Requests
    PROVE  /\ ReserveLua(p) => Keeps(p, {"reserve_lua", "insert"})
           /\ InsertReservation(p) => Keeps(p, {"set_ttl", "undo"})
           /\ SetTTL(p) => Keeps(p, {"set_idem"})
           /\ SetIdem(p) => Keeps(p, {})
           /\ ConfirmLua(p) => Keeps(p, {"confirm_lua", "confirm_tx"})
           /\ ConfirmTx(p) => Keeps(p, {"undo"})
           /\ ReleaseLua(p) => Keeps(p, {"release_lua", "mark_released"})
           /\ MarkReleased(p) => Keeps(p, {})
<1>1. ReserveLua(p) => Keeps(p, {"reserve_lua", "insert"})
  BY KeepsStep DEF ReserveLua, At, Proc, Steps, RequestSteps, ScriptFault
<1>2. InsertReservation(p) => Keeps(p, {"set_ttl", "undo"})
  BY KeepsStep DEF InsertReservation, At, Proc, Steps, RequestSteps
<1>3. SetTTL(p) => Keeps(p, {"set_idem"})
  BY KeepsStep DEF SetTTL, At, Proc, Steps, RequestSteps
<1>4. SetIdem(p) => Keeps(p, {})
  BY KeepsStep DEF SetIdem, At, Proc, Steps, RequestSteps
<1>5. ConfirmLua(p) => Keeps(p, {"confirm_lua", "confirm_tx"})
  BY KeepsStep DEF ConfirmLua, At, Proc, Steps, RequestSteps, ScriptFault
<1>6. ConfirmTx(p) => Keeps(p, {"undo"})
  BY KeepsStep DEF ConfirmTx, At, Proc, Steps, RequestSteps
<1>7. ReleaseLua(p) => Keeps(p, {"release_lua", "mark_released"})
  BY KeepsStep DEF ReleaseLua, At, Proc, Steps, RequestSteps, ScriptFault
<1>8. MarkReleased(p) => Keeps(p, {})
  BY KeepsStep DEF MarkReleased, At, Proc, Steps, RequestSteps
<1> QED BY <1>1, <1>2, <1>3, <1>4, <1>5, <1>6, <1>7, <1>8

\* The control flow of the expiry goroutines, and of the compensation that
\* they share with the handlers.
LEMMA ExpiryFlow ==
    ASSUME TypeOK, NEW r \in Res
    PROVE  /\ KeyExpires(r) => Keeps(r, {"notified"})
           /\ HandleExpired(r) => Keeps(r, {"expire_lua"})
           /\ ExpireLua(r) => Keeps(r, {"expire_lua", "mark_expired"})
           /\ MarkExpired(r) => Keeps(r, {"promote_lua"})
           /\ PromoteInsert(r) => Keeps(r, {"promote_ttl", "undo"})
           /\ PromoteTTL(r) => Keeps(r, {})
<1>1. KeyExpires(r) => Keeps(r, {"notified"})
  BY KeepsStep DEF KeyExpires, At, Proc, Steps, ExpirySteps
<1>2. HandleExpired(r) => Keeps(r, {"expire_lua"})
  BY KeepsStep DEF HandleExpired, At, Proc, Steps, ExpirySteps
<1>3. ExpireLua(r) => Keeps(r, {"expire_lua", "mark_expired"})
  BY KeepsStep DEF ExpireLua, At, Proc, Steps, ExpirySteps, ScriptFault
<1>4. MarkExpired(r) => Keeps(r, {"promote_lua"})
  BY KeepsStep DEF MarkExpired, At, Proc, Steps, ExpirySteps
<1>5. PromoteInsert(r) => Keeps(r, {"promote_ttl", "undo"})
  BY KeepsStep DEF PromoteInsert, At, Proc, Steps, ExpirySteps
<1>6. PromoteTTL(r) => Keeps(r, {})
  BY KeepsStep DEF PromoteTTL, At, Proc, Steps, ExpirySteps
<1> QED BY <1>1, <1>2, <1>3, <1>4, <1>5, <1>6

LEMMA UndoFlow ==
    ASSUME TypeOK, NEW p \in Proc, Undo(p)
    PROVE  Keeps(p, {"undo"})
BY KeepsStep DEF Undo, At, Steps, RequestSteps, ScriptFault

-----------------------------------------------------------------------------
(* Types and arguments                                                     *)

\* Every step keeps the types of the variables and the arguments of the
\* handlers.
LEMMA TypeStep ==
    ASSUME TypeOK, ArgsOK, [Next]_vars
    PROVE  TypeOK' /\ ArgsOK'
<1> USE DistinctAssumption, FaultAssumption
    DEF Proc, Steps, RequestSteps, ExpirySteps, redisVars, pgVars, Fault
<1>1. ASSUME NEW p \in Requests, NEW k \in AllKeys, NEW r \in Res, ReserveStart(p, k, r)
      PROVE  TypeOK' /\ ArgsOK'
  <2>1. /\ proc' \in [Proc -> LocalState]
        /\ proc'[p].pc = "reserve_lua" /\ proc'[p].res = r /\ proc'[p].key = k
        /\ \A q \in Proc : q # p => proc'[q] = proc[q]
    BY <1>1, StartEffect DEF ReserveStart
  <2>2. TypeOK'
    BY <1>1, <2>1 DEF ReserveStart, IdempotencyMiss, TypeOK, LocalState
  <2>3. ArgsOK'
    BY <2>1 DEF ArgsOK
  <2> QED BY <2>2, <2>3
<1>2. ASSUME NEW p \in Requests, NEW k \in AllKeys, NEW r \in Res, ConfirmStart(p, r, k)
      PROVE  TypeOK' /\ ArgsOK'
  <2>1. /\ proc' \in [Proc -> LocalState]
        /\ proc'[p].pc = "confirm_lua" /\ proc'[p].res = r /\ proc'[p].key = k
        /\ \A q \in Proc : q # p => proc'[q] = proc[q]
    BY <1>2, StartEffect DEF ConfirmStart
  <2>2. TypeOK'
    BY <1>2, <2>1 DEF ConfirmStart, OrderMiss, TypeOK, LocalState
  <2>3. ArgsOK'
    BY <2>1 DEF ArgsOK
  <2> QED BY <2>2, <2>3
<1>3. ASSUME NEW p \in Requests, NEW r \in Res, ReleaseStart(p, r)
      PROVE  TypeOK' /\ ArgsOK'
  <2>1. /\ proc' \in [Proc -> LocalState]
        /\ proc'[p].pc = "release_lua" /\ proc'[p].res = r /\ proc'[p].key = None
        /\ \A q \in Proc : q # p => proc'[q] = proc[q]
    BY <1>3, StartEffect DEF ReleaseStart
  <2>2. TypeOK'
    BY <1>3, <2>1 DEF ReleaseStart, TypeOK, LocalState
  <2>3. ArgsOK'
    BY <2>1 DEF ArgsOK
  <2> QED BY <2>2, <2>3
<1>4. ASSUME NEW p \in Requests, ReserveLua(p)
      PROVE  TypeOK' /\ ArgsOK'
  <2>1. Keeps(p, {"reserve_lua", "insert"})
    BY <1>4, RequestFlow
  <2>2. TypeOK'
    BY <1>4, <2>1 DEF ReserveLua, At, InStock, TakeUnit, ScriptFault, Keeps, LocalState, TypeOK, ArgsOK, Status
  <2>3. ArgsOK'
    BY <1>4, <2>1 DEF ReserveLua, At, Keeps, ArgsOK, AllKeys
  <2> QED BY <2>2, <2>3
<1>5. ASSUME NEW p \in Requests, InsertReservation(p)
      PROVE  TypeOK' /\ ArgsOK'
  <2>1. Keeps(p, {"set_ttl", "undo"})
    BY <1>5, RequestFlow
  <2>2. TypeOK'
    BY <1>5, <2>1 DEF InsertReservation, At, Keeps, LocalState, TypeOK, ArgsOK, Status
  <2>3. ArgsOK'
    BY <1>5, <2>1 DEF InsertReservation, At, Keeps, ArgsOK, AllKeys
  <2> QED BY <2>2, <2>3
<1>6. ASSUME NEW p \in Requests, SetTTL(p)
      PROVE  TypeOK' /\ ArgsOK'
  <2>1. Keeps(p, {"set_idem"})
    BY <1>6, RequestFlow
  <2>2. TypeOK'
    BY <1>6, <2>1 DEF SetTTL, At, Keeps, LocalState, TypeOK, ArgsOK, Status
  <2>3. proc'[p].pc # "done" => proc[p].key # NoKey
    BY <1>6, DoneEffect DEF SetTTL
  <2>4. ArgsOK'
    BY <1>6, <2>1, <2>3 DEF SetTTL, At, Keeps, ArgsOK, AllKeys
  <2> QED BY <2>2, <2>4
<1>7. ASSUME NEW p \in Requests, SetIdem(p)
      PROVE  TypeOK' /\ ArgsOK'
  <2>1. Keeps(p, {})
    BY <1>7, RequestFlow
  <2>2. TypeOK'
    BY <1>7, <2>1 DEF SetIdem, WriteIdempotency, At, Keeps, LocalState, TypeOK, ArgsOK, Status
  <2>3. ArgsOK'
    BY <1>7, <2>1 DEF SetIdem, At, Keeps, ArgsOK, AllKeys
  <2> QED BY <2>2, <2>3
<1>8. ASSUME NEW p \in Requests, ConfirmLua(p)
      PROVE  TypeOK' /\ ArgsOK'
  <2>1. Keeps(p, {"confirm_lua", "confirm_tx"})
    BY <1>8, RequestFlow
  <2>2. TypeOK'
    BY <1>8, <2>1 DEF ConfirmLua, At, SellUnit, ScriptFault, Keeps, LocalState, TypeOK, ArgsOK, Status
  <2>3. ArgsOK'
    BY <1>8, <2>1 DEF ConfirmLua, At, Keeps, ArgsOK, AllKeys
  <2> QED BY <2>2, <2>3
<1>9. ASSUME NEW p \in Requests, ConfirmTx(p)
      PROVE  TypeOK' /\ ArgsOK'
  <2>1. Keeps(p, {"undo"})
    BY <1>9, RequestFlow
  <2>2. TypeOK'
    BY <1>9, <2>1 DEF ConfirmTx, At, CommitOrder, Keeps, LocalState, TypeOK, ArgsOK, Status
  <2>3. ArgsOK'
    BY <1>9, <2>1 DEF ConfirmTx, At, Keeps, ArgsOK, AllKeys
  <2> QED BY <2>2, <2>3
<1>10. ASSUME NEW p \in Requests, ReleaseLua(p)
      PROVE  TypeOK' /\ ArgsOK'
  <2>1. Keeps(p, {"release_lua", "mark_released"})
    BY <1>10, RequestFlow
  <2>2. TypeOK'
    BY <1>10, <2>1 DEF ReleaseLua, At, ReturnUnit, ScriptFault, Keeps, LocalState, TypeOK, ArgsOK, Status
  <2>3. ArgsOK'
    BY <1>10, <2>1 DEF ReleaseLua, At, Keeps, ArgsOK, AllKeys
  <2> QED BY <2>2, <2>3
<1>11. ASSUME NEW p \in Requests, MarkReleased(p)
      PROVE  TypeOK' /\ ArgsOK'
  <2>1. Keeps(p, {})
    BY <1>11, RequestFlow
  <2>2. TypeOK'
    BY <1>11, <2>1 DEF MarkReleased, At, Keeps, LocalState, TypeOK, ArgsOK, Status
  <2>3. ArgsOK'
    BY <1>11, <2>1 DEF MarkReleased, At, Keeps, ArgsOK, AllKeys
  <2> QED BY <2>2, <2>3
<1>12. ASSUME NEW r \in Res, KeyExpires(r)
      PROVE  TypeOK' /\ ArgsOK'
  <2>1. Keeps(r, {"notified"})
    BY <1>12, ExpiryFlow
  <2>2. TypeOK'
    BY <1>12, <2>1 DEF KeyExpires, At, Keeps, LocalState, TypeOK, ArgsOK, Status
  <2>3. ArgsOK'
    BY <1>12, <2>1 DEF KeyExpires, At, Keeps, ArgsOK, AllKeys
  <2> QED BY <2>2, <2>3
<1>13. ASSUME NEW r \in Res, HandleExpired(r)
      PROVE  TypeOK' /\ ArgsOK'
  <2>1. Keeps(r, {"expire_lua"})
    BY <1>13, ExpiryFlow
  <2>2. TypeOK'
    BY <1>13, <2>1 DEF HandleExpired, At, Keeps, LocalState, TypeOK, ArgsOK, Status
  <2>3. ArgsOK'
    BY <1>13, <2>1 DEF HandleExpired, At, Keeps, ArgsOK, AllKeys
  <2> QED BY <2>2, <2>3
<1>14. ASSUME NEW r \in Res, ExpireLua(r)
      PROVE  TypeOK' /\ ArgsOK'
  <2>1. Keeps(r, {"expire_lua", "mark_expired"})
    BY <1>14, ExpiryFlow
  <2>2. TypeOK'
    BY <1>14, <2>1 DEF ExpireLua, At, ReturnUnit, ScriptFault, Keeps, LocalState, TypeOK, ArgsOK, Status
  <2>3. ArgsOK'
    BY <1>14, <2>1 DEF ExpireLua, At, Keeps, ArgsOK, AllKeys
  <2> QED BY <2>2, <2>3
<1>15. ASSUME NEW r \in Res, MarkExpired(r)
      PROVE  TypeOK' /\ ArgsOK'
  <2>1. Keeps(r, {"promote_lua"})
    BY <1>15, ExpiryFlow
  <2>2. TypeOK'
    BY <1>15, <2>1 DEF MarkExpired, At, Keeps, LocalState, TypeOK, ArgsOK, Status
  <2>3. ArgsOK'
    BY <1>15, <2>1 DEF MarkExpired, At, Keeps, ArgsOK, AllKeys
  <2> QED BY <2>2, <2>3
<1>16. ASSUME NEW r \in Res, PromoteInsert(r)
      PROVE  TypeOK' /\ ArgsOK'
  <2>1. Keeps(r, {"promote_ttl", "undo"})
    BY <1>16, ExpiryFlow
  <2>2. TypeOK'
    BY <1>16, <2>1 DEF PromoteInsert, At, Keeps, LocalState, TypeOK, ArgsOK, Status
  <2>3. ArgsOK'
    BY <1>16, <2>1 DEF PromoteInsert, At, Keeps, ArgsOK, AllKeys
  <2> QED BY <2>2, <2>3
<1>17. ASSUME NEW r \in Res, PromoteTTL(r)
      PROVE  TypeOK' /\ ArgsOK'
  <2>1. Keeps(r, {})
    BY <1>17, ExpiryFlow
  <2>2. TypeOK'
    BY <1>17, <2>1 DEF PromoteTTL, At, Keeps, LocalState, TypeOK, ArgsOK, Status
  <2>3. ArgsOK'
    BY <1>17, <2>1 DEF PromoteTTL, At, Keeps, ArgsOK, AllKeys
  <2> QED BY <2>2, <2>3
<1>18. ASSUME NEW p \in Proc, Undo(p)
      PROVE  TypeOK' /\ ArgsOK'
  <2>1. Keeps(p, {"undo"})
    BY <1>18, UndoFlow
  <2>2. TypeOK'
    BY <1>18, <2>1 DEF Undo, At, ReturnUnit, ScriptFault, Keeps, LocalState, TypeOK, ArgsOK, Status
  <2>3. ArgsOK'
    BY <1>18, <2>1 DEF Undo, At, Keeps, ArgsOK, AllKeys
  <2> QED BY <2>2, <2>3
<1>19. ASSUME NEW r \in Res, PromoteLua(r)
      PROVE  TypeOK' /\ ArgsOK'
  <2>1. CASE Keeps(r, {"promote_lua"}) /\ waitlist' \subseteq waitlist
    <3>1. TypeOK'
      BY <1>19, <2>1 DEF PromoteLua, TakeUnit, Keeps, LocalState, TypeOK
    <3>2. ArgsOK'
      BY <2>1 DEF Keeps, ArgsOK
    <3> QED BY <3>1, <3>2
  <2>2. CASE \E u \in waitlist, m \in Res :
               /\ waitlist' = waitlist \ {u} /\ TakeUnit /\ UNCHANGED faults
               /\ Start(r, "promote_insert", m, None, u)
    <3>1. PICK u \in waitlist, m \in Res :
               /\ waitlist' = waitlist \ {u} /\ TakeUnit /\ UNCHANGED faults
               /\ Start(r, "promote_insert", m, None, u)
      BY <2>2
    <3>2. u \in Users
      BY DEF TypeOK
    <3>3. /\ proc' \in [Proc -> LocalState]
          /\ proc'[r].pc = "promote_insert" /\ proc'[r].res = m /\ proc'[r].user = u
          /\ \A q \in Proc : q # r => proc'[q] = proc[q]
      BY <3>1, <3>2, StartEffect
    <3>4. TypeOK'
      BY <1>19, <3>1, <3>3 DEF PromoteLua, TakeUnit, LocalState, TypeOK
    <3>5. ArgsOK'
      BY <3>2, <3>3 DEF ArgsOK
    <3> QED BY <3>4, <3>5
  <2> QED
    BY <1>19, <2>1, <2>2, KeepsStep DEF PromoteLua, At
<1>20. ASSUME NEW u \in Users, Join(u) \/ Leave(u)
      PROVE  TypeOK' /\ ArgsOK'
  BY <1>20 DEF Join, Leave, TypeOK, ArgsOK
<1>21. ASSUME NEW k \in Keys, IdemExpires(k)
      PROVE  TypeOK' /\ ArgsOK'
  BY <1>21 DEF IdemExpires, pgVars, TypeOK, ArgsOK
<1>22. CASE UNCHANGED vars
  BY <1>22 DEF vars, TypeOK, ArgsOK
<1> QED
  BY <1>1, <1>2, <1>3, <1>4, <1>5, <1>6, <1>7, <1>8, <1>9, <1>10, <1>11, <1>12, <1>13, <1>14, <1>15, <1>16, <1>17, <1>18, <1>19, <1>20, <1>21, <1>22
  DEF Next, Arrive, RequestStep, ExpiryStep

-----------------------------------------------------------------------------
(* Reservation ids                                                         *)

\* A step that keeps its process's arguments, and changes at most the row
\* that process owns or a row that exists, leaves fresh ids fresh.
LEMMA FreshKept ==
    ASSUME TypeOK, ArgsOK, FreshIds, ArgsOK',
           NEW p \in Proc, NEW L \in SUBSET Steps, Keeps(p, L),
           \A l \in L : l \in {"reserve_lua", "insert", "promote_insert"}
                        => Inserting(p) /\ UNCHANGED rows,
           \A r \in Res : \/ rows'[r] = rows[r]
                          \/ r = proc[p].res
                          \/ rows[r] # "none"
    PROVE  FreshIds'
<1> USE DistinctAssumption DEF Proc
<1>1. ASSUME NEW q \in Proc, Inserting(q)
      PROVE  proc[q].res \in Res
  BY <1>1 DEF Inserting, ArgsOK, RequestSteps, ExpirySteps
<1> SUFFICES ASSUME NEW q \in Proc, Inserting(q)'
             PROVE  /\ rows'[proc'[q].res] = "none"
                    /\ \A x \in Proc : proc'[x].res = proc'[q].res => x = q
  BY DEF FreshIds, Inserting
<1>2. CASE q = p
  <2>1. /\ Inserting(p) /\ UNCHANGED rows /\ proc'[p].res = proc[p].res
    BY <1>2 DEF Inserting, Keeps
  <2> QED BY <1>2, <2>1 DEF FreshIds, Keeps
<1>3. CASE q # p
  <2>1. Inserting(q) /\ proc'[q].res = proc[q].res /\ proc[q].res \in Res
    BY <1>1, <1>3 DEF Inserting, Keeps
  <2>2. rows[proc[q].res] = "none" /\ proc[p].res # proc[q].res
    BY <1>3, <2>1 DEF FreshIds
  <2>3. \A x \in Proc : proc'[x].res = proc[q].res => x = q
    BY <2>1, <2>2 DEF FreshIds, Keeps
  <2> QED BY <2>1, <2>2, <2>3
<1> QED BY <1>2, <1>3

\* A process that starts with an id of its own, or with the id of a row
\* that exists, leaves fresh ids fresh.
LEMMA FreshStarted ==
    ASSUME TypeOK, ArgsOK, FreshIds, UNCHANGED rows,
           NEW p \in Proc, NEW r \in Res, ~Inserting(p),
           proc'[p].res = r,
           \A q \in Proc : q # p => proc'[q] = proc[q],
           \/ Fresh(r)
           \/ rows[r] # "none" /\ ~Inserting(p)'
    PROVE  FreshIds'
<1> SUFFICES ASSUME NEW q \in Proc, Inserting(q)'
             PROVE  /\ rows[proc'[q].res] = "none"
                    /\ \A x \in Proc : proc'[x].res = proc'[q].res => x = q
  BY DEF FreshIds, Inserting
<1>1. CASE q = p
  BY <1>1 DEF Fresh
<1>2. CASE q # p
  <2>1. Inserting(q) /\ proc'[q].res = proc[q].res
    BY <1>2 DEF Inserting
  <2> QED BY <1>2, <2>1 DEF FreshIds, Fresh
<1> QED BY <1>1, <1>2

\* Every step keeps fresh ids fresh and expiry goroutines tied to a row.
LEMMA FreshStep ==
    ASSUME TypeOK, ArgsOK, FreshIds, RowsExist, [Next]_vars
    PROVE  FreshIds' /\ RowsExist'
<1> USE DistinctAssumption DEF Proc, Steps, RequestSteps, ExpirySteps,
        redisVars, pgVars
<1>0. TypeOK' /\ ArgsOK'
  BY TypeStep
<1>1. ASSUME NEW p \in Requests, NEW k \in AllKeys, NEW r \in Res, ReserveStart(p, k, r)
      PROVE  FreshIds' /\ RowsExist'
  <2>1. /\ proc'[p].pc = "reserve_lua" /\ proc'[p].res = r
        /\ \A q \in Proc : q # p => proc'[q] = proc[q]
    BY <1>1, StartEffect DEF ReserveStart
  <2>2. FreshIds'
    BY <1>1, <2>1, FreshStarted DEF ReserveStart, At, Inserting, HasReservedStatus
  <2>3. RowsExist'
    BY <1>1, <2>1 DEF ReserveStart, RowsExist
  <2> QED BY <2>2, <2>3
<1>2. ASSUME NEW p \in Requests, NEW k \in AllKeys, NEW r \in Res, ConfirmStart(p, r, k)
      PROVE  FreshIds' /\ RowsExist'
  <2>1. /\ proc'[p].pc = "confirm_lua" /\ proc'[p].res = r
        /\ \A q \in Proc : q # p => proc'[q] = proc[q]
    BY <1>2, StartEffect DEF ConfirmStart
  <2>2. FreshIds'
    BY <1>2, <2>1, FreshStarted DEF ConfirmStart, At, Inserting, HasReservedStatus
  <2>3. RowsExist'
    BY <1>2, <2>1 DEF ConfirmStart, RowsExist
  <2> QED BY <2>2, <2>3
<1>3. ASSUME NEW p \in Requests, NEW r \in Res, ReleaseStart(p, r)
      PROVE  FreshIds' /\ RowsExist'
  <2>1. /\ proc'[p].pc = "release_lua" /\ proc'[p].res = r
        /\ \A q \in Proc : q # p => proc'[q] = proc[q]
    BY <1>3, StartEffect DEF ReleaseStart
  <2>2. FreshIds'
    BY <1>3, <2>1, FreshStarted DEF ReleaseStart, At, Inserting, HasReservedStatus
  <2>3. RowsExist'
    BY <1>3, <2>1 DEF ReleaseStart, RowsExist
  <2> QED BY <2>2, <2>3
<1>4. ASSUME NEW p \in Requests, ReserveLua(p)
      PROVE  FreshIds' /\ RowsExist'
  <2>1. Keeps(p, {"reserve_lua", "insert"})
    BY <1>4, RequestFlow
  <2>2. FreshIds'
    BY <1>0, <1>4, <2>1, FreshKept DEF ReserveLua, At, Inserting
  <2>3. RowsExist'
    BY <1>4, <2>1 DEF ReserveLua, At, Keeps, RowsExist, TypeOK, ArgsOK
  <2> QED BY <2>2, <2>3
<1>5. ASSUME NEW p \in Requests, InsertReservation(p)
      PROVE  FreshIds' /\ RowsExist'
  <2>1. Keeps(p, {"set_ttl", "undo"})
    BY <1>5, RequestFlow
  <2>2. FreshIds'
    BY <1>0, <1>5, <2>1, FreshKept DEF InsertReservation, At, Inserting, TypeOK
  <2>3. proc[p].res \in Res
    BY <1>5, <2>1 DEF InsertReservation, At, Keeps, ArgsOK
  <2>4. proc'[p].pc = "set_ttl" => rows'[proc[p].res] = "reserved"
    BY <1>5, <2>3, GotoEffect DEF InsertReservation, TypeOK
  <2>5. \A x \in Res : rows[x] # "none" => rows'[x] # "none"
    BY <1>5 DEF InsertReservation, TypeOK
  <2>6. \A q \in Proc : proc[q].pc \in {"set_ttl", "promote_ttl"} => proc[q].res \in Res
    BY DEF ArgsOK
  <2>7. RowsExist'
    BY <1>5, <2>1, <2>3, <2>4, <2>5, <2>6 DEF InsertReservation, At, Keeps, RowsExist, TypeOK
  <2> QED BY <2>2, <2>7
<1>6. ASSUME NEW p \in Requests, SetTTL(p)
      PROVE  FreshIds' /\ RowsExist'
  <2>1. Keeps(p, {"set_idem"})
    BY <1>6, RequestFlow
  <2>2. FreshIds'
    BY <1>0, <1>6, <2>1, FreshKept DEF SetTTL, At, Inserting
  <2>3. RowsExist'
    BY <1>6, <2>1 DEF SetTTL, At, Keeps, RowsExist, TypeOK, ArgsOK
  <2> QED BY <2>2, <2>3
<1>7. ASSUME NEW p \in Requests, SetIdem(p)
      PROVE  FreshIds' /\ RowsExist'
  <2>1. Keeps(p, {})
    BY <1>7, RequestFlow
  <2>2. FreshIds'
    BY <1>0, <1>7, <2>1, FreshKept DEF SetIdem, At, Inserting
  <2>3. RowsExist'
    BY <1>7, <2>1 DEF SetIdem, At, Keeps, RowsExist, TypeOK, ArgsOK
  <2> QED BY <2>2, <2>3
<1>8. ASSUME NEW p \in Requests, ConfirmLua(p)
      PROVE  FreshIds' /\ RowsExist'
  <2>1. Keeps(p, {"confirm_lua", "confirm_tx"})
    BY <1>8, RequestFlow
  <2>2. FreshIds'
    BY <1>0, <1>8, <2>1, FreshKept DEF ConfirmLua, At, Inserting
  <2>3. RowsExist'
    BY <1>8, <2>1 DEF ConfirmLua, At, Keeps, RowsExist, TypeOK, ArgsOK
  <2> QED BY <2>2, <2>3
<1>9. ASSUME NEW p \in Requests, ConfirmTx(p)
      PROVE  FreshIds' /\ RowsExist'
  <2>1. Keeps(p, {"undo"})
    BY <1>9, RequestFlow
  <2>2. FreshIds'
    BY <1>0, <1>9, <2>1, FreshKept DEF ConfirmTx, At, Inserting, TypeOK, CommitOrder
  <2>3. RowsExist'
    BY <1>9, <2>1 DEF ConfirmTx, At, Keeps, RowsExist, TypeOK, ArgsOK, CommitOrder
  <2> QED BY <2>2, <2>3
<1>10. ASSUME NEW p \in Requests, ReleaseLua(p)
      PROVE  FreshIds' /\ RowsExist'
  <2>1. Keeps(p, {"release_lua", "mark_released"})
    BY <1>10, RequestFlow
  <2>2. FreshIds'
    BY <1>0, <1>10, <2>1, FreshKept DEF ReleaseLua, At, Inserting
  <2>3. RowsExist'
    BY <1>10, <2>1 DEF ReleaseLua, At, Keeps, RowsExist, TypeOK, ArgsOK
  <2> QED BY <2>2, <2>3
<1>11. ASSUME NEW p \in Requests, MarkReleased(p)
      PROVE  FreshIds' /\ RowsExist'
  <2>1. Keeps(p, {})
    BY <1>11, RequestFlow
  <2>2. FreshIds'
    BY <1>0, <1>11, <2>1, FreshKept DEF MarkReleased, At, Inserting, TypeOK
  <2>3. RowsExist'
    BY <1>11, <2>1 DEF MarkReleased, At, Keeps, RowsExist, TypeOK, ArgsOK
  <2> QED BY <2>2, <2>3
<1>12. ASSUME NEW r \in Res, KeyExpires(r)
      PROVE  FreshIds' /\ RowsExist'
  <2>1. Keeps(r, {"notified"})
    BY <1>12, ExpiryFlow
  <2>2. FreshIds'
    BY <1>0, <1>12, <2>1, FreshKept DEF KeyExpires, At, Inserting
  <2>3. RowsExist'
    BY <1>12, <2>1 DEF KeyExpires, At, Keeps, RowsExist, TypeOK, ArgsOK
  <2> QED BY <2>2, <2>3
<1>13. ASSUME NEW r \in Res, HandleExpired(r)
      PROVE  FreshIds' /\ RowsExist'
  <2>1. Keeps(r, {"expire_lua"})
    BY <1>13, ExpiryFlow
  <2>2. FreshIds'
    BY <1>0, <1>13, <2>1, FreshKept DEF HandleExpired, At, Inserting
  <2>3. RowsExist'
    BY <1>13, <2>1 DEF HandleExpired, At, Keeps, RowsExist, TypeOK, ArgsOK
  <2> QED BY <2>2, <2>3
<1>14. ASSUME NEW r \in Res, ExpireLua(r)
      PROVE  FreshIds' /\ RowsExist'
  <2>1. Keeps(r, {"expire_lua", "mark_expired"})
    BY <1>14, ExpiryFlow
  <2>2. FreshIds'
    BY <1>0, <1>14, <2>1, FreshKept DEF ExpireLua, At, Inserting
  <2>3. RowsExist'
    BY <1>14, <2>1 DEF ExpireLua, At, Keeps, RowsExist, TypeOK, ArgsOK
  <2> QED BY <2>2, <2>3
<1>15. ASSUME NEW r \in Res, MarkExpired(r)
      PROVE  FreshIds' /\ RowsExist'
  <2>1. Keeps(r, {"promote_lua"})
    BY <1>15, ExpiryFlow
  <2>2. FreshIds'
    BY <1>0, <1>15, <2>1, FreshKept DEF MarkExpired, At, Inserting, TypeOK, RowsExist
  <2>3. RowsExist'
    BY <1>15, <2>1 DEF MarkExpired, At, Keeps, RowsExist, TypeOK, ArgsOK
  <2> QED BY <2>2, <2>3
<1>16. ASSUME NEW r \in Res, PromoteInsert(r)
      PROVE  FreshIds' /\ RowsExist'
  <2>1. Keeps(r, {"promote_ttl", "undo"})
    BY <1>16, ExpiryFlow
  <2>2. FreshIds'
    <3>1. \A x \in Res : rows'[x] = rows[x] \/ x = proc[r].res
      BY <1>16 DEF PromoteInsert, TypeOK
    <3> QED BY <1>0, <2>1, <3>1, FreshKept
  <2>3. proc[r].res \in Res
    BY <1>16, <2>1 DEF PromoteInsert, At, Keeps, ArgsOK
  <2>4. proc'[r].pc = "promote_ttl" => rows'[proc[r].res] = "reserved"
    BY <1>16, <2>3, GotoEffect DEF PromoteInsert, TypeOK
  <2>5. \A x \in Res : rows[x] # "none" => rows'[x] # "none"
    BY <1>16 DEF PromoteInsert, TypeOK
  <2>6. \A q \in Proc : proc[q].pc \in {"set_ttl", "promote_ttl"} => proc[q].res \in Res
    BY DEF ArgsOK
  <2>7. RowsExist'
    BY <1>16, <2>1, <2>3, <2>4, <2>5, <2>6 DEF PromoteInsert, At, Keeps, RowsExist, TypeOK
  <2> QED BY <2>2, <2>7
<1>17. ASSUME NEW r \in Res, PromoteTTL(r)
      PROVE  FreshIds' /\ RowsExist'
  <2>1. Keeps(r, {})
    BY <1>17, ExpiryFlow
  <2>2. FreshIds'
    BY <1>0, <1>17, <2>1, FreshKept DEF PromoteTTL, At, Inserting
  <2>3. RowsExist'
    BY <1>17, <2>1 DEF PromoteTTL, At, Keeps, RowsExist, TypeOK, ArgsOK
  <2> QED BY <2>2, <2>3
<1>18. ASSUME NEW p \in Proc, Undo(p)
      PROVE  FreshIds' /\ RowsExist'
  <2>1. Keeps(p, {"undo"})
    BY <1>18, UndoFlow
  <2>2. FreshIds'
    BY <1>0, <1>18, <2>1, FreshKept DEF Undo, At, Inserting
  <2>3. RowsExist'
    BY <1>18, <2>1 DEF Undo, At, Keeps, RowsExist, TypeOK, ArgsOK
  <2> QED BY <2>2, <2>3
<1>19. ASSUME NEW r \in Res, PromoteLua(r)
      PROVE  FreshIds' /\ RowsExist'
  <2>1. CASE Keeps(r, {"promote_lua"})
    <3>1. FreshIds'
      BY <1>0, <1>19, <2>1, FreshKept DEF PromoteLua
    <3>2. RowsExist'
      BY <1>19, <2>1 DEF PromoteLua, At, Keeps, RowsExist
    <3> QED BY <3>1, <3>2
  <2>2. CASE \E u \in waitlist, m \in Res :
               Fresh(m) /\ Start(r, "promote_insert", m, None, u)
    <3>1. PICK u \in waitlist, m \in Res :
               Fresh(m) /\ Start(r, "promote_insert", m, None, u)
      BY <2>2
    <3>2. /\ proc'[r].pc = "promote_insert" /\ proc'[r].res = m
          /\ \A q \in Proc : q # r => proc'[q] = proc[q]
      BY <3>1, StartEffect DEF TypeOK
    <3>3. FreshIds'
      BY <1>19, <3>1, <3>2, FreshStarted DEF PromoteLua, At, Inserting
    <3>4. RowsExist'
      BY <1>19, <3>2 DEF PromoteLua, At, RowsExist
    <3> QED BY <3>3, <3>4
  <2> QED
    BY <1>19, <2>1, <2>2, KeepsStep DEF PromoteLua, At
<1>20. ASSUME NEW u \in Users, Join(u) \/ Leave(u)
      PROVE  FreshIds' /\ RowsExist'
  BY <1>20 DEF Join, Leave, FreshIds, Inserting, RowsExist
<1>21. ASSUME NEW k \in Keys, IdemExpires(k)
      PROVE  FreshIds' /\ RowsExist'
  BY <1>21 DEF IdemExpires, pgVars, FreshIds, Inserting, RowsExist
<1>22. CASE UNCHANGED vars
  BY <1>22 DEF vars, FreshIds, Inserting, RowsExist
<1> QED
  BY <1>1, <1>2, <1>3, <1>4, <1>5, <1>6, <1>7, <1>8, <1>9, <1>10, <1>11, <1>12, <1>13, <1>14, <1>15, <1>16, <1>17, <1>18, <1>19, <1>20, <1>21, <1>22
  DEF Next, Arrive, RequestStep, ExpiryStep

-----------------------------------------------------------------------------
(* TTL keys and expiry goroutines                                          *)

\* A handler on its way to set a TTL key knows the reservation.
LEMMA CreatorHasId ==
    ASSUME ArgsOK, NEW p \in Proc, Creating(p)
    PROVE  proc[p].res \in Res
BY DEF ArgsOK, Creating, Proc, RequestSteps, ExpirySteps

\* A step of a running process that starts no reservation and leaves the
\* TTL keys and the existing rows in place.
LEMMA ExpiryKept ==
    ASSUME TypeOK, ArgsOK, OneExpiry, NEW p \in Proc,
           NEW L \in SUBSET Steps, Keeps(p, L), "new" \notin L, ~At(p, "new"),
           (\E l \in L : l \in {"reserve_lua", "insert", "set_ttl",
                               "promote_insert", "promote_ttl"}) => Creating(p),
           UNCHANGED ttl,
           \A r \in Res : rows[r] # "none" => rows'[r] # "none"
    PROVE  OneExpiry'
<1> USE DEF At
<1>1. proc'[p].pc # "new" /\ \A q \in Proc : q # p => proc'[q] = proc[q]
  BY DEF Keeps
<1>2. \A r \in Res : At(r, "new")' <=> At(r, "new")
  BY <1>1 DEF Proc
<1>3. \A q \in Proc : Creating(q)' => Creating(q) /\ proc'[q].res = proc[q].res
  BY <1>1 DEF Keeps, Creating
<1>4. \A q \in Proc : Creating(q) => proc[q].res \in Res
  BY CreatorHasId
<1>5. \A r \in ttl' : At(r, "new")'
  BY <1>2 DEF OneExpiry, TypeOK
<1>6. \A r \in Res : ~At(r, "new")' => rows'[r] # "none"
  BY <1>2 DEF OneExpiry
<1>7. ASSUME NEW q \in Proc, Creating(q)'
      PROVE  /\ proc'[q].res \notin ttl' /\ proc'[proc'[q].res].pc = "new"
             /\ \A x \in Proc : Creating(x)' /\ proc'[x].res = proc'[q].res => x = q
  <2>1. Creating(q) /\ proc'[q].res = proc[q].res /\ proc[q].res \in Res
    BY <1>3, <1>4, <1>7
  <2>2. At(proc[q].res, "new")'
    BY <1>2, <2>1 DEF OneExpiry
  <2> QED BY <1>3, <2>1, <2>2 DEF OneExpiry
<1> QED BY <1>5, <1>6, <1>7 DEF OneExpiry

\* A process that starts with a fresh id, or starts to finish an existing
\* reservation.
LEMMA ExpiryStarted ==
    ASSUME TypeOK, ArgsOK, RowsExist, OneExpiry, UNCHANGED <<ttl, rows>>,
           NEW p \in Proc, NEW r \in Res,
           p \in Requests \/ ~At(p, "new"), ~At(p, "new")',
           proc'[p].res = r, \A q \in Proc : q # p => proc'[q] = proc[q],
           Fresh(r) \/ ~Creating(p)'
    PROVE  OneExpiry'
<1> USE DEF At
<1>1. \A x \in Res : At(x, "new")' <=> At(x, "new")
  BY DistinctAssumption DEF Proc
<1>2. \A q \in Proc : q # p /\ Creating(q)' => Creating(q) /\ proc'[q].res = proc[q].res
  BY DEF Creating
<1>3. \A q \in Proc : Creating(q) => proc[q].res \in Res
  BY CreatorHasId
<1>4. \A x \in ttl' : At(x, "new")'
  BY <1>1 DEF OneExpiry, TypeOK
<1>5. \A x \in Res : ~At(x, "new")' => rows'[x] # "none"
  BY <1>1 DEF OneExpiry
<1>6. ASSUME NEW q \in Proc, Creating(q)'
      PROVE  /\ proc'[q].res \notin ttl' /\ proc'[proc'[q].res].pc = "new"
             /\ \A x \in Proc : Creating(x)' /\ proc'[x].res = proc'[q].res => x = q
  <2>1. CASE q = p
    <3>1. Fresh(r) /\ rows[r] = "none"
      BY <1>6, <2>1 DEF Fresh
    <3>2. r \notin ttl /\ At(r, "new")
      BY <3>1 DEF RowsExist, OneExpiry
    <3>3. \A x \in Proc : x # p => proc'[x].res # r
      BY <3>1 DEF Fresh
    <3> QED BY <1>1, <2>1, <3>2, <3>3
  <2>2. CASE q # p
    <3>1. Creating(q) /\ proc'[q].res = proc[q].res /\ proc[q].res \in Res
      BY <1>2, <1>3, <1>6, <2>2
    <3>2. Creating(p)' => r # proc[q].res
      BY DEF Fresh
    <3>3. At(proc[q].res, "new")'
      BY <1>1, <3>1 DEF OneExpiry
    <3> QED BY <1>2, <3>1, <3>2, <3>3 DEF OneExpiry
  <2> QED BY <2>1, <2>2
<1> QED BY <1>4, <1>5, <1>6 DEF OneExpiry

\* The one handler that creates a reservation sets its key and is done with
\* that, or fails to set it.
LEMMA ExpiryArmed ==
    ASSUME TypeOK, ArgsOK, OneExpiry, NEW p \in Proc, Creating(p),
           NEW L \in SUBSET Steps, Keeps(p, L), L \subseteq {"set_idem"},
           UNCHANGED rows, ttl' = ttl \cup {proc[p].res} \/ UNCHANGED ttl
    PROVE  OneExpiry'
<1> USE DEF At
<1>1. /\ proc'[p].pc # "new" /\ proc[p].pc # "new" /\ ~Creating(p)'
      /\ \A q \in Proc : q # p => proc'[q] = proc[q]
  BY DEF Keeps, Creating
<1>2. \A r \in Res : At(r, "new")' <=> At(r, "new")
  BY <1>1 DEF Proc
<1>3. \A q \in Proc : Creating(q)' => q # p /\ Creating(q) /\ proc'[q].res = proc[q].res
  BY <1>1 DEF Creating
<1>4. \A q \in Proc : Creating(q) => proc[q].res \in Res
  BY CreatorHasId
<1>5. \A r \in ttl' : At(r, "new")'
  BY <1>2, <1>4 DEF OneExpiry, TypeOK
<1>6. \A r \in Res : ~At(r, "new")' => rows'[r] # "none"
  BY <1>2 DEF OneExpiry
<1>7. ASSUME NEW q \in Proc, Creating(q)'
      PROVE  /\ proc'[q].res \notin ttl' /\ proc'[proc'[q].res].pc = "new"
             /\ \A x \in Proc : Creating(x)' /\ proc'[x].res = proc'[q].res => x = q
  <2>1. q # p /\ Creating(q) /\ proc'[q].res = proc[q].res /\ proc[q].res \in Res
    BY <1>3, <1>4, <1>7
  <2>2. At(proc[q].res, "new")' /\ proc[q].res # proc[p].res
    BY <1>2, <2>1 DEF OneExpiry
  <2> QED BY <1>3, <2>1, <2>2 DEF OneExpiry
<1> QED BY <1>5, <1>6, <1>7 DEF OneExpiry

\* Every step keeps the expiry of a reservation single.
LEMMA SingleExpiryStep ==
    ASSUME TypeOK, ArgsOK, FreshIds, RowsExist, OneExpiry, [Next]_vars
    PROVE  OneExpiry'
<1> USE DistinctAssumption DEF Proc, Steps, RequestSteps, ExpirySteps,
        redisVars, pgVars
<1>1. ASSUME NEW p \in Requests, NEW k \in AllKeys, NEW r \in Res, ReserveStart(p, k, r)
      PROVE  OneExpiry'
  <2>1. /\ proc'[p].pc = "reserve_lua" /\ proc'[p].res = r
        /\ \A q \in Proc : q # p => proc'[q] = proc[q]
    BY <1>1, StartEffect DEF ReserveStart
  <2> QED BY <1>1, <2>1, ExpiryStarted DEF ReserveStart, At, Creating
<1>2. ASSUME NEW p \in Requests, NEW k \in AllKeys, NEW r \in Res, ConfirmStart(p, r, k)
      PROVE  OneExpiry'
  <2>1. /\ proc'[p].pc = "confirm_lua" /\ proc'[p].res = r
        /\ \A q \in Proc : q # p => proc'[q] = proc[q]
    BY <1>2, StartEffect DEF ConfirmStart
  <2> QED BY <1>2, <2>1, ExpiryStarted DEF ConfirmStart, At, Creating
<1>3. ASSUME NEW p \in Requests, NEW r \in Res, ReleaseStart(p, r)
      PROVE  OneExpiry'
  <2>1. /\ proc'[p].pc = "release_lua" /\ proc'[p].res = r
        /\ \A q \in Proc : q # p => proc'[q] = proc[q]
    BY <1>3, StartEffect DEF ReleaseStart
  <2> QED BY <1>3, <2>1, ExpiryStarted DEF ReleaseStart, At, Creating
<1>4. ASSUME NEW p \in Requests, ReserveLua(p)
      PROVE  OneExpiry'
  <2>1. Keeps(p, {"reserve_lua", "insert"})
    BY <1>4, RequestFlow
  <2> QED BY <1>4, <2>1, ExpiryKept DEF ReserveLua, At, Creating
<1>5. ASSUME NEW p \in Requests, InsertReservation(p)
      PROVE  OneExpiry'
  <2>1. Keeps(p, {"set_ttl", "undo"})
    BY <1>5, RequestFlow
  <2> QED BY <1>5, <2>1, ExpiryKept DEF InsertReservation, At, Creating, TypeOK
<1>6. ASSUME NEW p \in Requests, SetIdem(p)
      PROVE  OneExpiry'
  <2>1. Keeps(p, {})
    BY <1>6, RequestFlow
  <2> QED BY <1>6, <2>1, ExpiryKept DEF SetIdem, At, Creating
<1>7. ASSUME NEW p \in Requests, ConfirmLua(p)
      PROVE  OneExpiry'
  <2>1. Keeps(p, {"confirm_lua", "confirm_tx"})
    BY <1>7, RequestFlow
  <2> QED BY <1>7, <2>1, ExpiryKept DEF ConfirmLua, At, Creating
<1>8. ASSUME NEW p \in Requests, ConfirmTx(p)
      PROVE  OneExpiry'
  <2>1. Keeps(p, {"undo"})
    BY <1>8, RequestFlow
  <2> QED BY <1>8, <2>1, ExpiryKept DEF ConfirmTx, At, Creating, TypeOK, CommitOrder
<1>9. ASSUME NEW p \in Requests, ReleaseLua(p)
      PROVE  OneExpiry'
  <2>1. Keeps(p, {"release_lua", "mark_released"})
    BY <1>9, RequestFlow
  <2> QED BY <1>9, <2>1, ExpiryKept DEF ReleaseLua, At, Creating
<1>10. ASSUME NEW p \in Requests, MarkReleased(p)
      PROVE  OneExpiry'
  <2>1. Keeps(p, {})
    BY <1>10, RequestFlow
  <2> QED BY <1>10, <2>1, ExpiryKept DEF MarkReleased, At, Creating, TypeOK
<1>11. ASSUME NEW p \in Requests, SetTTL(p)
      PROVE  OneExpiry'
  <2>1. Keeps(p, {"set_idem"})
    BY <1>11, RequestFlow
  <2> QED BY <1>11, <2>1, ExpiryArmed DEF SetTTL, At, Creating
<1>12. ASSUME NEW r \in Res, HandleExpired(r)
      PROVE  OneExpiry'
  <2>1. Keeps(r, {"expire_lua"})
    BY <1>12, ExpiryFlow
  <2> QED BY <1>12, <2>1, ExpiryKept DEF HandleExpired, At, Creating
<1>13. ASSUME NEW r \in Res, ExpireLua(r)
      PROVE  OneExpiry'
  <2>1. Keeps(r, {"expire_lua", "mark_expired"})
    BY <1>13, ExpiryFlow
  <2> QED BY <1>13, <2>1, ExpiryKept DEF ExpireLua, At, Creating
<1>14. ASSUME NEW r \in Res, MarkExpired(r)
      PROVE  OneExpiry'
  <2>1. Keeps(r, {"promote_lua"})
    BY <1>14, ExpiryFlow
  <2> QED BY <1>14, <2>1, ExpiryKept DEF MarkExpired, At, Creating, TypeOK
<1>15. ASSUME NEW r \in Res, PromoteInsert(r)
      PROVE  OneExpiry'
  <2>1. Keeps(r, {"promote_ttl", "undo"})
    BY <1>15, ExpiryFlow
  <2> QED BY <1>15, <2>1, ExpiryKept DEF PromoteInsert, At, Creating, TypeOK
<1>16. ASSUME NEW r \in Res, PromoteTTL(r)
      PROVE  OneExpiry'
  <2>1. Keeps(r, {})
    BY <1>16, ExpiryFlow
  <2> QED BY <1>16, <2>1, ExpiryArmed DEF PromoteTTL, At, Creating
<1>17. ASSUME NEW p \in Proc, Undo(p)
      PROVE  OneExpiry'
  <2>1. Keeps(p, {"undo"})
    BY <1>17, UndoFlow
  <2> QED BY <1>17, <2>1, ExpiryKept DEF Undo, At, Creating
<1>18. ASSUME NEW r \in Res, PromoteLua(r)
      PROVE  OneExpiry'
  <2>1. CASE Keeps(r, {"promote_lua"})
    BY <1>18, <2>1, ExpiryKept DEF PromoteLua, At, Creating
  <2>2. CASE \E u \in waitlist, m \in Res :
               Fresh(m) /\ Start(r, "promote_insert", m, None, u)
    <3>1. PICK u \in waitlist, m \in Res :
               Fresh(m) /\ Start(r, "promote_insert", m, None, u)
      BY <2>2
    <3>2. /\ proc'[r].pc = "promote_insert" /\ proc'[r].res = m
          /\ \A q \in Proc : q # r => proc'[q] = proc[q]
      BY <3>1, StartEffect DEF TypeOK
    <3> QED BY <1>18, <3>1, <3>2, ExpiryStarted DEF PromoteLua, At
  <2> QED
    BY <1>18, <2>1, <2>2, KeepsStep DEF PromoteLua, At
<1>19. ASSUME NEW r \in Res, KeyExpires(r)
      PROVE  OneExpiry'
  <2>1. /\ proc'[r].pc # "new" /\ ~Creating(r)'
        /\ \A q \in Proc : q # r => proc'[q] = proc[q]
    <3>1. Keeps(r, {"notified"})
      BY <1>19, ExpiryFlow
    <3> QED BY <3>1 DEF Keeps, Creating
  <2>2. r \in ttl /\ ttl' = ttl \ {r} /\ UNCHANGED rows
    BY <1>19 DEF KeyExpires
  <2>3. \A x \in ttl' : At(x, "new")'
    BY <2>1, <2>2 DEF OneExpiry, At, TypeOK
  <2>4. \A x \in Res : ~At(x, "new")' => rows'[x] # "none"
    BY <2>1, <2>2 DEF OneExpiry, RowsExist, At
  <2>5. ASSUME NEW q \in Proc, Creating(q)'
        PROVE  /\ proc'[q].res \notin ttl' /\ proc'[proc'[q].res].pc = "new"
               /\ \A x \in Proc : Creating(x)' /\ proc'[x].res = proc'[q].res => x = q
    <3>1. q # r /\ Creating(q) /\ proc'[q].res = proc[q].res
      BY <2>1, <2>5 DEF Creating
    <3>2. proc[q].res \in Res /\ proc[q].res # r
      BY <2>2, <3>1, CreatorHasId DEF OneExpiry
    <3>3. \A x \in Proc : Creating(x)' => Creating(x) /\ proc'[x].res = proc[x].res
      BY <2>1 DEF Creating
    <3> QED BY <2>1, <2>2, <3>1, <3>2, <3>3 DEF OneExpiry, At
  <2> QED BY <2>3, <2>4, <2>5 DEF OneExpiry, At
<1>20. ASSUME NEW u \in Users, Join(u) \/ Leave(u)
      PROVE  OneExpiry'
  BY <1>20 DEF Join, Leave, OneExpiry, Creating, At
<1>21. ASSUME NEW k \in Keys, IdemExpires(k)
      PROVE  OneExpiry'
  BY <1>21 DEF IdemExpires, pgVars, OneExpiry, Creating, At
<1>22. CASE UNCHANGED vars
  BY <1>22 DEF vars, OneExpiry, Creating, At
<1> QED
  BY <1>1, <1>2, <1>3, <1>4, <1>5, <1>6, <1>7, <1>8, <1>9, <1>10, <1>11, <1>12, <1>13, <1>14, <1>15, <1>16, <1>17, <1>18, <1>19, <1>20, <1>21, <1>22
  DEF Next, Arrive, RequestStep, ExpiryStep

-----------------------------------------------------------------------------
(* Counting units of stock                                                 *)

\* The orders and the confirmations in checkout can be counted.
LEMMA Countable ==
    ASSUME TypeOK
    PROVE  /\ IsFiniteSet(Sold) /\ Cardinality(Sold) \in Nat
           /\ IsFiniteSet(Checkout) /\ Cardinality(Checkout) \in Nat
<1>1. IsFiniteSet(AllKeys)
  BY FiniteAssumption, FS_AddElement DEF AllKeys
<1>2. Sold \subseteq AllKeys /\ Checkout \subseteq Requests
  BY DEF Sold, Checkout
<1>3. IsFiniteSet(Sold) /\ IsFiniteSet(Checkout)
  BY <1>1, <1>2, FiniteAssumption, FS_Subset
<1> QED BY <1>3, FS_CardinalityType

\* A process outside checkout that stays outside changes nothing there.
LEMMA CheckoutKept ==
    ASSUME NEW p \in Proc, proc[p].pc # "confirm_tx", proc'[p].pc # "confirm_tx",
           \A q \in Proc : q # p => proc'[q] = proc[q]
    PROVE  Checkout' = Checkout
BY DEF Checkout, Proc

\* A step that moves a unit between the two counters, or moves none, keeps
\* the bounds.
LEMMA Balanced ==
    ASSUME TypeOK, TypeOK', CheckoutBounded, UNCHANGED orders, Checkout' = Checkout,
           \/ UNCHANGED <<available, reserved>>
           \/ InStock /\ TakeUnit
           \/ ReturnUnit
    PROVE  CheckoutBounded'
<1>1. Sold' = Sold
  BY DEF Sold
<1>2. Cardinality(Sold) \in Nat /\ Cardinality(Checkout) \in Nat
  BY Countable
<1> QED
  BY <1>1, <1>2, StockAssumption
  DEF CheckoutBounded, InStock, TakeUnit, ReturnUnit, TypeOK

\* No step sells, or sets aside for sale, more than the stock.
LEMMA StockStep ==
    ASSUME TypeOK, ArgsOK, CheckoutBounded, [Next]_vars
    PROVE  CheckoutBounded'
<1> USE DistinctAssumption
    DEF Proc, Steps, RequestSteps, ExpirySteps, redisVars, pgVars
<1>0. TypeOK'
  BY TypeStep
<1>1. ASSUME NEW p \in Requests, NEW k \in AllKeys, NEW r \in Res, ReserveStart(p, k, r)
      PROVE  CheckoutBounded'
  <2>1. /\ proc'[p].pc = "reserve_lua"
        /\ \A q \in Proc : q # p => proc'[q] = proc[q]
    BY <1>1, StartEffect DEF ReserveStart
  <2>2. Checkout' = Checkout
    BY <1>1, <2>1, CheckoutKept DEF ReserveStart, At
  <2> QED BY <1>0, <1>1, <2>2, Balanced DEF ReserveStart
<1>2. ASSUME NEW p \in Requests, NEW k \in AllKeys, NEW r \in Res, ConfirmStart(p, r, k)
      PROVE  CheckoutBounded'
  <2>1. /\ proc'[p].pc = "confirm_lua"
        /\ \A q \in Proc : q # p => proc'[q] = proc[q]
    BY <1>2, StartEffect DEF ConfirmStart
  <2>2. Checkout' = Checkout
    BY <1>2, <2>1, CheckoutKept DEF ConfirmStart, At
  <2> QED BY <1>0, <1>2, <2>2, Balanced DEF ConfirmStart
<1>3. ASSUME NEW p \in Requests, NEW r \in Res, ReleaseStart(p, r)
      PROVE  CheckoutBounded'
  <2>1. /\ proc'[p].pc = "release_lua"
        /\ \A q \in Proc : q # p => proc'[q] = proc[q]
    BY <1>3, StartEffect DEF ReleaseStart
  <2>2. Checkout' = Checkout
    BY <1>3, <2>1, CheckoutKept DEF ReleaseStart, At
  <2> QED BY <1>0, <1>3, <2>2, Balanced DEF ReleaseStart
<1>4. ASSUME NEW p \in Requests, ReserveLua(p)
      PROVE  CheckoutBounded'
  <2>1. Keeps(p, {"reserve_lua", "insert"})
    BY <1>4, RequestFlow
  <2>2. Checkout' = Checkout
    BY <1>4, <2>1, CheckoutKept DEF ReserveLua, At, Keeps
  <2> QED BY <1>0, <1>4, <2>2, Balanced DEF ReserveLua, ScriptFault
<1>5. ASSUME NEW p \in Requests, InsertReservation(p)
      PROVE  CheckoutBounded'
  <2>1. Keeps(p, {"set_ttl", "undo"})
    BY <1>5, RequestFlow
  <2>2. Checkout' = Checkout
    BY <1>5, <2>1, CheckoutKept DEF InsertReservation, At, Keeps
  <2> QED BY <1>0, <1>5, <2>2, Balanced DEF InsertReservation
<1>6. ASSUME NEW p \in Requests, SetTTL(p)
      PROVE  CheckoutBounded'
  <2>1. Keeps(p, {"set_idem"})
    BY <1>6, RequestFlow
  <2>2. Checkout' = Checkout
    BY <1>6, <2>1, CheckoutKept DEF SetTTL, At, Keeps
  <2> QED BY <1>0, <1>6, <2>2, Balanced DEF SetTTL
<1>7. ASSUME NEW p \in Requests, SetIdem(p)
      PROVE  CheckoutBounded'
  <2>1. Keeps(p, {})
    BY <1>7, RequestFlow
  <2>2. Checkout' = Checkout
    BY <1>7, <2>1, CheckoutKept DEF SetIdem, At, Keeps
  <2> QED BY <1>0, <1>7, <2>2, Balanced DEF SetIdem
<1>8. ASSUME NEW p \in Requests, ReleaseLua(p)
      PROVE  CheckoutBounded'
  <2>1. Keeps(p, {"release_lua", "mark_released"})
    BY <1>8, RequestFlow
  <2>2. Checkout' = Checkout
    BY <1>8, <2>1, CheckoutKept DEF ReleaseLua, At, Keeps
  <2> QED BY <1>0, <1>8, <2>2, Balanced DEF ReleaseLua, ScriptFault
<1>9. ASSUME NEW p \in Requests, MarkReleased(p)
      PROVE  CheckoutBounded'
  <2>1. Keeps(p, {})
    BY <1>9, RequestFlow
  <2>2. Checkout' = Checkout
    BY <1>9, <2>1, CheckoutKept DEF MarkReleased, At, Keeps
  <2> QED BY <1>0, <1>9, <2>2, Balanced DEF MarkReleased
<1>10. ASSUME NEW r \in Res, KeyExpires(r)
      PROVE  CheckoutBounded'
  <2>1. Keeps(r, {"notified"})
    BY <1>10, ExpiryFlow
  <2>2. Checkout' = Checkout
    BY <1>10, <2>1, CheckoutKept DEF KeyExpires, At, Keeps, ArgsOK
  <2> QED BY <1>0, <1>10, <2>2, Balanced DEF KeyExpires
<1>11. ASSUME NEW r \in Res, HandleExpired(r)
      PROVE  CheckoutBounded'
  <2>1. Keeps(r, {"expire_lua"})
    BY <1>11, ExpiryFlow
  <2>2. Checkout' = Checkout
    BY <1>11, <2>1, CheckoutKept DEF HandleExpired, At, Keeps
  <2> QED BY <1>0, <1>11, <2>2, Balanced DEF HandleExpired
<1>12. ASSUME NEW r \in Res, ExpireLua(r)
      PROVE  CheckoutBounded'
  <2>1. Keeps(r, {"expire_lua", "mark_expired"})
    BY <1>12, ExpiryFlow
  <2>2. Checkout' = Checkout
    BY <1>12, <2>1, CheckoutKept DEF ExpireLua, At, Keeps
  <2> QED BY <1>0, <1>12, <2>2, Balanced DEF ExpireLua, ScriptFault
<1>13. ASSUME NEW r \in Res, MarkExpired(r)
      PROVE  CheckoutBounded'
  <2>1. Keeps(r, {"promote_lua"})
    BY <1>13, ExpiryFlow
  <2>2. Checkout' = Checkout
    BY <1>13, <2>1, CheckoutKept DEF MarkExpired, At, Keeps
  <2> QED BY <1>0, <1>13, <2>2, Balanced DEF MarkExpired
<1>14. ASSUME NEW r \in Res, PromoteInsert(r)
      PROVE  CheckoutBounded'
  <2>1. Keeps(r, {"promote_ttl", "undo"})
    BY <1>14, ExpiryFlow
  <2>2. Checkout' = Checkout
    BY <1>14, <2>1, CheckoutKept DEF PromoteInsert, At, Keeps
  <2> QED BY <1>0, <1>14, <2>2, Balanced DEF PromoteInsert
<1>15. ASSUME NEW r \in Res, PromoteTTL(r)
      PROVE  CheckoutBounded'
  <2>1. Keeps(r, {})
    BY <1>15, ExpiryFlow
  <2>2. Checkout' = Checkout
    BY <1>15, <2>1, CheckoutKept DEF PromoteTTL, At, Keeps
  <2> QED BY <1>0, <1>15, <2>2, Balanced DEF PromoteTTL
<1>16. ASSUME NEW p \in Proc, Undo(p)
      PROVE  CheckoutBounded'
  <2>1. Keeps(p, {"undo"})
    BY <1>16, UndoFlow
  <2>2. Checkout' = Checkout
    BY <1>16, <2>1, CheckoutKept DEF Undo, At, Keeps
  <2> QED BY <1>0, <1>16, <2>2, Balanced DEF Undo, ScriptFault
<1>17. ASSUME NEW r \in Res, PromoteLua(r)
      PROVE  CheckoutBounded'
  <2>1. /\ proc'[r].pc # "confirm_tx"
        /\ \A q \in Proc : q # r => proc'[q] = proc[q]
    <3>1. CASE Keeps(r, {"promote_lua"})
      BY <3>1 DEF Keeps
    <3>2. CASE \E u \in waitlist, m \in Res :
                 Start(r, "promote_insert", m, None, u)
      <4>1. PICK u \in waitlist, m \in Res : Start(r, "promote_insert", m, None, u)
        BY <3>2
      <4>2. u \in Users
        BY DEF TypeOK
      <4> QED BY <4>1, <4>2, StartEffect
    <3> QED BY <1>17, <3>1, <3>2, KeepsStep DEF PromoteLua, At
  <2>2. Checkout' = Checkout
    BY <1>17, <2>1, CheckoutKept DEF PromoteLua, At
  <2> QED BY <1>0, <1>17, <2>2, Balanced DEF PromoteLua, Promotable
<1>18. ASSUME NEW p \in Requests, ConfirmLua(p)
      PROVE  CheckoutBounded'
  <2>1. /\ proc[p].pc = "confirm_lua" /\ p \notin Checkout
        /\ Sold' = Sold /\ UNCHANGED available
    BY <1>18 DEF ConfirmLua, At, Checkout, Sold, SellUnit, ScriptFault
  <2>2. CASE Confirmable /\ SellUnit /\ Goto(p, "confirm_tx")
    <3>1. Checkout' = Checkout \cup {p}
      BY <2>2, GotoEffect DEF Checkout
    <3>2. Cardinality(Checkout') = Cardinality(Checkout) + 1
      BY <2>1, <3>1, Countable, FS_AddElement
    <3> QED
      BY <2>1, <2>2, <3>2, Countable, StockAssumption
      DEF CheckoutBounded, Confirmable, SellUnit, TypeOK
  <2>3. CASE /\ Done(p) \/ UNCHANGED proc
             /\ SellUnit \/ UNCHANGED <<available, reserved>>
    <3>1. Checkout' = Checkout
      BY <2>1, <2>3, DoneEffect DEF Checkout
    <3> QED
      BY <2>1, <2>3, <3>1, Countable, StockAssumption
      DEF CheckoutBounded, SellUnit, TypeOK
  <2> QED BY <1>18, <2>2, <2>3 DEF ConfirmLua, ScriptFault
<1>19. ASSUME NEW p \in Requests, ConfirmTx(p)
      PROVE  CheckoutBounded'
  <2>1. Keeps(p, {"undo"})
    BY <1>19, RequestFlow
  <2>2. p \in Checkout /\ Checkout' = Checkout \ {p}
    BY <1>19, <2>1 DEF ConfirmTx, At, Checkout, Keeps
  <2>3. Cardinality(Checkout') = Cardinality(Checkout) - 1
    BY <2>2, Countable, FS_RemoveElement
  <2>4. CASE UNCHANGED orders
    <3>1. Sold' = Sold
      BY <2>4 DEF Sold
    <3> QED
      BY <1>19, <2>3, <3>1, Countable, StockAssumption
      DEF ConfirmTx, CheckoutBounded, TypeOK
  <2>5. CASE CommitOrder(proc[p].res, proc[p].key)
    <3>1. proc[p].key \in AllKeys /\ proc[p].res \in Res
      BY <1>19 DEF ConfirmTx, At, ArgsOK
    <3>2. proc[p].key \notin Sold /\ Sold' = Sold \cup {proc[p].key}
      BY <2>5, <3>1 DEF CommitOrder, KeyUnused, Sold, TypeOK
    <3>3. Cardinality(Sold') = Cardinality(Sold) + 1
      BY <3>2, Countable, FS_AddElement
    <3> QED
      BY <1>19, <2>3, <3>3, Countable, StockAssumption
      DEF ConfirmTx, CheckoutBounded, TypeOK
  <2> QED BY <1>19, <2>4, <2>5 DEF ConfirmTx
<1>20. ASSUME NEW u \in Users, Join(u) \/ Leave(u)
      PROVE  CheckoutBounded'
  BY <1>20 DEF Join, Leave, CheckoutBounded, Checkout, Sold
<1>21. ASSUME NEW k \in Keys, IdemExpires(k)
      PROVE  CheckoutBounded'
  BY <1>21 DEF IdemExpires, pgVars, CheckoutBounded, Checkout, Sold
<1>22. CASE UNCHANGED vars
  BY <1>22 DEF vars, CheckoutBounded, Checkout, Sold
<1> QED
  BY <1>1, <1>2, <1>3, <1>4, <1>5, <1>6, <1>7, <1>8, <1>9, <1>10, <1>11, <1>12, <1>13, <1>14, <1>15, <1>16, <1>17, <1>18, <1>19, <1>20, <1>21, <1>22
  DEF Next, Arrive, RequestStep, ExpiryStep

-----------------------------------------------------------------------------
(* Rows and orders                                                         *)

\* A status other than "confirmed" written to a row that is not confirmed
\* keeps confirmed rows and orders together.
LEMMA OutcomeWritten ==
    ASSUME TypeOK, ConfirmedIffOrdered, UNCHANGED orders, NEW r \in Res,
           rows[r] # "confirmed", NEW s \in Status \ {"confirmed"},
           rows' = [rows EXCEPT ![r] = s] \/ UNCHANGED rows
    PROVE  /\ ConfirmedIffOrdered'
           /\ \A x \in Res : rows[x] = "confirmed" => rows'[x] = "confirmed"
BY DEF TypeOK, ConfirmedIffOrdered

\* Every step keeps confirmed rows and orders together, and confirmed rows
\* confirmed.
LEMMA OrderStep ==
    ASSUME TypeOK, ArgsOK, FreshIds, ConfirmedIffOrdered, [Next]_vars
    PROVE  /\ ConfirmedIffOrdered'
           /\ \A x \in Res : rows[x] = "confirmed" => rows'[x] = "confirmed"
<1> DEFINE Goal == /\ ConfirmedIffOrdered'
                   /\ \A x \in Res : rows[x] = "confirmed" => rows'[x] = "confirmed"
<1> USE DEF Proc, RequestSteps, ExpirySteps
<1>1. ASSUME NEW p \in Requests, InsertReservation(p)
      PROVE  Goal
  <2>1. proc[p].res \in Res /\ rows[proc[p].res] = "none"
    BY <1>1 DEF InsertReservation, At, ArgsOK, FreshIds, Inserting
  <2> QED BY <1>1, <2>1, OutcomeWritten DEF InsertReservation, Status
<1>2. ASSUME NEW r \in Res, PromoteInsert(r)
      PROVE  Goal
  <2>1. proc[r].res \in Res /\ rows[proc[r].res] = "none"
    BY <1>2 DEF PromoteInsert, At, ArgsOK, FreshIds, Inserting
  <2> QED BY <1>2, <2>1, OutcomeWritten DEF PromoteInsert, Status
<1>3. ASSUME NEW p \in Requests, MarkReleased(p)
      PROVE  Goal
  <2>1. proc[p].res \in Res
    BY <1>3 DEF MarkReleased, At, ArgsOK
  <2>2. CASE UNCHANGED rows
    BY <1>3, <2>2 DEF MarkReleased, ConfirmedIffOrdered
  <2>3. CASE ~UNCHANGED rows
    BY <1>3, <2>1, <2>3, OutcomeWritten DEF MarkReleased, StatusWritable, Status
  <2> QED BY <2>2, <2>3
<1>4. ASSUME NEW r \in Res, MarkExpired(r)
      PROVE  Goal
  <2>1. CASE UNCHANGED rows
    BY <1>4, <2>1 DEF MarkExpired, ConfirmedIffOrdered
  <2>2. CASE ~UNCHANGED rows
    BY <1>4, <2>2, OutcomeWritten DEF MarkExpired, StatusWritable, Status
  <2> QED BY <2>1, <2>2
<1>5. ASSUME NEW p \in Requests, ConfirmTx(p)
      PROVE  Goal
  <2>1. CASE UNCHANGED pgVars
    BY <2>1 DEF pgVars, ConfirmedIffOrdered
  <2>2. CASE CommitOrder(proc[p].res, proc[p].key)
    <3>1. proc[p].res \in Res /\ proc[p].key \in AllKeys
      BY <1>5 DEF ConfirmTx, At, ArgsOK
    <3>2. /\ rows'[proc[p].res] = "confirmed"
          /\ \A x \in Res : x # proc[p].res => rows'[x] = rows[x]
          /\ orders[proc[p].key] = None /\ orders'[proc[p].key] = proc[p].res
          /\ \A k \in AllKeys : k # proc[p].key => orders'[k] = orders[k]
      BY <2>2, <3>1 DEF CommitOrder, KeyUnused, TypeOK
    <3> QED BY <3>1, <3>2, DistinctAssumption DEF ConfirmedIffOrdered
  <2> QED BY <1>5, <2>1, <2>2 DEF ConfirmTx
<1>6. CASE UNCHANGED pgVars
  BY <1>6 DEF pgVars, ConfirmedIffOrdered
<1>7. \/ UNCHANGED pgVars
      \/ \E p \in Requests : InsertReservation(p) \/ MarkReleased(p) \/ ConfirmTx(p)
      \/ \E r \in Res : PromoteInsert(r) \/ MarkExpired(r)
  BY DEF Next, Arrive, RequestStep, ExpiryStep, vars, pgVars, redisVars,
         ReserveStart, ReserveLua, SetTTL, SetIdem, Undo, ConfirmStart,
         ConfirmLua, ReleaseStart, ReleaseLua, KeyExpires, HandleExpired,
         ExpireLua, PromoteLua, PromoteTTL, Join, Leave, IdemExpires
<1> QED BY <1>1, <1>2, <1>3, <1>4, <1>5, <1>6, <1>7

-----------------------------------------------------------------------------
(* Holds                                                                   *)

\* A behaviour that has met no failed call by now had met none before.
LEMMA NoFaultYet ==
    ASSUME TypeOK, [Next]_vars, faults' = 0
    PROVE  faults = 0 /\ ~Fault
<1>1. ~Fault
  BY FaultAssumption DEF Fault, TypeOK
<1>2. UNCHANGED faults
  BY <1>1 DEF Next, Arrive, RequestStep, ExpiryStep, vars, ReserveStart,
     IdempotencyMiss, ReserveLua, ScriptFault, InsertReservation, SetTTL,
     SetIdem, Undo, ConfirmStart, OrderMiss, ConfirmLua, ConfirmTx,
     ReleaseStart, ReleaseLua, MarkReleased, KeyExpires, HandleExpired,
     ExpireLua, MarkExpired, PromoteLua, PromoteInsert, PromoteTTL, Join, Leave,
     IdemExpires
<1> QED BY <1>1, <1>2

\* The labels at which a process looks after a hold.
Attending == {"notified", "expire_lua", "mark_expired", "set_ttl", "promote_ttl"}

\* A step of a process that looks after no hold, and creates none.
LEMMA HoldsKept ==
    ASSUME TypeOK, [Next]_vars, NoOrphanHold, NEW p \in Proc,
           proc[p].pc \notin Attending,
           \A q \in Proc : q # p => proc'[q] = proc[q], UNCHANGED ttl,
           \A r \in Res : rows'[r] = "reserved" => rows[r] = "reserved"
    PROVE  NoOrphanHold'
<1> SUFFICES ASSUME faults' = 0, NEW r \in Res, rows'[r] = "reserved"
             PROVE  Attended(r)'
  BY DEF NoOrphanHold
<1>1. Attended(r)
  BY NoFaultYet DEF NoOrphanHold
<1> QED BY <1>1 DEF Attended, Attending, Proc

\* No step leaves a hold that nothing will end.
LEMMA HoldStep ==
    ASSUME TypeOK, ArgsOK, FreshIds, OneExpiry, NoOrphanHold, [Next]_vars
    PROVE  NoOrphanHold'
<1> USE DistinctAssumption DEF Proc, Steps, RequestSteps, ExpirySteps,
        redisVars, pgVars
<1>1. ASSUME NEW p \in Requests, NEW k \in AllKeys, NEW r \in Res, ReserveStart(p, k, r)
      PROVE  NoOrphanHold'
  <2>1. \A q \in Proc : q # p => proc'[q] = proc[q]
    BY <1>1, StartEffect DEF ReserveStart
  <2> QED BY <1>1, <2>1, HoldsKept DEF ReserveStart, At, Attending
<1>2. ASSUME NEW p \in Requests, NEW k \in AllKeys, NEW r \in Res, ConfirmStart(p, r, k)
      PROVE  NoOrphanHold'
  <2>1. \A q \in Proc : q # p => proc'[q] = proc[q]
    BY <1>2, StartEffect DEF ConfirmStart
  <2> QED BY <1>2, <2>1, HoldsKept DEF ConfirmStart, At, Attending
<1>3. ASSUME NEW p \in Requests, NEW r \in Res, ReleaseStart(p, r)
      PROVE  NoOrphanHold'
  <2>1. \A q \in Proc : q # p => proc'[q] = proc[q]
    BY <1>3, StartEffect DEF ReleaseStart
  <2> QED BY <1>3, <2>1, HoldsKept DEF ReleaseStart, At, Attending
<1>4. ASSUME NEW p \in Requests, ReserveLua(p)
      PROVE  NoOrphanHold'
  <2>1. Keeps(p, {"reserve_lua", "insert"})
    BY <1>4, RequestFlow
  <2> QED BY <1>4, <2>1, HoldsKept DEF ReserveLua, At, Attending, Keeps
<1>5. ASSUME NEW p \in Requests, SetIdem(p)
      PROVE  NoOrphanHold'
  <2>1. Keeps(p, {})
    BY <1>5, RequestFlow
  <2> QED BY <1>5, <2>1, HoldsKept DEF SetIdem, At, Attending, Keeps
<1>6. ASSUME NEW p \in Requests, ConfirmLua(p)
      PROVE  NoOrphanHold'
  <2>1. Keeps(p, {"confirm_lua", "confirm_tx"})
    BY <1>6, RequestFlow
  <2> QED BY <1>6, <2>1, HoldsKept DEF ConfirmLua, At, Attending, Keeps
<1>7. ASSUME NEW p \in Requests, ConfirmTx(p)
      PROVE  NoOrphanHold'
  <2>1. Keeps(p, {"undo"})
    BY <1>7, RequestFlow
  <2> QED BY <1>7, <2>1, HoldsKept DEF ConfirmTx, At, Attending, Keeps, TypeOK, CommitOrder
<1>8. ASSUME NEW p \in Requests, ReleaseLua(p)
      PROVE  NoOrphanHold'
  <2>1. Keeps(p, {"release_lua", "mark_released"})
    BY <1>8, RequestFlow
  <2> QED BY <1>8, <2>1, HoldsKept DEF ReleaseLua, At, Attending, Keeps
<1>9. ASSUME NEW p \in Requests, MarkReleased(p)
      PROVE  NoOrphanHold'
  <2>1. Keeps(p, {})
    BY <1>9, RequestFlow
  <2> QED BY <1>9, <2>1, HoldsKept DEF MarkReleased, At, Attending, Keeps, TypeOK
<1>10. ASSUME NEW p \in Proc, Undo(p)
      PROVE  NoOrphanHold'
  <2>1. Keeps(p, {"undo"})
    BY <1>10, UndoFlow
  <2> QED BY <1>10, <2>1, HoldsKept DEF Undo, At, Attending, Keeps
<1>11. ASSUME NEW r \in Res, PromoteLua(r)
      PROVE  NoOrphanHold'
  <2>1. \A q \in Proc : q # r => proc'[q] = proc[q]
    BY <1>11 DEF PromoteLua, Start, Done, TypeOK
  <2> QED BY <1>11, <2>1, HoldsKept DEF PromoteLua, At, Attending
<1>12. ASSUME NEW p \in Requests, InsertReservation(p)
      PROVE  NoOrphanHold'
  <2> SUFFICES ASSUME faults' = 0, NEW x \in Res, rows'[x] = "reserved"
               PROVE  Attended(x)'
    BY DEF NoOrphanHold
  <2>1. Keeps(p, {"set_ttl", "undo"}) /\ faults = 0 /\ ~Fault
    BY <1>12, RequestFlow, NoFaultYet
  <2>2. CASE rows[x] = "reserved"
    <3>1. Attended(x)
      BY <2>1, <2>2 DEF NoOrphanHold
    <3> QED BY <1>12, <2>1, <3>1 DEF InsertReservation, At, Attended, Keeps
  <2>3. CASE rows[x] # "reserved"
    <3>1. x = proc[p].res /\ Goto(p, "set_ttl")
      BY <1>12, <2>1, <2>3 DEF InsertReservation, TypeOK
    <3>2. proc'[p].pc = "set_ttl" /\ proc'[p].res = x
      BY <3>1, GotoEffect
    <3> QED BY <3>2 DEF Attended
  <2> QED BY <2>2, <2>3
<1>13. ASSUME NEW r \in Res, PromoteInsert(r)
      PROVE  NoOrphanHold'
  <2> SUFFICES ASSUME faults' = 0, NEW x \in Res, rows'[x] = "reserved"
               PROVE  Attended(x)'
    BY DEF NoOrphanHold
  <2>1. Keeps(r, {"promote_ttl", "undo"}) /\ faults = 0 /\ ~Fault
    BY <1>13, ExpiryFlow, NoFaultYet
  <2>2. CASE rows[x] = "reserved"
    <3>1. Attended(x)
      BY <2>1, <2>2 DEF NoOrphanHold
    <3> QED BY <1>13, <2>1, <3>1 DEF PromoteInsert, At, Attended, Keeps
  <2>3. CASE rows[x] # "reserved"
    <3>1. x = proc[r].res /\ Goto(r, "promote_ttl")
      BY <1>13, <2>1, <2>3 DEF PromoteInsert, TypeOK
    <3>2. proc'[r].pc = "promote_ttl" /\ proc'[r].res = x
      BY <3>1, GotoEffect
    <3> QED BY <3>2 DEF Attended
  <2> QED BY <2>2, <2>3
<1>14. ASSUME NEW p \in Requests, SetTTL(p)
      PROVE  NoOrphanHold'
  <2> SUFFICES ASSUME faults' = 0, NEW x \in Res, rows'[x] = "reserved"
               PROVE  Attended(x)'
    BY DEF NoOrphanHold
  <2>1. Keeps(p, {"set_idem"}) /\ faults = 0 /\ ~Fault
    BY <1>14, RequestFlow, NoFaultYet
  <2>2. Attended(x) /\ ttl' = ttl \cup {proc[p].res}
    BY <1>14, <2>1 DEF NoOrphanHold, SetTTL
  <2> QED BY <1>14, <2>1, <2>2 DEF SetTTL, At, Attended, Keeps
<1>15. ASSUME NEW r \in Res, PromoteTTL(r)
      PROVE  NoOrphanHold'
  <2> SUFFICES ASSUME faults' = 0, NEW x \in Res, rows'[x] = "reserved"
               PROVE  Attended(x)'
    BY DEF NoOrphanHold
  <2>1. Keeps(r, {}) /\ faults = 0 /\ ~Fault
    BY <1>15, ExpiryFlow, NoFaultYet
  <2>2. Attended(x) /\ ttl' = ttl \cup {proc[r].res}
    BY <1>15, <2>1 DEF NoOrphanHold, PromoteTTL
  <2> QED BY <1>15, <2>1, <2>2 DEF PromoteTTL, At, Attended, Keeps
<1>16. ASSUME NEW r \in Res, KeyExpires(r)
      PROVE  NoOrphanHold'
  <2> SUFFICES ASSUME faults' = 0, NEW x \in Res, rows'[x] = "reserved"
               PROVE  Attended(x)'
    BY DEF NoOrphanHold
  <2>1. faults = 0 /\ Goto(r, "notified") /\ ttl' = ttl \ {r} /\ UNCHANGED rows
    BY <1>16, NoFaultYet DEF KeyExpires
  <2>2. Attended(x) /\ proc[r].pc = "new"
    BY <1>16, <2>1 DEF NoOrphanHold, KeyExpires, OneExpiry, At
  <2>3. proc'[r].pc = "notified" /\ \A q \in Proc : q # r => proc'[q] = proc[q]
    BY <2>1, GotoEffect
  <2> QED BY <2>1, <2>2, <2>3 DEF Attended
<1>17. ASSUME NEW r \in Res, HandleExpired(r)
      PROVE  NoOrphanHold'
  <2> SUFFICES ASSUME faults' = 0, NEW x \in Res, rows'[x] = "reserved"
               PROVE  Attended(x)'
    BY DEF NoOrphanHold
  <2>1. Keeps(r, {"expire_lua"}) /\ faults = 0 /\ ~Fault /\ UNCHANGED <<rows, ttl>>
    BY <1>17, ExpiryFlow, NoFaultYet DEF HandleExpired
  <2>2. Attended(x)
    BY <2>1 DEF NoOrphanHold
  <2>3. CASE x = r
    <3>1. proc'[r].pc = "expire_lua"
      BY <1>17, <2>1, <2>3, GotoEffect DEF HandleExpired, HasReservedStatus, ScriptFault
    <3> QED BY <2>3, <3>1 DEF Attended
  <2>4. CASE x # r
    BY <1>17, <2>1, <2>2, <2>4 DEF HandleExpired, At, Attended, Keeps
  <2> QED BY <2>3, <2>4
<1>18. ASSUME NEW r \in Res, ExpireLua(r)
      PROVE  NoOrphanHold'
  <2> SUFFICES ASSUME faults' = 0, NEW x \in Res, rows'[x] = "reserved"
               PROVE  Attended(x)'
    BY DEF NoOrphanHold
  <2>1. Keeps(r, {"expire_lua", "mark_expired"}) /\ faults = 0 /\ ~Fault /\ UNCHANGED <<rows, ttl>>
    BY <1>18, ExpiryFlow, NoFaultYet DEF ExpireLua
  <2>2. Attended(x)
    BY <2>1 DEF NoOrphanHold
  <2>3. CASE x = r
    <3>1. proc'[r].pc = "mark_expired"
      BY <1>18, <2>1, <2>3, GotoEffect DEF ExpireLua, HasReservedStatus, ScriptFault
    <3> QED BY <2>3, <3>1 DEF Attended
  <2>4. CASE x # r
    BY <1>18, <2>1, <2>2, <2>4 DEF ExpireLua, At, Attended, Keeps
  <2> QED BY <2>3, <2>4
<1>19. ASSUME NEW r \in Res, MarkExpired(r)
      PROVE  NoOrphanHold'
  <2> SUFFICES ASSUME faults' = 0, NEW x \in Res, rows'[x] = "reserved"
               PROVE  Attended(x)'
    BY DEF NoOrphanHold
  <2>1. Keeps(r, {"promote_lua"}) /\ faults = 0 /\ ~Fault
    BY <1>19, ExpiryFlow, NoFaultYet
  <2>2. x # r /\ rows[x] = "reserved" /\ UNCHANGED ttl
    BY <1>19, <2>1 DEF MarkExpired, StatusWritable, TypeOK
  <2>3. Attended(x)
    BY <2>1, <2>2 DEF NoOrphanHold
  <2> QED BY <1>19, <2>1, <2>2, <2>3 DEF MarkExpired, At, Attended, Keeps
<1>20. ASSUME NEW u \in Users, Join(u) \/ Leave(u)
      PROVE  NoOrphanHold'
  BY <1>20 DEF Join, Leave, NoOrphanHold, Attended
<1>21. ASSUME NEW k \in Keys, IdemExpires(k)
      PROVE  NoOrphanHold'
  BY <1>21 DEF IdemExpires, pgVars, NoOrphanHold, Attended
<1>22. CASE UNCHANGED vars
  BY <1>22 DEF vars, NoOrphanHold, Attended
<1> QED
  BY <1>1, <1>2, <1>3, <1>4, <1>5, <1>6, <1>7, <1>8, <1>9, <1>10, <1>11, <1>12, <1>13, <1>14, <1>15, <1>16, <1>17, <1>18, <1>19, <1>20, <1>21, <1>22
  DEF Next, Arrive, RequestStep, ExpiryStep

-----------------------------------------------------------------------------
(* The theorems                                                            *)

\* Every behaviour satisfies the inductive invariant.
THEOREM Invariance == Spec => []IndInv
<1>1. Init => IndInv
  <2> SUFFICES ASSUME Init PROVE IndInv
    OBVIOUS
  <2> USE DEF Init
  <2>1. TypeOK
    BY StockAssumption, FaultAssumption
    DEF TypeOK, New, Local, Status, RequestSteps, ExpirySteps
  <2>2. ArgsOK
    BY DEF ArgsOK, New, Local, Proc, RequestSteps, ExpirySteps
  <2>3. FreshIds /\ RowsExist /\ OneExpiry
    BY DEF FreshIds, Inserting, RowsExist, OneExpiry, Creating, At, New, Local, Proc
  <2>4. Sold = {} /\ Checkout = {}
    BY DEF Sold, Checkout, New, Local, Proc
  <2>5. CheckoutBounded
    BY <2>4, FS_EmptySet, StockAssumption DEF CheckoutBounded
  <2>6. ConfirmedIffOrdered
    BY DistinctAssumption DEF ConfirmedIffOrdered
  <2> QED BY <2>1, <2>2, <2>3, <2>5, <2>6 DEF IndInv
<1>2. IndInv /\ [Next]_vars => IndInv'
  BY TypeStep, FreshStep, SingleExpiryStep, StockStep, OrderStep DEF IndInv
<1> QED BY <1>1, <1>2, PTL DEF Spec

\* The variables keep their types.
THEOREM TypeCorrect == Spec => []TypeOK
<1>1. IndInv => TypeOK
  BY DEF IndInv
<1> QED BY <1>1, Invariance, PTL

\* The orders never exceed the stock, whatever Confirm, Release and expiry
\* handlers overlap, however many calls fail or are repeated, and with any
\* idempotency keys.
THEOREM OversellImpossible == Spec => []NoOversell
<1>1. IndInv => NoOversell
  BY Countable, StockAssumption DEF IndInv, CheckoutBounded, NoOversell
<1> QED BY <1>1, Invariance, PTL

\* available never goes negative, and available, reserved and the orders
\* never add up to more than the stock.
THEOREM StockIsBounded == Spec => []StockBounded
<1>1. IndInv => StockBounded
  BY Countable, StockAssumption DEF IndInv, CheckoutBounded, StockBounded, TypeOK
<1> QED BY <1>1, Invariance, PTL

\* A row is confirmed exactly when an order refers to it.
THEOREM ConfirmedOrdered == Spec => []ConfirmedIffOrdered
<1>1. IndInv => ConfirmedIffOrdered
  BY DEF IndInv
<1> QED BY <1>1, Invariance, PTL

\* No late UPDATE of a Release or expiry handler undoes a confirmation.
THEOREM ConfirmedForGood == Spec => ConfirmedIsFinal
<1>1. IndInv /\ [Next]_vars
      => [\A r \in Res : rows[r] = "confirmed" => rows'[r] = "confirmed"]_vars
  BY OrderStep DEF IndInv
<1> QED BY <1>1, Invariance, PTL DEF Spec, ConfirmedIsFinal

\* While no call has failed, every reservation in status "reserved" has its
\* TTL key, its expiry goroutine or a handler that will set the key.
THEOREM HoldsAttended == Spec => []NoOrphanHold
<1>1. Init => NoOrphanHold
  BY DEF Init, NoOrphanHold
<1>2. IndInv /\ NoOrphanHold /\ [Next]_vars => NoOrphanHold'
  BY HoldStep DEF IndInv
<1> QED BY <1>1, <1>2, Invariance, PTL DEF Spec
=============================================================================
