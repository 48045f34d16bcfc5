------------------------- MODULE StockEventsProofs -------------------------
(***************************************************************************)
(* The types, and with them that only a reconciler takes the counter below *)
(* zero; then, for any number of overlapping handlers, any stock and any   *)
(* order of delivery,                                                      *)
(*   - EndAnnounced: the invariant names the handler that owes the         *)
(*     announcement; whoever took the last unit reads the counter          *)
(*     afterwards, and if it does not find 0 somebody has changed it since;*)
(*   - ViewerCurrent: a solo handler's read is current when it publishes,  *)
(*     and from then on what is pending will show the stock, but for the   *)
(*     change being made, until something disturbs it.                     *)
(***************************************************************************)
EXTENDS StockEvents, TLAPS

(* Types *)

HandlerType == [pc : Steps, kind : Kinds, res : Res \cup {None}, seen : Int]
EventType == [event : {"stock_update"}, remaining : Int] \cup {SaleEnded}
ViewerType == [pc : {"new", "subscribed", "snapshot", "connected"},
               joined : BOOLEAN, snap : Int]

\* The parts of TypeOK that a step changes together.
Units ==
    /\ available \in Int
    /\ available < 0 => taker = "reconcile"
    /\ announced \in BOOLEAN /\ taker \in Kinds \cup {"reconcile"}
Marks ==
    solo \in Handlers \cup {None} /\ disturbed \in BOOLEAN /\ faults \in 0..MaxFaults

(***************************************************************************)
(* TypeOK in these parts.                                                  *)
(***************************************************************************)
LEMMA TypeParts ==
    TypeOK <=> /\ Units /\ Marks
               /\ rows \in [Res -> {"none", "reserved", "ended"}]
               /\ handler \in [Handlers -> HandlerType]
               /\ events \in Seq(EventType) /\ viewer \in ViewerType
               /\ shown \in Int \cup {None} /\ changes \in 0..MaxChanges
  BY DEF TypeOK, Units, Marks, HandlerType, EventType, ViewerType

(***************************************************************************)
(* Taking and giving a unit, and a fault, keep their parts.                *)
(***************************************************************************)
LEMMA PartsKept ==
    ASSUME TypeOK
    PROVE  /\ \A kind \in Kinds : TakeUnit(kind) => Units'
           /\ GiveUnit \/ KeepUnits => Units'
           /\ Fault \/ NoFault \/ (Disturb /\ UNCHANGED faults) => Marks'
           /\ Change => changes' \in 0..MaxChanges
<1> USE EventsAssumption
<1>1. ASSUME NEW kind \in Kinds, TakeUnit(kind) PROVE Units'
  <2>1. available' \in Int /\ ~(available' < 0)
    BY <1>1 DEF TypeOK, TakeUnit, InStock
  <2>2. announced' \in BOOLEAN /\ taker' \in Kinds \cup {"reconcile"}
    BY <1>1 DEF TakeUnit
  <2> QED
    BY <2>1, <2>2 DEF Units
<1>2. ASSUME GiveUnit \/ KeepUnits PROVE Units'
  <2>1. available' \in Int /\ (available' < 0 => available < 0) /\ taker' = taker
    BY <1>2 DEF TypeOK, GiveUnit, KeepUnits
  <2>2. announced' \in BOOLEAN /\ taker' \in Kinds \cup {"reconcile"}
    BY <1>2 DEF TypeOK, GiveUnit, KeepUnits
  <2> QED
    BY <2>1, <2>2 DEF Units, TypeOK
<1>3. ASSUME Fault \/ NoFault \/ (Disturb /\ UNCHANGED faults) PROVE Marks'
  <2>1. faults' \in 0..MaxFaults
    BY <1>3 DEF TypeOK, Fault, NoFault
  <2>2. solo' \in Handlers \cup {None} /\ disturbed' \in BOOLEAN
    BY <1>3 DEF TypeOK, Fault, NoFault, Disturb
  <2> QED
    BY <2>1, <2>2 DEF Marks
<1>4. Change => changes' \in 0..MaxChanges
  BY DEF TypeOK, Change
<1> QED
  BY <1>1, <1>2, <1>3, <1>4

(***************************************************************************)
(* A step of handler h that leaves the viewer alone keeps the types if the *)
(* handler's own record and the parts it changes do.                       *)
(***************************************************************************)
LEMMA HandlerKeepsTypes ==
    ASSUME TypeOK, NEW h \in Handlers, NEW r \in HandlerType,
           handler' = [handler EXCEPT ![h] = r],
           Units', Marks', changes' \in 0..MaxChanges, events' \in Seq(EventType),
           rows' \in [Res -> {"none", "reserved", "ended"}],
           UNCHANGED views
    PROVE  TypeOK'
<1>1. handler' \in [Handlers -> HandlerType]
  BY TypeParts
<1>2. viewer' \in ViewerType /\ shown' \in Int \cup {None}
  BY TypeParts DEF views
<1> QED
  BY <1>1, <1>2 DEF TypeOK, Units, Marks, HandlerType, EventType, ViewerType

(***************************************************************************)
(* Publishing one more event, or delivering the first, leaves a sequence   *)
(* of events.                                                              *)
(***************************************************************************)
LEMMA EventsType ==
    ASSUME NEW es \in Seq(EventType)
    PROVE  /\ \A n \in Int : Append(es, StockUpdate(n)) \in Seq(EventType)
           /\ Append(es, SaleEnded) \in Seq(EventType)
           /\ es # <<>> => Tail(es) \in Seq(EventType) /\ Head(es) \in EventType
<1>1. \A n \in Int : StockUpdate(n) \in EventType
  BY DEF StockUpdate, EventType
<1>2. SaleEnded \in EventType
  BY DEF EventType
<1> QED
  BY <1>1, <1>2

(***************************************************************************)
(* The records a handler can be left with.                                 *)
(***************************************************************************)
LEMMA HandlerRecords ==
    /\ Rest \in HandlerType /\ Rest.pc = "idle"
    /\ \A p \in Steps, k \in Kinds, r \in Res :
          Job(p, k, r) \in HandlerType /\ Job(p, k, r).pc = p /\ Job(p, k, r).kind = k
    /\ \A q \in HandlerType, p \in Steps :
          [q EXCEPT !.pc = p] \in HandlerType /\ [q EXCEPT !.pc = p].pc = p
    /\ \A q \in HandlerType, n \in Int :
          /\ [q EXCEPT !.pc = "publish", !.seen = n] \in HandlerType
          /\ [q EXCEPT !.pc = "publish", !.seen = n].pc = "publish"
          /\ [q EXCEPT !.pc = "publish", !.seen = n].seen = n
<1>1. Rest \in HandlerType /\ Rest.pc = "idle"
  BY DEF Rest, Job, HandlerType, Steps, Kinds
<1>2. \A p \in Steps, k \in Kinds, r \in Res :
          Job(p, k, r) \in HandlerType /\ Job(p, k, r).pc = p /\ Job(p, k, r).kind = k
  BY DEF Job, HandlerType
<1>3. \A q \in HandlerType, p \in Steps :
          [q EXCEPT !.pc = p] \in HandlerType /\ [q EXCEPT !.pc = p].pc = p
  BY DEF HandlerType
<1>4. \A q \in HandlerType, n \in Int :
          /\ [q EXCEPT !.pc = "publish", !.seen = n] \in HandlerType
          /\ [q EXCEPT !.pc = "publish", !.seen = n].pc = "publish"
          /\ [q EXCEPT !.pc = "publish", !.seen = n].seen = n
  <2>1. "publish" \in Steps
    BY DEF Steps
  <2> QED
    BY <2>1 DEF HandlerType
<1> QED
  BY <1>1, <1>2, <1>3, <1>4

(***************************************************************************)
(* What the steps of a handler do to its own record.                       *)
(***************************************************************************)
LEMMA HandlerMoves ==
    ASSUME TypeOK, NEW h \in Handlers
    PROVE  /\ handler[h] \in HandlerType /\ handler[h].seen \in Int
           /\ \A step \in Steps :
                Goto(h, step) => handler' = [handler EXCEPT ![h] = [handler[h] EXCEPT !.pc = step]]
           /\ GetAvailable(h) =>
                \E n \in {available, 0} :
                   /\ handler' = [handler EXCEPT
                         ![h] = [handler[h] EXCEPT !.pc = "publish", !.seen = n]]
                   /\ n # available => Fault
                   /\ Fault \/ NoFault
           /\ PublishStock(h) =>
                \E r \in {[handler[h] EXCEPT !.pc = "ended"],
                          [handler[h] EXCEPT !.pc = "promote"], Rest} :
                   handler' = [handler EXCEPT ![h] = r]
<1>1. handler[h] \in HandlerType /\ handler[h].seen \in Int
  BY TypeParts DEF HandlerType
<1>2. \A step \in Steps :
         Goto(h, step) => handler' = [handler EXCEPT ![h] = [handler[h] EXCEPT !.pc = step]]
  BY DEF Goto
<1>3. ASSUME GetAvailable(h)
      PROVE  \E n \in {available, 0} :
               /\ handler' = [handler EXCEPT
                     ![h] = [handler[h] EXCEPT !.pc = "publish", !.seen = n]]
               /\ n # available => Fault
               /\ Fault \/ NoFault
  <2>1. PICK n \in {available, 0} :
           /\ handler' = [handler EXCEPT ![h].pc = "publish", ![h].seen = n]
           /\ IF n = available THEN NoFault ELSE Fault
    BY <1>3 DEF GetAvailable, ReadStock
  <2>2. handler' = [handler EXCEPT
                     ![h] = [handler[h] EXCEPT !.pc = "publish", !.seen = n]]
    BY <2>1, TypeParts
  <2> QED
    BY <2>1, <2>2
<1>4. ASSUME PublishStock(h)
      PROVE  \E r \in {[handler[h] EXCEPT !.pc = "ended"],
                       [handler[h] EXCEPT !.pc = "promote"], Rest} :
                handler' = [handler EXCEPT ![h] = r]
  BY <1>4 DEF PublishStock, Goto, Finish
<1> QED
  BY <1>1, <1>2, <1>3, <1>4

(***************************************************************************)
(* Each step of a handler keeps the types.                                 *)
(***************************************************************************)
LEMMA HandlersKeepTypes ==
    ASSUME TypeOK, NEW h \in Handlers,
           \/ \E r \in Res : Reserve(h, r) \/ Check(h, "release", r) \/ Check(h, "expire", r)
           \/ ReleaseScript(h) \/ WriteRow(h) \/ GetAvailable(h)
           \/ PublishStock(h) \/ PublishEnded(h) \/ Promote(h)
    PROVE  TypeOK'
<1> USE EventsAssumption
<1>0. /\ rows \in [Res -> {"none", "reserved", "ended"}] /\ events \in Seq(EventType)
      /\ changes \in 0..MaxChanges /\ Units /\ Marks
  BY TypeParts
<1>k. /\ \A p \in {"release", "row", "get", "ended", "promote"} : p \in Steps
      /\ \A k \in {"reserve", "release", "expire", "promote"} : k \in Kinds
  BY DEF Steps, Kinds
<1>m. /\ [handler[h] EXCEPT !.pc = "row"] \in HandlerType
      /\ [handler[h] EXCEPT !.pc = "get"] \in HandlerType
      /\ [handler[h] EXCEPT !.pc = "ended"] \in HandlerType
      /\ [handler[h] EXCEPT !.pc = "promote"] \in HandlerType
      /\ Rest \in HandlerType
  <2>1. handler[h] \in HandlerType /\ Rest \in HandlerType
    BY HandlerMoves, HandlerRecords
  <2> QED
    BY <1>k, <2>1 DEF HandlerType
<1>1. ASSUME Begin(h)
      PROVE  Marks' /\ changes' \in 0..MaxChanges
  <2>1. changes' \in 0..MaxChanges
    BY <1>1, PartsKept DEF Begin
  <2>2. solo' \in Handlers \cup {None} /\ disturbed' \in BOOLEAN
    BY <1>1 DEF Begin
  <2>3. faults' \in 0..MaxFaults
    BY <1>0, <1>1 DEF Begin, Marks
  <2> QED
    BY <2>1, <2>2, <2>3 DEF Marks
<1>2. ASSUME NEW r \in Res, Reserve(h, r)
      PROVE  TypeOK'
  <2>1. /\ Begin(h) /\ TakeUnit("reserve") /\ UNCHANGED <<rows, events, views>>
        /\ handler' = [handler EXCEPT ![h] = Job("row", "reserve", r)]
    BY <1>2 DEF Reserve
  <2>2. Job("row", "reserve", r) \in HandlerType /\ Units'
    BY <1>k, <2>1, HandlerRecords, PartsKept
  <2> QED
    BY <1>0, <1>1, <2>1, <2>2, HandlerKeepsTypes
<1>3. ASSUME NEW kind \in {"release", "expire"}, NEW r \in Res, Check(h, kind, r)
      PROVE  TypeOK'
  <2>1. /\ Begin(h) /\ KeepUnits /\ UNCHANGED <<rows, events, views>>
        /\ handler' = [handler EXCEPT ![h] = Job("release", kind, r)]
    BY <1>3 DEF Check
  <2>2. Job("release", kind, r) \in HandlerType /\ Units'
    BY <1>k, <2>1, HandlerRecords, PartsKept
  <2> QED
    BY <1>0, <1>1, <2>1, <2>2, HandlerKeepsTypes
<1>4. CASE ReleaseScript(h)
  <2>1. Units' /\ Marks' /\ UNCHANGED <<rows, events, views, changes>>
    BY <1>4, PartsKept DEF ReleaseScript
  <2>2. PICK r \in {[handler[h] EXCEPT !.pc = "row"], Rest} :
           handler' = [handler EXCEPT ![h] = r]
    BY <1>4 DEF ReleaseScript, Goto, Finish
  <2>3. r \in HandlerType
    BY <1>m, <2>2
  <2> QED
    BY <1>0, <2>1, <2>2, <2>3, HandlerKeepsTypes
<1>5. CASE WriteRow(h)
  <2>1. Units' /\ Marks' /\ UNCHANGED <<events, views, changes>>
    BY <1>5, PartsKept DEF WriteRow
  <2>2. PICK r \in {[handler[h] EXCEPT !.pc = "get"], Rest} :
           handler' = [handler EXCEPT ![h] = r]
    BY <1>5 DEF WriteRow, Goto, Finish
  <2>4. r \in HandlerType
    BY <1>m, <2>2
  <2>3. rows' \in [Res -> {"none", "reserved", "ended"}]
    <3>1. Written(h) \in [Res -> {"none", "reserved", "ended"}]
      BY <1>0 DEF Written
    <3> QED
      BY <1>0, <1>5, <3>1 DEF WriteRow
  <2> QED
    BY <1>0, <2>1, <2>2, <2>3, <2>4, HandlerKeepsTypes
<1>6. CASE GetAvailable(h)
  <2>1. PICK n \in {available, 0} :
           /\ handler' = [handler EXCEPT
                 ![h] = [handler[h] EXCEPT !.pc = "publish", !.seen = n]]
           /\ Fault \/ NoFault
    BY <1>6, HandlerMoves
  <2>2. n \in Int
    BY <1>0 DEF Units
  <2>3. [handler[h] EXCEPT !.pc = "publish", !.seen = n] \in HandlerType
    BY <2>2, HandlerMoves, HandlerRecords
  <2>4. Units' /\ Marks' /\ UNCHANGED <<rows, events, views, changes>>
    BY <1>6, <2>1, PartsKept DEF GetAvailable
  <2> QED
    BY <1>0, <2>1, <2>3, <2>4, HandlerKeepsTypes
<1>7. CASE PublishStock(h)
  <2>0. PICK r \in {[handler[h] EXCEPT !.pc = "ended"],
                    [handler[h] EXCEPT !.pc = "promote"], Rest} :
           handler' = [handler EXCEPT ![h] = r]
    BY <1>7, HandlerMoves
  <2>1. r \in HandlerType /\ handler' = [handler EXCEPT ![h] = r]
    BY <1>m, <2>0
  <2>2. Units' /\ UNCHANGED <<rows, views, changes>>
    BY <1>7, PartsKept DEF PublishStock
  <2>3. CASE Fault /\ UNCHANGED events
    BY <1>0, <2>1, <2>2, <2>3, PartsKept, HandlerKeepsTypes
  <2>4. CASE Send(StockUpdate(handler[h].seen)) /\ UNCHANGED solo
             /\ disturbed' = (disturbed /\ solo # h)
    <3>1. events' \in Seq(EventType)
      BY <1>0, <2>4, HandlerMoves, EventsType DEF Send
    <3>2. Marks'
      <4>1. disturbed' \in BOOLEAN /\ solo' \in Handlers \cup {None}
        BY <1>0, <2>4 DEF Marks
      <4>2. faults' \in 0..MaxFaults
        BY <1>0, <2>4 DEF Marks, Send
      <4> QED
        BY <4>1, <4>2 DEF Marks
    <3> QED
      BY <1>0, <2>1, <2>2, <3>1, <3>2, HandlerKeepsTypes
  <2> QED
    BY <1>7, <2>3, <2>4 DEF PublishStock
<1>8. CASE PublishEnded(h)
  <2>1. Rest \in HandlerType /\ handler' = [handler EXCEPT ![h] = Rest]
    BY <1>8, HandlerRecords DEF PublishEnded, Finish
  <2>2. UNCHANGED <<available, rows, views, taker, changes>> /\ announced' \in BOOLEAN
    BY <1>8 DEF PublishEnded
  <2>3. Units'
    BY <1>0, <2>2 DEF Units
  <2>4. events' \in Seq(EventType)
    BY <1>0, <1>8, EventsType DEF PublishEnded, Send
  <2>5. Marks'
    BY <1>8, PartsKept DEF PublishEnded, Send, NoFault
  <2> QED
    BY <1>0, <2>1, <2>2, <2>3, <2>4, <2>5, HandlerKeepsTypes
<1>9. CASE Promote(h)
  <2>1. UNCHANGED <<rows, events, views, changes>> /\ Units' /\ Marks'
    BY <1>9, <1>k, PartsKept DEF Promote
  <2>2. PICK r \in HandlerType : handler' = [handler EXCEPT ![h] = r]
    BY <1>9, <1>k, HandlerRecords DEF Promote, Finish
  <2> QED
    BY <1>0, <2>1, <2>2, HandlerKeepsTypes
<1> QED
  BY <1>2, <1>3, <1>4, <1>5, <1>6, <1>7, <1>8, <1>9

(***************************************************************************)
(* Every counter, event, snapshot and screen holds a number, and whatever  *)
(* takes, double returns, undone Confirms and rejected rows overlap, the   *)
(* scripts do not bring the counter below zero: only the SET of a          *)
(* reconciler does.                                                        *)
(***************************************************************************)
THEOREM EventsTypes == Spec => []TypeOK
<1> USE EventsAssumption
<1>1. Init => TypeOK
  <2> SUFFICES ASSUME Init PROVE TypeOK
    OBVIOUS
  <2>1. Units
    <3>1. available \in Int /\ ~(available < 0)
      BY DEF Init
    <3>2. announced \in BOOLEAN /\ taker \in Kinds \cup {"reconcile"}
      BY DEF Init, Kinds
    <3> QED
      BY <3>1, <3>2 DEF Units
  <2>2. Marks
    <3>1. faults \in 0..MaxFaults
      BY DEF Init
    <3>2. solo \in Handlers \cup {None} /\ disturbed \in BOOLEAN
      BY DEF Init
    <3> QED
      BY <3>1, <3>2 DEF Marks
  <2>3. handler \in [Handlers -> HandlerType] /\ events \in Seq(EventType)
    <3>1. handler \in [Handlers -> HandlerType]
      BY HandlerRecords DEF Init
    <3>2. events \in Seq(EventType)
      BY DEF Init
    <3> QED
      BY <3>1, <3>2
  <2>4. viewer \in ViewerType /\ shown \in Int \cup {None} /\ changes \in 0..MaxChanges
    BY DEF Init, ViewerType
  <2>5. rows \in [Res -> {"none", "reserved", "ended"}]
    BY DEF Init
  <2> QED
    BY <2>1, <2>2, <2>3, <2>4, <2>5, TypeParts
<1>2. TypeOK /\ [Next]_vars => TypeOK'
  <2> SUFFICES ASSUME TypeOK, [Next]_vars PROVE TypeOK'
    OBVIOUS
  <2>0. /\ rows \in [Res -> {"none", "reserved", "ended"}] /\ events \in Seq(EventType)
        /\ handler \in [Handlers -> HandlerType] /\ viewer \in ViewerType
        /\ shown \in Int \cup {None} /\ changes \in 0..MaxChanges /\ Units /\ Marks
    BY TypeParts
  <2>1. ASSUME Units', Marks', viewer' \in ViewerType, shown' \in Int \cup {None},
               events' \in Seq(EventType), changes' \in 0..MaxChanges,
               UNCHANGED <<rows, handler>>
        PROVE  TypeOK'
    BY <2>0, <2>1 DEF TypeOK, Units, Marks, HandlerType, EventType, ViewerType
  <2>2. CASE UndoConfirm \/ ReconcilerSet
    <3>1. /\ Change /\ Disturb
          /\ UNCHANGED <<rows, handler, events, views, faults>>
      BY <2>2 DEF UndoConfirm, ReconcilerSet
    <3>2. Marks'
      BY <2>0, <3>1 DEF Marks, Disturb
    <3>3. Units'
      <4>1. CASE UndoConfirm
        BY <4>1, PartsKept DEF UndoConfirm
      <4>2. CASE ReconcilerSet
        <5>1. available' \in Int
          BY <4>2 DEF ReconcilerSet
        <5>2. announced' \in BOOLEAN /\ taker' = "reconcile"
          BY <4>2 DEF ReconcilerSet
        <5> QED
          BY <5>1, <5>2 DEF Units
      <4> QED
        BY <2>2, <4>1, <4>2
    <3> QED
      BY <2>0, <2>1, <3>1, <3>2, <3>3, PartsKept DEF views
  <2>3. CASE Subscribe \/ Register \/ GetSale \/ SendSnapshot \/ FanOut \/ EventLost
    <3>1. /\ UNCHANGED <<rows, handler, changes>>
          /\ UNCHANGED <<available, announced, taker>>
      BY <2>3 DEF Subscribe, Register, GetSale, SendSnapshot, FanOut, EventLost, sale
    <3>2. Units'
      BY <3>1, PartsKept DEF KeepUnits
    <3>3. Marks'
      <4>1. CASE Subscribe
        BY <2>0, <4>1 DEF Subscribe, Marks
      <4>2. CASE Register \/ SendSnapshot \/ FanOut
        BY <2>0, <4>2 DEF Register, SendSnapshot, FanOut, Marks
      <4>3. CASE GetSale \/ EventLost
        BY <4>3, PartsKept DEF GetSale, EventLost
      <4> QED
        BY <2>3, <4>1, <4>2, <4>3
    <3>4. viewer' \in ViewerType
      <4>1. /\ \A n \in Int : /\ [viewer EXCEPT !.pc = "snapshot", !.snap = n] \in ViewerType
                              /\ [viewer EXCEPT !.pc = "connected", !.snap = n] \in ViewerType
            /\ [viewer EXCEPT !.pc = "subscribed"] \in ViewerType
            /\ [viewer EXCEPT !.pc = "connected"] \in ViewerType
            /\ [viewer EXCEPT !.joined = TRUE] \in ViewerType
        BY <2>0 DEF ViewerType
      <4>2. available \in Int /\ 0 \in Int
        BY <2>0 DEF Units
      <4> QED
        BY <2>0, <2>3, <4>1, <4>2 DEF Subscribe, Register, GetSale, SendSnapshot,
           FanOut, EventLost, views
    <3>5. events' \in Seq(EventType) /\ shown' \in Int \cup {None}
      <4>1. CASE FanOut \/ EventLost
        <5>1. events # <<>> /\ events' = Tail(events)
          BY <4>1 DEF FanOut, EventLost
        <5>2. events' \in Seq(EventType) /\ Head(events) \in EventType
          BY <2>0, <5>1, EventsType
        <5>3. Head(events).event = "stock_update" => Head(events).remaining \in Int
          BY <5>2 DEF EventType, SaleEnded
        <5> QED
          BY <2>0, <4>1, <5>2, <5>3 DEF FanOut, EventLost, views
      <4>2. CASE SendSnapshot
        BY <2>0, <4>2 DEF SendSnapshot, ViewerType
      <4>3. CASE Subscribe \/ Register \/ GetSale
        BY <2>0, <4>3 DEF Subscribe, Register, GetSale
      <4> QED
        BY <2>3, <4>1, <4>2, <4>3
    <3> QED
      BY <2>0, <2>1, <3>1, <3>2, <3>3, <3>4, <3>5
  <2>4. CASE UNCHANGED vars
    BY <2>0, <2>1, <2>4 DEF vars, Units, Marks, views
  <2>5. CASE ScriptUnanswered
    <3>1. Marks' /\ UNCHANGED <<rows, handler, events, views, changes>>
      BY <2>5, PartsKept DEF ScriptUnanswered
    <3>2. Units'
      <4>1. "reserve" \in Kinds /\ "promote" \in Kinds
        BY DEF Kinds
      <4> QED
        BY <2>5, <4>1, PartsKept DEF ScriptUnanswered
    <3> QED
      BY <2>0, <2>1, <3>1, <3>2 DEF views
  <2> QED
    BY <2>2, <2>3, <2>4, <2>5, HandlersKeepTypes DEF Next
<1> QED
  BY <1>1, <1>2, PTL DEF Spec

-----------------------------------------------------------------------------
(* The inductive invariant behind EndAnnounced. *)

\* The handler is on its way to publish the end.
WillAnnounce(h) ==
    /\ handler[h].kind = "reserve"
    /\ \/ handler[h].pc \in {"row", "get", "ended"}
       \/ handler[h].pc = "publish" /\ handler[h].seen = 0

EndInv ==
    (available = 0 /\ taker = "reserve" /\ faults = 0)
    => announced \/ \E h \in Handlers : WillAnnounce(h)

(***************************************************************************)
(* A step that leaves the counter alone keeps the invariant if the handler *)
(* that takes it still owes what it owed.                                  *)
(***************************************************************************)
LEMMA OthersKeepEndInv ==
    ASSUME TypeOK, EndInv, KeepUnits, faults' \in Nat, faults' = 0 => faults = 0,
           available = 0 => \A h \in Handlers : WillAnnounce(h) => WillAnnounce(h)'
    PROVE  EndInv'
  BY DEF EndInv, KeepUnits

(***************************************************************************)
(* A returned unit leaves no handler in debt: the counter is not 0 then,   *)
(* or the debt was a reconciler's.                                         *)
(***************************************************************************)
LEMMA GivingKeepsEndInv ==
    ASSUME TypeOK, GiveUnit
    PROVE  EndInv'
<1>1. available' = 0 => available < 0
  BY DEF TypeOK, GiveUnit
<1>2. available' = 0 => taker' # "reserve"
  BY <1>1 DEF TypeOK, GiveUnit
<1> QED
  BY <1>2 DEF EndInv

(***************************************************************************)
(* EndInv is an invariant.                                                 *)
(***************************************************************************)
THEOREM EndInvariant == Spec => []EndInv
<1> USE EventsAssumption
<1>1. Init => EndInv
  BY DEF Init, EndInv
<1>2. TypeOK /\ TypeOK' /\ EndInv /\ [Next]_vars => EndInv'
  <2> SUFFICES ASSUME TypeOK, TypeOK', EndInv, [Next]_vars
               PROVE  EndInv'
    OBVIOUS
  <2>0. /\ handler \in [Handlers -> HandlerType] /\ faults \in Nat /\ faults' \in Nat
    BY TypeParts DEF TypeOK
  <2>1. /\ Fault => faults' # 0
        /\ NoFault => faults' = faults
    BY <2>0 DEF Fault, NoFault
  <2>2. Fault => EndInv'
    BY <2>1 DEF EndInv
  <2>3. ASSUME NEW h \in Handlers, NEW r \in Res, Reserve(h, r)
        PROVE  EndInv'
    <3>1. handler'[h] = Job("row", "reserve", r)
      BY <2>0, <2>3 DEF Reserve
    <3>2. WillAnnounce(h)'
      BY <3>1 DEF WillAnnounce, Job
    <3> QED
      BY <3>2 DEF EndInv
  <2>4. ASSUME NEW h \in Handlers, NEW kind \in {"release", "expire"}, NEW r \in Res,
               Check(h, kind, r)
        PROVE  EndInv'
    <3>1. KeepUnits /\ faults' = faults /\ handler[h] = Rest
      BY <2>4 DEF Check, Begin
    <3>2. ~WillAnnounce(h)
      BY <3>1, HandlerRecords DEF WillAnnounce
    <3>3. \A g \in Handlers : WillAnnounce(g) => WillAnnounce(g)'
      BY <2>0, <2>4, <3>2 DEF Check, WillAnnounce
    <3> QED
      BY <2>0, <3>1, <3>3, OthersKeepEndInv
  <2>5. ASSUME NEW h \in Handlers, ReleaseScript(h)
        PROVE  EndInv'
    BY <2>2, <2>5, GivingKeepsEndInv DEF ReleaseScript
  <2>6. ASSUME NEW h \in Handlers, WriteRow(h)
        PROVE  EndInv'
    <3>1. CASE Goto(h, "get") /\ KeepUnits /\ NoFault
      <4>1. \A g \in Handlers : WillAnnounce(g) => WillAnnounce(g)'
        BY <2>0, <2>6, <3>1 DEF WriteRow, Goto, WillAnnounce
      <4> QED
        BY <2>0, <2>1, <3>1, <4>1, OthersKeepEndInv
    <3>2. CASE ~Taken(h) /\ KeepUnits /\ Finish(h) /\ UNCHANGED <<rows, faults>>
      <4>1. \A g \in Handlers : WillAnnounce(g) => WillAnnounce(g)'
        BY <2>0, <3>2 DEF Finish, Taken, WillAnnounce
      <4> QED
        BY <2>0, <3>2, <4>1, OthersKeepEndInv
    <3> QED
      BY <2>2, <2>6, <3>1, <3>2, GivingKeepsEndInv DEF WriteRow
  <2>7. ASSUME NEW h \in Handlers, GetAvailable(h)
        PROVE  EndInv'
    <3>1. KeepUnits
      BY <2>7 DEF GetAvailable
    <3>2. CASE NoFault
      <4>1. PICK n \in {available, 0} :
               handler' = [handler EXCEPT ![h].pc = "publish", ![h].seen = n]
        BY <2>7 DEF GetAvailable, ReadStock
      <4>2. available = 0 => \A g \in Handlers : WillAnnounce(g) => WillAnnounce(g)'
        BY <2>0, <4>1 DEF WillAnnounce
      <4> QED
        BY <2>0, <2>1, <3>1, <3>2, <4>2, OthersKeepEndInv
    <3> QED
      BY <2>2, <2>7, <3>2 DEF GetAvailable
  <2>8. ASSUME NEW h \in Handlers, PublishStock(h)
        PROVE  EndInv'
    <3>1. KeepUnits
      BY <2>8 DEF PublishStock
    <3>2. CASE faults' = faults
      <4>1. WillAnnounce(h) => WillAnnounce(h)'
        <5> SUFFICES ASSUME WillAnnounce(h) PROVE WillAnnounce(h)'
          OBVIOUS
        <5>1. handler[h].kind = "reserve" /\ SoldOut(handler[h].seen)
          BY <2>8 DEF PublishStock, WillAnnounce, SoldOut
        <5>2. handler' = [handler EXCEPT ![h].pc = "ended"]
          BY <2>8, <5>1 DEF PublishStock, Goto
        <5> QED
          BY <2>0, <5>1, <5>2 DEF WillAnnounce
      <4>2. \A g \in Handlers \ {h} : handler'[g] = handler[g]
        BY <2>0, <2>8 DEF PublishStock, Goto, Finish
      <4>3. \A g \in Handlers : WillAnnounce(g) => WillAnnounce(g)'
        BY <4>1, <4>2 DEF WillAnnounce
      <4> QED
        BY <2>0, <3>1, <3>2, <4>3, OthersKeepEndInv
    <3> QED
      BY <2>2, <2>8, <3>2 DEF PublishStock, Send
  <2>9. ASSUME NEW h \in Handlers, PublishEnded(h)
        PROVE  EndInv'
    BY <2>9 DEF PublishEnded, EndInv
  <2>10. ASSUME NEW h \in Handlers, Promote(h)
         PROVE  EndInv'
    <3>1. CASE Finish(h) /\ KeepUnits /\ NoFault
      <4>1. \A g \in Handlers : WillAnnounce(g) => WillAnnounce(g)'
        BY <2>0, <2>10, <3>1 DEF Promote, Finish, WillAnnounce
      <4> QED
        BY <2>0, <2>1, <3>1, <4>1, OthersKeepEndInv
    <3>2. CASE TakeUnit("promote")
      BY <3>2 DEF TakeUnit, EndInv
    <3> QED
      BY <2>10, <3>1, <3>2 DEF Promote
  <2>11. CASE UndoConfirm
    BY <2>11, GivingKeepsEndInv DEF UndoConfirm
  <2>12. CASE ReconcilerSet
    BY <2>12 DEF ReconcilerSet, EndInv
  <2>13. CASE Subscribe \/ Register \/ GetSale \/ SendSnapshot \/ FanOut \/ EventLost
    <3>1. KeepUnits /\ UNCHANGED handler
      BY <2>13 DEF Subscribe, Register, GetSale, SendSnapshot, FanOut, EventLost,
         sale, KeepUnits
    <3>2. Fault \/ faults' = faults
      BY <2>13 DEF Subscribe, Register, GetSale, SendSnapshot, FanOut, EventLost, NoFault
    <3>3. \A h \in Handlers : WillAnnounce(h) => WillAnnounce(h)'
      BY <3>1 DEF WillAnnounce
    <3> QED
      BY <2>0, <2>2, <3>1, <3>2, <3>3, OthersKeepEndInv
  <2>14. CASE UNCHANGED vars
    BY <2>14 DEF vars, EndInv, WillAnnounce
  <2>15. CASE ScriptUnanswered
    <3>1. faults' # 0
      BY <2>0, <2>15 DEF ScriptUnanswered, Fault
    <3> QED
      BY <3>1 DEF EndInv
  <2> QED
    BY <2>3, <2>4, <2>5, <2>6, <2>7, <2>8, <2>9, <2>10, <2>11, <2>12, <2>13, <2>14,
       <2>15 DEF Next
<1> QED
  BY <1>1, <1>2, EventsTypes, PTL DEF Spec

(***************************************************************************)
(* When the last unit went to a Reserve, the end of the sale has been      *)
(* announced once the handlers are done: nobody is left who owes it.       *)
(***************************************************************************)
THEOREM EndIsAnnounced == Spec => []EndAnnounced
<1>1. EndInv => EndAnnounced
  BY DEF EndInv, EndAnnounced, Idle, Rest, Job, WillAnnounce
<1> QED
  BY <1>1, EndInvariant, PTL

-----------------------------------------------------------------------------
(* The inductive invariant behind ViewerCurrent. *)

\* A viewer that shows s has shown n last once the events es are delivered.
Shows(s, es, n) ==
    \/ /\ s = n
       /\ \A i \in 1..Len(es) : es[i] = SaleEnded
    \/ \E i \in 1..Len(es) :
          /\ es[i] = StockUpdate(n)
          /\ \A j \in (i + 1)..Len(es) : es[j] = SaleEnded

WillShow(n) == Shows(shown, events, n)

\* The stock as it was before the change that handler h has not published.
Published(h) == IF Taken(h) THEN available + 1 ELSE available - 1

Watched == viewer.pc = "connected" /\ viewer.joined

\* The solo handler is alone and what it is about to publish is current.
SoloInv ==
    solo # None =>
        /\ ~Connecting
        /\ \A g \in Handlers \ {solo} : handler[g] = Rest
        /\ handler[solo].pc = "publish" => handler[solo].seen = available

\* The viewer will show the stock, but for the change being made.
Follows ==
    /\ \A h \in Handlers : handler[h] # Rest => solo = h
    /\ Connecting => Quiet
    /\ viewer.pc = "snapshot" => viewer.snap = available
    /\ viewer.pc = "connected" /\ ~viewer.joined => shown = available
    /\ Watched =>
        /\ Idle => WillShow(available)
        /\ \A h \in Handlers :
              /\ handler[h].pc \in {"release", "ended", "promote"} => WillShow(available)
              /\ handler[h].pc = "row" => WillShow(Published(h))

ViewInv ==
    /\ viewer.pc = "new" => ~viewer.joined
    /\ SoloInv
    /\ ~disturbed => Follows

(***************************************************************************)
(* A stock_update published last decides what will be shown.               *)
(***************************************************************************)
LEMMA UpdateShows ==
    ASSUME NEW s, NEW es \in Seq(EventType), NEW n
    PROVE  Shows(s, Append(es, StockUpdate(n)), n)
  BY DEF Shows

(***************************************************************************)
(* A sale_ended changes nothing on the screen.                             *)
(***************************************************************************)
LEMMA EndedShows ==
    ASSUME NEW s, NEW es \in Seq(EventType), NEW n, Shows(s, es, n)
    PROVE  Shows(s, Append(es, SaleEnded), n)
  BY DEF Shows

(***************************************************************************)
(* With nothing pending it is what is on the screen.                       *)
(***************************************************************************)
LEMMA NothingPending ==
    ASSUME NEW s, NEW n
    PROVE  Shows(s, <<>>, n) <=> s = n
  BY DEF Shows

(***************************************************************************)
(* A delivered event moves from the queue to the screen: what will be      *)
(* shown last stays the same.                                              *)
(***************************************************************************)
LEMMA DeliveryShows ==
    ASSUME NEW s, NEW es \in Seq(EventType), NEW n, es # <<>>, Shows(s, es, n),
           NEW t, t = IF Head(es).event = "stock_update" THEN Head(es).remaining ELSE s
    PROVE  Shows(t, Tail(es), n)
<1>1. /\ Len(es) \in Nat /\ Len(es) >= 1 /\ Len(Tail(es)) = Len(es) - 1
      /\ Head(es) = es[1] /\ Tail(es) \in Seq(EventType)
      /\ \A i \in 1..Len(Tail(es)) : Tail(es)[i] = es[i + 1]
  OBVIOUS
<1>2. /\ SaleEnded.event # "stock_update"
      /\ StockUpdate(n).event = "stock_update" /\ StockUpdate(n).remaining = n
  BY DEF SaleEnded, StockUpdate
<1>3. CASE s = n /\ \A i \in 1..Len(es) : es[i] = SaleEnded
  <2>1. t = n
    BY <1>1, <1>2, <1>3
  <2>2. \A i \in 1..Len(Tail(es)) : Tail(es)[i] = SaleEnded
    BY <1>1, <1>3
  <2> QED
    BY <2>1, <2>2 DEF Shows
<1>4. ASSUME NEW i \in 1..Len(es), es[i] = StockUpdate(n),
             \A j \in (i + 1)..Len(es) : es[j] = SaleEnded
      PROVE  Shows(t, Tail(es), n)
  <2>1. CASE i = 1
    <3>1. t = n
      BY <1>1, <1>2, <1>4, <2>1
    <3>2. \A k \in 1..Len(Tail(es)) : Tail(es)[k] = SaleEnded
      BY <1>1, <1>4, <2>1
    <3> QED
      BY <3>1, <3>2 DEF Shows
  <2>2. CASE i # 1
    <3>1. i - 1 \in 1..Len(Tail(es)) /\ Tail(es)[i - 1] = StockUpdate(n)
      BY <1>1, <1>4, <2>2
    <3>2. \A j \in (i - 1 + 1)..Len(Tail(es)) : Tail(es)[j] = SaleEnded
      BY <1>1, <1>4, <2>2
    <3> QED
      BY <3>1, <3>2 DEF Shows
  <2> QED
    BY <2>1, <2>2
<1> QED
  BY <1>3, <1>4 DEF Shows

(***************************************************************************)
(* Only Release and the expiry run release.lua on a row.                   *)
(***************************************************************************)
ReleasesReturn == \A h \in Handlers : handler[h].pc = "release" => ~Taken(h)

(***************************************************************************)
(* ReleasesReturn is an invariant.                                         *)
(***************************************************************************)
LEMMA OnlyReturnsRelease == Spec => []ReleasesReturn
<1>1. Init => ReleasesReturn
  BY DEF Init, ReleasesReturn, Rest, Job
<1>2. TypeOK /\ ReleasesReturn /\ [Next]_vars => ReleasesReturn'
  <2> SUFFICES ASSUME TypeOK, ReleasesReturn, [Next]_vars
               PROVE  ReleasesReturn'
    OBVIOUS
  <2>0. handler \in [Handlers -> HandlerType]
    BY TypeParts
  <2>1. ASSUME NEW h \in Handlers, NEW r, handler' = [handler EXCEPT ![h] = r],
               r.pc = "release" => r.kind \in {"release", "expire"}
        PROVE  ReleasesReturn'
    BY <2>0, <2>1 DEF ReleasesReturn, Taken
  <2>2. ASSUME NEW h \in Handlers, NEW step \in Steps \ {"release"}, Goto(h, step)
        PROVE  ReleasesReturn'
    BY <2>0, <2>2 DEF ReleasesReturn, Taken, Goto
  <2>3. ASSUME NEW h \in Handlers, Finish(h)
        PROVE  ReleasesReturn'
    BY <2>1, <2>3, HandlerRecords DEF Finish
  <2>4. ASSUME NEW h \in Handlers, NEW r \in Res,
               Reserve(h, r) \/ Check(h, "release", r) \/ Check(h, "expire", r)
        PROVE  ReleasesReturn'
    BY <2>1, <2>4 DEF Reserve, Check, Job
  <2>5. ASSUME NEW h \in Handlers,
               ReleaseScript(h) \/ WriteRow(h) \/ PublishStock(h) \/ PublishEnded(h)
        PROVE  ReleasesReturn'
    <3>1. /\ "row" \in Steps \ {"release"} /\ "get" \in Steps \ {"release"}
          /\ "ended" \in Steps \ {"release"} /\ "promote" \in Steps \ {"release"}
      BY DEF Steps
    <3>2. \/ Goto(h, "row") \/ Goto(h, "get") \/ Goto(h, "ended")
          \/ Goto(h, "promote") \/ Finish(h)
      BY <2>5 DEF ReleaseScript, WriteRow, PublishStock, PublishEnded
    <3> QED
      BY <2>2, <2>3, <3>1, <3>2
  <2>6. ASSUME NEW h \in Handlers, GetAvailable(h)
        PROVE  ReleasesReturn'
    BY <2>0, <2>6 DEF GetAvailable, ReleasesReturn, Taken
  <2>7. ASSUME NEW h \in Handlers, Promote(h)
        PROVE  ReleasesReturn'
    <3>1. CASE Finish(h)
      BY <2>3, <3>1
    <3>2. ASSUME NEW r \in Res, handler' = [handler EXCEPT ![h] = Job("row", "promote", r)]
          PROVE  ReleasesReturn'
      BY <2>1, <3>2 DEF Job
    <3> QED
      BY <2>7, <3>1, <3>2 DEF Promote
  <2>8. CASE UNCHANGED handler
    BY <2>8 DEF ReleasesReturn, Taken
  <2> QED
    BY <2>4, <2>5, <2>6, <2>7, <2>8
       DEF Next, vars, UndoConfirm, ScriptUnanswered, ReconcilerSet, Subscribe, Register, GetSale,
           SendSnapshot, FanOut, EventLost, sale
<1> QED
  BY <1>1, <1>2, EventsTypes, PTL DEF Spec

(***************************************************************************)
(* A step that disturbs the view leaves nothing to show.                   *)
(***************************************************************************)
LEMMA DisturbanceKeepsView ==
    ASSUME ViewInv, Disturb, viewer' = viewer \/ viewer'.pc # "new"
    PROVE  ViewInv'
  BY DEF ViewInv, SoloInv, Disturb

(***************************************************************************)
(* The step of a handler that is alone keeps ViewInv if what it has read   *)
(* is current and, unless the view is disturbed, what it leaves pending    *)
(* will show the stock, or the stock before the change it has made.        *)
(***************************************************************************)
LEMMA SoloKeepsView ==
    ASSUME ViewInv, NEW h \in Handlers, solo' = h, ~Connecting, UNCHANGED viewer,
           \A g \in Handlers \ {h} : handler'[g] = Rest,
           handler'[h].pc = "publish" => handler'[h].seen = available',
           ~disturbed' /\ Watched =>
             /\ handler'[h].pc \in {"idle", "release", "ended", "promote"}
                  => Shows(shown', events', available')
             /\ handler'[h].pc = "row" => Shows(shown', events', Published(h)')
    PROVE  ViewInv'
<1>1. ~Connecting' /\ (Watched' <=> Watched)
  BY DEF Connecting, Watched
<1>2. Rest.pc = "idle"
  BY HandlerRecords
<1>3. SoloInv'
  BY <1>1 DEF SoloInv
<1>4. ASSUME ~disturbed' PROVE Follows'
  <2>1. \A g \in Handlers : handler'[g].pc # "idle" => g = h
    BY <1>2
  <2>2. /\ \A g \in Handlers : handler'[g] # Rest => solo' = g
        /\ (Connecting => Quiet)'
        /\ viewer'.pc # "snapshot"
        /\ viewer'.pc = "connected" => viewer'.joined
    BY <1>1 DEF Connecting
  <2>3. ASSUME Watched'
        PROVE  /\ Idle' => Shows(shown', events', available')
               /\ \A g \in Handlers :
                     /\ handler'[g].pc \in {"release", "ended", "promote"}
                        => Shows(shown', events', available')
                     /\ handler'[g].pc = "row" => Shows(shown', events', Published(g)')
    <3>1. Idle' => handler'[h].pc = "idle"
      BY <1>2 DEF Idle
    <3> QED
      BY <1>1, <1>4, <2>1, <2>3, <3>1
  <2>4. (Watched => /\ Idle => WillShow(available)
                    /\ \A g \in Handlers :
                          /\ handler[g].pc \in {"release", "ended", "promote"}
                             => WillShow(available)
                          /\ handler[g].pc = "row" => WillShow(Published(g)))'
    BY <2>3 DEF WillShow
  <2> QED
    BY <2>2, <2>4 DEF Follows
<1> QED
  BY <1>3, <1>4 DEF ViewInv

(***************************************************************************)
(* Every step of a handler keeps ViewInv.                                  *)
(***************************************************************************)
LEMMA HandlersKeepView ==
    ASSUME TypeOK, ReleasesReturn, ViewInv, NEW h \in Handlers,
           \/ \E r \in Res : Reserve(h, r) \/ Check(h, "release", r) \/ Check(h, "expire", r)
           \/ ReleaseScript(h) \/ WriteRow(h) \/ GetAvailable(h)
           \/ PublishStock(h) \/ PublishEnded(h) \/ Promote(h)
    PROVE  ViewInv'
<1>0. /\ handler \in [Handlers -> HandlerType] /\ handler[h] \in HandlerType
      /\ events \in Seq(EventType) /\ available \in Int /\ h # None
  BY TypeParts, EventsAssumption DEF TypeOK
<1>k. Rest.pc = "idle"
  BY HandlerRecords
<1>v. UNCHANGED <<viewer, shown>>
  BY DEF Reserve, Check, ReleaseScript, WriteRow, GetAvailable, PublishStock,
     PublishEnded, Promote, views
<1>1. Disturb => ViewInv'
  BY <1>v, DisturbanceKeepsView
\* Starting alone.
<1>2. ASSUME Begin(h), NEW r, handler' = [handler EXCEPT ![h] = r], UNCHANGED events,
             \/ r.pc = "release" /\ available' = available
             \/ r.pc = "row" /\ Published(h)' = available
      PROVE  ViewInv'
  <2>1. CASE ~(Idle /\ ~Connecting)
    <3>1. Disturb
      BY <1>2, <2>1 DEF Begin, Disturb
    <3> QED
      BY <1>1, <3>1
  <2>2. CASE Idle /\ ~Connecting
    <3>1. solo' = h /\ disturbed' = disturbed
      BY <1>2, <2>2, TypeParts DEF Begin, Marks
    <3>2. /\ handler'[h] = r
          /\ \A g \in Handlers \ {h} : handler'[g] = Rest
      BY <1>0, <1>2, <2>2 DEF Idle
    <3>3. ~disturbed' /\ Watched => Shows(shown', events', available)
      BY <1>2, <1>v, <2>2, <3>1 DEF ViewInv, Follows, WillShow
    <3> QED
      BY <1>2, <1>v, <2>2, <3>1, <3>2, <3>3, SoloKeepsView
  <2> QED
    BY <2>1, <2>2
\* Going on, alone or not.
<1>3. ASSUME handler[h].pc # "idle", UNCHANGED solo,
             solo # h => disturbed' = disturbed, NEW r, handler' = [handler EXCEPT ![h] = r],
             solo = h => (r.pc = "publish" => r.seen = available'),
             solo = h /\ ~disturbed' /\ Watched =>
               /\ r.pc \in {"idle", "release", "ended", "promote"}
                    => Shows(shown', events', available')
               /\ r.pc = "row" => Shows(shown', events', Published(h)')
      PROVE  ViewInv'
  <2>1. handler[h] # Rest
    BY <1>3, <1>k
  <2>2. CASE solo = h
    <3>1. /\ handler'[h] = r /\ ~Connecting /\ solo' = h
          /\ \A g \in Handlers \ {h} : handler'[g] = Rest
      BY <1>0, <1>3, <2>2 DEF ViewInv, SoloInv
    <3> QED
      BY <1>3, <1>v, <2>2, <3>1, SoloKeepsView
  <2>3. CASE solo # h
    <3>1. solo = None
      BY <2>1, <2>3 DEF ViewInv, SoloInv
    <3>2. disturbed
      BY <2>1, <2>3, TypeParts DEF ViewInv, Follows, Marks
    <3>3. Disturb
      BY <1>3, <2>3, <3>1, <3>2 DEF Disturb
    <3> QED
      BY <1>1, <3>3
  <2> QED
    BY <2>2, <2>3
<1>4. ASSUME ~disturbed, Watched
      PROVE  /\ handler[h].pc \in {"release", "ended", "promote"}
                => Shows(shown, events, available)
             /\ handler[h].pc = "row" => Shows(shown, events, Published(h))
  BY <1>4 DEF ViewInv, Follows, WillShow
<1>5. ASSUME NEW r \in Res, Reserve(h, r)
      PROVE  ViewInv'
  <2>1. /\ Begin(h) /\ TakeUnit("reserve") /\ UNCHANGED events
        /\ handler' = [handler EXCEPT ![h] = Job("row", "reserve", r)]
    BY <1>5 DEF Reserve
  <2>2. Job("row", "reserve", r).pc = "row" /\ Job("row", "reserve", r).kind = "reserve"
    BY DEF Job
  <2>3. handler'[h].kind = "reserve"
    BY <1>0, <2>1, <2>2
  <2>4. Published(h)' = available
    BY <1>0, <2>1, <2>3 DEF TakeUnit, Published, Taken
  <2> QED
    BY <1>2, <2>1, <2>2, <2>4
<1>6. ASSUME NEW kind \in {"release", "expire"}, NEW r \in Res, Check(h, kind, r)
      PROVE  ViewInv'
  <2>1. Job("release", kind, r).pc = "release"
    BY DEF Job
  <2> QED
    BY <1>2, <1>6, <2>1 DEF Check, KeepUnits
<1>7. CASE ReleaseScript(h)
  <2>1. CASE GiveUnit /\ Goto(h, "row") /\ NoFault
    <3> DEFINE r == [handler[h] EXCEPT !.pc = "row"]
    <3>1. /\ handler[h].pc = "release" /\ UNCHANGED <<events, solo, disturbed>>
          /\ handler' = [handler EXCEPT ![h] = r] /\ r.pc = "row"
      BY <1>0, <1>7, <2>1 DEF ReleaseScript, Goto, NoFault, HandlerType
    <3>2. r.kind = handler[h].kind /\ ~Taken(h)
      BY <1>0, <3>1 DEF ReleasesReturn, HandlerType
    <3>3. handler'[h].kind = handler[h].kind
      BY <1>0, <3>1, <3>2
    <3>4. Published(h)' = available
      BY <1>0, <2>1, <3>2, <3>3 DEF Published, Taken, GiveUnit
    <3> QED
      BY <1>3, <1>4, <1>v, <3>1, <3>4
  <2> QED
    BY <1>1, <1>7, <2>1 DEF ReleaseScript, Fault
<1>8. CASE WriteRow(h)
  <2>0. handler[h].pc = "row" /\ UNCHANGED events
    BY <1>8 DEF WriteRow
  <2>1. CASE Goto(h, "get") /\ KeepUnits /\ NoFault
    <3> DEFINE r == [handler[h] EXCEPT !.pc = "get"]
    <3>1. /\ UNCHANGED <<solo, disturbed>>
          /\ handler' = [handler EXCEPT ![h] = r] /\ r.pc = "get"
      BY <1>0, <2>1 DEF Goto, NoFault, HandlerType
    <3> QED
      BY <1>3, <2>0, <3>1
  <2>2. CASE Taken(h) /\ GiveUnit /\ Finish(h) /\ NoFault
    <3>1. UNCHANGED <<solo, disturbed>> /\ handler' = [handler EXCEPT ![h] = Rest]
      BY <2>2 DEF Finish, NoFault
    <3>2. available' = Published(h)
      BY <2>2 DEF GiveUnit, Published
    <3> QED
      BY <1>3, <1>4, <1>k, <1>v, <2>0, <3>1, <3>2
  <2> QED
    BY <1>1, <1>8, <2>1, <2>2 DEF WriteRow, Fault
<1>9. CASE GetAvailable(h)
  <2>1. PICK n \in {available, 0} :
           /\ handler' = [handler EXCEPT
                 ![h] = [handler[h] EXCEPT !.pc = "publish", !.seen = n]]
           /\ n # available => Fault
           /\ Fault \/ NoFault
    BY <1>9, HandlerMoves
  <2>2. CASE n = available /\ NoFault
    <3> DEFINE r == [handler[h] EXCEPT !.pc = "publish", !.seen = available]
    <3>1. /\ handler[h].pc = "get" /\ available' = available
          /\ UNCHANGED <<solo, disturbed>> /\ handler' = [handler EXCEPT ![h] = r]
      BY <1>9, <2>1, <2>2 DEF GetAvailable, KeepUnits, NoFault
    <3>2. r.pc = "publish" /\ r.seen = available
      BY <1>0, HandlerRecords
    <3> QED
      BY <1>3, <3>1, <3>2
  <2> QED
    BY <1>1, <2>1, <2>2 DEF Fault
<1>10. CASE PublishStock(h)
  <2>1. CASE Fault
    BY <1>1, <2>1 DEF Fault
  <2>2. CASE /\ Send(StockUpdate(handler[h].seen)) /\ UNCHANGED solo
             /\ disturbed' = (disturbed /\ solo # h)
    <3>1. PICK r \in {[handler[h] EXCEPT !.pc = "ended"],
                      [handler[h] EXCEPT !.pc = "promote"], Rest} :
             handler' = [handler EXCEPT ![h] = r]
      BY <1>10, HandlerMoves
    <3>2. r.pc \in {"ended", "promote", "idle"}
      BY <1>0, <1>k, <3>1 DEF HandlerType
    <3>3. handler[h].pc = "publish" /\ available' = available
      BY <1>10 DEF PublishStock, KeepUnits
    <3>4. solo = h => Shows(shown', events', available')
      <4>1. solo = h => handler[h].seen = available
        BY <1>0, <3>3 DEF ViewInv, SoloInv
      <4>2. solo = h => events' = Append(events, StockUpdate(available))
        BY <2>2, <4>1 DEF Send
      <4> QED
        BY <1>0, <3>3, <4>2, UpdateShows
    <3>5. solo # h => disturbed' = disturbed
      BY <2>2, TypeParts DEF Marks
    <3> QED
      BY <1>3, <2>2, <3>1, <3>2, <3>3, <3>4, <3>5
  <2> QED
    BY <1>10, <2>1, <2>2 DEF PublishStock
<1>11. CASE PublishEnded(h)
  <2>1. CASE Fault
    BY <1>1, <2>1 DEF Fault
  <2>2. CASE Send(SaleEnded) /\ UNCHANGED <<solo, disturbed>>
    <3>1. /\ handler[h].pc = "ended" /\ handler' = [handler EXCEPT ![h] = Rest]
          /\ available' = available /\ events' = Append(events, SaleEnded)
      BY <1>11, <2>2 DEF PublishEnded, Send, Finish
    <3>2. ~disturbed' /\ Watched => Shows(shown', events', available')
      BY <1>0, <1>4, <1>v, <2>2, <3>1, EndedShows
    <3> QED
      BY <1>3, <1>k, <2>2, <3>1, <3>2
  <2> QED
    BY <1>11, <2>1, <2>2 DEF PublishEnded
<1>12. CASE Promote(h)
  <2>0. handler[h].pc = "promote" /\ UNCHANGED events
    BY <1>12 DEF Promote
  <2>1. CASE Finish(h) /\ KeepUnits /\ NoFault
    <3>1. /\ UNCHANGED <<solo, disturbed>> /\ available' = available
          /\ handler' = [handler EXCEPT ![h] = Rest]
      BY <2>1 DEF Finish, KeepUnits, NoFault
    <3> QED
      BY <1>3, <1>4, <1>k, <1>v, <2>0, <3>1
  <2>2. ASSUME NEW r \in Res, TakeUnit("promote"), NoFault,
               handler' = [handler EXCEPT ![h] = Job("row", "promote", r)]
        PROVE  ViewInv'
    <3>1. Job("row", "promote", r).pc = "row" /\ Job("row", "promote", r).kind = "promote"
      BY DEF Job
    <3>2. handler'[h].kind = "promote"
      BY <1>0, <2>2, <3>1
    <3>3. Published(h)' = available
      BY <1>0, <2>2, <3>2 DEF TakeUnit, Published, Taken
    <3>4. UNCHANGED <<solo, disturbed>>
      BY <2>2 DEF NoFault
    <3> QED
      BY <1>3, <1>4, <1>v, <2>0, <2>2, <3>1, <3>3, <3>4
  <2> QED
    BY <1>1, <1>12, <2>1, <2>2 DEF Promote, Fault
<1> QED
  BY <1>5, <1>6, <1>7, <1>8, <1>9, <1>10, <1>11, <1>12

(***************************************************************************)
(* A view that is not disturbed connects with nothing under way, so the    *)
(* first message and the registration may come in either order; delivery   *)
(* only moves an event on.                                                 *)
(***************************************************************************)
LEMMA ViewerKeepsView ==
    ASSUME TypeOK, ViewInv,
           Subscribe \/ Register \/ GetSale \/ SendSnapshot \/ FanOut \/ EventLost
    PROVE  ViewInv'
<1>0. viewer \in ViewerType /\ events \in Seq(EventType) /\ disturbed \in BOOLEAN
  BY TypeParts DEF Marks
<1>1. Rest.pc = "idle"
  BY HandlerRecords
<1>2. ASSUME Quiet, UNCHANGED <<available, handler, events>>, viewer'.pc # "new",
             solo' = None,
             viewer'.pc = "snapshot" => viewer'.snap = available,
             viewer'.pc = "connected" => shown' = available
      PROVE  ViewInv'
  <2>1. /\ Quiet' /\ Idle' /\ events' = <<>>
        /\ \A h \in Handlers : handler'[h] = Rest /\ handler'[h].pc = "idle"
    BY <1>1, <1>2 DEF Quiet, Idle
  <2>2. viewer'.pc = "connected" => Shows(shown', events', available')
    BY <1>2, <2>1, NothingPending
  <2>3. Follows'
    BY <1>2, <2>1, <2>2 DEF Follows, WillShow, Watched
  <2> QED
    BY <1>2, <2>3 DEF ViewInv, SoloInv
<1>3. Connecting => solo = None
  BY DEF ViewInv, SoloInv
<1>4. ASSUME disturbed', solo' = None, viewer'.pc # "new"
      PROVE  ViewInv'
  BY <1>4 DEF ViewInv, SoloInv
<1>5. CASE Subscribe
  <2>1. /\ UNCHANGED <<available, handler, events>> /\ viewer'.pc = "subscribed"
        /\ solo' = None /\ disturbed' = ~Quiet
    BY <1>0, <1>5 DEF Subscribe, sale, ViewerType
  <2> QED
    BY <1>2, <1>4, <2>1
<1>6. CASE Register
  <2>1. /\ UNCHANGED <<available, handler, events, shown, solo, disturbed>>
        /\ viewer'.pc = viewer.pc /\ viewer'.snap = viewer.snap
        /\ viewer.pc # "new" /\ ~viewer.joined
    BY <1>0, <1>6 DEF Register, sale, ViewerType
  <2>2. Connecting
    BY <1>0, <2>1 DEF Connecting, ViewerType
  <2>3. CASE ~disturbed
    <3>1. /\ Quiet /\ (viewer.pc = "snapshot" => viewer.snap = available)
          /\ viewer.pc = "connected" => shown = available
      BY <2>1, <2>2, <2>3 DEF ViewInv, Follows
    <3> QED
      BY <1>2, <1>3, <2>1, <2>2, <3>1
  <2> QED
    BY <1>0, <1>3, <1>4, <2>1, <2>2, <2>3
<1>7. CASE GetSale
  <2>0. viewer.pc = "subscribed" /\ Connecting
    BY <1>7 DEF GetSale, Connecting
  <2>1. CASE viewer' = [viewer EXCEPT !.pc = "snapshot", !.snap = available] /\ NoFault
    <3>1. /\ UNCHANGED <<available, handler, events, shown, solo, disturbed>>
          /\ viewer'.pc = "snapshot" /\ viewer'.snap = available
      BY <1>0, <1>7, <2>1 DEF GetSale, sale, NoFault, ViewerType
    <3>2. ~disturbed => Quiet
      BY <2>0 DEF ViewInv, Follows
    <3> QED
      BY <1>0, <1>2, <1>3, <1>4, <2>0, <3>1, <3>2
  <2>2. CASE viewer' = [viewer EXCEPT !.pc = "connected"] /\ Fault
    BY <1>0, <1>4, <2>2 DEF Fault, Disturb, ViewerType
  <2> QED
    BY <1>7, <2>1, <2>2 DEF GetSale
<1>8. CASE SendSnapshot
  <2>0. viewer.pc = "snapshot" /\ Connecting
    BY <1>8 DEF SendSnapshot, Connecting
  <2>1. /\ UNCHANGED <<available, handler, events, solo, disturbed>>
        /\ viewer'.pc = "connected" /\ shown' = viewer.snap
    BY <1>0, <1>8 DEF SendSnapshot, sale, ViewerType
  <2>2. ~disturbed => Quiet /\ viewer.snap = available
    BY <2>0 DEF ViewInv, Follows
  <2> QED
    BY <1>0, <1>2, <1>3, <1>4, <2>0, <2>1, <2>2
<1>9. CASE FanOut
  <2>1. /\ events # <<>> /\ events' = Tail(events)
        /\ UNCHANGED <<available, handler, viewer, solo, disturbed>>
        /\ Watched => shown' = IF Head(events).event = "stock_update"
                               THEN Head(events).remaining ELSE shown
    BY <1>9 DEF FanOut, sale, Watched
  <2>2. /\ Connecting' = Connecting /\ Watched' = Watched /\ Idle' = Idle
        /\ \A h \in Handlers : Published(h)' = Published(h)
    BY <2>1 DEF Connecting, Watched, Idle, Published, Taken
  <2>3. SoloInv'
    BY <2>1, <2>2 DEF ViewInv, SoloInv
  <2>4. ASSUME ~disturbed PROVE Follows'
    <3>1. Follows /\ ~Connecting
      BY <2>1, <2>4 DEF ViewInv, Follows, Quiet
    <3>2. Watched => \A n : Shows(shown, events, n) => Shows(shown', events', n)
      BY <1>0, <2>1, DeliveryShows
    <3>3. (Watched => /\ Idle => WillShow(available)
                      /\ \A h \in Handlers :
                            /\ handler[h].pc \in {"release", "ended", "promote"}
                               => WillShow(available)
                            /\ handler[h].pc = "row" => WillShow(Published(h)))'
      BY <2>1, <2>2, <3>1, <3>2 DEF Follows, WillShow
    <3>4. /\ \A h \in Handlers : handler'[h] # Rest => solo' = h
          /\ viewer'.pc # "snapshot" /\ (viewer'.pc = "connected" => viewer'.joined)
      BY <2>1, <3>1 DEF Follows, Connecting
    <3> QED
      BY <2>2, <3>1, <3>3, <3>4 DEF Follows
  <2> QED
    BY <2>1, <2>3, <2>4 DEF ViewInv
<1>10. CASE EventLost
  BY <1>10, DisturbanceKeepsView DEF EventLost, Fault, views
<1> QED
  BY <1>5, <1>6, <1>7, <1>8, <1>9, <1>10

(***************************************************************************)
(* ViewInv is an invariant.                                                *)
(***************************************************************************)
THEOREM ViewInvariant == Spec => []ViewInv
<1>1. Init => ViewInv
  <2> SUFFICES ASSUME Init PROVE ViewInv
    OBVIOUS
  <2>1. viewer.pc = "new" /\ ~viewer.joined /\ ~Connecting /\ ~Watched /\ solo = None
    BY DEF Init, Connecting, Watched
  <2>2. \A h \in Handlers : handler[h] = Rest
    BY DEF Init
  <2> QED
    BY <2>1, <2>2 DEF ViewInv, SoloInv, Follows
<1>2. TypeOK /\ ReleasesReturn /\ ViewInv /\ [Next]_vars => ViewInv'
  <2> SUFFICES ASSUME TypeOK, ReleasesReturn, ViewInv, [Next]_vars
               PROVE  ViewInv'
    OBVIOUS
  <2>1. CASE UndoConfirm \/ ScriptUnanswered \/ ReconcilerSet
    BY <2>1, DisturbanceKeepsView
       DEF UndoConfirm, ScriptUnanswered, Fault, ReconcilerSet, views
  <2>2. CASE UNCHANGED vars
    BY <2>2 DEF vars, ViewInv, SoloInv, Follows, WillShow, Watched, Idle, Quiet,
       Connecting, Published, Taken
  <2> QED
    BY <2>1, <2>2, HandlersKeepView, ViewerKeepsView DEF Next
<1> QED
  BY <1>1, <1>2, EventsTypes, OnlyReturnsRelease, PTL DEF Spec

(***************************************************************************)
(* Whatever overlapped, failed or was written without an event before, a   *)
(* connected viewer shows the stock there is once nothing is under way and *)
(* a handler has run alone up to its stock_update since: its read was      *)
(* current, delivery keeps the order, and changes that cancel out (a       *)
(* rejected row) need no event.                                            *)
(***************************************************************************)
THEOREM ViewersCurrent == Spec => []ViewerCurrent
<1>1. ViewInv => ViewerCurrent
  <2> SUFFICES ASSUME ViewInv, Quiet, viewer.pc = "connected", viewer.joined, ~disturbed
               PROVE  shown = available
    BY DEF ViewerCurrent
  <2>1. Shows(shown, <<>>, available)
    BY DEF ViewInv, Follows, Watched, Quiet, WillShow
  <2> QED
    BY <2>1, NothingPending
<1> QED
  BY <1>1, ViewInvariant, PTL
=============================================================================
