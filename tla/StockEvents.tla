---------------------------- MODULE StockEvents ----------------------------
(***************************************************************************)
(* What a viewer of the sale is shown: the handlers that change available, *)
(* read it back and publish it (reservation/service.go, queue/             *)
(* expiry_handler.go, events/publisher.go), Redis Pub/Sub with the         *)
(* subscriber that feeds the hub (cmd/server/main.go), and a connection    *)
(* that subscribes, reads the stock and is sent it as a first message      *)
(* (websocket/handler.go).                                                 *)
(*                                                                         *)
(* Pub/Sub, the hub's broadcast channel and the client's queue keep their  *)
(* order, so one sequence stands for all three, and shown is what the      *)
(* viewer shows once its queue is written.  A viewer that cannot keep up   *)
(* is disconnected (WebSocketHub).  Of Confirm, which publishes nothing,   *)
(* and of the reconcilers only their writes to available are kept.         *)
(***************************************************************************)
EXTENDS Integers, Sequences

CONSTANTS Handlers, Res, TotalStock, None,
          MaxChanges,   \* bound: handlers started and writes without an event
          MaxCounted,   \* bound: rows and orders a reconciler counts
          MaxFaults     \* bound: failed calls and lost events

ASSUME EventsAssumption ==
    /\ TotalStock \in Nat \ {0} /\ MaxChanges \in Nat /\ MaxFaults \in Nat
    /\ MaxCounted \in Nat /\ None \notin Int \cup Handlers \cup Res

VARIABLES
    available,   \* sale:{id}:available
    rows,        \* status of the rows of reservations
    handler,     \* local state of the handlers
    events,      \* published and not yet fanned out
    viewer,      \* the connection: step, registered with the hub, snapshot
    shown,       \* the stock the viewer shows; None: nothing yet
    announced,   \* sale_ended was published since available last changed
    taker,       \* who took the last unit that was taken
    solo,        \* history: the handler that has been alone since it began
    disturbed,   \* history: since a solo handler last published, handlers
                 \* overlapped, a call failed, an event was lost or the
                 \* counter was changed without an event
    changes, faults

vars == <<available, rows, handler, events, viewer, shown, announced, taker,
          solo, disturbed, changes, faults>>
views == <<viewer, shown>>

Kinds == {"reserve", "release", "expire", "promote"}
Steps == {"idle", "release", "row", "get", "publish", "ended", "promote"}
StockUpdate(n) == [event |-> "stock_update", remaining |-> n]
SaleEnded == [event |-> "sale_ended"]

Job(step, kind, r) == [pc |-> step, kind |-> kind, res |-> r, seen |-> 0]
Rest == Job("idle", "reserve", None)

\* Nobody but a reconciler, which may count more than the stock, takes the
\* counter below zero.
TypeOK ==
    /\ available \in Int
    /\ available < 0 => taker = "reconcile"
    /\ rows \in [Res -> {"none", "reserved", "ended"}]
    /\ handler \in [Handlers -> [pc : Steps, kind : Kinds,
                                 res : Res \cup {None}, seen : Int]]
    /\ events \in Seq([event : {"stock_update"}, remaining : Int] \cup {SaleEnded})
    /\ viewer \in [pc : {"new", "subscribed", "snapshot", "connected"},
                   joined : BOOLEAN, snap : Int]
    /\ shown \in Int \cup {None}
    /\ announced \in BOOLEAN /\ disturbed \in BOOLEAN
    /\ taker \in Kinds \cup {"reconcile"} /\ solo \in Handlers \cup {None}
    /\ changes \in 0..MaxChanges /\ faults \in 0..MaxFaults

Init ==
    /\ available = TotalStock
    /\ rows = [r \in Res |-> "none"]
    /\ handler = [h \in Handlers |-> Rest]
    /\ events = <<>>
    /\ viewer = [pc |-> "new", joined |-> FALSE, snap |-> 0]
    /\ shown = None /\ announced = FALSE /\ taker = "reserve"
    /\ solo = None /\ disturbed = FALSE /\ changes = 0 /\ faults = 0

Disturb == disturbed' = TRUE /\ solo' = None
Fault == faults < MaxFaults /\ faults' = faults + 1 /\ Disturb
NoFault == UNCHANGED <<solo, disturbed, faults>>

Goto(h, step) == handler' = [handler EXCEPT ![h].pc = step]
Finish(h) == handler' = [handler EXCEPT ![h] = Rest]

Connecting == viewer.pc \in {"subscribed", "snapshot"}
               \/ (viewer.pc = "connected" /\ ~viewer.joined)
Idle == \A h \in Handlers : handler[h] = Rest
Quiet == Idle /\ events = <<>>

Change == changes < MaxChanges /\ changes' = changes + 1

\* A request arrives, or a key expires, at any time.
Begin(h) ==
    /\ handler[h] = Rest
    /\ Change
    /\ solo' = IF Idle /\ ~Connecting THEN h ELSE None
    /\ disturbed' = (disturbed \/ ~Idle \/ Connecting)
    /\ UNCHANGED faults

-----------------------------------------------------------------------------
(* The handlers: the script, the row, GET available, the events *)

\* Variant: a unit is taken whether or not there is one.
InStockUnchecked == TRUE

InStock == available > 0

TakeUnit(kind) ==
    /\ InStock
    /\ available' = available - 1
    /\ announced' = FALSE /\ taker' = kind

GiveUnit ==
    /\ available' = available + 1
    /\ announced' = FALSE /\ UNCHANGED taker

KeepUnits == UNCHANGED <<available, announced, taker>>

\* uuid.New()
Fresh(r) == rows[r] = "none" /\ \A h \in Handlers : handler[h].res # r

\* Service.Reserve up to reserve.lua; a sold out sale publishes nothing.
Reserve(h, r) ==
    /\ Begin(h)
    /\ Fresh(r)
    /\ TakeUnit("reserve")
    /\ handler' = [handler EXCEPT ![h] = Job("row", "reserve", r)]
    /\ UNCHANGED <<rows, events, views>>

\* Service.Release and handleExpiredReservation: the SELECT of the status.
\* A reservation that is not reserved ends the handler with nothing changed.
Check(h, kind, r) ==
    /\ Begin(h)
    /\ rows[r] = "reserved"
    /\ handler' = [handler EXCEPT ![h] = Job("release", kind, r)]
    /\ KeepUnits
    /\ UNCHANGED <<rows, events, views>>

\* release.lua; the error of a call that was carried out or not ends it.
ReleaseScript(h) ==
    /\ handler[h].pc = "release"
    /\ \/ GiveUnit /\ Goto(h, "row") /\ NoFault
       \/ (GiveUnit \/ KeepUnits) /\ Finish(h) /\ Fault
    /\ UNCHANGED <<rows, events, views, changes>>

Taken(h) == handler[h].kind \in {"reserve", "promote"}

\* The status that the INSERT or the UPDATE of the handler writes.
Written(h) ==
    [rows EXCEPT ![handler[h].res] = IF Taken(h) THEN "reserved" ELSE "ended"]

\* The row is written.  An INSERT that is rejected, or whose reply is lost,
\* gives the unit back, and neither change is published.  An UPDATE that is
\* refused because the reservation was confirmed meanwhile, a failed one, or
\* a failed SET of Reserve's TTL key, ends the handler with the change made
\* and not published.
WriteRow(h) ==
    /\ handler[h].pc = "row"
    /\ \/ Goto(h, "get") /\ rows' = Written(h) /\ KeepUnits /\ NoFault
       \/ Taken(h) /\ GiveUnit /\ Finish(h) /\ UNCHANGED rows /\ NoFault
       \/ Taken(h) /\ GiveUnit /\ Finish(h) /\ rows' = Written(h) /\ Fault
       \/ ~Taken(h) /\ KeepUnits /\ Finish(h) /\ UNCHANGED <<rows, faults>> /\ Disturb
       \/ KeepUnits /\ Finish(h) /\ rows' \in {rows, Written(h)} /\ Fault
    /\ UNCHANGED <<events, views, changes>>

\* Variant: the stock is taken from what the handler saw last, not re-read.
ReadStockCached(h) == handler[h].seen

ReadStock(h) == available

\* available, _ := rdb.Get(...): the error is dropped and reads as 0.
GetAvailable(h) ==
    /\ handler[h].pc = "get"
    /\ \E n \in {ReadStock(h), 0} :
          /\ handler' = [handler EXCEPT ![h].pc = "publish", ![h].seen = n]
          /\ IF n = ReadStock(h) THEN NoFault ELSE Fault
    /\ KeepUnits
    /\ UNCHANGED <<rows, events, views, changes>>

\* Variant: the end is announced only below zero.
SoldOutBelow(n) == n < 0

SoldOut(n) == n = 0

Send(event) == events' = Append(events, event) /\ UNCHANGED faults

\* Publisher.StockUpdate; an error of Publish is dropped.  Only Reserve goes
\* on to SaleEnded, only the expiry handler to a promotion.
PublishStock(h) ==
    /\ handler[h].pc = "publish"
    /\ \/ /\ Send(StockUpdate(handler[h].seen))
          /\ disturbed' = (disturbed /\ solo # h) /\ UNCHANGED solo
       \/ Fault /\ UNCHANGED events
    /\ CASE handler[h].kind = "reserve" /\ SoldOut(handler[h].seen) -> Goto(h, "ended")
         [] handler[h].kind = "expire" -> Goto(h, "promote")
         [] OTHER -> Finish(h)
    /\ KeepUnits
    /\ UNCHANGED <<rows, views, changes>>

PublishEnded(h) ==
    /\ handler[h].pc = "ended"
    /\ \/ Send(SaleEnded) /\ UNCHANGED <<solo, disturbed>>
       \/ Fault /\ UNCHANGED events
    /\ announced' = TRUE
    /\ Finish(h)
    /\ UNCHANGED <<available, rows, views, taker, changes>>

\* promoteNextUser: no waiting user or a failed call, or a unit is taken for
\* the first one.
Promote(h) ==
    /\ handler[h].pc = "promote"
    /\ \/ Finish(h) /\ KeepUnits /\ NoFault
       \/ Finish(h) /\ TakeUnit("promote") /\ Fault
       \/ \E r \in Res :
             /\ Fresh(r)
             /\ TakeUnit("promote")
             /\ handler' = [handler EXCEPT ![h] = Job("row", "promote", r)]
             /\ NoFault
    /\ UNCHANGED <<rows, events, views, changes>>

-----------------------------------------------------------------------------
(* Writes to available that publish nothing *)

\* A Confirm of a reservation that has a row, when its transaction fails
\* (the idempotency key is taken, a call fails): release.lua.
UndoConfirm ==
    /\ Change
    /\ \E r \in Res : rows[r] # "none"
    /\ GiveUnit
    /\ Disturb
    /\ UNCHANGED <<rows, handler, events, views, faults>>

\* A script that is carried out without its handler going on: the client
\* resends it, or Reserve gets no answer and returns an error.
ScriptUnanswered ==
    /\ \/ TakeUnit("reserve")
       \/ TakeUnit("promote") /\ \E h \in Handlers : handler[h].pc = "promote"
       \/ GiveUnit /\ \E h \in Handlers : handler[h].pc = "release"
    /\ Fault
    /\ UNCHANGED <<rows, handler, events, views, changes>>

\* The SET of a reconciler, from what it has counted earlier (Reconciliation).
ReconcilerSet ==
    /\ Change
    /\ \E counted \in 0..MaxCounted : available' = TotalStock - counted
    /\ announced' = FALSE /\ taker' = "reconcile"
    /\ Disturb
    /\ UNCHANGED <<rows, handler, events, views, faults>>

-----------------------------------------------------------------------------
(* The viewer *)

sale == <<available, rows, handler, announced, taker, changes>>

\* HandleWebSocket: Subscribe, GetSale, the first message.
Subscribe ==
    /\ viewer.pc = "new"
    /\ viewer' = [viewer EXCEPT !.pc = "subscribed"]
    /\ disturbed' = ~Quiet /\ solo' = None
    /\ UNCHANGED <<sale, events, shown, faults>>

\* Hub.Run takes the registration.
Register ==
    /\ viewer.pc # "new" /\ ~viewer.joined
    /\ viewer' = [viewer EXCEPT !.joined = TRUE]
    /\ UNCHANGED <<sale, events, shown, solo, disturbed, faults>>

\* An error leaves the viewer connected with nothing to show.
GetSale ==
    /\ viewer.pc = "subscribed"
    /\ \/ viewer' = [viewer EXCEPT !.pc = "snapshot", !.snap = available] /\ NoFault
       \/ viewer' = [viewer EXCEPT !.pc = "connected"] /\ Fault
    /\ UNCHANGED <<sale, events, shown>>

SendSnapshot ==
    /\ viewer.pc = "snapshot"
    /\ viewer' = [viewer EXCEPT !.pc = "connected", !.snap = 0]
    /\ shown' = viewer.snap
    /\ UNCHANGED <<sale, events, solo, disturbed, faults>>

\* The subscriber receives an event and the hub broadcasts it to the room.
FanOut ==
    /\ events # <<>>
    /\ events' = Tail(events)
    /\ shown' = IF viewer.joined /\ Head(events).event = "stock_update"
                THEN Head(events).remaining ELSE shown
    /\ UNCHANGED <<sale, viewer, solo, disturbed, faults>>

\* Pub/Sub drops what is published while the subscriber reconnects.
EventLost ==
    /\ events # <<>>
    /\ Fault
    /\ events' = Tail(events)
    /\ UNCHANGED <<sale, views>>

Next ==
    \/ \E h \in Handlers :
          \/ \E r \in Res : Reserve(h, r) \/ Check(h, "release", r) \/ Check(h, "expire", r)
          \/ ReleaseScript(h) \/ WriteRow(h) \/ GetAvailable(h)
          \/ PublishStock(h) \/ PublishEnded(h) \/ Promote(h)
    \/ UndoConfirm \/ ScriptUnanswered \/ ReconcilerSet
    \/ Subscribe \/ Register \/ GetSale \/ SendSnapshot
    \/ FanOut \/ EventLost

Spec == Init /\ [][Next]_vars

-----------------------------------------------------------------------------
(* Properties *)

(***************************************************************************)
(* When nothing is under way a connected viewer shows the stock there is:  *)
(* README.md:72, "WebSocket broadcasts for live inventory changes".  What  *)
(* is published was read earlier (service.go:113-119), what a viewer is    *)
(* sent first was read before it was queued (handler.go:61-70), and some   *)
(* writes publish nothing, so overlapping handlers, failed calls and lost  *)
(* events leave a wrong number on the screen; whatever happened, one       *)
(* handler that ran alone up to its stock_update puts it right.            *)
(***************************************************************************)
ViewerCurrent ==
    (Quiet /\ viewer.pc = "connected" /\ viewer.joined /\ ~disturbed)
    => shown = available

(***************************************************************************)
(* If a Reserve took the last unit, sale_ended has been published by the   *)
(* time the handlers are done, whatever they overlapped with               *)
(* (service.go:118-122).                                                   *)
(***************************************************************************)
EndAnnounced ==
    (Idle /\ available = 0 /\ taker = "reserve" /\ faults = 0) => announced
=============================================================================
