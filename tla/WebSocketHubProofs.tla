------------------------- MODULE WebSocketHubProofs -------------------------
(***************************************************************************)
(* NoPanic for any number of connections, queue length and broadcasts.     *)
(* CalmInv says who may close a channel while the hub is calm: the one     *)
(* Unregister of a connection is its read pump's, a client whose channel   *)
(* is closed is out of the room, and PublishToUser holds on to none.       *)
(***************************************************************************)
EXTENDS WebSocketHub, TLAPS

(* Why the calm hub does not panic: who may close a channel, and when. *)

\* At most one Unregister of a client is ever called, by its read pump; only
\* then is its channel closed, and it is not in the room any more.
Discipline(c) ==
    /\ pc[c] \in {"new", "subscribed", "snapshot"} =>
          /\ c \notin closed \cup reading \cup writing
          /\ leaving[c] = 0
    /\ pc[c] = "new" => c \notin registering \cup room
    /\ pc[c] # "aborted"
    /\ c \in registering => c \notin closed \cup room
    /\ c \in reading => c \notin closed /\ leaving[c] = 0
    /\ leaving[c] # 0 => leaving[c] = 1 /\ c \notin closed /\ pc[c] = "serving"
    /\ c \in room => c \notin closed

\* PublishToUser has yet to send to clients of its user only, and their
\* channels are open.
NotifierFine(n, shut) ==
    \A c \in n.left \cup ({n.target} \ {None}) :
        c \notin shut /\ n.user # None /\ UserOf[c] = n.user

CalmInv ==
    Calm => /\ ~crashed /\ NotifierFine(notifier, closed)
            /\ \A c \in Clients : Discipline(c)

\* A client that Run has not registered is in no map, so nothing has been
\* sent to it and no event is on its way.
Unseen(c) ==
    /\ pc[c] = "new" => c \notin registering
    /\ pc[c] = "new" \/ c \in registering =>
          c \notin room \cup missed \cup notifier.left \cup {notifier.target}

\* A connection is registered once; after that only Unregister counts.
MissedInv == MissedIsLeaving /\ \A c \in Clients : Unseen(c)

(***************************************************************************)
(* Every queue keeps to its capacity and every count to its bounds.        *)
(***************************************************************************)
THEOREM HubTypes == Spec => []TypeOK
<1> USE HubAssumption
<1>1. Init => TypeOK
  <2> SUFFICES ASSUME Init PROVE TypeOK
    OBVIOUS
  <2>1. notifier \in [user : Users \cup {None}, left : SUBSET Clients,
                      target : Clients \cup {None}]
    BY DEF Init, NoNotice
  <2>2. /\ pc \in [Clients -> {"new", "subscribed", "snapshot", "serving", "aborted"}]
        /\ leaving \in [Clients -> Nat] /\ send \in [Clients -> 0..SendCap]
    BY DEF Init
  <2>3. published \in 0..MaxMessages /\ queued \in 0..published /\ events \in 0..MaxEvents
    BY DEF Init
  <2>4. raced \in BOOLEAN /\ crashed \in BOOLEAN
    BY DEF Init
  <2> QED
    BY <2>1, <2>2, <2>3, <2>4 DEF Init, TypeOK
<1>2. TypeOK /\ [Next]_vars => TypeOK'
  <2> SUFFICES ASSUME TypeOK, [Next]_vars PROVE TypeOK'
    OBVIOUS
  <2>1. ASSUME NEW c \in Clients, Subscribe(c) PROVE TypeOK'
    BY <2>1 DEF Subscribe, TypeOK
  <2>2. ASSUME NEW c \in Clients, GetSale(c) PROVE TypeOK'
    BY <2>2 DEF GetSale, StartPumps, TypeOK
  <2>3. ASSUME NEW c \in Clients, SendSnapshot(c) PROVE TypeOK'
    BY <2>3 DEF SendSnapshot, StartPumps, TypeOK
  <2>4. ASSUME NEW c \in Clients, Disconnect(c) PROVE TypeOK'
    BY <2>4 DEF Disconnect, TypeOK
  <2>5. ASSUME NEW c \in Clients, ReadPump(c) PROVE TypeOK'
    BY <2>5 DEF ReadPump, StopReading, TypeOK
  <2>6. ASSUME NEW c \in Clients, WritePump(c) PROVE TypeOK'
    <3>1. PICK k \in 0..send[c] : send' = [send EXCEPT ![c] = k]
      BY <2>6 DEF WritePump, TypeOK
    <3>2. send' \in [Clients -> 0..SendCap]
      BY <3>1 DEF TypeOK
    <3>3. writing' \subseteq Clients /\ conn' \subseteq Clients
      BY <2>6 DEF WritePump, EndWriting, TypeOK
    <3>4. UNCHANGED <<pc, registering, leaving, room, closed, reading, published,
                      queued, notifier, events, missed, raced, crashed>>
      BY <2>6 DEF WritePump
    <3> QED
      BY <3>2, <3>3, <3>4 DEF TypeOK
  <2>7. ASSUME NEW c \in Clients, HubRegister(c) PROVE TypeOK'
    <3>1. crashed' \in BOOLEAN
      BY <2>7 DEF HubRegister, TypeOK
    <3>2. notifier' \in [user : Users \cup {None}, left : SUBSET Clients,
                         target : Clients \cup {None}]
      BY <2>7 DEF HubRegister, TypeOK
    <3>3. raced' \in BOOLEAN
      BY <2>7, Zenon DEF HubRegister
    <3> QED
      BY <2>7, <3>1, <3>2, <3>3 DEF HubRegister, TypeOK
  <2>8. ASSUME NEW c \in Clients, HubUnregister(c) PROVE TypeOK'
    <3>1. crashed' \in BOOLEAN
      <4>1. crashed' = (c \in closed) \/ crashed' = TRUE
        BY <2>8, Zenon DEF HubUnregister
      <4>2. (c \in closed) \in BOOLEAN
        OBVIOUS
      <4> QED
        BY <4>1, <4>2, Zenon
    <3>2. notifier' \in [user : Users \cup {None}, left : SUBSET Clients,
                         target : Clients \cup {None}]
      BY <2>8 DEF HubUnregister, TypeOK
    <3>3. leaving' \in [Clients -> Nat] /\ room' \subseteq Clients
      BY <2>8 DEF HubUnregister, LeaveRoom, TypeOK
    <3>4. raced' \in BOOLEAN
      BY <2>8, Zenon DEF HubUnregister
    <3> QED
      BY <2>8, <3>1, <3>2, <3>3, <3>4 DEF HubUnregister, TypeOK
  <2>9. CASE HubBroadcast
    <3>1. crashed' \in BOOLEAN
      BY <2>9 DEF HubBroadcast, TypeOK
    <3>2. queued' \in 0..published
      BY <2>9 DEF HubBroadcast, TypeOK
    <3>3. send' \in [Clients -> 0..SendCap]
      BY <2>9 DEF HubBroadcast, Full, TypeOK
    <3>4. leaving' \in [Clients -> Nat] /\ missed' \subseteq Clients
      BY <2>9 DEF HubBroadcast, Drop, TypeOK
    <3> QED
      BY <2>9, <3>1, <3>2, <3>3, <3>4 DEF HubBroadcast, TypeOK
  <2>10. CASE Publish
    BY <2>10 DEF Publish, TypeOK
  <2>11. ASSUME NEW u \in Users, NotifyStart(u) PROVE TypeOK'
    <3>1. notifier' \in [user : Users \cup {None}, left : SUBSET Clients,
                         target : Clients \cup {None}]
      BY <2>11 DEF NotifyStart, OfUser, TypeOK
    <3> QED
      BY <2>11, <3>1 DEF NotifyStart, TypeOK
  <2>12. CASE NotifyNext
    <3>1. notifier' \in [user : Users \cup {None}, left : SUBSET Clients,
                         target : Clients \cup {None}]
      <4>1. CASE notifier' = NoNotice
        BY <4>1 DEF NoNotice
      <4>2. ASSUME NEW c \in notifier.left,
                   notifier' = [notifier EXCEPT !.target = c, !.left = @ \ {c}]
            PROVE  notifier' \in [user : Users \cup {None}, left : SUBSET Clients,
                                  target : Clients \cup {None}]
        BY <4>2 DEF TypeOK
      <4> QED
        BY <2>12, <4>1, <4>2 DEF NotifyNext
    <3> QED
      BY <2>12, <3>1 DEF NotifyNext, TypeOK
  <2>13. CASE NotifySend
    <3>0. notifier.target \in Clients
      BY <2>13 DEF NotifySend, TypeOK
    <3>1. notifier' \in [user : Users \cup {None}, left : SUBSET Clients,
                         target : Clients \cup {None}]
      BY <2>13 DEF NotifySend, TypeOK
    <3>2. send' \in [Clients -> 0..SendCap]
      BY <2>13, <3>0 DEF NotifySend, Full, TypeOK
    <3>3. leaving' \in [Clients -> Nat] /\ missed' \subseteq Clients
      BY <2>13, <3>0 DEF NotifySend, Drop, TypeOK
    <3>4. crashed' \in BOOLEAN
      BY <2>13 DEF NotifySend, TypeOK
    <3> QED
      BY <2>13, <3>1, <3>2, <3>3, <3>4 DEF NotifySend, TypeOK
  <2>14. CASE UNCHANGED vars
    BY <2>14 DEF vars, TypeOK
  <2> QED
    BY <2>1, <2>2, <2>3, <2>4, <2>5, <2>6, <2>7, <2>8, <2>9, <2>10, <2>11,
       <2>12, <2>13, <2>14 DEF Next, Connection, Run
<1> QED
  BY <1>1, <1>2, PTL DEF Spec

(***************************************************************************)
(* A step that ends calm starts calm: the histories only grow.             *)
(***************************************************************************)
LEMMA CalmBefore ==
    ASSUME TypeOK, [Next]_vars, Calm'
    PROVE  Calm
<1>1. missed \subseteq missed'
  BY DEF Next, Connection, Run, Subscribe, GetSale, SendSnapshot, Disconnect,
         ReadPump, WritePump, HubRegister, HubUnregister, HubBroadcast, Drop,
         Publish, NotifyStart, NotifyNext, NotifySend, vars
<1>2. raced => raced'
  BY Zenon
     DEF Next, Connection, Run, Subscribe, GetSale, SendSnapshot, Disconnect,
         ReadPump, WritePump, HubRegister, HubUnregister, HubBroadcast,
         Publish, NotifyStart, NotifyNext, NotifySend, vars
<1> QED
  BY <1>1, <1>2 DEF Calm

(***************************************************************************)
(* The discipline on channels is kept as long as the hub is calm.          *)
(***************************************************************************)
THEOREM CalmInvariant == Spec => []CalmInv
<1> USE HubAssumption
<1>1. Init => CalmInv
  <2> SUFFICES ASSUME Init PROVE CalmInv
    OBVIOUS
  <2>1. ASSUME NEW c \in Clients PROVE Discipline(c)
    BY DEF Init, Discipline
  <2>2. NotifierFine(notifier, closed)
    BY DEF Init, NoNotice, NotifierFine
  <2> QED
    BY <2>1, <2>2 DEF Init, CalmInv
<1>2. TypeOK /\ CalmInv /\ [Next]_vars => CalmInv'
  <2> SUFFICES ASSUME TypeOK, CalmInv, [Next]_vars, Calm'
               PROVE  /\ ~crashed' /\ NotifierFine(notifier', closed')
                      /\ \A d \in Clients : Discipline(d)'
    BY DEF CalmInv
  <2>a. Calm
    BY CalmBefore
  <2>0. /\ ~crashed /\ NotifierFine(notifier, closed)
        /\ \A c \in Clients : Discipline(c)
    BY <2>a DEF CalmInv
  <2> DEFINE Goal == /\ ~crashed' /\ NotifierFine(notifier', closed')
                     /\ \A d \in Clients : Discipline(d)'
  <2>1. ASSUME NEW c \in Clients, Subscribe(c) PROVE Goal
    BY <2>0, <2>1 DEF Subscribe, TypeOK, Discipline
  <2>2. ASSUME NEW c \in Clients, GetSale(c) PROVE Goal
    BY <2>0, <2>2 DEF GetSale, StartPumps, TypeOK, Discipline
  <2>3. ASSUME NEW c \in Clients, SendSnapshot(c) PROVE Goal
    <3>0. c \notin closed
      BY <2>0, <2>3 DEF SendSnapshot, Discipline
    <3> QED
      BY <2>0, <2>3, <3>0 DEF SendSnapshot, StartPumps, TypeOK, Discipline
  <2>4. ASSUME NEW c \in Clients, Disconnect(c) PROVE Goal
    BY <2>0, <2>4 DEF Disconnect, TypeOK, Discipline
  <2>5. ASSUME NEW c \in Clients, ReadPump(c) PROVE Goal
    <3>0. pc[c] = "serving" /\ leaving[c] = 0 /\ c \notin closed
      BY <2>0, <2>5 DEF ReadPump, Discipline, TypeOK
    <3> QED
      BY <2>0, <2>5, <3>0 DEF ReadPump, StopReading, TypeOK, Discipline
  <2>6. ASSUME NEW c \in Clients, WritePump(c) PROVE Goal
    <3>1. writing' \subseteq writing
      BY <2>6 DEF WritePump, EndWriting
    <3>2. UNCHANGED <<pc, registering, leaving, room, closed, reading, notifier,
                      crashed>>
      BY <2>6 DEF WritePump
    <3> QED
      BY <2>0, <3>1, <3>2 DEF Discipline
  <2>7. ASSUME NEW c \in Clients, HubRegister(c) PROVE Goal
    <3>0. ~Notifying(c)
      BY <2>7, Zenon DEF HubRegister, Calm
    <3>1. UNCHANGED <<notifier, crashed, closed>>
      BY <2>7, <3>0 DEF HubRegister, Racing
    <3> QED
      BY <2>0, <2>7, <3>1 DEF HubRegister, TypeOK, Discipline
  <2>8. ASSUME NEW c \in Clients, HubUnregister(c) PROVE Goal
    <3>0. ~Notifying(c) /\ c \notin registering
      BY <2>8, Zenon DEF HubUnregister, Calm
    <3>1. /\ leaving[c] = 1 /\ c \notin closed
          /\ c \notin reading /\ pc[c] = "serving"
      BY <2>0, <2>8 DEF HubUnregister, Discipline, TypeOK
    <3>2. ~crashed'
      BY <2>8, <3>0, <3>1, Zenon DEF HubUnregister, Racing
    <3>3. NotifierFine(notifier', closed')
      <4>1. notifier' = [notifier EXCEPT !.left = @ \ {c}] /\ closed' = closed \cup {c}
        BY <2>8 DEF HubUnregister
      <4>2. /\ notifier'.left \subseteq notifier.left
            /\ notifier'.target = notifier.target /\ notifier'.user = notifier.user
        BY <4>1 DEF TypeOK
      <4>3. c \notin notifier.left \cup ({notifier.target} \ {None})
        BY <2>0, <3>0 DEF NotifierFine, Notifying
      <4> QED
        BY <2>0, <4>1, <4>2, <4>3 DEF NotifierFine
    <3>4. ASSUME NEW d \in Clients PROVE Discipline(d)'
      BY <2>0, <2>8, <3>0, <3>1 DEF HubUnregister, LeaveRoom, TypeOK, Discipline
    <3> QED
      BY <3>2, <3>3, <3>4
  <2>9. CASE HubBroadcast
    <3>1. room \cap closed = {}
      BY <2>0 DEF Discipline, TypeOK
    <3>2. crashed' = crashed /\ Drop({c \in room : Full(c)})
      BY <2>9, <3>1 DEF HubBroadcast
    <3>3. {c \in room : Full(c)} = {}
      BY <3>2 DEF Drop, Calm
    <3>4. leaving' = leaving
      BY <3>2, <3>3 DEF Drop, TypeOK
    <3>5. UNCHANGED <<pc, registering, room, closed, conn, reading, writing,
                      notifier>>
      BY <2>9 DEF HubBroadcast
    <3> QED
      BY <2>0, <3>2, <3>4, <3>5 DEF Discipline
  <2>10. CASE Publish
    BY <2>0, <2>10 DEF Publish, Discipline
  <2>11. ASSUME NEW u \in Users, NotifyStart(u) PROVE Goal
    <3>1. notifier' = [user |-> u, left |-> OfUser(u), target |-> None]
      BY <2>11 DEF NotifyStart
    <3>2. ASSUME NEW c \in OfUser(u) PROVE c \notin closed /\ u # None /\ UserOf[c] = u
      BY <2>0, <3>2 DEF OfUser, Discipline, TypeOK
    <3>3. NotifierFine(notifier', closed)
      BY <3>1, <3>2 DEF NotifierFine
    <3> QED
      BY <2>0, <2>11, <3>3 DEF NotifyStart, Discipline
  <2>12. CASE NotifyNext
    <3>1. NotifierFine(notifier', closed)
      <4>1. CASE notifier' = NoNotice
        BY <4>1 DEF NoNotice, NotifierFine
      <4>2. ASSUME NEW c \in notifier.left,
                   notifier' = [notifier EXCEPT !.target = c, !.left = @ \ {c}]
            PROVE  NotifierFine(notifier', closed)
        <5>1. /\ notifier'.left \subseteq notifier.left
              /\ notifier'.target = c /\ notifier'.user = notifier.user
          BY <4>2 DEF TypeOK
        <5> QED
          BY <2>0, <5>1 DEF NotifierFine
      <4> QED
        BY <2>12, <4>1, <4>2 DEF NotifyNext
    <3> QED
      BY <2>0, <2>12, <3>1 DEF NotifyNext, Discipline
  <2>13. CASE NotifySend
    <3> DEFINE c == notifier.target
    <3>0. c \in Clients /\ c \notin closed
      BY <2>0, <2>13 DEF NotifySend, NotifierFine, TypeOK
    <3>1. /\ crashed' = crashed /\ Drop({d \in {c} : Full(d)})
          /\ notifier' = [notifier EXCEPT !.target = None]
          /\ UNCHANGED <<pc, registering, room, closed, reading, writing>>
      BY <2>13, <3>0 DEF NotifySend
    <3>2. {d \in {c} : Full(d)} = {}
      BY <3>1 DEF Drop, Calm
    <3>3. leaving' = leaving
      BY <3>1, <3>2 DEF Drop, TypeOK
    <3>4. /\ notifier'.left = notifier.left
          /\ notifier'.target = None /\ notifier'.user = notifier.user
      BY <3>1 DEF TypeOK
    <3>5. NotifierFine(notifier', closed)
      BY <2>0, <3>4 DEF NotifierFine
    <3> QED
      BY <2>0, <3>1, <3>3, <3>5 DEF Discipline
  <2>14. CASE UNCHANGED vars
    BY <2>0, <2>14 DEF vars, Discipline
  <2> QED
    BY <2>1, <2>2, <2>3, <2>4, <2>5, <2>6, <2>7, <2>8, <2>9, <2>10, <2>11,
       <2>12, <2>13, <2>14 DEF Next, Connection, Run
<1> QED
  BY <1>1, <1>2, HubTypes, PTL DEF Spec

(***************************************************************************)
(* A calm hub never panics: no channel is closed twice, none is written    *)
(* after it is closed, and no handler is cut off.  Broadcasts, events for  *)
(* users and broken connections may overlap in any way that Calm allows    *)
(* (hub.go:79, 84-95, 111-126, handler.go:70).                             *)
(***************************************************************************)
THEOREM CalmHubNeverPanics == Spec => []NoPanic
<1>1. CalmInv => NoPanic
  BY DEF CalmInv, NoPanic, Discipline
<1> QED
  BY <1>1, CalmInvariant, PTL

(***************************************************************************)
(* A viewer that missed a message is on its way out, for good: it is not   *)
(* registered again (hub.go:90-94, 120-124).                               *)
(***************************************************************************)
THEOREM MissedClientsLeave == Spec => []MissedIsLeaving
<1> USE HubAssumption
<1>1. Init => MissedInv
  BY DEF Init, NoNotice, MissedInv, MissedIsLeaving, Unseen
<1>2. TypeOK /\ MissedInv /\ [Next]_vars => MissedInv'
  <2> SUFFICES ASSUME TypeOK, MissedInv, [Next]_vars
               PROVE  MissedInv'
    OBVIOUS
  <2> USE DEF MissedInv, MissedIsLeaving, Unseen
  <2>1. ASSUME NEW c \in Clients, Subscribe(c) PROVE MissedInv'
    BY <2>1 DEF Subscribe, TypeOK
  <2>2. ASSUME NEW c \in Clients, GetSale(c) PROVE MissedInv'
    BY <2>2 DEF GetSale, StartPumps, TypeOK
  <2>3. ASSUME NEW c \in Clients, SendSnapshot(c) PROVE MissedInv'
    BY <2>3 DEF SendSnapshot, StartPumps, TypeOK
  <2>4. ASSUME NEW c \in Clients, Disconnect(c) PROVE MissedInv'
    BY <2>4 DEF Disconnect
  <2>5. ASSUME NEW c \in Clients, ReadPump(c) PROVE MissedInv'
    BY <2>5 DEF ReadPump, StopReading, TypeOK
  <2>6. ASSUME NEW c \in Clients, WritePump(c) PROVE MissedInv'
    BY <2>6 DEF WritePump
  <2>7. ASSUME NEW c \in Clients, HubRegister(c) PROVE MissedInv'
    <3>1. \/ notifier' = notifier
          \/ notifier' = [notifier EXCEPT !.left = @ \cup {c}]
      BY <2>7 DEF HubRegister
    <3>2. /\ notifier'.target = notifier.target
          /\ notifier'.left \subseteq notifier.left \cup {c}
      BY <3>1 DEF TypeOK
    <3> QED
      BY <2>7, <3>2 DEF HubRegister
  <2>8. ASSUME NEW c \in Clients, HubUnregister(c) PROVE MissedInv'
    <3>1. /\ notifier'.target = notifier.target
          /\ notifier'.left \subseteq notifier.left
      BY <2>8 DEF HubUnregister, TypeOK
    <3> QED
      BY <2>8, <3>1 DEF HubUnregister, LeaveRoom, TypeOK
  <2>9. CASE HubBroadcast
    BY <2>9 DEF HubBroadcast, Drop, TypeOK
  <2>10. CASE Publish
    BY <2>10 DEF Publish
  <2>11. ASSUME NEW u \in Users, NotifyStart(u) PROVE MissedInv'
    BY <2>11 DEF NotifyStart, OfUser, TypeOK
  <2>12. CASE NotifyNext
    <3>1. CASE notifier' = NoNotice
      BY <2>12, <3>1 DEF NotifyNext, NoNotice
    <3>2. ASSUME NEW c \in notifier.left,
                 notifier' = [notifier EXCEPT !.target = c, !.left = @ \ {c}]
          PROVE  MissedInv'
      <4>1. notifier'.target = c /\ notifier'.left \subseteq notifier.left
        BY <3>2 DEF TypeOK
      <4> QED
        BY <2>12, <4>1 DEF NotifyNext, TypeOK
    <3> QED
      BY <2>12, <3>1, <3>2 DEF NotifyNext
  <2>13. CASE NotifySend
    <3>1. /\ notifier'.target = None /\ notifier'.left = notifier.left
          /\ notifier.target \in Clients
      BY <2>13 DEF NotifySend, TypeOK
    <3> QED
      BY <2>13, <3>1 DEF NotifySend, Drop, TypeOK
  <2>14. CASE UNCHANGED vars
    BY <2>14 DEF vars
  <2> QED
    BY <2>1, <2>2, <2>3, <2>4, <2>5, <2>6, <2>7, <2>8, <2>9, <2>10, <2>11,
       <2>12, <2>13, <2>14 DEF Next, Connection, Run
<1>3. MissedInv => MissedIsLeaving
  BY DEF MissedInv
<1> QED
  BY <1>1, <1>2, <1>3, HubTypes, PTL DEF Spec
=============================================================================
