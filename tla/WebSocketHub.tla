---------------------------- MODULE WebSocketHub ----------------------------
(***************************************************************************)
(* The WebSocket hub and its clients in one sale's room (internal/         *)
(* websocket: hub.go, client.go, handler.go).  Goroutines: Run, which owns *)
(* the maps and closes channels; the handler of each connection, then its  *)
(* read and write pump; the subscriber that calls PublishToUser; and one   *)
(* goroutine per Unregister of a client that could not keep up.            *)
(*                                                                         *)
(* A message is a unit: queues are counted, not listed.  userRooms[u] is   *)
(* the part of the room whose clients named user u, since both maps change *)
(* together.  A panic outside an HTTP handler, and Go's fatal error on a   *)
(* map that is iterated and written, end the process: crashed.  The        *)
(* buffers of register, unregister and broadcast are not bounded here.     *)
(***************************************************************************)
EXTENDS Integers, FiniteSets

CONSTANTS Clients, Users, None,
          UserOf,        \* UserOf[c]: the user_id of the connection, or None
          SendCap,       \* capacity of client.send
          MaxMessages,   \* bound: broadcasts
          MaxEvents      \* bound: events for one user

ASSUME HubAssumption ==
    /\ UserOf \in [Clients -> Users \cup {None}] /\ None \notin Users
    /\ None \notin Clients
    /\ SendCap \in Nat \ {0} /\ MaxMessages \in Nat /\ MaxEvents \in Nat

VARIABLES
    pc,           \* HandleWebSocket of a connection
    registering,  \* clients in the register channel
    leaving,      \* leaving[c]: calls of Unregister not yet taken by Run
    room,         \* the clients in the maps
    send,         \* send[c]: messages in client.send
    closed,       \* clients whose send channel is closed
    conn,         \* connections that are open
    reading, writing,   \* running pumps
    published, queued,  \* broadcasts so far, and those Run has yet to take
    notifier,     \* local state of PublishToUser
    events,       \* events for a user so far
    missed,       \* history: clients that a message did not fit for
    raced,        \* history: Run wrote the maps at one of the two bad moments
    crashed

vars == <<pc, registering, leaving, room, send, closed, conn, reading, writing,
          published, queued, notifier, events, missed, raced, crashed>>

\* PublishToUser: its user, the clients of the iterated map it has yet to
\* visit, and the one it is about to send to.
NoNotice == [user |-> None, left |-> {}, target |-> None]

TypeOK ==
    /\ pc \in [Clients -> {"new", "subscribed", "snapshot", "serving", "aborted"}]
    /\ registering \subseteq Clients /\ room \subseteq Clients
    /\ closed \subseteq Clients /\ conn \subseteq Clients
    /\ reading \subseteq Clients /\ writing \subseteq Clients
    /\ leaving \in [Clients -> Nat]
    /\ send \in [Clients -> 0..SendCap]
    /\ published \in 0..MaxMessages /\ queued \in 0..published
    /\ notifier \in [user : Users \cup {None}, left : SUBSET Clients,
                     target : Clients \cup {None}]
    /\ events \in 0..MaxEvents
    /\ missed \subseteq Clients /\ raced \in BOOLEAN /\ crashed \in BOOLEAN

Init ==
    /\ pc = [c \in Clients |-> "new"]
    /\ registering = {} /\ room = {} /\ closed = {} /\ conn = {}
    /\ reading = {} /\ writing = {}
    /\ leaving = [c \in Clients |-> 0]
    /\ send = [c \in Clients |-> 0]
    /\ published = 0 /\ queued = 0
    /\ notifier = NoNotice /\ events = 0
    /\ missed = {} /\ raced = FALSE /\ crashed = FALSE

-----------------------------------------------------------------------------
(* HandleWebSocket *)

\* Upgrade, NewClient, Subscribe.
Subscribe(c) ==
    /\ ~crashed
    /\ pc[c] = "new"
    /\ pc' = [pc EXCEPT ![c] = "subscribed"]
    /\ registering' = registering \cup {c}
    /\ conn' = conn \cup {c}
    /\ UNCHANGED <<leaving, room, send, closed, reading, writing, published,
                   queued, notifier, events, missed, raced, crashed>>

StartPumps(c) ==
    /\ pc' = [pc EXCEPT ![c] = "serving"]
    /\ reading' = reading \cup {c}
    /\ writing' = writing \cup {c}

\* Without a snapshot the pumps start at once.
GetSale(c) ==
    /\ ~crashed
    /\ pc[c] = "subscribed"
    /\ \/ /\ pc' = [pc EXCEPT ![c] = "snapshot"]
          /\ UNCHANGED <<reading, writing>>
       \/ StartPumps(c)
    /\ UNCHANGED <<registering, leaving, room, send, closed, conn, published,
                   queued, notifier, events, missed, raced, crashed>>

\* client.send <- msgBytes waits for room in the queue, which no pump empties
\* yet; if Run closes the channel meanwhile the handler panics, which the
\* recovery middleware catches.
SendSnapshot(c) ==
    /\ ~crashed
    /\ pc[c] = "snapshot"
    /\ \/ /\ c \in closed
          /\ pc' = [pc EXCEPT ![c] = "aborted"]
          /\ UNCHANGED <<send, reading, writing>>
       \/ /\ c \notin closed /\ send[c] < SendCap
          /\ send' = [send EXCEPT ![c] = @ + 1]
          /\ StartPumps(c)
    /\ UNCHANGED <<registering, leaving, room, closed, conn, published, queued,
                   notifier, events, missed, raced, crashed>>

-----------------------------------------------------------------------------
(* The pumps of a connection *)

\* The peer closes the connection, or stops answering pings.
Disconnect(c) ==
    /\ ~crashed
    /\ c \in conn
    /\ conn' = conn \ {c}
    /\ UNCHANGED <<pc, registering, leaving, room, send, closed, reading, writing,
                   published, queued, notifier, events, missed, raced, crashed>>

\* Variant: the pump that ends does not call Unregister.
StopReadingOnly(c) == reading' = reading \ {c} /\ UNCHANGED leaving

\* The deferred Unregister of the read pump.
StopReading(c) ==
    /\ reading' = reading \ {c}
    /\ leaving' = [leaving EXCEPT ![c] = @ + 1]

ReadPump(c) ==
    /\ ~crashed
    /\ c \in reading /\ c \notin conn
    /\ StopReading(c)
    /\ UNCHANGED <<pc, registering, room, send, closed, conn, writing, published,
                   queued, notifier, events, missed, raced, crashed>>

EndWriting(c) == writing' = writing \ {c} /\ conn' = conn \ {c}

\* One message is received and everything queued behind it is written too.
\* The pump ends and closes the connection on a closed and empty channel, or
\* when a write or a ping fails: the connection is gone, or the peer too slow
\* for the write deadline.
WritePump(c) ==
    /\ ~crashed
    /\ c \in writing
    /\ \/ /\ send[c] > 0 /\ c \in conn
          /\ send' = [send EXCEPT ![c] = 0]
          /\ UNCHANGED <<writing, conn>>
       \/ /\ send[c] = 0 /\ c \in closed
          /\ EndWriting(c)
          /\ UNCHANGED send
       \/ /\ c \notin conn \/ send[c] > 0
          /\ \E k \in 0..send[c] : send' = [send EXCEPT ![c] = k]
          /\ EndWriting(c)
    /\ UNCHANGED <<pc, registering, leaving, room, closed, reading, published,
                   queued, notifier, events, missed, raced, crashed>>

-----------------------------------------------------------------------------
(* Hub.Run: select takes any channel that is ready *)

OfUser(u) == {c \in room : UserOf[c] = u}

\* PublishToUser is under way for the user of the client.
Notifying(c) == notifier.user # None /\ notifier.user = UserOf[c]

\* It is iterating over the map that Run is about to write, and Go may find
\* that out.
Racing(c) == Notifying(c) /\ OfUser(UserOf[c]) # {}

\* An entry added to a map during an iteration may be visited or not.
HubRegister(c) ==
    /\ ~crashed
    /\ c \in registering
    /\ registering' = registering \ {c}
    /\ room' = room \cup {c}
    /\ \/ UNCHANGED <<notifier, crashed>>
       \/ /\ Racing(c)
          /\ \/ crashed' = TRUE /\ UNCHANGED notifier
             \/ notifier' = [notifier EXCEPT !.left = @ \cup {c}] /\ UNCHANGED crashed
    /\ raced' = (raced \/ Notifying(c))
    /\ UNCHANGED <<pc, leaving, send, closed, conn, reading, writing, published,
                   queued, events, missed>>

\* Variant: the client stays in the map whose channel is closed.
LeaveRoomNot(c) == UNCHANGED room

LeaveRoom(c) == room' = room \ {c}

\* close(client.send) panics on a closed channel.
HubUnregister(c) ==
    /\ ~crashed
    /\ leaving[c] > 0
    /\ leaving' = [leaving EXCEPT ![c] = @ - 1]
    /\ LeaveRoom(c)
    /\ closed' = closed \cup {c}
    /\ notifier' = [notifier EXCEPT !.left = @ \ {c}]
    /\ \/ crashed' = (c \in closed)
       \/ Racing(c) /\ crashed' = TRUE
    /\ raced' = (raced \/ Notifying(c) \/ c \in registering)
    /\ UNCHANGED <<pc, registering, send, conn, reading, writing, published,
                   queued, events, missed>>

Full(c) == send[c] = SendCap

\* Variant: a message that does not fit is dropped and the client kept.
DropQuietly(S) == missed' = missed \cup S /\ UNCHANGED leaving

\* go h.Unregister(client), for every client the message does not fit for.
Drop(S) ==
    /\ missed' = missed \cup S
    /\ leaving' = [c \in Clients |-> IF c \in S THEN leaving[c] + 1 ELSE leaving[c]]

\* The loop over the room; a send on a closed channel panics.
HubBroadcast ==
    /\ ~crashed
    /\ queued > 0
    /\ queued' = queued - 1
    /\ IF room \cap closed # {}
       THEN crashed' = TRUE /\ UNCHANGED <<send, missed, leaving>>
       ELSE /\ send' = [c \in Clients |->
                          IF c \in room /\ ~Full(c) THEN send[c] + 1 ELSE send[c]]
            /\ Drop({c \in room : Full(c)})
            /\ UNCHANGED crashed
    /\ UNCHANGED <<pc, registering, room, closed, conn, reading, writing,
                   published, notifier, events, raced>>

-----------------------------------------------------------------------------
(* Publish and PublishToUser, called by the Pub/Sub subscribers *)

Publish ==
    /\ ~crashed
    /\ published < MaxMessages
    /\ published' = published + 1
    /\ queued' = queued + 1
    /\ UNCHANGED <<pc, registering, leaving, room, send, closed, conn, reading,
                   writing, notifier, events, missed, raced, crashed>>

\* A user without connections: nothing is done.
NotifyStart(u) ==
    /\ ~crashed
    /\ notifier = NoNotice
    /\ events < MaxEvents
    /\ OfUser(u) # {}
    /\ events' = events + 1
    /\ notifier' = [user |-> u, left |-> OfUser(u), target |-> None]
    /\ UNCHANGED <<pc, registering, leaving, room, send, closed, conn, reading,
                   writing, published, queued, missed, raced, crashed>>

\* range clients, outside the lock
NotifyNext ==
    /\ ~crashed
    /\ notifier.user # None /\ notifier.target = None
    /\ \/ notifier.left = {} /\ notifier' = NoNotice
       \/ \E c \in notifier.left :
             notifier' = [notifier EXCEPT !.target = c, !.left = @ \ {c}]
    /\ UNCHANGED <<pc, registering, leaving, room, send, closed, conn, reading,
                   writing, published, queued, events, missed, raced, crashed>>

NotifySend ==
    LET c == notifier.target
    IN  /\ ~crashed /\ c # None
        /\ notifier' = [notifier EXCEPT !.target = None]
        /\ IF c \in closed
           THEN crashed' = TRUE /\ UNCHANGED <<send, missed, leaving>>
           ELSE /\ send' = [send EXCEPT ![c] = IF Full(c) THEN @ ELSE @ + 1]
                /\ Drop({d \in {c} : Full(d)})
                /\ UNCHANGED crashed
        /\ UNCHANGED <<pc, registering, room, closed, conn, reading, writing,
                       published, queued, events, raced>>

-----------------------------------------------------------------------------

Connection(c) ==
    \/ Subscribe(c) \/ GetSale(c) \/ SendSnapshot(c)
    \/ Disconnect(c) \/ ReadPump(c) \/ WritePump(c)

Run ==
    \/ \E c \in Clients : HubRegister(c) \/ HubUnregister(c)
    \/ HubBroadcast

Next ==
    \/ \E c \in Clients : Connection(c)
    \/ Run \/ Publish
    \/ \E u \in Users : NotifyStart(u)
    \/ NotifyNext \/ NotifySend

Spec == Init /\ [][Next]_vars

\* Run's select picks among the ready channels at random, so none is starved;
\* goroutines that can run do, and a broken connection is noticed by the read
\* deadline.  Nobody has to connect, publish or disconnect.
Fairness ==
    /\ \A c \in Clients :
          /\ WF_vars(GetSale(c)) /\ WF_vars(SendSnapshot(c))
          /\ WF_vars(ReadPump(c))
          /\ WF_vars(c \notin conn /\ WritePump(c))
          /\ WF_vars(HubRegister(c))
          /\ WF_vars(HubUnregister(c))
    /\ WF_vars(HubBroadcast)

FairSpec == Spec /\ Fairness

-----------------------------------------------------------------------------
(* Properties *)

(***************************************************************************)
(* A client that missed a message is not kept in the room as if nothing    *)
(* had happened: its Unregister is under way or done (hub.go:90-94,        *)
(* 120-124).  A viewer that stays connected has seen every message.        *)
(***************************************************************************)
MissedIsLeaving ==
    \A c \in missed : leaving[c] > 0 \/ c \notin room

\* No queue has overflowed, Run took no client's unregister before its
\* register, and it registered or unregistered no connection of a user whose
\* event PublishToUser was handing out.  Broadcasts, events for users and
\* connections that break at any moment are all allowed.
Calm == missed = {} /\ ~raced

(***************************************************************************)
(* While the hub is calm no goroutine of it panics, and no handler is cut  *)
(* off before its pumps run (hub.go:79, 91, 121, handler.go:70): outside   *)
(* three moments no channel is closed twice or written once closed.  The   *)
(* three do end the process: the second Unregister of a slow client closes *)
(* a closed channel, a broadcast reaches a client registered after its     *)
(* unregister, and an event meets the disconnect of one of its receivers.  *)
(***************************************************************************)
NoPanic == Calm => ~crashed /\ \A c \in Clients : pc[c] # "aborted"

(***************************************************************************)
(* A broken connection is cleaned up: out of the room, its channel closed, *)
(* both pumps ended (client.go:46-49, 71-74, hub.go:61-79), while the hub  *)
(* stays calm.                                                             *)
(***************************************************************************)
ConnectionsReleased ==
    \A c \in Clients :
        (pc[c] = "serving" /\ c \notin conn)
        ~> \/ c \notin room /\ c \in closed /\ c \notin reading \cup writing
           \/ ~Calm
=============================================================================
