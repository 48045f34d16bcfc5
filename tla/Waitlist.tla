------------------------------ MODULE Waitlist ------------------------------
(***************************************************************************)
(* The waitlist of one sale as the sorted set it is: order, positions and  *)
(* time (internal/waitlist/service.go, waitlist_join.lua,                  *)
(* waitlist_promote.lua).  FlashSale models the same list as a set, with   *)
(* the reservation a promotion makes; here the question is who is served   *)
(* in which order and what a user is told.                                 *)
(*                                                                         *)
(* Users are numbers: Redis orders members with equal scores by their      *)
(* bytes, so the number stands for the rank of the user's uuid.  The clock *)
(* counts the whole seconds of time.Now().Unix(); Join reads it before it  *)
(* calls the script, and MaxLag bounds how much later the script runs.     *)
(***************************************************************************)
EXTENDS Integers, FiniteSets

CONSTANTS Users, Calls,
          TotalStock, MaxLag,
          MaxTime,       \* bound on the clock
          MaxAvailable   \* bound on the counter

ASSUME WaitlistAssumption ==
    /\ Users \subseteq Nat /\ IsFiniteSet(Users)
    /\ TotalStock \in Nat /\ MaxLag \in Nat /\ MaxTime \in Nat
    /\ MaxAvailable \in Nat

VARIABLES
    clock,
    available,      \* sale:{id}:available
    wait, score,    \* sale:{id}:waitlist, its members and their scores
    call,           \* the Join and GetPosition calls under way
    answered        \* the second in which a waiting user's Join was executed

vars == <<clock, available, wait, score, call, answered>>

Idle == [op |-> "idle"]
Joining == [op : {"join"}, user : Users, stamp : Nat]
\* left: a user has left the list since the call's ZRANK
Asking == [op : {"card"}, rank : Nat, left : BOOLEAN]

TypeOK ==
    /\ clock \in Nat /\ available \in Nat
    /\ wait \subseteq Users
    /\ score \in [Users -> Nat] /\ answered \in [Users -> Nat]
    /\ call \in [Calls -> {Idle} \cup Joining \cup Asking]

Init ==
    /\ clock = 0 /\ available = TotalStock
    /\ wait = {}
    /\ score = [u \in Users |-> 0] /\ answered = [u \in Users |-> 0]
    /\ call = [c \in Calls |-> Idle]

-----------------------------------------------------------------------------
(* The sorted set *)

Before(v, u) == score[v] < score[u] \/ (score[v] = score[u] /\ v < u)

Ahead(u) == {v \in wait : Before(v, u)}

\* ZRANK
Rank(u) == Cardinality(Ahead(u))

End(c) == call' = [call EXCEPT ![c] = Idle]

\* ZREM and ZPOPMIN drop the member with its score; the GetPosition calls
\* under way note that a user has left.
Remove(u) ==
    /\ wait' = wait \ {u}
    /\ score' = [score EXCEPT ![u] = 0]
    /\ answered' = [answered EXCEPT ![u] = 0]
    /\ call' = [c \in Calls |-> IF call[c].op = "card"
                                THEN [call[c] EXCEPT !.left = TRUE] ELSE call[c]]

-----------------------------------------------------------------------------
(* Service.Join *)

JoinStart(c, u) ==
    /\ call[c] = Idle
    /\ call' = [call EXCEPT ![c] = [op |-> "join", user |-> u, stamp |-> clock]]
    /\ UNCHANGED <<clock, available, wait, score, answered>>

\* Variant: ZADD without the ZSCORE check moves a waiting user to the tail.
JoinableAgain(u) == ~(available > 0)

\* Neither "stock available" (-1) nor "already in waitlist" (-2).
Joinable(u) == ~(available > 0) /\ u \notin wait

\* waitlist_join.lua: it changes the list, or answers -1 or -2.
JoinLua(c) ==
    /\ IF Joinable(call[c].user)
       THEN /\ wait' = wait \cup {call[c].user}
            /\ score' = [score EXCEPT ![call[c].user] = call[c].stamp]
            /\ answered' = [answered EXCEPT ![call[c].user] = clock]
       ELSE UNCHANGED <<wait, score, answered>>
    /\ UNCHANGED <<clock, available>>

\* The script runs; its answer may be lost, and then the call fails or the
\* client sends it again.
JoinDone(c) ==
    /\ call[c].op = "join"
    /\ JoinLua(c)
    /\ End(c) \/ UNCHANGED call

\* The script is not run.
JoinFails(c) ==
    /\ call[c].op = "join"
    /\ End(c)
    /\ UNCHANGED <<clock, available, wait, score, answered>>

-----------------------------------------------------------------------------
(* Service.GetPosition: ZRANK, then ZCARD *)

\* Variant: the nil reply of ZRANK is read as rank 0.
GetRankOrZero(c, u) ==
    /\ call[c] = Idle
    /\ call' = [call EXCEPT ![c] = [op |-> "card", left |-> FALSE,
                    rank |-> IF u \in wait THEN Rank(u) ELSE 0]]
    /\ UNCHANGED <<clock, available, wait, score, answered>>

\* A user who is not in the list gets 404.
GetRank(c, u) ==
    /\ call[c] = Idle
    /\ u \in wait
    /\ call' = [call EXCEPT ![c] = [op |-> "card", left |-> FALSE, rank |-> Rank(u)]]
    /\ UNCHANGED <<clock, available, wait, score, answered>>

\* The answer: position rank + 1 of Cardinality(wait), or an error.
GetCard(c) ==
    /\ call[c].op = "card"
    /\ End(c)
    /\ UNCHANGED <<clock, available, wait, score, answered>>

-----------------------------------------------------------------------------
(* Service.Leave (ZREM), promotion and the counter *)

Leave(u) ==
    /\ u \in wait
    /\ Remove(u)
    /\ UNCHANGED <<clock, available>>

\* Variant: the waitlist is popped from the wrong end.
NextLast(u) == u \in wait /\ \A v \in wait \ {u} : Before(v, u)

\* ZPOPMIN
NextInLine(u) == u \in wait /\ \A v \in wait \ {u} : Before(u, v)

\* Variant: the stock is not looked at.
PromotableUnchecked == TRUE

\* A promotion needs a unit: a Reserve may have taken the one that was freed.
Promotable == available > 0

\* waitlist_promote.lua
Promote(u) ==
    /\ Promotable
    /\ NextInLine(u)
    /\ Remove(u)
    /\ available' = available - 1
    /\ UNCHANGED clock

\* reserve.lua and release.lua move the counter the list depends on.  There
\* is no upper limit in release.lua: when two handlers give back the same
\* reservation the counter exceeds the stock.  What the reconcilers write is
\* left to Reconciliation.
TakeUnit ==
    /\ available > 0
    /\ available' = available - 1
    /\ UNCHANGED <<clock, wait, score, call, answered>>

ReturnUnit ==
    /\ available < MaxAvailable
    /\ available' = available + 1
    /\ UNCHANGED <<clock, wait, score, call, answered>>

Tick ==
    /\ clock < MaxTime
    /\ \A c \in Calls : call[c].op = "join" => clock + 1 - call[c].stamp <= MaxLag
    /\ clock' = clock + 1
    /\ UNCHANGED <<available, wait, score, call, answered>>

Next ==
    \/ \E c \in Calls : JoinDone(c) \/ JoinFails(c) \/ GetCard(c)
    \/ \E c \in Calls, u \in Users : JoinStart(c, u) \/ GetRank(c, u)
    \/ \E u \in Users : Leave(u) \/ Promote(u)
    \/ TakeUnit \/ ReturnUnit \/ Tick

Spec == Init /\ [][Next]_vars

-----------------------------------------------------------------------------
(* Properties *)

(***************************************************************************)
(* A user whose Join was executed before the second in which another's     *)
(* Join was called is promoted first, whatever the delays and the ids      *)
(* (waitlist/service.go:33, waitlist_join.lua:21, waitlist_promote.lua:14).*)
(***************************************************************************)
NoQueueJump ==
    [][\A v \in Users :
          Promote(v) => \A u \in wait \ {v} : ~(answered[u] < score[v])]_vars

(***************************************************************************)
(* A waiting user's position gets worse only during the seconds in which   *)
(* it joined: after that it can only advance (waitlist_join.lua:16-21).    *)
(***************************************************************************)
PositionSettles ==
    [][\A u \in wait \cap wait' :
          clock > score[u] + MaxLag => Rank(u)' <= Rank(u)]_vars

(***************************************************************************)
(* GetPosition calls ZRANK and then ZCARD: the position it answers exceeds *)
(* the total only if a user left the list in between                       *)
(* (waitlist/service.go:58-71).                                            *)
(***************************************************************************)
PositionWithinTotal ==
    \A c \in Calls :
        call[c].op = "card" /\ ~call[c].left => call[c].rank + 1 <= Cardinality(wait)

\* A score is a time stamp read no later than the script ran, at most MaxLag
\* before.
ScoresInTime ==
    /\ \A u \in wait : score[u] <= answered[u] /\ answered[u] <= clock
    /\ \A c \in Calls : call[c].op = "join" =>
          call[c].stamp <= clock /\ clock - call[c].stamp <= MaxLag

\* The inductive invariant behind the three properties: no promotion and no
\* Reserve takes the counter below 0, also when a Reserve took the unit that
\* was freed for a waiter (waitlist_promote.lua:8), scores are in time for
\* their scripts, and a rank that was read is below the size of the list.
IndInv == TypeOK /\ ScoresInTime /\ PositionWithinTotal
=============================================================================
