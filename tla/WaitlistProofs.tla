-------------------------- MODULE WaitlistProofs ---------------------------
(***************************************************************************)
(* The order and the positions of the waitlist, for every set of users and *)
(* of concurrent calls.  The properties need one invariant: a score was    *)
(* read no later than its script ran and at most MaxLag before, and the    *)
(* rank a GetPosition call holds is below the size of the list until       *)
(* somebody leaves.                                                        *)
(***************************************************************************)
EXTENDS Waitlist, FiniteSetTheorems, TLAPS

(***************************************************************************)
(* The size and every rank of a list of users are natural numbers, and a   *)
(* waiting user's rank is below the size.                                  *)
(***************************************************************************)
LEMMA RankBelowSize ==
    ASSUME TypeOK, NEW u \in wait
    PROVE  Rank(u) \in Nat /\ Cardinality(wait) \in Nat
           /\ Rank(u) + 1 <= Cardinality(wait)
<1>1. IsFiniteSet(wait)
  BY FS_Subset, WaitlistAssumption DEF TypeOK
<1>2. u \in Nat /\ score[u] \in Nat
  BY WaitlistAssumption DEF TypeOK
<1>3. Ahead(u) \subseteq wait \ {u}
  BY <1>2 DEF Ahead, Before
<1>4. IsFiniteSet(wait \ {u}) /\ Cardinality(wait \ {u}) = Cardinality(wait) - 1
  BY <1>1, FS_RemoveElement
<1>5. Cardinality(Ahead(u)) <= Cardinality(wait \ {u}) /\ IsFiniteSet(Ahead(u))
  BY <1>3, <1>4, FS_Subset
<1> QED
  BY <1>1, <1>4, <1>5, FS_CardinalityType DEF Rank

(***************************************************************************)
(* A list that only loses users, or gains some, changes its size so.       *)
(***************************************************************************)
LEMMA SizeGrows ==
    ASSUME NEW S, NEW T, IsFiniteSet(T), S \subseteq T
    PROVE  Cardinality(S) \in Nat /\ Cardinality(T) \in Nat
           /\ Cardinality(S) <= Cardinality(T)
  BY FS_Subset, FS_CardinalityType

(***************************************************************************)
(* What the script of Join does to the list keeps the invariant.           *)
(***************************************************************************)
LEMMA JoinPreserves ==
    ASSUME IndInv, NEW c \in Calls, JoinDone(c)
    PROVE  IndInv'
<1> DEFINE u == call[c].user
<1>1. call[c] \in Joining
  BY DEF JoinDone, IndInv, TypeOK, Idle, Asking, Joining
<1>2. /\ u \in Users /\ call[c].stamp \in Nat /\ call[c].stamp <= clock
  BY <1>1 DEF JoinDone, IndInv, ScoresInTime, Joining
<1>3. \A d \in Calls : call'[d] = call[d] \/ call'[d] = Idle
  BY DEF JoinDone, End, IndInv, TypeOK
<1>4. call' \in [Calls -> {Idle} \cup Joining \cup Asking]
  BY DEF JoinDone, End, IndInv, TypeOK
<1>5. clock' = clock /\ available' = available
  BY DEF JoinDone, JoinLua
<1>6. /\ wait \subseteq wait' /\ wait' \subseteq Users
      /\ score' \in [Users -> Nat] /\ answered' \in [Users -> Nat]
      /\ \A v \in wait' : score'[v] <= answered'[v] /\ answered'[v] <= clock
  <2>1. CASE Joinable(u)
    BY <2>1, <1>2 DEF JoinDone, JoinLua, IndInv, TypeOK, ScoresInTime
  <2>2. CASE ~Joinable(u)
    BY <2>2 DEF JoinDone, JoinLua, IndInv, TypeOK, ScoresInTime
  <2> QED
    BY <2>1, <2>2
<1>7. TypeOK'
  BY <1>4, <1>5, <1>6 DEF IndInv, TypeOK
<1>8. ScoresInTime'
  BY <1>3, <1>5, <1>6 DEF IndInv, ScoresInTime, Idle
<1>9. PositionWithinTotal'
  <2>1. IsFiniteSet(wait')
    BY <1>6, FS_Subset, WaitlistAssumption
  <2>2. /\ Cardinality(wait) \in Nat /\ Cardinality(wait') \in Nat
        /\ Cardinality(wait) <= Cardinality(wait')
    BY <1>6, <2>1, SizeGrows
  <2> SUFFICES ASSUME NEW d \in Calls, call'[d].op = "card", ~call'[d].left
               PROVE  call'[d].rank + 1 <= Cardinality(wait')
    BY DEF PositionWithinTotal
  <2>3. call'[d] = call[d] /\ call[d] \in Asking
    BY <1>3 DEF Idle, IndInv, TypeOK, Joining, Asking
  <2> QED
    BY <2>2, <2>3 DEF IndInv, PositionWithinTotal, Asking
<1> QED
  BY <1>7, <1>8, <1>9 DEF IndInv

(***************************************************************************)
(* A user who leaves or is popped keeps the invariant: the calls that hold *)
(* a rank have seen it.                                                    *)
(***************************************************************************)
LEMMA RemovePreserves ==
    ASSUME IndInv, NEW u \in Users, Remove(u), clock' = clock,
           available' \in Nat
    PROVE  IndInv'
<1>1. \A c \in Calls :
         \/ call[c] \in Asking /\ call'[c] \in Asking /\ call'[c].left
         \/ call[c] \in Joining \cup {Idle} /\ call'[c] = call[c]
  BY DEF Remove, IndInv, TypeOK, Idle, Joining, Asking
<1>2. call' \in [Calls -> {Idle} \cup Joining \cup Asking]
  BY <1>1 DEF Remove
<1>3. TypeOK'
  BY <1>2 DEF Remove, IndInv, TypeOK
<1>4. ScoresInTime'
  BY <1>1 DEF Remove, IndInv, TypeOK, ScoresInTime, Asking
<1>5. PositionWithinTotal'
  BY <1>1 DEF PositionWithinTotal, Joining, Idle
<1> QED
  BY <1>3, <1>4, <1>5 DEF IndInv

(***************************************************************************)
(* IndInv is an invariant of the waitlist, for any users, calls, delays    *)
(* and any number of units given back.                                     *)
(***************************************************************************)
THEOREM WaitlistInvariant == Spec => []IndInv
<1>1. Init => IndInv
  BY WaitlistAssumption
     DEF Init, IndInv, TypeOK, ScoresInTime, PositionWithinTotal, Idle
<1>2. IndInv /\ [Next]_vars => IndInv'
  <2> SUFFICES ASSUME IndInv, [Next]_vars
               PROVE  IndInv'
    OBVIOUS
  <2>1. ASSUME NEW c \in Calls, JoinDone(c)
        PROVE  IndInv'
    BY <2>1, JoinPreserves
  <2>2. ASSUME NEW c \in Calls, JoinFails(c) \/ GetCard(c)
        PROVE  IndInv'
    BY <2>2 DEF JoinFails, GetCard, End, IndInv, TypeOK, ScoresInTime,
                PositionWithinTotal, Idle
  <2>3. ASSUME NEW c \in Calls, NEW u \in Users, JoinStart(c, u)
        PROVE  IndInv'
    <3>1. call'[c] \in Joining /\ call'[c].stamp = clock /\ call'[c].op = "join"
      BY <2>3 DEF JoinStart, IndInv, TypeOK, Joining
    <3>2. \A d \in Calls : d # c => call'[d] = call[d]
      BY <2>3 DEF JoinStart, IndInv, TypeOK
    <3>3. TypeOK'
      BY <2>3, <3>1 DEF JoinStart, IndInv, TypeOK
    <3>4. ScoresInTime'
      BY <2>3, <3>1, <3>2, WaitlistAssumption
         DEF JoinStart, IndInv, TypeOK, ScoresInTime
    <3>5. PositionWithinTotal'
      BY <2>3, <3>1, <3>2 DEF JoinStart, IndInv, PositionWithinTotal
    <3> QED
      BY <3>3, <3>4, <3>5 DEF IndInv
  <2>4. ASSUME NEW c \in Calls, NEW u \in Users, GetRank(c, u)
        PROVE  IndInv'
    <3>1. /\ Rank(u) \in Nat /\ Cardinality(wait) \in Nat
          /\ Rank(u) + 1 <= Cardinality(wait)
      BY <2>4, RankBelowSize DEF GetRank, IndInv
    <3>2. /\ call'[c] = [op |-> "card", left |-> FALSE, rank |-> Rank(u)]
          /\ call'[c] \in Asking
      BY <2>4, <3>1 DEF GetRank, IndInv, TypeOK, Asking
    <3>3. \A d \in Calls : d # c => call'[d] = call[d]
      BY <2>4 DEF GetRank, IndInv, TypeOK
    <3>4. TypeOK'
      BY <2>4, <3>2 DEF GetRank, IndInv, TypeOK
    <3>5. ScoresInTime'
      BY <2>4, <3>2, <3>3 DEF GetRank, IndInv, ScoresInTime
    <3>6. PositionWithinTotal'
      BY <2>4, <3>1, <3>2, <3>3 DEF GetRank, IndInv, PositionWithinTotal
    <3> QED
      BY <3>4, <3>5, <3>6 DEF IndInv
  <2>5. ASSUME NEW u \in Users, Leave(u)
        PROVE  IndInv'
    BY <2>5, RemovePreserves DEF Leave, IndInv, TypeOK
  <2>6. ASSUME NEW u \in Users, Promote(u)
        PROVE  IndInv'
    <3>1. available' \in Nat
      BY <2>6, WaitlistAssumption DEF Promote, Promotable, IndInv, TypeOK
    <3> QED
      BY <2>6, <3>1, RemovePreserves DEF Promote
  <2>7. CASE TakeUnit \/ ReturnUnit
    <3>1. available' \in Nat
      BY <2>7, WaitlistAssumption DEF TakeUnit, ReturnUnit, IndInv, TypeOK
    <3> QED
      BY <2>7, <3>1 DEF TakeUnit, ReturnUnit, IndInv, TypeOK, ScoresInTime,
                        PositionWithinTotal
  <2>8. CASE Tick
    <3>1. \A c \in Calls : call[c].op = "join" => call[c].stamp \in Nat
      BY DEF IndInv, TypeOK, Idle, Joining, Asking
    <3> QED
      BY <2>8, <3>1, WaitlistAssumption
         DEF Tick, IndInv, TypeOK, ScoresInTime, PositionWithinTotal
  <2>9. CASE UNCHANGED vars
    BY <2>9 DEF vars, IndInv, TypeOK, ScoresInTime, PositionWithinTotal
  <2> QED
    BY <2>1, <2>2, <2>3, <2>4, <2>5, <2>6, <2>7, <2>8, <2>9 DEF Next
<1> QED
  BY <1>1, <1>2, PTL DEF Spec

(***************************************************************************)
(* The position GetPosition answers is within the total it answers unless  *)
(* a user left between its two calls.                                      *)
(***************************************************************************)
THEOREM WaitlistPosition == Spec => []PositionWithinTotal
<1>1. IndInv => PositionWithinTotal
  BY DEF IndInv
<1> QED
  BY <1>1, WaitlistInvariant, PTL

(***************************************************************************)
(* Promotion serves the users of earlier seconds first: a score is never   *)
(* later than the second its script ran in, and ZPOPMIN takes the least.   *)
(***************************************************************************)
THEOREM WaitlistOrder == Spec => NoQueueJump
<1>1. IndInv =>
        \A v \in Users :
          Promote(v) => \A u \in wait \ {v} : ~(answered[u] < score[v])
  BY DEF IndInv, TypeOK, ScoresInTime, Promote, NextInLine, Before
<1> QED
  BY <1>1, WaitlistInvariant, PTL DEF NoQueueJump

(***************************************************************************)
(* Once the seconds of its Join are over a user's position only advances:  *)
(* every Join still under way has a later time stamp than its score.       *)
(***************************************************************************)
THEOREM WaitlistAdvances == Spec => PositionSettles
<1>1. ASSUME IndInv, [Next]_vars, NEW u \in wait \cap wait',
             clock > score[u] + MaxLag
      PROVE  Rank(u)' <= Rank(u)
  <2>1. u \in Users /\ score[u] \in Nat /\ clock \in Nat
    BY <1>1 DEF IndInv, TypeOK
  <2>2. Ahead(u)' \subseteq Ahead(u)
    <3>1. CASE \E c \in Calls : JoinDone(c)
      <4>1. PICK c \in Calls : JoinDone(c)
        BY <3>1
      <4>2. /\ call[c].stamp \in Nat /\ clock - call[c].stamp <= MaxLag
            /\ call[c].user \in Users
        BY <1>1, <4>1 DEF JoinDone, IndInv, TypeOK, ScoresInTime, Idle, Asking, Joining
      <4>3. CASE Joinable(call[c].user)
        <5>1. /\ call[c].user # u /\ score'[u] = score[u]
              /\ score'[call[c].user] = call[c].stamp
              /\ \A v \in wait' : v = call[c].user
                                  \/ (v \in wait /\ score'[v] = score[v])
          BY <1>1, <2>1, <4>1, <4>2, <4>3 DEF JoinDone, JoinLua, Joinable, IndInv, TypeOK
        <5>2. call[c].stamp > score[u]
          BY <1>1, <2>1, <4>2, WaitlistAssumption
        <5> QED
          BY <2>1, <4>2, <5>1, <5>2 DEF Ahead, Before
      <4>4. CASE ~Joinable(call[c].user)
        BY <4>1, <4>4 DEF JoinDone, JoinLua, Ahead, Before
      <4> QED
        BY <4>3, <4>4
    <3>2. CASE \E v \in Users : Leave(v) \/ Promote(v)
      BY <1>1, <2>1, <3>2 DEF Leave, Promote, Remove, Ahead, Before, IndInv, TypeOK
    <3>3. CASE wait' = wait /\ score' = score
      BY <3>3 DEF Ahead, Before
    <3> QED
      BY <1>1, <3>1, <3>2, <3>3 DEF Next, vars, JoinFails, GetCard, JoinStart,
         GetRank, TakeUnit, ReturnUnit, Tick
  <2>3. IsFiniteSet(Ahead(u))
    <3>1. Ahead(u) \subseteq Users
      BY <1>1 DEF Ahead, IndInv, TypeOK
    <3> QED
      BY <3>1, FS_Subset, WaitlistAssumption
  <2> QED
    BY <2>2, <2>3, SizeGrows DEF Rank
<1>2. IndInv /\ [Next]_vars =>
        \A u \in wait \cap wait' :
          clock > score[u] + MaxLag => Rank(u)' <= Rank(u)
  BY <1>1
<1> QED
  BY <1>2, WaitlistInvariant, PTL DEF Spec, PositionSettles
=============================================================================
