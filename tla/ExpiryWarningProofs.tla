------------------------ MODULE ExpiryWarningProofs ------------------------
(***************************************************************************)
(* WarnedInTime for every period, window, TTL and delay that fit together  *)
(* (WarningAssumption), for any number of restarts and failed polls.       *)
(***************************************************************************)
EXTENDS ExpiryWarning, TLAPS

(***************************************************************************)
(* The schedule of the ticker is an invariant.                             *)
(***************************************************************************)
THEOREM WarningInvariant == Spec => []IndInv
<1> USE WarningAssumption
<1>1. Init => IndInv
  BY DEF Init, IndInv, TypeOK, OnTime, PollInWindow
<1>2. IndInv /\ [Next]_vars => IndInv'
  <2> SUFFICES ASSUME IndInv, [Next]_vars
               PROVE  IndInv'
    OBVIOUS
  <2> USE DEF IndInv, TypeOK, OnTime
  <2>1. CASE Reserve
    <3>1. OnTime' /\ TypeOK'
      BY <2>1 DEF Reserve
    <3>2. NextPoll <= clock + Period
      BY DEF NextPoll
    <3>3. PollInWindow'
      BY <2>1, <3>2 DEF Reserve, PollInWindow, NextPoll
    <3> QED
      BY <2>1, <3>1, <3>3 DEF Reserve
  <2>2. CASE End
    BY <2>2 DEF End, PollInWindow
  <2>3. CASE Fire
    <3>1. NextPoll + Jitter <= expires - Lo
          => NextPoll' + Jitter <= expires' - Lo
      BY <2>3 DEF Fire, NextPoll
    <3> QED
      BY <2>3, <3>1 DEF Fire, PollInWindow
  <2>4. CASE Poll
    <3>1. TypeOK' /\ OnTime' /\ (status' = "none" => warnings' = 0)
      BY <2>4 DEF Poll, Due
    <3>2. PollInWindow'
      <4> SUFFICES ASSUME status' = "reserved", warnings' = 0,
                          watching' <= expires' - Hi
                   PROVE  NextPoll' + Jitter <= expires' - Lo
        BY DEF PollInWindow
      <4>1. warnings = 0 /\ ~Due /\ expires' = expires /\ status = "reserved"
        BY <2>4 DEF Poll
      <4>2. tick + Jitter <= expires - Lo
        BY <2>4, <4>1 DEF Poll, PollInWindow, NextPoll
      <4>3. clock < expires - Hi
        BY <2>4, <4>1, <4>2 DEF Poll, Due
      <4> QED
        BY <2>4, <4>1, <4>3 DEF Poll, NextPoll
    <3> QED
      BY <3>1, <3>2
  <2>5. CASE PollFails
    BY <2>5 DEF PollFails, PollInWindow, NextPoll
  <2>6. CASE Restart
    BY <2>6 DEF Restart, PollInWindow, NextPoll
  <2>7. CASE Tick
    BY <2>7 DEF Tick, PollInWindow, NextPoll
  <2>8. CASE UNCHANGED vars
    BY <2>8 DEF vars, PollInWindow, NextPoll
  <2> QED
    BY <2>1, <2>2, <2>3, <2>4, <2>5, <2>6, <2>7, <2>8 DEF Next
<1> QED
  BY <1>1, <1>2, PTL DEF Spec

(***************************************************************************)
(* Nobody who was watched from the opening of the window on reaches its    *)
(* end unwarned: the poll that is due by then cannot be late any more.     *)
(***************************************************************************)
THEOREM UsersWarned == Spec => []WarnedInTime
<1>1. IndInv => WarnedInTime
  <2> SUFFICES ASSUME IndInv, status = "reserved", clock > expires - Lo,
                      watching <= expires - Hi, warnings = 0
               PROVE  FALSE
    BY DEF WarnedInTime, IndInv, TypeOK
  <2>1. NextPoll + Jitter <= expires - Lo
    BY DEF IndInv, PollInWindow
  <2>2. clock <= NextPoll + Jitter
    BY WarningAssumption DEF IndInv, OnTime, NextPoll, TypeOK
  <2>3. NextPoll \in Nat
    BY DEF IndInv, TypeOK, NextPoll
  <2> QED
    BY <2>1, <2>2, <2>3, WarningAssumption DEF IndInv, TypeOK
<1> QED
  BY <1>1, WarningInvariant, PTL

\* The whole window is shorter than two periods, the first one's delay taken
\* off: no room for a third poll.
WindowIsShort == Hi - Lo < 2 * Period - Jitter

\* Every warning was sent inside the window, and each pushes the next poll
\* towards its end, whether the ticker goes on or is started anew.
WarningsSpaced ==
    /\ WarnedAtMostTwice
    /\ warnings >= 1 => /\ status # "none" /\ clock >= expires - Hi
                        /\ NextPoll >= expires - Hi + Period - Jitter
    /\ warnings = 2 => /\ clock >= expires - Hi + Period - Jitter
                       /\ NextPoll >= expires - Hi + 2 * Period - Jitter

(***************************************************************************)
(* When the next poll is made, if nothing is started anew: not before the  *)
(* tick it belongs to.                                                     *)
(***************************************************************************)
LEMMA NextPollType ==
    ASSUME IndInv
    PROVE  /\ NextPoll \in Nat
           /\ tick # None => NextPoll = tick /\ NextPoll <= clock
  BY DEF IndInv, TypeOK, OnTime, NextPoll

(***************************************************************************)
(* Two warnings, and not more, fit into a window that is shorter than two  *)
(* periods less the delay of the first poll (the code's is 35 s, and       *)
(* 60 s - 5 s are allowed), even if the server restarts in between: a new  *)
(* ticker waits a whole period before its first poll.                      *)
(***************************************************************************)
THEOREM UsersNotPestered ==
    ASSUME WindowIsShort
    PROVE  Spec => []WarnedAtMostTwice
<1> USE WarningAssumption
<1>1. Init => WarningsSpaced
  BY DEF Init, WarningsSpaced, WarnedAtMostTwice
<1>2. IndInv /\ WarningsSpaced /\ [Next]_vars => WarningsSpaced'
  <2> SUFFICES ASSUME IndInv, WarningsSpaced, [Next]_vars
               PROVE  WarningsSpaced'
    OBVIOUS
  <2>0. TypeOK /\ OnTime /\ NextPoll \in Nat
    BY NextPollType DEF IndInv
  <2>1. CASE Reserve
    <3>1. warnings = 0 /\ warnings' = 0
      BY <2>1 DEF Reserve, IndInv
    <3> QED
      BY <3>1 DEF WarningsSpaced, WarnedAtMostTwice
  <2>2. CASE End
    BY <2>0, <2>2 DEF End, WarningsSpaced, WarnedAtMostTwice, NextPoll
  <2>3. CASE Fire
    <3>1. NextPoll' = NextPoll
      BY <2>0, <2>3 DEF Fire, TypeOK, OnTime, NextPoll
    <3> QED
      BY <2>0, <2>3, <3>1 DEF Fire, WarningsSpaced, WarnedAtMostTwice
  <2>4. CASE Poll
    <3>1. /\ tick \in Nat /\ tick <= clock /\ clock <= tick + Jitter
          /\ NextPoll = tick /\ NextPoll' = tick + Period
          /\ clock' = clock /\ expires' = expires /\ status' = status
      BY <2>0, <2>4 DEF Poll, TypeOK, OnTime, NextPoll
    <3>2. CASE ~Due
      BY <2>0, <2>4, <3>1, <3>2
         DEF Poll, WarningsSpaced, WarnedAtMostTwice, TypeOK
    <3>3. CASE Due
      <4>1. /\ status = "reserved" /\ clock >= expires - Hi
            /\ clock <= expires - Lo /\ warnings' = warnings + 1
        BY <2>0, <2>4, <3>3 DEF Poll, Due, TypeOK
      <4>2. warnings # 2
        BY <2>0, <3>1, <4>1 DEF WarningsSpaced, WindowIsShort, TypeOK
      <4>3. CASE warnings = 0
        BY <2>0, <3>1, <4>1, <4>3 DEF WarningsSpaced, WarnedAtMostTwice, TypeOK
      <4>4. CASE warnings = 1
        BY <2>0, <3>1, <4>1, <4>4 DEF WarningsSpaced, WarnedAtMostTwice, TypeOK
      <4> QED
        BY <2>0, <4>2, <4>3, <4>4 DEF WarningsSpaced, WarnedAtMostTwice, TypeOK
    <3> QED
      BY <3>2, <3>3
  <2>5. CASE PollFails
    <3>1. NextPoll' = NextPoll + Period
      BY <2>0, <2>5 DEF PollFails, TypeOK, OnTime, NextPoll
    <3> QED
      BY <2>0, <2>5, <3>1 DEF PollFails, WarningsSpaced, WarnedAtMostTwice, TypeOK
  <2>6. CASE Restart
    <3>1. NextPoll' = clock + Period
      BY <2>0, <2>6 DEF Restart, NextPoll
    <3> QED
      BY <2>0, <2>6, <3>1 DEF Restart, WarningsSpaced, WarnedAtMostTwice, TypeOK
  <2>7. CASE Tick
    <3>1. NextPoll' = NextPoll
      BY <2>7 DEF Tick, NextPoll
    <3> QED
      BY <2>0, <2>7, <3>1 DEF Tick, WarningsSpaced, WarnedAtMostTwice, TypeOK
  <2>8. CASE UNCHANGED vars
    BY <2>8 DEF vars, WarningsSpaced, WarnedAtMostTwice, NextPoll
  <2> QED
    BY <2>1, <2>2, <2>3, <2>4, <2>5, <2>6, <2>7, <2>8 DEF Next
<1>3. WarningsSpaced => WarnedAtMostTwice
  BY DEF WarningsSpaced
<1> QED
  BY <1>1, <1>2, <1>3, WarningInvariant, PTL DEF Spec
=============================================================================
