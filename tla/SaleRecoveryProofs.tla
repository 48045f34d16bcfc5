------------------------- MODULE SaleRecoveryProofs -------------------------
(***************************************************************************)
(* Proofs about SaleRecovery, for any number of restarts, crashes and      *)
(* calls: no script runs on a counter that lacks a lost write, and a       *)
(* server that serves is fully equipped.                                   *)
(***************************************************************************)
EXTENDS SaleRecovery, TLAPS

(* The inductive invariant behind CorrectedBeforeUse. *)

\* The scripts have been in the cache since this boot loaded them, no call
\* has failed, and the startup pass takes the sale.
Covered == faults = 0 /\ "sale" \in scripts /\ ~skipped

\* The pass has read available as expected, or has written it.
AvailableDone == (stage = "get_reserved" /\ ~drifted) \/ stage = "set_reserved"

PassOver == stage \in {"reconciled", "limiter", "serving"}

CorrInv ==
    /\ lost \subseteq Counters /\ unsynced \subseteq Counters /\ faults \in Nat
    /\ Covered /\ AvailableDone => "available" \notin lost
    /\ Covered /\ PassOver => lost = {}

(***************************************************************************)
(* A step that leaves the boot where it is and loses nothing keeps CorrInv.*)
(***************************************************************************)
LEMMA ServingKeepsCorrInv ==
    ASSUME CorrInv, UNCHANGED <<stage, drifted, scripts, skipped>>, lost' \subseteq lost,
           unsynced' \subseteq Counters, faults' = faults
    PROVE  CorrInv'
  BY DEF CorrInv, Covered, AvailableDone, PassOver

(***************************************************************************)
(* A call that fails ends what the invariant says.                         *)
(***************************************************************************)
LEMMA FaultKeepsCorrInv ==
    ASSUME CorrInv, Fault, lost' \subseteq Counters, unsynced' \subseteq Counters
    PROVE  CorrInv'
<1>1. faults' \in Nat /\ faults' # 0
  BY DEF CorrInv, Fault
<1> QED
  BY <1>1 DEF CorrInv, Covered

(***************************************************************************)
(* Every step of the startup pass keeps CorrInv.                           *)
(***************************************************************************)
LEMMA PassKeepsCorrInv ==
    ASSUME CorrInv, StartupPass
    PROVE  CorrInv'
<1>0. /\ lost \subseteq Counters /\ unsynced \subseteq Counters /\ faults \in Nat
      /\ Counters = {"available", "reserved"}
  BY DEF CorrInv, Counters
<1>1. CASE ListSales
  <2>1. /\ UNCHANGED <<lost, unsynced, scripts, faults>>
        /\ stage' = "reconciled" => skipped'
        /\ stage' \in {"get_available", "reconciled"}
    BY <1>1 DEF ListSales, keyVars, nodeVars, bounds
  <2> QED
    BY <1>0, <2>1 DEF CorrInv, Covered, AvailableDone, PassOver
<1>2. CASE GetAvailable
  <2>0. UNCHANGED <<unsynced, scripts, skipped>> /\ lost' \subseteq Counters
    BY <1>0, <1>2 DEF GetAvailable, nodeVars, histVars
  <2>1. CASE Fault
    BY <1>0, <2>0, <2>1, FaultKeepsCorrInv
  <2>2. CASE /\ lost' = IF drifted' THEN lost ELSE lost \ {"available"}
             /\ stage' = "get_reserved" /\ UNCHANGED bounds
    BY <1>0, <2>0, <2>2 DEF CorrInv, Covered, AvailableDone, PassOver, bounds
  <2> QED
    BY <1>2, <2>1, <2>2 DEF GetAvailable
<1>3. CASE GetReserved
  <2>0. UNCHANGED <<unsynced, scripts, skipped, drifted>> /\ lost' \subseteq Counters
    BY <1>0, <1>3 DEF GetReserved, nodeVars, histVars
  <2>1. CASE Fault
    BY <1>0, <2>0, <2>1, FaultKeepsCorrInv
  <2>2. CASE UNCHANGED bounds
    <3>1. PICK d \in BOOLEAN :
             /\ stage' = IF drifted \/ d THEN "set_available" ELSE "reconciled"
             /\ lost' = (IF d THEN lost ELSE lost \ {"reserved"}) \/ Fault
      BY <1>3 DEF GetReserved, AfterGets, Drifted
    <3>2. ~Fault /\ faults' = faults
      BY <1>0, <2>2 DEF Fault, bounds
    <3>3. stage = "get_reserved"
      BY <1>3 DEF GetReserved
    <3>4. CASE drifted \/ d
      BY <1>0, <2>0, <3>1, <3>2, <3>4 DEF CorrInv, Covered, AvailableDone, PassOver
    <3>5. CASE ~drifted /\ ~d
      <4>1. stage' = "reconciled" /\ lost' = lost \ {"reserved"}
        BY <3>1, <3>2, <3>5
      <4>2. Covered' => "available" \notin lost
        BY <2>0, <3>2, <3>3, <3>5 DEF CorrInv, Covered, AvailableDone
      <4>3. Covered' => lost' = {}
        BY <1>0, <4>1, <4>2
      <4> QED
        BY <1>0, <2>0, <3>2, <4>1, <4>3 DEF CorrInv, AvailableDone
    <3> QED
      BY <3>4, <3>5
  <2> QED
    BY <1>3, <2>1, <2>2 DEF GetReserved
<1>4. ASSUME NEW c \in Counters, NEW from, NEW to, SetCounter(c, from, to),
             \/ c = "available" /\ to = "set_reserved"
             \/ c = "reserved" /\ to = "reconciled" /\ from = "set_reserved"
      PROVE  CorrInv'
  <2>0. /\ UNCHANGED <<scripts, skipped, drifted>> /\ lost' \subseteq Counters
        /\ unsynced' \subseteq Counters
    BY <1>0, <1>4 DEF SetCounter, Write, nodeVars, histVars
  <2>1. CASE Fault
    BY <2>0, <2>1, FaultKeepsCorrInv
  <2>2. CASE lost' = lost \ {c} /\ stage' = to /\ UNCHANGED bounds
    <3>1. faults' = faults /\ stage = from
      BY <1>4, <2>2 DEF bounds, SetCounter
    <3>2. CASE c = "available" /\ to = "set_reserved"
      BY <1>0, <2>0, <2>2, <3>1, <3>2 DEF CorrInv, Covered, AvailableDone, PassOver
    <3>3. CASE c = "reserved" /\ to = "reconciled" /\ from = "set_reserved"
      <4>1. Covered' => "available" \notin lost
        BY <2>0, <3>1, <3>3 DEF CorrInv, Covered, AvailableDone
      <4>2. Covered' => lost' = {}
        BY <1>0, <2>2, <3>3, <4>1
      <4> QED
        BY <1>0, <2>0, <2>2, <3>1, <3>3, <4>2 DEF CorrInv, AvailableDone
    <3> QED
      BY <1>4, <3>2, <3>3
  <2> QED
    BY <1>4, <2>1, <2>2 DEF SetCounter
<1> QED
  BY <1>0, <1>1, <1>2, <1>3, <1>4 DEF StartupPass

(***************************************************************************)
(* CorrInv is an invariant.                                                *)
(***************************************************************************)
THEOREM CorrInvariant == Spec => []CorrInv
<1>1. Init => CorrInv
  BY DEF Init, CorrInv, Covered
<1>2. CorrInv /\ [Next]_vars => CorrInv'
  <2> SUFFICES ASSUME CorrInv, [Next]_vars PROVE CorrInv'
    OBVIOUS
  <2>0. /\ lost \subseteq Counters /\ unsynced \subseteq Counters /\ faults \in Nat
        /\ "reserved" \in Counters
    BY DEF CorrInv, Counters
  <2>1. CASE CreateSale
    BY <2>0, <2>1, ServingKeepsCorrInv
       DEF CreateSale, keyVars, nodeVars, histVars, bounds
  <2>2. CASE CreateKeys
    <3>1. CASE Fault
      BY <2>0, <2>2, <3>1, FaultKeepsCorrInv DEF CreateKeys, Write
    <3>2. CASE Write(Counters) /\ UNCHANGED <<lost, bounds>>
      BY <2>0, <2>2, <3>2, ServingKeepsCorrInv
         DEF CreateKeys, Write, nodeVars, histVars, bounds
    <3> QED
      BY <2>2, <3>1, <3>2 DEF CreateKeys
  <2>3. ASSUME NEW u \in Updates, UpdateMeta(u)
        PROVE  CorrInv'
    <3>1. CASE Fault
      BY <2>0, <2>3, <3>1, FaultKeepsCorrInv DEF UpdateMeta
    <3>2. CASE UNCHANGED bounds
      BY <2>0, <2>3, <3>2, ServingKeepsCorrInv DEF UpdateMeta, nodeVars, histVars, bounds
    <3> QED
      BY <2>3, <3>1, <3>2 DEF UpdateMeta
  <2>4. ASSUME NEW u \in Updates, NEW s \in Targets, UpdateRow(u, s)
        PROVE  CorrInv'
    BY <2>0, <2>4, ServingKeepsCorrInv DEF UpdateRow, keyVars, nodeVars, histVars, bounds
  <2>5. CASE Script
    BY <2>0, <2>5, ServingKeepsCorrInv DEF Script, Write, nodeVars, histVars, bounds
  <2>6. ASSUME NEW c \in Counters, WorkerSet(c)
        PROVE  CorrInv'
    BY <2>0, <2>6, ServingKeepsCorrInv DEF WorkerSet, Write, nodeVars, histVars, bounds
  <2>7. CASE LoadScripts
    BY <2>0, <2>7 DEF LoadScripts, keyVars, bounds, CorrInv, AvailableDone, PassOver
  <2>8. CASE LoadBucket
    <3>1. /\ stage = "reconciled" /\ stage' = "limiter" /\ Covered' = Covered
          /\ UNCHANGED <<lost, unsynced, faults>>
      BY <2>8 DEF LoadBucket, keyVars, histVars, bounds, Covered
    <3> QED
      BY <2>0, <3>1 DEF CorrInv, AvailableDone, PassOver
  <2>9. CASE Serve
    <3>1. /\ stage = "limiter" /\ stage' = "serving" /\ Covered' = Covered
          /\ UNCHANGED <<lost, unsynced, faults>>
      BY <2>9 DEF Serve, keyVars, histVars, bounds, Covered
    <3> QED
      BY <2>0, <3>1 DEF CorrInv, AvailableDone, PassOver
  <2>10. CASE ServerCrash
    BY <2>0, <2>10 DEF ServerCrash, CorrInv, AvailableDone, PassOver
  <2>11. CASE Sync
    BY <2>0, <2>11, ServingKeepsCorrInv DEF Sync, nodeVars, histVars, bounds
  <2>12. CASE RedisRestart
    BY <2>0, <2>12 DEF RedisRestart, CorrInv, Covered
  <2>13. CASE UNCHANGED vars
    BY <2>0, <2>13, ServingKeepsCorrInv DEF vars, keyVars, nodeVars, histVars, bounds
  <2> QED
    BY <2>1, <2>2, <2>3, <2>4, <2>5, <2>6, <2>7, <2>8, <2>9, <2>10, <2>11, <2>12,
       <2>13, PassKeepsCorrInv DEF Next
<1> QED
  BY <1>1, <1>2, PTL DEF Spec

(***************************************************************************)
(* The lost scripts keep every handler out until a boot, and the boot has  *)
(* the counters right before it serves, unless a call of it failed or the  *)
(* sale was not active.                                                    *)
(***************************************************************************)
THEOREM LossesCorrected == Spec => []CorrectedBeforeUse
<1>1. CorrInv => CorrectedBeforeUse
  BY DEF CorrInv, Covered, PassOver, CorrectedBeforeUse, ScriptRuns
<1> QED
  BY <1>1, CorrInvariant, PTL

-----------------------------------------------------------------------------
(* What the boot has equipped Redis with, stage by stage. *)
BootInv ==
    /\ scripts \subseteq Scripts
    /\ equipped =>
        /\ stage # "down" => "sale" \in scripts
        /\ stage \in {"limiter", "serving"} => "bucket" \in scripts
        /\ stage = "serving" => notify

(***************************************************************************)
(* BootInv is an invariant.                                                *)
(***************************************************************************)
THEOREM BootInvariant == Spec => []BootInv
<1>1. Init => BootInv
  BY DEF Init, BootInv
<1>2. BootInv /\ [Next]_vars => BootInv'
  <2> SUFFICES ASSUME BootInv, [Next]_vars PROVE BootInv'
    OBVIOUS
  <2>1. CASE UNCHANGED <<stage, scripts, notify, equipped>>
    BY <2>1 DEF BootInv
  <2>2. CASE LoadScripts
    BY <2>2 DEF LoadScripts, BootInv, Scripts
  <2>3. CASE StartupPass
    <3>1. /\ UNCHANGED <<scripts, notify, equipped>> /\ stage # "down"
          /\ stage' \notin {"limiter", "serving"}
      <4>1. CASE ListSales
        BY <4>1 DEF ListSales, nodeVars
      <4>2. CASE GetAvailable
        BY <4>2 DEF GetAvailable, nodeVars, histVars
      <4>3. CASE GetReserved
        BY <4>3 DEF GetReserved, AfterGets, nodeVars, histVars
      <4>4. CASE \/ SetCounter("available", "set_available", "set_reserved")
                 \/ SetCounter("reserved", "set_reserved", "reconciled")
        BY <4>4 DEF SetCounter, nodeVars, histVars
      <4> QED
        BY <2>3, <4>1, <4>2, <4>3, <4>4 DEF StartupPass
    <3> QED
      BY <3>1 DEF BootInv
  <2>4. CASE LoadBucket
    BY <2>4 DEF LoadBucket, BootInv, Scripts, histVars
  <2>5. CASE Serve
    BY <2>5 DEF Serve, EnableNotifications, BootInv, histVars
  <2>6. CASE ServerCrash
    BY <2>6 DEF ServerCrash, BootInv, nodeVars, histVars
  <2>7. CASE RedisRestart
    BY <2>7 DEF RedisRestart, BootInv
  <2> QED
    BY <2>1, <2>2, <2>3, <2>4, <2>5, <2>6, <2>7
       DEF Next, vars, nodeVars, histVars, CreateSale, CreateKeys, UpdateRow,
           UpdateMeta, Script, WorkerSet, Sync
<1> QED
  BY <1>1, <1>2, PTL DEF Spec

(***************************************************************************)
(* A server that serves, over a Redis that did not restart since the boot  *)
(* began, has every script and expiry events: no path to serving leaves    *)
(* one out.                                                                *)
(***************************************************************************)
THEOREM ServingIsEquipped == Spec => []EquippedWhenServing
<1>1. BootInv => EquippedWhenServing
  BY DEF BootInv, EquippedWhenServing, Scripts
<1> QED
  BY <1>1, BootInvariant, PTL
=============================================================================
