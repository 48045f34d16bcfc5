---------------------------- MODULE SaleRecovery ----------------------------
(***************************************************************************)
(* A sale over restarts of Redis and of the server: the inventory service  *)
(* (CreateSale, UpdateSaleStatus), the boot sequence of cmd/server/main.go *)
(* with its startup pass, and what each restart takes away.  Redis syncs   *)
(* its append-only file every second and loses what came later, with the   *)
(* script cache and notify-keyspace-events; the server loses its calls.    *)
(*                                                                         *)
(* Of a counter only this is kept: whether it was written since the last   *)
(* sync, and whether it lacks a write that Redis or the server has lost.   *)
(* FlashSale and Reconciliation have the values.                           *)
(***************************************************************************)
EXTENDS Integers

CONSTANTS Updates,        \* calls of UpdateSaleStatus that may be under way
          Targets,        \* the statuses they set
          None,
          MaxUpdates, MaxRestarts, MaxCrashes, MaxFaults   \* bounds

Statuses == {"pending", "active", "paused", "ended"}

ASSUME RecoveryAssumption ==
    /\ Targets \subseteq {"active", "paused", "ended"}
    /\ None \notin Statuses
    /\ MaxUpdates \in Nat /\ MaxRestarts \in Nat
    /\ MaxCrashes \in Nat /\ MaxFaults \in Nat

VARIABLES
    status,            \* sales.status; "none": there is no row
    meta, disk,        \* the status field of sale:{id}:meta, and as synced
    unsynced,          \* counters written since the last sync
    lost,              \* counters that lack a lost write
    scripts, notify,   \* script cache and notify-keyspace-events
    stage,             \* how far the server has come
    drifted,           \* the startup pass: available was not as expected
    creating,          \* CreateSale is between the INSERT and the pipeline
    update,            \* update[u]: the status still to be written to Redis
    equipped,          \* history: Redis has not restarted since the boot began
    skipped,           \* history: the startup pass found the sale not active
    updates, restarts, crashes, faults

keyVars == <<meta, disk, unsynced, lost>>
nodeVars == <<scripts, notify>>
callVars == <<creating, update, updates>>
histVars == <<equipped, skipped>>
bounds == <<restarts, crashes, faults>>
vars == <<status, keyVars, nodeVars, stage, drifted, callVars, histVars, bounds>>

Counters == {"available", "reserved"}
Stages == {"down", "scripts", "get_available", "get_reserved", "set_available",
           "set_reserved", "reconciled", "limiter", "serving"}
Scripts == {"sale", "bucket"}   \* the five of loadScripts, and token_bucket
Meta == Statuses \cup {None}

TypeOK ==
    /\ status \in Statuses \cup {"none"} /\ meta \in Meta /\ disk \in Meta
    /\ unsynced \subseteq Counters /\ lost \subseteq Counters
    /\ scripts \subseteq Scripts /\ notify \in BOOLEAN
    /\ stage \in Stages /\ drifted \in BOOLEAN
    /\ creating \in BOOLEAN /\ update \in [Updates -> Meta]
    /\ equipped \in BOOLEAN /\ skipped \in BOOLEAN
    /\ updates \in Nat /\ restarts \in Nat /\ crashes \in Nat /\ faults \in Nat

Init ==
    /\ status = "none" /\ meta = None /\ disk = None
    /\ unsynced = {} /\ lost = {}
    /\ scripts = {} /\ notify = FALSE
    /\ stage = "down" /\ drifted = FALSE
    /\ creating = FALSE /\ update = [u \in Updates |-> None]
    /\ equipped = FALSE /\ skipped = FALSE
    /\ updates = 0 /\ restarts = 0 /\ crashes = 0 /\ faults = 0

Fault == faults < MaxFaults /\ faults' = faults + 1 /\ UNCHANGED <<restarts, crashes>>

\* INCR, DECR or SET of the counters cs.
Write(cs) == unsynced' = unsynced \cup cs

-----------------------------------------------------------------------------
(* Inventory service *)

\* The INSERT; nobody else has the id of the sale before the call is over.
CreateSale ==
    /\ stage = "serving" /\ status = "none"
    /\ status' = "pending"
    /\ creating' = TRUE
    /\ UNCHANGED <<keyVars, nodeVars, stage, drifted, update, updates, histVars, bounds>>

\* The pipeline.  It is no transaction: when it fails, any part of it may
\* have been executed.
CreateKeys ==
    /\ creating
    /\ creating' = FALSE
    /\ \/ Write(Counters) /\ meta' = "pending" /\ UNCHANGED <<lost, bounds>>
       \/ /\ Fault
          /\ \E cs \in SUBSET Counters : Write(cs) /\ lost' = lost \cup (Counters \ cs)
          /\ meta' \in {meta, "pending"}
    /\ UNCHANGED <<status, disk, nodeVars, stage, drifted, update, updates, histVars>>

\* UpdateSaleStatus: UPDATE sales, then HSET meta.
UpdateRow(u, s) ==
    /\ stage = "serving" /\ status # "none" /\ ~creating
    /\ update[u] = None
    /\ updates < MaxUpdates /\ updates' = updates + 1
    /\ status' = s
    /\ update' = [update EXCEPT ![u] = s]
    /\ UNCHANGED <<keyVars, nodeVars, stage, drifted, creating, histVars, bounds>>

UpdateMeta(u) ==
    /\ update[u] # None
    /\ update' = [update EXCEPT ![u] = None]
    /\ \/ meta' = update[u] /\ UNCHANGED bounds
       \/ Fault /\ meta' \in {meta, update[u]}
    /\ UNCHANGED <<status, disk, unsynced, lost, nodeVars, stage, drifted, creating,
                   updates, histVars>>

-----------------------------------------------------------------------------
(* The counters while the server serves *)

\* EVALSHA fails with NOSCRIPT when Redis has lost the script.
ScriptRuns == stage = "serving" /\ "sale" \in scripts

\* reserve.lua, release.lua and waitlist_promote.lua, or confirm.lua; none of
\* the handlers looks at the status of the sale.
Script ==
    /\ ScriptRuns
    /\ status # "none" /\ ~creating
    /\ Write(Counters) \/ Write({"reserved"})
    /\ UNCHANGED <<status, meta, disk, lost, nodeVars, stage, drifted, callVars,
                   histVars, bounds>>

\* A SET of the worker, of an active sale.
WorkerSet(c) ==
    /\ stage = "serving" /\ status = "active"
    /\ Write({c}) /\ lost' = lost \ {c}
    /\ UNCHANGED <<status, meta, disk, nodeVars, stage, drifted, callVars, histVars, bounds>>

-----------------------------------------------------------------------------
(* The boot sequence of main *)

\* NewClient: loadScripts.
LoadScripts ==
    /\ stage = "down"
    /\ stage' = "scripts"
    /\ scripts' = scripts \cup {"sale"}
    /\ equipped' = TRUE /\ skipped' = FALSE
    /\ UNCHANGED <<status, keyVars, notify, drifted, callVars, bounds>>

\* ReconcileOnStartup takes the active sales.
ListSales ==
    /\ stage = "scripts"
    /\ stage' = IF status = "active" THEN "get_available" ELSE "reconciled"
    /\ skipped' = (status # "active")
    /\ drifted' = FALSE
    /\ UNCHANGED <<status, keyVars, nodeVars, callVars, equipped, bounds>>

\* Variant: only a drift of both counters counts.
DriftedBoth(a, r) == a /\ r

Drifted(a, r) == a \/ r

AfterGets(d) == IF Drifted(drifted, d) THEN "set_available" ELSE "reconciled"

\* reconcileSale: the counts, GET available.  A counter that is found as the
\* tables say lacks nothing.  A count that fails ends the pass for this sale;
\* the error of a GET is dropped and any value, 0, is compared.
GetAvailable ==
    /\ stage = "get_available"
    /\ \/ /\ drifted' \in BOOLEAN
          /\ lost' = IF drifted' THEN lost ELSE lost \ {"available"}
          /\ stage' = "get_reserved" /\ UNCHANGED bounds
       \/ Fault /\ drifted' \in BOOLEAN /\ stage' = "get_reserved" /\ UNCHANGED lost
       \/ Fault /\ stage' = "reconciled" /\ UNCHANGED <<drifted, lost>>
    /\ UNCHANGED <<status, meta, disk, unsynced, nodeVars, callVars, histVars>>

GetReserved ==
    /\ stage = "get_reserved"
    /\ \E d \in BOOLEAN :
          /\ stage' = AfterGets(d)
          /\ \/ /\ lost' = IF d THEN lost ELSE lost \ {"reserved"}
                /\ UNCHANGED bounds
             \/ Fault /\ UNCHANGED lost
    /\ UNCHANGED <<status, meta, disk, unsynced, nodeVars, drifted, callVars, histVars>>

\* A failed SET may have been carried out; the error is logged and main goes
\* on with the next sale.
SetCounter(c, from, to) ==
    /\ stage = from
    /\ \/ Write({c}) /\ lost' = lost \ {c} /\ stage' = to /\ UNCHANGED bounds
       \/ Fault /\ Write({c}) /\ lost' = lost \ {c} /\ stage' = "reconciled"
       \/ Fault /\ UNCHANGED <<unsynced, lost>> /\ stage' = "reconciled"
    /\ UNCHANGED <<status, meta, disk, nodeVars, drifted, callVars, histVars>>

StartupPass ==
    \/ ListSales \/ GetAvailable \/ GetReserved
    \/ SetCounter("available", "set_available", "set_reserved")
    \/ SetCounter("reserved", "set_reserved", "reconciled")

\* NewLimiter.
LoadBucket ==
    /\ stage = "reconciled"
    /\ stage' = "limiter"
    /\ scripts' = scripts \cup {"bucket"}
    /\ UNCHANGED <<status, keyVars, notify, drifted, callVars, histVars, bounds>>

\* Variant: notifications are left as Redis has them.
EnableNotificationsNot == UNCHANGED notify

\* ConfigSet notify-keyspace-events.
EnableNotifications == notify' = TRUE

\* The worker, ExpiryHandler.Start, the router.
Serve ==
    /\ stage = "limiter"
    /\ stage' = "serving"
    /\ EnableNotifications
    /\ UNCHANGED <<status, keyVars, scripts, drifted, callVars, histVars, bounds>>

-----------------------------------------------------------------------------
(* Failures *)

\* Also every log.Fatalf of main.  Keys that CreateSale did not come to write
\* are missing.
ServerCrash ==
    /\ stage # "down"
    /\ crashes < MaxCrashes /\ crashes' = crashes + 1
    /\ stage' = "down"
    /\ creating' = FALSE /\ update' = [u \in Updates |-> None]
    /\ lost' = IF creating THEN Counters ELSE lost
    /\ UNCHANGED <<status, meta, disk, unsynced, nodeVars, drifted, updates,
                   histVars, restarts, faults>>

\* appendfsync everysec
Sync ==
    /\ disk' = meta /\ unsynced' = {}
    /\ UNCHANGED <<status, meta, lost, nodeVars, stage, drifted, callVars, histVars, bounds>>

RedisRestart ==
    /\ restarts < MaxRestarts /\ restarts' = restarts + 1
    /\ meta' = disk
    /\ lost' = lost \cup unsynced /\ unsynced' = {}
    /\ scripts' = {} /\ notify' = FALSE
    /\ equipped' = FALSE
    /\ UNCHANGED <<status, disk, stage, drifted, callVars, skipped, crashes, faults>>

Next ==
    \/ CreateSale \/ CreateKeys
    \/ \E u \in Updates : UpdateMeta(u) \/ \E s \in Targets : UpdateRow(u, s)
    \/ Script \/ \E c \in Counters : WorkerSet(c)
    \/ LoadScripts \/ StartupPass \/ LoadBucket \/ Serve
    \/ ServerCrash \/ Sync \/ RedisRestart

Spec == Init /\ [][Next]_vars

-----------------------------------------------------------------------------
(* Properties *)

(***************************************************************************)
(* No script runs on a counter that lacks a lost write: a restart of Redis *)
(* that loses the last second takes the scripts too, so every handler is   *)
(* refused until the server boots again, and the boot corrects the         *)
(* counters before it serves, wherever in the boot Redis restarts          *)
(* (client.go:92, reconcile_startup.go:128, main.go:60-64).  The two       *)
(* exceptions are those of the code: a call that fails is logged and       *)
(* passed over, and a sale that is not active is not corrected.            *)
(***************************************************************************)
CorrectedBeforeUse ==
    ScriptRuns /\ lost # {} => faults > 0 \/ skipped

(***************************************************************************)
(* A server that serves has every script cached and expiry events switched *)
(* on, unless Redis restarted after the boot began                         *)
(* (client.go:92-106, limiter.go:41, expiry_handler.go:37).                *)
(***************************************************************************)
EquippedWhenServing ==
    (stage = "serving" /\ equipped) => scripts = Scripts /\ notify
=============================================================================
