--------------------------- MODULE ExpiryWarning ---------------------------
(***************************************************************************)
(* The expiry warning of one reservation: runExpiryWarningTicker polls     *)
(* Postgres with a fixed period and warns the users of the reservations    *)
(* whose expires_at lies in a window ahead (queue/expiry_handler.go:63-118)*)
(* The poll remembers nothing, so that nobody is left out, or warned over  *)
(* and over, depends on period, window and delays fitting together.        *)
(*                                                                         *)
(* The code's values in units of 5 s: Period = 6, Lo = 11, Hi = 18 and a   *)
(* TTL of 120.  Jitter is what the window leaves for the time between a    *)
(* tick and the NOW() of its query.                                        *)
(***************************************************************************)
EXTENDS Integers

CONSTANTS Period, Lo, Hi, TTL, Jitter,
          MaxTime, MaxRestarts, MaxFaults,   \* bounds
          None

ASSUME WarningAssumption ==
    /\ Period \in Nat /\ Lo \in Nat /\ Hi \in Nat /\ TTL \in Nat /\ Jitter \in Nat
    /\ Jitter < Period /\ Period + Jitter <= Hi - Lo /\ Hi <= TTL
    /\ MaxTime \in Nat /\ MaxRestarts \in Nat /\ MaxFaults \in Nat
    /\ None \notin Nat

VARIABLES
    clock,
    next,       \* when the ticker fires next
    tick,       \* the tick in the ticker's channel, by its time; None: empty
    watching,   \* since when every poll has been made: start or failed poll
    status,     \* the row: "none", "reserved", "ended"
    expires,    \* its expires_at
    warnings,   \* how often the user was sent reservation_expiring
    restarts, faults

vars == <<clock, next, tick, watching, status, expires, warnings, restarts, faults>>

TypeOK ==
    /\ clock \in Nat /\ next \in Nat /\ tick \in Nat \cup {None}
    /\ watching \in Nat /\ watching <= clock
    /\ status \in {"none", "reserved", "ended"} /\ expires \in Nat
    /\ warnings \in Nat /\ restarts \in Nat /\ faults \in Nat

Init ==
    /\ clock = 0 /\ next = Period /\ tick = None /\ watching = 0
    /\ status = "none" /\ expires = 0 /\ warnings = 0
    /\ restarts = 0 /\ faults = 0

-----------------------------------------------------------------------------
(* The reservation *)

Reserve ==
    /\ status = "none"
    /\ status' = "reserved"
    /\ expires' = clock + TTL
    /\ UNCHANGED <<clock, next, tick, watching, warnings, restarts, faults>>

\* Confirm and Release at any time, the expiry handler once the TTL is over.
End ==
    /\ status = "reserved"
    /\ status' = "ended"
    /\ UNCHANGED <<clock, next, tick, watching, expires, warnings, restarts, faults>>

-----------------------------------------------------------------------------
(* The ticker and the poll *)

\* Variant: the window starts 60 s ahead, as the comment on the query says.
DueSixtyToNinety == status = "reserved" /\ expires \in (clock + Lo + 1)..(clock + Hi)

\* Variant: the window has no lower end.
DueOpenEnded == status = "reserved" /\ expires <= clock + Hi

\* status = 'reserved' AND expires_at BETWEEN NOW() + 55 s AND NOW() + 90 s
Due == status = "reserved" /\ expires \in (clock + Lo)..(clock + Hi)

\* Variant: a loop that sleeps after its work, whose period drifts.
FireDrifting ==
    /\ clock = next
    /\ tick' = clock
    /\ next' = clock + Period + Jitter
    /\ UNCHANGED <<clock, watching, status, expires, warnings, restarts, faults>>

\* time.NewTicker: the next tick does not wait for this one's poll.
Fire ==
    /\ clock = next
    /\ tick' = clock
    /\ next' = clock + Period
    /\ UNCHANGED <<clock, watching, status, expires, warnings, restarts, faults>>

\* notifyExpiringReservations
Poll ==
    /\ tick # None
    /\ tick' = None
    /\ warnings' = IF Due THEN warnings + 1 ELSE warnings
    /\ UNCHANGED <<clock, next, watching, status, expires, restarts, faults>>

\* The query fails, or the warning is not published: nothing is sent and
\* nothing is tried again before the next tick.
PollFails ==
    /\ tick # None
    /\ faults < MaxFaults
    /\ tick' = None
    /\ faults' = faults + 1
    /\ watching' = clock
    /\ UNCHANGED <<clock, next, status, expires, warnings, restarts>>

\* The server restarts and with it the ticker.
Restart ==
    /\ restarts < MaxRestarts
    /\ next' = clock + Period
    /\ tick' = None
    /\ watching' = clock
    /\ restarts' = restarts + 1
    /\ UNCHANGED <<clock, status, expires, warnings, faults>>

\* The ticker fires on time and a poll is at most Jitter late.
Tick ==
    /\ clock < MaxTime
    /\ clock < next
    /\ tick # None => clock < tick + Jitter
    /\ clock' = clock + 1
    /\ UNCHANGED <<next, tick, watching, status, expires, warnings, restarts, faults>>

Next ==
    Reserve \/ End \/ Fire \/ Poll \/ PollFails \/ Restart \/ Tick

Spec == Init /\ [][Next]_vars

-----------------------------------------------------------------------------
(* Properties *)

(***************************************************************************)
(* A user who still holds the reservation when less than Lo is left has    *)
(* been warned, whatever the phase of the ticker, provided the server ran  *)
(* and no poll failed since the window opened: README.md:74, "60-second    *)
(* expiry warnings before reservation timeout" (expiry_handler.go:73, 96). *)
(***************************************************************************)
WarnedInTime ==
    (status = "reserved" /\ clock > expires - Lo /\ watching <= expires - Hi)
    => warnings >= 1

(***************************************************************************)
(* The window overlaps the period, so a user can be warned twice, but not  *)
(* more often, even when the server restarts (expiry_handler.go:96).       *)
(***************************************************************************)
WarnedAtMostTwice == warnings <= 2

\* When the next poll is expected, and that it is not missed.
NextPoll == IF tick = None THEN next ELSE tick

OnTime ==
    /\ clock <= next /\ next <= clock + Period
    /\ tick # None => tick <= clock /\ clock <= tick + Jitter /\ next = tick + Period

\* While the warning is still owed, the next poll comes before the window
\* closes, its delay included.
PollInWindow ==
    (status = "reserved" /\ warnings = 0 /\ watching <= expires - Hi)
    => NextPoll + Jitter <= expires - Lo

(***************************************************************************)
(* The ticker's schedule, which WarnedInTime follows from: polls stay in   *)
(* step with the ticks, and as long as a warning is owed one is still to   *)
(* come before the window closes (expiry_handler.go:73-83).                *)
(***************************************************************************)
IndInv == TypeOK /\ OnTime /\ PollInWindow /\ (status = "none" => warnings = 0)
=============================================================================
