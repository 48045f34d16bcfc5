---------------------------- MODULE TokenBucket ----------------------------
(***************************************************************************)
(* The token bucket of one user (internal/ratelimit/limiter.go and         *)
(* internal/redis/scripts/token_bucket.lua, called by RateLimitMiddleware).*)
(*                                                                         *)
(* Tokens are measured in units of refill time, so that the bucket gains   *)
(* one unit per tick: Capacity is capacity / rate and Cost is one token.   *)
(* The code's values are 10 tokens at 2 per second, a key that lives 60 s  *)
(* and Retry-After 1 s: Capacity = 5 s, Cost = 0.5 s, Window = 60 s,       *)
(* RetryAfter = 1 s.  The rounding of Lua's floating point is abstracted.  *)
(*                                                                         *)
(* Allow reads the clock before it calls the script, so scripts of one     *)
(* user may run in another order than their time stamps; MaxLag bounds the *)
(* age of a time stamp when its script runs (the Redis client's timeouts). *)
(***************************************************************************)
EXTENDS Integers

CONSTANTS Requests,    \* calls of Allow for this user that may be under way
          Capacity, Cost, Window, RetryAfter, MaxLag,
          MaxTime,     \* bound on the clock
          None

ASSUME BucketAssumption ==
    /\ Capacity \in Nat /\ Cost \in Nat \ {0} /\ Cost <= Capacity
    /\ MaxLag \in Nat /\ Window \in Nat /\ Capacity + MaxLag <= Window
    /\ RetryAfter \in Nat /\ Cost <= RetryAfter
    /\ MaxTime \in Nat
    /\ None \notin Nat

VARIABLES
    clock,
    tokens, last, expires,  \* the hash ratelimit:{user} and its expiry time
    stamp,      \* stamp[q]: the time q read before its script; None: idle
    start,      \* an observer counts what is let through from here on...
    granted,    \* ...as the cost of the calls that were answered "allowed"
    refusedAt   \* when the last call was refused; None: a token was taken since

vars == <<clock, tokens, last, expires, stamp, start, granted, refusedAt>>

TypeOK ==
    /\ clock \in Nat /\ start \in Nat /\ granted \in Nat
    /\ tokens \in Nat /\ last \in Nat /\ expires \in Nat
    /\ stamp \in [Requests -> Nat \cup {None}]
    /\ refusedAt \in Nat \cup {None}

Init ==
    /\ clock = 0 /\ start = 0 /\ granted = 0
    /\ tokens = 0 /\ last = 0 /\ expires = 0
    /\ stamp = [q \in Requests |-> None]
    /\ refusedAt = None

-----------------------------------------------------------------------------
(* token_bucket.lua *)

Live == clock < expires

\* Variant: the refill is not capped at the capacity.
RefillUncapped(now) ==
    IF ~Live THEN Capacity ELSE tokens + (now - last)

\* The tokens a script with time stamp now finds: a full bucket when the hash
\* is absent, otherwise what is stored plus the refill, which is negative when
\* a later time stamp got there first.
Refill(now) ==
    IF ~Live THEN Capacity
    ELSE IF tokens + (now - last) < Capacity
         THEN tokens + (now - last) ELSE Capacity

Enough(now) == Refill(now) >= Cost

\* Variant: the HMSET forgets last_refill, so the same refill counts again.
TakeOldStamp(now) ==
    /\ Enough(now)
    /\ tokens' = Refill(now) - Cost
    /\ last' = IF Live THEN last ELSE now
    /\ expires' = clock + Window
    /\ refusedAt' = None

Take(now) ==
    /\ Enough(now)
    /\ tokens' = Refill(now) - Cost
    /\ last' = now
    /\ expires' = clock + Window
    /\ refusedAt' = None

\* Variant: the token is charged before the check, so a refusal costs one too.
KeepCharged(now) ==
    /\ ~Enough(now)
    /\ tokens' = Refill(now) - Cost
    /\ last' = now
    /\ expires' = clock + Window

\* A refused call returns -1 before the HMSET: nothing is stored.
Keep(now) ==
    /\ ~Enough(now)
    /\ UNCHANGED <<tokens, last, expires>>

-----------------------------------------------------------------------------
(* Allow and the middleware *)

\* The request reaches the middleware and Allow reads the clock.
Arrive(q) ==
    /\ stamp[q] = None
    /\ stamp' = [stamp EXCEPT ![q] = clock]
    /\ UNCHANGED <<clock, tokens, last, expires, start, granted, refusedAt>>

Done(q) == stamp' = [stamp EXCEPT ![q] = None]

\* The script takes a token and the request is passed on.
Allowed(q) ==
    /\ stamp[q] # None
    /\ Take(stamp[q])
    /\ granted' = granted + Cost
    /\ Done(q)
    /\ UNCHANGED <<clock, start>>

\* The script refuses: 429 with Retry-After.
Refused(q) ==
    /\ stamp[q] # None
    /\ Keep(stamp[q])
    /\ refusedAt' = clock
    /\ Done(q)
    /\ UNCHANGED <<clock, start, granted>>

\* The script takes a token but its answer is lost: the client resends the
\* call with the same time stamp, or gives up and the middleware answers 500.
AnswerLost(q) ==
    /\ stamp[q] # None
    /\ Take(stamp[q])
    /\ Done(q) \/ UNCHANGED stamp
    /\ UNCHANGED <<clock, start, granted>>

\* The script is not run at all: 500.
CallFails(q) ==
    /\ stamp[q] # None
    /\ Done(q)
    /\ UNCHANGED <<clock, tokens, last, expires, start, granted, refusedAt>>

-----------------------------------------------------------------------------
(* The environment: time, and an observer who starts counting. *)

Tick ==
    /\ clock < MaxTime
    /\ \A q \in Requests : stamp[q] # None => clock + 1 - stamp[q] <= MaxLag
    /\ clock' = clock + 1
    /\ UNCHANGED <<tokens, last, expires, stamp, start, granted, refusedAt>>

Observe ==
    /\ start' = clock
    /\ granted' = 0
    /\ UNCHANGED <<clock, tokens, last, expires, stamp, refusedAt>>

Next ==
    \/ Tick \/ Observe
    \/ \E q \in Requests :
          Arrive(q) \/ Allowed(q) \/ Refused(q) \/ AnswerLost(q) \/ CallFails(q)

Spec == Init /\ [][Next]_vars

-----------------------------------------------------------------------------
(* Properties *)

(***************************************************************************)
(* In any interval the limiter lets through at most the burst the bucket   *)
(* holds plus what it refills in that interval, however the scripts of     *)
(* concurrent calls are ordered, resent, refused, and however often the    *)
(* hash expires and starts full again (token_bucket.lua:14-28).            *)
(***************************************************************************)
AllowanceBound == granted <= Capacity + (clock - start) + MaxLag

(***************************************************************************)
(* A client that was refused and waits as long as the Retry-After header   *)
(* says (ratelimit_middleware.go:35) is let through, unless another call   *)
(* of its user took a token meanwhile.                                     *)
(***************************************************************************)
RetryAfterHonoured ==
    [][\A q \in Requests :
          (/\ refusedAt # None /\ stamp[q] # None
           /\ stamp[q] >= refusedAt + RetryAfter)
          => ~Refused(q)]_vars

-----------------------------------------------------------------------------
(* The inductive invariant behind AllowanceBound. *)

\* No time stamp is older than MaxLag, and the stored one is not later than
\* the moment it was stored.
StampsRecent ==
    /\ \A q \in Requests :
          stamp[q] # None => stamp[q] <= clock /\ clock - stamp[q] <= MaxLag
    /\ last <= clock /\ start <= clock
    /\ expires # 0 => last <= expires - Window
    /\ expires <= clock + Window

\* What was let through and what is left was there at the start, or was
\* refilled up to the stored time stamp.
Conserved ==
    granted > 0 => granted + tokens <= Capacity + (last - start) + MaxLag

(***************************************************************************)
(* The inductive invariant: the bucket never holds more than its capacity, *)
(* time stamps are recent, and every token that was let through or is      *)
(* still there comes from the start or from a refill counted once          *)
(* (token_bucket.lua:14-28, limiter.go:52).                                *)
(***************************************************************************)
IndInv ==
    /\ TypeOK
    /\ tokens <= Capacity
    /\ granted > 0 => expires # 0
    /\ StampsRecent
    /\ Conserved
=============================================================================
