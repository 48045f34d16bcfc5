------------------------- MODULE TokenBucketProofs -------------------------
(***************************************************************************)
(* AllowanceBound for every capacity, cost, lag and number of concurrent   *)
(* calls.  The bound itself is not inductive: what a later call may take   *)
(* depends on the stored tokens and time stamp.  IndInv adds that granted  *)
(* plus stored tokens never exceed what was there or refilled up to the    *)
(* stored time stamp, which a refill (it moves both by the same amount)    *)
(* and a script that runs out of order leave alone.                        *)
(***************************************************************************)
EXTENDS TokenBucket, TLAPS

(***************************************************************************)
(* A script whose time stamp is recent finds at most a full bucket, and    *)
(* never more than the stored tokens and the refill since.                 *)
(***************************************************************************)
LEMMA RefillBounds ==
    ASSUME IndInv, NEW now \in Nat
    PROVE  /\ Refill(now) \in Int
           /\ Refill(now) <= Capacity
           /\ Live => Refill(now) <= tokens + (now - last)
  BY BucketAssumption DEF IndInv, TypeOK, Refill

(***************************************************************************)
(* Taking a token preserves the invariant, whether or not the answer       *)
(* reaches the middleware: used for Allowed and AnswerLost.                *)
(***************************************************************************)
LEMMA TakePreserves ==
    ASSUME IndInv, NEW q \in Requests, stamp[q] # None, Take(stamp[q]),
           stamp' = [stamp EXCEPT ![q] = None] \/ stamp' = stamp,
           granted' = granted + Cost \/ granted' = granted,
           clock' = clock, start' = start
    PROVE  IndInv'
<1> DEFINE now == stamp[q]
<1>1. /\ now \in Nat /\ now <= clock /\ clock - now <= MaxLag
  BY DEF IndInv, TypeOK, StampsRecent
<1>2. /\ Refill(now) \in Int /\ Refill(now) >= Cost /\ Refill(now) <= Capacity
      /\ Live => Refill(now) <= tokens + (now - last)
  BY <1>1, RefillBounds DEF Take, Enough
<1>3. /\ tokens' = Refill(now) - Cost /\ last' = now
      /\ expires' = clock + Window /\ refusedAt' = None
  BY DEF Take
<1> HIDE DEF now
<1>4. TypeOK'
  BY <1>1, <1>2, <1>3, BucketAssumption DEF IndInv, TypeOK
<1>5. tokens' <= Capacity
  BY <1>2, <1>3, BucketAssumption
<1>6. expires' # 0
  BY <1>3, BucketAssumption DEF IndInv, TypeOK
<1>7. StampsRecent'
  BY <1>1, <1>3, BucketAssumption DEF IndInv, TypeOK, StampsRecent
<1>8. Conserved'
  <2>1. CASE granted = 0
    BY <2>1, <1>1, <1>2, <1>3, BucketAssumption
       DEF IndInv, TypeOK, StampsRecent, Conserved
  <2>2. CASE granted > 0 /\ Live
    BY <2>2, <1>1, <1>2, <1>3, BucketAssumption
       DEF IndInv, TypeOK, Conserved
  <2>3. CASE granted > 0 /\ ~Live
    BY <2>3, <1>1, <1>2, <1>3, BucketAssumption
       DEF IndInv, TypeOK, StampsRecent, Conserved, Live
  <2> QED
    BY <2>1, <2>2, <2>3 DEF IndInv, TypeOK
<1> QED
  BY <1>4, <1>5, <1>6, <1>7, <1>8 DEF IndInv

(***************************************************************************)
(* IndInv is an invariant of the bucket.                                   *)
(***************************************************************************)
THEOREM BucketInvariant == Spec => []IndInv
<1>1. Init => IndInv
  BY BucketAssumption DEF Init, IndInv, TypeOK, StampsRecent, Conserved
<1>2. IndInv /\ [Next]_vars => IndInv'
  <2> SUFFICES ASSUME IndInv, [Next]_vars
               PROVE  IndInv'
    OBVIOUS
  <2>1. CASE Tick
    BY <2>1, BucketAssumption
       DEF Tick, IndInv, TypeOK, StampsRecent, Conserved
  <2>2. CASE Observe
    BY <2>2, BucketAssumption
       DEF Observe, IndInv, TypeOK, StampsRecent, Conserved
  <2>3. ASSUME NEW q \in Requests, Arrive(q)
        PROVE  IndInv'
    BY <2>3, BucketAssumption
       DEF Arrive, IndInv, TypeOK, StampsRecent, Conserved
  <2>4. ASSUME NEW q \in Requests, Allowed(q)
        PROVE  IndInv'
    BY <2>4, TakePreserves DEF Allowed, Done
  <2>5. ASSUME NEW q \in Requests, Refused(q)
        PROVE  IndInv'
    BY <2>5, BucketAssumption
       DEF Refused, Keep, Done, IndInv, TypeOK, StampsRecent, Conserved
  <2>6. ASSUME NEW q \in Requests, AnswerLost(q)
        PROVE  IndInv'
    BY <2>6, TakePreserves DEF AnswerLost, Done
  <2>7. ASSUME NEW q \in Requests, CallFails(q)
        PROVE  IndInv'
    BY <2>7, BucketAssumption
       DEF CallFails, Done, IndInv, TypeOK, StampsRecent, Conserved
  <2>8. CASE UNCHANGED vars
    BY <2>8 DEF vars, IndInv, TypeOK, StampsRecent, Conserved
  <2> QED
    BY <2>1, <2>2, <2>3, <2>4, <2>5, <2>6, <2>7, <2>8 DEF Next
<1> QED
  BY <1>1, <1>2, PTL DEF Spec

(***************************************************************************)
(* In no interval does the limiter let through more than the burst, the    *)
(* refill of the interval and the lag of a time stamp: token_bucket.lua    *)
(* bounds a user's rate under any interleaving of Allow calls.             *)
(***************************************************************************)
THEOREM BucketAllowance == Spec => []AllowanceBound
<1>1. IndInv => AllowanceBound
  BY BucketAssumption
     DEF IndInv, TypeOK, StampsRecent, Conserved, AllowanceBound
<1> QED
  BY <1>1, BucketInvariant, PTL

(***************************************************************************)
(* A refused client that waits Retry-After is let through: the stored      *)
(* tokens are not negative and the stored time stamp is not later than the *)
(* refusal, so RetryAfter >= Cost of refill is enough.                     *)
(***************************************************************************)
THEOREM BucketRetry == Spec => RetryAfterHonoured
<1> DEFINE RefusalKept == refusedAt # None => refusedAt <= clock /\ last <= refusedAt
<1>1. Init => RefusalKept
  BY DEF Init
<1>2. IndInv /\ RefusalKept /\ [Next]_vars => RefusalKept'
  <2> SUFFICES ASSUME IndInv, RefusalKept, [Next]_vars
               PROVE  RefusalKept'
    OBVIOUS
  <2>1. CASE \E q \in Requests : Refused(q)
    BY <2>1 DEF Refused, Keep, IndInv, TypeOK, StampsRecent
  <2>2. CASE \E q \in Requests : Allowed(q) \/ AnswerLost(q)
    BY <2>2 DEF Allowed, AnswerLost, Take
  <2>3. CASE \E q \in Requests : Arrive(q) \/ CallFails(q)
    BY <2>3 DEF Arrive, CallFails
  <2>4. CASE Tick \/ Observe
    BY <2>4, BucketAssumption DEF Tick, Observe, IndInv, TypeOK
  <2>5. CASE UNCHANGED vars
    BY <2>5 DEF vars
  <2> QED
    BY <2>1, <2>2, <2>3, <2>4, <2>5 DEF Next
<1>3. ASSUME IndInv, RefusalKept, NEW q \in Requests, refusedAt # None,
             stamp[q] # None, stamp[q] >= refusedAt + RetryAfter
      PROVE  ~Refused(q)
  <2>1. Refill(stamp[q]) >= Cost
    BY <1>3, BucketAssumption DEF IndInv, TypeOK, Refill
  <2> QED
    BY <2>1 DEF Refused, Keep, Enough
<1>4. IndInv /\ RefusalKept =>
        \A q \in Requests :
          (/\ refusedAt # None /\ stamp[q] # None
           /\ stamp[q] >= refusedAt + RetryAfter)
          => ~Refused(q)
  BY <1>3
<1> QED
  BY <1>1, <1>2, <1>4, BucketInvariant, PTL DEF Spec, RetryAfterHonoured
=============================================================================
