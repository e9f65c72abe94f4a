--------------------------- MODULE Gateway_proofs ---------------------------
(***************************************************************************)
(* Proofs about Gateway, for every set of upstreams, users and requests,   *)
(* every threshold, cooldown and budget, with authentication on or off:    *)
(* that its rate limiter keeps every budget and implements the log of past *)
(* requests of SlidingLog, whom a request is billed to, and that it        *)
(* implements the circuit breaker of GuardedUpstream for each upstream.    *)
(***************************************************************************)
EXTENDS Gateway, Integers, TLAPS

(* Any one of the upstreams, about which GuardedUpstream_proofs holds.     *)
CONSTANT upstream

Circuit == INSTANCE GuardedUpstream_proofs WITH
  breaker    <- breakers[upstream],
  phase      <- [r \in Requests |->
                   IF request[r].upstream = upstream THEN request[r].phase ELSE "idle"],
  healthy    <- healthy[upstream],
  probe      <- [r \in Requests |-> probe[r] /\ request[r].upstream = upstream],
  streak     <- streak[upstream],
  sinceProbe <- sinceProbe[upstream],
  lost       <- lost[upstream]

USE ThresholdAssumption, ResetAssumption, BucketAssumption, ClockAssumption

(***************************************************************************)
(* The limiter by itself, with its clock, and with the history that its    *)
(* contract is about.                                                      *)
(***************************************************************************)
(* What is left in a bucket and what was let through in any window never   *)
(* exceed the window's budget together; in one window they use it up.      *)
(* Without the second half a bucket could hold less than it owes the user. *)
Budget(s) == Full + Rate * (clock - s)

Spent(k, s) == Token * since[k][s] + Available(buckets[k], clock)

BudgetKept(k) ==
  /\ \A s \in 0..clock : Spent(k, s) <= Budget(s)
  /\ \E s \in 0..clock : Spent(k, s) = Budget(s)
  /\ \A s \in (clock + 1)..MaxClock : since[k][s] = 0

BucketIInv == LimiterTypeOK /\ (\A k \in UserIds : BudgetKept(k))

(* A full bucket is a number of units.                                     *)
LEMMA FullIsNat == Full \in Nat
  BY DEF Full

(* A bucket is refilled tick by tick, up to its size.                      *)
LEMMA RefillCases ==
  ASSUME NEW t \in 0..Full, NEW d \in Nat
  PROVE  /\ Refill(t, d) \in 0..Full
         /\ Refill(t, 0) = t
         /\ Refill(t, d) + Rate < Full => Refill(t, d + 1) = Refill(t, d) + Rate
         /\ Refill(t, d) + Rate >= Full => Refill(t, d + 1) = Full
<1>1. d * Rate \in Nat /\ (d + 1) * Rate = d * Rate + Rate /\ 0 * Rate = 0
  OBVIOUS
<1>2. t \in Nat /\ Full \in Nat /\ t <= Full
  BY FullIsNat
<1> QED
  BY <1>1, <1>2 DEF Refill

(* What is left in a bucket is between nothing and its size.               *)
LEMMA AvailableType ==
  ASSUME NEW k \in UserIds,
         buckets[k].tokens \in 0..Full, clock - buckets[k].last \in Nat
  PROVE  Available(buckets[k], clock) \in 0..Full
<1>1. Refill(buckets[k].tokens, clock - buckets[k].last) \in 0..Full
  BY RefillCases
<1> QED
  BY <1>1 DEF Available

LEMMA InitBucketIInv == LimiterInit => BucketIInv
<1> SUFFICES ASSUME LimiterInit PROVE BucketIInv
  OBVIOUS
<1>1. LimiterTypeOK
  BY FullIsNat DEF LimiterInit, LimiterTypeOK, NewBucket, Verdicts
<1>2. ASSUME NEW k \in UserIds PROVE BudgetKept(k)
  <2>1. Available(buckets[k], clock) = Full
    BY FullIsNat, RefillCases DEF LimiterInit, Available, NewBucket
  <2>2. \A s \in 0..MaxClock : since[k][s] = 0
    BY DEF LimiterInit
  <2>3. Spent(k, 0) = Full /\ Budget(0) = Full
    BY <2>1, <2>2, FullIsNat DEF Spent, Budget, LimiterInit
  <2> QED
    BY <2>2, <2>3, FullIsNat DEF BudgetKept, LimiterInit
<1> QED
  BY <1>1, <1>2 DEF BucketIInv

(* The bucket agrees with the log of the past requests, in both directions *)
(* because one window is always used up.                                   *)
LEMMA BucketIsLog ==
  ASSUME BucketIInv, NEW k \in UserIds
  PROVE  HasToken(buckets[k], clock) <=> Contract!Fits(k)
<1>1. /\ clock \in 0..MaxClock /\ Full \in Nat
      /\ \A s \in 0..clock : since[k][s] \in Nat
      /\ buckets[k].tokens \in 0..Full /\ clock - buckets[k].last \in Nat
  BY FullIsNat DEF BucketIInv, LimiterTypeOK
<1>2. Available(buckets[k], clock) \in Nat
  BY <1>1, AvailableType
<1>3. \A s \in 0..clock : Token * (since[k][s] + 1) = Token * since[k][s] + Token
  BY <1>1
<1>4. ASSUME HasToken(buckets[k], clock) PROVE Contract!Fits(k)
  <2> SUFFICES ASSUME NEW s \in 0..clock
               PROVE  Token * since[k][s] + Token <= Budget(s)
    BY <1>3 DEF Contract!Fits, Budget, Full
  <2>1. Token * since[k][s] \in Nat /\ Budget(s) \in Int
    BY <1>1 DEF Budget
  <2>2. Token * since[k][s] + Available(buckets[k], clock) <= Budget(s)
    BY DEF BucketIInv, BudgetKept, Spent
  <2> QED
    BY <1>2, <1>4, <2>1, <2>2 DEF HasToken
<1>5. ASSUME Contract!Fits(k) PROVE HasToken(buckets[k], clock)
  <2>1. PICK s \in 0..clock : Spent(k, s) = Budget(s)
    BY DEF BucketIInv, BudgetKept
  <2>2. Token * since[k][s] + Token <= Budget(s)
    BY <1>3, <1>5 DEF Contract!Fits, Budget, Full
  <2>3. Token * since[k][s] \in Nat
    BY <1>1
  <2> QED
    BY <1>2, <2>1, <2>2, <2>3 DEF Spent, HasToken
<1> QED
  BY <1>4, <1>5

LEMMA NextBucketIInv == BucketIInv /\ [LimiterNext]_limiterVars => BucketIInv'
<1> SUFFICES ASSUME BucketIInv, [LimiterNext]_limiterVars PROVE BucketIInv'
  OBVIOUS
<1> DEFINE Left(k) == Available(buckets[k], clock)
<1>1. /\ clock \in 0..MaxClock /\ Full \in Nat
      /\ \A k \in UserIds : /\ buckets[k].tokens \in 0..Full
                         /\ buckets[k].last \in 0..clock
                         /\ clock - buckets[k].last \in Nat
                         /\ \A s \in 0..MaxClock : since[k][s] \in Nat
  BY FullIsNat DEF BucketIInv, LimiterTypeOK
<1>2. \A k \in UserIds : Left(k) \in 0..Full
  BY <1>1, AvailableType
<1>3. \A s \in 0..clock : Budget(s) \in Int
  BY <1>1 DEF Budget
(* A request of k touches neither the clock nor the other buckets.         *)
<1>4. ASSUME NEW k \in UserIds,
             clock' = clock,
             buckets' = [buckets EXCEPT ![k] = [tokens |-> Left(k)', last |-> clock]],
             Left(k)' \in 0..Full,
             since' \in [UserIds -> [0..MaxClock -> Nat]],
             verdict' \in [UserIds -> Verdicts],
             \A q \in UserIds \ {k} : since'[q] = since[q],
             \A s \in (clock + 1)..MaxClock : since'[k][s] = since[k][s],
             \A s \in 0..clock : Spent(k, s)' = Spent(k, s)
      PROVE  BucketIInv'
  <2>1. LimiterTypeOK'
    <3> DEFINE B == [tokens : 0..Full, last : 0..clock]
    <3>1. [tokens |-> Left(k)', last |-> clock] \in B
      BY <1>1, <1>4
    <3>2. buckets \in [UserIds -> B]
      BY DEF BucketIInv, LimiterTypeOK
    <3>3. buckets' \in [UserIds -> B]
      <4> HIDE DEF B
      <4> QED
        BY <1>4, <3>1, <3>2
    <3> QED
      BY <1>1, <1>4, <3>3 DEF LimiterTypeOK
  <2>2. BudgetKept(k)'
    BY <1>4 DEF BucketIInv, BudgetKept, Budget
  <2>3. ASSUME NEW q \in UserIds \ {k} PROVE BudgetKept(q)'
    <3>1. buckets'[q] = buckets[q] /\ since'[q] = since[q]
      BY <1>4, <2>3 DEF BucketIInv, LimiterTypeOK
    <3> QED
      BY <1>4, <3>1 DEF BucketIInv, BudgetKept, Budget, Spent
  <2> QED
    BY <2>1, <2>2, <2>3 DEF BucketIInv
<1>5. ASSUME NEW k \in UserIds, Allow(k) PROVE BucketIInv'
  <2>1. Left(k) >= Token /\ clock' = clock
    BY <1>5 DEF Allow, HasToken
  <2>2. buckets' = [buckets EXCEPT ![k] = [tokens |-> Left(k) - Token, last |-> clock]]
    BY <1>5 DEF Allow, Take
  <2>3. buckets'[k] = [tokens |-> Left(k) - Token, last |-> clock]
    BY <2>2 DEF BucketIInv, LimiterTypeOK
  <2>4. Left(k) - Token \in 0..Full
    BY <1>1, <1>2, <2>1
  <2>5. Left(k)' = Left(k) - Token
    BY <1>1, <2>1, <2>3, <2>4, RefillCases DEF Available
  <2>6. since' \in [UserIds -> [0..MaxClock -> Nat]]
    <3> DEFINE row == [s \in 0..MaxClock |->
                         IF s <= clock THEN since[k][s] + 1 ELSE since[k][s]]
    <3>1. row \in [0..MaxClock -> Nat]
      BY <1>1
    <3>2. since' = [since EXCEPT ![k] = row] /\ since \in [UserIds -> [0..MaxClock -> Nat]]
      BY <1>5 DEF Allow, BucketIInv, LimiterTypeOK
    <3> HIDE DEF row
    <3> QED
      BY <3>1, <3>2
  <2>7. \A s \in 0..clock : since'[k][s] = since[k][s] + 1
    BY <1>1, <1>5 DEF Allow, BucketIInv, LimiterTypeOK
  <2>8. ASSUME NEW s \in 0..clock PROVE Spent(k, s)' = Spent(k, s)
    <3>1. since[k][s] \in Nat
      BY <1>1
    <3>2. /\ Token * (since[k][s] + 1) = Token * since[k][s] + Token
          /\ Token * since[k][s] \in Nat
      BY <3>1
    <3> QED
      BY <1>2, <2>5, <2>7, <3>2 DEF Spent
  <2>9. \A s \in (clock + 1)..MaxClock : since'[k][s] = since[k][s]
    BY <1>1, <1>5 DEF Allow, BucketIInv, LimiterTypeOK
  <2>10. /\ \A q \in UserIds \ {k} : since'[q] = since[q]
         /\ verdict' \in [UserIds -> Verdicts]
    BY <1>5 DEF Allow, BucketIInv, LimiterTypeOK, Verdicts
  <2> HIDE DEF Left
  <2> QED
    BY <1>4, <2>1, <2>2, <2>4, <2>5, <2>6, <2>8, <2>9, <2>10
<1>6. ASSUME NEW k \in UserIds, Refuse(k) PROVE BucketIInv'
  <2>1. buckets' = [buckets EXCEPT ![k] = [tokens |-> Left(k), last |-> clock]]
    BY <1>6 DEF Refuse, Reject
  <2>2. buckets'[k] = [tokens |-> Left(k), last |-> clock] /\ clock' = clock
    BY <1>6, <2>1 DEF Refuse, BucketIInv, LimiterTypeOK
  <2>3. Left(k)' = Left(k)
    BY <1>1, <1>2, <2>2, RefillCases DEF Available
  <2>4. since' = since /\ verdict' \in [UserIds -> Verdicts]
    BY <1>6 DEF Refuse, BucketIInv, LimiterTypeOK, Verdicts
  <2>5. \A s \in 0..clock : Spent(k, s)' = Spent(k, s)
    BY <2>3, <2>4 DEF Spent
  <2>6. since \in [UserIds -> [0..MaxClock -> Nat]]
    BY DEF BucketIInv, LimiterTypeOK
  <2> HIDE DEF Left
  <2> QED
    BY <1>2, <1>4, <2>1, <2>2, <2>3, <2>4, <2>5, <2>6
<1>7. CASE ClockTick
  <2>1. /\ clock < MaxClock /\ clock' = clock + 1 /\ since' = since
        /\ buckets' = buckets /\ verdict' \in [UserIds -> Verdicts]
    BY <1>7 DEF ClockTick, Verdicts
  <2>2. LimiterTypeOK'
    BY <1>1, <2>1 DEF BucketIInv, LimiterTypeOK
  <2>3. ASSUME NEW k \in UserIds PROVE BudgetKept(k)'
    <3> DEFINE t == buckets[k].tokens
               d == clock - buckets[k].last
    <3>1. /\ t \in 0..Full /\ d \in Nat
          /\ Left(k) = Refill(t, d) /\ Left(k)' = Refill(t, d + 1)
      BY <1>1, <2>1 DEF Available
    <3>2. /\ Left(k) + Rate < Full => Left(k)' = Left(k) + Rate
          /\ Left(k) + Rate >= Full => Left(k)' = Full
      BY <3>1, RefillCases
    <3>3. Left(k) \in Nat
      BY <1>1, <1>2
    <3>4. \A s \in 0..clock : Budget(s)' = Budget(s) + Rate /\ Budget(s) \in Int
      BY <1>1, <1>3, <2>1 DEF Budget
    <3> DEFINE n == clock + 1
    <3>5. ASSUME NEW s, s = n PROVE Budget(s)' = Full
      BY <1>1, <2>1, <3>5 DEF Budget
    <3>6. since[k][n] = 0 /\ Token * 0 = 0
      BY <1>1, <2>1 DEF BucketIInv, BudgetKept
    <3>7. ASSUME NEW s, s = n PROVE Spent(k, s)' = Left(k)'
      BY <1>1, <2>1, <3>2, <3>3, <3>6, <3>7 DEF Spent
    <3>8. \A s \in 0..clock : /\ Token * since[k][s] \in Nat
                              /\ Spent(k, s)  = Token * since[k][s] + Left(k)
                              /\ Spent(k, s)' = Token * since[k][s] + Left(k)'
      BY <1>1, <2>1 DEF Spent
    <3>9. ASSUME NEW s \in 0..clock' PROVE Spent(k, s)' <= Budget(s)'
      <4>1. CASE s = n
        BY <1>1, <3>2, <3>3, <3>5, <3>7, <4>1
      <4>2. CASE s \in 0..clock
        <5>1. Spent(k, s) <= Budget(s)
          BY <4>2 DEF BucketIInv, BudgetKept
        <5> HIDE DEF Left
        <5> QED
          BY <1>1, <3>2, <3>3, <3>4, <3>8, <4>2, <5>1
      <4> QED
        BY <1>1, <2>1, <4>1, <4>2
    <3>10. \E s \in 0..clock' : Spent(k, s)' = Budget(s)'
      <4>1. CASE Left(k) + Rate >= Full
        <5>1. PICK s \in 0..clock' : s = n
          BY <1>1, <2>1
        <5> QED
          BY <3>2, <3>5, <3>7, <4>1, <5>1
      <4>2. CASE Left(k) + Rate < Full
        <5>1. PICK s \in 0..clock : Spent(k, s) = Budget(s)
          BY DEF BucketIInv, BudgetKept
        <5>2. s \in 0..clock'
          BY <1>1, <2>1
        <5>3. Spent(k, s)' = Budget(s)'
          BY <3>2, <3>3, <3>4, <3>8, <4>2, <5>1
        <5> QED
          BY <5>2, <5>3
      <4> QED
        BY <1>1, <3>3, <4>1, <4>2
    <3>11. \A s \in (clock' + 1)..MaxClock : since'[k][s] = 0
      BY <1>1, <2>1 DEF BucketIInv, BudgetKept
    <3> QED
      BY <3>9, <3>10, <3>11 DEF BudgetKept
  <2> QED
    BY <2>2, <2>3 DEF BucketIInv
<1>8. CASE UNCHANGED limiterVars
  BY <1>8 DEF limiterVars, BucketIInv, LimiterTypeOK, BudgetKept, Budget, Spent,
              Available
<1> QED
  BY <1>5, <1>6, <1>7, <1>8 DEF LimiterNext

(* In every behaviour, for every burst, rate and unit.                     *)
LEMMA BucketInvariance == LimiterSpec => []BucketIInv
<1>1. LimiterInit => BucketIInv
  BY InitBucketIInv
<1>2. BucketIInv /\ [LimiterNext]_limiterVars => BucketIInv'
  BY NextBucketIInv
<1> QED
  BY <1>1, <1>2, PTL DEF LimiterSpec

LEMMA LimiterTypes == LimiterSpec => []LimiterTypeOK
<1>1. BucketIInv => LimiterTypeOK
  BY DEF BucketIInv
<1> QED
  BY <1>1, BucketInvariance, PTL

LEMMA LimiterWindow == LimiterSpec => []WindowBound
<1>1. BucketIInv => WindowBound
  <2> SUFFICES ASSUME BucketIInv, NEW k \in UserIds, NEW s \in 0..clock
               PROVE  Token * since[k][s] <= Full + Rate * (clock - s)
    BY DEF WindowBound
  <2>1. /\ clock \in 0..MaxClock /\ since[k][s] \in Nat
        /\ buckets[k].tokens \in 0..Full /\ clock - buckets[k].last \in Nat
    BY DEF BucketIInv, LimiterTypeOK
  <2>2. Available(buckets[k], clock) \in 0..Full /\ Full \in Nat
    BY <2>1, FullIsNat, AvailableType
  <2>3. Spent(k, s) <= Budget(s)
    BY DEF BucketIInv, BudgetKept
  <2>4. Token * since[k][s] \in Nat /\ Rate * (clock - s) \in Nat
    BY <2>1
  <2> QED
    BY <2>2, <2>3, <2>4 DEF Spent, Budget
<1> QED
  BY <1>1, BucketInvariance, PTL

LEMMA LimiterRetry == LimiterSpec => []RetryAfterSuffices
<1>1. LimiterTypeOK => RetryAfterSuffices
  <2> SUFFICES ASSUME LimiterTypeOK, Burst >= 1, Rate * RetryTicks >= Token,
                      NEW k \in UserIds, clock - buckets[k].last >= RetryTicks
               PROVE  HasToken(buckets[k], clock)
    BY DEF RetryAfterSuffices
  <2> DEFINE d == clock - buckets[k].last
  <2>1. buckets[k].tokens \in Nat /\ d \in Nat
    BY FullIsNat DEF LimiterTypeOK
  <2>2. PICK e \in Nat : d = RetryTicks + e
    <3>1. d - RetryTicks \in Nat /\ d = RetryTicks + (d - RetryTicks)
      BY <2>1
    <3> QED
      BY <3>1
  <2>3. (RetryTicks + e) * Rate = Rate * RetryTicks + e * Rate /\ e * Rate \in Nat
    OBVIOUS
  <2>4. buckets[k].tokens + d * Rate >= Token
    BY <2>1, <2>2, <2>3
  <2>5. PICK m \in Nat : Burst = m + 1
    <3>1. Burst - 1 \in Nat /\ Burst = (Burst - 1) + 1
      OBVIOUS
    <3> QED
      BY <3>1
  <2>6. Token * (m + 1) = Token * m + Token /\ Token * m \in Nat
    OBVIOUS
  <2>7. Full >= Token
    BY <2>5, <2>6 DEF Full
  <2> HIDE DEF d
  <2> QED
    BY <2>4, <2>7 DEF HasToken, Available, Refill, d
<1> QED
  BY <1>1, LimiterTypes, PTL

LEMMA LimiterIsLog == LimiterSpec => ImplementsSlidingLog
<1>1. LimiterInit => Contract!Init
  BY DEF LimiterInit, Contract!Init
<1>2. BucketIInv /\ [LimiterNext]_limiterVars => [Contract!Next]_(Contract!vars)
  <2> SUFFICES ASSUME BucketIInv, [LimiterNext]_limiterVars
               PROVE  Contract!Next \/ UNCHANGED Contract!vars
    OBVIOUS
  <2>1. ASSUME NEW k \in UserIds, Allow(k) PROVE Contract!Grant(k)
    BY <2>1, BucketIsLog DEF Allow, Contract!Grant, Contract!Log
  <2>2. ASSUME NEW k \in UserIds, Refuse(k) PROVE Contract!Refuse(k)
    BY <2>2, BucketIsLog DEF Refuse, Contract!Refuse
  <2>3. CASE ClockTick
    BY <2>3 DEF ClockTick, Contract!Tick, Contract!Next
  <2>4. CASE UNCHANGED limiterVars
    BY <2>4 DEF limiterVars, Contract!vars
  <2> QED
    BY <2>1, <2>2, <2>3, <2>4 DEF LimiterNext, Contract!Next
<1> QED
  BY <1>1, <1>2, BucketInvariance, PTL
     DEF LimiterSpec, Contract!Spec, ImplementsSlidingLog

(* The requests of the gateway are calls of its limiter or none of its     *)
(* business, and its clock is the limiter's (limiter.allow in proxy).      *)
LEMMA LimiterImplemented == Spec => LimiterSpec
<1>1. Init => LimiterInit
  BY DEF Init
<1>2. [Next]_vars => [LimiterNext]_limiterVars
  <2> SUFFICES ASSUME [Next]_vars PROVE LimiterNext \/ UNCHANGED limiterVars
    OBVIOUS
  <2>1. ASSUME NEW r \in Requests, NEW q \in Inputs, Receive(r, q)
        PROVE  LimiterNext
    <3>1. UserId(q) \in UserIds
      BY NamesAssumption DEF UserId, Inputs
    <3>2. Allow(UserId(q)) \/ Refuse(UserId(q))
      BY <2>1, Zenon DEF Receive, RateLimited, FailFast, Accept
    <3> QED
      BY <3>1, <3>2, Zenon DEF LimiterNext
  <2>2. ASSUME NEW r \in Requests,
               TurnAway(r) \/ Forward(r) \/ Abort(r) \/ Succeed(r) \/ Fail(r)
        PROVE  UNCHANGED limiterVars
    BY <2>2, Zenon DEF TurnAway, Forward, Abort, Succeed, Fail, Finish, vars
  <2>3. ASSUME NEW u \in Upstreams, HealthChange(u) PROVE UNCHANGED limiterVars
    BY <2>3, Zenon DEF HealthChange
  <2>4. CASE Tick
    BY <2>4, Zenon DEF Tick, LimiterNext
  <2>5. CASE UNCHANGED vars
    BY <2>5, Zenon DEF vars
  <2> QED
    BY <2>1, <2>2, <2>3, <2>4, <2>5, Zenon DEF Next
<1> QED
  BY <1>1, <1>2, PTL DEF Spec, LimiterSpec

(* Whatever requests come and whatever the circuits do, no interval of     *)
(* time sees more requests of a user allowed than the burst plus the rate  *)
(* times its length (allow).                                               *)
THEOREM WindowBounded == Spec => []WindowBound
BY LimiterImplemented, LimiterWindow, PTL

(* A user who waits as long as a 429 tells them is let in, at every rate   *)
(* that makes a token in that time (allow, Retry-After in proxy).          *)
THEOREM RetryAfterHonoured == Spec => []RetryAfterSuffices
BY LimiterImplemented, LimiterRetry, PTL

(* The gateway lets through and refuses, for the rate, exactly those       *)
(* requests for which the log of the past ones calls for it (allow).       *)
THEOREM LimiterRefinement == Spec => ImplementsSlidingLog
BY LimiterImplemented, LimiterIsLog, PTL
-----------------------------------------------------------------------------
USE NamesAssumption

(* A request in flight is one of an upstream; a slot that is free is of    *)
(* none, and none of its past is left.                                     *)
Assigned ==
  \A r \in Requests :
    IF request[r].phase = "idle" THEN request[r] = Idle ELSE request[r].upstream \in Upstreams

(* A closed circuit has room to count one more failure.                    *)
RoomToCount ==
  \A u \in Upstreams : ~breakers[u].opened => breakers[u].failures < FailureThreshold

(* The history has its types.                                              *)
Bookkeeping ==
  /\ probe \in [Requests -> BOOLEAN]
  /\ streak \in [Upstreams -> 0..FailureThreshold]
  /\ sinceProbe \in [Upstreams -> 0..ResetTicks]
  /\ lost \in [Upstreams -> BOOLEAN]

IInv ==
  /\ authenticator \in BOOLEAN
  /\ breakers \in [Upstreams -> Breakers] /\ RoomToCount
  /\ request \in [Requests -> Slots] /\ Assigned
  /\ healthy \in [Upstreams -> BOOLEAN]
  /\ Bookkeeping
-----------------------------------------------------------------------------
(* What the methods of breaker and bucket do to their types.               *)
LEMMA BreakerTypes ==
  ASSUME NEW b \in Breakers, ~b.opened => b.failures < FailureThreshold
  PROVE  /\ BeforeRequest(b) \in Breakers
         /\ Elapse(b) \in Breakers
         /\ RecordFailure(b) \in Breakers
         /\ ~BeforeRequest(b).opened => BeforeRequest(b).failures < FailureThreshold
         /\ ~Elapse(b).opened => Elapse(b).failures < FailureThreshold
         /\ ~RecordFailure(b).opened => RecordFailure(b).failures < FailureThreshold
<1>1. /\ Circuit!BeforeRequest(b) = BeforeRequest(b)
      /\ Circuit!Elapse(b) = Elapse(b)
      /\ Circuit!RecordFailure(b) = RecordFailure(b)
      /\ Circuit!Breakers = Breakers
  BY Zenon DEF Circuit!BeforeRequest, Circuit!CircuitState, Circuit!Elapse,
               Circuit!RecordFailure, Circuit!Breakers, BeforeRequest, CircuitState, Elapse,
               RecordFailure, Breakers
<1>2. /\ BeforeRequest(b) \in Breakers /\ BeforeRequest(b).opened = b.opened
      /\ BeforeRequest(b).failures = b.failures
  BY <1>1, Circuit!BeforeRequestCases
<1>3. /\ Elapse(b) \in Breakers /\ Elapse(b).opened = b.opened
      /\ Elapse(b).failures = b.failures
  BY <1>1, Circuit!ElapseCases
<1>4. /\ RecordFailure(b) \in Breakers
      /\ b.opened  => RecordFailure(b).opened
      /\ ~b.opened => RecordFailure(b).failures = b.failures + 1
      /\ ~b.opened => (RecordFailure(b).opened <=> b.failures + 1 >= FailureThreshold)
  BY <1>1, Circuit!RecordFailureCases
<1>5. b.failures \in Nat
  BY DEF Breakers
<1>6. ~RecordFailure(b).opened => RecordFailure(b).failures < FailureThreshold
  BY <1>4, <1>5
<1> QED
  BY <1>2, <1>3, <1>4, <1>6

LEMMA NewBreakerTypes ==
  NewBreaker \in Breakers /\ ~NewBreaker.opened /\ NewBreaker.failures < FailureThreshold
BY DEF NewBreaker, Breakers
-----------------------------------------------------------------------------
(* What Assigned says of one slot.                                         *)
Sound(slot) ==
  /\ slot \in Slots
  /\ IF slot.phase = "idle" THEN slot = Idle ELSE slot.upstream \in Upstreams

LEMMA SlotsAreSound ==
  ASSUME request \in [Requests -> Slots]
  PROVE  Assigned <=> \A r \in Requests : Sound(request[r])
BY Zenon DEF Assigned, Sound

LEMMA IdleIsSound == Sound(Idle)
BY DEF Sound, Slots, Idle

(* A slot written by a handler leaves the other slots as they were.        *)
LEMMA SlotWritten ==
  ASSUME request \in [Requests -> Slots], Assigned,
         NEW r \in Requests, NEW slot, Sound(slot),
         request' = [request EXCEPT ![r] = slot]
  PROVE  request' \in [Requests -> Slots] /\ Assigned'
<1>1. \A q \in Requests : Sound(request[q])
  BY SlotsAreSound
<1>2. slot \in Slots
  BY DEF Sound
<1>3. request' \in [Requests -> Slots]
  BY <1>2, Zenon
<1>4. \A q \in Requests : request'[q] = IF q = r THEN slot ELSE request[q]
  BY Zenon
<1>5. \A q \in Requests : Sound(request'[q])
  BY <1>1, <1>4
<1>6. Assigned'
  BY <1>3, <1>5, Zenon DEF Assigned, Sound
<1> QED
  BY <1>3, <1>6

(* A circuit changed by a handler leaves the others as they were.          *)
LEMMA BreakerWritten ==
  ASSUME breakers \in [Upstreams -> Breakers], RoomToCount,
         NEW u \in Upstreams, NEW b \in Breakers, ~b.opened => b.failures < FailureThreshold,
         breakers' = [breakers EXCEPT ![u] = b]
  PROVE  breakers' \in [Upstreams -> Breakers] /\ RoomToCount'
<1>1. breakers' \in [Upstreams -> Breakers]
  BY Zenon
<1>2. \A v \in Upstreams : breakers'[v] = IF v = u THEN b ELSE breakers[v]
  BY Zenon
<1> QED
  BY <1>1, <1>2 DEF RoomToCount

LEMMA InitIInv == Init => IInv
<1> SUFFICES ASSUME Init PROVE IInv
  OBVIOUS
<1>1. /\ authenticator \in BOOLEAN /\ healthy \in [Upstreams -> BOOLEAN]
      /\ breakers \in [Upstreams -> Breakers]
  BY NewBreakerTypes, Zenon DEF Init
<1>2. Bookkeeping
  BY DEF Init, Bookkeeping
<1>3. request \in [Requests -> Slots] /\ Assigned
  BY DEF Init, Assigned, Idle, Slots
<1>4. RoomToCount
  BY NewBreakerTypes DEF Init, RoomToCount
<1> QED
  BY <1>1, <1>2, <1>3, <1>4 DEF IInv

LEMMA NextIInv == IInv /\ [Next]_vars => IInv'
<1> SUFFICES ASSUME IInv, [Next]_vars PROVE IInv'
  OBVIOUS
<1>p. /\ breakers \in [Upstreams -> Breakers] /\ RoomToCount
      /\ request \in [Requests -> Slots] /\ Assigned
      /\ healthy \in [Upstreams -> BOOLEAN]
      /\ Bookkeeping
  BY Zenon DEF IInv
<1>q. ASSUME UNCHANGED authenticator,
             breakers' \in [Upstreams -> Breakers], RoomToCount',
             request' \in [Requests -> Slots], Assigned',
             healthy' \in [Upstreams -> BOOLEAN],
             Bookkeeping'
      PROVE  IInv'
  BY <1>q, Zenon DEF IInv
<1>s. ASSUME NEW r \in Requests, Finish(r)
      PROVE  /\ request' \in [Requests -> Slots] /\ Assigned'
             /\ probe' \in [Requests -> BOOLEAN]
             /\ UNCHANGED <<authenticator, healthy>>
  <2>1. request' \in [Requests -> Slots] /\ Assigned'
    BY <1>p, <1>s, IdleIsSound, SlotWritten DEF Finish
  <2>2. probe' \in [Requests -> BOOLEAN]
    BY <1>p, <1>s, Zenon DEF Finish, Bookkeeping
  <2> QED
    BY <1>s, <2>1, <2>2, Zenon DEF Finish
<1>h. ASSUME UNCHANGED history PROVE Bookkeeping'
  BY <1>h, <1>p, Zenon DEF history, Bookkeeping
<1>b. ASSUME UNCHANGED breakers
      PROVE  breakers' \in [Upstreams -> Breakers] /\ RoomToCount'
  BY <1>b, <1>p, Zenon DEF RoomToCount
<1>1. ASSUME UNCHANGED <<authenticator, breakers, request, healthy, history>> PROVE IInv'
  <2>1. Assigned'
    BY <1>1, <1>p, Zenon DEF Assigned
  <2> QED
    BY <1>1, <1>p, <1>h, <1>b, <1>q, <2>1, Zenon
<1>2. ASSUME NEW r \in Requests, NEW q \in Inputs, RateLimited(r, q) \/ FailFast(r, q)
      PROVE  IInv'
  BY <1>1, <1>2, Zenon DEF RateLimited, FailFast
<1>t. ASSUME NEW r \in Requests, TurnAway(r) PROVE IInv'
  BY <1>1, <1>t, Zenon DEF TurnAway, vars
<1>3. ASSUME NEW r \in Requests, NEW q \in Inputs, Accept(r, q) PROVE IInv'
  <2> DEFINE u == q.upstream
  <2>1. u \in Upstreams /\ breakers[u] \in Breakers
    BY <1>p DEF Inputs
  <2>2. breakers' \in [Upstreams -> Breakers] /\ RoomToCount'
    <3>1. breakers' = [breakers EXCEPT ![u] = BeforeRequest(breakers[u])]
      BY <1>3, <1>p, <2>1, Zenon DEF Accept
    <3>2. ~breakers[u].opened => breakers[u].failures < FailureThreshold
      BY <1>p, <2>1, Zenon DEF RoomToCount
    <3>3. /\ BeforeRequest(breakers[u]) \in Breakers
          /\ ~BeforeRequest(breakers[u]).opened
               => BeforeRequest(breakers[u]).failures < FailureThreshold
      BY <2>1, <3>2, BreakerTypes
    <3> HIDE DEF u
    <3> QED
      BY <1>p, <2>1, <3>1, <3>3, BreakerWritten
  <2>3. request' \in [Requests -> Slots] /\ Assigned'
    <3>1. Sound(InFlight(u))
      BY <2>1 DEF Sound, InFlight, Slots
    <3>2. request' = [request EXCEPT ![r] = InFlight(u)]
      BY <1>3, Zenon DEF Accept
    <3> QED
      BY <1>p, <3>1, <3>2, SlotWritten
  <2>4. Bookkeeping'
    <3>1. probe' \in [Requests -> BOOLEAN]
      BY <1>3, <1>p, Zenon DEF Accept, Bookkeeping
    <3>2. sinceProbe' \in [Upstreams -> 0..ResetTicks]
      BY <1>3, <1>p, <2>1 DEF Accept, Bookkeeping
    <3> QED
      BY <1>3, <1>p, <3>1, <3>2, Zenon DEF Accept, Bookkeeping
  <2>5. UNCHANGED <<authenticator, healthy>>
    BY <1>3, Zenon DEF Accept
  <2> QED
    BY <1>p, <1>q, <2>2, <2>3, <2>4, <2>5, Zenon
<1>4. ASSUME NEW r \in Requests, Forward(r) PROVE IInv'
  <2> DEFINE slot == [request[r] EXCEPT !.phase = "upstream"]
  <2>1. request[r] \in Slots /\ request[r].phase = "body" /\ Sound(request[r])
    BY <1>4, <1>p, SlotsAreSound DEF Forward
  <2>2. Sound(slot)
    BY <2>1 DEF Sound, Slots
  <2>3. request' = [request EXCEPT ![r] = slot]
    BY <1>4, Zenon DEF Forward
  <2> HIDE DEF slot
  <2>4. request' \in [Requests -> Slots] /\ Assigned'
    BY <1>p, <2>2, <2>3, SlotWritten
  <2>5. UNCHANGED <<authenticator, breakers, healthy, history>>
    BY <1>4, Zenon DEF Forward
  <2> QED
    BY <1>p, <1>h, <1>b, <1>q, <2>4, <2>5, Zenon
<1>u. ASSUME NEW r \in Requests, request[r].phase # "idle"
      PROVE  /\ request[r].upstream \in Upstreams
             /\ breakers[request[r].upstream] \in Breakers
  BY <1>u, <1>p, Zenon DEF Assigned
<1>5. ASSUME NEW r \in Requests, Abort(r) PROVE IInv'
  <2>1. Bookkeeping'
    BY <1>5, <1>p, <1>s, Zenon DEF Abort, Bookkeeping
  <2>2. UNCHANGED breakers /\ Finish(r)
    BY <1>5, Zenon DEF Abort
  <2> QED
    BY <1>p, <1>s, <1>b, <1>q, <2>1, <2>2, Zenon
<1>6. ASSUME NEW r \in Requests, Succeed(r) PROVE IInv'
  <2> DEFINE u == request[r].upstream
  <2>1. u \in Upstreams
    BY <1>6, <1>u DEF Succeed
  <2>2. breakers' \in [Upstreams -> Breakers] /\ RoomToCount'
    <3>1. breakers' = [breakers EXCEPT ![u] = NewBreaker]
      BY <1>6, Zenon DEF Succeed, RecordSuccess
    <3> HIDE DEF u
    <3> QED
      BY <1>p, <2>1, <3>1, NewBreakerTypes, BreakerWritten
  <2>3. Bookkeeping'
    <3>1. streak' \in [Upstreams -> 0..FailureThreshold]
      BY <1>6, <1>p, <2>1 DEF Succeed, Bookkeeping
    <3>2. sinceProbe' \in [Upstreams -> 0..ResetTicks]
      BY <1>6, <1>p, <2>1 DEF Succeed, Bookkeeping
    <3>3. lost' \in [Upstreams -> BOOLEAN] /\ probe' \in [Requests -> BOOLEAN]
      BY <1>6, <1>p, <1>s, <2>1, Zenon DEF Succeed, Bookkeeping
    <3> QED
      BY <3>1, <3>2, <3>3, Zenon DEF Bookkeeping
  <2>4. Finish(r)
    BY <1>6, Zenon DEF Succeed
  <2> QED
    BY <1>p, <1>s, <1>q, <2>2, <2>3, <2>4, Zenon
<1>7. ASSUME NEW r \in Requests, Fail(r) PROVE IInv'
  <2> DEFINE u == request[r].upstream
             b == RecordFailure(breakers[u])
  <2>1. u \in Upstreams /\ breakers[u] \in Breakers
    BY <1>7, <1>u DEF Fail
  <2>2. breakers' \in [Upstreams -> Breakers] /\ RoomToCount'
    <3>1. breakers' = [breakers EXCEPT ![u] = b]
      BY <1>7, Zenon DEF Fail
    <3>2. ~breakers[u].opened => breakers[u].failures < FailureThreshold
      BY <1>p, <2>1, Zenon DEF RoomToCount
    <3>3. b \in Breakers /\ (~b.opened => b.failures < FailureThreshold)
      BY <2>1, <3>2, BreakerTypes
    <3> HIDE DEF u, b
    <3> QED
      BY <1>p, <2>1, <3>1, <3>3, BreakerWritten
  <2>3. Bookkeeping'
    <3>1. streak' \in [Upstreams -> 0..FailureThreshold]
      BY <1>7, <1>p, <2>1 DEF Fail, Bookkeeping
    <3>2. lost' \in [Upstreams -> BOOLEAN] /\ probe' \in [Requests -> BOOLEAN]
      BY <1>7, <1>p, <1>s, <2>1, Zenon DEF Fail, Bookkeeping
    <3> QED
      BY <1>7, <1>p, <3>1, <3>2, Zenon DEF Fail, Bookkeeping
  <2>4. Finish(r)
    BY <1>7, Zenon DEF Fail
  <2> QED
    BY <1>p, <1>s, <1>q, <2>2, <2>3, <2>4, Zenon
<1>8. ASSUME NEW u \in Upstreams, HealthChange(u) PROVE IInv'
  <2>1. healthy' \in [Upstreams -> BOOLEAN]
    BY <1>8, <1>p, Zenon DEF HealthChange
  <2>2. UNCHANGED <<authenticator, breakers, request, history>>
    BY <1>8, Zenon DEF HealthChange
  <2>3. Assigned'
    BY <1>p, <2>2, Zenon DEF Assigned
  <2> QED
    BY <1>p, <1>h, <1>b, <1>q, <2>1, <2>2, <2>3, Zenon
<1>9. CASE Tick
  <2>1. breakers' \in [Upstreams -> Breakers] /\ RoomToCount'
    <3>1. ASSUME NEW u \in Upstreams
          PROVE  /\ Elapse(breakers[u]) \in Breakers
                 /\ ~Elapse(breakers[u]).opened
                      => Elapse(breakers[u]).failures < FailureThreshold
      BY <1>p, BreakerTypes DEF RoomToCount
    <3>2. breakers' = [u \in Upstreams |-> Elapse(breakers[u])]
      BY <1>9, Zenon DEF Tick
    <3>3. breakers' \in [Upstreams -> Breakers]
      BY <3>1, <3>2, Zenon
    <3>4. \A u \in Upstreams : breakers'[u] = Elapse(breakers[u])
      BY <3>2, Zenon
    <3>5. RoomToCount'
      BY <3>1, <3>4 DEF RoomToCount
    <3> QED
      BY <3>3, <3>5
  <2>3. Bookkeeping'
    <3>1. sinceProbe' \in [Upstreams -> 0..ResetTicks]
      BY <1>9, <1>p DEF Tick, Bookkeeping
    <3> QED
      BY <1>9, <1>p, <3>1, Zenon DEF Tick, Bookkeeping
  <2>4. UNCHANGED <<authenticator, request, healthy>>
    BY <1>9, Zenon DEF Tick
  <2>5. Assigned'
    BY <1>p, <2>4, Zenon DEF Assigned
  <2> QED
    BY <1>p, <1>q, <2>1, <2>3, <2>4, <2>5, Zenon
<1>0. CASE UNCHANGED vars
  BY <1>1, <1>0, Zenon DEF vars
<1> QED
  BY <1>2, <1>t, <1>3, <1>4, <1>5, <1>6, <1>7, <1>8, <1>9, <1>0, Zenon DEF Next, Receive

(* In every behaviour, however many requests are in flight and whatever    *)
(* their clients send.                                                     *)
THEOREM Invariance == Spec => []IInv
  BY InitIInv, NextIInv, PTL DEF Spec

(* The state of the gateway always has its type: no bucket goes below zero *)
(* or over its size, no circuit counts past its threshold.                 *)
THEOREM TypeCorrect == Spec => []TypeOK
<1>1. IInv /\ LimiterTypeOK => TypeOK
  BY Zenon DEF IInv, Bookkeeping, TypeOK
<1> QED
  BY <1>1, Invariance, LimiterImplemented, LimiterTypes, PTL

(* Whom the upstream is told by name, it is told truly: it is the token's  *)
(* subject where there is authentication, and always the user who paid     *)
(* (user_id and the rewritten headers in proxy).                           *)
LEMMA NamedUserHasPaid == Spec => []NamedUserPays
<1>1. NamedUserPays
  BY NamesAssumption DEF NamedUserPays, Authenticated, Inputs, UserId, ForwardedUserId
<1> QED
  BY <1>1, PTL
-----------------------------------------------------------------------------
(* The circuit breaker of each upstream, as the gateway drives it.         *)
PhaseSeen(u) ==
  [r \in Requests |-> IF request[r].upstream = u THEN request[r].phase ELSE "idle"]

ProbeSeen(u) == [r \in Requests |-> probe[r] /\ request[r].upstream = u]

LEMMA Unseen ==
  ASSUME NEW u \in Upstreams,
         breakers'[u] = breakers[u], PhaseSeen(u)' = PhaseSeen(u), healthy'[u] = healthy[u],
         ProbeSeen(u)' = ProbeSeen(u), streak'[u] = streak[u],
         sinceProbe'[u] = sinceProbe[u], lost'[u] = lost[u]
  PROVE  [Guarded(u)!Next]_(Guarded(u)!vars)
BY Zenon DEF PhaseSeen, ProbeSeen, Guarded!vars, Guarded!history

(* What an upstream sees of a slot that a handler writes.                  *)
LEMMA SlotSeen ==
  ASSUME request \in [Requests -> Slots], probe \in [Requests -> BOOLEAN],
         NEW u \in Upstreams, NEW r \in Requests, NEW slot, NEW p \in BOOLEAN,
         request' = [request EXCEPT ![r] = slot], probe' = [probe EXCEPT ![r] = p],
         slot.upstream = u
  PROVE  /\ PhaseSeen(u)' = [PhaseSeen(u) EXCEPT ![r] = slot.phase]
         /\ ProbeSeen(u)' = [ProbeSeen(u) EXCEPT ![r] = p]
<1>1. \A q \in Requests : request'[q] = IF q = r THEN slot ELSE request[q]
  BY Zenon
<1>2. \A q \in Requests : probe'[q] = IF q = r THEN p ELSE probe[q]
  BY Zenon
<1>3. PhaseSeen(u)' = [PhaseSeen(u) EXCEPT ![r] = slot.phase]
  BY <1>1 DEF PhaseSeen
<1>4. ProbeSeen(u)' = [ProbeSeen(u) EXCEPT ![r] = p]
  BY <1>1, <1>2 DEF ProbeSeen
<1> QED
  BY <1>3, <1>4

LEMMA SlotNotSeen ==
  ASSUME request \in [Requests -> Slots], probe \in [Requests -> BOOLEAN],
         NEW u \in Upstreams, NEW r \in Requests, NEW slot, NEW p \in BOOLEAN,
         request' = [request EXCEPT ![r] = slot], probe' = [probe EXCEPT ![r] = p],
         slot.upstream # u
  PROVE  /\ PhaseSeen(u)' = [PhaseSeen(u) EXCEPT ![r] = "idle"]
         /\ ProbeSeen(u)' = [ProbeSeen(u) EXCEPT ![r] = FALSE]
         /\ request[r].upstream # u => UNCHANGED <<PhaseSeen(u), ProbeSeen(u)>>
<1>1. \A q \in Requests : request'[q] = IF q = r THEN slot ELSE request[q]
  BY Zenon
<1>2. \A q \in Requests : probe'[q] = IF q = r THEN p ELSE probe[q]
  BY Zenon
<1>3. PhaseSeen(u)' = [PhaseSeen(u) EXCEPT ![r] = "idle"]
  BY <1>1 DEF PhaseSeen
<1>4. ProbeSeen(u)' = [ProbeSeen(u) EXCEPT ![r] = FALSE]
  BY <1>1, <1>2 DEF ProbeSeen
<1>5. request[r].upstream # u => PhaseSeen(u)' = PhaseSeen(u)
  BY <1>1 DEF PhaseSeen
<1>6. request[r].upstream # u => ProbeSeen(u)' = ProbeSeen(u)
  BY <1>1, <1>2 DEF ProbeSeen
<1> QED
  BY <1>3, <1>4, <1>5, <1>6

LEMMA InitRefines == Init => \A u \in Upstreams : Guarded(u)!Init
<1> SUFFICES ASSUME Init, NEW u \in Upstreams PROVE Guarded(u)!Init
  OBVIOUS
<1>1. \A r \in Requests : request[r].upstream # u /\ probe[r] = FALSE
  BY DEF Init, Idle
<1> QED
  BY <1>1 DEF Init, Guarded!Init, Guarded!NewBreaker, NewBreaker

LEMMA NextRefines ==
  ASSUME IInv, [Next]_vars, NEW u \in Upstreams
  PROVE  [Guarded(u)!Next]_(Guarded(u)!vars)
<1>p. /\ breakers \in [Upstreams -> Breakers]
      /\ request \in [Requests -> Slots] /\ Assigned
      /\ healthy \in [Upstreams -> BOOLEAN]
      /\ Bookkeeping
  BY Zenon DEF IInv
<1>q. /\ probe \in [Requests -> BOOLEAN]
      /\ streak \in [Upstreams -> 0..FailureThreshold]
      /\ sinceProbe \in [Upstreams -> 0..ResetTicks]
      /\ lost \in [Upstreams -> BOOLEAN]
  BY <1>p, Zenon DEF Bookkeeping
<1>s. ASSUME NEW r \in Requests, Guarded(u)!Step(r) PROVE Guarded(u)!Next
  BY <1>s, Zenon DEF Guarded!Next
<1>i. ASSUME NEW r \in Requests, request[r].phase = "idle"
      PROVE  request[r] = Idle /\ request[r].upstream # u
  BY <1>i, <1>p DEF Assigned, Idle
<1>1. ASSUME UNCHANGED <<breakers, request, healthy, history>>
      PROVE  [Guarded(u)!Next]_(Guarded(u)!vars)
  <2>1. PhaseSeen(u)' = PhaseSeen(u) /\ ProbeSeen(u)' = ProbeSeen(u)
    BY <1>1, Zenon DEF PhaseSeen, ProbeSeen, history
  <2> QED
    BY <1>1, <2>1, Unseen, Zenon DEF history
<1>2. ASSUME NEW r \in Requests, NEW q \in Inputs, RateLimited(r, q) \/ FailFast(r, q)
      PROVE  [Guarded(u)!Next]_(Guarded(u)!vars)
  BY <1>1, <1>2, Zenon DEF RateLimited, FailFast
<1>t. ASSUME NEW r \in Requests, TurnAway(r) PROVE [Guarded(u)!Next]_(Guarded(u)!vars)
  BY <1>1, <1>t, Zenon DEF TurnAway, vars
<1>3. ASSUME NEW r \in Requests, NEW q \in Inputs, Accept(r, q)
      PROVE  [Guarded(u)!Next]_(Guarded(u)!vars)
  <2> DEFINE slot == InFlight(q.upstream)
             half == CircuitState(breakers[q.upstream]) = "half_open"
  <2>1. slot.upstream = q.upstream /\ slot.phase = "body"
    BY DEF InFlight
  <2>2. /\ request' = [request EXCEPT ![r] = slot]
        /\ probe' = [probe EXCEPT ![r] = half]
        /\ half \in BOOLEAN
        /\ q.upstream \in Upstreams
    <3>1. q.upstream \in Upstreams
      BY DEF Inputs
    <3> QED
      BY <1>3, <3>1, Zenon DEF Accept
  <2>3. request[r].upstream # u /\ request[r].phase = "idle"
    BY <1>3, <1>i DEF Accept, Receives
  <2> HIDE DEF slot, half
  <2>4. CASE q.upstream # u
    <3>1. UNCHANGED <<PhaseSeen(u), ProbeSeen(u)>>
      <4>1. slot.upstream # u
        BY <2>1, <2>4
      <4> QED
        BY <1>p, <1>q, <2>2, <2>3, <4>1, SlotNotSeen, Zenon
    <3>2. UNCHANGED <<breakers[u], healthy[u], streak[u], sinceProbe[u], lost[u]>>
      BY <1>3, <1>p, <1>q, <2>2, <2>4, Zenon DEF Accept
    <3> QED
      BY <3>1, <3>2, Unseen
  <2>5. CASE q.upstream = u
    <3>1. /\ PhaseSeen(u)' = [PhaseSeen(u) EXCEPT ![r] = "body"]
          /\ ProbeSeen(u)' = [ProbeSeen(u) EXCEPT ![r] = half]
      <4>1. slot.upstream = u
        BY <2>1, <2>5
      <4>2. /\ PhaseSeen(u)' = [PhaseSeen(u) EXCEPT ![r] = slot.phase]
            /\ ProbeSeen(u)' = [ProbeSeen(u) EXCEPT ![r] = half]
        BY <1>p, <1>q, <2>2, <4>1, SlotSeen, Zenon
      <4> QED
        BY <2>1, <4>2
    <3>2. PhaseSeen(u)[r] = "idle"
      BY <2>3 DEF PhaseSeen
    <3>3. /\ Admits(breakers[u])
          /\ breakers'[u] = BeforeRequest(breakers[u])
          /\ sinceProbe'[u] = IF half THEN 0 ELSE sinceProbe[u]
          /\ UNCHANGED <<healthy, streak, lost>>
      BY <1>3, <1>p, <1>q, <2>2, <2>5, Zenon DEF Accept, half
    <3>4. Guarded(u)!Admit(r)
      BY <2>5, <3>1, <3>2, <3>3, Zenon
         DEF Guarded!Admit, PhaseSeen, ProbeSeen, half, Admits, CircuitState, BeforeRequest,
             Guarded!Admits, Guarded!CircuitState, Guarded!BeforeRequest
    <3> QED
      BY <1>s, <3>4, Zenon DEF Guarded!Step
  <2> QED
    BY <2>4, <2>5
<1>4. ASSUME NEW r \in Requests, Forward(r) PROVE [Guarded(u)!Next]_(Guarded(u)!vars)
  <2> DEFINE slot == [request[r] EXCEPT !.phase = "upstream"]
             mark == probe[r]
  <2>1. request[r] \in Slots /\ request[r].phase = "body"
    BY <1>4, <1>p DEF Forward
  <2>2. slot.upstream = request[r].upstream /\ slot.phase = "upstream"
    BY <2>1 DEF Slots
  <2>3. /\ request' = [request EXCEPT ![r] = slot]
        /\ UNCHANGED <<breakers, healthy, history>>
    BY <1>4, Zenon DEF Forward
  <2>4. probe' = [probe EXCEPT ![r] = mark] /\ mark \in BOOLEAN
    BY <1>q, <2>3, Zenon DEF history
  <2> HIDE DEF slot, mark
  <2>5. CASE request[r].upstream # u
    <3>1. UNCHANGED <<PhaseSeen(u), ProbeSeen(u)>>
      <4>1. slot.upstream # u
        BY <2>2, <2>5
      <4> QED
        BY <1>p, <1>q, <2>3, <2>4, <2>5, <4>1, SlotNotSeen, Zenon
    <3> QED
      BY <2>3, <3>1, Unseen DEF history
  <2>6. CASE request[r].upstream = u
    <3>1. PhaseSeen(u)' = [PhaseSeen(u) EXCEPT ![r] = "upstream"]
      <4>1. slot.upstream = u
        BY <2>2, <2>6
      <4>2. PhaseSeen(u)' = [PhaseSeen(u) EXCEPT ![r] = slot.phase]
        BY <1>p, <1>q, <2>3, <2>4, <4>1, SlotSeen, Zenon
      <4> QED
        BY <2>2, <4>2
    <3>2. PhaseSeen(u)[r] = "body"
      BY <2>1, <2>6 DEF PhaseSeen
    <3>3. ProbeSeen(u)' = ProbeSeen(u)
      <4>1. \A s \in Requests : request'[s].upstream = request[s].upstream
        BY <1>p, <2>2, <2>3
      <4> QED
        BY <2>3, <4>1 DEF ProbeSeen, history
    <3>4. Guarded(u)!Forward(r)
      BY <2>3, <3>1, <3>2, <3>3, Zenon
         DEF Guarded!Forward, Guarded!history, PhaseSeen, ProbeSeen, history
    <3> QED
      BY <1>s, <3>4, Zenon DEF Guarded!Step
  <2> QED
    BY <2>5, <2>6
<1>f. ASSUME NEW r \in Requests, Finish(r)
      PROVE  /\ request[r].upstream # u => UNCHANGED <<PhaseSeen(u), ProbeSeen(u)>>
             /\ PhaseSeen(u)' = [PhaseSeen(u) EXCEPT ![r] = "idle"]
             /\ ProbeSeen(u)' = [ProbeSeen(u) EXCEPT ![r] = FALSE]
  <2>1. Idle.upstream # u
    BY DEF Idle
  <2>2. request' = [request EXCEPT ![r] = Idle] /\ FALSE \in BOOLEAN
    BY <1>f, Zenon DEF Finish
  <2>3. probe' = [probe EXCEPT ![r] = FALSE]
    BY <1>f, Zenon DEF Finish
  <2> QED
    BY <1>p, <1>q, <2>1, <2>2, <2>3, SlotNotSeen
<1>5. ASSUME NEW r \in Requests, Abort(r) PROVE [Guarded(u)!Next]_(Guarded(u)!vars)
  <2>1. /\ PhaseSeen(u)' = [PhaseSeen(u) EXCEPT ![r] = "idle"]
        /\ ProbeSeen(u)' = [ProbeSeen(u) EXCEPT ![r] = FALSE]
        /\ request[r].upstream # u => UNCHANGED <<PhaseSeen(u), ProbeSeen(u)>>
    BY <1>5, <1>f, Zenon DEF Abort
  <2>2. CASE request[r].upstream # u
    <3>1. UNCHANGED <<breakers[u], healthy[u], streak[u], sinceProbe[u], lost[u]>>
      BY <1>5, <1>q, <2>2, Zenon DEF Abort, Finish
    <3> QED
      BY <2>1, <2>2, <3>1, Unseen
  <2>3. CASE request[r].upstream = u
    <3>1. PhaseSeen(u)[r] = "body"
      BY <1>5, <2>3, Zenon DEF Abort, PhaseSeen
    <3>2. ProbeSeen(u)[r] = probe[r]
      BY <1>q, <2>3 DEF ProbeSeen
    <3>3. lost'[u] = (lost[u] \/ (probe[r] /\ breakers[u].probing))
      BY <1>5, <1>q, <2>3, Zenon DEF Abort
    <3>4. lost'[u] = (lost[u] \/ (ProbeSeen(u)[r] /\ breakers[u].probing))
      BY <3>2, <3>3
    <3>5. Guarded(u)!Abort(r)
      BY <1>5, <2>1, <3>1, <3>4, Zenon
         DEF Abort, Finish, Guarded!Abort, Guarded!Finish, PhaseSeen, ProbeSeen
    <3> QED
      BY <1>s, <3>5, Zenon DEF Guarded!Step
  <2> QED
    BY <2>2, <2>3
<1>6. ASSUME NEW r \in Requests, Succeed(r) PROVE [Guarded(u)!Next]_(Guarded(u)!vars)
  <2>1. /\ PhaseSeen(u)' = [PhaseSeen(u) EXCEPT ![r] = "idle"]
        /\ ProbeSeen(u)' = [ProbeSeen(u) EXCEPT ![r] = FALSE]
        /\ request[r].upstream # u => UNCHANGED <<PhaseSeen(u), ProbeSeen(u)>>
    BY <1>6, <1>f, Zenon DEF Succeed
  <2>2. CASE request[r].upstream # u
    <3>1. UNCHANGED <<breakers[u], healthy[u], streak[u], sinceProbe[u], lost[u]>>
      BY <1>6, <1>p, <1>q, <2>2, Zenon DEF Succeed, Finish
    <3> QED
      BY <2>1, <2>2, <3>1, Unseen
  <2>3. CASE request[r].upstream = u
    <3>1. PhaseSeen(u)[r] = "upstream"
      BY <1>6, <2>3, Zenon DEF Succeed, PhaseSeen
    <3>2. /\ breakers'[u] = NewBreaker
          /\ streak'[u] = 0 /\ sinceProbe'[u] = ResetTicks /\ lost'[u] = FALSE
          /\ healthy[u] /\ healthy' = healthy
      BY <1>6, <1>p, <1>q, <2>3, Zenon DEF Succeed, Finish, RecordSuccess
    <3>3. Guarded(u)!Succeed(r)
      BY <2>1, <3>1, <3>2, Zenon
         DEF Guarded!Succeed, Guarded!Finish, Guarded!RecordSuccess, Guarded!NewBreaker,
             NewBreaker, PhaseSeen, ProbeSeen
    <3> QED
      BY <1>s, <3>3, Zenon DEF Guarded!Step
  <2> QED
    BY <2>2, <2>3
<1>7. ASSUME NEW r \in Requests, Fail(r) PROVE [Guarded(u)!Next]_(Guarded(u)!vars)
  <2>1. /\ PhaseSeen(u)' = [PhaseSeen(u) EXCEPT ![r] = "idle"]
        /\ ProbeSeen(u)' = [ProbeSeen(u) EXCEPT ![r] = FALSE]
        /\ request[r].upstream # u => UNCHANGED <<PhaseSeen(u), ProbeSeen(u)>>
    BY <1>7, <1>f, Zenon DEF Fail
  <2>2. CASE request[r].upstream # u
    <3>1. UNCHANGED <<breakers[u], healthy[u], streak[u], sinceProbe[u], lost[u]>>
      BY <1>7, <1>p, <1>q, <2>2, Zenon DEF Fail, Finish
    <3> QED
      BY <2>1, <2>2, <3>1, Unseen
  <2>3. CASE request[r].upstream = u
    <3>1. PhaseSeen(u)[r] = "upstream"
      BY <1>7, <2>3, Zenon DEF Fail, PhaseSeen
    <3>2. /\ breakers'[u] = RecordFailure(breakers[u])
          /\ streak'[u] = IF streak[u] < FailureThreshold THEN streak[u] + 1 ELSE streak[u]
          /\ sinceProbe' = sinceProbe /\ lost'[u] = FALSE
          /\ ~healthy[u] /\ healthy' = healthy
      BY <1>7, <1>p, <1>q, <2>3, Zenon DEF Fail, Finish
    <3>3. Guarded(u)!Fail(r)
      BY <2>1, <3>1, <3>2, Zenon
         DEF Guarded!Fail, Guarded!Finish, Guarded!RecordFailure, RecordFailure, PhaseSeen,
             ProbeSeen
    <3> QED
      BY <1>s, <3>3, Zenon DEF Guarded!Step
  <2> QED
    BY <2>2, <2>3
<1>8. ASSUME NEW v \in Upstreams, HealthChange(v) PROVE [Guarded(u)!Next]_(Guarded(u)!vars)
  <2>1. /\ healthy' = [healthy EXCEPT ![v] = ~@]
        /\ UNCHANGED <<breakers, request, history>>
    BY <1>8, Zenon DEF HealthChange
  <2>2. PhaseSeen(u)' = PhaseSeen(u) /\ ProbeSeen(u)' = ProbeSeen(u)
    BY <2>1, Zenon DEF PhaseSeen, ProbeSeen, history
  <2>3. CASE v # u
    BY <1>p, <2>1, <2>2, <2>3, Unseen, Zenon DEF history
  <2>4. CASE v = u
    <3>1. healthy'[u] = ~healthy[u]
      BY <1>p, <2>1, <2>4, Zenon
    <3>2. Guarded(u)!HealthChange
      BY <2>1, <2>2, <3>1, Zenon
         DEF Guarded!HealthChange, Guarded!history, PhaseSeen, ProbeSeen, history
    <3> QED
      BY <3>2, Zenon DEF Guarded!Next
  <2> QED
    BY <2>3, <2>4
<1>9. ASSUME Tick PROVE [Guarded(u)!Next]_(Guarded(u)!vars)
  <2>1. PhaseSeen(u)' = PhaseSeen(u) /\ ProbeSeen(u)' = ProbeSeen(u)
    BY <1>9, Zenon DEF Tick, PhaseSeen, ProbeSeen
  <2>2. /\ breakers'[u] = Elapse(breakers[u])
        /\ sinceProbe'[u] = IF sinceProbe[u] < ResetTicks THEN sinceProbe[u] + 1
                             ELSE sinceProbe[u]
        /\ UNCHANGED <<healthy, streak, lost>>
    BY <1>9, Zenon DEF Tick
  <2>3. Guarded(u)!Tick
    BY <2>1, <2>2, Zenon DEF Guarded!Tick, Guarded!Elapse, Elapse, PhaseSeen, ProbeSeen
  <2> QED
    BY <2>3, Zenon DEF Guarded!Next
<1>0. CASE UNCHANGED vars
  BY <1>1, <1>0, Zenon DEF vars
<1> QED
  BY <1>2, <1>t, <1>3, <1>4, <1>5, <1>6, <1>7, <1>8, <1>9, <1>0, Zenon DEF Next, Receive

(* Seen from any one of its upstreams the gateway is the circuit breaker   *)
(* of GuardedUpstream: no request of another upstream and no refusal       *)
(* disturbs it (breakers[upstream] in proxy).                              *)
THEOREM Refinement == Spec => ImplementsBreakers
<1> DEFINE Steps == \A u \in Upstreams : [Guarded(u)!Next]_(Guarded(u)!vars)
<1>1. IInv /\ [Next]_vars => [Steps]_vars
  BY NextRefines
<1>2. Spec => [][Steps]_vars
  BY <1>1, Invariance, PTL DEF Spec
<1>3. Spec => \A u \in Upstreams : Guarded(u)!Init
  BY InitRefines DEF Spec
<1> QED
  BY <1>2, <1>3, PTL DEF ImplementsBreakers
-----------------------------------------------------------------------------
(* What GuardedUpstream_proofs shows of one upstream alone holds of every  *)
(* upstream of the gateway: upstream is a constant of this module of which *)
(* nothing is assumed but that it is one of them.                          *)
LEMMA CircuitIsGuarded ==
  /\ Circuit!Init = Guarded(upstream)!Init
  /\ Circuit!Next = Guarded(upstream)!Next
  /\ (UNCHANGED Circuit!vars) = (UNCHANGED Guarded(upstream)!vars)
<1> USE DEF Circuit!vars, Guarded!vars, Circuit!history, Guarded!history
<1>1. Circuit!Init = Guarded(upstream)!Init
  BY Zenon DEF Circuit!Init, Guarded!Init, Circuit!NewBreaker, Guarded!NewBreaker
<1>2. Circuit!Next = Guarded(upstream)!Next
  BY Zenon
     DEF Circuit!Next, Circuit!Step, Circuit!Admit, Circuit!Forward, Circuit!Succeed,
         Circuit!Fail, Circuit!Abort, Circuit!Finish, Circuit!Tick, Circuit!HealthChange,
         Circuit!Admits, Circuit!BeforeRequest, Circuit!CircuitState, Circuit!Elapse,
         Circuit!RecordSuccess, Circuit!RecordFailure, Circuit!NewBreaker,
         Guarded!Next, Guarded!Step, Guarded!Admit, Guarded!Forward, Guarded!Succeed,
         Guarded!Fail, Guarded!Abort, Guarded!Finish, Guarded!Tick, Guarded!HealthChange,
         Guarded!Admits, Guarded!BeforeRequest, Guarded!CircuitState, Guarded!Elapse,
         Guarded!RecordSuccess, Guarded!RecordFailure, Guarded!NewBreaker
<1>3. (UNCHANGED Circuit!vars) = (UNCHANGED Guarded(upstream)!vars)
  BY Zenon
<1> QED
  BY <1>1, <1>2, <1>3

(* The handlers of an upstream, in a gateway that also limits the rate and *)
(* serves other upstreams, are those of GuardedUpstream (proxy).           *)
THEOREM CircuitRefined == upstream \in Upstreams /\ Spec => Circuit!Spec
<1> SUFFICES ASSUME upstream \in Upstreams PROVE Spec => Circuit!Spec
  OBVIOUS
<1>1. Init => Circuit!Init
  BY InitRefines, CircuitIsGuarded
<1>2. IInv /\ [Next]_vars => [Circuit!Next]_(Circuit!vars)
  <2> SUFFICES ASSUME IInv, [Next]_vars PROVE [Circuit!Next]_(Circuit!vars)
    OBVIOUS
  <2>1. [Guarded(upstream)!Next]_(Guarded(upstream)!vars)
    BY NextRefines
  <2>2. Guarded(upstream)!Next \/ UNCHANGED Guarded(upstream)!vars
    BY <2>1, Zenon
  <2> QED
    BY <2>2, CircuitIsGuarded, Zenon
<1> QED
  BY <1>1, <1>2, Invariance, PTL DEF Spec, Circuit!Spec

(* Of every upstream of a gateway: its circuit opens exactly when its last *)
(* FailureThreshold results were failures, whatever the others' requests   *)
(* bring back (record_success, record_failure).                            *)
THEOREM CircuitsOpenCorrectly ==
  upstream \in Upstreams /\ Spec => Circuit!OpensOnConsecutiveFailures
BY CircuitRefined, Circuit!OpensCorrectly, PTL

(* Of every upstream of a gateway: an open circuit lets at most one probe  *)
(* per cooldown through (before_request, record_failure).                  *)
THEOREM CircuitsProbesSpaced ==
  upstream \in Upstreams /\ Spec => Circuit!ProbesAreSpaced
BY CircuitRefined, Circuit!ProbesSpaced, PTL

(* Of every upstream of a gateway: a probe slot is held by a request in    *)
(* flight or was lost with a probe's handler (before_request).             *)
THEOREM CircuitsSlotsOwned ==
  upstream \in Upstreams /\ Spec => []Circuit!ProbeSlotOwned
BY CircuitRefined, Circuit!SlotOwned, PTL
=============================================================================
