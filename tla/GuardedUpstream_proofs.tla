----------------------- MODULE GuardedUpstream_proofs -----------------------
(***************************************************************************)
(* Proofs about GuardedUpstream, for every set of requests, every          *)
(* threshold and every cooldown.                                           *)
(***************************************************************************)
EXTENDS GuardedUpstream, TLAPS

USE ThresholdAssumption, ResetAssumption

(* What each method of the breaker does to its state, case by case.        *)

(* A failure on an open circuit restarts the cooldown, on a closed one it  *)
(* is counted; either frees the probe slot.                                *)
LEMMA RecordFailureCases ==
  ASSUME NEW b \in Breakers, ~b.opened => b.failures < FailureThreshold
  PROVE  /\ RecordFailure(b) \in Breakers
         /\ RecordFailure(b).elapsed = 0
         /\ ~RecordFailure(b).probing
         /\ b.opened  => RecordFailure(b).opened /\ RecordFailure(b).failures = b.failures
         /\ ~b.opened => RecordFailure(b).failures = b.failures + 1
         /\ ~b.opened => (RecordFailure(b).opened <=> b.failures + 1 >= FailureThreshold)
<1> USE DEF Breakers, RecordFailure
<1>1. RecordFailure(b) \in Breakers
  <2>1. CASE b.opened
    <3> DEFINE c == [b EXCEPT !.elapsed = 0]
    <3>1. c \in Breakers
      OBVIOUS
    <3>2. RecordFailure(b) = [c EXCEPT !.probing = FALSE]
      BY <2>1
    <3> HIDE DEF c
    <3> QED
      BY <3>1, <3>2
  <2>2. CASE ~b.opened
    BY <2>2
  <2> QED
    BY <2>1, <2>2
<1>2. RecordFailure(b).elapsed = 0
  OBVIOUS
<1>3. ~RecordFailure(b).probing
  OBVIOUS
<1>4. b.opened => RecordFailure(b).opened /\ RecordFailure(b).failures = b.failures
  OBVIOUS
<1>5. ~b.opened => RecordFailure(b).failures = b.failures + 1
  OBVIOUS
<1>6. ~b.opened => (RecordFailure(b).opened <=> b.failures + 1 >= FailureThreshold)
  OBVIOUS
<1> QED
  BY <1>1, <1>2, <1>3, <1>4, <1>5, <1>6

(* An admitted request takes the probe slot of a half-open circuit.        *)
LEMMA BeforeRequestCases ==
  ASSUME NEW b \in Breakers
  PROVE  /\ BeforeRequest(b) \in Breakers
         /\ BeforeRequest(b).failures = b.failures
         /\ BeforeRequest(b).opened = b.opened
         /\ BeforeRequest(b).elapsed = b.elapsed
         /\ CircuitState(b) = "half_open" <=> b.opened /\ b.elapsed = ResetTicks
         /\ CircuitState(b) = "half_open"  => BeforeRequest(b).probing
         /\ CircuitState(b) # "half_open"  => BeforeRequest(b).probing = b.probing
<1> USE DEF Breakers, BeforeRequest
<1>1. BeforeRequest(b) \in Breakers /\ BeforeRequest(b).failures = b.failures
  OBVIOUS
<1>2. BeforeRequest(b).opened = b.opened
  OBVIOUS
<1>3. BeforeRequest(b).elapsed = b.elapsed
  OBVIOUS
<1>4. CircuitState(b) = "half_open" <=> b.opened /\ b.elapsed = ResetTicks
  BY DEF CircuitState
<1>5. CircuitState(b) = "half_open" => BeforeRequest(b).probing
  OBVIOUS
<1>6. CircuitState(b) # "half_open" => BeforeRequest(b).probing = b.probing
  OBVIOUS
<1> QED
  BY <1>1, <1>2, <1>3, <1>4, <1>5, <1>6

(* Time moves the cooldown and nothing else.                               *)
LEMMA ElapseCases ==
  ASSUME NEW b \in Breakers
  PROVE  /\ Elapse(b) \in Breakers
         /\ Elapse(b).failures = b.failures
         /\ Elapse(b).opened = b.opened
         /\ Elapse(b).probing = b.probing
         /\ b.elapsed = ResetTicks => Elapse(b).elapsed = ResetTicks
         /\ Elapse(b).elapsed \in {b.elapsed, b.elapsed + 1}
<1> USE DEF Breakers, Elapse
<1>1. Elapse(b) \in Breakers /\ Elapse(b).failures = b.failures
  OBVIOUS
<1>2. Elapse(b).opened = b.opened
  OBVIOUS
<1>3. Elapse(b).probing = b.probing
  OBVIOUS
<1>4. b.elapsed = ResetTicks => Elapse(b).elapsed = ResetTicks
  OBVIOUS
<1>5. Elapse(b).elapsed \in {b.elapsed, b.elapsed + 1}
  OBVIOUS
<1> QED
  BY <1>1, <1>2, <1>3, <1>4, <1>5

(* A new circuit, and one after a success, is closed with a count of 0.    *)
LEMMA NewBreakerCases ==
  /\ NewBreaker \in Breakers
  /\ NewBreaker.failures = 0 /\ ~NewBreaker.opened /\ ~NewBreaker.probing
  BY DEF NewBreaker, Breakers
-----------------------------------------------------------------------------

(* An open circuit has not heard of a success since it opened: one that    *)
(* comes late, before any probe, closes it too.                            *)
OpenAfterStreak == breaker.opened <=> streak = FailureThreshold

(* The probe slot is taken only after the cooldown, and while it is free   *)
(* on an open circuit the last probe is at least as old as the opening.    *)
CooldownCoversProbe ==
  /\ ~breaker.opened => breaker.failures < FailureThreshold
  /\ breaker.failures = streak
  /\ breaker.probing => breaker.opened /\ breaker.elapsed = ResetTicks
  /\ breaker.opened /\ ~breaker.probing => breaker.elapsed <= sinceProbe

IInv == TypeOK /\ OpenAfterStreak /\ CooldownCoversProbe

LEMMA InitIInv == Init => IInv
<1> SUFFICES ASSUME Init PROVE IInv
  OBVIOUS
<1>1. lost \in BOOLEAN
  BY DEF Init
<1>2. TypeOK
  BY <1>1, NewBreakerCases DEF Init, TypeOK, Phases
<1>3. OpenAfterStreak /\ CooldownCoversProbe
  BY NewBreakerCases DEF Init, OpenAfterStreak, CooldownCoversProbe
<1> QED
  BY <1>2, <1>3 DEF IInv

LEMMA NextIInv == IInv /\ [Next]_vars => IInv'
<1> SUFFICES ASSUME IInv, [Next]_vars PROVE IInv'
  OBVIOUS
<1> USE DEF IInv, TypeOK, Phases, OpenAfterStreak, CooldownCoversProbe
<1>1. ASSUME NEW r \in Requests, Admit(r) PROVE IInv'
  <2>1. breaker.elapsed \in 0..ResetTicks
    BY DEF Breakers
  <2>2. TypeOK'
    BY <1>1, BeforeRequestCases DEF Admit
  <2>3. OpenAfterStreak'
    BY <1>1, BeforeRequestCases DEF Admit
  <2>4. CooldownCoversProbe'
    BY <1>1, <2>1, BeforeRequestCases DEF Admit
  <2> QED
    BY <2>2, <2>3, <2>4
<1>2. ASSUME NEW r \in Requests, Forward(r) PROVE IInv'
  BY <1>2 DEF Forward, history
<1>3. ASSUME NEW r \in Requests, Succeed(r) PROVE IInv'
  <2>1. lost' \in BOOLEAN
    BY <1>3 DEF Succeed
  <2> QED
    BY <1>3, <2>1, NewBreakerCases DEF Succeed, Finish, RecordSuccess
<1>4. ASSUME NEW r \in Requests, Fail(r) PROVE IInv'
  <2>1. /\ breaker.failures \in 0..FailureThreshold
        /\ RecordFailure(breaker).failures \in 0..FailureThreshold
    BY RecordFailureCases DEF Breakers
  <2>2. lost' \in BOOLEAN
    BY <1>4 DEF Fail
  <2>3. TypeOK'
    BY <1>4, <2>2, RecordFailureCases DEF Fail, Finish
  <2>4. OpenAfterStreak' /\ CooldownCoversProbe'
    BY <1>4, <2>1, RecordFailureCases DEF Fail, Finish
  <2> QED
    BY <2>3, <2>4
<1>5. ASSUME NEW r \in Requests, Abort(r) PROVE IInv'
  <2>1. lost' \in BOOLEAN
    BY <1>5 DEF Abort
  <2> QED
    BY <1>5, <2>1 DEF Abort, Finish
<1>6. ASSUME Tick PROVE IInv'
  <2>1. breaker.elapsed \in 0..ResetTicks
    BY DEF Breakers
  <2> QED
    BY <1>6, <2>1, ElapseCases DEF Tick
<1>7. CASE HealthChange
  BY <1>7 DEF HealthChange, history
<1>8. CASE UNCHANGED vars
  BY <1>8 DEF vars, history
<1> QED
  BY <1>1, <1>2, <1>3, <1>4, <1>5, <1>6, <1>7, <1>8 DEF Next, Step

(* In every behaviour, whatever the number of handlers in flight and the   *)
(* order in which their results reach the breaker.                         *)
THEOREM Invariance == Spec => []IInv
  BY InitIInv, NextIInv, PTL DEF Spec

(* The state of the breaker and of the handlers always has its type: the   *)
(* failure count never passes the threshold, also under late failures.     *)
THEOREM TypeCorrect == Spec => []TypeOK
<1>1. IInv => TypeOK
  BY DEF IInv
<1> QED
  BY <1>1, Invariance, PTL

(* The circuit opens exactly with the last of FailureThreshold failures in *)
(* a row (record_success, record_failure).                                 *)
THEOREM OpensCorrectly == Spec => OpensOnConsecutiveFailures
<1> DEFINE Opens == ~breaker.opened /\ breaker'.opened
                      <=> streak < FailureThreshold /\ streak' = FailureThreshold
<1>1. IInv /\ IInv' => Opens
  BY DEF IInv, TypeOK, OpenAfterStreak
<1>2. IInv /\ IInv' => [Opens]_vars
  BY <1>1
<1> HIDE DEF Opens
<1>3. Spec => [][Opens]_vars
  BY <1>2, Invariance, PTL DEF Spec
<1> QED
  BY <1>3 DEF Opens, OpensOnConsecutiveFailures

(* An open circuit lets at most one probe per cooldown through             *)
(* (before_request, record_failure).                                       *)
THEOREM ProbesSpaced == Spec => ProbesAreSpaced
<1> DEFINE Spaced == \A r \in Requests : ~probe[r] /\ probe'[r] => sinceProbe >= ResetTicks
<1>1. IInv /\ [Next]_vars => [Spaced]_vars
  <2> SUFFICES ASSUME IInv, Next, NEW r \in Requests, ~probe[r], probe'[r]
               PROVE  sinceProbe >= ResetTicks
    BY DEF vars, history
  <2> USE DEF IInv, TypeOK
  <2>1. PICK q \in Requests : Admit(q)
    <3>1. ~Tick /\ ~HealthChange
      BY DEF Tick, HealthChange, history
    <3>2. ASSUME NEW q \in Requests PROVE ~Forward(q) /\ ~Succeed(q) /\ ~Fail(q) /\ ~Abort(q)
      BY DEF Forward, Succeed, Fail, Abort, Finish, history
    <3> QED
      BY <3>1, <3>2 DEF Next, Step
  <2>2. r = q /\ CircuitState(breaker) = "half_open"
    BY <2>1 DEF Admit
  <2>3. breaker.opened /\ breaker.elapsed = ResetTicks
    BY <2>2, BeforeRequestCases
  <2>4. ~breaker.probing
    BY <2>1, <2>2 DEF Admit, Admits
  <2> QED
    BY <2>3, <2>4 DEF CooldownCoversProbe
<1> QED
  BY <1>1, Invariance, PTL DEF Spec, ProbesAreSpaced

(* The probe slot is held by a request in flight, which will give it back, *)
(* or it was lost with a probe's handler: no order of late and overlapping *)
(* results loses it (before_request, record_success, record_failure).      *)
THEOREM SlotOwned == Spec => []ProbeSlotOwned
<1> DEFINE J == IInv /\ ProbeSlotOwned
<1>1. Init => J
  BY InitIInv, NewBreakerCases DEF Init, ProbeSlotOwned
<1>2. J /\ [Next]_vars => J'
  <2> SUFFICES ASSUME J, [Next]_vars PROVE ProbeSlotOwned'
    BY NextIInv
  <2> USE DEF ProbeSlotOwned, IInv, TypeOK
  <2>1. ASSUME NEW r \in Requests, Admit(r) PROVE ProbeSlotOwned'
    <3>1. CASE CircuitState(breaker) = "half_open"
      BY <2>1, <3>1 DEF Admit
    <3>2. CASE CircuitState(breaker) # "half_open"
      <4>1. ~breaker.probing
        BY <2>1, <3>2, BeforeRequestCases DEF Admit, Admits, CooldownCoversProbe, CircuitState
      <4> QED
        BY <2>1, <3>2, <4>1, BeforeRequestCases DEF Admit
    <3> QED
      BY <3>1, <3>2
  <2>2. ASSUME NEW r \in Requests, Forward(r) PROVE ProbeSlotOwned'
    BY <2>2 DEF Forward, history
  <2>3. ASSUME NEW r \in Requests, Succeed(r) PROVE ProbeSlotOwned'
    BY <2>3, NewBreakerCases DEF Succeed, RecordSuccess
  <2>4. ASSUME NEW r \in Requests, Fail(r) PROVE ProbeSlotOwned'
    BY <2>4, RecordFailureCases DEF Fail, CooldownCoversProbe
  <2>5. ASSUME NEW r \in Requests, Abort(r) PROVE ProbeSlotOwned'
    <3>1. CASE probe[r]
      BY <2>5, <3>1 DEF Abort, Finish
    <3>2. CASE ~probe[r]
      BY <2>5, <3>2 DEF Abort, Finish
    <3> QED
      BY <3>1, <3>2
  <2>6. CASE Tick
    BY <2>6, ElapseCases DEF Tick
  <2>7. CASE HealthChange
    BY <2>7 DEF HealthChange, history
  <2>8. CASE UNCHANGED vars
    BY <2>8 DEF vars, history
  <2> QED
    BY <2>1, <2>2, <2>3, <2>4, <2>5, <2>6, <2>7, <2>8 DEF Next, Step
<1> QED
  BY <1>1, <1>2, PTL DEF Spec
=============================================================================
