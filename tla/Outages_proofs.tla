--------------------------- MODULE Outages_proofs ---------------------------
(***************************************************************************)
(* Proofs about Outages, for every set of requests, threshold, cooldown,   *)
(* timeout and number of retries.                                          *)
(***************************************************************************)
EXTENDS Outages, TLAPS

USE TimeoutAssumption, ThresholdAssumption, ResetAssumption

(* What of the breaker's methods matters here: a new circuit is closed,    *)
(* neither before_request nor time opens or closes one, and a failure      *)
(* leaves it closed only while there is room to count another one.         *)
LEMMA NewBreakerFacts ==
  NewBreaker \in Breakers /\ NewBreaker.failures = 0 /\ ~NewBreaker.opened
BY DEF NewBreaker, Breakers

LEMMA BreakerFacts ==
  ASSUME NEW b \in Breakers
  PROVE  /\ BeforeRequest(b) \in Breakers
         /\ BeforeRequest(b).opened = b.opened /\ BeforeRequest(b).failures = b.failures
         /\ Elapse(b) \in Breakers
         /\ Elapse(b).opened = b.opened /\ Elapse(b).failures = b.failures
<1> USE DEF Breakers, BeforeRequest, Elapse
<1>1. BeforeRequest(b) \in Breakers
  OBVIOUS
<1>2. Elapse(b) \in Breakers
  OBVIOUS
<1>3. BeforeRequest(b).opened = b.opened
  OBVIOUS
<1>4. Elapse(b).opened = b.opened
  OBVIOUS
<1>5. BeforeRequest(b).failures = b.failures /\ Elapse(b).failures = b.failures
  OBVIOUS
<1> QED
  BY <1>1, <1>2, <1>3, <1>4, <1>5

LEMMA FailureFacts ==
  ASSUME NEW b \in Breakers, ~b.opened => b.failures < FailureThreshold
  PROVE  /\ RecordFailure(b) \in Breakers
         /\ ~RecordFailure(b).opened => RecordFailure(b).failures < FailureThreshold
<1> USE DEF Breakers, RecordFailure
<1>1. CASE b.opened
  <2> DEFINE c == [b EXCEPT !.elapsed = 0]
  <2>1. c \in Breakers /\ c.opened
    BY <1>1
  <2>2. RecordFailure(b) = [c EXCEPT !.probing = FALSE]
    BY <1>1
  <2> HIDE DEF c
  <2> QED
    BY <2>1, <2>2
<1>2. CASE ~b.opened
  <2>1. RecordFailure(b) \in Breakers
    BY <1>2
  <2>2. RecordFailure(b).failures = b.failures + 1
    BY <1>2
  <2>3. RecordFailure(b).opened <=> b.failures + 1 >= FailureThreshold
    BY <1>2
  <2> QED
    BY <1>2, <2>1, <2>2, <2>3
<1> QED
  BY <1>1, <1>2

Services == {"session", "personalization"}

(* A closed circuit has room to count one more failure.                    *)
RoomToCount ==
  \A s \in Services : ~breakers[s].opened => breakers[s].failures < FailureThreshold

ITypes == TypeOK /\ RoomToCount

(* The kinds of requests, and what the records about them are made of.     *)
LEMMA KindFacts ==
  /\ Kinds = {"patch", "end", "signal", "profile", "bundle"}
  /\ \A kind \in Kinds : /\ Calls[kind] \in 0..2
                         /\ Service(kind) \in Services
                         /\ Service(kind) = "session" => Calls[kind] \in 0..1
BY DEF Kinds, Calls, Service, Services

LEMMA RequestFacts ==
  ASSUME NEW q \in RequestStates
  PROVE  /\ Idle \in RequestStates
         /\ \A kind \in Kinds : Sent(kind) \in RequestStates
         /\ q.calls > 0 => Resumed(q) \in RequestStates
         /\ q.attempt < Retries => Retried(q) \in RequestStates
         /\ q.waited < ServiceTimeout /\ q.age < GatewayTimeout
              => Delayed(q) \in RequestStates
<1>1. Idle \in RequestStates
  BY DEF Idle, RequestStates
<1>2. ASSUME NEW kind \in Kinds PROVE Sent(kind) \in RequestStates
  <2>1. Calls[kind] \in 0..2 /\ kind \in Kinds \cup {"none"} /\ 0 \in 0..Retries
        /\ 0 \in 0..ServiceTimeout /\ 0 \in 0..GatewayTimeout
    BY KindFacts
  <2> QED
    BY <2>1 DEF Sent, RequestStates
<1>3. ASSUME q.calls > 0 PROVE Resumed(q) \in RequestStates
  BY <1>3 DEF Resumed, RequestStates
<1>4. ASSUME q.attempt < Retries PROVE Retried(q) \in RequestStates
  BY <1>4 DEF Retried, RequestStates
<1>5. ASSUME q.waited < ServiceTimeout, q.age < GatewayTimeout
      PROVE  Delayed(q) \in RequestStates
  <2> DEFINE w == [q EXCEPT !.waited = @ + 1]
  <2>1. w \in RequestStates /\ w.age = q.age
    BY <1>5 DEF RequestStates
  <2>2. Delayed(q) = [w EXCEPT !.age = @ + 1]
    BY DEF Delayed, RequestStates
  <2> HIDE DEF w
  <2> QED
    BY <1>5, <2>1, <2>2 DEF RequestStates
<1> QED
  BY <1>1, <1>2, <1>3, <1>4, <1>5

(* Steps that only change what is known of one request.                    *)
LEMMA RequestStepTypes ==
  ASSUME ITypes, NEW r \in Requests, NEW q \in RequestStates,
         request' = [request EXCEPT ![r] = q],
         UNCHANGED <<memory, breakers, silence>>
  PROVE  ITypes'
BY DEF ITypes, TypeOK, RoomToCount

(* Steps that also change the circuit of one service.                      *)
LEMMA CircuitStepTypes ==
  ASSUME ITypes, NEW r \in Requests, NEW q \in RequestStates,
         NEW s \in Services, NEW b \in Breakers, ~b.opened => b.failures < FailureThreshold,
         request' = [request EXCEPT ![r] = q],
         breakers' = [breakers EXCEPT ![s] = b],
         silence' \in {0, silence}, UNCHANGED memory
  PROVE  ITypes'
<1>1. breakers' \in [Services -> Breakers]
  BY DEF ITypes, TypeOK, Services
<1>2. RoomToCount'
  BY <1>1 DEF ITypes, TypeOK, RoomToCount, Services
<1>3. request' \in [Requests -> RequestStates]
  BY DEF ITypes, TypeOK
<1> QED
  BY <1>1, <1>2, <1>3 DEF ITypes, TypeOK, Services

(* A request in flight goes to one of the two services, whose circuit is   *)
(* well-formed whatever it records.                                        *)
LEMMA CircuitFacts ==
  ASSUME ITypes, NEW r \in Requests, InFlight(r)
  PROVE  /\ request[r] \in RequestStates
         /\ Circuit(r) \in Services
         /\ breakers[Circuit(r)] \in Breakers
         /\ RecordFailure(breakers[Circuit(r)]) \in Breakers
         /\ ~RecordFailure(breakers[Circuit(r)]).opened
              => RecordFailure(breakers[Circuit(r)]).failures < FailureThreshold
<1>1. request[r] \in RequestStates
  BY DEF ITypes, TypeOK
<1>2. request[r].kind \in Kinds
  BY <1>1 DEF InFlight, RequestStates
<1>3. Circuit(r) \in Services
  BY <1>2, KindFacts DEF Circuit
<1> DEFINE b == breakers[Circuit(r)]
<1>4. b \in Breakers /\ (~b.opened => b.failures < FailureThreshold)
  BY <1>3 DEF ITypes, TypeOK, RoomToCount, Services
<1> HIDE DEF b
<1>5. /\ RecordFailure(b) \in Breakers
      /\ ~RecordFailure(b).opened => RecordFailure(b).failures < FailureThreshold
  BY <1>4, FailureFacts
<1> QED
  BY <1>1, <1>3, <1>4, <1>5 DEF b

LEMMA InitTypes == Init => ITypes
<1> SUFFICES ASSUME Init PROVE ITypes
  OBVIOUS
<1>1. Idle \in RequestStates
  BY DEF Idle, RequestStates
<1>2. request \in [Requests -> RequestStates]
  BY <1>1 DEF Init
<1>3. /\ breakers \in [Services -> Breakers]
      /\ \A s \in Services : breakers[s] = NewBreaker
  BY NewBreakerFacts DEF Init, Services
<1>4. RoomToCount
  BY <1>3, NewBreakerFacts DEF RoomToCount
<1> QED
  BY <1>2, <1>3, <1>4 DEF Init, ITypes, TypeOK, Conditions, Services

LEMMA NextTypes == ITypes /\ [Next]_vars => ITypes'
<1> SUFFICES ASSUME ITypes, [Next]_vars PROVE ITypes'
  OBVIOUS
<1>1. ASSUME NEW r \in Requests, NEW kind \in Kinds, Send(r, kind) PROVE ITypes'
  <2> DEFINE b == BeforeRequest(breakers[Service(kind)])
  <2>1. Service(kind) \in Services
    BY KindFacts
  <2>2. b \in Breakers /\ (~b.opened => b.failures < FailureThreshold)
    BY <2>1, BreakerFacts DEF ITypes, TypeOK, RoomToCount, Services
  <2>3. Sent(kind) \in RequestStates
    BY RequestFacts DEF ITypes, TypeOK
  <2>4. /\ request' = [request EXCEPT ![r] = Sent(kind)]
        /\ breakers' = [breakers EXCEPT ![Service(kind)] = b]
        /\ UNCHANGED <<memory, silence>>
    BY <1>1 DEF Send
  <2> HIDE DEF b
  <2> QED
    BY <2>1, <2>2, <2>3, <2>4, CircuitStepTypes
<1>2. ASSUME NEW r \in Requests, Calling(r), NextCall(r), UNCHANGED <<memory, breakers, silence>>
      PROVE  ITypes'
  <2>1. Resumed(request[r]) \in RequestStates
    BY <1>2, RequestFacts DEF ITypes, TypeOK, Calling
  <2> QED
    BY <1>2, <2>1, RequestStepTypes DEF NextCall
<1>3. ASSUME NEW r \in Requests, Calling(r), TryAgainOrGoOn(r), UNCHANGED memory
      PROVE  ITypes'
  <2>1. CASE request[r].attempt < Retries
    <3>1. Retried(request[r]) \in RequestStates
      BY <2>1, RequestFacts DEF ITypes, TypeOK
    <3> QED
      BY <1>3, <2>1, <3>1, RequestStepTypes DEF TryAgainOrGoOn
  <2>2. CASE ~(request[r].attempt < Retries)
    BY <1>2, <1>3, <2>2 DEF TryAgainOrGoOn
  <2> QED
    BY <2>1, <2>2
<1>4. ASSUME NEW r \in Requests, InFlight(r), UNCHANGED memory,
             Answer(r, RecordFailure(breakers[Circuit(r)]))
      PROVE  ITypes'
  <2>1. Idle \in RequestStates
    BY <1>4, CircuitFacts, RequestFacts
  <2> QED
    BY <1>4, <2>1, CircuitFacts, CircuitStepTypes DEF Answer
<1>5. ASSUME NEW r \in Requests, Respond(r) PROVE ITypes'
  <2>1. InFlight(r)
    BY <1>5 DEF Respond, Done
  <2>2. Idle \in RequestStates
    BY <2>1, CircuitFacts, RequestFacts
  <2>3. NewBreaker \in Breakers /\ NewBreaker.failures < FailureThreshold
    BY NewBreakerFacts
  <2>4. RecordSuccess(breakers[Circuit(r)]) = NewBreaker
    BY DEF RecordSuccess
  <2> QED
    BY <1>5, <2>1, <2>2, <2>3, <2>4, CircuitFacts, CircuitStepTypes DEF Respond, Answer
<1>6. ASSUME NEW r \in Requests, Progress(r) PROVE ITypes'
  <2>1. CASE Answered(r)
    BY <1>2, <2>1 DEF Answered
  <2>2. CASE RefusedWith5xx(r)
    <3>1. CASE Circuit(r) = "session"
      BY <1>2, <2>2, <3>1 DEF RefusedWith5xx
    <3>2. CASE Circuit(r) # "session"
      BY <1>4, <2>2, <3>2 DEF RefusedWith5xx, Calling
    <3> QED
      BY <3>1, <3>2
  <2>3. CASE Unconnected(r)
    BY <1>3, <2>3 DEF Unconnected
  <2>4. CASE TimedOut(r)
    BY <1>3, <2>4 DEF TimedOut
  <2>5. CASE GatewayTimesOut(r)
    BY <1>4, <2>5 DEF GatewayTimesOut
  <2> QED
    BY <1>5, <1>6, <2>1, <2>2, <2>3, <2>4, <2>5 DEF Progress
<1>7. CASE Condition
  BY <1>7 DEF Condition, ITypes, TypeOK, RoomToCount
<1>8. CASE Tick
  <2>1. ASSUME NEW s \in Services
        PROVE  /\ Elapse(breakers[s]) \in Breakers
               /\ Elapse(breakers[s]).opened = breakers[s].opened
               /\ Elapse(breakers[s]).failures = breakers[s].failures
    BY <2>1, BreakerFacts DEF ITypes, TypeOK, Services
  <2>2. breakers' = [s \in Services |-> Elapse(breakers[s])]
    BY <1>8 DEF Tick, ITypes, TypeOK, Services
  <2>3. breakers' \in [Services -> Breakers] /\ RoomToCount'
    BY <2>1, <2>2 DEF ITypes, RoomToCount
  <2>4. ASSUME NEW r \in Requests, InFlight(r) PROVE Delayed(request[r]) \in RequestStates
    BY <1>8, <2>4, RequestFacts DEF Tick, Waiting, ITypes, TypeOK
  <2>5. request' \in [Requests -> RequestStates]
    BY <1>8, <2>4 DEF Tick, ITypes, TypeOK
  <2> QED
    BY <1>8, <2>3, <2>5 DEF Tick, ITypes, TypeOK, Services
<1>9. CASE UNCHANGED vars
  BY <1>9 DEF vars, ITypes, TypeOK, RoomToCount
<1> QED
  BY <1>1, <1>6, <1>7, <1>8, <1>9 DEF Next

(* Circuits and requests in flight keep their types: no call is tried more *)
(* than Retries + 1 times, and the gateway never waits longer than its     *)
(* timeout.                                                                *)
THEOREM TypeCorrect == Spec => []TypeOK
<1>1. ITypes => TypeOK
  BY DEF ITypes
<1> QED
  BY InitTypes, NextTypes, <1>1, PTL DEF Spec
-----------------------------------------------------------------------------
(* The gateway has not waited longer for a request than there was silence  *)
(* since it was last without one.                                          *)
Ages == \A r \in Requests : InFlight(r) => request[r].age <= silence

LEMMA NextAges == ITypes /\ Ages /\ [Next]_vars => Ages'
<1> SUFFICES ASSUME ITypes, Ages, [Next]_vars PROVE Ages'
  OBVIOUS
<1>0. silence \in 0..GatewayTimeout /\ \A r \in Requests : request[r] \in RequestStates
  BY DEF ITypes, TypeOK
<1>1. ASSUME NEW r \in Requests, NEW q, q.kind = "none" \/ q.age <= silence,
             request' = [request EXCEPT ![r] = q], UNCHANGED silence
      PROVE  Ages'
  BY <1>1 DEF Ages, InFlight, ITypes, TypeOK
<1>2. ASSUME NEW r \in Requests, InFlight(r), NextCall(r), UNCHANGED silence PROVE Ages'
  BY <1>1, <1>2 DEF NextCall, Resumed, Ages
<1>3. ASSUME NEW r \in Requests, InFlight(r), TryAgainOrGoOn(r) PROVE Ages'
  <2>1. CASE request[r].attempt < Retries
    BY <1>1, <1>3, <2>1 DEF TryAgainOrGoOn, Retried, Ages
  <2>2. CASE ~(request[r].attempt < Retries)
    BY <1>2, <1>3, <2>2 DEF TryAgainOrGoOn
  <2> QED
    BY <2>1, <2>2
<1>4. ASSUME NEW r \in Requests, NEW b, Answer(r, b) PROVE Ages'
  <2>1. Idle.kind = "none"
    BY DEF Idle
  <2>2. CASE \E other \in Requests \ {r} : InFlight(other)
    BY <1>1, <1>4, <2>1, <2>2 DEF Answer
  <2>3. CASE ~\E other \in Requests \ {r} : InFlight(other)
    BY <1>4, <2>1, <2>3 DEF Answer, Ages, InFlight, ITypes, TypeOK
  <2> QED
    BY <2>2, <2>3
<1>5. ASSUME NEW r \in Requests, NEW kind \in Kinds, Send(r, kind) PROVE Ages'
  <2>1. Sent(kind).age <= silence
    BY <1>0 DEF Sent
  <2> QED
    BY <1>1, <1>5, <2>1 DEF Send
<1>6. ASSUME NEW r \in Requests, Progress(r) PROVE Ages'
  BY <1>2, <1>3, <1>4, <1>6
     DEF Progress, Answered, RefusedWith5xx, Unconnected, TimedOut, Respond, GatewayTimesOut,
         Calling
<1>7. CASE Tick
  <2> SUFFICES ASSUME NEW r \in Requests, InFlight(r)' PROVE request'[r].age <= silence'
    BY DEF Ages
  <2>1. request'[r] = IF InFlight(r) THEN Delayed(request[r]) ELSE request[r]
    BY <1>7 DEF Tick
  <2>2. InFlight(r)
    BY <2>1 DEF InFlight
  <2>3. request'[r].age = request[r].age + 1
    BY <1>0, <2>1, <2>2 DEF Delayed, RequestStates
  <2>4. /\ request[r].age \in Nat /\ request[r].age <= silence
        /\ request[r].age < GatewayTimeout
    BY <1>0, <1>7, <2>2 DEF Ages, Tick, Waiting, RequestStates
  <2>5. silence' = IF silence < GatewayTimeout THEN silence + 1 ELSE silence
    BY <1>7, <2>2 DEF Tick
  <2> QED
    BY <1>0, <2>3, <2>4, <2>5
<1>8. CASE Condition \/ UNCHANGED vars
  BY <1>8 DEF Condition, vars, Ages, InFlight
<1> QED
  BY <1>5, <1>6, <1>7, <1>8 DEF Next

(* A failure is recorded for a 5xx that the personalization service has    *)
(* passed on, or for the gateway's own timeout.                            *)
LEMMA FailureIsCaused ==
  ASSUME ITypes, Ages, [Next]_vars, NEW s \in Services, Fails(s)
  PROVE  silence >= GatewayTimeout \/ (s = "personalization" /\ memory = "failing")
<1>0. /\ breakers \in [Services -> Breakers] /\ breakers[s] \in Breakers
      /\ breakers'[s] \in Breakers
  BY NextTypes DEF ITypes, TypeOK, Services
<1>1. ASSUME breakers'[s].failures = breakers[s].failures,
             breakers'[s].opened => breakers'[s].elapsed >= breakers[s].elapsed
      PROVE  FALSE
  BY <1>0, <1>1 DEF Fails, Breakers
<1>2. breakers'[s] # breakers[s]
  BY <1>0, <1>1 DEF Breakers
<1>3. ASSUME NEW r \in Requests, NEW kind \in Kinds, Send(r, kind) PROVE FALSE
  <2>1. breakers'[s] \in {breakers[s], BeforeRequest(breakers[s])}
    BY <1>0, <1>3 DEF Send
  <2>2. /\ BeforeRequest(breakers[s]).failures = breakers[s].failures
        /\ BeforeRequest(breakers[s]).elapsed = breakers[s].elapsed
    BY <1>0 DEF BeforeRequest, Breakers
  <2>3. breakers[s].elapsed \in Nat
    BY <1>0 DEF Breakers
  <2> QED
    BY <1>1, <1>2, <2>1, <2>2, <2>3
<1>4. ASSUME NEW r \in Requests, Respond(r) PROVE FALSE
  <2>1. breakers'[s] \in {breakers[s], NewBreaker}
    BY <1>0, <1>4 DEF Respond, Answer, RecordSuccess
  <2> QED
    BY <1>0, <1>2, <2>1, NewBreakerFacts DEF Fails, Breakers
<1>5. ASSUME NEW r \in Requests, GatewayTimesOut(r) PROVE silence >= GatewayTimeout
  BY <1>5 DEF GatewayTimesOut, Ages, ITypes, TypeOK
<1>6. ASSUME NEW r \in Requests, RefusedWith5xx(r)
      PROVE  s = "personalization" /\ memory = "failing"
  <2>1. Circuit(r) # "session" /\ breakers'[s] # breakers[s] /\ s = Circuit(r)
    BY <1>0, <1>2, <1>6 DEF RefusedWith5xx, Answer
  <2> QED
    BY <1>6, <2>1 DEF RefusedWith5xx, Services
<1>7. ASSUME NEW r \in Requests, Answered(r) \/ Unconnected(r) \/ TimedOut(r) PROVE FALSE
  BY <1>2, <1>7 DEF Answered, Unconnected, TimedOut, TryAgainOrGoOn
<1>8. CASE Tick
  <2>1. breakers'[s] = Elapse(breakers[s])
    BY <1>0, <1>8 DEF Tick
  <2>2. /\ Elapse(breakers[s]).failures = breakers[s].failures
        /\ Elapse(breakers[s]).elapsed >= breakers[s].elapsed
    BY <1>0 DEF Elapse, Breakers
  <2> QED
    BY <1>1, <2>1, <2>2
<1>9. CASE Condition \/ UNCHANGED vars
  BY <1>2, <1>9 DEF Condition, vars
<1> QED
  BY <1>3, <1>4, <1>5, <1>6, <1>7, <1>8, <1>9 DEF Next, Progress

LEMMA AgesAlways == Spec => [](ITypes /\ Ages)
<1>1. Init => Ages
  BY DEF Init, Ages, InFlight, Idle
<1> QED
  BY InitTypes, NextTypes, NextAges, <1>1, PTL DEF Spec

(* A flush that the memory service refuses, or lets wait for less than the *)
(* gateway's timeout, costs the session service's circuit nothing, for any *)
(* timeouts and number of retries (flush, ServiceClient.request).          *)
THEOREM FlushStaysBestEffort == Spec => FlushIsBestEffort
<1>1. ITypes /\ Ages /\ [Next]_vars => [Fails("session") => silence >= GatewayTimeout]_vars
  BY FailureIsCaused DEF Services
<1> QED
  BY AgesAlways, <1>1, PTL DEF Spec, FlushIsBestEffort

(* Refused connections, timeouts and retries never count against the       *)
(* personalization service: it answers without the memories.               *)
THEOREM UnreachableTolerated == Spec => UnreachableIsTolerated
<1>1. ITypes /\ Ages /\ [Next]_vars
        => [Fails("personalization") => memory = "failing" \/ silence >= GatewayTimeout]_vars
  BY FailureIsCaused DEF Services
<1> QED
  BY AgesAlways, <1>1, PTL DEF Spec, UnreachableIsTolerated
=============================================================================
