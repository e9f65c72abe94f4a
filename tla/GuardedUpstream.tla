--------------------------- MODULE GuardedUpstream ---------------------------
(***************************************************************************)
(* One upstream behind its circuit breaker, called by concurrent proxy     *)
(* handlers: the part of proxy() in services/gateway/app/main.py from      *)
(* breaker.before_request() on.  The handler is suspended twice, while it  *)
(* reads the client's body and while the upstream works; other handlers    *)
(* run in between, so results reach the breaker in any order and late.     *)
(***************************************************************************)
EXTENDS CircuitBreaker

CONSTANT
  Requests     (* proxy() activations that can be in flight together       *)

VARIABLES
  breaker,     (* breakers[upstream]                                       *)
  phase,       (* where each proxy() activation is suspended               *)
  healthy,     (* whether the upstream answers without a 5xx               *)
  (* History, read only by the properties.                                 *)
  probe,       (* the activations that were let in by a half-open circuit  *)
  streak,      (* failures recorded since the last success, cut off at     *)
               (* the threshold                                            *)
  sinceProbe,  (* time since the last probe of this opening of the         *)
               (* circuit, cut off at ResetTicks                           *)
  lost         (* whether a probe's handler died while the slot was taken, *)
               (* and no result has freed the slot since                   *)

history == <<probe, streak, sinceProbe, lost>>
vars    == <<breaker, phase, healthy, history>>

Phases == {"idle", "body", "upstream"}

TypeOK ==
  /\ breaker \in Breakers
  /\ phase \in [Requests -> Phases]
  /\ healthy \in BOOLEAN
  /\ probe \in [Requests -> BOOLEAN]
  /\ streak \in 0..FailureThreshold
  /\ sinceProbe \in 0..ResetTicks
  /\ lost \in BOOLEAN

Init ==
  /\ breaker = NewBreaker
  /\ phase = [r \in Requests |-> "idle"]
  /\ healthy \in BOOLEAN
  /\ probe = [r \in Requests |-> FALSE]
  /\ streak = 0
  /\ sinceProbe = ResetTicks
  /\ lost = FALSE

(* The breaker lets the request in and the handler goes on to await the    *)
(* client's body.  A refused request is answered 503 and changes nothing.  *)
Admit(r) ==
  /\ phase[r] = "idle"
  /\ Admits(breaker)
  /\ breaker' = BeforeRequest(breaker)
  /\ phase' = [phase EXCEPT ![r] = "body"]
  /\ probe' = [probe EXCEPT ![r] = CircuitState(breaker) = "half_open"]
  /\ sinceProbe' = IF CircuitState(breaker) = "half_open" THEN 0 ELSE sinceProbe
  /\ UNCHANGED <<healthy, streak, lost>>

(* The body is complete and the request goes out to the upstream.          *)
Forward(r) ==
  /\ phase[r] = "body"
  /\ phase' = [phase EXCEPT ![r] = "upstream"]
  /\ UNCHANGED <<breaker, healthy, history>>

Finish(r) ==
  /\ phase' = [phase EXCEPT ![r] = "idle"]
  /\ probe' = [probe EXCEPT ![r] = FALSE]
  /\ UNCHANGED healthy

(* The upstream answers with a status below 500.                           *)
Succeed(r) ==
  /\ phase[r] = "upstream" /\ healthy
  /\ breaker' = RecordSuccess(breaker)
  /\ streak' = 0
  /\ sinceProbe' = ResetTicks
  /\ lost' = FALSE
  /\ Finish(r)

(* The upstream answers with a 5xx, or httpx raises an HTTPError, such as  *)
(* a refused connection or a timeout.                                      *)
Fail(r) ==
  /\ phase[r] = "upstream" /\ ~healthy
  /\ breaker' = RecordFailure(breaker)
  /\ streak' = IF streak < FailureThreshold THEN streak + 1 ELSE streak
  /\ lost' = FALSE
  /\ UNCHANGED sinceProbe
  /\ Finish(r)

(* An exception that is no httpx.HTTPError leaves the handler before the   *)
(* upstream is reached: request.body() raises ClientDisconnect when the    *)
(* client hangs up, httpx raises InvalidURL.  Nothing is recorded.         *)
Abort(r) ==
  /\ phase[r] = "body"
  /\ lost' = (lost \/ (probe[r] /\ breaker.probing))
  /\ UNCHANGED <<breaker, streak, sinceProbe>>
  /\ Finish(r)

Tick ==
  /\ breaker' = Elapse(breaker)
  /\ sinceProbe' = IF sinceProbe < ResetTicks THEN sinceProbe + 1 ELSE sinceProbe
  /\ UNCHANGED <<phase, healthy, probe, streak, lost>>

(* The upstream breaks down or comes back.                                 *)
HealthChange ==
  /\ healthy' = ~healthy
  /\ UNCHANGED <<breaker, phase, history>>

Step(r) == Admit(r) \/ Forward(r) \/ Succeed(r) \/ Fail(r) \/ Abort(r)

Next == (\E r \in Requests : Step(r)) \/ Tick \/ HealthChange

Spec == Init /\ [][Next]_vars

(* Time passes, the event loop runs every handler, httpx bounds every call *)
(* by its timeouts, and clients keep sending requests.                     *)
Fairness ==
  /\ WF_vars(Tick)
  /\ \A r \in Requests : /\ WF_vars(Admit(r))
                         /\ WF_vars(Forward(r))
                         /\ WF_vars(Succeed(r) \/ Fail(r))

FairSpec == Spec /\ Fairness
-----------------------------------------------------------------------------
(* The circuit opens exactly when the last FailureThreshold results, in    *)
(* the order they came back, were all failures, whatever else was in       *)
(* flight: no success in between is forgotten and no failure counted twice *)
(* (_failures and _opened_at in record_success and record_failure).  When  *)
(* it closes again is another matter: see RecoversUnlessLost.              *)
OpensOnConsecutiveFailures ==
  [][~breaker.opened /\ breaker'.opened
       <=> streak < FailureThreshold /\ streak' = FailureThreshold]_vars

(* While the circuit stays open the struggling upstream gets at most one   *)
(* probe per cooldown, also when probes and late failures overlap          *)
(* (_opened_at restarted by record_failure, _probing by before_request).   *)
ProbesAreSpaced ==
  [][\A r \in Requests : ~probe[r] /\ probe'[r] => sinceProbe >= ResetTicks]_vars

(* The only way to lose the probe slot is a probe whose handler dies: in   *)
(* every other order of results whoever holds it is still in flight and    *)
(* will give it back; otherwise before_request refuses everybody for good. *)
ProbeSlotOwned == breaker.probing => lost \/ \E r \in Requests : probe[r]

(* An upstream that has recovered is served again, unless the slot is lost *)
(* (before_request, record_success, record_failure).                       *)
RecoversUnlessLost == <>[](healthy /\ ~lost) => <>[](~breaker.opened)

(* "a half-open probe closes it again when the upstream recovers"          *)
(* (README.md), without exception.                                         *)
Recovers == <>[]healthy => <>[](~breaker.opened)
=============================================================================
