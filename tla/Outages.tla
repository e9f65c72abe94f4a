------------------------------ MODULE Outages ------------------------------
(***************************************************************************)
(* How an outage of the memory service reaches the others: requests that   *)
(* the gateway forwards to the session and personalization services        *)
(* (services/gateway/app/main.py), the calls of the memory service these   *)
(* make through ServiceClient (shared/convmem_shared/http_client.py) and   *)
(* what they do with its errors (services/session/app/flush.py and         *)
(* services/personalization/app/memory_gateway.py).                        *)
(*                                                                         *)
(* Time matters here: both hops have a timeout, and the inner one is tried *)
(* several times.  Everything else takes no time; the backoff of           *)
(* ServiceClient, under a second, is left out.                             *)
(***************************************************************************)
EXTENDS CircuitBreaker

CONSTANTS
  Requests,         (* requests that can be in flight together             *)
  GatewayTimeout,   (* HTTP_TIMEOUT_SECONDS of the gateway, in ticks       *)
  ServiceTimeout,   (* HTTP_TIMEOUT_SECONDS of the services, in ticks      *)
  Retries           (* ServiceClient retries a call this often             *)

ASSUME TimeoutAssumption ==
  /\ GatewayTimeout \in Nat \ {0} /\ ServiceTimeout \in Nat \ {0}
  /\ Retries \in Nat

VARIABLES
  memory,    (* how the memory service treats a call at the moment         *)
  breakers,  (* the gateway's circuits of the two other services           *)
  request,   (* each request in flight                                     *)
  (* History, read only by the properties.                                 *)
  silence    (* how long the memory service has been silent since no       *)
             (* request was in flight, up to GatewayTimeout                *)

vars == <<memory, breakers, request, silence>>

(* up: answers; refusing: no connection; failing: answers with a 5xx;      *)
(* silent: does not answer for now.                                        *)
Conditions == {"up", "refusing", "failing", "silent"}

(* What can be asked for, of whom, and how many calls of the memory        *)
(* service the handler makes for it, one after the other.                  *)
Calls ==
  [patch  |-> 0, end     |-> 1,
   signal |-> 0, profile |-> 1, bundle |-> 2]

Kinds         == DOMAIN Calls
Service(kind) == IF kind \in {"patch", "end"} THEN "session" ELSE "personalization"

(* A request: what is left of its calls, which attempt the present one is  *)
(* in and since when, and how long the gateway has waited for the answer.  *)
Idle       == [kind |-> "none", calls |-> 0,           attempt |-> 0, waited |-> 0, age |-> 0]
Sent(kind) == [kind |-> kind,   calls |-> Calls[kind], attempt |-> 0, waited |-> 0, age |-> 0]
Resumed(q) == [kind |-> q.kind, calls |-> q.calls - 1, attempt |-> 0, waited |-> 0, age |-> q.age]
Retried(q) == [kind |-> q.kind, calls |-> q.calls, attempt |-> q.attempt + 1, waited |-> 0,
               age  |-> q.age]
Delayed(q) == [q EXCEPT !.waited = @ + 1, !.age = @ + 1]

RequestStates ==
  [kind    : Kinds \cup {"none"}, calls : 0..2,              attempt : 0..Retries,
   waited  : 0..ServiceTimeout,   age   : 0..GatewayTimeout]

TypeOK ==
  /\ memory \in Conditions
  /\ breakers \in [{"session", "personalization"} -> Breakers]
  /\ request \in [Requests -> RequestStates]
  /\ silence \in 0..GatewayTimeout

Init ==
  /\ memory = "up"
  /\ breakers = [s \in {"session", "personalization"} |-> NewBreaker]
  /\ request = [r \in Requests |-> Idle]
  /\ silence = 0

InFlight(r) == request[r].kind # "none"
Calling(r)  == InFlight(r) /\ request[r].calls > 0
Done(r)     == InFlight(r) /\ request[r].calls = 0

Circuit(r)  == Service(request[r].kind)
-----------------------------------------------------------------------------
(* The gateway lets a request in and forwards it; a request it refuses is  *)
(* answered 503 and changes nothing.                                       *)
Send(r, kind) ==
  /\ ~InFlight(r)
  /\ Admits(breakers[Service(kind)])
  /\ breakers' = [breakers EXCEPT ![Service(kind)] = BeforeRequest(@)]
  /\ request' = [request EXCEPT ![r] = Sent(kind)]
  /\ UNCHANGED <<memory, silence>>

(* The result of the call is known and the handler goes on, with what it   *)
(* got or without.                                                         *)
NextCall(r) == request' = [request EXCEPT ![r] = Resumed(@)]

(* The service answers, and the gateway records it by its status.          *)
Answer(r, circuit) ==
  /\ breakers' = [breakers EXCEPT ![Circuit(r)] = circuit]
  /\ request' = [request EXCEPT ![r] = Idle]
  /\ silence' = IF \E other \in Requests \ {r} : InFlight(other) THEN silence ELSE 0

Answered(r) ==
  /\ Calling(r) /\ memory = "up"
  /\ NextCall(r)
  /\ UNCHANGED <<memory, breakers, silence>>

(* Faulty variant: DELETE passes the error of the memory service on.       *)
RefusedWith5xxPassedOn(r) ==
  /\ Calling(r) /\ memory = "failing"
  /\ Answer(r, RecordFailure(breakers[Circuit(r)]))
  /\ UNCHANGED memory

(* A 5xx of the memory service: flush() takes it for "not flushed", while  *)
(* raise_for_status() in the memory gateway raises what nobody catches, so *)
(* that the personalization service answers 500.                           *)
RefusedWith5xx(r) ==
  /\ Calling(r) /\ memory = "failing"
  /\ IF Circuit(r) = "session"
     THEN NextCall(r) /\ UNCHANGED <<breakers, silence>>
     ELSE Answer(r, RecordFailure(breakers[Circuit(r)]))
  /\ UNCHANGED memory

(* Faulty variant: the handlers do not catch ServiceUnavailable.           *)
TryAgainOrFail(r) ==
  IF request[r].attempt < Retries
  THEN /\ request' = [request EXCEPT ![r] = Retried(@)]
       /\ UNCHANGED <<breakers, silence>>
  ELSE Answer(r, RecordFailure(breakers[Circuit(r)]))

(* ServiceClient tries again, or raises ServiceUnavailable: the session    *)
(* ends without its flush, the profile and the bundle come without         *)
(* memories.                                                               *)
TryAgainOrGoOn(r) ==
  /\ IF request[r].attempt < Retries
     THEN request' = [request EXCEPT ![r] = Retried(@)]
     ELSE NextCall(r)
  /\ UNCHANGED <<breakers, silence>>

Unconnected(r) ==
  /\ Calling(r) /\ memory = "refusing"
  /\ TryAgainOrGoOn(r)
  /\ UNCHANGED memory

TimedOut(r) ==
  /\ Calling(r) /\ request[r].waited = ServiceTimeout
  /\ TryAgainOrGoOn(r)
  /\ UNCHANGED memory

(* The service has all it needs and answers.                               *)
Respond(r) ==
  /\ Done(r)
  /\ Answer(r, RecordSuccess(breakers[Circuit(r)]))
  /\ UNCHANGED memory

(* The gateway has waited long enough: 502.  The handler behind it goes on *)
(* unheard.                                                                *)
GatewayTimesOut(r) ==
  /\ InFlight(r) /\ request[r].age = GatewayTimeout
  /\ Answer(r, RecordFailure(breakers[Circuit(r)]))
  /\ UNCHANGED memory

Condition ==
  /\ \E c \in Conditions \ {memory} : memory' = c
  /\ UNCHANGED <<breakers, request, silence>>

(* Time passes only while everybody waits: for the silent memory service,  *)
(* or for a next request.                                                  *)
Waiting(r) ==
  /\ Calling(r) /\ memory = "silent"
  /\ request[r].waited < ServiceTimeout /\ request[r].age < GatewayTimeout

Tick ==
  /\ \A r \in Requests : ~InFlight(r) \/ Waiting(r)
  /\ breakers' = [s \in DOMAIN breakers |-> Elapse(breakers[s])]
  /\ request' = [r \in Requests |->
                   IF InFlight(r) THEN Delayed(request[r]) ELSE request[r]]
  /\ silence' = IF silence < GatewayTimeout /\ \E r \in Requests : InFlight(r)
                THEN silence + 1 ELSE silence
  /\ UNCHANGED memory

Progress(r) ==
  \/ Answered(r) \/ RefusedWith5xx(r) \/ Unconnected(r) \/ TimedOut(r)
  \/ Respond(r)  \/ GatewayTimesOut(r)

Next ==
  \/ \E r \in Requests : Progress(r) \/ \E kind \in Kinds : Send(r, kind)
  \/ Condition \/ Tick

Spec == Init /\ [][Next]_vars
-----------------------------------------------------------------------------
(* A failure is recorded: it is counted, or restarts the cooldown.         *)
Fails(s) ==
  \/ breakers'[s].failures > breakers[s].failures
  \/ breakers'[s].opened /\ breakers'[s].elapsed < breakers[s].elapsed

(* The session service's circuit records no failure for an outage of the   *)
(* memory service, whatever that refuses and how often, unless it has been *)
(* silent for the gateway's whole timeout while requests waited (flush,    *)
(* ServiceClient.request).                                                 *)
FlushIsBestEffort == [][Fails("session") => silence >= GatewayTimeout]_vars

(* "If it is unreachable, callers degrade gracefully" (memory_gateway.py): *)
(* refused connections, timeouts and retries cost the personalization      *)
(* service no failure, only a 5xx or a silence of the gateway's whole      *)
(* timeout does (the except clauses of HttpMemoryGateway).                 *)
UnreachableIsTolerated ==
  [][Fails("personalization") => memory = "failing" \/ silence >= GatewayTimeout]_vars

(* "One service melting down never takes the others with it" (README.md):  *)
(* the session service's circuit never opens, whatever the memory service  *)
(* does.  It does with the timeouts as they are shipped, the same for the  *)
(* gateway and for each of the ServiceClient's attempts behind it          *)
(* (http_timeout_seconds, flush, ServiceClient.request).                   *)
SessionIsolated == ~breakers["session"].opened
=============================================================================
