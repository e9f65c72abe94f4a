------------------------------- MODULE Health -------------------------------
(***************************************************************************)
(* Health checks: healthz() of one gateway replica                         *)
(* (services/gateway/app/main.py), which asks the healthz() of every       *)
(* service (shared/convmem_shared/health.py), and the readiness and        *)
(* liveness probes that the chart points at it                             *)
(* (helm/conv-memory/templates/deployments.yaml).  Each Tick is one period *)
(* of the readiness probe.  Replicas share nothing but the services.       *)
(***************************************************************************)
EXTENDS Naturals

CONSTANTS
  Services,         (* how many: the clients are asked in the order 1, 2,..*)
  Dependencies,     (* what a service checks: Postgres, Redis              *)
  FailureThreshold, (* failed probes in a row before the kubelet acts      *)
  LivenessPeriod    (* ticks between liveness probes                       *)

ASSUME HealthAssumption ==
  /\ Services \in Nat \ {0}
  /\ FailureThreshold \in Nat \ {0}
  /\ LivenessPeriod \in Nat \ {0}

VARIABLES
  process,   (* of each service: "up", "down" or "silent"                  *)
  broken,    (* the dependencies whose check fails, for each service       *)
  open,      (* the services whose circuit is open                         *)
  asking,    (* for each probe, the service healthz() awaits; 0: no probe  *)
  healthy,   (* the variable healthy of that healthz()                     *)
  due,       (* probes the kubelet is about to send                        *)
  clock,     (* ticks since the last liveness probe fell due               *)
  failures,  (* failed probes in a row                                     *)
  ready,     (* whether the replica gets requests                          *)
  (* History, read only by the properties: the services that were ok, and  *)
  (* those that were not, at some time during the present probe.           *)
  wasOk, wasNot

history == <<wasOk, wasNot>>
vars == <<process, broken, open, asking, healthy, due, clock, failures, ready,
          history>>
world == <<process, broken, open>>

Upstreams == 1..Services
Probes    == {"readiness", "liveness"}

TypeOK ==
  /\ process \in [Upstreams -> {"up", "down", "silent"}]
  /\ broken \in [Upstreams -> SUBSET Dependencies]
  /\ open \subseteq Upstreams
  /\ asking \in [Probes -> 0..Services]
  /\ healthy \in [Probes -> BOOLEAN]
  /\ due \subseteq {k \in Probes : asking[k] = 0}
  /\ clock \in 0..LivenessPeriod - 1
  /\ failures \in [Probes -> 0..FailureThreshold]
  /\ ready \in BOOLEAN /\ (ready => failures["readiness"] < FailureThreshold)
  /\ wasOk \in [Probes -> SUBSET Upstreams]
  /\ wasNot \in [Probes -> SUBSET Upstreams]

(* healthz() of a service: 200 in any case, the status says the rest.      *)
Degraded(u) == broken[u] # {}
StatusOk(u) == process[u] = "up" /\ ~Degraded(u)

(* A rollout that has gone well.                                           *)
Init ==
  /\ process = [u \in Upstreams |-> "up"]
  /\ broken = [u \in Upstreams |-> {}]
  /\ open = {}
  /\ asking = [k \in Probes |-> 0]
  /\ healthy = [k \in Probes |-> TRUE]
  /\ due = {} /\ clock = 0
  /\ failures = [k \in Probes |-> 0]
  /\ ready = TRUE
  /\ wasOk = [k \in Probes |-> {}] /\ wasNot = [k \in Probes |-> {}]
-----------------------------------------------------------------------------
(* What happens to the services, and to their circuits by the requests of  *)
(* clients; healthz() shows the circuits and counts none of its calls.     *)
Observe ==
  LET ok == {u \in Upstreams : StatusOk(u)'}
      running(k) == asking[k] # 0
  IN  /\ wasOk'  = [k \in Probes |-> IF running(k) THEN wasOk[k] \cup ok ELSE {}]
      /\ wasNot' = [k \in Probes |->
                      IF running(k) THEN wasNot[k] \cup (Upstreams \ ok) ELSE {}]

ProcessChanges(u) ==
  /\ \E p \in {"up", "down", "silent"} : process' = [process EXCEPT ![u] = p]
  /\ UNCHANGED <<broken, open, asking, healthy, due, clock, failures, ready>>
  /\ Observe

DependencyChanges(u) ==
  /\ \E ds \in SUBSET Dependencies : broken' = [broken EXCEPT ![u] = ds]
  /\ UNCHANGED <<process, open, asking, healthy, due, clock, failures, ready>>
  /\ Observe

CircuitChanges(u) ==
  /\ open' = IF u \in open THEN open \ {u} ELSE open \cup {u}
  /\ UNCHANGED <<process, broken, asking, healthy, due, clock, failures, ready,
                 history>>
-----------------------------------------------------------------------------
(* Faulty variant: the outcome of the last healthz() is still there.       *)
BeginWithLast(k) ==
  /\ asking' = [asking EXCEPT ![k] = 1]
  /\ UNCHANGED healthy

Begin(k) ==
  /\ asking' = [asking EXCEPT ![k] = 1]
  /\ healthy' = [healthy EXCEPT ![k] = TRUE]

(* The kubelet sends the probe, healthz() calls the first service.         *)
Send(k) ==
  /\ k \in due /\ due' = due \ {k}
  /\ Begin(k)
  /\ wasOk'  = [wasOk  EXCEPT ![k] = {u \in Upstreams : StatusOk(u)}]
  /\ wasNot' = [wasNot EXCEPT ![k] = {u \in Upstreams : ~StatusOk(u)}]
  /\ UNCHANGED <<world, clock, failures, ready>>

(* Faulty variants: a circuit that is open counts as a service that is     *)
(* down; only the service asked last counts.                               *)
OpenIsUnhealthy(k) == healthy[k] /\ StatusOk(asking[k]) /\ asking[k] \notin open
LastOnly(k)        == StatusOk(asking[k])

(* Any exception, 5xx without JSON or status but "ok" makes it unhealthy.  *)
StillHealthy(k) == healthy[k] /\ StatusOk(asking[k])

(* A service answers or refuses the connection, and the next one is asked. *)
AskNext(k) ==
  /\ asking[k] \in 1..Services - 1 /\ process[asking[k]] # "silent"
  /\ asking' = [asking EXCEPT ![k] = @ + 1]
  /\ healthy' = [healthy EXCEPT ![k] = StillHealthy(k)]
  /\ UNCHANGED <<world, due, clock, failures, ready, history>>

Done(k) ==
  /\ asking' = [asking EXCEPT ![k] = 0]
  /\ healthy' = [healthy EXCEPT ![k] = StillHealthy(k)]
  /\ wasOk' = [wasOk EXCEPT ![k] = {}] /\ wasNot' = [wasNot EXCEPT ![k] = {}]

(* The kubelet counts; after FailureThreshold failures in a row of the     *)
(* readiness probe the replica gets no more requests.                      *)
CountFailure(k) ==
  /\ failures' = [failures EXCEPT ![k] = IF @ = FailureThreshold THEN @ ELSE @ + 1]
  /\ ready' = (ready /\ failures'["readiness"] < FailureThreshold)
  /\ Done(k)
  /\ UNCHANGED <<world, due, clock>>

Answered(k) == asking[k] = Services /\ process[asking[k]] # "silent"

Succeed(k) ==
  /\ Answered(k) /\ StillHealthy(k)
  /\ failures' = [failures EXCEPT ![k] = 0]
  /\ ready' = (ready \/ k = "readiness")
  /\ Done(k)
  /\ UNCHANGED <<world, due, clock>>

Fail503(k) == Answered(k) /\ ~StillHealthy(k) /\ CountFailure(k)

(* The kubelet waits for a second; healthz() for http_timeout_seconds.     *)
TimeOut(k) ==
  /\ asking[k] # 0 /\ process[asking[k]] = "silent"
  /\ CountFailure(k)

(* After as many liveness probes it is restarted: a new process, without   *)
(* the circuits of the old one and not ready yet.                          *)
MustRestart == failures["liveness"] = FailureThreshold

Restart ==
  /\ MustRestart
  /\ asking' = [k \in Probes |-> 0] /\ healthy' = [k \in Probes |-> TRUE]
  /\ wasOk' = [k \in Probes |-> {}] /\ wasNot' = [k \in Probes |-> {}]
  /\ due' = {} /\ clock' = 0
  /\ failures' = [k \in Probes |-> 0]
  /\ ready' = FALSE /\ open' = {}
  /\ UNCHANGED <<process, broken>>

Tick ==
  /\ due = {} /\ ~MustRestart /\ \A k \in Probes : asking[k] = 0
  /\ clock' = (clock + 1) % LivenessPeriod
  /\ due' = IF clock' = 0 THEN Probes ELSE {"readiness"}
  /\ UNCHANGED <<world, asking, healthy, failures, ready, history>>

Probing(k) == Send(k) \/ AskNext(k) \/ Succeed(k) \/ Fail503(k) \/ TimeOut(k)

Next ==
  \/ Tick \/ Restart
  \/ \E k \in Probes : Probing(k)
  \/ \E u \in Upstreams :
       ProcessChanges(u) \/ DependencyChanges(u) \/ CircuitChanges(u)

Spec == Init /\ [][Next]_vars

(* The kubelet keeps probing, gives every probe a second, and restarts.    *)
Fairness ==
  /\ WF_vars(Tick) /\ WF_vars(Restart)
  /\ \A k \in Probes : WF_vars(Probing(k))

FairSpec == Spec /\ Fairness
-----------------------------------------------------------------------------
(* A probe is held against the gateway only if some service was not ok     *)
(* while it ran, whatever circuits are open: while all services are ok     *)
(* nothing takes the replica out of rotation or restarts it (healthz).     *)
FailuresAreGrounded ==
  [][\A k \in Probes : failures'[k] > failures[k] => wasNot[k] # {}]_vars

(* The services are asked one after the other, so that they need not have  *)
(* been ok at the same time; but each was at some time during a probe that *)
(* succeeds (healthz).                                                     *)
SuccessesAreGrounded ==
  [][\A k \in Probes : asking[k] # 0 /\ asking'[k] = 0 /\ failures'[k] = 0
       => wasOk[k] = Upstreams \/ MustRestart]_vars

(* Once all services are ok for good the replica gets requests for good,   *)
(* restarts and open circuits notwithstanding (healthz, deployments.yaml). *)
ReadyAgain == <>[](\A u \in Upstreams : StatusOk(u)) => <>[]ready

(* "One service melting down never takes the others with it" (README.md):  *)
(* a replica that some service never fails keeps its requests.             *)
MeltdownIsContained ==
  \A u \in Upstreams : [](StatusOk(u)) => []ready
=============================================================================
