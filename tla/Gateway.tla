------------------------------ MODULE Gateway ------------------------------
(***************************************************************************)
(* One gateway process: proxy() in services/gateway/app/main.py, with the  *)
(* rate limiter shared by all requests and a circuit breaker for each      *)
(* upstream.  Everything proxy() does before it reads the client's body    *)
(* runs without an await and is one step here, an action for each way it   *)
(* can end; the checks come in the order of the code.                      *)
(***************************************************************************)
EXTENDS CircuitBreaker, RateLimiter

CONSTANTS
  Upstreams,    (* the services of ROUTE_TABLE                             *)
  Requests,     (* proxy() activations that can be in flight together      *)
  Empty,        (* the empty string, a user id like any other              *)
  None          (* no service; no subject; no header                       *)

ASSUME NamesAssumption ==
  Empty \in UserIds /\ None \notin UserIds /\ None \notin Upstreams

VARIABLES
  authenticator, (* whether there is one: JWT_SECRET or JWT_JWKS_URL is set *)
  breakers,    (* the circuit breaker of each upstream                     *)
  request,     (* what each activation of proxy() has in its locals        *)
  healthy,     (* whether each upstream answers without a 5xx              *)
  (* History, read only by the properties.                                 *)
  probe,       (* the activations a half-open circuit let in               *)
  streak,      (* as in GuardedUpstream, for each upstream                 *)
  sinceProbe,
  lost

history == <<probe, streak, sinceProbe, lost>>
vars    == <<limiterVars, authenticator, breakers, request, healthy, history>>

(* A request that has a route and comes with the API key, if there is one: *)
(* its upstream, the sub of its token, which may be empty, if there is an  *)
(* authenticator, its X-User-ID, if it has one, and the address it comes   *)
(* from.                                                                   *)
Inputs == [upstream : Upstreams,            sub  : UserIds \cup {None},
           xUserId  : UserIds \cup {None}, host : UserIds \ {Empty}]

(* A slot of Requests.                                                     *)
Slots       == [phase : {"idle", "body", "upstream"}, upstream : Upstreams \cup {None}]
Idle        == [phase |-> "idle", upstream |-> None]
InFlight(u) == [phase |-> "body", upstream |-> u]

TypeOK ==
  /\ LimiterTypeOK
  /\ authenticator \in BOOLEAN
  /\ breakers \in [Upstreams -> Breakers]
  /\ request \in [Requests -> Slots]
  /\ healthy \in [Upstreams -> BOOLEAN]
  /\ probe \in [Requests -> BOOLEAN]
  /\ streak \in [Upstreams -> 0..FailureThreshold]
  /\ sinceProbe \in [Upstreams -> 0..ResetTicks]
  /\ lost \in [Upstreams -> BOOLEAN]

Init ==
  /\ LimiterInit
  /\ authenticator \in BOOLEAN
  /\ breakers = [u \in Upstreams |-> NewBreaker]
  /\ request = [r \in Requests |-> Idle]
  /\ healthy = [u \in Upstreams |-> TRUE]
  /\ probe = [r \in Requests |-> FALSE]
  /\ streak = [u \in Upstreams |-> 0]
  /\ sinceProbe = [u \in Upstreams |-> ResetTicks]
  /\ lost = [u \in Upstreams |-> FALSE]
-----------------------------------------------------------------------------
(* Whom the limiter charges: the subject, unless there is none or it is    *)
(* empty; then the X-User-ID, also an empty one, or the client's address.  *)
UserId(q) ==
  IF q.sub \notin {None, Empty} THEN q.sub
  ELSE IF q.xUserId # None THEN q.xUserId ELSE q.host

(* Faulty variant: the client's X-User-ID goes through beside a token.     *)
ForwardedUserIdOfClient(q) == q.xUserId

(* The X-User-ID the upstream is sent: the subject, also an empty one, or  *)
(* without authentication the client's own, if it has sent one.            *)
ForwardedUserId(q) == IF q.sub # None THEN q.sub ELSE q.xUserId

(* 404 without a route, 401 without the API key or a valid token: nothing  *)
(* is charged or changed.                                                  *)
TurnAway(r) == request[r].phase = "idle" /\ UNCHANGED vars

Authenticated(q) == authenticator <=> q.sub # None

Receives(r, q) == request[r].phase = "idle" /\ Authenticated(q)

(* 429.                                                                    *)
RateLimited(r, q) ==
  /\ Receives(r, q)
  /\ Refuse(UserId(q))
  /\ UNCHANGED <<authenticator, breakers, request, healthy, history>>

(* 503; the token is spent.                                                *)
FailFast(r, q) ==
  /\ Receives(r, q)
  /\ Allow(UserId(q))
  /\ ~Admits(breakers[q.upstream])
  /\ UNCHANGED <<authenticator, breakers, request, healthy, history>>

Accept(r, q) ==
  LET halfOpen == CircuitState(breakers[q.upstream]) = "half_open" IN
  /\ Receives(r, q)
  /\ Allow(UserId(q))
  /\ Admits(breakers[q.upstream])
  /\ breakers' = [breakers EXCEPT ![q.upstream] = BeforeRequest(@)]
  /\ request' = [request EXCEPT ![r] = InFlight(q.upstream)]
  /\ probe' = [probe EXCEPT ![r] = halfOpen]
  /\ sinceProbe' = [sinceProbe EXCEPT ![q.upstream] = IF halfOpen THEN 0 ELSE @]
  /\ UNCHANGED <<authenticator, healthy, streak, lost>>
-----------------------------------------------------------------------------
(* The client's body is complete and the request goes to the upstream.     *)
Forward(r) ==
  /\ request[r].phase = "body"
  /\ request' = [request EXCEPT ![r].phase = "upstream"]
  /\ UNCHANGED <<limiterVars, authenticator, breakers, healthy, history>>

Finish(r) ==
  /\ request' = [request EXCEPT ![r] = Idle]
  /\ probe' = [probe EXCEPT ![r] = FALSE]
  /\ UNCHANGED <<limiterVars, authenticator, healthy>>

(* An exception other than httpx.HTTPError; the framework answers 500.     *)
Abort(r) ==
  LET u == request[r].upstream IN
  /\ request[r].phase = "body"
  /\ lost' = [lost EXCEPT ![u] = @ \/ (probe[r] /\ breakers[u].probing)]
  /\ UNCHANGED <<breakers, streak, sinceProbe>>
  /\ Finish(r)

(* The upstream answers with a status below 500.                           *)
Succeed(r) ==
  LET u == request[r].upstream IN
  /\ request[r].phase = "upstream"
  /\ healthy[u]
  /\ breakers' = [breakers EXCEPT ![u] = RecordSuccess(@)]
  /\ streak' = [streak EXCEPT ![u] = 0]
  /\ sinceProbe' = [sinceProbe EXCEPT ![u] = ResetTicks]
  /\ lost' = [lost EXCEPT ![u] = FALSE]
  /\ Finish(r)

(* Faulty variant: the failure is booked on every circuit.                 *)
FailEverywhere(r) ==
  LET u == request[r].upstream IN
  /\ request[r].phase = "upstream"
  /\ ~healthy[u]
  /\ breakers' = [b \in Upstreams |-> RecordFailure(breakers[b])]
  /\ streak' = [streak EXCEPT ![u] = IF @ < FailureThreshold THEN @ + 1 ELSE @]
  /\ lost' = [lost EXCEPT ![u] = FALSE]
  /\ UNCHANGED sinceProbe
  /\ Finish(r)

(* A 5xx of the upstream is passed on; a refused connection or the timeout *)
(* of a call that gets no answer becomes a 502.                            *)
Fail(r) ==
  LET u == request[r].upstream IN
  /\ request[r].phase = "upstream"
  /\ ~healthy[u]
  /\ breakers' = [breakers EXCEPT ![u] = RecordFailure(@)]
  /\ streak' = [streak EXCEPT ![u] = IF @ < FailureThreshold THEN @ + 1 ELSE @]
  /\ lost' = [lost EXCEPT ![u] = FALSE]
  /\ UNCHANGED sinceProbe
  /\ Finish(r)

Tick ==
  /\ ClockTick
  /\ breakers' = [u \in Upstreams |-> Elapse(breakers[u])]
  /\ sinceProbe' = [u \in Upstreams |->
                      IF sinceProbe[u] < ResetTicks THEN sinceProbe[u] + 1 ELSE sinceProbe[u]]
  /\ UNCHANGED <<authenticator, request, healthy, probe, streak, lost>>

HealthChange(u) ==
  /\ healthy' = [healthy EXCEPT ![u] = ~@]
  /\ UNCHANGED <<limiterVars, authenticator, breakers, request, history>>

Receive(r, q) == RateLimited(r, q) \/ FailFast(r, q) \/ Accept(r, q)

Next ==
  \/ \E r \in Requests, q \in Inputs : Receive(r, q)
  \/ \E r \in Requests : TurnAway(r) \/ Forward(r) \/ Abort(r) \/ Succeed(r) \/ Fail(r)
  \/ \E u \in Upstreams : HealthChange(u)
  \/ Tick

Spec == Init /\ [][Next]_vars
-----------------------------------------------------------------------------
(* Seen from one upstream, the gateway is a circuit breaker that hears of  *)
(* that upstream's requests and of nothing else: the limiter in front of   *)
(* it, refusals and the traffic of other upstreams do not disturb it       *)
(* (breakers[upstream] in proxy).                                          *)
Guarded(u) == INSTANCE GuardedUpstream WITH
  breaker    <- breakers[u],
  phase      <- [r \in Requests |->
                   IF request[r].upstream = u THEN request[r].phase ELSE "idle"],
  healthy    <- healthy[u],
  probe      <- [r \in Requests |-> probe[r] /\ request[r].upstream = u],
  streak     <- streak[u],
  sinceProbe <- sinceProbe[u],
  lost       <- lost[u]

ImplementsBreakers ==
  /\ \A u \in Upstreams : Guarded(u)!Init
  /\ [][\A u \in Upstreams : [Guarded(u)!Next]_(Guarded(u)!vars)]_vars

(* With authentication on the upstream is told the token's subject, which  *)
(* "overrides the X-User-ID header" (auth.py); and on or off, a user whom  *)
(* it is told by name is the one who has paid.  The two identities are     *)
(* found in two places, which differ for an empty subject and where no     *)
(* X-User-ID came (user_id and the rewritten headers in proxy).            *)
NamedUserPays ==
  \A q \in Inputs : Authenticated(q) =>
    /\ authenticator => ForwardedUserId(q) = q.sub
    /\ ForwardedUserId(q) \notin {None, Empty} => UserId(q) = ForwardedUserId(q)
=============================================================================
