---------------------------- MODULE RateLimiter ----------------------------
(***************************************************************************)
(* The gateway's per-user rate limiter: RateLimiter in                     *)
(* services/gateway/app/rate_limit.py.  One object per gateway process, so *)
(* every limit here is one per user and replica.                           *)
(* allow() runs without an await, so one call is one atomic step.          *)
(***************************************************************************)
EXTENDS TokenBucket

CONSTANTS
  UserIds,
  RetryTicks,  (* the Retry-After: 1 of a 429, in ticks                    *)
  MaxClock     (* bound: the clock stops here                              *)

ASSUME ClockAssumption == MaxClock \in Nat /\ RetryTicks \in Nat

VARIABLES
  clock,       (* the monotonic clock                                      *)
  buckets,     (* _buckets                                                 *)
  verdict,     (* what the last call of each user in this tick returned    *)
  since        (* history: since[k][s] requests allowed at time s or later *)

limiterVars == <<clock, buckets, verdict, since>>

Verdicts == {"none", "allowed", "refused"}

LimiterTypeOK ==
  /\ clock \in 0..MaxClock
  /\ buckets \in [UserIds -> [tokens : 0..Full, last : 0..clock]]
  /\ verdict \in [UserIds -> Verdicts]
  /\ since \in [UserIds -> [0..MaxClock -> Nat]]

LimiterInit ==
  /\ clock = 0
  /\ buckets = [k \in UserIds |-> NewBucket]
  /\ verdict = [k \in UserIds |-> "none"]
  /\ since = [k \in UserIds |-> [s \in 0..MaxClock |-> 0]]

(* allow(user_id) returns True.                                            *)
Allow(k) ==
  /\ HasToken(buckets[k], clock)
  /\ buckets' = [buckets EXCEPT ![k] = Take(@, clock)]
  /\ verdict' = [verdict EXCEPT ![k] = "allowed"]
  /\ since' = [since EXCEPT ![k] = [s \in 0..MaxClock |->
                                      IF s <= clock THEN since[k][s] + 1 ELSE since[k][s]]]
  /\ UNCHANGED clock

(* allow(user_id) returns False.                                           *)
Refuse(k) ==
  /\ ~HasToken(buckets[k], clock)
  /\ buckets' = [buckets EXCEPT ![k] = Reject(@, clock)]
  /\ verdict' = [verdict EXCEPT ![k] = "refused"]
  /\ UNCHANGED <<clock, since>>

ClockTick ==
  /\ clock < MaxClock
  /\ clock' = clock + 1
  /\ verdict' = [k \in UserIds |-> "none"]
  /\ UNCHANGED <<buckets, since>>

LimiterNext == (\E k \in UserIds : Allow(k) \/ Refuse(k)) \/ ClockTick

LimiterSpec == LimiterInit /\ [][LimiterNext]_limiterVars
-----------------------------------------------------------------------------
(* In no interval of time does a process let more requests of a user       *)
(* through than the burst plus what the rate allows for its length, and a  *)
(* refused request does not change that (the min() and the two writes of   *)
(* _buckets in allow).                                                     *)
WindowBound ==
  \A k \in UserIds : \A s \in 0..clock :
    Token * since[k][s] <= Full + Rate * (clock - s)

(* A user who was answered 429 and waits as long as Retry-After says is    *)
(* let in, if the configured rate makes a token in that time: no request   *)
(* allowed or refused before takes from what the wait brings (allow, and   *)
(* the Retry-After of proxy in main.py).                                   *)
RetryAfterSuffices ==
  Burst >= 1 /\ Rate * RetryTicks >= Token =>
    \A k \in UserIds :
      clock - buckets[k].last >= RetryTicks => HasToken(buckets[k], clock)

(* The buckets allow exactly the requests that a log of all the past ones  *)
(* would allow: they forget nothing that could matter (allow).             *)
Contract == INSTANCE SlidingLog
ImplementsSlidingLog == Contract!Spec
=============================================================================
