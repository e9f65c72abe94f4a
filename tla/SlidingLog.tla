----------------------------- MODULE SlidingLog -----------------------------
(***************************************************************************)
(* What a rate limiter promises, without buckets: it remembers when it     *)
(* allowed which request, and allows another one exactly if no window that *)
(* ends now would then hold more than a burst plus the rate times its      *)
(* length.                                                                 *)
(***************************************************************************)
EXTENDS Naturals

CONSTANTS UserIds, Burst, Rate, Token, MaxClock

VARIABLES
  clock,     (* the time                                                   *)
  since,     (* since[k][s]: requests of k allowed at time s or later      *)
  verdict    (* the last answer given to each in this tick, so that an     *)
             (* answer like the one before it in another tick is seen      *)

vars == <<clock, since, verdict>>

Fits(k) ==
  \A s \in 0..clock : Token * (since[k][s] + 1) <= Token * Burst + Rate * (clock - s)

Init ==
  /\ clock = 0
  /\ since = [k \in UserIds |-> [s \in 0..MaxClock |-> 0]]
  /\ verdict = [k \in UserIds |-> "none"]

Log(k) ==
  since' = [since EXCEPT ![k] = [s \in 0..MaxClock |->
                                   IF s <= clock THEN since[k][s] + 1 ELSE since[k][s]]]

Grant(k) ==
  /\ Fits(k)
  /\ Log(k)
  /\ verdict' = [verdict EXCEPT ![k] = "allowed"]
  /\ UNCHANGED clock

Refuse(k) ==
  /\ ~Fits(k)
  /\ verdict' = [verdict EXCEPT ![k] = "refused"]
  /\ UNCHANGED <<clock, since>>

(* MaxClock bounds the behaviours.                                         *)
Tick ==
  /\ clock < MaxClock
  /\ clock' = clock + 1
  /\ verdict' = [k \in UserIds |-> "none"]
  /\ UNCHANGED since

Next == (\E k \in UserIds : Grant(k) \/ Refuse(k)) \/ Tick

Spec == Init /\ [][Next]_vars
=============================================================================
