--------------------------- MODULE CircuitBreaker ---------------------------
(***************************************************************************)
(* The gateway's per-upstream circuit breaker as functions on its state:   *)
(* CircuitBreaker in services/gateway/app/circuit_breaker.py.              *)
(*                                                                         *)
(* The object's _opened_at is a clock reading or None.  A breaker here     *)
(* holds whether it is set (opened) and the time since (elapsed), which    *)
(* the code only ever compares with reset_seconds: it is cut off there.    *)
(* Every method runs without an await, so one function is one atomic step. *)
(***************************************************************************)
EXTENDS Naturals

CONSTANTS
  FailureThreshold,   (* CIRCUIT_FAILURE_THRESHOLD                         *)
  ResetTicks          (* CIRCUIT_RESET_SECONDS, in ticks of the clock      *)

ASSUME ThresholdAssumption == FailureThreshold \in Nat \ {0}
ASSUME ResetAssumption     == ResetTicks \in Nat

Breakers == [failures : 0..FailureThreshold, opened  : BOOLEAN,
             elapsed  : 0..ResetTicks,       probing : BOOLEAN]

NewBreaker == [failures |-> 0, opened |-> FALSE, elapsed |-> 0, probing |-> FALSE]

(* One tick of the monotonic clock, as this breaker sees it.               *)
Elapse(b) ==
  IF b.opened /\ b.elapsed < ResetTicks THEN [b EXCEPT !.elapsed = @ + 1] ELSE b

(* The state property: half-open is not stored, it is read off the clock.  *)
CircuitState(b) ==
  IF ~b.opened THEN "closed"
  ELSE IF b.elapsed >= ResetTicks THEN "half_open" ELSE "open"

(* before_request either raises CircuitOpenError, or returns having taken  *)
(* the probe slot when the circuit is half-open.                           *)
Admits(b) ==
  \/ CircuitState(b) = "closed"
  \/ CircuitState(b) = "half_open" /\ ~b.probing

BeforeRequest(b) ==
  IF CircuitState(b) = "half_open" THEN [b EXCEPT !.probing = TRUE] ELSE b

(* Faulty variant: a success closes the circuit but keeps the count.       *)
RecordSuccessKeepsCount(b) == [NewBreaker EXCEPT !.failures = b.failures]

RecordSuccess(b) == NewBreaker

(* Faulty variants: the probe slot is not given back; the cooldown is not  *)
(* restarted.                                                              *)
RecordFailureKeepsSlot(b) ==
  IF b.opened
  THEN [b EXCEPT !.elapsed = 0]
  ELSE [b EXCEPT !.failures = @ + 1, !.opened = b.failures + 1 >= FailureThreshold]

RecordFailureKeepsCooldown(b) ==
  IF b.opened
  THEN [b EXCEPT !.probing = FALSE]
  ELSE [b EXCEPT !.failures = @ + 1, !.opened = b.failures + 1 >= FailureThreshold]

(* A failure on an open circuit is taken for a failed probe and restarts   *)
(* the cooldown; on a closed one it is counted, and may open the circuit.  *)
RecordFailure(b) ==
  IF b.opened
  THEN [b EXCEPT !.elapsed = 0, !.probing = FALSE]
  ELSE [failures |-> b.failures + 1, opened  |-> b.failures + 1 >= FailureThreshold,
        elapsed  |-> 0,              probing |-> FALSE]
=============================================================================
