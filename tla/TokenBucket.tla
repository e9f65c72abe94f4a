---------------------------- MODULE TokenBucket ----------------------------
(***************************************************************************)
(* The arithmetic of one token bucket: RateLimiter.allow in                *)
(* services/gateway/app/rate_limit.py.  Tokens are floats in the code; to  *)
(* keep fractions of a token a bucket here counts units, Token of which    *)
(* make a token, and gains Rate units per tick of the clock.               *)
(***************************************************************************)
EXTENDS Naturals

CONSTANTS
  Burst,    (* RATE_LIMIT_BURST, the size of a bucket in tokens            *)
  Rate,     (* RATE_LIMIT_RPS, in units per tick                           *)
  Token     (* units in a token                                            *)

ASSUME BucketAssumption == Burst \in Nat /\ Rate \in Nat /\ Token \in Nat \ {0}

Full == Token * Burst

(* Faulty variants: the refill is not cut off at the size of the bucket;   *)
(* the last tick does not count yet.                                       *)
RefillWithoutCap(tokens, ticks) == tokens + ticks * Rate

RefillOneTickLate(tokens, ticks) ==
  IF ticks = 0 THEN tokens
  ELSE IF tokens + (ticks - 1) * Rate < Full THEN tokens + (ticks - 1) * Rate ELSE Full

(* What a bucket holds after some ticks without a request.                 *)
Refill(tokens, ticks) ==
  IF tokens + ticks * Rate < Full THEN tokens + ticks * Rate ELSE Full

(* A bucket is the units left and the time they were counted.  A user that *)
(* never called has no entry in _buckets, which reads as a full bucket.    *)
NewBucket == [tokens |-> Full, last |-> 0]

Available(bucket, now) == Refill(bucket.tokens, now - bucket.last)

(* Faulty variants: a refused request gives away what was refilled, or     *)
(* keeps it without noting when.                                           *)
RejectLosesRefill(bucket, now) == [tokens |-> bucket.tokens, last |-> now]

RejectKeepsTime(bucket, now) ==
  [tokens |-> Available(bucket, now), last |-> bucket.last]

HasToken(bucket, now) == Available(bucket, now) >= Token

(* The entry written by an allowed, and by a refused request.              *)
Take(bucket, now)   == [tokens |-> Available(bucket, now) - Token, last |-> now]
Reject(bucket, now) == [tokens |-> Available(bucket, now), last |-> now]
=============================================================================
