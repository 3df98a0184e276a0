------------------------------ MODULE TokenBucket -----------------------------
(***************************************************************************)
(* The token bucket (controller/src/token_bucket.cpp).  It has no timer:   *)
(* each call, under the mutex, first adds what the time since the previous *)
(* refill is worth.                                                        *)
(*                                                                         *)
(* Time is counted in ticks and tokens in units of which a tick yields a   *)
(* whole number; the rounding of double is left out.  Only the distance of *)
(* the clock from last_refill_ matters, so that is the state.  A history   *)
(* window that may begin at any moment counts what it grants.              *)
(***************************************************************************)
EXTENDS Integers

CONSTANTS
  Capacity, RefillRate,
  Amounts,              \* what callers ask for, valid or not
  MaxElapsed, MaxAge    \* bounds: ticks without a call, ticks of a window

(* What the constructor checks.                                            *)
ASSUME BucketAssumption ==
  /\ Capacity \in Nat \ {0} /\ RefillRate \in Nat \ {0}
  /\ Amounts \subseteq Int
  /\ MaxElapsed \in Nat \ {0} /\ MaxAge \in Nat \ {0}

VARIABLES
  tokens,     \* tokens_
  elapsed,    \* Clock::now() - last_refill_
  reply,      \* what the last call returned
  age,        \* history: ticks since the window began
  granted     \* history: tokens granted in the window

bucketVars == <<tokens, elapsed, reply, age, granted>>

Reply(call, n, ok) == [call |-> call, tokens |-> n, granted |-> ok]

BucketInit ==
  /\ tokens = Capacity /\ elapsed = 0
  /\ reply = Reply("none", 0, FALSE)
  /\ age = 0 /\ granted = 0

-----------------------------------------------------------------------------
(* Mutant of Refilled: no upper limit.                                     *)
RefilledUncapped == tokens + elapsed * RefillRate

(* The tokens that refill_unlocked leaves; with elapsed = 0 it returns     *)
(* early, which leaves tokens_ as it is.                                   *)
Refilled ==
  IF tokens + elapsed * RefillRate > Capacity THEN Capacity
                                              ELSE tokens + elapsed * RefillRate

(* Mutant of TryConsume: a refused call stores the time and not the refill.*)
TryConsumeForgets(n) ==
  /\ n > 0
  /\ elapsed' = 0
  /\ tokens' = IF Refilled < n THEN tokens ELSE Refilled - n
  /\ granted' = IF Refilled < n THEN granted ELSE granted + n
  /\ reply' = Reply("consume", n, ~(Refilled < n))
  /\ UNCHANGED age

(* try_consume of n tokens.                                                *)
TryConsume(n) ==
  /\ n > 0
  /\ elapsed' = 0
  /\ tokens' = IF Refilled < n THEN Refilled ELSE Refilled - n
  /\ granted' = IF Refilled < n THEN granted ELSE granted + n
  /\ reply' = Reply("consume", n, ~(Refilled < n))
  /\ UNCHANGED age

(* try_consume of an amount that is not positive.                          *)
TryConsumeThrows(n) ==
  /\ n <= 0
  /\ reply' = Reply("throws", n, FALSE)
  /\ UNCHANGED <<tokens, elapsed, age, granted>>

AvailableTokens ==
  /\ tokens' = Refilled /\ elapsed' = 0
  /\ reply' = Reply("available", Refilled, FALSE)
  /\ UNCHANGED <<age, granted>>

(* The steady clock moves on.  A window that has reached its bound makes   *)
(* way for one that begins with this tick.                                 *)
Tick ==
  /\ elapsed < MaxElapsed
  /\ elapsed' = elapsed + 1
  /\ age' = IF age < MaxAge THEN age + 1 ELSE 1
  /\ granted' = IF age < MaxAge THEN granted ELSE 0
  /\ UNCHANGED <<tokens, reply>>

(* History: a window begins.                                               *)
WindowBegins ==
  /\ age' = 0 /\ granted' = 0
  /\ UNCHANGED <<tokens, elapsed, reply>>

Consume == \E n \in Amounts : TryConsume(n)

BucketNext ==
  Consume \/ AvailableTokens \/ Tick \/ WindowBegins \/ \E n \in Amounts : TryConsumeThrows(n)

BucketSpec == BucketInit /\ [][BucketNext]_bucketVars

(* Time passes, and callers keep asking.                                   *)
FairBucketSpec == BucketSpec /\ WF_bucketVars(Tick) /\ WF_bucketVars(Consume)

-----------------------------------------------------------------------------
BucketTypeOK ==
  /\ tokens \in 0..Capacity
  /\ elapsed \in 0..MaxElapsed
  /\ reply \in [call : {"none", "consume", "throws", "available"}, tokens : Int,
                granted : BOOLEAN]
  /\ age \in 0..MaxAge
  /\ granted \in Nat

(***************************************************************************)
(* The rate limit: in a window of any length, wherever it begins, callers  *)
(* get at most a full bucket and what the window's ticks refill, however   *)
(* try_consume, available_tokens and the clock interleave.                 *)
(***************************************************************************)
RateLimited == granted <= Capacity + age * RefillRate

(***************************************************************************)
(* Refilling late is not observable: try_consume and available_tokens      *)
(* answer as a bucket would that is refilled at each tick.                 *)
(***************************************************************************)
Eager == INSTANCE EagerBucket WITH level <- Refilled
ImplementsEager == Eager!EagerSpec

(***************************************************************************)
(* A caller that keeps asking for an amount within the capacity, with no   *)
(* other caller left, is served again and again.                           *)
(***************************************************************************)
Served ==
  \A n \in Amounts : n \in 1..Capacity =>
    (<>[](reply.call = "consume" /\ reply.tokens = n) => []<>(reply.granted))
=============================================================================
