-------------------------- MODULE TokenBucketProofs ---------------------------
(***************************************************************************)
(* Proofs about TokenBucket, for any capacity, rate, amounts and bounds.   *)
(***************************************************************************)
EXTENDS TokenBucket, TLAPS

LEMMA TickProduct ==
  ASSUME NEW a \in Nat, NEW r \in Nat
  PROVE  /\ (a + 1) * r = a * r + r /\ a * r \in Nat /\ 0 * r = 0 /\ 1 * r = r
OBVIOUS

(* A refill never takes tokens away and never overfills the bucket.        *)
LEMMA RefilledBounds ==
  ASSUME BucketTypeOK
  PROVE  /\ Refilled \in 0..Capacity
         /\ elapsed = 0 => Refilled = tokens
<1>1. elapsed * RefillRate \in Nat /\ 0 * RefillRate = 0
  BY TickProduct, BucketAssumption DEF BucketTypeOK
<1>2. Capacity \in Nat /\ tokens \in 0..Capacity
  BY BucketAssumption DEF BucketTypeOK
<1> HIDE DEF BucketTypeOK
<1> QED BY <1>1, <1>2 DEF Refilled

LEMMA BucketTypeStep == BucketTypeOK /\ [BucketNext]_bucketVars => BucketTypeOK'
<1> SUFFICES ASSUME BucketTypeOK, [BucketNext]_bucketVars PROVE BucketTypeOK'
  OBVIOUS
<1>1. Refilled \in 0..Capacity /\ Capacity \in Nat
  BY RefilledBounds, BucketAssumption
<1>2. ASSUME NEW n \in Amounts, TryConsume(n) PROVE BucketTypeOK'
  <2>1. n \in Int /\ n > 0
    BY <1>2, BucketAssumption DEF TryConsume
  <2>2. tokens' \in 0..Capacity /\ granted' \in Nat
    BY <1>1, <1>2, <2>1 DEF TryConsume, BucketTypeOK
  <2> QED BY <1>2, <2>1, <2>2, BucketAssumption DEF TryConsume, BucketTypeOK, Reply
<1>3. ASSUME NEW n \in Amounts, TryConsumeThrows(n) PROVE BucketTypeOK'
  BY <1>3, BucketAssumption DEF TryConsumeThrows, BucketTypeOK, Reply
<1>4. CASE AvailableTokens
  BY <1>1, <1>4, BucketAssumption DEF AvailableTokens, BucketTypeOK, Reply
<1>5. CASE Tick
  BY <1>5, BucketAssumption DEF Tick, BucketTypeOK
<1>6. CASE WindowBegins
  BY <1>6, BucketAssumption DEF WindowBegins, BucketTypeOK
<1>7. CASE UNCHANGED bucketVars
  BY <1>7 DEF bucketVars, BucketTypeOK
<1> QED BY <1>2, <1>3, <1>4, <1>5, <1>6, <1>7 DEF BucketNext, Consume

(* How the level of the bucket moves with each step.                       *)
LEMMA LevelStep ==
  ASSUME BucketTypeOK, BucketNext
  PROVE  \/ /\ Tick
            /\ Refilled' = IF Refilled + RefillRate > Capacity THEN Capacity
                                                             ELSE Refilled + RefillRate
         \/ \E n \in Amounts : TryConsume(n) /\ Refilled >= n /\ Refilled' = Refilled - n
         \/ \E n \in Amounts : TryConsume(n) /\ Refilled < n /\ Refilled' = Refilled
         \/ (AvailableTokens \/ WindowBegins) /\ Refilled' = Refilled
         \/ \E n \in Amounts : TryConsumeThrows(n) /\ Refilled' = Refilled
<1> USE DEF BucketNext
<1>1. Refilled \in 0..Capacity /\ Capacity \in Nat /\ RefillRate \in Nat /\ tokens \in 0..Capacity
      /\ elapsed \in Nat
  BY RefilledBounds, BucketAssumption DEF BucketTypeOK
<1>2. (elapsed + 1) * RefillRate = elapsed * RefillRate + RefillRate
      /\ elapsed * RefillRate \in Nat /\ 0 * RefillRate = 0
  BY <1>1, TickProduct
<1>3. ASSUME elapsed' = 0, tokens' \in 0..Capacity PROVE Refilled' = tokens'
  <2>1. elapsed' * RefillRate = 0
    BY <1>2, <1>3
  <2>2. Refilled' = IF tokens' + 0 > Capacity THEN Capacity ELSE tokens' + 0
    BY <2>1 DEF Refilled
  <2>3. tokens' + 0 = tokens' /\ ~(tokens' + 0 > Capacity)
    <3>1. ASSUME NEW c \in Nat, NEW t \in 0..c PROVE t + 0 = t /\ ~(t + 0 > c)
      OBVIOUS
    <3> QED BY <1>1, <1>3, <3>1
  <2> QED BY <2>2, <2>3, Zenon
<1>4. CASE Tick
  <2>1. Refilled' = IF tokens + (elapsed + 1) * RefillRate > Capacity THEN Capacity
                    ELSE tokens + (elapsed + 1) * RefillRate
    BY <1>4 DEF Tick, Refilled
  <2>2. Refilled' = IF Refilled + RefillRate > Capacity THEN Capacity ELSE Refilled + RefillRate
    <3> DEFINE gain == elapsed * RefillRate
    <3>1. gain \in Nat
      BY <1>2
    <3>2. Refilled' = IF tokens + (gain + RefillRate) > Capacity THEN Capacity
                      ELSE tokens + (gain + RefillRate)
      BY <1>2, <2>1
    <3>3. Refilled = IF tokens + gain > Capacity THEN Capacity ELSE tokens + gain
      BY DEF Refilled
    <3> HIDE DEF gain
    <3> QED BY <1>1, <3>1, <3>2, <3>3
  <2> QED BY <1>4, <2>2
<1>5. ASSUME NEW n \in Amounts, TryConsume(n)
      PROVE  \/ Refilled >= n /\ Refilled' = Refilled - n
             \/ Refilled < n /\ Refilled' = Refilled
  <2>1. n \in Int /\ n > 0 /\ elapsed' = 0
    BY <1>5, BucketAssumption DEF TryConsume
  <2>2. CASE Refilled < n
    <3>1. tokens' = Refilled
      BY <1>5, <2>2 DEF TryConsume
    <3> QED BY <1>1, <1>3, <2>1, <2>2, <3>1
  <2>3. CASE ~(Refilled < n)
    <3>1. tokens' = Refilled - n
      BY <1>5, <2>3 DEF TryConsume
    <3>2. tokens' \in 0..Capacity /\ Refilled >= n
      BY <1>1, <2>1, <2>3, <3>1
    <3> QED BY <1>3, <2>1, <3>1, <3>2
  <2> QED BY <2>2, <2>3
<1>6. ASSUME NEW n \in Amounts, TryConsumeThrows(n) PROVE Refilled' = Refilled
  BY <1>6 DEF TryConsumeThrows, Refilled
<1>7. AvailableTokens => Refilled' = Refilled
  BY <1>1, <1>3 DEF AvailableTokens
<1>8. WindowBegins => Refilled' = Refilled
  BY DEF WindowBegins, Refilled
<1> QED BY <1>4, <1>5, <1>6, <1>7, <1>8 DEF Consume

-----------------------------------------------------------------------------
(***************************************************************************)
(* What the window granted and what the bucket still holds never exceed a  *)
(* full bucket and the refill of the window's ticks.                       *)
(***************************************************************************)
Conserved == granted + Refilled <= Capacity + age * RefillRate

BucketInv == BucketTypeOK /\ Conserved

LEMMA ConservedStep == BucketInv /\ [BucketNext]_bucketVars => Conserved'
<1> SUFFICES ASSUME BucketInv, [BucketNext]_bucketVars PROVE Conserved'
  OBVIOUS
<1>1. /\ Refilled \in 0..Capacity /\ Capacity \in Nat /\ RefillRate \in Nat
      /\ age \in Nat /\ granted \in Nat /\ Amounts \subseteq Int
  BY RefilledBounds, BucketAssumption DEF BucketInv, BucketTypeOK
<1>2. /\ (age + 1) * RefillRate = age * RefillRate + RefillRate
      /\ age * RefillRate \in Nat /\ 0 * RefillRate = 0 /\ 1 * RefillRate = RefillRate
  BY <1>1, TickProduct
<1>3. granted + Refilled <= Capacity + age * RefillRate
  BY DEF BucketInv, Conserved
<1>4. CASE UNCHANGED bucketVars
  BY <1>3, <1>4 DEF bucketVars, Conserved, Refilled
<1>5. ASSUME Tick, Refilled' = IF Refilled + RefillRate > Capacity THEN Capacity
                                                                ELSE Refilled + RefillRate
      PROVE  Conserved'
  <2>1. CASE age < MaxAge
    <3>1. age' = age + 1 /\ granted' = granted
      BY <1>5, <2>1 DEF Tick
    <3>2. Refilled' <= Refilled + RefillRate /\ Refilled' \in Nat
      BY <1>1, <1>5
    <3>3. age' * RefillRate = age * RefillRate + RefillRate
      BY <1>2, <3>1
    <3> DEFINE refill == age * RefillRate
    <3>4. refill \in Nat /\ granted + Refilled <= Capacity + refill
      BY <1>2, <1>3
    <3>5. ASSUME NEW g \in Nat, NEW old \in Nat, NEW new \in Nat, NEW c \in Nat,
                 NEW r \in Nat, NEW gain \in Nat, g + old <= c + r, new <= old + gain
          PROVE  g + new <= c + (r + gain)
      BY <3>5
    <3>6. granted + Refilled' <= Capacity + (refill + RefillRate)
      <4>1. Refilled \in Nat
        BY <1>1
      <4> QED BY <1>1, <3>2, <3>4, <3>5, <4>1, Zenon
    <3> QED BY <3>1, <3>3, <3>6 DEF Conserved
  <2>2. CASE ~(age < MaxAge)
    <3>1. age' = 1 /\ granted' = 0
      BY <1>5, <2>2 DEF Tick
    <3>2. Refilled' <= Capacity /\ Refilled' \in Nat
      BY <1>1, <1>5
    <3>3. 0 + Refilled' <= Capacity + RefillRate
      <4>1. ASSUME NEW new \in Nat, NEW c \in Nat, NEW gain \in Nat, new <= c
            PROVE  0 + new <= c + gain
        BY <4>1
      <4> QED BY <1>1, <3>2, <4>1, Zenon
    <3>4. age' * RefillRate = RefillRate
      BY <1>2, <3>1
    <3> QED BY <3>1, <3>3, <3>4 DEF Conserved
  <2> QED BY <2>1, <2>2
<1>6. ASSUME NEW n \in Amounts, TryConsume(n), Refilled >= n, Refilled' = Refilled - n
      PROVE  Conserved'
  <2>1. granted' = granted + n /\ age' = age /\ n \in Int
    BY <1>1, <1>6 DEF TryConsume
  <2> QED BY <1>1, <1>2, <1>3, <1>6, <2>1 DEF Conserved
<1>7. ASSUME NEW n \in Amounts, TryConsume(n), Refilled < n, Refilled' = Refilled
      PROVE  Conserved'
  <2>1. granted' = granted /\ age' = age
    BY <1>1, <1>7 DEF TryConsume
  <2> QED BY <1>3, <1>7, <2>1 DEF Conserved
<1>8. ASSUME WindowBegins, Refilled' = Refilled PROVE Conserved'
  BY <1>1, <1>2, <1>8 DEF WindowBegins, Conserved
<1>9. ASSUME AvailableTokens, Refilled' = Refilled PROVE Conserved'
  BY <1>3, <1>9 DEF AvailableTokens, Conserved
<1>10. ASSUME NEW n \in Amounts, TryConsumeThrows(n), Refilled' = Refilled PROVE Conserved'
  BY <1>3, <1>10 DEF TryConsumeThrows, Conserved
<1> QED BY <1>4, <1>5, <1>6, <1>7, <1>8, <1>9, <1>10, LevelStep DEF BucketInv

LEMMA BucketInit_ == BucketInit => BucketInv /\ Refilled = Capacity
<1> SUFFICES ASSUME BucketInit PROVE BucketInv /\ Refilled = Capacity
  OBVIOUS
<1>1. BucketTypeOK
  BY BucketAssumption DEF BucketInit, BucketTypeOK, Reply
<1>2. Refilled = Capacity /\ Capacity \in Nat
  BY <1>1, RefilledBounds, BucketAssumption DEF BucketInit
<1>3. age * RefillRate = 0
  BY TickProduct, BucketAssumption DEF BucketInit
<1> QED BY <1>1, <1>2, <1>3 DEF BucketInv, Conserved, BucketInit

LEMMA BucketInvariant == BucketSpec => []BucketInv
<1>1. BucketInv /\ [BucketNext]_bucketVars => BucketInv'
  BY BucketTypeStep, ConservedStep DEF BucketInv
<1> QED BY <1>1, BucketInit_, PTL DEF BucketSpec

(* The tokens stored after any sequence of refills and grants are a count  *)
(* between zero and the capacity: neither the refill of a long pause nor a *)
(* grant takes them out of that range.                                     *)
THEOREM BucketTypeCorrect == BucketSpec => []BucketTypeOK
<1>1. BucketInv => BucketTypeOK
  BY DEF BucketInv
<1> QED BY <1>1, BucketInvariant, PTL

(* The rate limit: callers of try_consume never get more than a full       *)
(* bucket plus the refill of the time that has passed.                     *)
THEOREM RateLimitedCorrect == BucketSpec => []RateLimited
<1>1. BucketInv => RateLimited
  <2> SUFFICES ASSUME BucketInv PROVE RateLimited
    OBVIOUS
  <2>1. Refilled \in Nat /\ granted \in Nat /\ age * RefillRate \in Nat /\ Capacity \in Nat
    BY RefilledBounds, TickProduct, BucketAssumption DEF BucketInv, BucketTypeOK
  <2> QED BY <2>1 DEF BucketInv, Conserved, RateLimited
<1> QED BY <1>1, BucketInvariant, PTL

-----------------------------------------------------------------------------
(* The lazily refilled bucket implements the one refilled at each tick.    *)
THEOREM ImplementsEagerCorrect == BucketSpec => ImplementsEager
<1>1. BucketInit => Eager!EagerInit
  BY BucketInit_ DEF BucketInit, Reply, Eager!EagerInit, Eager!NoReply
<1>2. BucketTypeOK /\ [BucketNext]_bucketVars => [Eager!EagerNext]_(Eager!eagerVars)
  <2> SUFFICES ASSUME BucketTypeOK, [BucketNext]_bucketVars
               PROVE  [Eager!EagerNext]_(Eager!eagerVars)
    OBVIOUS
  <2>1. CASE UNCHANGED bucketVars
    BY <2>1 DEF bucketVars, Eager!eagerVars, Refilled
  <2>2. ASSUME Tick, Refilled' = IF Refilled + RefillRate > Capacity THEN Capacity
                                                                  ELSE Refilled + RefillRate
        PROVE  Eager!ClockTicks
    BY <2>2 DEF Tick, Eager!ClockTicks
  <2>3. ASSUME NEW n \in Amounts, TryConsume(n), Refilled >= n, Refilled' = Refilled - n
        PROVE  Eager!Take(n)
    <3>1. n \in Int /\ Refilled \in Int /\ Refilled >= n
      BY <2>3, BucketAssumption, RefilledBounds
    <3>2. ~(Refilled < n)
      BY <3>1
    <3>3. n > 0 /\ reply' = Reply("consume", n, TRUE)
      BY <2>3, <3>2 DEF TryConsume
    <3> QED BY <2>3, <3>1, <3>3 DEF Reply, Eager!Take, Eager!Reply
  <2>4. ASSUME NEW n \in Amounts, TryConsume(n), Refilled < n, Refilled' = Refilled
        PROVE  Eager!Refuse(n)
    BY <2>4 DEF TryConsume, Reply, Eager!Refuse, Eager!Reply
  <2>5. ASSUME NEW n \in Amounts, TryConsumeThrows(n), Refilled' = Refilled
        PROVE  Eager!Invalid(n)
    BY <2>5 DEF TryConsumeThrows, Reply, Eager!Invalid, Eager!Reply
  <2>6. ASSUME AvailableTokens, Refilled' = Refilled PROVE Eager!Ask
    BY <2>6 DEF AvailableTokens, Reply, Eager!Ask, Eager!Reply
  <2>7. ASSUME WindowBegins, Refilled' = Refilled PROVE UNCHANGED Eager!eagerVars
    BY <2>7 DEF WindowBegins, Eager!eagerVars
  <2> QED BY <2>1, <2>2, <2>3, <2>4, <2>5, <2>6, <2>7, LevelStep DEF Eager!EagerNext
<1>3. BucketSpec => []BucketTypeOK
  BY BucketInvariant, PTL DEF BucketInv
<1> QED BY <1>1, <1>2, <1>3, PTL DEF BucketSpec, ImplementsEager, Eager!EagerSpec
=============================================================================
