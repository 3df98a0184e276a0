------------------------------ MODULE EagerBucket -----------------------------
(***************************************************************************)
(* What a token bucket promises: a level that rises by RefillRate at each  *)
(* tick of the clock, up to Capacity, and requests that take from it at    *)
(* once or not at all.  There is no time of the last refill and nothing is *)
(* put off.                                                                *)
(***************************************************************************)
EXTENDS Integers

CONSTANTS Capacity, RefillRate, Amounts

VARIABLES level, reply

eagerVars == <<level, reply>>

NoReply == [call |-> "none", tokens |-> 0, granted |-> FALSE]
Reply(call, tokens, granted) == [call |-> call, tokens |-> tokens, granted |-> granted]

EagerInit == level = Capacity /\ reply = NoReply

ClockTicks ==
  /\ level' = IF level + RefillRate > Capacity THEN Capacity ELSE level + RefillRate
  /\ UNCHANGED reply

Take(n) == n > 0 /\ level >= n /\ level' = level - n /\ reply' = Reply("consume", n, TRUE)

Refuse(n) == n > 0 /\ level < n /\ reply' = Reply("consume", n, FALSE) /\ UNCHANGED level

Invalid(n) == n <= 0 /\ reply' = Reply("throws", n, FALSE) /\ UNCHANGED level

Ask == reply' = Reply("available", level, FALSE) /\ UNCHANGED level

EagerNext ==
  ClockTicks \/ Ask \/ \E n \in Amounts : Take(n) \/ Refuse(n) \/ Invalid(n)

EagerSpec == EagerInit /\ [][EagerNext]_eagerVars
=============================================================================
