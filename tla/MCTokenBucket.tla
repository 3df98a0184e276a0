---------------------------- MODULE MCTokenBucket -----------------------------
(* TokenBucket with amounts at its edges: zero, one, the capacity, beyond.   *)
EXTENDS TokenBucket
MCAmounts == {0, 1, 3, Capacity, Capacity + 1}
=============================================================================
