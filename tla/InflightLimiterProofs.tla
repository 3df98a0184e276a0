------------------------ MODULE InflightLimiterProofs ------------------------
(***************************************************************************)
(* Proofs about InflightLimiter, for every number of callers and every     *)
(* value of the two limits.                                                *)
(***************************************************************************)
EXTENDS InflightLimiter, FiniteSetTheorems, TLAPS

(* What the counts mean: the four parts together are inductive.            *)
LimiterInv == LimiterTypeOK /\ SlotsExact /\ QueueBounded /\ ClosedEmpty

(* Sets of callers are finite, so their cardinality is a natural number,   *)
(* and it follows the permits one by one.                                  *)
LEMMA PermitCount ==
  ASSUME NEW P \in SUBSET Sessions, NEW s \in Sessions
  PROVE  /\ Cardinality(P) \in Nat
         /\ s \notin P => Cardinality(P \union {s}) = Cardinality(P) + 1
         /\ s \in P => Cardinality(P \ {s}) = Cardinality(P) - 1
         /\ s \in P => Cardinality(P) # 0
<1>1. IsFiniteSet(P)
  BY LimiterAssumption, FS_Subset
<1>2. Cardinality(P) \in Nat
  BY <1>1, FS_CardinalityType
<1>3. s \notin P => Cardinality(P \union {s}) = Cardinality(P) + 1
  BY <1>1, FS_AddElement
<1>4. s \in P => Cardinality(P \ {s}) = Cardinality(P) - 1
  BY <1>1, FS_RemoveElement
<1>5. s \in P => Cardinality(P) # 0
  BY <1>1, FS_EmptySet
<1> QED
  BY <1>2, <1>3, <1>4, <1>5

(* try_acquire_or_queue keeps the counts, for a caller without a permit.   *)
LEMMA AcquireKeepsCounts ==
  ASSUME LimiterInv, NEW s \in Sessions, s \notin permits,
         NEW d \in InflightDecision, TryAcquireOrQueue(s, d)
  PROVE  LimiterInv'
<1> USE LimiterAssumption
    DEF LimiterInv, LimiterTypeOK, SlotsExact, QueueBounded, ClosedEmpty
<1>1. CASE UNCHANGED limiterVars
  BY <1>1 DEF limiterVars
<1>2. CASE /\ ~closed /\ current_inflight < MaxInflight
           /\ current_inflight' = current_inflight + 1
           /\ permits' = permits \union {s}
           /\ UNCHANGED <<queued_requests, closed>>
  BY <1>2, PermitCount
<1>3. CASE /\ ~closed /\ queued_requests < MaxQueueSize
           /\ queued_requests' = queued_requests + 1
           /\ UNCHANGED <<current_inflight, closed, permits>>
  BY <1>3
<1> QED
  BY <1>1, <1>2, <1>3 DEF TryAcquireOrQueue

(* try_promote_queued keeps the counts, for a caller without a permit.     *)
LEMMA PromoteKeepsCounts ==
  ASSUME LimiterInv, NEW s \in Sessions, s \notin permits,
         NEW valid \in BOOLEAN, TryPromoteQueued(s, valid)
  PROVE  LimiterInv'
<1> USE LimiterAssumption
    DEF LimiterInv, LimiterTypeOK, SlotsExact, QueueBounded, ClosedEmpty
<1>1. CASE closed \/ queued_requests = 0 \/ current_inflight >= MaxInflight
  BY <1>1 DEF TryPromoteQueued
<1>2. CASE ~(closed \/ queued_requests = 0 \/ current_inflight >= MaxInflight)
  BY <1>2, PermitCount DEF TryPromoteQueued
<1> QED
  BY <1>1, <1>2

(* cancel_queued, close and the release of a permit keep the counts.       *)
LEMMA ReleaseKeepsCounts ==
  ASSUME LimiterInv, NEW s \in Sessions, PermitRelease(s)
  PROVE  LimiterInv'
  BY PermitCount, LimiterAssumption
     DEF PermitRelease, LimiterInv, LimiterTypeOK, SlotsExact, QueueBounded, ClosedEmpty

LEMMA CancelKeepsCounts ==
  ASSUME LimiterInv, CancelQueued
  PROVE  LimiterInv'
  BY LimiterAssumption
     DEF CancelQueued, LimiterInv, LimiterTypeOK, SlotsExact, QueueBounded, ClosedEmpty

LEMMA CloseKeepsCounts ==
  ASSUME LimiterInv, LimiterClose
  PROVE  LimiterInv'
  BY LimiterAssumption
     DEF LimiterClose, LimiterInv, LimiterTypeOK, SlotsExact, QueueBounded, ClosedEmpty

LEMMA InitCounts ==
  ASSUME LimiterInit
  PROVE  LimiterInv
<1>1. Cardinality(permits) = 0 /\ permits \subseteq Sessions
  BY FS_EmptySet, Zenon DEF LimiterInit
<1>2. closed \in BOOLEAN /\ ~closed
  BY Zenon DEF LimiterInit
<1>3. current_inflight = 0 /\ queued_requests = 0
  BY DEF LimiterInit
<1> QED
  BY <1>1, <1>2, <1>3, LimiterAssumption
     DEF LimiterInv, LimiterTypeOK, SlotsExact, QueueBounded, ClosedEmpty

(* On a closed limiter no method gives a permit or counts a request.       *)
LEMMA ClosedStep ==
  ASSUME LimiterInv, closed, NEW s,
         \/ \E d : TryAcquireOrQueue(s, d)
         \/ \E valid : TryPromoteQueued(s, valid)
         \/ PermitRelease(s) \/ CancelQueued \/ LimiterClose \/ UNCHANGED limiterVars
  PROVE  closed' /\ permits' \subseteq permits /\ queued_requests' = 0
<1>1. queued_requests = 0
  BY DEF LimiterInv, ClosedEmpty
<1>2. CASE \/ \E d : TryAcquireOrQueue(s, d)
           \/ \E valid : TryPromoteQueued(s, valid)
  BY <1>1, <1>2 DEF TryAcquireOrQueue, TryPromoteQueued, limiterVars
<1>3. CASE PermitRelease(s) \/ CancelQueued \/ LimiterClose \/ UNCHANGED limiterVars
  BY <1>1, <1>3 DEF PermitRelease, CancelQueued, LimiterClose, limiterVars
<1> QED
  BY <1>2, <1>3

(***************************************************************************)
(* Whatever the callers do, in whatever order, as long as nobody asks for  *)
(* a second permit: the limiter's counts are exact and within their        *)
(* limits.                                                                 *)
(***************************************************************************)
THEOREM LimiterCorrect ==
  LimiterSpec => [](LimiterTypeOK /\ SlotsExact /\ QueueBounded /\ ClosedEmpty)
<1>1. LimiterInit => LimiterInv
  BY InitCounts
<1>2. LimiterInv /\ [LimiterNext]_limiterVars => LimiterInv'
  <2> SUFFICES ASSUME LimiterInv, [LimiterNext]_limiterVars
               PROVE  LimiterInv'
    OBVIOUS
  <2>1. ASSUME NEW s \in Sessions, Acquire(s)
        PROVE  LimiterInv'
    BY <2>1, AcquireKeepsCounts DEF Acquire
  <2>2. ASSUME NEW s \in Sessions, Promote(s)
        PROVE  LimiterInv'
    BY <2>2, PromoteKeepsCounts DEF Promote
  <2>3. ASSUME NEW s \in Sessions, PermitRelease(s)
        PROVE  LimiterInv'
    BY <2>3, ReleaseKeepsCounts
  <2>4. CASE CancelQueued
    BY <2>4, CancelKeepsCounts
  <2>5. CASE LimiterClose
    BY <2>5, CloseKeepsCounts
  <2>6. CASE UNCHANGED limiterVars
    BY <2>6
    DEF limiterVars, LimiterInv, LimiterTypeOK, SlotsExact, QueueBounded, ClosedEmpty
  <2> QED
    BY <2>1, <2>2, <2>3, <2>4, <2>5, <2>6 DEF LimiterNext
<1>3. LimiterInv => LimiterTypeOK /\ SlotsExact /\ QueueBounded /\ ClosedEmpty
  BY DEF LimiterInv
<1> QED
  BY <1>1, <1>2, <1>3, PTL DEF LimiterSpec
=============================================================================
