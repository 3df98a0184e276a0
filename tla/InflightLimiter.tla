--------------------------- MODULE InflightLimiter ---------------------------
(***************************************************************************)
(* InflightLimiter (controller/src/inflight_limiter.cpp): a fixed number   *)
(* of in-flight slots and a bounded count of queued requests.  Every       *)
(* method holds state->mutex from its first to its last access, so each    *)
(* one is a single step.  The limiter owns only counts; who waits in the   *)
(* queue is the callers' business.                                         *)
(*                                                                         *)
(* Names carry the prefix Limiter where a composing module defines its     *)
(* own Init, Next, vars and Spec.                                          *)
(***************************************************************************)
EXTENDS Integers, FiniteSets

CONSTANTS
  Sessions,      \* the callers, each of which makes one request
  MaxInflight,   \* State::max_inflight
  MaxQueueSize   \* State::max_queue_size

(* The constructor throws on max_inflight == 0; max_queue_size may be 0.   *)
ASSUME LimiterAssumption ==
  /\ IsFiniteSet(Sessions)
  /\ MaxInflight \in Nat \ {0}
  /\ MaxQueueSize \in Nat

VARIABLES
  current_inflight,
  queued_requests,
  closed,
  permits          \* callers for whom a Permit with owns_slot_ = true exists

limiterVars == <<current_inflight, queued_requests, closed, permits>>

InflightDecision == {"Admit", "Queue", "Reject", "Closed"}

LimiterInit ==
  /\ current_inflight = 0
  /\ queued_requests = 0
  /\ closed = FALSE
  /\ permits = {}

(* Mutant of TryAcquireOrQueue: one request too many is queued.            *)
TryAcquireOrQueueOneMore(s, d) ==
  \/ /\ d = "Closed" /\ closed
     /\ UNCHANGED limiterVars
  \/ /\ d = "Admit" /\ ~closed /\ current_inflight < MaxInflight
     /\ current_inflight' = current_inflight + 1
     /\ permits' = permits \union {s}
     /\ UNCHANGED <<queued_requests, closed>>
  \/ /\ d = "Queue" /\ ~closed /\ current_inflight >= MaxInflight
     /\ queued_requests <= MaxQueueSize
     /\ queued_requests' = queued_requests + 1
     /\ UNCHANGED <<current_inflight, closed, permits>>
  \/ /\ d = "Reject" /\ ~closed /\ current_inflight >= MaxInflight
     /\ queued_requests > MaxQueueSize
     /\ UNCHANGED limiterVars

(***************************************************************************)
(* try_acquire_or_queue() called for s returns decision d.                 *)
(***************************************************************************)
TryAcquireOrQueue(s, d) ==
  \/ /\ d = "Closed" /\ closed
     /\ UNCHANGED limiterVars
  \/ /\ d = "Admit" /\ ~closed /\ current_inflight < MaxInflight
     /\ current_inflight' = current_inflight + 1
     /\ permits' = permits \union {s}
     /\ UNCHANGED <<queued_requests, closed>>
  \/ /\ d = "Queue" /\ ~closed /\ current_inflight >= MaxInflight
     /\ queued_requests < MaxQueueSize
     /\ queued_requests' = queued_requests + 1
     /\ UNCHANGED <<current_inflight, closed, permits>>
  \/ /\ d = "Reject" /\ ~closed /\ current_inflight >= MaxInflight
     /\ queued_requests >= MaxQueueSize
     /\ UNCHANGED limiterVars

(* Mutant of TryPromoteQueued: the limit is not looked at.                 *)
TryPromoteQueuedNoLimit(s, valid) ==
  /\ valid = ~(closed \/ queued_requests = 0)
  /\ IF valid
     THEN /\ queued_requests' = queued_requests - 1
          /\ current_inflight' = current_inflight + 1
          /\ permits' = permits \union {s}
          /\ UNCHANGED closed
     ELSE UNCHANGED limiterVars

(***************************************************************************)
(* try_promote_queued(): the permit it returns is meant for s; valid says  *)
(* whether it owns a slot.                                                 *)
(***************************************************************************)
TryPromoteQueued(s, valid) ==
  LET refused == \/ closed
                 \/ queued_requests = 0
                 \/ current_inflight >= MaxInflight
  IN  /\ valid = ~refused
      /\ UNCHANGED closed
      /\ IF refused
         THEN UNCHANGED <<current_inflight, queued_requests, permits>>
         ELSE /\ queued_requests' = queued_requests - 1
              /\ current_inflight' = current_inflight + 1
              /\ permits' = permits \union {s}

(* Mutants of CancelQueued: no test for zero; nothing done.                *)
CancelQueuedUnchecked ==
  /\ queued_requests' = queued_requests - 1
  /\ UNCHANGED <<current_inflight, closed, permits>>
CancelQueuedForgotten == UNCHANGED limiterVars

(* cancel_queued(): its bool result is ignored by every caller.            *)
CancelQueued ==
  /\ queued_requests' = IF queued_requests = 0 THEN 0 ELSE queued_requests - 1
  /\ UNCHANGED <<current_inflight, closed, permits>>

(* Mutant of LimiterClose: the queued count is kept.                       *)
LimiterCloseKeepsCount ==
  closed' = TRUE /\ UNCHANGED <<current_inflight, queued_requests, permits>>

(* close()                                                                 *)
LimiterClose ==
  /\ closed' = TRUE
  /\ queued_requests' = 0
  /\ UNCHANGED <<current_inflight, permits>>

(***************************************************************************)
(* Permit::release() on the permit of s, up to the end of the locked block *)
(* (the destructor and permit_.reset() end up here).  The on_release       *)
(* callback runs after the unlock and is a step of the caller.  A count    *)
(* of zero is left alone, as in the code.                                  *)
(***************************************************************************)
PermitRelease(s) ==
  /\ s \in permits
  /\ permits' = permits \ {s}
  /\ current_inflight' = IF current_inflight = 0 THEN 0
                                                 ELSE current_inflight - 1
  /\ UNCHANGED <<queued_requests, closed>>

(***************************************************************************)
(* The limiter on its own: callers invoke the methods in any order, with   *)
(* one rule, that a caller holding a permit asks for no second one.        *)
(***************************************************************************)
Acquire(s) == s \notin permits /\ \E d \in InflightDecision : TryAcquireOrQueue(s, d)
Promote(s) == s \notin permits /\ \E valid \in BOOLEAN : TryPromoteQueued(s, valid)

LimiterNext ==
  \/ \E s \in Sessions : Acquire(s) \/ Promote(s) \/ PermitRelease(s)
  \/ CancelQueued
  \/ LimiterClose

LimiterSpec == LimiterInit /\ [][LimiterNext]_limiterVars

-----------------------------------------------------------------------------
LimiterTypeOK ==
  /\ current_inflight \in Nat
  /\ queued_requests \in Nat
  /\ closed \in BOOLEAN
  /\ permits \subseteq Sessions

(***************************************************************************)
(* The in-flight count is exactly the number of permits that own a slot    *)
(* and never exceeds max_inflight: no interleaving of acquire, promote,    *)
(* cancel, close and RAII release leaks a slot or hands out one too many,  *)
(* and release() never meets the zero count its early return is for.       *)
(***************************************************************************)
SlotsExact ==
  /\ current_inflight = Cardinality(permits)
  /\ current_inflight <= MaxInflight

(***************************************************************************)
(* try_acquire_or_queue queues no request beyond max_queue_size: with the  *)
(* places taken the next one is refused, and a place is given again only   *)
(* after a promotion, a queue timeout or a destructor has freed one.       *)
(***************************************************************************)
QueueBounded == queued_requests <= MaxQueueSize

(* close() forgets those who wait, and nobody is counted afterwards.       *)
ClosedEmpty == closed => queued_requests = 0
=============================================================================
