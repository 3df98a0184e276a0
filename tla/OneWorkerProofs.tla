--------------------------- MODULE OneWorkerProofs ---------------------------
(***************************************************************************)
(* Proofs about ProxyServer with one worker thread, the default of         *)
(* ProxyConfig::worker_threads, for any number of sessions and any limits: *)
(* a handler that nothing interrupts gives the queue what several threads  *)
(* do not.                                                                 *)
(***************************************************************************)
EXTENDS ProxyServerProofs

(* One handler is in progress at a time: of a session, of the server's     *)
(* strand or of the signals.                                               *)
Solo ==
  /\ \A s, t \in Sessions : pc[s] # "idle" /\ pc[t] # "idle" => s = t
  /\ \A s \in Sessions : pc[s] # "idle" => server_pc = "idle" /\ io # "signalled"
  /\ server_pc # "idle" => io # "signalled"

Holding == {"try", "denied", "start", "begin"}

(* A request on its way through the queue has no exchange and no outcome,  *)
(* and queued_ is set between the deque's handler and the promotion or the *)
(* timeout.  A promotion never finds its session gone: it drops no permit. *)
Queueing ==
  /\ \A s \in Sessions :
       pc[s] = "enqueue" \/ EnqueueTask(s) \in Tasks \/ queued[s] =>
         ~finished[s] /\ ~chain[s] /\ request_timer[s] = "off"
  /\ \A s \in Sessions :
       queued[s] => object[s] = "live" /\ pc[s] # "enqueue" /\ EnqueueTask(s) \notin Tasks
  /\ \A s \in Sessions : pc[s] \in {"cancel", "dequeue"} => queued[s]
  /\ server_pc \in Holding => queued[cur]
  /\ server_pc \notin {"drop", "notify"}
  /\ stopping = closed

(* A session that waits is in the deque or in the hands of the promotion.  *)
Kept ==
  \A s \in Sessions :
    queued[s] /\ ~closed => InDeque(s) \/ (cur = s /\ server_pc \in Holding)

(* No slot is free while a request is being queued or put back.            *)
Full ==
  ~closed /\ (server_pc = "denied" \/ \E s \in Sessions : pc[s] = "enqueue") =>
    current_inflight >= MaxInflight

(* Until the io_context is torn down, the posted handler owns its session. *)
Alive ==
  \A s \in Sessions :
    pc[s] = "enqueue" \/ (EnqueueTask(s) \in Tasks /\ io # "stopped") => object[s] = "live"

Followed(q) ==
  \A i \in 1..Len(q) :
    q[i] \in EnqueueTasks => \E j \in 1..Len(q) : i < j /\ q[j] = PromoteTask

(* While a slot is free a promotion is about to be posted, or one is posted*)
(* behind every session that the deque's handler has yet to add, and one   *)
(* is posted or running if the deque has a session.                        *)
Woken ==
  ~closed /\ current_inflight < MaxInflight =>
    \/ \E r \in Sessions : pc[r] = "notify"
    \/ /\ Followed(strand_q)
       /\ (\E s \in Sessions : queued[s]) => PromoteTask \in Tasks \/ server_pc # "idle"

OneWorkerInv ==
  /\ ServerInv /\ OutcomeInv
  /\ Solo /\ Alive /\ Queueing /\ Kept /\ Full /\ Woken
  /\ FinishedHoldsNoSlot /\ QueueCountExact

-----------------------------------------------------------------------------
(* A thread that takes a handler finds none in progress.                   *)
LEMMA Quiet ==
  ASSUME TypeOK, Workers = 1, Busy < Workers
  PROVE  /\ \A s \in Sessions : pc[s] = "idle"
         /\ server_pc = "idle" /\ io # "signalled"
<1> DEFINE P == {s \in Sessions : pc[s] # "idle"}
<1>1. IsFiniteSet(P)
  BY LimiterAssumption, FS_Subset
<1>2. Cardinality(P) \in Nat
  BY <1>1, FS_CardinalityType
<1>3. Cardinality(P) = 0 /\ server_pc = "idle" /\ io # "signalled"
  <2> HIDE DEF P
  <2>1. Cardinality(P) + (IF server_pc = "idle" THEN 0 ELSE 1)
          + (IF io = "signalled" THEN 1 ELSE 0) < 1
    BY DEF Busy, P
  <2> QED
    BY <1>2, <2>1
<1>4. P = {}
  BY <1>1, <1>3, FS_EmptySet
<1> QED
  BY <1>3, <1>4

LEMMA SoloNext ==
  ASSUME TypeOK, Solo, Workers = 1, [Next]_vars
  PROVE  Solo'
<1> DEFINE AllIdle == /\ \A s \in Sessions : pc[s] = "idle"
                      /\ server_pc = "idle" /\ io # "signalled"
<1>1. ASSUME NEW s \in Sessions, HandleRequest(s) \/ SessionHandler(s) \/ Destroy(s)
      PROVE  Solo'
  <2>1. AllIdle
    BY <1>1, Quiet DEF HandleRequest, SessionHandler, QueueTimerFires, RequestTimerFires,
                       ChainEnds, Destroy, WorkerFree
  <2>2. UNCHANGED <<server_pc, io>> /\ \A t \in Sessions \ {s} : pc'[t] = pc[t]
    BY <1>1 DEF HandleRequest, SessionHandler, QueueTimerFires, RequestTimerFires,
                ChainEnds, Destroy, serverVars, TypeOK
  <2> QED
    BY <2>1, <2>2 DEF Solo
<1>2. ASSUME NEW s \in Sessions, SessionStep(s) \/ TimerExpires(s)
      PROVE  Solo'
  <2>1. UNCHANGED <<server_pc, io>>
    BY <1>2 DEF SessionStep, PostEnqueue, QueueTimerCancels, QueueTimerFails, ResetPermit,
                NotifyRelease, TimerExpires, serverVars
  <2>2. \A t \in Sessions : pc'[t] # "idle" => pc[t] # "idle"
    BY <1>2 DEF SessionStep, PostEnqueue, QueueTimerCancels, QueueTimerFails, ResetPermit,
                NotifyRelease, TimerExpires, TypeOK
  <2> QED
    BY <2>1, <2>2 DEF Solo
<1>3. CASE ServerHandler
  <2>1. AllIdle
    BY <1>3, Quiet DEF ServerHandler, PromoteBegins, StopServer, EnqueueSession, NextTask,
                       WorkerFree
  <2>2. UNCHANGED <<pc, io>>
    BY <1>3 DEF ServerHandler, PromoteBegins, StopServer, EnqueueSession, sessionVars
  <2> QED
    BY <2>1, <2>2 DEF Solo
<1>4. CASE ServerStep
  <2>1. server_pc # "idle" /\ UNCHANGED <<pc, io>>
    BY <1>4 DEF ServerStep, PromoteLoop, PromoteTry, PromoteDenied, TryStartFromQueue,
                BeginFromQueue, DropPermit, NotifyDrop, sessionVars
  <2> QED
    BY <2>1 DEF Solo
<1>5. CASE SignalPostsStop
  <2>1. AllIdle
    BY <1>5, Quiet DEF SignalPostsStop, WorkerFree
  <2>2. UNCHANGED <<pc, server_pc>>
    BY <1>5 DEF SignalPostsStop, sessionVars
  <2> QED
    BY <2>1, <2>2 DEF Solo
<1>6. CASE SignalStopsIo
  BY <1>6 DEF SignalStopsIo, sessionVars, Solo
<1>7. CASE UNCHANGED vars
  BY <1>7 DEF vars, serverVars, sessionVars, Solo
<1> QED
  BY <1>1, <1>2, <1>3, <1>4, <1>5, <1>6, <1>7 DEF Next, Exited

-----------------------------------------------------------------------------
(***************************************************************************)
(* The strand's queue of handlers: who is followed by a promotion.         *)
(***************************************************************************)
LEMMA FollowedPromote ==
  ASSUME NEW q \in Seq(Task)
  PROVE  Followed(Append(q, PromoteTask))
<1>1. /\ Len(Append(q, PromoteTask)) = Len(q) + 1 /\ Len(q) \in Nat
      /\ Append(q, PromoteTask)[Len(q) + 1] = PromoteTask
  BY DEF Task
<1>2. PromoteTask \notin EnqueueTasks
  BY DEF PromoteTask, EnqueueTasks, EnqueueTask
<1> QED
  BY <1>1, <1>2 DEF Followed

LEMMA FollowedOther ==
  ASSUME NEW q \in Seq(Task), NEW t \in Task, t \notin EnqueueTasks, Followed(q)
  PROVE  Followed(Append(q, t))
<1>1. /\ Len(Append(q, t)) = Len(q) + 1 /\ Len(q) \in Nat
      /\ Append(q, t)[Len(q) + 1] = t
      /\ \A i \in 1..Len(q) : Append(q, t)[i] = q[i]
  OBVIOUS
<1> SUFFICES ASSUME NEW i \in 1..(Len(q) + 1), Append(q, t)[i] \in EnqueueTasks
             PROVE  \E j \in 1..(Len(q) + 1) : i < j /\ Append(q, t)[j] = PromoteTask
  BY <1>1 DEF Followed
<1>2. i \in 1..Len(q) /\ q[i] \in EnqueueTasks
  BY <1>1
<1>3. PICK j \in 1..Len(q) : i < j /\ q[j] = PromoteTask
  BY <1>2 DEF Followed
<1> QED
  BY <1>1, <1>3

LEMMA FollowedTail ==
  ASSUME NEW q \in Seq(Task), q # <<>>, Followed(q)
  PROVE  /\ Followed(Tail(q))
         /\ Head(q) \in EnqueueTasks => PromoteTask \in ElemsOf(Tail(q))
<1>1. /\ Head(q) = q[1] /\ Len(Tail(q)) = Len(q) - 1 /\ Len(q) \in Nat \ {0}
      /\ \A i \in 1..(Len(q) - 1) : Tail(q)[i] = q[i + 1]
  OBVIOUS
<1>2. ASSUME NEW i \in 1..(Len(q) - 1), Tail(q)[i] \in EnqueueTasks
      PROVE  \E j \in 1..(Len(q) - 1) : i < j /\ Tail(q)[j] = PromoteTask
  <2>1. i + 1 \in 1..Len(q) /\ q[i + 1] \in EnqueueTasks
    BY <1>1, <1>2
  <2>2. PICK j \in 1..Len(q) : i + 1 < j /\ q[j] = PromoteTask
    BY <2>1 DEF Followed
  <2>3. j - 1 \in 1..(Len(q) - 1) /\ i < j - 1 /\ (j - 1) + 1 = j
    BY <1>1, <2>2
  <2> QED
    BY <1>1, <2>2, <2>3
<1>3. ASSUME Head(q) \in EnqueueTasks
      PROVE  PromoteTask \in ElemsOf(Tail(q))
  <2>1. 1 \in 1..Len(q) /\ q[1] \in EnqueueTasks
    BY <1>1, <1>3
  <2>2. PICK j \in 1..Len(q) : 1 < j /\ q[j] = PromoteTask
    BY <2>1 DEF Followed
  <2>3. j - 1 \in 1..(Len(q) - 1) /\ (j - 1) + 1 = j
    BY <1>1, <2>2
  <2> QED
    BY <1>1, <2>2, <2>3 DEF ElemsOf
<1> QED
  BY <1>1, <1>2, <1>3 DEF Followed

-----------------------------------------------------------------------------
(* The instance counts as this module does.                                *)
LEMMA SameCardinality == \A S : AC!Cardinality(S) = Cardinality(S)
BY DEF AC!Cardinality, Cardinality

(***************************************************************************)
(* What a step of the server is for the abstract admission control, and    *)
(* what it does to the limiter's count of queued requests.                 *)
(***************************************************************************)
Move(s) ==
  \/ AC!Admit(s) /\ queued_requests' = queued_requests
  \/ AC!StartWaiting(s) /\ queued_requests' = queued_requests + 1
  \/ AC!PromoteWaiting(s) /\ queued_requests' = queued_requests - 1
  \/ AC!GiveUp(s) /\ queued_requests' = queued_requests - 1
  \/ AC!Leave(s) /\ queued_requests' = queued_requests

AdmissionMove ==
  \/ \E s \in Sessions : Move(s)
  \/ AC!Shut /\ queued_requests' = 0
  \/ UNCHANGED <<permits, Waiting, closed, queued_requests>>

(* If all its steps are such moves, the count is the number of those who   *)
(* wait.                                                                   *)
LEMMA MoveCounts ==
  ASSUME QueueCountExact, AdmissionMove
  PROVE  QueueCountExact'
<1>1. Waiting \in SUBSET Sessions
  BY DEF Waiting
<1>2. IsFiniteSet(Waiting) /\ Cardinality(Waiting) \in Nat
  BY <1>1, LimiterAssumption, FS_Subset, FS_CardinalityType
<1>3. queued_requests = Cardinality(Waiting)
  BY DEF QueueCountExact
<1>4. ASSUME NEW s, s \in Waiting, Waiting' = Waiting \ {s},
             queued_requests' = queued_requests - 1
      PROVE  queued_requests' = Cardinality(Waiting')
  <2>1. Cardinality(Waiting \ {s}) = Cardinality(Waiting) - 1
    BY <1>2, <1>4, FS_RemoveElement
  <2> QED
    BY <1>3, <1>4, <2>1
<1>5. ASSUME NEW s, s \notin Waiting, Waiting' = Waiting \union {s},
             queued_requests' = queued_requests + 1
      PROVE  queued_requests' = Cardinality(Waiting')
  <2>1. Cardinality(Waiting \union {s}) = Cardinality(Waiting) + 1
    BY <1>2, <1>5, FS_AddElement
  <2> QED
    BY <1>3, <1>5, <2>1
<1>6. ASSUME Waiting' = Waiting, queued_requests' = queued_requests
      PROVE  queued_requests' = Cardinality(Waiting')
  BY <1>3, <1>6
<1>7. ASSUME NEW s \in Sessions, Move(s)
      PROVE  queued_requests' = Cardinality(Waiting')
  BY <1>4, <1>5, <1>6, <1>7
     DEF Move, AC!Admit, AC!StartWaiting, AC!PromoteWaiting, AC!GiveUp, AC!Leave
<1>8. CASE AC!Shut /\ queued_requests' = 0
  BY <1>8, FS_EmptySet DEF AC!Shut, QueueCountExact
<1>9. CASE UNCHANGED <<permits, Waiting, closed, queued_requests>>
  BY <1>6, <1>9 DEF QueueCountExact
<1> QED
  BY <1>7, <1>8, <1>9 DEF AdmissionMove, QueueCountExact

(* Who waits, of one session.                                              *)
IsWaiting(s) ==
  /\ ~closed
  /\ \/ pc[s] = "enqueue"
     \/ EnqueueTask(s) \in Tasks
     \/ queued[s] /\ pc[s] # "dequeue" /\ ~InTransit(s)

LEMMA WaitingIs ==
  /\ \A s \in Sessions : s \in Waiting <=> IsWaiting(s)
  /\ Waiting \subseteq Sessions
BY DEF Waiting, IsWaiting

LEMMA WaitingPrimeIs ==
  /\ \A s \in Sessions : s \in Waiting' <=> IsWaiting(s)'
  /\ Waiting' \subseteq Sessions
BY DEF Waiting, IsWaiting

(* A step in which nobody starts or stops waiting and nobody's slot moves. *)
LEMMA NoMove ==
  ASSUME UNCHANGED limiterVars, \A s \in Sessions : IsWaiting(s)' <=> IsWaiting(s)
  PROVE  AdmissionMove
<1>1. Waiting' = Waiting
  BY WaitingIs, WaitingPrimeIs
<1> QED
  BY <1>1 DEF AdmissionMove, limiterVars

-----------------------------------------------------------------------------
(***************************************************************************)
(* The sessions' strands                                                   *)
(***************************************************************************)
Rest == Queueing /\ Kept /\ Full /\ Woken /\ FinishedHoldsNoSlot

(* A step of the strand of s that leaves the server's strand alone keeps   *)
(* the invariant if s keeps its part of it.                                *)
LEMMA OwnPart ==
  ASSUME OneWorkerInv, NEW s \in Sessions,
         UNCHANGED <<queued_sessions, strand_q, stopping, closed, server_pc, cur>>,
         server_pc = "idle",
         \A t \in Sessions \ {s} :
           /\ pc[t] = "idle" /\ pc'[t] = "idle"
           /\ object'[t] = object[t] /\ queued'[t] = queued[t]
           /\ finished'[t] = finished[t] /\ chain'[t] = chain[t]
           /\ request_timer'[t] = request_timer[t]
           /\ t \in permits' => t \in permits,
         current_inflight' \in Nat,
         current_inflight' >= current_inflight \/ pc'[s] = "notify",
         pc[s] # "notify",
         pc'[s] = "enqueue" => current_inflight' >= MaxInflight /\ ~queued'[s],
         pc'[s] = "enqueue" \/ EnqueueTask(s) \in Tasks \/ queued'[s] =>
           ~finished'[s] /\ ~chain'[s] /\ request_timer'[s] = "off",
         queued'[s] => queued[s] /\ object'[s] = "live",
         pc'[s] \in {"cancel", "dequeue"} => queued'[s],
         finished'[s] /\ pc'[s] # "release" => s \notin permits'
  PROVE  Rest'
<1>1. Queueing /\ Kept /\ Full /\ Woken /\ FinishedHoldsNoSlot
  BY DEF OneWorkerInv
<1>2. Tasks' = Tasks /\ \A t \in Sessions : InDeque(t)' <=> InDeque(t)
  BY DEF Tasks, InDeque, ElemsOf
<1>3. Queueing'
  <2>1. ASSUME NEW t \in Sessions
        PROVE  /\ pc'[t] = "enqueue" \/ EnqueueTask(t) \in Tasks \/ queued'[t] =>
                    ~finished'[t] /\ ~chain'[t] /\ request_timer'[t] = "off"
               /\ queued'[t] => /\ object'[t] = "live" /\ pc'[t] # "enqueue"
                                /\ EnqueueTask(t) \notin Tasks
               /\ pc'[t] \in {"cancel", "dequeue"} => queued'[t]
    <3>1. CASE t = s
      BY <1>1, <3>1 DEF Queueing
    <3>2. CASE t # s
      BY <1>1, <3>2 DEF Queueing
    <3> QED
      BY <3>1, <3>2
  <2>2. /\ server_pc' \notin Holding /\ server_pc' \notin {"drop", "notify"}
        /\ stopping' = closed'
    BY <1>1 DEF Queueing, Holding
  <2> QED
    BY <1>2, <2>1, <2>2 DEF Queueing, EnqueueTask
<1>4. Kept'
  BY <1>1, <1>2 DEF Kept, Holding
<1>5. Full'
  BY DEF Full
<1>6. Woken'
  <2> SUFFICES ASSUME ~closed', current_inflight' < MaxInflight, pc'[s] # "notify"
               PROVE  /\ Followed(strand_q')
                      /\ (\E t \in Sessions : queued'[t]) => PromoteTask \in Tasks'
    BY DEF Woken, PromoteTask
  <2>1. current_inflight < MaxInflight /\ ~closed
    BY LimiterAssumption DEF OneWorkerInv, ServerInv, TypeOK, LimiterTypeOK
  <2>2. \A r \in Sessions : pc[r] # "notify"
    OBVIOUS
  <2>3. Followed(strand_q) /\ ((\E t \in Sessions : queued[t]) => PromoteTask \in Tasks)
    BY <1>1, <2>1, <2>2 DEF Woken
  <2> QED
    BY <1>2, <2>3
<1>7. FinishedHoldsNoSlot'
  BY <1>1 DEF FinishedHoldsNoSlot
<1> QED
  BY <1>3, <1>4, <1>5, <1>6, <1>7 DEF Rest

(* Nobody else waits because of what s does.                               *)
LEMMA OthersWait ==
  ASSUME OneWorkerInv, NEW s \in Sessions,
         UNCHANGED <<strand_q, closed, server_pc, cur>>,
         \A t \in Sessions \ {s} : pc'[t] = pc[t] /\ queued'[t] = queued[t]
  PROVE  \A t \in Sessions \ {s} : IsWaiting(t)' <=> IsWaiting(t)
<1>1. Tasks' = Tasks
  BY DEF Tasks, ElemsOf
<1> QED
  BY <1>1 DEF IsWaiting, InTransit, EnqueueTask

LEMMA HandleRequestSolo ==
  ASSUME OneWorkerInv, Workers = 1, NEW s \in Sessions, HandleRequest(s)
  PROVE  Rest' /\ AdmissionMove
<1>1. /\ TypeOK /\ LimiterInv /\ QueuedOnce /\ Fresh /\ QueueCountExact
  BY DEF OneWorkerInv, ServerInv, OutcomeInv
<1>2. \A t \in Sessions : pc[t] = "idle" /\ server_pc = "idle"
  BY <1>1, Quiet DEF HandleRequest, WorkerFree
<1>3. /\ ~finished[s] /\ ~chain[s] /\ ~queued[s] /\ request_timer[s] = "off"
      /\ EnqueueTask(s) \notin Tasks /\ s \notin permits
  BY <1>1 DEF HandleRequest, Fresh, Untouched, QueuedOnce, OnePlace
<1>4. /\ UNCHANGED <<queued_sessions, strand_q, stopping, server_pc, cur, queued>>
      /\ object' = [object EXCEPT ![s] = "live"]
  BY DEF HandleRequest, serverVars
<1>5. PICK d \in InflightDecision :
        /\ TryAcquireOrQueue(s, d)
        /\ \/ /\ d = "Admit"
              /\ StartProxyRequest(s)
              /\ UNCHANGED <<pc, finished>>
           \/ /\ d = "Queue"
              /\ pc' = [pc EXCEPT ![s] = "enqueue"]
              /\ UNCHANGED <<finished, chain, request_timer>>
           \/ /\ d \in {"Reject", "Closed"}
              /\ finished' = [finished EXCEPT ![s] = TRUE]
              /\ UNCHANGED <<pc, chain, request_timer>>
  BY DEF HandleRequest
<1>6. /\ closed' = closed /\ current_inflight' \in Nat
      /\ current_inflight' >= current_inflight
      /\ current_inflight \in Nat /\ closed \in BOOLEAN /\ queued_requests \in Nat
      /\ permits' \subseteq permits \union {s}
  BY <1>1, <1>5 DEF TryAcquireOrQueue, limiterVars, LimiterInv, LimiterTypeOK
<1>7. \A t \in Sessions \ {s} :
        /\ pc'[t] = pc[t] /\ object'[t] = object[t] /\ finished'[t] = finished[t]
        /\ chain'[t] = chain[t] /\ request_timer'[t] = request_timer[t]
  BY <1>1, <1>4, <1>5 DEF StartProxyRequest, TypeOK
<1>8. object'[s] = "live"
  BY <1>1, <1>4 DEF TypeOK
<1>9. \A t \in Sessions \ {s} : IsWaiting(t)' <=> IsWaiting(t)
  BY <1>4, <1>6, <1>7, OthersWait
<1>10. s \notin Waiting
  BY <1>2, <1>3, WaitingIs DEF IsWaiting
<1>11. EnqueueTask(s) \notin Tasks'
  BY <1>3, <1>4 DEF Tasks, ElemsOf
<1>12. CASE d = "Queue"
  <2>1. /\ pc'[s] = "enqueue" /\ ~closed /\ current_inflight >= MaxInflight
        /\ queued_requests < MaxQueueSize /\ queued_requests' = queued_requests + 1
        /\ UNCHANGED <<current_inflight, permits, finished, chain, request_timer>>
    BY <1>1, <1>5, <1>12 DEF TryAcquireOrQueue, TypeOK
  <2>2. Rest'
    BY <1>2, <1>3, <1>4, <1>6, <1>7, <1>8, <2>1, OwnPart
  <2>3. Waiting' = Waiting \union {s}
    <3>1. IsWaiting(s)'
      BY <1>6, <2>1 DEF IsWaiting
    <3> QED
      BY <1>9, <3>1, WaitingIs, WaitingPrimeIs
  <2>4. AC!StartWaiting(s)
    <3>1. ~(Cardinality(permits) < MaxInflight)
      BY <1>1, <1>6, <2>1, LimiterAssumption DEF LimiterInv, SlotsExact
    <3>2. Cardinality(Waiting) < MaxQueueSize
      BY <1>1, <2>1 DEF QueueCountExact
    <3>3. s \notin permits \union Waiting /\ permits' = permits
      BY <1>3, <1>10, <2>1
    <3> QED
      BY <1>6, <2>1, <2>3, <3>1, <3>2, <3>3, SameCardinality, Zenon
         DEF AC!StartWaiting, AC!SlotFree
  <2> QED
    BY <2>1, <2>2, <2>4 DEF AdmissionMove, Move
<1>13. CASE d = "Admit"
  <2>1. /\ pc' = pc /\ finished' = finished /\ ~closed
        /\ current_inflight < MaxInflight /\ queued_requests' = queued_requests
        /\ permits' = permits \union {s}
    BY <1>5, <1>13 DEF TryAcquireOrQueue
  <2>2. Rest'
    BY <1>2, <1>3, <1>4, <1>6, <1>7, <1>8, <2>1, OwnPart
  <2>3. Waiting' = Waiting
    <3>1. ~IsWaiting(s)'
      BY <1>2, <1>3, <1>4, <1>11, <2>1 DEF IsWaiting, EnqueueTask
    <3> QED
      BY <1>9, <1>10, <3>1, WaitingIs, WaitingPrimeIs
  <2>4. AC!Admit(s)
    <3>1. Cardinality(permits) < MaxInflight
      BY <1>1, <2>1 DEF LimiterInv, SlotsExact
    <3>2. s \notin permits \union Waiting
      BY <1>3, <1>10
    <3> QED
      BY <1>6, <2>1, <2>3, <3>1, <3>2, SameCardinality, Zenon
         DEF AC!Admit, AC!SlotFree
  <2> QED
    BY <2>1, <2>2, <2>4 DEF AdmissionMove, Move
<1>14. CASE d \in {"Reject", "Closed"}
  <2>1. UNCHANGED <<limiterVars, pc, chain, request_timer>>
    BY <1>5, <1>14 DEF TryAcquireOrQueue
  <2>2. UNCHANGED <<current_inflight, permits>>
    BY <2>1 DEF limiterVars
  <2>3. Rest'
    BY <1>2, <1>3, <1>4, <1>6, <1>7, <1>8, <2>1, <2>2, OwnPart
  <2>4. IsWaiting(s)' <=> IsWaiting(s)
    BY <1>2, <1>3, <1>4, <1>11, <2>1 DEF IsWaiting, EnqueueTask
  <2> QED
    BY <1>9, <2>1, <2>3, <2>4, NoMove
<1> QED
  BY <1>5, <1>12, <1>13, <1>14 DEF InflightDecision

(* The queue timer's handler: the session is still queued, since no        *)
(* promotion can have come between its steps.                              *)
LEMMA QueueTimerSolo ==
  ASSUME OneWorkerInv, Workers = 1, NEW s \in Sessions,
         QueueTimerFires(s) \/ QueueTimerCancels(s) \/ QueueTimerFails(s)
  PROVE  Rest' /\ AdmissionMove
<1>1. /\ TypeOK /\ LimiterInv /\ Queueing /\ FinishedHoldsNoSlot /\ Solo
      /\ QueueCountExact
  BY DEF OneWorkerInv, ServerInv
<1>2. /\ UNCHANGED <<queued_sessions, strand_q, stopping, closed, server_pc, cur>>
      /\ UNCHANGED <<object, chain, current_inflight, permits>>
      /\ current_inflight \in Nat /\ queued_requests \in Nat
  BY <1>1 DEF QueueTimerFires, QueueTimerCancels, QueueTimerFails, CancelQueued,
              limiterVars, serverVars, TypeOK, LimiterTypeOK
<1>3. server_pc = "idle" /\ \A t \in Sessions \ {s} : pc[t] = "idle"
  <2>1. CASE QueueTimerFires(s)
    BY <1>1, <2>1, Quiet DEF QueueTimerFires, WorkerFree
  <2>2. CASE QueueTimerCancels(s) \/ QueueTimerFails(s)
    BY <1>1, <2>2 DEF QueueTimerCancels, QueueTimerFails, Solo
  <2> QED
    BY <2>1, <2>2
<1>4. \A t \in Sessions \ {s} :
        /\ pc'[t] = pc[t] /\ queued'[t] = queued[t] /\ finished'[t] = finished[t]
        /\ request_timer'[t] = request_timer[t]
  BY <1>1 DEF QueueTimerFires, QueueTimerCancels, QueueTimerFails, EndRequest, TypeOK
<1>5. \A t \in Sessions \ {s} : IsWaiting(t)' <=> IsWaiting(t)
  BY <1>2, <1>4, OthersWait
<1>6. Tasks' = Tasks
  BY <1>2 DEF Tasks, ElemsOf
<1>7. CASE QueueTimerFires(s)
  <2>1. /\ pc[s] = "idle" /\ UNCHANGED <<queued, finished, request_timer, limiterVars>>
        /\ pc'[s] \in {"idle", "cancel"} /\ (pc'[s] = "cancel" => queued[s])
    BY <1>1, <1>7 DEF QueueTimerFires, TypeOK
  <2>2. Rest'
    BY <1>1, <1>2, <1>3, <1>4, <2>1, OwnPart DEF Queueing, FinishedHoldsNoSlot
  <2>3. IsWaiting(s)' <=> IsWaiting(s)
    BY <1>2, <1>6, <2>1 DEF IsWaiting, InTransit, EnqueueTask
  <2> QED
    BY <1>5, <2>1, <2>2, <2>3, NoMove
<1>8. CASE QueueTimerCancels(s)
  <2>1. /\ pc[s] = "cancel" /\ UNCHANGED <<queued, finished, request_timer>>
        /\ pc'[s] = "dequeue" /\ queued[s] /\ EnqueueTask(s) \notin Tasks
        /\ queued_requests' = IF queued_requests = 0 THEN 0 ELSE queued_requests - 1
    BY <1>1, <1>8 DEF QueueTimerCancels, CancelQueued, TypeOK, Queueing
  <2>2. Rest'
    BY <1>1, <1>2, <1>3, <1>4, <2>1, OwnPart DEF Queueing, FinishedHoldsNoSlot
  <2>3. ~IsWaiting(s)'
    BY <1>6, <2>1 DEF IsWaiting, EnqueueTask
  <2>4. CASE closed
    <3>1. queued_requests = 0
      BY <1>1, <2>4 DEF LimiterInv, ClosedEmpty
    <3>2. UNCHANGED limiterVars
      BY <1>2, <2>1, <3>1 DEF limiterVars
    <3>3. IsWaiting(s)' <=> IsWaiting(s)
      BY <2>3, <2>4 DEF IsWaiting
    <3> QED
      BY <1>5, <2>2, <3>2, <3>3, NoMove
  <2>5. CASE ~closed
    <3>1. IsWaiting(s)
      BY <1>3, <2>1, <2>5 DEF IsWaiting, InTransit
    <3>2. s \in Waiting /\ Waiting' = Waiting \ {s}
      BY <1>5, <2>3, <3>1, WaitingIs, WaitingPrimeIs
    <3>3. queued_requests # 0
      <4>1. IsFiniteSet(Waiting)
        BY WaitingIs, LimiterAssumption, FS_Subset
      <4>2. Cardinality(Waiting) # 0
        BY <3>2, <4>1, FS_EmptySet
      <4> QED
        BY <1>1, <4>2 DEF QueueCountExact
    <3>4. AC!GiveUp(s)
      BY <1>2, <3>2 DEF AC!GiveUp
    <3> QED
      BY <2>1, <2>2, <3>3, <3>4 DEF AdmissionMove, Move
  <2> QED
    BY <2>4, <2>5
<1>9. CASE QueueTimerFails(s)
  <2>1. /\ pc[s] = "dequeue" /\ queued[s] /\ EnqueueTask(s) \notin Tasks /\ ~finished[s]
        /\ queued'[s] = FALSE /\ UNCHANGED limiterVars
    BY <1>1, <1>9 DEF QueueTimerFails, Queueing, TypeOK
  <2>2. pc'[s] = "release"
    BY <1>1, <1>9, <2>1 DEF QueueTimerFails, TypeOK
  <2>3. Rest'
    BY <1>1, <1>2, <1>3, <1>4, <2>1, <2>2, OwnPart
  <2>4. ~IsWaiting(s)' /\ ~IsWaiting(s)
    BY <1>6, <2>1, <2>2 DEF IsWaiting, EnqueueTask
  <2> QED
    BY <1>5, <2>1, <2>3, <2>4, NoMove
<1> QED
  BY <1>7, <1>8, <1>9

(* The request timer's handler and the end of the exchange: their session  *)
(* is not in the queue.                                                    *)
LEMMA RequestEndsSolo ==
  ASSUME OneWorkerInv, Workers = 1, NEW s \in Sessions,
         RequestTimerFires(s) \/ ChainEnds(s)
  PROVE  Rest' /\ AdmissionMove
<1>1. TypeOK /\ Queueing /\ FinishedHoldsNoSlot
  BY DEF OneWorkerInv, ServerInv
<1>2. /\ UNCHANGED <<queued_sessions, strand_q, stopping, server_pc, cur>>
      /\ UNCHANGED <<object, queued, limiterVars>>
  BY DEF RequestTimerFires, ChainEnds, serverVars
<1>3. UNCHANGED <<closed, current_inflight, permits>> /\ current_inflight \in Nat
  BY <1>1, <1>2 DEF limiterVars, TypeOK, LimiterTypeOK
<1>4. server_pc = "idle" /\ \A t \in Sessions : pc[t] = "idle"
  BY <1>1, Quiet DEF RequestTimerFires, ChainEnds, WorkerFree
<1>5. \A t \in Sessions \ {s} :
        /\ pc'[t] = pc[t] /\ finished'[t] = finished[t] /\ chain'[t] = chain[t]
        /\ request_timer'[t] = request_timer[t]
  BY <1>1 DEF RequestTimerFires, ChainEnds, EndRequest, TypeOK
<1>6. pc'[s] \in {"idle", "release"} /\ (finished'[s] /\ pc'[s] # "release" => finished[s])
  BY <1>1, <1>4 DEF RequestTimerFires, ChainEnds, EndRequest, TypeOK
<1>7. ~queued[s] /\ EnqueueTask(s) \notin Tasks
  BY <1>1 DEF RequestTimerFires, ChainEnds, Queueing
<1>8. finished'[s] /\ pc'[s] # "release" => s \notin permits'
  BY <1>1, <1>3, <1>4, <1>6 DEF FinishedHoldsNoSlot
<1>9. Rest'
  BY <1>2, <1>3, <1>4, <1>5, <1>6, <1>7, <1>8, OwnPart
<1>10. Tasks' = Tasks
  BY <1>2 DEF Tasks, ElemsOf
<1>11. ~IsWaiting(s)' /\ ~IsWaiting(s)
  BY <1>2, <1>4, <1>6, <1>7, <1>10 DEF IsWaiting, EnqueueTask
<1>12. \A t \in Sessions \ {s} : IsWaiting(t)' <=> IsWaiting(t)
  BY <1>2, <1>3, <1>5, OthersWait
<1> QED
  BY <1>2, <1>9, <1>11, <1>12, NoMove

(* permit_.reset(): the permit is not in transit, so if there is one it is *)
(* released, and a promotion is about to be posted.                        *)
LEMMA ResetPermitSolo ==
  ASSUME OneWorkerInv, Workers = 1, NEW s \in Sessions, ResetPermit(s)
  PROVE  Rest' /\ AdmissionMove
<1>1. TypeOK /\ LimiterInv /\ Queueing /\ Solo
  BY DEF OneWorkerInv, ServerInv
<1>2. /\ pc[s] = "release"
      /\ UNCHANGED <<queued_sessions, strand_q, stopping, server_pc, cur>>
      /\ UNCHANGED <<object, queued, finished, chain, request_timer>>
  BY DEF ResetPermit, serverVars
<1>3. server_pc = "idle" /\ \A t \in Sessions \ {s} : pc[t] = "idle"
  BY <1>1, <1>2 DEF Solo
<1>4. OwnsPermit(s) <=> s \in permits
  BY <1>3 DEF OwnsPermit, InTransit
<1>5. /\ \A t \in Sessions \ {s} : pc'[t] = pc[t]
      /\ pc'[s] \in {"idle", "notify"}
  BY <1>1 DEF ResetPermit, TypeOK
<1>6. s \in permits => current_inflight # 0
  <2>1. IsFiniteSet(permits)
    BY <1>1, LimiterAssumption, FS_Subset DEF TypeOK, LimiterTypeOK
  <2>2. s \in permits => Cardinality(permits) # 0
    BY <2>1, FS_EmptySet
  <2> QED
    BY <1>1, <2>2 DEF LimiterInv, SlotsExact
<1>7. UNCHANGED <<queued_requests, closed>> /\ permits' = permits \ {s}
  BY <1>4 DEF ResetPermit, PermitRelease, limiterVars
<1>8. /\ current_inflight \in Nat /\ current_inflight' \in Nat
      /\ current_inflight' >= current_inflight \/ pc'[s] = "notify"
  <2>1. CASE s \in permits
    <3>1. pc'[s] = "notify"
      BY <1>1, <1>4, <1>6, <2>1 DEF ResetPermit, TypeOK
    <3>2. current_inflight' = current_inflight - 1 /\ current_inflight \in Nat
      BY <1>1, <1>4, <1>6, <2>1 DEF ResetPermit, PermitRelease, TypeOK, LimiterTypeOK
    <3> QED
      BY <1>6, <2>1, <3>1, <3>2
  <2>2. CASE s \notin permits
    BY <1>1, <1>4, <2>2 DEF ResetPermit, limiterVars, TypeOK, LimiterTypeOK
  <2> QED
    BY <2>1, <2>2
<1>9. Rest'
  BY <1>1, <1>2, <1>3, <1>5, <1>7, <1>8, OwnPart DEF Queueing
<1>10. \A t \in Sessions \ {s} : IsWaiting(t)' <=> IsWaiting(t)
  BY <1>2, <1>5, <1>7, OthersWait
<1>11. IsWaiting(s)' <=> IsWaiting(s)
  <2>1. Tasks' = Tasks
    BY <1>2 DEF Tasks, ElemsOf
  <2> QED
    BY <1>2, <1>5, <1>7, <2>1 DEF IsWaiting, InTransit, EnqueueTask
<1>12. Waiting' = Waiting
  BY <1>10, <1>11, WaitingIs, WaitingPrimeIs
<1>13. CASE s \in permits
  <2>1. AC!Leave(s)
    BY <1>7, <1>12, <1>13, Zenon DEF AC!Leave
  <2> QED
    BY <1>7, <1>9, <2>1 DEF AdmissionMove, Move
<1>14. CASE s \notin permits
  <2>1. permits' = permits
    BY <1>7, <1>14
  <2> QED
    BY <1>7, <1>9, <1>12, <2>1 DEF AdmissionMove
<1> QED
  BY <1>13, <1>14

(* The destructor gives up a place in the queue.                           *)
LEMMA DestroySolo ==
  ASSUME OneWorkerInv, Workers = 1, NEW s \in Sessions, Destroy(s)
  PROVE  Rest' /\ AdmissionMove
<1>1. TypeOK /\ LimiterInv /\ Queueing /\ QueueCountExact
  BY DEF OneWorkerInv, ServerInv
<1>2. /\ UNCHANGED <<queued_sessions, strand_q, stopping, server_pc, cur, finished>>
      /\ UNCHANGED <<closed, current_inflight, permits>>
      /\ current_inflight \in Nat /\ queued_requests \in Nat
  BY <1>1 DEF Destroy, CancelQueued, limiterVars, serverVars, TypeOK, LimiterTypeOK
<1>3. server_pc = "idle" /\ \A t \in Sessions : pc[t] = "idle"
  BY <1>1, Quiet DEF Destroy
<1>4. \A t \in Sessions \ {s} :
        /\ pc'[t] = pc[t] /\ object'[t] = object[t] /\ queued'[t] = queued[t]
        /\ chain'[t] = chain[t] /\ request_timer'[t] = request_timer[t]
  BY <1>1 DEF Destroy, TypeOK
<1>5. /\ queued'[s] = FALSE /\ chain'[s] = FALSE /\ request_timer'[s] = "off"
      /\ pc'[s] = (IF s \in permits THEN "release" ELSE "idle")
  BY <1>1 DEF Destroy, TypeOK
<1>6. Rest'
  BY <1>1, <1>2, <1>3, <1>4, <1>5, OwnPart DEF Queueing
<1>7. \A t \in Sessions \ {s} : IsWaiting(t)' <=> IsWaiting(t)
  BY <1>2, <1>4, OthersWait
<1>8. Tasks' = Tasks
  BY <1>2 DEF Tasks, ElemsOf
<1>9. IsWaiting(s)' <=> ~closed /\ EnqueueTask(s) \in Tasks
  BY <1>2, <1>5, <1>8 DEF IsWaiting, EnqueueTask
<1>10. IsWaiting(s) <=> ~closed /\ (EnqueueTask(s) \in Tasks \/ queued[s])
  BY <1>3 DEF IsWaiting, InTransit
<1>11. queued[s] => EnqueueTask(s) \notin Tasks
  BY <1>1 DEF Queueing
<1>12. CASE ~queued[s]
  <2>1. UNCHANGED limiterVars
    BY <1>12 DEF Destroy
  <2> QED
    BY <1>6, <1>7, <1>9, <1>10, <1>12, <2>1, NoMove
<1>13. CASE queued[s] /\ closed
  <2>1. queued_requests = 0
    BY <1>1, <1>13 DEF LimiterInv, ClosedEmpty
  <2>2. UNCHANGED limiterVars
    BY <1>2, <1>13, <2>1 DEF Destroy, CancelQueued, limiterVars
  <2> QED
    BY <1>6, <1>7, <1>9, <1>10, <1>13, <2>2, NoMove
<1>14. CASE queued[s] /\ ~closed
  <2>1. s \in Waiting /\ Waiting' = Waiting \ {s}
    BY <1>7, <1>9, <1>10, <1>11, <1>14, WaitingIs, WaitingPrimeIs
  <2>2. queued_requests # 0
    <3>1. IsFiniteSet(Waiting)
      BY WaitingIs, LimiterAssumption, FS_Subset
    <3>2. Cardinality(Waiting) # 0
      BY <2>1, <3>1, FS_EmptySet
    <3> QED
      BY <1>1, <3>2 DEF QueueCountExact
  <2>3. queued_requests' = queued_requests - 1
    BY <1>14, <2>2 DEF Destroy, CancelQueued
  <2>4. AC!GiveUp(s)
    BY <1>2, <2>1 DEF AC!GiveUp
  <2> QED
    BY <1>6, <2>3, <2>4 DEF AdmissionMove, Move
<1> QED
  BY <1>12, <1>13, <1>14

(* Time passes; a timer that is off stays off.                             *)
LEMMA TimerExpiresSolo ==
  ASSUME OneWorkerInv, NEW s \in Sessions, TimerExpires(s)
  PROVE  Rest' /\ AdmissionMove
<1>1. TypeOK /\ Queueing /\ Kept /\ Full /\ Woken /\ FinishedHoldsNoSlot
  BY DEF OneWorkerInv, ServerInv
<1>2. UNCHANGED <<limiterVars, serverVars, object, pc, queued, finished, chain>>
  BY DEF TimerExpires
<1>3. \A t \in Sessions : request_timer[t] = "off" => request_timer'[t] = "off"
  BY <1>1 DEF TimerExpires, TypeOK
<1>4. Tasks' = Tasks /\ \A t \in Sessions : InDeque(t)' <=> InDeque(t)
  BY <1>2 DEF Tasks, InDeque, ElemsOf, serverVars
<1>5. Queueing'
  BY <1>1, <1>2, <1>3, <1>4 DEF Queueing, serverVars, limiterVars, EnqueueTask
<1>6. Kept' /\ Full' /\ FinishedHoldsNoSlot'
  BY <1>1, <1>2, <1>4 DEF Kept, Full, FinishedHoldsNoSlot, serverVars, limiterVars
<1>7. Woken'
  BY <1>1, <1>2, <1>4 DEF Woken, serverVars, limiterVars, PromoteTask
<1>8. \A t \in Sessions : IsWaiting(t)' <=> IsWaiting(t)
  BY <1>2, <1>4 DEF IsWaiting, InTransit, serverVars, limiterVars, EnqueueTask
<1> QED
  BY <1>2, <1>5, <1>6, <1>7, <1>8, NoMove DEF Rest

(* What a post adds to the strand's queue.                                 *)
LEMMA PostedTask ==
  ASSUME TypeOK, NEW t \in Task, strand_q' = Append(strand_q, t)
  PROVE  Tasks' = Tasks \union {t}
<1>1. strand_q \in Seq(Task)
  BY DEF TypeOK
<1>2. ElemsOf(Append(strand_q, t)) = ElemsOf(strand_q) \union {t}
  BY <1>1, AppendElems
<1> QED
  BY <1>2 DEF Tasks, ElemsOf

(* No slot is free when the request is posted, so that its promotion is    *)
(* still to be posted.                                                     *)
LEMMA PostEnqueueSolo ==
  ASSUME OneWorkerInv, NEW s \in Sessions, PostEnqueue(s)
  PROVE  Rest' /\ AdmissionMove
<1>1. TypeOK /\ Queueing /\ Kept /\ Full /\ FinishedHoldsNoSlot /\ Solo
  BY DEF OneWorkerInv, ServerInv
<1>2. /\ pc[s] = "enqueue" /\ pc' = [pc EXCEPT ![s] = "idle"]
      /\ UNCHANGED <<limiterVars, queued_sessions, stopping, server_pc, cur, object, queued,
                     finished, chain, request_timer>>
      /\ strand_q' = Append(strand_q, EnqueueTask(s))
  BY DEF PostEnqueue
<1>3. UNCHANGED <<closed, current_inflight, permits>>
  BY <1>2 DEF limiterVars
<1>4. server_pc = "idle" /\ \A t \in Sessions \ {s} : pc[t] = "idle"
  BY <1>1, <1>2 DEF Solo
<1>5. Tasks' = Tasks \union {EnqueueTask(s)}
  BY <1>1, <1>2, PostedTask DEF Task
<1>6. \A t \in Sessions : pc'[t] = "idle"
  BY <1>1, <1>2, <1>4 DEF TypeOK
<1>7. ~queued[s] /\ ~finished[s] /\ ~chain[s] /\ request_timer[s] = "off"
  BY <1>1, <1>2 DEF Queueing
<1>8. \A t \in Sessions \ {s} : EnqueueTask(t) \in Tasks' <=> EnqueueTask(t) \in Tasks
  BY <1>5 DEF EnqueueTask
<1>9. Queueing'
  <2>1. ASSUME NEW t \in Sessions
        PROVE  /\ pc'[t] = "enqueue" \/ EnqueueTask(t) \in Tasks' \/ queued'[t] =>
                    ~finished'[t] /\ ~chain'[t] /\ request_timer'[t] = "off"
               /\ queued'[t] => /\ object'[t] = "live" /\ pc'[t] # "enqueue"
                                /\ EnqueueTask(t) \notin Tasks'
               /\ pc'[t] \in {"cancel", "dequeue"} => queued'[t]
    <3>1. CASE t = s
      BY <1>2, <1>6, <1>7, <3>1
    <3>2. CASE t # s
      BY <1>1, <1>2, <1>6, <1>8, <3>2 DEF Queueing
    <3> QED
      BY <3>1, <3>2
  <2>2. /\ server_pc' \notin Holding /\ server_pc' \notin {"drop", "notify"}
        /\ stopping' = closed'
    BY <1>1, <1>2, <1>3, <1>4 DEF Queueing, Holding
  <2> QED
    BY <2>1, <2>2 DEF Queueing, EnqueueTask
<1>10. Kept' /\ Full'
  BY <1>1, <1>2, <1>3, <1>4, <1>6 DEF Kept, Full, InDeque, ElemsOf, Holding
<1>11. Woken'
  <2>1. ~closed => ~(current_inflight < MaxInflight)
    BY <1>1, <1>2, LimiterAssumption DEF Full, TypeOK, LimiterTypeOK
  <2> QED
    BY <1>3, <2>1 DEF Woken
<1>12. FinishedHoldsNoSlot'
  BY <1>1, <1>2, <1>3, <1>4, <1>7 DEF FinishedHoldsNoSlot
<1>13. \A t \in Sessions : IsWaiting(t)' <=> IsWaiting(t)
  <2>1. \A t \in Sessions \ {s} : IsWaiting(t)' <=> IsWaiting(t)
    BY <1>2, <1>3, <1>4, <1>6, <1>8 DEF IsWaiting, InTransit, EnqueueTask
  <2>2. IsWaiting(s)' <=> IsWaiting(s)
    BY <1>2, <1>3, <1>5 DEF IsWaiting, EnqueueTask
  <2> QED
    BY <2>1, <2>2
<1> QED
  BY <1>2, <1>9, <1>10, <1>11, <1>12, <1>13, NoMove DEF Rest

(* The callback's promotion comes behind everything posted before.         *)
LEMMA NotifyReleaseSolo ==
  ASSUME OneWorkerInv, NEW s \in Sessions, NotifyRelease(s)
  PROVE  Rest' /\ AdmissionMove
<1>1. TypeOK /\ Queueing /\ Kept /\ Full /\ FinishedHoldsNoSlot /\ Solo
  BY DEF OneWorkerInv, ServerInv
<1>2. /\ pc[s] = "notify" /\ pc' = [pc EXCEPT ![s] = "idle"]
      /\ UNCHANGED <<limiterVars, queued_sessions, stopping, server_pc, cur, object, queued,
                     finished, chain, request_timer>>
      /\ strand_q' = Append(strand_q, PromoteTask)
  BY DEF NotifyRelease
<1>3. UNCHANGED <<closed, current_inflight, permits>>
  BY <1>2 DEF limiterVars
<1>4. server_pc = "idle" /\ \A t \in Sessions \ {s} : pc[t] = "idle"
  BY <1>1, <1>2 DEF Solo
<1>5. Tasks' = Tasks \union {PromoteTask}
  BY <1>1, <1>2, PostedTask DEF Task
<1>6. \A t \in Sessions : pc'[t] = "idle"
  BY <1>1, <1>2, <1>4 DEF TypeOK
<1>7. \A t \in Sessions : EnqueueTask(t) \in Tasks' <=> EnqueueTask(t) \in Tasks
  BY <1>5 DEF EnqueueTask, PromoteTask
<1>8. Queueing'
  <2>1. ASSUME NEW t \in Sessions
        PROVE  /\ pc'[t] = "enqueue" \/ EnqueueTask(t) \in Tasks' \/ queued'[t] =>
                    ~finished'[t] /\ ~chain'[t] /\ request_timer'[t] = "off"
               /\ queued'[t] => /\ object'[t] = "live" /\ pc'[t] # "enqueue"
                                /\ EnqueueTask(t) \notin Tasks'
               /\ pc'[t] \in {"cancel", "dequeue"} => queued'[t]
    BY <1>1, <1>2, <1>6, <1>7 DEF Queueing
  <2>2. /\ server_pc' \notin Holding /\ server_pc' \notin {"drop", "notify"}
        /\ stopping' = closed'
    BY <1>1, <1>2, <1>3, <1>4 DEF Queueing, Holding
  <2> QED
    BY <2>1, <2>2 DEF Queueing, EnqueueTask
<1>9. Kept' /\ Full'
  BY <1>1, <1>2, <1>3, <1>4, <1>6 DEF Kept, Full, InDeque, ElemsOf, Holding
<1>10. Woken'
  <2>1. Followed(strand_q')
    BY <1>1, <1>2, FollowedPromote DEF TypeOK
  <2> QED
    BY <1>5, <2>1 DEF Woken, PromoteTask
<1>11. FinishedHoldsNoSlot'
  BY <1>1, <1>2, <1>3, <1>4 DEF FinishedHoldsNoSlot
<1>12. \A t \in Sessions : IsWaiting(t)' <=> IsWaiting(t)
  BY <1>2, <1>3, <1>4, <1>6, <1>7 DEF IsWaiting, InTransit, EnqueueTask
<1> QED
  BY <1>2, <1>8, <1>9, <1>10, <1>11, <1>12, NoMove DEF Rest

-----------------------------------------------------------------------------
(***************************************************************************)
(* The server's strand                                                     *)
(***************************************************************************)

(* What starting the next handler takes from the strand's queue.           *)
LEMMA TakenTask ==
  ASSUME TypeOK, QueuedOnce, NEW t, NextTask(t)
  PROVE  /\ Tasks = Tasks' \union {t}
         /\ t \in EnqueueTasks => t \notin Tasks'
         /\ Followed(strand_q) =>
              Followed(strand_q') /\ (t \in EnqueueTasks => PromoteTask \in Tasks')
<1>1. /\ strand_q \in Seq(Task) /\ strand_q # <<>> /\ Head(strand_q) = t
      /\ strand_q' = Tail(strand_q)
  BY DEF NextTask, TypeOK
<1>2. ElemsOf(strand_q) = ElemsOf(Tail(strand_q)) \union {t}
  BY <1>1, TailElems
<1>3. Tasks = ElemsOf(strand_q) /\ Tasks' = ElemsOf(Tail(strand_q))
  BY <1>1 DEF Tasks, ElemsOf
<1>4. t \in EnqueueTasks => t \notin ElemsOf(strand_q')
  BY TakeTask
<1>5. ElemsOf(strand_q') = Tasks'
  BY DEF Tasks
<1>6. Followed(strand_q) =>
        /\ Followed(strand_q')
        /\ t \in EnqueueTasks => PromoteTask \in ElemsOf(Tail(strand_q))
  BY <1>1, FollowedTail
<1> QED
  BY <1>2, <1>3, <1>4, <1>5, <1>6

LEMMA AliveNext ==
  ASSUME TypeOK, QueuedOnce, Alive, [Next]_vars
  PROVE  Alive'
<1>1. ASSUME UNCHANGED <<strand_q, io>>,
             \A s \in Sessions : /\ object[s] = "live" => object'[s] = "live"
                                 /\ pc'[s] = "enqueue" => pc[s] = "enqueue"
      PROVE  Alive'
  BY <1>1 DEF Alive, Tasks, ElemsOf, EnqueueTask
<1>2. ASSUME NEW s \in Sessions, HandleRequest(s)
      PROVE  Alive'
  <2>1. /\ UNCHANGED <<strand_q, io>> /\ object' = [object EXCEPT ![s] = "live"]
        /\ \A t \in Sessions \ {s} : pc'[t] = pc[t]
    BY <1>2 DEF HandleRequest, serverVars, TypeOK
  <2> QED
    BY <2>1 DEF Alive, Tasks, ElemsOf, EnqueueTask, TypeOK
<1>3. ASSUME NEW s \in Sessions, SessionStep(s)
      PROVE  Alive'
  <2>1. UNCHANGED <<io, object>> /\ \A t \in Sessions : pc'[t] = "enqueue" => pc[t] = "enqueue"
    BY <1>3 DEF SessionStep, PostEnqueue, QueueTimerCancels, QueueTimerFails, ResetPermit,
                NotifyRelease, serverVars, TypeOK
  <2>2. CASE PostEnqueue(s)
    <3>1. Tasks' = Tasks \union {EnqueueTask(s)} /\ pc[s] = "enqueue"
      BY <2>2, PostedTask DEF PostEnqueue, Task
    <3>2. \A t \in Sessions \ {s} : EnqueueTask(t) \in Tasks' => EnqueueTask(t) \in Tasks
      BY <3>1 DEF EnqueueTask
    <3> QED
      BY <2>1, <3>1, <3>2 DEF Alive, EnqueueTask
  <2>3. CASE NotifyRelease(s)
    <3>1. Tasks' = Tasks \union {PromoteTask}
      BY <2>3, PostedTask DEF NotifyRelease, Task
    <3>2. \A t \in Sessions : EnqueueTask(t) \in Tasks' => EnqueueTask(t) \in Tasks
      BY <3>1 DEF EnqueueTask, PromoteTask
    <3> QED
      BY <2>1, <3>2 DEF Alive, EnqueueTask
  <2>4. CASE QueueTimerCancels(s) \/ QueueTimerFails(s) \/ ResetPermit(s)
    BY <1>1, <2>1, <2>4 DEF QueueTimerCancels, QueueTimerFails, ResetPermit, serverVars
  <2> QED
    BY <1>3, <2>2, <2>3, <2>4 DEF SessionStep
<1>4. ASSUME NEW s \in Sessions, SessionHandler(s) \/ TimerExpires(s)
      PROVE  Alive'
  BY <1>1, <1>4 DEF SessionHandler, QueueTimerFires, RequestTimerFires, ChainEnds,
                    TimerExpires, serverVars, TypeOK
<1>5. ASSUME NEW s \in Sessions, Destroy(s)
      PROVE  Alive'
  <2>1. /\ UNCHANGED <<strand_q, io>>
        /\ \A t \in Sessions \ {s} : pc'[t] = pc[t] /\ object'[t] = object[t]
        /\ pc'[s] # "enqueue"
    BY <1>5 DEF Destroy, serverVars, TypeOK
  <2>2. EnqueueTask(s) \notin Tasks \/ io = "stopped"
    BY <1>5 DEF Destroy, Unreferenced, TornDown, Tasks, ElemsOf
  <2> QED
    BY <2>1, <2>2 DEF Alive, Tasks, ElemsOf, EnqueueTask
<1>6. CASE ServerHandler
  <2>1. UNCHANGED <<object, pc, io>>
    BY <1>6 DEF ServerHandler, PromoteBegins, StopServer, EnqueueSession, sessionVars
  <2>2. PICK t : NextTask(t)
    BY <1>6 DEF ServerHandler, PromoteBegins, StopServer, EnqueueSession
  <2>3. Tasks' \subseteq Tasks
    BY <2>2, TakenTask
  <2> QED
    BY <2>1, <2>3 DEF Alive, EnqueueTask
<1>7. CASE ServerStep
  <2>1. UNCHANGED <<object, pc, io>>
    BY <1>7 DEF ServerStep, PromoteLoop, PromoteTry, PromoteDenied, TryStartFromQueue,
                BeginFromQueue, DropPermit, NotifyDrop, sessionVars
  <2>2. CASE NotifyDrop
    <3>1. Tasks' = Tasks \union {PromoteTask}
      BY <2>2, PostedTask DEF NotifyDrop, Task
    <3>2. \A t \in Sessions : EnqueueTask(t) \in Tasks' => EnqueueTask(t) \in Tasks
      BY <3>1 DEF EnqueueTask, PromoteTask
    <3> QED
      BY <2>1, <3>2 DEF Alive, EnqueueTask
  <2>3. CASE ~NotifyDrop
    <3>1. strand_q' = strand_q
      BY <1>7, <2>3 DEF ServerStep, PromoteLoop, PromoteTry, PromoteDenied,
                        TryStartFromQueue, BeginFromQueue, DropPermit
    <3> QED
      BY <1>1, <2>1, <3>1
  <2> QED
    BY <2>2, <2>3
<1>8. CASE SignalPostsStop
  <2>1. Tasks' = Tasks \union {StopTask}
    BY <1>8, PostedTask DEF SignalPostsStop, Task
  <2>2. \A t \in Sessions : EnqueueTask(t) \in Tasks' => EnqueueTask(t) \in Tasks
    BY <2>1 DEF EnqueueTask, StopTask
  <2> QED
    BY <1>8, <2>2 DEF Alive, EnqueueTask, SignalPostsStop, sessionVars
<1>9. CASE SignalStopsIo
  BY <1>9 DEF SignalStopsIo, sessionVars, Alive, Tasks, ElemsOf, EnqueueTask
<1>10. CASE UNCHANGED vars
  BY <1>1, <1>10 DEF vars, serverVars, sessionVars
<1> QED
  BY <1>2, <1>3, <1>4, <1>5, <1>6, <1>7, <1>8, <1>9, <1>10 DEF Next, Exited

(* A step that leaves the sessions alone.                                  *)
LEMMA ServerPart ==
  ASSUME OneWorkerInv, \A t \in Sessions : pc[t] = "idle", UNCHANGED sessionVars,
         stopping' = closed',
         \A t \in Sessions : EnqueueTask(t) \in Tasks' => EnqueueTask(t) \in Tasks,
         server_pc' \in Holding => queued[cur'],
         server_pc' \notin {"drop", "notify"},
         \A t \in Sessions : t \in permits' => t \in permits \/ ~finished[t],
         \A t \in Sessions :
           queued[t] /\ ~closed' => InDeque(t)' \/ (cur' = t /\ server_pc' \in Holding),
         ~closed' /\ server_pc' = "denied" => current_inflight' >= MaxInflight,
         ~closed' /\ current_inflight' < MaxInflight =>
           /\ Followed(strand_q')
           /\ (\E t \in Sessions : queued[t]) => PromoteTask \in Tasks' \/ server_pc' # "idle"
  PROVE  Rest'
<1>1. Queueing /\ FinishedHoldsNoSlot
  BY DEF OneWorkerInv
<1>2. UNCHANGED <<object, pc, queued, finished, chain, request_timer>>
  BY DEF sessionVars
<1>3. Queueing'
  <2>1. ASSUME NEW t \in Sessions
        PROVE  /\ pc'[t] = "enqueue" \/ EnqueueTask(t) \in Tasks' \/ queued'[t] =>
                    ~finished'[t] /\ ~chain'[t] /\ request_timer'[t] = "off"
               /\ queued'[t] => /\ object'[t] = "live" /\ pc'[t] # "enqueue"
                                /\ EnqueueTask(t) \notin Tasks'
               /\ pc'[t] \in {"cancel", "dequeue"} => queued'[t]
    BY <1>1, <1>2 DEF Queueing
  <2> QED
    BY <1>2, <2>1 DEF Queueing, EnqueueTask
<1>4. Kept' /\ Full'
  BY <1>2 DEF Kept, Full, Holding
<1>5. Woken'
  BY <1>2 DEF Woken, PromoteTask
<1>6. FinishedHoldsNoSlot'
  BY <1>1, <1>2 DEF FinishedHoldsNoSlot
<1> QED
  BY <1>3, <1>4, <1>5, <1>6 DEF Rest

(* A promotion or a stop that begins finds no handler in progress.         *)
LEMMA PromoteBeginsSolo ==
  ASSUME OneWorkerInv, Workers = 1, PromoteBegins
  PROVE  Rest' /\ AdmissionMove
<1>1. TypeOK /\ QueuedOnce /\ Queueing /\ Kept /\ Woken
  BY DEF OneWorkerInv, ServerInv
<1>2. /\ NextTask(PromoteTask) /\ server_pc' = "loop"
      /\ UNCHANGED <<limiterVars, queued_sessions, stopping, cur, sessionVars>>
  BY DEF PromoteBegins
<1>3. server_pc = "idle" /\ \A t \in Sessions : pc[t] = "idle"
  BY <1>1, <1>2, Quiet DEF NextTask, WorkerFree
<1>4. UNCHANGED <<closed, current_inflight, permits>>
  BY <1>2 DEF limiterVars
<1>5. Tasks = Tasks' \union {PromoteTask} /\ (Followed(strand_q) => Followed(strand_q'))
  BY <1>1, <1>2, TakenTask
<1>6. \A t \in Sessions : EnqueueTask(t) \in Tasks' <=> EnqueueTask(t) \in Tasks
  BY <1>5 DEF EnqueueTask, PromoteTask
<1>7. stopping' = closed' /\ server_pc' \notin Holding
  BY <1>1, <1>2, <1>4 DEF Queueing, Holding
<1>8. \A t \in Sessions : queued[t] /\ ~closed' => InDeque(t)'
  BY <1>1, <1>2, <1>3, <1>4 DEF Kept, InDeque, ElemsOf, Holding
<1>9. ~closed' /\ current_inflight' < MaxInflight => Followed(strand_q')
  BY <1>1, <1>3, <1>4, <1>5 DEF Woken
<1>10. Rest'
  BY <1>2, <1>3, <1>4, <1>6, <1>7, <1>8, <1>9, ServerPart
<1>11. \A t \in Sessions : IsWaiting(t)' <=> IsWaiting(t)
  BY <1>2, <1>3, <1>4, <1>6 DEF IsWaiting, InTransit, EnqueueTask, sessionVars
<1> QED
  BY <1>2, <1>10, <1>11, NoMove

LEMMA StopServerSolo ==
  ASSUME OneWorkerInv, Workers = 1, StopServer
  PROVE  Rest' /\ AdmissionMove
<1>1. TypeOK /\ QueuedOnce /\ Queueing
  BY DEF OneWorkerInv, ServerInv
<1>2. /\ NextTask(StopTask) /\ stopping' = TRUE /\ LimiterClose
      /\ UNCHANGED <<server_pc, cur, sessionVars>>
  BY DEF StopServer
<1>3. server_pc = "idle" /\ \A t \in Sessions : pc[t] = "idle"
  BY <1>1, <1>2, Quiet DEF NextTask, WorkerFree
<1>4. closed' = TRUE /\ queued_requests' = 0 /\ permits' = permits
  BY <1>2 DEF LimiterClose
<1>5. Tasks' \subseteq Tasks
  BY <1>1, <1>2, TakenTask
<1>6. server_pc' \notin Holding /\ server_pc' \notin {"drop", "notify"}
  BY <1>2, <1>3 DEF Holding
<1>7. Rest'
  BY <1>2, <1>3, <1>4, <1>5, <1>6, ServerPart
<1>8. Waiting' = {}
  BY <1>4, WaitingPrimeIs DEF IsWaiting
<1>9. AC!Shut
  BY <1>4, <1>8 DEF AC!Shut
<1> QED
  BY <1>4, <1>7, <1>9 DEF AdmissionMove

(* The head of the loop passes over no session that waits.                 *)
LEMMA PromoteLoopSolo ==
  ASSUME OneWorkerInv, PromoteLoop
  PROVE  Rest' /\ AdmissionMove
<1>1. TypeOK /\ Queueing /\ Kept /\ Woken /\ Solo
  BY DEF OneWorkerInv, ServerInv
<1>2. server_pc = "loop" /\ UNCHANGED <<limiterVars, stopping, strand_q, sessionVars>>
  BY DEF PromoteLoop
<1>3. \A t \in Sessions : pc[t] = "idle"
  BY <1>1, <1>2 DEF Solo
<1>4. UNCHANGED <<closed, current_inflight, permits>> /\ Tasks' = Tasks
  BY <1>2 DEF limiterVars, Tasks, ElemsOf
<1>5. \A t \in Sessions : queued[t] /\ ~closed => InDeque(t)
  BY <1>1, <1>2 DEF Kept, Holding
<1>6. stopping' = closed'
  BY <1>1, <1>2, <1>4 DEF Queueing
<1>7. ~closed' /\ current_inflight' < MaxInflight => Followed(strand_q')
  BY <1>1, <1>2, <1>3, <1>4 DEF Woken
<1>8. server_pc' \in {"idle", "loop", "try"}
  BY <1>2 DEF PromoteLoop
<1>9. \A t \in Sessions : EnqueueTask(t) \in Tasks' <=> EnqueueTask(t) \in Tasks
  BY <1>4
<1>10. \A t \in Sessions : IsWaiting(t)' <=> IsWaiting(t)
  BY <1>2, <1>4, <1>8, <1>9 DEF IsWaiting, InTransit, EnqueueTask, sessionVars
<1>11. AdmissionMove
  BY <1>2, <1>10, NoMove
<1>12. CASE queued_sessions = <<>>
  <2>1. server_pc' = "idle" /\ server_pc' \notin Holding
    BY <1>12 DEF PromoteLoop, Holding
  <2>2. \A t \in Sessions : ~InDeque(t)
    BY <1>12 DEF InDeque, ElemsOf
  <2>3. \A t \in Sessions : ~(queued[t] /\ ~closed')
    BY <1>4, <1>5, <2>2
  <2>4. Rest'
    BY <1>2, <1>3, <1>4, <1>6, <1>7, <2>1, <2>3, ServerPart
  <2> QED
    BY <1>11, <2>4
<1>13. CASE queued_sessions # <<>>
  <2> DEFINE h == Head(queued_sessions)
  <2>1. /\ h \in Sessions /\ queued_sessions' = Tail(queued_sessions)
        /\ ElemsOf(queued_sessions) = ElemsOf(Tail(queued_sessions)) \union {h}
    BY <1>1, <1>13, TailElems DEF TypeOK, PromoteLoop
  <2>2. \A t \in Sessions : InDeque(t) => InDeque(t)' \/ t = h
    BY <2>1 DEF InDeque
  <2>3. CASE object[h] = "live" /\ queued[h]
    <3>1. server_pc' = "try" /\ cur' = h
      BY <1>13, <2>3 DEF PromoteLoop
    <3>2. server_pc' \in Holding /\ server_pc' \notin {"drop", "notify", "denied", "idle"}
      BY <3>1 DEF Holding
    <3>3. Rest'
      BY <1>2, <1>3, <1>4, <1>5, <1>6, <1>7, <2>2, <2>3, <3>1, <3>2, ServerPart
    <3> QED
      BY <1>11, <3>3
  <2>4. CASE ~(object[h] = "live" /\ queued[h])
    <3>1. server_pc' = "loop"
      BY <1>2, <1>13, <2>4 DEF PromoteLoop
    <3>2. server_pc' \notin Holding /\ server_pc' \notin {"drop", "notify", "denied", "idle"}
      BY <3>1 DEF Holding
    <3>3. ~queued[h]
      BY <1>1, <2>1, <2>4 DEF Queueing
    <3>4. Rest'
      BY <1>2, <1>3, <1>4, <1>5, <1>6, <1>7, <2>2, <3>2, <3>3, ServerPart
    <3> QED
      BY <1>11, <3>4
  <2> QED
    BY <2>3, <2>4
<1> QED
  BY <1>12, <1>13

(* The session in the hands of the promotion waits, so the limiter counts  *)
(* it unless it is closed.                                                 *)
LEMMA CurWaits ==
  ASSUME OneWorkerInv, server_pc \in {"try", "denied"}, ~closed
  PROVE  cur \in Waiting /\ queued_requests # 0
<1>1. TypeOK /\ Queueing /\ Solo /\ QueueCountExact
  BY DEF OneWorkerInv, ServerInv
<1>2. cur \in Sessions /\ queued[cur] /\ pc[cur] = "idle"
  BY <1>1 DEF TypeOK, Queueing, Holding, Solo
<1>3. cur \in Waiting
  BY <1>2, WaitingIs DEF IsWaiting, InTransit
<1>4. IsFiniteSet(Waiting)
  BY WaitingIs, LimiterAssumption, FS_Subset
<1>5. Cardinality(Waiting) # 0
  BY <1>3, <1>4, FS_EmptySet
<1> QED
  BY <1>1, <1>3, <1>5 DEF QueueCountExact

LEMMA PromoteTrySolo ==
  ASSUME OneWorkerInv, PromoteTry
  PROVE  Rest' /\ AdmissionMove
<1>1. TypeOK /\ LimiterInv /\ QueuedOnce /\ Queueing /\ Kept /\ Woken /\ Solo
  BY DEF OneWorkerInv, ServerInv
<1>2. /\ server_pc = "try" /\ cur \in Sessions
      /\ UNCHANGED <<queued_sessions, stopping, strand_q, cur, sessionVars>>
  BY <1>1 DEF PromoteTry, TypeOK
<1>3. /\ \A t \in Sessions : pc[t] = "idle"
      /\ queued[cur] /\ ~finished[cur] /\ EnqueueTask(cur) \notin Tasks
  BY <1>1, <1>2 DEF Solo, Queueing, Holding
<1>4. PICK valid \in BOOLEAN :
        TryPromoteQueued(cur, valid) /\ server_pc' = IF valid THEN "start" ELSE "denied"
  BY DEF PromoteTry
<1>5. closed' = closed /\ Tasks' = Tasks /\ stopping' = closed'
  BY <1>1, <1>2, <1>4 DEF TryPromoteQueued, Tasks, ElemsOf, Queueing
<1>6. /\ server_pc' \in {"start", "denied"} /\ server_pc' \in Holding
      /\ server_pc' \notin {"drop", "notify"} /\ server_pc' # "idle"
  BY <1>4 DEF Holding
<1>7. \A t \in Sessions : EnqueueTask(t) \in Tasks' <=> EnqueueTask(t) \in Tasks
  BY <1>5
<1>8. \A t \in Sessions :
        queued[t] /\ ~closed' => InDeque(t)' \/ (cur' = t /\ server_pc' \in Holding)
  BY <1>1, <1>2, <1>5, <1>6 DEF Kept, InDeque, ElemsOf
<1>9. ~closed /\ current_inflight < MaxInflight => Followed(strand_q)
  BY <1>1, <1>3 DEF Woken
<1>10. queued[cur']
  BY <1>2, <1>3
<1>11. CASE valid
  <2>1. /\ ~closed /\ queued_requests # 0 /\ current_inflight < MaxInflight
        /\ queued_requests' = queued_requests - 1
        /\ current_inflight' = current_inflight + 1
        /\ permits' = permits \union {cur} /\ server_pc' = "start"
    <3>1. /\ ~closed /\ queued_requests # 0 /\ ~(current_inflight >= MaxInflight)
          /\ queued_requests' = queued_requests - 1
          /\ current_inflight' = current_inflight + 1
          /\ permits' = permits \union {cur} /\ server_pc' = "start"
      BY <1>4, <1>11 DEF TryPromoteQueued
    <3> QED
      BY <1>1, <3>1, LimiterAssumption DEF TypeOK, LimiterTypeOK
  <2>2. ~closed' /\ current_inflight' < MaxInflight => Followed(strand_q')
    BY <1>2, <1>9, <2>1
  <2>3. Rest'
    BY <1>2, <1>3, <1>5, <1>6, <1>7, <1>8, <1>10, <2>1, <2>2, ServerPart
  <2>4. cur \in Waiting
    BY <1>2, <2>1, CurWaits
  <2>5. ~IsWaiting(cur)'
    BY <1>2, <1>3, <1>7, <2>1 DEF IsWaiting, InTransit, EnqueueTask, sessionVars
  <2>6. \A t \in Sessions \ {cur} : IsWaiting(t)' <=> IsWaiting(t)
    BY <1>2, <1>5, <1>7, <2>1 DEF IsWaiting, InTransit, EnqueueTask, sessionVars
  <2>7. Waiting' = Waiting \ {cur}
    BY <1>2, <2>4, <2>5, <2>6, WaitingIs, WaitingPrimeIs
  <2>8. Cardinality(permits) < MaxInflight
    BY <1>1, <2>1 DEF LimiterInv, SlotsExact
  <2>9. AC!PromoteWaiting(cur)
    BY <1>5, <2>1, <2>4, <2>7, <2>8, SameCardinality, Zenon
       DEF AC!PromoteWaiting, AC!SlotFree
  <2> QED
    BY <1>2, <2>1, <2>3, <2>9 DEF AdmissionMove, Move
<1>12. CASE ~valid
  <2>1. /\ UNCHANGED limiterVars /\ server_pc' = "denied"
        /\ closed \/ queued_requests = 0 \/ current_inflight >= MaxInflight
    BY <1>4, <1>12 DEF TryPromoteQueued, limiterVars
  <2>2. UNCHANGED <<current_inflight, permits>>
    BY <2>1 DEF limiterVars
  <2>3. ~closed => current_inflight >= MaxInflight
    BY <1>2, <2>1, CurWaits
  <2>4. Rest'
    BY <1>2, <1>3, <1>5, <1>6, <1>7, <1>8, <1>9, <1>10, <2>2, <2>3, ServerPart
  <2>5. \A t \in Sessions : IsWaiting(t)' <=> IsWaiting(t)
    BY <1>2, <1>5, <1>7, <2>1 DEF IsWaiting, InTransit, EnqueueTask, sessionVars
  <2> QED
    BY <2>1, <2>4, <2>5, NoMove
<1> QED
  BY <1>11, <1>12

(* A session that gets no slot goes back to the front of the deque; it is  *)
(* forgotten only after close().                                           *)
LEMMA PromoteDeniedSolo ==
  ASSUME OneWorkerInv, PromoteDenied
  PROVE  Rest' /\ AdmissionMove
<1>1. TypeOK /\ Queueing /\ Kept /\ Full /\ Woken /\ Solo
  BY DEF OneWorkerInv, ServerInv
<1>2. /\ server_pc = "denied" /\ cur \in Sessions
      /\ UNCHANGED <<limiterVars, stopping, strand_q, cur, sessionVars>>
      /\ server_pc' \in {"idle", "loop"}
  BY <1>1 DEF PromoteDenied, TypeOK
<1>3. \A t \in Sessions : pc[t] = "idle"
  BY <1>1, <1>2 DEF Solo
<1>4. UNCHANGED <<closed, current_inflight, permits>> /\ Tasks' = Tasks
  BY <1>2 DEF limiterVars, Tasks, ElemsOf
<1>5. \A t \in Sessions : EnqueueTask(t) \in Tasks' <=> EnqueueTask(t) \in Tasks
  BY <1>4
<1>6. \A t \in Sessions : IsWaiting(t)' <=> IsWaiting(t)
  BY <1>2, <1>4, <1>5 DEF IsWaiting, InTransit, EnqueueTask, sessionVars
<1>7. AdmissionMove
  BY <1>2, <1>6, NoMove
<1>8. stopping' = closed'
  BY <1>1, <1>2, <1>4 DEF Queueing
<1>9. ~closed => ~(current_inflight < MaxInflight)
  BY <1>1, <1>2, LimiterAssumption DEF Full, TypeOK, LimiterTypeOK
<1>10. \A t \in Sessions : queued[t] /\ ~closed' => InDeque(t)'
  <2> SUFFICES ASSUME NEW t \in Sessions, queued[t], ~closed'
               PROVE  InDeque(t)'
    OBVIOUS
  <2>1. queued_requests # 0
    BY <1>2, <1>4, CurWaits
  <2>2. queued_sessions' = <<cur>> \o queued_sessions
    BY <2>1 DEF PromoteDenied
  <2>3. ElemsOf(<<cur>> \o queued_sessions) = ElemsOf(queued_sessions) \union {cur}
    BY <1>1, <1>2, PutBackElems DEF TypeOK
  <2>4. InDeque(t) \/ t = cur
    BY <1>1, <1>4 DEF Kept
  <2> QED
    BY <2>2, <2>3, <2>4 DEF InDeque
<1>11. server_pc' \notin Holding /\ server_pc' \notin {"drop", "notify", "denied"}
  BY <1>2 DEF Holding
<1>12. Rest'
  BY <1>2, <1>3, <1>4, <1>5, <1>8, <1>9, <1>10, <1>11, ServerPart
<1> QED
  BY <1>7, <1>12

(* try_start_from_queue finds its session still queued and not finished.   *)
LEMMA TryStartSolo ==
  ASSUME OneWorkerInv, TryStartFromQueue
  PROVE  Rest' /\ AdmissionMove
<1>1. TypeOK /\ Queueing /\ Kept /\ Woken /\ Solo
  BY DEF OneWorkerInv, ServerInv
<1>2. /\ server_pc = "start" /\ cur \in Sessions
      /\ UNCHANGED <<limiterVars, queued_sessions, stopping, strand_q, cur, sessionVars>>
  BY <1>1 DEF TryStartFromQueue, TypeOK
<1>3. queued[cur] /\ ~finished[cur] /\ \A t \in Sessions : pc[t] = "idle"
  BY <1>1, <1>2 DEF Queueing, Holding, Solo
<1>4. server_pc' = "begin" /\ server_pc' \in Holding
  BY <1>3 DEF TryStartFromQueue, Holding
<1>5. /\ UNCHANGED <<closed, current_inflight, permits>> /\ Tasks' = Tasks
      /\ stopping' = closed'
  BY <1>1, <1>2 DEF limiterVars, Tasks, ElemsOf, Queueing
<1>6. \A t \in Sessions : EnqueueTask(t) \in Tasks' <=> EnqueueTask(t) \in Tasks
  BY <1>5
<1>7. \A t \in Sessions :
        queued[t] /\ ~closed' => InDeque(t)' \/ (cur' = t /\ server_pc' \in Holding)
  BY <1>1, <1>2, <1>4, <1>5 DEF Kept, InDeque, ElemsOf
<1>8. ~closed' /\ current_inflight' < MaxInflight => Followed(strand_q')
  BY <1>1, <1>2, <1>3, <1>5 DEF Woken
<1>9. Rest'
  BY <1>2, <1>3, <1>4, <1>5, <1>6, <1>7, <1>8, ServerPart
<1>10. \A t \in Sessions : IsWaiting(t)' <=> IsWaiting(t)
  BY <1>2, <1>4, <1>5, <1>6 DEF IsWaiting, InTransit, EnqueueTask, sessionVars
<1> QED
  BY <1>2, <1>9, <1>10, NoMove

(* The promoted session leaves the queue and starts its exchange.          *)
LEMMA BeginSolo ==
  ASSUME OneWorkerInv, BeginFromQueue
  PROVE  Rest' /\ AdmissionMove
<1>1. TypeOK /\ Queueing /\ Kept /\ Woken /\ Solo /\ FinishedHoldsNoSlot
  BY DEF OneWorkerInv, ServerInv
<1>2. /\ server_pc = "begin" /\ cur \in Sessions /\ server_pc' = "loop"
      /\ queued' = [queued EXCEPT ![cur] = FALSE]
      /\ UNCHANGED <<limiterVars, queued_sessions, stopping, strand_q, cur, object, pc,
                     finished>>
  BY <1>1 DEF BeginFromQueue, TypeOK
<1>3. /\ \A t \in Sessions : pc[t] = "idle"
      /\ queued[cur] /\ EnqueueTask(cur) \notin Tasks
  BY <1>1, <1>2 DEF Queueing, Holding, Solo
<1>4. \A t \in Sessions \ {cur} :
        chain'[t] = chain[t] /\ request_timer'[t] = request_timer[t] /\ queued'[t] = queued[t]
  BY <1>1 DEF BeginFromQueue, StartProxyRequest, TypeOK
<1>5. UNCHANGED <<closed, current_inflight, permits>> /\ Tasks' = Tasks
  BY <1>2 DEF limiterVars, Tasks, ElemsOf
<1>6. \A t \in Sessions : EnqueueTask(t) \in Tasks' <=> EnqueueTask(t) \in Tasks
  BY <1>5
<1>7. queued'[cur] = FALSE
  BY <1>1, <1>2 DEF TypeOK
<1>8. Queueing'
  <2>1. ASSUME NEW t \in Sessions
        PROVE  /\ pc'[t] = "enqueue" \/ EnqueueTask(t) \in Tasks' \/ queued'[t] =>
                    ~finished'[t] /\ ~chain'[t] /\ request_timer'[t] = "off"
               /\ queued'[t] => /\ object'[t] = "live" /\ pc'[t] # "enqueue"
                                /\ EnqueueTask(t) \notin Tasks'
               /\ pc'[t] \in {"cancel", "dequeue"} => queued'[t]
    <3>1. CASE t = cur
      BY <1>2, <1>3, <1>6, <1>7, <3>1
    <3>2. CASE t # cur
      BY <1>1, <1>2, <1>4, <1>6, <3>2 DEF Queueing
    <3> QED
      BY <3>1, <3>2
  <2>2. /\ server_pc' \notin Holding /\ server_pc' \notin {"drop", "notify"}
        /\ stopping' = closed'
    BY <1>1, <1>2, <1>5 DEF Queueing, Holding
  <2> QED
    BY <2>1, <2>2 DEF Queueing, EnqueueTask
<1>9. Kept'
  <2>1. \A t \in Sessions : queued'[t] /\ ~closed' => t # cur /\ queued[t] /\ ~closed
    BY <1>4, <1>5, <1>7
  <2> QED
    BY <1>1, <1>2, <2>1 DEF Kept, InDeque, ElemsOf
<1>10. Full'
  BY <1>2, <1>3 DEF Full
<1>11. Woken'
  BY <1>1, <1>2, <1>3, <1>5 DEF Woken
<1>12. FinishedHoldsNoSlot'
  BY <1>1, <1>2, <1>5 DEF FinishedHoldsNoSlot
<1>13. \A t \in Sessions : IsWaiting(t)' <=> IsWaiting(t)
  <2>1. \A t \in Sessions \ {cur} : IsWaiting(t)' <=> IsWaiting(t)
    BY <1>2, <1>4, <1>5, <1>6 DEF IsWaiting, InTransit, EnqueueTask
  <2>2. \A t \in Sessions : t = cur => ~IsWaiting(t)' /\ ~IsWaiting(t)
    BY <1>2, <1>3, <1>6, <1>7 DEF IsWaiting, InTransit, EnqueueTask
  <2> QED
    BY <2>1, <2>2
<1> QED
  BY <1>2, <1>8, <1>9, <1>10, <1>11, <1>12, <1>13, NoMove DEF Rest

(* The deque's handler: behind it a promotion is posted if a slot has come *)
(* free since the request was sent to the queue.                           *)
LEMMA EnqueueSessionSolo ==
  ASSUME OneWorkerInv, Workers = 1, NEW s \in Sessions, EnqueueSession(s)
  PROVE  Rest' /\ AdmissionMove
<1>1. /\ TypeOK /\ QueuedOnce /\ Alive /\ Queueing /\ Kept /\ Full /\ Woken /\ Solo
      /\ FinishedHoldsNoSlot
  BY DEF OneWorkerInv, ServerInv
<1>2. /\ NextTask(EnqueueTask(s))
      /\ UNCHANGED <<limiterVars, stopping, server_pc, cur, object, pc, finished, chain,
                     request_timer>>
  BY DEF EnqueueSession
<1>3. server_pc = "idle" /\ io # "stopped" /\ \A t \in Sessions : pc[t] = "idle"
  BY <1>1, <1>2, Quiet DEF NextTask, WorkerFree
<1>4. UNCHANGED <<closed, current_inflight, permits>> /\ stopping = closed
  BY <1>1, <1>2 DEF limiterVars, Queueing
<1>5. EnqueueTask(s) \in EnqueueTasks
  BY DEF EnqueueTasks
<1>6. /\ Tasks = Tasks' \union {EnqueueTask(s)} /\ EnqueueTask(s) \notin Tasks'
      /\ Followed(strand_q) => Followed(strand_q') /\ PromoteTask \in Tasks'
  BY <1>1, <1>2, <1>5, TakenTask
<1>7. \A t \in Sessions \ {s} : EnqueueTask(t) \in Tasks' <=> EnqueueTask(t) \in Tasks
  BY <1>6 DEF EnqueueTask
<1>8. /\ ~queued[s] /\ ~finished[s] /\ ~chain[s] /\ request_timer[s] = "off"
      /\ object[s] = "live"
  BY <1>1, <1>3, <1>6 DEF Queueing, Alive
<1>9. \A t \in Sessions \ {s} : queued'[t] = queued[t]
  BY <1>1 DEF EnqueueSession, TypeOK
<1>10. Queueing'
  <2>1. ASSUME NEW t \in Sessions
        PROVE  /\ pc'[t] = "enqueue" \/ EnqueueTask(t) \in Tasks' \/ queued'[t] =>
                    ~finished'[t] /\ ~chain'[t] /\ request_timer'[t] = "off"
               /\ queued'[t] => /\ object'[t] = "live" /\ pc'[t] # "enqueue"
                                /\ EnqueueTask(t) \notin Tasks'
               /\ pc'[t] \in {"cancel", "dequeue"} => queued'[t]
    <3>1. CASE t = s
      BY <1>2, <1>3, <1>6, <1>8, <3>1
    <3>2. CASE t # s
      BY <1>1, <1>2, <1>3, <1>7, <1>9, <3>2 DEF Queueing
    <3> QED
      BY <3>1, <3>2
  <2>2. /\ server_pc' \notin Holding /\ server_pc' \notin {"drop", "notify"}
        /\ stopping' = closed'
    BY <1>2, <1>3, <1>4 DEF Holding
  <2> QED
    BY <2>1, <2>2 DEF Queueing, EnqueueTask
<1>11. Full' /\ FinishedHoldsNoSlot'
  BY <1>1, <1>2, <1>3, <1>4 DEF Full, FinishedHoldsNoSlot
<1>12. Woken'
  <2>1. ~closed /\ current_inflight < MaxInflight => Followed(strand_q)
    BY <1>1, <1>3 DEF Woken
  <2> QED
    BY <1>4, <1>6, <2>1 DEF Woken, PromoteTask
<1>13. CASE closed
  <2>1. Kept'
    BY <1>4, <1>13 DEF Kept
  <2>2. \A t \in Sessions : IsWaiting(t)' <=> IsWaiting(t)
    BY <1>4, <1>13 DEF IsWaiting
  <2> QED
    BY <1>2, <1>10, <1>11, <1>12, <2>1, <2>2, NoMove DEF Rest
<1>14. CASE ~closed
  <2>1. queued_sessions' = Append(queued_sessions, s) /\ queued'[s] = TRUE
    BY <1>1, <1>4, <1>14 DEF EnqueueSession, TypeOK
  <2>2. ElemsOf(Append(queued_sessions, s)) = ElemsOf(queued_sessions) \union {s}
    BY <1>1, AppendElems DEF TypeOK
  <2>3. \A t \in Sessions : InDeque(t)' <=> InDeque(t) \/ t = s
    BY <2>1, <2>2 DEF InDeque
  <2>4. Kept'
    BY <1>1, <1>3, <1>4, <1>9, <2>3 DEF Kept, Holding
  <2>5. \A t \in Sessions \ {s} : IsWaiting(t)' <=> IsWaiting(t)
    BY <1>2, <1>3, <1>4, <1>7, <1>9 DEF IsWaiting, InTransit, EnqueueTask
  <2>6. IsWaiting(s)' <=> IsWaiting(s)
    BY <1>2, <1>3, <1>4, <1>6, <1>14, <2>1 DEF IsWaiting, InTransit, EnqueueTask
  <2> QED
    BY <1>2, <1>10, <1>11, <1>12, <2>4, <2>5, <2>6, NoMove DEF Rest
<1> QED
  BY <1>13, <1>14

-----------------------------------------------------------------------------
(***************************************************************************)
(* The signals, and steps that change nothing                              *)
(***************************************************************************)
LEMMA SignalSolo ==
  ASSUME OneWorkerInv, Workers = 1, SignalPostsStop \/ SignalStopsIo \/ UNCHANGED vars
  PROVE  Rest' /\ AdmissionMove
<1>1. TypeOK /\ Queueing /\ Kept /\ Full /\ Woken /\ Solo /\ FinishedHoldsNoSlot
  BY DEF OneWorkerInv, ServerInv
<1>2. UNCHANGED <<limiterVars, queued_sessions, stopping, server_pc, cur, sessionVars>>
  BY DEF SignalPostsStop, SignalStopsIo, vars, serverVars
<1>3. /\ UNCHANGED <<closed, current_inflight, permits, object, pc, queued, finished, chain,
                     request_timer>>
      /\ \A t \in Sessions : InDeque(t)' <=> InDeque(t)
  BY <1>2 DEF limiterVars, sessionVars, InDeque, ElemsOf
<1>4. /\ \A t \in Sessions : EnqueueTask(t) \in Tasks' <=> EnqueueTask(t) \in Tasks
      /\ PromoteTask \in Tasks' <=> PromoteTask \in Tasks
      /\ Followed(strand_q) => Followed(strand_q')
  <2>1. CASE SignalPostsStop
    <3>1. /\ strand_q \in Seq(Task) /\ StopTask \in Task /\ StopTask \notin EnqueueTasks
          /\ strand_q' = Append(strand_q, StopTask)
      BY <1>1, <2>1 DEF SignalPostsStop, TypeOK, Task, EnqueueTasks, EnqueueTask, StopTask
    <3>2. Tasks' = Tasks \union {StopTask}
      BY <1>1, <3>1, PostedTask
    <3>3. Followed(strand_q) => Followed(strand_q')
      BY <3>1, FollowedOther
    <3> QED
      BY <3>2, <3>3 DEF EnqueueTask, PromoteTask, StopTask
  <2>2. CASE strand_q' = strand_q
    BY <2>2 DEF Tasks, ElemsOf
  <2> QED
    BY <2>1, <2>2 DEF SignalStopsIo, vars, serverVars
<1>5. Queueing'
  <2>1. ASSUME NEW t \in Sessions
        PROVE  /\ pc'[t] = "enqueue" \/ EnqueueTask(t) \in Tasks' \/ queued'[t] =>
                    ~finished'[t] /\ ~chain'[t] /\ request_timer'[t] = "off"
               /\ queued'[t] => /\ object'[t] = "live" /\ pc'[t] # "enqueue"
                                /\ EnqueueTask(t) \notin Tasks'
               /\ pc'[t] \in {"cancel", "dequeue"} => queued'[t]
    BY <1>1, <1>3, <1>4 DEF Queueing
  <2> QED
    BY <1>1, <1>2, <1>3, <2>1 DEF Queueing, EnqueueTask
<1>6. Kept' /\ Full' /\ FinishedHoldsNoSlot'
  BY <1>1, <1>2, <1>3 DEF Kept, Full, FinishedHoldsNoSlot
<1>7. Woken'
  BY <1>1, <1>2, <1>3, <1>4 DEF Woken, PromoteTask
<1>8. \A t \in Sessions : IsWaiting(t)' <=> IsWaiting(t)
  BY <1>2, <1>3, <1>4 DEF IsWaiting, InTransit, EnqueueTask
<1> QED
  BY <1>2, <1>5, <1>6, <1>7, <1>8, NoMove DEF Rest

-----------------------------------------------------------------------------
LEMMA InitOneWorker == Init => OneWorkerInv /\ AC!AdmissionInit
<1> SUFFICES ASSUME Init PROVE OneWorkerInv /\ AC!AdmissionInit
  OBVIOUS
<1>1. ServerInv /\ OutcomeInv
  BY InitOutcome
<1>2. /\ permits = {} /\ queued_requests = 0 /\ closed = FALSE /\ stopping = FALSE
      /\ strand_q = <<>> /\ server_pc = "idle" /\ io = "run"
      /\ \A s \in Sessions : /\ pc[s] = "idle" /\ queued[s] = FALSE
                             /\ finished[s] = FALSE
  BY DEF Init, LimiterInit
<1>3. Tasks = {}
  BY <1>2 DEF Tasks, ElemsOf
<1>4. Solo /\ Alive /\ Queueing /\ Kept /\ FinishedHoldsNoSlot
  BY <1>2, <1>3 DEF Solo, Alive, Queueing, Kept, FinishedHoldsNoSlot, Holding
<1>5. Full /\ Woken
  BY <1>2 DEF Full, Woken, Followed
<1>6. Waiting = {}
  BY <1>2, <1>3 DEF Waiting
<1>7. QueueCountExact
  BY <1>2, <1>6, FS_EmptySet DEF QueueCountExact
<1>8. AC!AdmissionInit
  BY <1>2, <1>6 DEF AC!AdmissionInit
<1> QED
  BY <1>1, <1>4, <1>5, <1>7, <1>8 DEF OneWorkerInv

LEMMA NextOneWorker ==
  ASSUME Workers = 1, OneWorkerInv, [Next]_vars
  PROVE  OneWorkerInv' /\ AdmissionMove
<1>1. /\ ServerInv /\ OutcomeInv /\ TypeOK /\ QueuedOnce /\ Solo /\ Alive /\ Queueing
      /\ QueueCountExact
  BY DEF OneWorkerInv, ServerInv
<1>2. ServerInv' /\ OutcomeInv'
  BY <1>1, NextOutcome
<1>3. Solo' /\ Alive'
  BY <1>1, SoloNext, AliveNext
<1>4. Rest' /\ AdmissionMove
  <2>1. ASSUME NEW s \in Sessions,
               HandleRequest(s) \/ SessionStep(s) \/ SessionHandler(s) \/ TimerExpires(s)
                 \/ Destroy(s)
        PROVE  Rest' /\ AdmissionMove
    BY <2>1, HandleRequestSolo, PostEnqueueSolo, QueueTimerSolo, ResetPermitSolo,
       NotifyReleaseSolo, RequestEndsSolo, TimerExpiresSolo, DestroySolo
       DEF SessionStep, SessionHandler
  <2>2. CASE ServerHandler
    BY <2>2, PromoteBeginsSolo, StopServerSolo, EnqueueSessionSolo DEF ServerHandler
  <2>3. CASE ServerStep
    <3>1. ~DropPermit /\ ~NotifyDrop
      BY <1>1 DEF Queueing, DropPermit, NotifyDrop
    <3> QED
      BY <2>3, <3>1, PromoteLoopSolo, PromoteTrySolo, PromoteDeniedSolo, TryStartSolo,
         BeginSolo DEF ServerStep
  <2>4. CASE SignalPostsStop \/ SignalStopsIo \/ UNCHANGED vars
    BY <2>4, SignalSolo
  <2> QED
    BY <2>1, <2>2, <2>3, <2>4 DEF Next, Exited
<1>5. QueueCountExact'
  BY <1>1, <1>4, MoveCounts
<1> QED
  BY <1>2, <1>3, <1>4, <1>5 DEF OneWorkerInv, Rest

-----------------------------------------------------------------------------
(***************************************************************************)
(* With one worker thread the limiter's count of queued requests is the    *)
(* number of requests that really wait: on every path out of the queue     *)
(* (promotion, queue timeout, destruction, close) each caller keeps to the *)
(* contract in the header of InflightLimiter.                              *)
(***************************************************************************)
THEOREM QueueCountCorrect ==
  ASSUME Workers = 1 PROVE Spec => []QueueCountExact
<1>1. OneWorkerInv => QueueCountExact
  BY DEF OneWorkerInv
<1>2. Init => OneWorkerInv
  BY InitOneWorker
<1>3. OneWorkerInv /\ [Next]_vars => OneWorkerInv'
  BY NextOneWorker
<1> QED
  BY <1>1, <1>2, <1>3, PTL DEF Spec

(***************************************************************************)
(* With one worker thread no wakeup is lost: enqueue_session's post and    *)
(* the post of the on_release callback reach promote_queued_sessions in an *)
(* order that leaves no session behind while a slot is free, and the deque *)
(* forgets nobody who waits.                                               *)
(***************************************************************************)
THEOREM WakeupCorrect ==
  ASSUME Workers = 1 PROVE Spec => []NoLostWakeup
<1>1. OneWorkerInv => NoLostWakeup
  <2> SUFFICES ASSUME OneWorkerInv, NEW s \in Waiting, queued[s]
               PROVE  /\ InDeque(s) \/ (server_pc # "idle" /\ cur = s)
                      /\ current_inflight < MaxInflight =>
                           \/ PromoteTask \in Tasks
                           \/ server_pc # "idle"
                           \/ \E r \in Sessions : pc[r] = "notify"
    BY DEF NoLostWakeup
  <2>1. s \in Sessions /\ ~closed
    BY DEF Waiting
  <2>2. Kept /\ Woken
    BY DEF OneWorkerInv
  <2>3. InDeque(s) \/ (server_pc # "idle" /\ cur = s)
    BY <2>1, <2>2 DEF Kept, Holding
  <2> QED
    BY <2>1, <2>2, <2>3 DEF Woken
<1>2. Init => OneWorkerInv
  BY InitOneWorker
<1>3. OneWorkerInv /\ [Next]_vars => OneWorkerInv'
  BY NextOneWorker
<1> QED
  BY <1>1, <1>2, <1>3, PTL DEF Spec

(***************************************************************************)
(* With one worker thread a request that has its final answer occupies no  *)
(* slot: permit_.reset() in fail_with_status and finish_request never      *)
(* comes too early for the permit of a promotion.                          *)
(***************************************************************************)
THEOREM FinishedCorrect ==
  ASSUME Workers = 1 PROVE Spec => []FinishedHoldsNoSlot
<1>1. OneWorkerInv => FinishedHoldsNoSlot
  BY DEF OneWorkerInv
<1>2. Init => OneWorkerInv
  BY InitOneWorker
<1>3. OneWorkerInv /\ [Next]_vars => OneWorkerInv'
  BY NextOneWorker
<1> QED
  BY <1>1, <1>2, <1>3, PTL DEF Spec

(***************************************************************************)
(* With one worker thread the proxy implements AdmissionControl: whatever  *)
(* the timers, the strands and the releases do, the sessions that hold a   *)
(* slot and those that wait change only as the abstract specification lets *)
(* them.                                                                   *)
(***************************************************************************)
THEOREM AdmissionImplemented ==
  ASSUME Workers = 1 PROVE Spec => ImplementsAdmission
<1>1. Init => OneWorkerInv /\ AC!AdmissionInit
  BY InitOneWorker
<1>2. OneWorkerInv /\ [Next]_vars => OneWorkerInv' /\ [AC!AdmissionNext]_(AC!admissionVars)
  <2> SUFFICES ASSUME OneWorkerInv, [Next]_vars
               PROVE  OneWorkerInv' /\ [AC!AdmissionNext]_(AC!admissionVars)
    OBVIOUS
  <2>1. OneWorkerInv' /\ AdmissionMove
    BY NextOneWorker
  <2>2. CASE \E s \in Sessions : Move(s)
    BY <2>1, <2>2 DEF Move, AC!AdmissionNext
  <2>3. CASE AC!Shut
    BY <2>1, <2>3 DEF AC!AdmissionNext
  <2>4. CASE UNCHANGED <<permits, Waiting, closed>>
    BY <2>1, <2>4 DEF AC!admissionVars
  <2> QED
    BY <2>1, <2>2, <2>3, <2>4 DEF AdmissionMove
<1> QED
  BY <1>1, <1>2, PTL DEF Spec, ImplementsAdmission, AC!AdmissionSpec
=============================================================================
