-------------------------- MODULE ProxyServerProofs --------------------------
(***************************************************************************)
(* Proofs about ProxyServer, for any number of sessions and worker threads *)
(* and any limits.                                                         *)
(***************************************************************************)
EXTENDS ProxyServer, InflightLimiterProofs

-----------------------------------------------------------------------------
(***************************************************************************)
(* Type correctness                                                        *)
(***************************************************************************)

(* The methods of the limiter keep its types; no count becomes negative.   *)
LEMMA LimiterTypes ==
  ASSUME LimiterTypeOK, NEW s \in Sessions,
         \/ \E d \in InflightDecision : TryAcquireOrQueue(s, d)
         \/ \E valid \in BOOLEAN : TryPromoteQueued(s, valid)
         \/ CancelQueued \/ LimiterClose \/ PermitRelease(s)
         \/ UNCHANGED limiterVars
  PROVE  LimiterTypeOK'
<1> USE LimiterAssumption DEF LimiterTypeOK
<1>1. CASE \E d \in InflightDecision : TryAcquireOrQueue(s, d)
  BY <1>1 DEF TryAcquireOrQueue, limiterVars
<1>2. CASE \E valid \in BOOLEAN : TryPromoteQueued(s, valid)
  BY <1>2 DEF TryPromoteQueued
<1>3. CASE CancelQueued
  BY <1>3 DEF CancelQueued
<1>4. CASE LimiterClose
  BY <1>4 DEF LimiterClose
<1>5. CASE PermitRelease(s)
  BY <1>5 DEF PermitRelease
<1>6. CASE UNCHANGED limiterVars
  BY <1>6 DEF limiterVars
<1> QED
  BY <1>1, <1>2, <1>3, <1>4, <1>5, <1>6

(* The end of a request: timers and metrics.                               *)
LEMMA EndRequestTypes ==
  ASSUME TypeOK, NEW s \in Sessions, NEW outcome \in {"completed", "failed"},
         EndRequest(s, outcome)
  PROVE  /\ finished' \in [Sessions -> BOOLEAN]
         /\ queue_timer' \in [Sessions -> TimerState]
         /\ request_timer' \in [Sessions -> TimerState]
         /\ metrics' \in [Counters -> Nat]
<1> USE DEF TypeOK, EndRequest
<1>1. finished' \in [Sessions -> BOOLEAN]
  OBVIOUS
<1>2. queue_timer' \in [Sessions -> TimerState]
  BY DEF Cancelled, TimerState
<1>3. request_timer' \in [Sessions -> TimerState]
  BY DEF Cancelled, TimerState
<1>4. metrics' \in [Counters -> Nat]
  BY DEF Counters
<1> QED
  BY <1>1, <1>2, <1>3, <1>4

(* A started handler of a session's strand.                                *)
LEMMA SessionStepTypes ==
  ASSUME TypeOK, NEW s \in Sessions, SessionStep(s)
  PROVE  TypeOK'
<1> USE DEF TypeOK, SessionPc, TimerState, serverVars, sessionVars
<1>1. CASE PostEnqueue(s)
  BY <1>1, LimiterTypes DEF PostEnqueue, Task
<1>2. CASE QueueTimerCancels(s)
  BY <1>2, LimiterTypes DEF QueueTimerCancels
<1>3. CASE QueueTimerFails(s)
  <2>1. CASE finished[s]
    BY <1>3, <2>1, LimiterTypes DEF QueueTimerFails
  <2>2. CASE ~finished[s]
    BY <1>3, <2>2, LimiterTypes, EndRequestTypes DEF QueueTimerFails
  <2> QED
    BY <2>1, <2>2
<1>4. CASE ResetPermit(s)
  BY <1>4, LimiterTypes DEF ResetPermit
<1>5. CASE NotifyRelease(s)
  BY <1>5, LimiterTypes DEF NotifyRelease, Task
<1> QED
  BY <1>1, <1>2, <1>3, <1>4, <1>5 DEF SessionStep

(* A handler that a session's strand starts, a timer that expires, and the *)
(* destructor.                                                             *)
LEMMA SessionHandlerTypes ==
  ASSUME TypeOK, NEW s \in Sessions,
         SessionHandler(s) \/ TimerExpires(s) \/ Destroy(s)
  PROVE  TypeOK'
<1> USE DEF TypeOK, SessionPc, TimerState, serverVars, sessionVars
<1>1. CASE QueueTimerFires(s)
  BY <1>1, LimiterTypes DEF QueueTimerFires
<1>2. CASE RequestTimerFires(s)
  <2>1. CASE finished[s]
    BY <1>2, <2>1, LimiterTypes DEF RequestTimerFires
  <2>2. CASE ~finished[s]
    <3>1. metrics' \in [Counters -> Nat]
      BY <1>2, <2>2 DEF RequestTimerFires, Counters
    <3>2. queue_timer' \in [Sessions -> TimerState]
      BY <1>2, <2>2 DEF RequestTimerFires, Cancelled
    <3> QED
      BY <1>2, <2>2, <3>1, <3>2, LimiterTypes DEF RequestTimerFires
  <2> QED
    BY <2>1, <2>2
<1>3. CASE ChainEnds(s)
  <2>1. CASE finished[s]
    BY <1>3, <2>1, LimiterTypes DEF ChainEnds
  <2>2. CASE ~finished[s]
    BY <1>3, <2>2, LimiterTypes, EndRequestTypes DEF ChainEnds
  <2> QED
    BY <2>1, <2>2
<1>4. CASE TimerExpires(s)
  BY <1>4, LimiterTypes DEF TimerExpires
<1>5. CASE Destroy(s)
  BY <1>5, LimiterTypes DEF Destroy
<1> QED
  BY <1>1, <1>2, <1>3, <1>4, <1>5 DEF SessionHandler

(* A new request.                                                          *)
LEMMA HandleRequestTypes ==
  ASSUME TypeOK, NEW s \in Sessions, HandleRequest(s)
  PROVE  TypeOK'
<1> USE DEF TypeOK, SessionPc, TimerState, serverVars, Counters
<1>1. PICK d \in InflightDecision :
        /\ TryAcquireOrQueue(s, d)
        /\ \/ /\ d = "Admit"
              /\ StartProxyRequest(s)
              /\ metrics' = [metrics EXCEPT !["total"] = @ + 1]
              /\ UNCHANGED <<pc, finished>>
           \/ /\ d = "Queue"
              /\ pc' = [pc EXCEPT ![s] = "enqueue"]
              /\ metrics' = [metrics EXCEPT !["total"] = @ + 1]
              /\ UNCHANGED <<finished, chain, request_timer>>
           \/ /\ d \in {"Reject", "Closed"}
              /\ finished' = [finished EXCEPT ![s] = TRUE]
              /\ metrics' = [metrics EXCEPT !["total"] = @ + 1, !["failed"] = @ + 1]
              /\ UNCHANGED <<pc, chain, request_timer>>
  BY DEF HandleRequest
<1>2. LimiterTypeOK'
  BY <1>1, LimiterTypes
<1>3. /\ object' \in [Sessions -> {"none", "live", "destroyed"}]
      /\ UNCHANGED <<queued_sessions, stopping, strand_q, server_pc, cur, io, queued,
                     queue_timer>>
  BY DEF HandleRequest
<1>4. /\ pc' \in [Sessions -> SessionPc]
      /\ metrics' \in [Counters -> Nat]
      /\ request_timer' \in [Sessions -> TimerState]
  BY <1>1 DEF StartProxyRequest
<1>5. finished' \in [Sessions -> BOOLEAN] /\ chain' \in [Sessions -> BOOLEAN]
  BY <1>1 DEF StartProxyRequest
<1> QED
  BY <1>2, <1>3, <1>4, <1>5

(* The handlers of the server's strand.                                    *)
LEMMA ServerTypes ==
  ASSUME TypeOK, ServerStep \/ ServerHandler
  PROVE  TypeOK'
<1> USE DEF TypeOK, ServerPc, serverVars, sessionVars
<1>1. ASSUME NEW s \in Sessions, EnqueueSession(s)
      PROVE  TypeOK'
  <2>1. CASE stopping
    BY <1>1, <2>1, LimiterTypes DEF EnqueueSession, NextTask
  <2>2. CASE ~stopping
    <3>1. queued_sessions' = Append(queued_sessions, s)
      BY <1>1, <2>2, Zenon DEF EnqueueSession
    <3>2. queued_sessions' \in Seq(Sessions)
      BY <1>1, <3>1
    <3>3. strand_q' \in Seq(Task)
      BY <1>1 DEF EnqueueSession, NextTask
    <3>4. queued' \in [Sessions -> BOOLEAN]
      BY <1>1, <2>2 DEF EnqueueSession
    <3>5. queue_timer' \in [Sessions -> TimerState]
      BY <1>1, <2>2 DEF EnqueueSession, TimerState
    <3> QED
      BY <1>1, <3>2, <3>3, <3>4, <3>5, LimiterTypes DEF EnqueueSession
  <2> QED
    BY <2>1, <2>2
<1>2. CASE PromoteBegins
  BY <1>2, LimiterTypes DEF PromoteBegins, NextTask
<1>3. CASE StopServer
  BY <1>3, LimiterTypes DEF StopServer, NextTask
<1>4. CASE PromoteLoop
  <2>1. CASE queued_sessions = <<>>
    BY <1>4, <2>1, LimiterTypes DEF PromoteLoop
  <2>2. CASE queued_sessions # <<>>
    <3>1. Head(queued_sessions) \in Sessions /\ Tail(queued_sessions) \in Seq(Sessions)
      BY <2>2
    <3>2. queued_sessions' \in Seq(Sessions) /\ cur' \in Sessions /\ server_pc' \in ServerPc
      BY <1>4, <2>2, <3>1 DEF PromoteLoop
    <3> QED
      BY <1>4, <3>2, LimiterTypes DEF PromoteLoop
  <2> QED
    BY <2>1, <2>2
<1>5. CASE PromoteTry
  BY <1>5, LimiterTypes DEF PromoteTry
<1>6. CASE PromoteDenied
  <2>1. queued_sessions' \in Seq(Sessions) /\ server_pc' \in ServerPc
    <3>1. <<cur>> \o queued_sessions \in Seq(Sessions)
      OBVIOUS
    <3> QED
      BY <1>6, <3>1 DEF PromoteDenied
  <2> QED
    BY <1>6, <2>1, LimiterTypes DEF PromoteDenied
<1>7. CASE TryStartFromQueue
  BY <1>7, LimiterTypes DEF TryStartFromQueue
<1>8. CASE BeginFromQueue
  BY <1>8, LimiterTypes DEF BeginFromQueue, StartProxyRequest, Cancelled, TimerState
<1>9. CASE DropPermit
  BY <1>9, LimiterTypes DEF DropPermit
<1>10. CASE NotifyDrop
  BY <1>10, LimiterTypes DEF NotifyDrop, Task
<1> QED
  BY <1>1, <1>2, <1>3, <1>4, <1>5, <1>6, <1>7, <1>8, <1>9, <1>10
     DEF ServerStep, ServerHandler

(* The signal handler and the stutter after the exit.                      *)
LEMMA SignalTypes ==
  ASSUME TypeOK, SignalPostsStop \/ SignalStopsIo \/ Exited \/ UNCHANGED vars
  PROVE  TypeOK'
<1> USE DEF TypeOK, serverVars, sessionVars
<1>1. CASE SignalPostsStop
  BY <1>1, LimiterTypes DEF SignalPostsStop, Task
<1>2. CASE SignalStopsIo
  BY <1>2, LimiterTypes DEF SignalStopsIo
<1>3. CASE UNCHANGED vars
  BY <1>3, LimiterTypes DEF vars
<1> QED
  BY <1>1, <1>2, <1>3 DEF Exited

LEMMA InitTypes == Init => TypeOK
<1> SUFFICES ASSUME Init PROVE TypeOK
  OBVIOUS
<1>1. LimiterTypeOK
  BY InitCounts DEF Init, LimiterInv
<1>2. stopping \in BOOLEAN
  BY Zenon DEF Init
<1>3. /\ queued \in [Sessions -> BOOLEAN]
      /\ finished \in [Sessions -> BOOLEAN]
      /\ chain \in [Sessions -> BOOLEAN]
  BY DEF Init
<1>4. /\ queued_sessions \in Seq(Sessions)
      /\ strand_q \in Seq(Task)
      /\ server_pc \in ServerPc
      /\ cur \in Sessions
      /\ io \in {"run", "signalled", "stopped"}
  BY DEF Init, ServerPc
<1>5. /\ object \in [Sessions -> {"none", "live", "destroyed"}]
      /\ pc \in [Sessions -> SessionPc]
      /\ queue_timer \in [Sessions -> TimerState]
      /\ request_timer \in [Sessions -> TimerState]
      /\ metrics \in [Counters -> Nat]
  BY DEF Init, SessionPc, TimerState
<1> QED
  BY <1>1, <1>2, <1>3, <1>4, <1>5 DEF TypeOK

LEMMA NextTypes == TypeOK /\ [Next]_vars => TypeOK'
  BY SessionStepTypes, SessionHandlerTypes, HandleRequestTypes, ServerTypes, SignalTypes
     DEF Next

(***************************************************************************)
(* Every variable of the server, its sessions and the limiter keeps its    *)
(* type in every interleaving of the handlers; in particular no counter of *)
(* the limiter goes below zero, where the code's size_t would wrap.        *)
(***************************************************************************)
THEOREM TypeCorrect == Spec => []TypeOK
  BY InitTypes, NextTypes, PTL DEF Spec

-----------------------------------------------------------------------------
(***************************************************************************)
(* Sequences as queues: what appending, removing the head and putting back *)
(* at the front do to the elements and to their uniqueness.                *)
(***************************************************************************)
LEMMA AppendElems ==
  ASSUME NEW S, NEW q \in Seq(S), NEW x \in S, NEW T
  PROVE  /\ ElemsOf(Append(q, x)) = ElemsOf(q) \union {x}
         /\ NoRepeat(q, T) /\ (x \notin T \/ x \notin ElemsOf(q))
              => NoRepeat(Append(q, x), T)
<1>1. /\ Len(Append(q, x)) = Len(q) + 1
      /\ \A i \in 1..Len(q) : Append(q, x)[i] = q[i]
      /\ Append(q, x)[Len(q) + 1] = x
      /\ Len(q) \in Nat
  OBVIOUS
<1>2. 1..Len(Append(q, x)) = (1..Len(q)) \union {Len(q) + 1}
  BY <1>1
<1>3. ElemsOf(Append(q, x)) = ElemsOf(q) \union {x}
  BY <1>1, <1>2 DEF ElemsOf
<1>4. ASSUME NoRepeat(q, T), x \notin T \/ x \notin ElemsOf(q)
      PROVE  NoRepeat(Append(q, x), T)
  BY <1>1, <1>2, <1>4 DEF NoRepeat, ElemsOf
<1> QED
  BY <1>3, <1>4

LEMMA TailElems ==
  ASSUME NEW S, NEW q \in Seq(S), q # <<>>, NEW T
  PROVE  /\ Head(q) \in S /\ Tail(q) \in Seq(S)
         /\ ElemsOf(q) = ElemsOf(Tail(q)) \union {Head(q)}
         /\ NoRepeat(q, T) => NoRepeat(Tail(q), T)
         /\ NoRepeat(q, T) /\ Head(q) \in T => Head(q) \notin ElemsOf(Tail(q))
<1>1. /\ Head(q) \in S /\ Head(q) = q[1]
      /\ Tail(q) \in Seq(S) /\ Len(Tail(q)) = Len(q) - 1
      /\ Len(q) \in Nat \ {0}
      /\ \A i \in 1..(Len(q) - 1) : Tail(q)[i] = q[i + 1]
  OBVIOUS
<1>2. ElemsOf(q) = ElemsOf(Tail(q)) \union {Head(q)}
  <2>1. ASSUME NEW i \in 1..Len(q)
        PROVE  q[i] \in ElemsOf(Tail(q)) \union {Head(q)}
    <3>1. CASE i = 1
      BY <1>1, <3>1
    <3>2. CASE i # 1
      <4>1. i - 1 \in 1..Len(Tail(q)) /\ Tail(q)[i - 1] = q[i]
        BY <1>1, <2>1, <3>2
      <4> QED
        BY <4>1 DEF ElemsOf
    <3> QED
      BY <3>1, <3>2
  <2>2. ASSUME NEW i \in 1..Len(Tail(q))
        PROVE  Tail(q)[i] \in ElemsOf(q)
    <3>1. i + 1 \in 1..Len(q) /\ Tail(q)[i] = q[i + 1]
      BY <1>1, <2>2
    <3> QED
      BY <3>1 DEF ElemsOf
  <2>3. Head(q) \in ElemsOf(q)
    BY <1>1 DEF ElemsOf
  <2> QED
    BY <2>1, <2>2, <2>3 DEF ElemsOf
<1>3. NoRepeat(q, T) => NoRepeat(Tail(q), T)
  <2> SUFFICES ASSUME NoRepeat(q, T), NEW i \in 1..Len(Tail(q)), NEW j \in 1..Len(Tail(q)),
                      Tail(q)[i] \in T, Tail(q)[i] = Tail(q)[j]
               PROVE  i = j
    BY DEF NoRepeat
  <2>1. /\ i + 1 \in 1..Len(q) /\ Tail(q)[i] = q[i + 1]
        /\ j + 1 \in 1..Len(q) /\ Tail(q)[j] = q[j + 1]
    BY <1>1
  <2>2. i + 1 = j + 1
    BY <2>1 DEF NoRepeat
  <2> QED
    BY <1>1, <2>2
<1>4. NoRepeat(q, T) /\ Head(q) \in T => Head(q) \notin ElemsOf(Tail(q))
  <2> SUFFICES ASSUME NoRepeat(q, T), Head(q) \in T,
                      NEW i \in 1..Len(Tail(q)), Tail(q)[i] = Head(q)
               PROVE  FALSE
    BY DEF ElemsOf
  <2>1. i + 1 \in 1..Len(q) /\ 1 \in 1..Len(q) /\ q[i + 1] = q[1] /\ q[1] \in T
    BY <1>1
  <2>2. i + 1 = 1
    BY <2>1 DEF NoRepeat
  <2> QED
    BY <1>1, <2>2
<1> QED
  BY <1>1, <1>2, <1>3, <1>4

LEMMA PutBackElems ==
  ASSUME NEW S, NEW q \in Seq(S), NEW x \in S, NEW T
  PROVE  /\ ElemsOf(<<x>> \o q) = ElemsOf(q) \union {x}
         /\ NoRepeat(q, T) /\ x \notin ElemsOf(q) => NoRepeat(<<x>> \o q, T)
<1> DEFINE p == <<x>> \o q
<1>1. /\ p \in Seq(S) /\ p # <<>> /\ Len(p) = Len(q) + 1 /\ Len(q) \in Nat
      /\ p[1] = x
      /\ \A i \in 2..(Len(q) + 1) : p[i] = q[i - 1]
  OBVIOUS
<1> HIDE DEF p
<1>2. ElemsOf(p) = ElemsOf(q) \union {x}
  <2>1. ASSUME NEW i \in 1..Len(p)
        PROVE  p[i] \in ElemsOf(q) \union {x}
    <3>1. CASE i = 1
      BY <1>1, <3>1
    <3>2. CASE i # 1
      <4>1. i - 1 \in 1..Len(q) /\ p[i] = q[i - 1]
        BY <1>1, <2>1, <3>2
      <4> QED
        BY <4>1 DEF ElemsOf
    <3> QED
      BY <3>1, <3>2
  <2>2. ASSUME NEW i \in 1..Len(q)
        PROVE  q[i] \in ElemsOf(p)
    <3>1. i + 1 \in 1..Len(p) /\ p[i + 1] = q[i]
      BY <1>1, <2>2
    <3> QED
      BY <3>1 DEF ElemsOf
  <2>3. x \in ElemsOf(p)
    BY <1>1 DEF ElemsOf
  <2> QED
    BY <2>1, <2>2, <2>3 DEF ElemsOf
<1>3. NoRepeat(q, T) /\ x \notin ElemsOf(q) => NoRepeat(p, T)
  <2> SUFFICES ASSUME NoRepeat(q, T), x \notin ElemsOf(q),
                      NEW i \in 1..Len(p), NEW j \in 1..Len(p), p[i] \in T, p[i] = p[j]
               PROVE  i = j
    BY DEF NoRepeat
  <2>1. \A k \in 1..Len(p) : k # 1 => k - 1 \in 1..Len(q) /\ p[k] = q[k - 1]
    BY <1>1
  <2>2. \A k \in 1..Len(p) : k # 1 => p[k] # x
    BY <2>1 DEF ElemsOf
  <2>3. CASE i = 1 \/ j = 1
    BY <1>1, <2>2, <2>3
  <2>4. CASE i # 1 /\ j # 1
    <3>1. i - 1 = j - 1
      BY <2>1, <2>4 DEF NoRepeat
    <3> QED
      BY <1>1, <3>1
  <2> QED
    BY <2>3, <2>4
<1> QED
  BY <1>2, <1>3 DEF p

-----------------------------------------------------------------------------
(***************************************************************************)
(* The slots.  A promotion must not give a slot to a session that has one, *)
(* else the count and the number of permits part.  That is what QueuedOnce *)
(* is for: with it, the counts of the limiter are exact in the server.     *)
(***************************************************************************)
ServerInv == TypeOK /\ LimiterInv /\ QueuedOnce

(* A step that brings s into no new place keeps OnePlace(s).               *)
LEMMA NoNewPlace ==
  ASSUME NEW s \in Sessions, OnePlace(s),
         s \in permits' => s \in permits,
         object'[s] = "none" => object[s] = "none",
         pc'[s] = "enqueue" => pc[s] = "enqueue",
         EnqueueTask(s) \in ElemsOf(strand_q') => EnqueueTask(s) \in ElemsOf(strand_q),
         s \in ElemsOf(queued_sessions') => s \in ElemsOf(queued_sessions),
         cur' = s /\ server_pc' \in {"try", "denied"} =>
           cur = s /\ server_pc \in {"try", "denied"}
  PROVE  OnePlace(s)'
  BY DEF OnePlace, Tasks, InDeque, Promoting, EnqueueTask

(* A step that leaves both queues alone.                                   *)
LEMMA QueuesUntouched ==
  ASSUME QueuedOnce, UNCHANGED <<queued_sessions, strand_q>>,
         permits' \subseteq permits,
         \A s \in Sessions :
           /\ object'[s] = "none" => object[s] = "none"
           /\ pc'[s] = "enqueue" => pc[s] = "enqueue"
           /\ cur' = s /\ server_pc' \in {"try", "denied"} =>
                cur = s /\ server_pc \in {"try", "denied"}
  PROVE  QueuedOnce'
<1>1. ASSUME NEW s \in Sessions
      PROVE  OnePlace(s)'
  BY NoNewPlace DEF QueuedOnce
<1> QED
  BY <1>1 DEF QueuedOnce, NoRepeat, EnqueueTasks, EnqueueTask

(* Posting a promotion or the stop.                                        *)
LEMMA PostOther ==
  ASSUME TypeOK, QueuedOnce, NEW t \in {PromoteTask, StopTask},
         strand_q' = Append(strand_q, t),
         UNCHANGED <<queued_sessions, permits, object>>,
         \A s \in Sessions :
           /\ pc'[s] = "enqueue" => pc[s] = "enqueue"
           /\ cur' = s /\ server_pc' \in {"try", "denied"} =>
                cur = s /\ server_pc \in {"try", "denied"}
  PROVE  QueuedOnce'
<1>1. t \in Task /\ t \notin EnqueueTasks /\ strand_q \in Seq(Task)
  BY DEF TypeOK, Task, EnqueueTasks, EnqueueTask, PromoteTask, StopTask
<1>2. /\ ElemsOf(strand_q') = ElemsOf(strand_q) \union {t}
      /\ NoRepeat(strand_q', EnqueueTasks)
  BY <1>1, AppendElems DEF QueuedOnce
<1>3. ASSUME NEW s \in Sessions
      PROVE  OnePlace(s)'
  <2>1. EnqueueTask(s) # t
    BY <1>1 DEF EnqueueTasks
  <2> QED
    BY <1>2, <2>1, NoNewPlace DEF QueuedOnce
<1> QED
  BY <1>2, <1>3 DEF QueuedOnce, NoRepeat, EnqueueTasks, EnqueueTask

(* Starting the next handler of the server's strand.                       *)
LEMMA TakeTask ==
  ASSUME TypeOK, QueuedOnce, NEW t, NextTask(t)
  PROVE  /\ t \in Tasks
         /\ NoRepeat(strand_q', EnqueueTasks)
         /\ ElemsOf(strand_q') \subseteq Tasks
         /\ t \in EnqueueTasks => t \notin ElemsOf(strand_q')
<1>1. strand_q \in Seq(Task) /\ strand_q # <<>> /\ Head(strand_q) = t
      /\ strand_q' = Tail(strand_q)
  BY DEF NextTask, TypeOK
<1>2. NoRepeat(strand_q, EnqueueTasks)
  BY DEF QueuedOnce
<1> QED
  BY <1>1, <1>2, TailElems DEF Tasks

(* A new request: its session was in no place before, so it may take a     *)
(* slot or head for the queue.                                             *)
LEMMA HandleRequestInv ==
  ASSUME ServerInv, NEW s \in Sessions, HandleRequest(s)
  PROVE  LimiterInv' /\ QueuedOnce'
<1> USE DEF ServerInv
<1>1. PICK d \in InflightDecision :
        /\ TryAcquireOrQueue(s, d)
        /\ (d = "Queue" /\ pc' = [pc EXCEPT ![s] = "enqueue"]) \/ (d # "Queue" /\ pc' = pc)
  BY DEF HandleRequest
<1>2. OnePlace(s) /\ object[s] = "none"
  BY DEF HandleRequest, QueuedOnce
<1>3. s \notin permits
  BY <1>2 DEF OnePlace
<1>4. LimiterInv'
  BY <1>1, <1>3, AcquireKeepsCounts
<1>5. /\ object' = [object EXCEPT ![s] = "live"]
      /\ UNCHANGED <<queued_sessions, strand_q, server_pc, cur>>
  BY DEF HandleRequest, serverVars
<1>6. /\ d = "Queue" => permits' = permits
      /\ permits' \subseteq permits \union {s}
  BY <1>1 DEF TryAcquireOrQueue, limiterVars
<1>7. OnePlace(s)'
  BY <1>1, <1>2, <1>5, <1>6
     DEF OnePlace, Tasks, InDeque, Promoting, ElemsOf, EnqueueTask, TypeOK
<1>8. ASSUME NEW r \in Sessions, r # s
      PROVE  OnePlace(r)'
  <2>1. OnePlace(r) /\ (r \in permits' => r \in permits)
    BY <1>6, <1>8 DEF QueuedOnce
  <2>2. object'[r] = object[r] /\ pc'[r] = pc[r]
    BY <1>1, <1>5, <1>8 DEF TypeOK
  <2> QED
    BY <1>5, <2>1, <2>2, NoNewPlace
<1>9. QueuedOnce'
  BY <1>5, <1>7, <1>8 DEF QueuedOnce, NoRepeat, EnqueueTasks, EnqueueTask
<1> QED
  BY <1>4, <1>9

(* The end of handle_request for a queued session: posting becomes posted. *)
LEMMA PostEnqueueInv ==
  ASSUME ServerInv, NEW s \in Sessions, PostEnqueue(s)
  PROVE  QueuedOnce'
<1> USE DEF ServerInv
<1>1. /\ pc[s] = "enqueue" /\ pc' = [pc EXCEPT ![s] = "idle"]
      /\ strand_q' = Append(strand_q, EnqueueTask(s))
      /\ UNCHANGED <<permits, queued_sessions, server_pc, cur, object>>
  BY DEF PostEnqueue, limiterVars
<1>2. OnePlace(s)
  BY DEF QueuedOnce
<1>3. EnqueueTask(s) \notin ElemsOf(strand_q)
  BY <1>1, <1>2 DEF OnePlace, Tasks
<1>4. /\ ElemsOf(strand_q') = ElemsOf(strand_q) \union {EnqueueTask(s)}
      /\ NoRepeat(strand_q', EnqueueTasks)
  <2>1. strand_q \in Seq(Task) /\ EnqueueTask(s) \in Task
    BY DEF TypeOK, Task
  <2>2. NoRepeat(strand_q, EnqueueTasks)
    BY DEF QueuedOnce
  <2> QED
    BY <1>1, <1>3, <2>1, <2>2, AppendElems
<1>5. OnePlace(s)'
  BY <1>1, <1>2 DEF OnePlace, Tasks, InDeque, Promoting, ElemsOf, EnqueueTask, TypeOK
<1>6. ASSUME NEW r \in Sessions, r # s
      PROVE  OnePlace(r)'
  <2>1. OnePlace(r) /\ pc'[r] = pc[r]
    BY <1>1, <1>6 DEF QueuedOnce, TypeOK
  <2>2. EnqueueTask(r) # EnqueueTask(s)
    BY <1>6 DEF EnqueueTask
  <2> QED
    BY <1>1, <1>4, <2>1, <2>2, NoNewPlace
<1> QED
  BY <1>1, <1>4, <1>5, <1>6 DEF QueuedOnce, NoRepeat, EnqueueTasks, EnqueueTask

(* The handler of enqueue_session: posted becomes in the deque.            *)
LEMMA EnqueueSessionInv ==
  ASSUME ServerInv, NEW s \in Sessions, EnqueueSession(s)
  PROVE  QueuedOnce'
<1> USE DEF ServerInv
<1>1. /\ NextTask(EnqueueTask(s))
      /\ UNCHANGED <<permits, server_pc, cur, object, pc>>
  BY DEF EnqueueSession, limiterVars
<1>2. /\ EnqueueTask(s) \in ElemsOf(strand_q)
      /\ NoRepeat(strand_q', EnqueueTasks)
      /\ ElemsOf(strand_q') \subseteq ElemsOf(strand_q)
      /\ EnqueueTask(s) \notin ElemsOf(strand_q')
  BY <1>1, TakeTask DEF EnqueueTasks, Tasks
<1>3. OnePlace(s) /\ NoRepeat(queued_sessions, Sessions) /\ queued_sessions \in Seq(Sessions)
  BY DEF QueuedOnce, TypeOK
<1>4. s \notin ElemsOf(queued_sessions)
  BY <1>2, <1>3 DEF OnePlace, Tasks, InDeque
<1>5. /\ ElemsOf(queued_sessions') \subseteq ElemsOf(queued_sessions) \union {s}
      /\ NoRepeat(queued_sessions', Sessions)
  <2>1. queued_sessions' = queued_sessions \/ queued_sessions' = Append(queued_sessions, s)
    BY Zenon DEF EnqueueSession
  <2>2. CASE queued_sessions' = queued_sessions
    BY <1>3, <2>2
  <2>3. CASE queued_sessions' = Append(queued_sessions, s)
    BY <1>3, <1>4, <2>3, AppendElems
  <2> QED
    BY <2>1, <2>2, <2>3
<1>6. OnePlace(s)'
  BY <1>1, <1>2, <1>3 DEF OnePlace, Tasks, InDeque, Promoting, EnqueueTask
<1>7. ASSUME NEW r \in Sessions, r # s
      PROVE  OnePlace(r)'
  <2>1. OnePlace(r)
    BY DEF QueuedOnce
  <2> QED
    BY <1>1, <1>2, <1>5, <1>7, <2>1, NoNewPlace
<1> QED
  BY <1>2, <1>5, <1>6, <1>7 DEF QueuedOnce, EnqueueTasks, EnqueueTask

(* promote_queued_sessions pops the front: in the deque becomes promoting. *)
LEMMA PromoteLoopInv ==
  ASSUME ServerInv, PromoteLoop
  PROVE  QueuedOnce'
<1> USE DEF ServerInv
<1>1. UNCHANGED <<permits, strand_q, object, pc>> /\ server_pc = "loop"
  BY DEF PromoteLoop, limiterVars, sessionVars
<1>2. CASE queued_sessions = <<>>
  <2>1. UNCHANGED <<queued_sessions, cur>> /\ server_pc' = "idle"
    BY <1>2 DEF PromoteLoop
  <2> QED
    BY <1>1, <2>1, QueuesUntouched
<1>3. CASE queued_sessions # <<>>
  <2>1. PICK h \in Sessions : h = Head(queued_sessions)
    BY <1>3, TailElems DEF TypeOK
  <2>2. /\ ElemsOf(queued_sessions) = ElemsOf(Tail(queued_sessions)) \union {h}
        /\ NoRepeat(Tail(queued_sessions), Sessions)
        /\ h \notin ElemsOf(Tail(queued_sessions))
    BY <1>3, <2>1, TailElems DEF QueuedOnce, TypeOK
  <2>3. /\ queued_sessions' = Tail(queued_sessions)
        /\ \/ server_pc' = "try" /\ cur' = h
           \/ server_pc' = "loop" /\ cur' = cur
    BY <1>1, <1>3, <2>1 DEF PromoteLoop
  <2>4. OnePlace(h)'
    <3>1. OnePlace(h) /\ InDeque(h)
      BY <2>2 DEF QueuedOnce, InDeque
    <3> QED
      BY <1>1, <2>2, <2>3, <3>1 DEF OnePlace, Tasks, InDeque, Promoting, EnqueueTask
  <2>5. ASSUME NEW r \in Sessions, r # h
        PROVE  OnePlace(r)'
    <3>1. OnePlace(r)
      BY DEF QueuedOnce
    <3>2. ~(cur' = r /\ server_pc' \in {"try", "denied"})
      BY <2>3, <2>5
    <3> QED
      BY <1>1, <2>2, <2>3, <3>1, <3>2, NoNewPlace
  <2>6. NoRepeat(queued_sessions', Sessions) /\ NoRepeat(strand_q', EnqueueTasks)
    BY <1>1, <2>2, <2>3 DEF QueuedOnce
  <2> QED
    BY <2>4, <2>5, <2>6 DEF QueuedOnce, EnqueueTasks, EnqueueTask
<1> QED
  BY <1>2, <1>3

(* try_promote_queued: promoting becomes owning a slot, or stays.          *)
LEMMA PromoteTryInv ==
  ASSUME ServerInv, PromoteTry
  PROVE  LimiterInv' /\ QueuedOnce'
<1> USE DEF ServerInv
<1>1. PICK valid \in BOOLEAN :
        /\ TryPromoteQueued(cur, valid)
        /\ server_pc' = IF valid THEN "start" ELSE "denied"
  BY DEF PromoteTry
<1>2. /\ server_pc = "try" /\ cur \in Sessions
      /\ UNCHANGED <<queued_sessions, strand_q, cur, object, pc>>
  BY DEF PromoteTry, sessionVars, TypeOK
<1>3. OnePlace(cur) /\ Promoting(cur)
  BY <1>2 DEF QueuedOnce, Promoting
<1>4. LimiterInv'
  BY <1>1, <1>2, <1>3, PromoteKeepsCounts DEF OnePlace
<1>5. /\ valid => permits' = permits \union {cur}
      /\ ~valid => permits' = permits
  BY <1>1 DEF TryPromoteQueued
<1>6. OnePlace(cur)'
  BY <1>1, <1>2, <1>3, <1>5
     DEF OnePlace, Tasks, InDeque, Promoting, ElemsOf, EnqueueTask
<1>7. ASSUME NEW r \in Sessions, r # cur
      PROVE  OnePlace(r)'
  <2>1. OnePlace(r) /\ (r \in permits' => r \in permits)
    BY <1>5, <1>7 DEF QueuedOnce
  <2> QED
    BY <1>2, <1>7, <2>1, NoNewPlace
<1>8. QueuedOnce'
  BY <1>2, <1>6, <1>7 DEF QueuedOnce, NoRepeat, EnqueueTasks, EnqueueTask
<1> QED
  BY <1>4, <1>8

(* No permit: the session goes back to the front of the deque, or nowhere. *)
LEMMA PromoteDeniedInv ==
  ASSUME ServerInv, PromoteDenied
  PROVE  QueuedOnce'
<1> USE DEF ServerInv
<1>1. /\ server_pc = "denied" /\ cur \in Sessions /\ server_pc' \in {"loop", "idle"}
      /\ UNCHANGED <<permits, strand_q, cur, object, pc>>
      /\ \/ queued_sessions' = queued_sessions
         \/ queued_sessions' = <<cur>> \o queued_sessions
  BY DEF PromoteDenied, limiterVars, sessionVars, TypeOK
<1>2. OnePlace(cur) /\ Promoting(cur)
  BY <1>1 DEF QueuedOnce, Promoting
<1>3. CASE queued_sessions' = queued_sessions
  BY <1>1, <1>3, QueuesUntouched
<1>4. CASE queued_sessions' = <<cur>> \o queued_sessions
  <2>1. cur \notin ElemsOf(queued_sessions)
    BY <1>2 DEF OnePlace, InDeque
  <2>2. /\ ElemsOf(queued_sessions') = ElemsOf(queued_sessions) \union {cur}
        /\ NoRepeat(queued_sessions', Sessions)
    <3>1. queued_sessions \in Seq(Sessions) /\ NoRepeat(queued_sessions, Sessions)
      BY DEF QueuedOnce, TypeOK
    <3> QED
      BY <1>1, <1>4, <2>1, <3>1, PutBackElems
  <2>3. OnePlace(cur)'
    BY <1>1, <1>2, <2>2 DEF OnePlace, Tasks, InDeque, Promoting, ElemsOf, EnqueueTask
  <2>4. ASSUME NEW r \in Sessions, r # cur
        PROVE  OnePlace(r)'
    <3>1. OnePlace(r)
      BY DEF QueuedOnce
    <3> QED
      BY <1>1, <2>2, <2>4, <3>1, NoNewPlace
  <2> QED
    BY <1>1, <2>2, <2>3, <2>4 DEF QueuedOnce, NoRepeat, EnqueueTasks, EnqueueTask
<1> QED
  BY <1>1, <1>3, <1>4

LEMMA LimiterUntouched ==
  ASSUME LimiterInv, UNCHANGED limiterVars
  PROVE  LimiterInv'
  BY DEF limiterVars, LimiterInv, LimiterTypeOK, SlotsExact, QueueBounded, ClosedEmpty

(* The rest of the server's strand.                                        *)
LEMMA ServerStrandInv ==
  ASSUME ServerInv, ServerStep \/ ServerHandler
  PROVE  LimiterInv' /\ QueuedOnce'
<1> USE DEF ServerInv, sessionVars
<1>1. ASSUME NEW s \in Sessions, EnqueueSession(s)
      PROVE  LimiterInv' /\ QueuedOnce'
  BY <1>1, EnqueueSessionInv, LimiterUntouched DEF EnqueueSession
<1>2. CASE PromoteLoop
  BY <1>2, PromoteLoopInv, LimiterUntouched DEF PromoteLoop
<1>3. CASE PromoteTry
  BY <1>3, PromoteTryInv
<1>4. CASE PromoteDenied
  BY <1>4, PromoteDeniedInv, LimiterUntouched DEF PromoteDenied
<1>5. CASE PromoteBegins \/ StopServer
  <2>1. /\ NoRepeat(strand_q', EnqueueTasks)
        /\ ElemsOf(strand_q') \subseteq ElemsOf(strand_q)
    BY <1>5, TakeTask DEF PromoteBegins, StopServer, Tasks
  <2>2. /\ UNCHANGED <<permits, object, pc, cur>>
        /\ server_pc' \notin {"try", "denied"}
        /\ queued_sessions' = queued_sessions \/ queued_sessions' = <<>>
    BY <1>5 DEF PromoteBegins, StopServer, LimiterClose, limiterVars, NextTask
  <2>3. /\ ElemsOf(queued_sessions') \subseteq ElemsOf(queued_sessions)
        /\ NoRepeat(queued_sessions', Sessions)
    <3>1. CASE queued_sessions' = queued_sessions
      BY <3>1 DEF QueuedOnce
    <3>2. CASE queued_sessions' = <<>>
      BY <3>2 DEF ElemsOf, NoRepeat
    <3> QED
      BY <2>2, <3>1, <3>2
  <2>4. ASSUME NEW r \in Sessions
        PROVE  OnePlace(r)'
    <3>1. OnePlace(r)
      BY DEF QueuedOnce
    <3> QED
      BY <2>1, <2>2, <2>3, <3>1, NoNewPlace
  <2>5. QueuedOnce'
    BY <2>1, <2>3, <2>4 DEF QueuedOnce, EnqueueTasks, EnqueueTask
  <2>6. LimiterInv'
    BY <1>5, CloseKeepsCounts, LimiterUntouched DEF PromoteBegins, StopServer
  <2> QED
    BY <2>5, <2>6
<1>6. CASE TryStartFromQueue
  BY <1>6, QueuesUntouched, LimiterUntouched DEF TryStartFromQueue, limiterVars
<1>7. CASE BeginFromQueue
  BY <1>7, QueuesUntouched, LimiterUntouched DEF BeginFromQueue, limiterVars
<1>8. CASE DropPermit
  <2>1. /\ UNCHANGED <<queued_sessions, strand_q, object, pc>>
        /\ permits' \subseteq permits
        /\ server_pc' \notin {"try", "denied"}
    BY <1>8 DEF DropPermit, PermitRelease
  <2>2. QueuedOnce'
    BY <2>1, QueuesUntouched
  <2>3. LimiterInv'
    BY <1>8, ReleaseKeepsCounts DEF DropPermit, TypeOK
  <2> QED
    BY <2>2, <2>3
<1>9. CASE NotifyDrop
  BY <1>9, PostOther, LimiterUntouched DEF NotifyDrop, limiterVars
<1> QED
  BY <1>1, <1>2, <1>3, <1>4, <1>5, <1>6, <1>7, <1>8, <1>9 DEF ServerStep, ServerHandler

(* A step of a session's strand that touches neither queue.                *)
LEMMA SessionFrame ==
  ASSUME QueuedOnce, UNCHANGED <<queued_sessions, strand_q, server_pc, cur>>,
         permits' \subseteq permits,
         \A r \in Sessions : object'[r] = "none" => object[r] = "none",
         \A r \in Sessions : pc'[r] = "enqueue" => pc[r] = "enqueue"
  PROVE  QueuedOnce'
  BY QueuesUntouched

(* The sessions' strands, timers and destructors.                          *)
LEMMA SessionStrandInv ==
  ASSUME ServerInv, NEW s \in Sessions,
         SessionStep(s) \/ SessionHandler(s) \/ TimerExpires(s) \/ Destroy(s)
  PROVE  LimiterInv' /\ QueuedOnce'
<1> USE DEF ServerInv, serverVars
<1>1. CASE PostEnqueue(s)
  BY <1>1, PostEnqueueInv, LimiterUntouched DEF PostEnqueue
<1>2. CASE NotifyRelease(s)
  <2>1. /\ strand_q' = Append(strand_q, PromoteTask)
        /\ UNCHANGED <<queued_sessions, permits, object, server_pc, cur>>
        /\ \A r \in Sessions : pc'[r] = "enqueue" => pc[r] = "enqueue"
    BY <1>2 DEF NotifyRelease, limiterVars, TypeOK
  <2> QED
    BY <1>2, <2>1, PostOther, LimiterUntouched DEF NotifyRelease
<1>3. CASE QueueTimerFires(s)
  <2>1. \A r \in Sessions : pc'[r] = "enqueue" => pc[r] = "enqueue"
    BY <1>3 DEF QueueTimerFires, TypeOK
  <2> QED
    BY SessionFrame, <1>3, <2>1, LimiterUntouched DEF QueueTimerFires, limiterVars
<1>4. CASE QueueTimerCancels(s)
  <2>1. \A r \in Sessions : pc'[r] = "enqueue" => pc[r] = "enqueue"
    BY <1>4 DEF QueueTimerCancels, TypeOK
  <2>2. LimiterInv' /\ permits' = permits
    BY <1>4, CancelKeepsCounts DEF QueueTimerCancels, CancelQueued
  <2> QED
    BY SessionFrame, <1>4, <2>1, <2>2 DEF QueueTimerCancels
<1>5. CASE QueueTimerFails(s)
  <2>1. \A r \in Sessions : pc'[r] = "enqueue" => pc[r] = "enqueue"
    BY <1>5 DEF QueueTimerFails, TypeOK
  <2> QED
    BY SessionFrame, <1>5, <2>1, LimiterUntouched DEF QueueTimerFails, limiterVars
<1>6. CASE RequestTimerFires(s)
  <2>1. \A r \in Sessions : pc'[r] = "enqueue" => pc[r] = "enqueue"
    BY <1>6 DEF RequestTimerFires, TypeOK
  <2> QED
    BY SessionFrame, <1>6, <2>1, LimiterUntouched DEF RequestTimerFires, limiterVars
<1>7. CASE ChainEnds(s)
  <2>1. \A r \in Sessions : pc'[r] = "enqueue" => pc[r] = "enqueue"
    BY <1>7 DEF ChainEnds, TypeOK
  <2> QED
    BY SessionFrame, <1>7, <2>1, LimiterUntouched DEF ChainEnds, limiterVars
<1>8. CASE ResetPermit(s)
  <2>1. \A r \in Sessions : pc'[r] = "enqueue" => pc[r] = "enqueue"
    BY <1>8 DEF ResetPermit, TypeOK
  <2>2. LimiterInv' /\ permits' \subseteq permits
    <3>1. CASE PermitRelease(s)
      BY <3>1, ReleaseKeepsCounts DEF PermitRelease
    <3>2. CASE UNCHANGED limiterVars
      BY <3>2, LimiterUntouched DEF limiterVars
    <3> QED
      BY <1>8, <3>1, <3>2 DEF ResetPermit
  <2> QED
    BY SessionFrame, <1>8, <2>1, <2>2 DEF ResetPermit
<1>9. CASE TimerExpires(s)
  BY SessionFrame, <1>9, LimiterUntouched DEF TimerExpires, limiterVars
<1>10. CASE Destroy(s)
  <2>1. \A r \in Sessions : /\ pc'[r] = "enqueue" => pc[r] = "enqueue"
                           /\ object'[r] = "none" => object[r] = "none"
    BY <1>10 DEF Destroy, TypeOK
  <2>2. LimiterInv' /\ permits' = permits
    <3>1. CASE CancelQueued
      BY <3>1, CancelKeepsCounts DEF CancelQueued
    <3>2. CASE UNCHANGED limiterVars
      BY <3>2, LimiterUntouched DEF limiterVars
    <3> QED
      BY <1>10, <3>1, <3>2 DEF Destroy
  <2> QED
    BY SessionFrame, <1>10, <2>1, <2>2 DEF Destroy
<1> QED
  BY <1>1, <1>2, <1>3, <1>4, <1>5, <1>6, <1>7, <1>8, <1>9, <1>10
     DEF SessionStep, SessionHandler

(* The signal handler and the stutter after the exit.                      *)
LEMMA SignalInv ==
  ASSUME ServerInv, SignalPostsStop \/ SignalStopsIo \/ Exited \/ UNCHANGED vars
  PROVE  LimiterInv' /\ QueuedOnce'
<1> USE DEF ServerInv, sessionVars, serverVars
<1>1. CASE SignalPostsStop
  BY <1>1, PostOther, LimiterUntouched DEF SignalPostsStop, limiterVars
<1>2. CASE SignalStopsIo
  BY <1>2, QueuesUntouched, LimiterUntouched DEF SignalStopsIo, limiterVars
<1>3. CASE UNCHANGED vars
  BY <1>3, QueuesUntouched, LimiterUntouched DEF vars, limiterVars
<1> QED
  BY <1>1, <1>2, <1>3 DEF Exited

LEMMA InitServerInv == Init => ServerInv
<1> SUFFICES ASSUME Init PROVE ServerInv
  OBVIOUS
<1>1. TypeOK /\ LimiterInv
  BY InitTypes, InitCounts DEF Init
<1>2. /\ queued_sessions = <<>> /\ strand_q = <<>> /\ server_pc = "idle"
      /\ permits = {}
      /\ \A s \in Sessions : pc[s] = "idle"
  BY DEF Init, LimiterInit
<1>3. NoRepeat(queued_sessions, Sessions) /\ NoRepeat(strand_q, EnqueueTasks)
  BY <1>2 DEF NoRepeat
<1>4. ASSUME NEW s \in Sessions
      PROVE  OnePlace(s)
  <2>1. EnqueueTask(s) \notin Tasks /\ ~InDeque(s)
    BY <1>2 DEF Tasks, InDeque, ElemsOf
  <2> QED
    BY <1>2, <2>1 DEF OnePlace, Promoting
<1> QED
  BY <1>1, <1>3, <1>4 DEF ServerInv, QueuedOnce

LEMMA NextServerInv == ServerInv /\ [Next]_vars => ServerInv'
<1> SUFFICES ASSUME ServerInv, [Next]_vars PROVE ServerInv'
  OBVIOUS
<1>1. TypeOK'
  BY NextTypes DEF ServerInv
<1>2. LimiterInv' /\ QueuedOnce'
  BY HandleRequestInv, ServerStrandInv, SessionStrandInv, SignalInv DEF Next
<1> QED
  BY <1>1, <1>2 DEF ServerInv

(***************************************************************************)
(* With any number of worker threads and sessions, and every interleaving  *)
(* of timers, promotions, releases and the shutdown: the limiter's         *)
(* in-flight count is the number of permits and at most max_inflight.      *)
(***************************************************************************)
THEOREM SlotsCorrect == Spec => []SlotsExact
<1>1. ServerInv => SlotsExact
  BY DEF ServerInv, LimiterInv
<1> QED
  BY <1>1, InitServerInv, NextServerInv, PTL DEF Spec

(* In the same generality: the queued count is at most max_queue_size.     *)
THEOREM QueueCorrect == Spec => []QueueBounded
<1>1. ServerInv => QueueBounded
  BY DEF ServerInv, LimiterInv
<1> QED
  BY <1>1, InitServerInv, NextServerInv, PTL DEF Spec

(***************************************************************************)
(* In the same generality: after close() no step gives a slot or counts a  *)
(* request as queued.                                                      *)
(***************************************************************************)
THEOREM ClosedCorrect == Spec => ClosedAdmitsNobody
<1>1. ServerInv /\ [Next]_vars =>
        (closed => closed' /\ permits' \subseteq permits /\ queued_requests' = 0)
  <2> SUFFICES ASSUME ServerInv, [Next]_vars, closed
               PROVE  closed' /\ permits' \subseteq permits /\ queued_requests' = 0
    OBVIOUS
  <2>1. LimiterInv
    BY DEF ServerInv
  <2>2. ASSUME NEW s \in Sessions, HandleRequest(s) \/ SessionStep(s) \/ Destroy(s)
        PROVE  closed' /\ permits' \subseteq permits /\ queued_requests' = 0
    BY <2>1, <2>2, ClosedStep
    DEF HandleRequest, SessionStep, PostEnqueue, QueueTimerCancels, QueueTimerFails,
        ResetPermit, NotifyRelease, Destroy
  <2>3. ASSUME NEW s \in Sessions, SessionHandler(s) \/ TimerExpires(s)
        PROVE  UNCHANGED limiterVars
    BY <2>3 DEF SessionHandler, QueueTimerFires, RequestTimerFires, ChainEnds, TimerExpires
  <2>4. CASE ServerStep
    BY <2>1, <2>4, ClosedStep
    DEF ServerStep, PromoteLoop, PromoteTry, PromoteDenied, TryStartFromQueue,
        BeginFromQueue, DropPermit, NotifyDrop
  <2>5. CASE ServerHandler
    BY <2>1, <2>5, ClosedStep DEF ServerHandler, PromoteBegins, StopServer, EnqueueSession
  <2>6. CASE SignalPostsStop \/ SignalStopsIo \/ Exited \/ UNCHANGED vars
    BY <2>1, <2>6, ClosedStep DEF SignalPostsStop, SignalStopsIo, Exited, vars
  <2> QED
    BY <2>1, <2>2, <2>3, <2>4, <2>5, <2>6, ClosedStep DEF Next
<1> QED
  BY <1>1, InitServerInv, NextServerInv, PTL DEF Spec, ClosedAdmitsNobody

(* In the same generality: no session is queued twice, or queued while it  *)
(* owns a slot.                                                            *)
THEOREM QueuedOnceCorrect == Spec => []QueuedOnce
<1>1. ServerInv => QueuedOnce
  BY DEF ServerInv
<1> QED
  BY <1>1, InitServerInv, NextServerInv, PTL DEF Spec

-----------------------------------------------------------------------------
(***************************************************************************)
(* Exactly one outcome is recorded for each request                        *)
(***************************************************************************)

(***************************************************************************)
(* Nothing has happened to a session before its request: no handler is     *)
(* running or queued for it, so that none can end what has not begun.  A   *)
(* refusal then records the first outcome of its session.                  *)
(***************************************************************************)
Untouched(s) ==
  /\ pc[s] = "idle" /\ ~finished[s] /\ ~chain[s] /\ ~queued[s]
  /\ queue_timer[s] = "off" /\ request_timer[s] = "off"

Fresh == \A s \in Sessions : object[s] = "none" => Untouched(s)

(* A session that try_start_from_queue begins has made its request.        *)
Begun == server_pc = "begin" => object[cur] # "none"

OutcomeInv == Fresh /\ Begun /\ OutcomeOnce

-----------------------------------------------------------------------------
(* The first outcome of a session is one more in both counts.              *)
LEMMA OneMore ==
  ASSUME TypeOK, OutcomeOnce, NEW s \in Sessions, ~finished[s],
         finished' = [finished EXCEPT ![s] = TRUE],
         metrics'["completed"] + metrics'["failed"]
           = metrics["completed"] + metrics["failed"] + 1
  PROVE  OutcomeOnce'
<1> DEFINE F == {r \in Sessions : finished[r]}
<1>1. {r \in Sessions : finished'[r]} = F \union {s}
  BY DEF TypeOK
<1>2. s \notin F /\ F \in SUBSET Sessions
  OBVIOUS
<1>3. Cardinality(F \union {s}) = Cardinality(F) + 1
  BY <1>2, PermitCount
<1>4. metrics["completed"] + metrics["failed"] = Cardinality(F)
  BY DEF OutcomeOnce
<1> QED
  BY <1>1, <1>3, <1>4 DEF OutcomeOnce

LEMMA OneMoreByEnd ==
  ASSUME TypeOK, OutcomeOnce, NEW s \in Sessions, ~finished[s],
         NEW outcome \in {"completed", "failed"}, EndRequest(s, outcome)
  PROVE  OutcomeOnce'
<1>1. /\ metrics'["completed"] + metrics'["failed"]
           = metrics["completed"] + metrics["failed"] + 1
      /\ finished' = [finished EXCEPT ![s] = TRUE]
  BY DEF EndRequest, TypeOK, Counters
<1> QED
  BY <1>1, OneMore

LEMMA SameOutcomes ==
  ASSUME OutcomeOnce, UNCHANGED <<metrics, finished>>
  PROVE  OutcomeOnce'
  BY DEF OutcomeOnce

(* A step that leaves sessions without a request alone keeps them fresh.   *)
LEMMA StillFresh ==
  ASSUME Fresh,
         \A r \in Sessions : object'[r] = "none" => object[r] = "none",
         \A r \in Sessions : object[r] = "none" =>
           /\ pc'[r] = pc[r] /\ finished'[r] = finished[r] /\ chain'[r] = chain[r]
           /\ queued'[r] = queued[r] /\ queue_timer'[r] = queue_timer[r]
           /\ request_timer'[r] = request_timer[r]
  PROVE  Fresh'
  BY DEF Fresh, Untouched

-----------------------------------------------------------------------------
LEMMA HandleRequestOutcome ==
  ASSUME TypeOK, OutcomeInv, NEW s \in Sessions, HandleRequest(s)
  PROVE  OutcomeInv'
<1> USE DEF OutcomeInv
<1>1. object[s] = "none" /\ ~finished[s]
  BY DEF HandleRequest, Fresh, Untouched
<1>2. PICK d \in InflightDecision :
        \/ /\ d = "Admit"
           /\ StartProxyRequest(s)
           /\ metrics' = [metrics EXCEPT !["total"] = @ + 1]
           /\ UNCHANGED <<pc, finished>>
        \/ /\ d = "Queue"
           /\ pc' = [pc EXCEPT ![s] = "enqueue"]
           /\ metrics' = [metrics EXCEPT !["total"] = @ + 1]
           /\ UNCHANGED <<finished, chain, request_timer>>
        \/ /\ d \in {"Reject", "Closed"}
           /\ finished' = [finished EXCEPT ![s] = TRUE]
           /\ metrics' = [metrics EXCEPT !["total"] = @ + 1, !["failed"] = @ + 1]
           /\ UNCHANGED <<pc, chain, request_timer>>
  BY DEF HandleRequest
<1>3. OutcomeOnce'
  <2>1. CASE d \in {"Admit", "Queue"}
    <3>1. /\ metrics'["completed"] = metrics["completed"]
          /\ metrics'["failed"] = metrics["failed"]
          /\ finished' = finished
      BY <1>2, <2>1 DEF TypeOK, Counters
    <3> QED
      BY <3>1 DEF OutcomeOnce
  <2>2. CASE d \in {"Reject", "Closed"}
    <3>1. /\ metrics'["completed"] + metrics'["failed"]
               = metrics["completed"] + metrics["failed"] + 1
          /\ finished' = [finished EXCEPT ![s] = TRUE]
      BY <1>2, <2>2 DEF TypeOK, Counters
    <3> QED
      BY <1>1, <3>1, OneMore
  <2> QED
    BY <2>1, <2>2 DEF InflightDecision
<1>4. object' = [object EXCEPT ![s] = "live"] /\ UNCHANGED <<server_pc, cur, queued, queue_timer>>
  BY DEF HandleRequest, serverVars
<1>5. \A r \in Sessions \ {s} :
        /\ pc'[r] = pc[r] /\ finished'[r] = finished[r] /\ chain'[r] = chain[r]
        /\ request_timer'[r] = request_timer[r] /\ object'[r] = object[r]
  BY <1>2, <1>4 DEF StartProxyRequest, TypeOK
<1>6. object'[s] = "live"
  BY <1>4 DEF TypeOK
<1>7. Fresh'
  BY <1>4, <1>5, <1>6 DEF Fresh, Untouched
<1>8. Begun'
  BY <1>4, <1>5, <1>6 DEF Begun, TypeOK
<1> QED
  BY <1>3, <1>7, <1>8

(* The sessions' strands: a handler that runs belongs to a session that has*)
(* made its request, and ends it only if it is not finished.               *)
LEMMA SessionStrandOutcome ==
  ASSUME TypeOK, OutcomeInv, NEW s \in Sessions,
         SessionStep(s) \/ SessionHandler(s) \/ TimerExpires(s) \/ Destroy(s)
  PROVE  OutcomeInv'
<1> USE DEF OutcomeInv
<1>1. object[s] # "none"
  BY DEF Fresh, Untouched, SessionStep, SessionHandler, PostEnqueue, QueueTimerCancels,
         QueueTimerFails, ResetPermit, NotifyRelease, QueueTimerFires, RequestTimerFires,
         ChainEnds, TimerExpires, Destroy
<1>2. \A r \in Sessions \ {s} :
        /\ pc'[r] = pc[r] /\ finished'[r] = finished[r] /\ chain'[r] = chain[r]
        /\ queued'[r] = queued[r] /\ queue_timer'[r] = queue_timer[r]
        /\ request_timer'[r] = request_timer[r] /\ object'[r] = object[r]
  <2>1. CASE SessionStep(s)
    BY <2>1 DEF TypeOK, SessionStep, PostEnqueue, QueueTimerCancels, QueueTimerFails,
                ResetPermit, NotifyRelease, EndRequest
  <2>2. CASE SessionHandler(s)
    BY <2>2 DEF TypeOK, SessionHandler, QueueTimerFires, RequestTimerFires, ChainEnds,
                EndRequest
  <2>3. CASE TimerExpires(s) \/ Destroy(s)
    BY <2>3 DEF TypeOK, TimerExpires, Destroy
  <2> QED
    BY <2>1, <2>2, <2>3
<1>3. object'[s] # "none" /\ UNCHANGED <<server_pc, cur>>
  BY <1>1 DEF TypeOK, serverVars, SessionStep, SessionHandler, PostEnqueue,
              QueueTimerCancels, QueueTimerFails, ResetPermit, NotifyRelease,
              QueueTimerFires, RequestTimerFires, ChainEnds, TimerExpires, Destroy
<1>4. Fresh'
  BY <1>2, <1>3 DEF Fresh, Untouched
<1>5. Begun'
  BY <1>2, <1>3 DEF Begun, TypeOK
<1>6. OutcomeOnce'
  <2>1. CASE UNCHANGED <<metrics, finished>>
    BY <2>1, SameOutcomes
  <2>2. CASE QueueTimerFails(s) /\ ~finished[s]
    BY <2>2, OneMoreByEnd DEF QueueTimerFails
  <2>3. CASE ChainEnds(s) /\ ~finished[s]
    BY <2>3, OneMoreByEnd DEF ChainEnds
  <2>4. CASE RequestTimerFires(s) /\ ~finished[s]
    <3>1. /\ metrics' = [metrics EXCEPT !["failed"] = @ + 1]
          /\ finished' = [finished EXCEPT ![s] = TRUE]
      BY <2>4 DEF RequestTimerFires
    <3>2. metrics'["completed"] + metrics'["failed"]
            = metrics["completed"] + metrics["failed"] + 1
      BY <3>1 DEF TypeOK, Counters
    <3> QED
      BY <2>4, <3>1, <3>2, OneMore
  <2>5. CASE SessionStep(s)
    <3>1. QueueTimerFails(s) \/ UNCHANGED <<metrics, finished>>
      BY <2>5 DEF SessionStep, PostEnqueue, QueueTimerCancels, ResetPermit, NotifyRelease
    <3>2. QueueTimerFails(s) /\ finished[s] => UNCHANGED <<metrics, finished>>
      BY DEF QueueTimerFails
    <3> QED
      BY <2>1, <2>2, <3>1, <3>2
  <2>6. CASE SessionHandler(s)
    <3>1. \/ RequestTimerFires(s) \/ ChainEnds(s)
          \/ UNCHANGED <<metrics, finished>>
      BY <2>6 DEF SessionHandler, QueueTimerFires
    <3>2. finished[s] /\ (RequestTimerFires(s) \/ ChainEnds(s))
            => UNCHANGED <<metrics, finished>>
      BY DEF RequestTimerFires, ChainEnds
    <3> QED
      BY <2>1, <2>3, <2>4, <3>1, <3>2
  <2>7. CASE TimerExpires(s) \/ Destroy(s)
    BY <2>1, <2>7 DEF TimerExpires, Destroy
  <2> QED
    BY <2>5, <2>6, <2>7
<1> QED
  BY <1>4, <1>5, <1>6

(* The server's strand ends no request.  It touches the session of an      *)
(* enqueue it was posted and one that try_start_from_queue has found       *)
(* queued.                                                                 *)
LEMMA ServerStrandOutcome ==
  ASSUME ServerInv, OutcomeInv, ServerStep \/ ServerHandler
  PROVE  OutcomeInv'
<1> USE DEF ServerInv, OutcomeInv
<1>1. OutcomeOnce' /\ UNCHANGED object
  <2>1. UNCHANGED <<metrics, finished, object>>
    BY DEF ServerStep, ServerHandler, sessionVars, PromoteBegins, StopServer,
           EnqueueSession, PromoteLoop, PromoteTry, PromoteDenied, TryStartFromQueue,
           BeginFromQueue, DropPermit, NotifyDrop
  <2> QED
    BY <2>1, SameOutcomes
<1>2. Fresh'
  <2>1. ASSUME NEW s \in Sessions, EnqueueSession(s)
        PROVE  Fresh'
    <3>1. EnqueueTask(s) \in Tasks
      BY <2>1, TakeTask DEF EnqueueSession, EnqueueTasks
    <3>2. object[s] # "none"
      BY <3>1 DEF QueuedOnce, OnePlace
    <3> QED
      BY <2>1, <3>2, StillFresh DEF EnqueueSession, TypeOK
  <2>2. CASE BeginFromQueue
    BY <2>2, StillFresh DEF BeginFromQueue, StartProxyRequest, Begun, TypeOK
  <2>3. CASE UNCHANGED sessionVars
    BY <2>3, StillFresh DEF sessionVars
  <2> QED
    BY <2>1, <2>2, <2>3
       DEF ServerStep, ServerHandler, sessionVars, PromoteBegins, StopServer, PromoteLoop,
           PromoteTry, PromoteDenied, TryStartFromQueue, DropPermit, NotifyDrop
<1>3. Begun'
  <2>1. CASE TryStartFromQueue
    BY <1>1, <2>1 DEF TryStartFromQueue, Begun, Fresh, Untouched, TypeOK
  <2>2. CASE ServerHandler
    BY <1>1, <2>2 DEF ServerHandler, PromoteBegins, StopServer, EnqueueSession, Begun
  <2>3. CASE server_pc' # "begin"
    BY <2>3 DEF Begun
  <2> QED
    BY <2>1, <2>2, <2>3
       DEF ServerStep, PromoteLoop, PromoteTry, PromoteDenied, BeginFromQueue, DropPermit,
           NotifyDrop
<1> QED
  BY <1>1, <1>2, <1>3

LEMMA SignalOutcome ==
  ASSUME OutcomeInv, SignalPostsStop \/ SignalStopsIo \/ Exited \/ UNCHANGED vars
  PROVE  OutcomeInv'
<1>1. UNCHANGED <<sessionVars, metrics, server_pc, cur>>
  BY DEF SignalPostsStop, SignalStopsIo, Exited, vars, serverVars
<1> QED
  BY <1>1 DEF OutcomeInv, Fresh, Untouched, Begun, OutcomeOnce, sessionVars

LEMMA InitOutcome == Init => ServerInv /\ OutcomeInv
<1> SUFFICES ASSUME Init PROVE ServerInv /\ OutcomeInv
  OBVIOUS
<1>1. Fresh /\ Begun
  BY DEF Init, Fresh, Untouched, Begun
<1>2. {s \in Sessions : finished[s]} = {}
  BY DEF Init
<1>3. metrics["completed"] + metrics["failed"] = 0
  BY DEF Init, Counters
<1>4. OutcomeOnce
  BY <1>2, <1>3, FS_EmptySet DEF OutcomeOnce
<1> QED
  BY <1>1, <1>4, InitServerInv DEF OutcomeInv

LEMMA NextOutcome ==
  ServerInv /\ OutcomeInv /\ [Next]_vars => ServerInv' /\ OutcomeInv'
BY NextServerInv, HandleRequestOutcome, SessionStrandOutcome, ServerStrandOutcome,
   SignalOutcome DEF Next, ServerInv

-----------------------------------------------------------------------------
(***************************************************************************)
(* With any number of worker threads, whichever of queue timer, request    *)
(* timer, upstream exchange and refusal come to a request, and in whatever *)
(* order, the metrics record one outcome for each finished request.        *)
(***************************************************************************)
THEOREM OutcomeCorrect == Spec => []OutcomeOnce
<1>1. ServerInv /\ OutcomeInv => OutcomeOnce
  BY DEF OutcomeInv
<1> QED
  BY <1>1, InitOutcome, NextOutcome, PTL DEF Spec

-----------------------------------------------------------------------------
(***************************************************************************)
(* The limiter's count of queued requests, with any number of threads      *)
(***************************************************************************)

(* Nothing happens to a session between its Queue decision and the handler *)
(* that puts it into the deque, so that this handler makes it wait.        *)
OnTheWay(s) == pc[s] = "enqueue" \/ EnqueueTask(s) \in Tasks

Calm ==
  \A s \in Sessions : OnTheWay(s) =>
    /\ ~queued[s] /\ ~chain[s] /\ queue_timer[s] = "off" /\ request_timer[s] = "off"
    /\ pc[s] \in {"idle", "enqueue"}

(* The promotion starts a session that has arrived in the deque.           *)
Arrived == server_pc = "begin" => ~OnTheWay(cur)

(* enqueue_session sends a session away only after the limiter is closed.  *)
StoppedClosed == stopping => closed

QueueInv == Calm /\ Arrived /\ StoppedClosed /\ QueueNotOverstated

LEMMA WaitingFinite ==
  IsFiniteSet(Waiting) /\ Cardinality(Waiting) \in Nat
  /\ IsFiniteSet(Waiting)' /\ Cardinality(Waiting)' \in Nat
<1>1. Waiting \subseteq Sessions /\ Waiting' \subseteq Sessions
  BY DEF Waiting
<1> QED
  BY <1>1, LimiterAssumption, FS_Subset, FS_CardinalityType

(* What a step may do to the count and to those who wait.                  *)
LEMMA CountKept ==
  ASSUME TypeOK, QueueNotOverstated, Waiting \subseteq Waiting',
         queued_requests' = queued_requests
  PROVE  QueueNotOverstated'
<1>1. Cardinality(Waiting) <= Cardinality(Waiting')
  BY WaitingFinite, FS_Subset
<1>2. queued_requests \in Nat
  BY DEF TypeOK, LimiterTypeOK
<1> QED
  BY <1>1, <1>2, WaitingFinite DEF QueueNotOverstated

LEMMA CountedOut ==
  ASSUME TypeOK, QueueNotOverstated, NEW s, Waiting \ {s} \subseteq Waiting',
         queued_requests' = IF queued_requests = 0 THEN 0 ELSE queued_requests - 1
  PROVE  QueueNotOverstated'
<1>1. Cardinality(Waiting \ {s}) >= Cardinality(Waiting) - 1
  <2>1. CASE s \in Waiting
    <3>1. Cardinality(Waiting \ {s}) = Cardinality(Waiting) - 1
      BY <2>1, WaitingFinite, FS_RemoveElement
    <3> QED
      BY <3>1, WaitingFinite
  <2>2. CASE s \notin Waiting
    <3>1. Waiting \ {s} = Waiting
      BY <2>2
    <3> QED
      BY <3>1, WaitingFinite
  <2> QED
    BY <2>1, <2>2
<1>2. IsFiniteSet(Waiting \ {s}) /\ Cardinality(Waiting \ {s}) \in Nat
  BY WaitingFinite, FS_RemoveElement, FS_CardinalityType
<1>3. Cardinality(Waiting \ {s}) <= Cardinality(Waiting')
  BY WaitingFinite, FS_Subset
<1>4. queued_requests \in Nat
  BY DEF TypeOK, LimiterTypeOK
<1> QED
  BY <1>1, <1>2, <1>3, <1>4, WaitingFinite DEF QueueNotOverstated

LEMMA CountedIn ==
  ASSUME TypeOK, QueueNotOverstated, NEW s, s \notin Waiting,
         Waiting \union {s} \subseteq Waiting', queued_requests' = queued_requests + 1
  PROVE  QueueNotOverstated'
<1>1. Cardinality(Waiting \union {s}) = Cardinality(Waiting) + 1
  BY WaitingFinite, FS_AddElement
<1>2. Cardinality(Waiting \union {s}) <= Cardinality(Waiting')
  BY WaitingFinite, FS_Subset
<1>3. queued_requests \in Nat
  BY DEF TypeOK, LimiterTypeOK
<1> QED
  BY <1>1, <1>2, <1>3, WaitingFinite DEF QueueNotOverstated

(* Those who wait after a step in which the sessions other than s, and the *)
(* promotion, stay as they are.                                            *)
LEMMA OthersStay ==
  ASSUME NEW s \in Sessions, UNCHANGED <<closed, server_pc, cur>>,
         \A r \in Sessions \ {s} : pc'[r] = pc[r] /\ queued'[r] = queued[r],
         \A r \in Sessions \ {s} : EnqueueTask(r) \in Tasks => EnqueueTask(r) \in Tasks'
  PROVE  Waiting \ {s} \subseteq Waiting'
BY DEF Waiting, InTransit

LEMMA HandleRequestQueue ==
  ASSUME ServerInv, OutcomeInv, QueueInv, NEW s \in Sessions, HandleRequest(s)
  PROVE  QueueInv'
<1>1. object[s] = "none" /\ Untouched(s) /\ EnqueueTask(s) \notin Tasks
  BY DEF HandleRequest, OutcomeInv, Fresh, ServerInv, QueuedOnce, OnePlace
<1>2. /\ UNCHANGED <<strand_q, server_pc, cur, stopping, queued, queue_timer, closed>>
      /\ Tasks' = Tasks
  BY DEF HandleRequest, serverVars, TryAcquireOrQueue, limiterVars, Tasks
<1>3. \A r \in Sessions \ {s} :
        pc'[r] = pc[r] /\ chain'[r] = chain[r] /\ request_timer'[r] = request_timer[r]
  BY DEF HandleRequest, StartProxyRequest, ServerInv, TypeOK
<1>4. \/ /\ pc' = [pc EXCEPT ![s] = "enqueue"] /\ queued_requests' = queued_requests + 1
         /\ UNCHANGED <<chain, request_timer>> /\ ~closed
      \/ pc' = pc /\ queued_requests' = queued_requests
  BY DEF HandleRequest, TryAcquireOrQueue, limiterVars
<1>5. Waiting \ {s} \subseteq Waiting'
  BY <1>2, <1>3, OthersStay
<1>6. s \notin Waiting
  BY <1>1 DEF Waiting, Untouched
<1>7. QueueNotOverstated'
  <2>1. CASE pc' = [pc EXCEPT ![s] = "enqueue"] /\ queued_requests' = queued_requests + 1 /\ ~closed
    <3>1. s \in Waiting'
      BY <1>2, <2>1 DEF Waiting, ServerInv, TypeOK
    <3> QED
      BY <1>5, <1>6, <2>1, <3>1, CountedIn DEF ServerInv, QueueInv
  <2>2. CASE pc' = pc /\ queued_requests' = queued_requests
    BY <1>5, <1>6, <2>2, CountKept DEF ServerInv, QueueInv
  <2> QED
    BY <1>4, <2>1, <2>2
<1>8. Calm'
  BY <1>1, <1>2, <1>3, <1>4 DEF QueueInv, Calm, OnTheWay, Untouched, ServerInv, TypeOK
<1>9. Arrived'
  BY <1>1, <1>2, <1>3, <1>4 DEF QueueInv, Arrived, OnTheWay, OutcomeInv, Begun, ServerInv, TypeOK
<1> QED
  BY <1>2, <1>7, <1>8, <1>9 DEF QueueInv, StoppedClosed

LEMMA SessionStrandQueue ==
  ASSUME ServerInv, QueueInv, NEW s \in Sessions,
         SessionStep(s) \/ SessionHandler(s) \/ TimerExpires(s) \/ Destroy(s)
  PROVE  QueueInv'
<1> USE DEF ServerInv, QueueInv
<1>1. /\ UNCHANGED <<server_pc, cur, stopping, closed>>
      /\ \A r \in Sessions \ {s} :
           /\ pc'[r] = pc[r] /\ queued'[r] = queued[r] /\ chain'[r] = chain[r]
           /\ queue_timer'[r] = queue_timer[r] /\ request_timer'[r] = request_timer[r]
  <2>1. CASE SessionStep(s)
    BY <2>1 DEF TypeOK, SessionStep, PostEnqueue, QueueTimerCancels, QueueTimerFails,
                ResetPermit, NotifyRelease, EndRequest, serverVars, limiterVars,
                CancelQueued, PermitRelease
  <2>2. CASE SessionHandler(s)
    BY <2>2 DEF TypeOK, SessionHandler, QueueTimerFires, RequestTimerFires, ChainEnds,
                EndRequest, serverVars, limiterVars
  <2>3. CASE TimerExpires(s) \/ Destroy(s)
    BY <2>3 DEF TypeOK, TimerExpires, Destroy, serverVars, limiterVars, CancelQueued
  <2> QED
    BY <2>1, <2>2, <2>3
<1>2. /\ Tasks \subseteq Tasks'
      /\ \A r \in Sessions : EnqueueTask(r) \in Tasks' =>
           EnqueueTask(r) \in Tasks \/ (r = s /\ PostEnqueue(s))
      /\ PostEnqueue(s) => EnqueueTask(s) \in Tasks'
  <2>1. CASE PostEnqueue(s)
    <3>1. EnqueueTask(s) \in Task /\ strand_q \in Seq(Task)
      BY DEF Task, TypeOK
    <3>2. Tasks' = Tasks \union {EnqueueTask(s)}
      BY <2>1, <3>1, AppendElems DEF PostEnqueue, Tasks
    <3>3. \A r \in Sessions : EnqueueTask(r) = EnqueueTask(s) => r = s
      BY DEF EnqueueTask
    <3> QED
      BY <2>1, <3>2, <3>3
  <2>2. CASE NotifyRelease(s)
    <3>1. PromoteTask \in Task /\ strand_q \in Seq(Task)
      BY DEF Task, TypeOK
    <3>2. Tasks' = Tasks \union {PromoteTask}
      BY <2>2, <3>1, AppendElems DEF NotifyRelease, Tasks
    <3>3. \A r \in Sessions : EnqueueTask(r) # PromoteTask
      BY DEF EnqueueTask, PromoteTask
    <3>4. ~PostEnqueue(s)
      BY <2>2 DEF PostEnqueue, NotifyRelease
    <3> QED
      BY <3>2, <3>3, <3>4
  <2>3. CASE ~PostEnqueue(s) /\ ~NotifyRelease(s)
    <3>1. strand_q' = strand_q
      BY <2>3 DEF SessionStep, QueueTimerCancels, QueueTimerFails, ResetPermit, serverVars,
                  SessionHandler, QueueTimerFires, RequestTimerFires, ChainEnds,
                  TimerExpires, Destroy
    <3> QED
      BY <2>3, <3>1 DEF Tasks
  <2> QED
    BY <2>1, <2>2, <2>3
<1>3. Waiting \ {s} \subseteq Waiting'
  BY <1>1, <1>2, OthersStay
<1>4. OnTheWay(s) /\ ~PostEnqueue(s) => Destroy(s)
  BY DEF Calm, OnTheWay, SessionStep, QueueTimerCancels, QueueTimerFails, ResetPermit,
         NotifyRelease, SessionHandler, QueueTimerFires, RequestTimerFires, ChainEnds,
         TimerExpires
<1>5. pc'[s] # "enqueue" \/ pc'[s] = pc[s]
  BY DEF TypeOK, SessionStep, PostEnqueue, QueueTimerCancels, QueueTimerFails,
         ResetPermit, NotifyRelease, SessionHandler, QueueTimerFires, RequestTimerFires,
         ChainEnds, TimerExpires, Destroy
<1>6. \A r \in Sessions : OnTheWay(r)' => OnTheWay(r)
  <2>1. PostEnqueue(s) => OnTheWay(s)
    BY DEF PostEnqueue, OnTheWay
  <2>2. ASSUME NEW r \in Sessions, EnqueueTask(r) \in Tasks'
        PROVE  OnTheWay(r)
    BY <1>2, <2>1, <2>2 DEF OnTheWay
  <2>3. ASSUME NEW r \in Sessions, pc'[r] = "enqueue"
        PROVE  OnTheWay(r)
    BY <1>1, <1>5, <2>3 DEF OnTheWay
  <2> QED
    BY <2>2, <2>3 DEF OnTheWay, EnqueueTask
<1>7. Calm'
  <2>1. ASSUME NEW r \in Sessions \ {s}, OnTheWay(r)'
        PROVE  /\ ~queued'[r] /\ ~chain'[r] /\ queue_timer'[r] = "off"
               /\ request_timer'[r] = "off" /\ pc'[r] \in {"idle", "enqueue"}
    BY <1>1, <1>6, <2>1 DEF Calm
  <2>2. ASSUME OnTheWay(s)'
        PROVE  /\ ~queued'[s] /\ ~chain'[s] /\ queue_timer'[s] = "off"
               /\ request_timer'[s] = "off" /\ pc'[s] \in {"idle", "enqueue"}
    <3>1. OnTheWay(s)
      BY <1>6, <2>2
    <3>2. CASE PostEnqueue(s)
      BY <3>1, <3>2 DEF Calm, PostEnqueue, TypeOK
    <3>3. CASE Destroy(s)
      <4>1. s \notin permits
        BY <3>1 DEF OnTheWay, QueuedOnce, OnePlace
      <4> QED
        BY <3>3, <4>1 DEF Destroy, TypeOK
    <3> QED
      BY <1>4, <3>1, <3>2, <3>3
  <2> QED
    BY <2>1, <2>2 DEF Calm
<1>8. Arrived'
  BY <1>1, <1>6 DEF Arrived, OnTheWay, EnqueueTask, Tasks, TypeOK
<1>9. QueueNotOverstated'
  <2>1. CASE QueueTimerCancels(s) \/ (Destroy(s) /\ queued[s])
    BY <1>3, <2>1, CountedOut DEF QueueTimerCancels, Destroy, CancelQueued
  <2>2. CASE ~QueueTimerCancels(s) /\ ~(Destroy(s) /\ queued[s])
    <3>1. queued_requests' = queued_requests
      BY <2>2 DEF SessionStep, PostEnqueue, QueueTimerFails, ResetPermit, NotifyRelease,
                  SessionHandler, QueueTimerFires, RequestTimerFires, ChainEnds,
                  TimerExpires, Destroy, limiterVars, PermitRelease
    <3>2. s \in Waiting => s \in Waiting'
      <4>1. CASE EnqueueTask(s) \in Tasks \/ PostEnqueue(s)
        BY <1>1, <1>2, <4>1 DEF Waiting
      <4>2. CASE EnqueueTask(s) \notin Tasks /\ ~PostEnqueue(s)
        <5> SUFFICES ASSUME s \in Waiting PROVE s \in Waiting'
          OBVIOUS
        <5>1. pc[s] # "enqueue"
          BY <1>4, <4>2 DEF OnTheWay, Destroy
        <5>2. ~closed /\ queued[s] /\ pc[s] # "dequeue" /\ ~InTransit(s)
          BY <4>2, <5>1 DEF Waiting
        <5>3. queued'[s] /\ pc'[s] # "dequeue"
          BY <2>2, <4>2, <5>2
             DEF TypeOK, SessionStep, QueueTimerFails, ResetPermit, NotifyRelease,
                 SessionHandler, QueueTimerFires, RequestTimerFires, ChainEnds, TimerExpires
        <5> QED
          BY <1>1, <5>2, <5>3 DEF Waiting, InTransit
      <4> QED
        BY <4>1, <4>2
    <3>3. Waiting \subseteq Waiting'
      BY <1>3, <3>2
    <3> QED
      BY <3>1, <3>3, CountKept
  <2> QED
    BY <2>1, <2>2
<1> QED
  BY <1>1, <1>7, <1>8, <1>9 DEF StoppedClosed

(* A step of the server's strand or of the signals that leaves the         *)
(* sessions alone and posts no enqueue.                                    *)
LEMMA ServerFrame ==
  ASSUME QueueInv, UNCHANGED sessionVars,
         \A r \in Sessions : EnqueueTask(r) \in Tasks' => EnqueueTask(r) \in Tasks
  PROVE  Calm' /\ \A r \in Sessions : OnTheWay(r)' => OnTheWay(r)
BY DEF QueueInv, Calm, OnTheWay, sessionVars, EnqueueTask

LEMMA SameWaiting ==
  ASSUME TypeOK, QueueNotOverstated, UNCHANGED <<pc, queued, closed, queued_requests>>,
         \A r \in Sessions : EnqueueTask(r) \in Tasks => EnqueueTask(r) \in Tasks',
         \A r \in Sessions : InTransit(r)' => InTransit(r)
  PROVE  QueueNotOverstated'
<1>1. Waiting \subseteq Waiting'
  BY DEF Waiting
<1> QED
  BY <1>1, CountKept

LEMMA OtherTaken ==
  ASSUME TypeOK, NEW t \in {PromoteTask, StopTask}, NextTask(t)
  PROVE  \A r \in Sessions : EnqueueTask(r) \in Tasks' <=> EnqueueTask(r) \in Tasks
<1>1. ElemsOf(strand_q) = ElemsOf(strand_q') \union {t}
  BY TailElems DEF NextTask, TypeOK
<1>2. \A r \in Sessions : EnqueueTask(r) # t
  BY DEF EnqueueTask, PromoteTask, StopTask
<1> QED
  BY <1>1, <1>2 DEF Tasks

LEMMA OtherPosted ==
  ASSUME TypeOK, NEW t \in {PromoteTask, StopTask}, strand_q' = Append(strand_q, t)
  PROVE  \A r \in Sessions : EnqueueTask(r) \in Tasks' <=> EnqueueTask(r) \in Tasks
<1>1. ElemsOf(strand_q') = ElemsOf(strand_q) \union {t}
  <2>1. t \in Task /\ strand_q \in Seq(Task)
    BY DEF Task, TypeOK
  <2> QED
    BY <2>1, AppendElems
<1>2. \A r \in Sessions : EnqueueTask(r) # t
  BY DEF EnqueueTask, PromoteTask, StopTask
<1> QED
  BY <1>1, <1>2 DEF Tasks

LEMMA EnqueueSessionQueue ==
  ASSUME ServerInv, QueueInv, NEW s \in Sessions, EnqueueSession(s)
  PROVE  QueueInv'
<1> USE DEF ServerInv, QueueInv
<1>1. /\ NextTask(EnqueueTask(s)) /\ server_pc = "idle"
      /\ UNCHANGED <<server_pc, cur, stopping, pc, chain, request_timer, closed, queued_requests>>
  BY DEF EnqueueSession, NextTask, limiterVars
<1>2. /\ EnqueueTask(s) \in Tasks /\ EnqueueTask(s) \notin Tasks'
      /\ Tasks = Tasks' \union {EnqueueTask(s)}
  <2>1. EnqueueTask(s) \in Tasks /\ EnqueueTask(s) \notin ElemsOf(strand_q')
    BY <1>1, TakeTask DEF EnqueueTasks
  <2>2. ElemsOf(strand_q) = ElemsOf(strand_q') \union {EnqueueTask(s)}
    BY <1>1, TailElems DEF NextTask, TypeOK
  <2> QED
    BY <2>1, <2>2 DEF Tasks
<1>3. \A r \in Sessions \ {s} : queued'[r] = queued[r] /\ queue_timer'[r] = queue_timer[r]
  BY DEF EnqueueSession, TypeOK
<1>4. \A r \in Sessions \ {s} : EnqueueTask(r) # EnqueueTask(s)
  BY DEF EnqueueTask
<1>5. ~OnTheWay(s)' /\ pc[s] = "idle"
  <2>1. pc[s] \in {"idle", "enqueue"} /\ pc[s] # "enqueue"
    BY <1>2 DEF Calm, OnTheWay, QueuedOnce, OnePlace
  <2> QED
    BY <1>1, <1>2, <2>1 DEF OnTheWay, EnqueueTask
<1>6. \A r \in Sessions \ {s} : OnTheWay(r)' => OnTheWay(r)
  BY <1>1, <1>2, <1>4 DEF OnTheWay, EnqueueTask
<1>7. Calm'
  BY <1>1, <1>3, <1>5, <1>6 DEF Calm
<1>8. QueueNotOverstated'
  <2>1. Waiting \ {s} \subseteq Waiting'
    BY <1>1, <1>2, <1>3, <1>4, OthersStay
  <2>2. s \in Waiting => s \in Waiting'
    <3>1. CASE stopping
      BY <3>1 DEF StoppedClosed, Waiting
    <3>2. CASE ~stopping
      <4>1. queued'[s]
        BY <3>2 DEF EnqueueSession, TypeOK
      <4> QED
        BY <1>1, <1>5, <4>1 DEF Waiting, InTransit
    <3> QED
      BY <3>1, <3>2
  <2>3. Waiting \subseteq Waiting'
    BY <2>1, <2>2
  <2> QED
    BY <1>1, <2>3, CountKept
<1> QED
  BY <1>1, <1>7, <1>8 DEF Arrived, StoppedClosed

LEMMA ServerStrandQueue ==
  ASSUME ServerInv, QueueInv, ServerStep \/ ServerHandler
  PROVE  QueueInv'
<1> USE DEF ServerInv, QueueInv
<1>1. ASSUME NEW s \in Sessions, EnqueueSession(s)
      PROVE  QueueInv'
  BY <1>1, EnqueueSessionQueue
<1>2. CASE PromoteBegins
  <2>1. /\ \A r \in Sessions : EnqueueTask(r) \in Tasks' <=> EnqueueTask(r) \in Tasks
        /\ UNCHANGED sessionVars /\ server_pc' = "loop"
        /\ UNCHANGED <<pc, queued, closed, queued_requests, stopping>>
    BY <1>2, OtherTaken DEF PromoteBegins, sessionVars, limiterVars
  <2>2. Calm'
    BY <2>1, ServerFrame
  <2>3. \A r \in Sessions : InTransit(r)' => InTransit(r)
    BY <2>1 DEF InTransit
  <2>4. QueueNotOverstated'
    BY <2>1, <2>3, SameWaiting
  <2> QED
    BY <2>1, <2>2, <2>4 DEF Arrived, StoppedClosed
<1>3. CASE StopServer
  <2>1. /\ \A r \in Sessions : EnqueueTask(r) \in Tasks' <=> EnqueueTask(r) \in Tasks
        /\ UNCHANGED sessionVars /\ server_pc' = "idle" /\ closed' = TRUE /\ queued_requests' = 0
    BY <1>3, OtherTaken DEF StopServer, LimiterClose, NextTask
  <2>2. Calm'
    BY <2>1, ServerFrame
  <2>3. QueueNotOverstated'
    BY <2>1, WaitingFinite DEF QueueNotOverstated
  <2> QED
    BY <2>1, <2>2, <2>3 DEF Arrived, StoppedClosed
<1>4. CASE PromoteLoop \/ PromoteDenied \/ DropPermit
  <2>1. /\ UNCHANGED <<sessionVars, strand_q>> /\ server_pc' \notin {"start", "begin", "drop"}
        /\ UNCHANGED <<pc, queued, closed, queued_requests, stopping>>
    BY <1>4 DEF PromoteLoop, PromoteDenied, DropPermit, sessionVars, limiterVars, PermitRelease
  <2>2. Tasks' = Tasks
    BY <2>1 DEF Tasks
  <2>3. Calm'
    BY <2>1, <2>2, ServerFrame
  <2>4. \A r \in Sessions : InTransit(r)' => InTransit(r)
    BY <2>1 DEF InTransit
  <2>5. QueueNotOverstated'
    BY <2>1, <2>2, <2>4, SameWaiting
  <2> QED
    BY <2>1, <2>3, <2>5 DEF Arrived, StoppedClosed
<1>5. CASE PromoteTry
  <2>1. /\ UNCHANGED <<sessionVars, strand_q>> /\ server_pc' # "begin"
        /\ UNCHANGED <<pc, queued, closed, stopping, cur>>
        /\ \/ queued_requests # 0 /\ queued_requests' = queued_requests - 1
           \/ server_pc' = "denied" /\ queued_requests' = queued_requests
    BY <1>5 DEF PromoteTry, TryPromoteQueued, sessionVars
  <2>2. Tasks' = Tasks
    BY <2>1 DEF Tasks
  <2>3. Calm'
    BY <2>1, <2>2, ServerFrame
  <2>4. QueueNotOverstated'
    <3>1. CASE queued_requests # 0 /\ queued_requests' = queued_requests - 1
      <4>1. Waiting \ {cur} \subseteq Waiting'
        BY <2>1, <2>2 DEF Waiting, InTransit
      <4> QED
        BY <3>1, <4>1, CountedOut
    <3>2. CASE server_pc' = "denied" /\ queued_requests' = queued_requests
      <4>1. \A r \in Sessions : InTransit(r)' => InTransit(r)
        BY <3>2 DEF InTransit
      <4> QED
        BY <2>1, <2>2, <3>2, <4>1, SameWaiting
    <3> QED
      BY <2>1, <3>1, <3>2
  <2> QED
    BY <2>1, <2>3, <2>4 DEF Arrived, StoppedClosed
<1>6. CASE TryStartFromQueue
  <2>1. /\ UNCHANGED <<sessionVars, strand_q>> /\ server_pc = "start"
        /\ UNCHANGED <<pc, queued, closed, queued_requests, stopping, cur>>
        /\ server_pc' = "begin" => queued[cur]
    BY <1>6 DEF TryStartFromQueue, sessionVars, limiterVars
  <2>2. Tasks' = Tasks /\ cur \in Sessions
    BY <2>1 DEF Tasks, TypeOK
  <2>3. Calm' /\ \A r \in Sessions : OnTheWay(r)' => OnTheWay(r)
    BY <2>1, <2>2, ServerFrame
  <2>4. \A r \in Sessions : InTransit(r)' => InTransit(r)
    BY <2>1 DEF InTransit
  <2>5. QueueNotOverstated'
    BY <2>1, <2>2, <2>4, SameWaiting
  <2>6. Arrived'
    BY <2>1, <2>2 DEF Arrived, Calm, OnTheWay, EnqueueTask, Tasks
  <2> QED
    BY <2>1, <2>3, <2>5, <2>6 DEF StoppedClosed
<1>7. CASE BeginFromQueue
  <2>1. /\ server_pc = "begin" /\ server_pc' = "loop" /\ cur \in Sessions
        /\ UNCHANGED <<strand_q, pc, closed, queued_requests, stopping>>
        /\ \A r \in Sessions \ {cur} :
             /\ queued'[r] = queued[r] /\ chain'[r] = chain[r]
             /\ queue_timer'[r] = queue_timer[r] /\ request_timer'[r] = request_timer[r]
    BY <1>7 DEF BeginFromQueue, StartProxyRequest, limiterVars, TypeOK
  <2>2. Tasks' = Tasks /\ ~OnTheWay(cur)
    BY <2>1 DEF Tasks, Arrived
  <2>3. \A r \in Sessions : OnTheWay(r)' => OnTheWay(r)
    BY <2>1, <2>2 DEF OnTheWay, EnqueueTask
  <2>4. Calm'
    BY <2>1, <2>2, <2>3 DEF Calm
  <2>5. Waiting \subseteq Waiting'
    BY <2>1, <2>2 DEF Waiting, InTransit, OnTheWay
  <2>6. QueueNotOverstated'
    BY <2>1, <2>5, CountKept
  <2> QED
    BY <2>1, <2>4, <2>6 DEF Arrived, StoppedClosed
<1>8. CASE NotifyDrop
  <2>1. /\ strand_q' = Append(strand_q, PromoteTask)
        /\ UNCHANGED sessionVars /\ server_pc' = "loop"
        /\ UNCHANGED <<pc, queued, closed, queued_requests, stopping>>
    BY <1>8 DEF NotifyDrop, sessionVars, limiterVars
  <2>2. \A r \in Sessions : EnqueueTask(r) \in Tasks' <=> EnqueueTask(r) \in Tasks
    BY <2>1, OtherPosted
  <2>3. Calm'
    BY <2>1, <2>2, ServerFrame
  <2>4. \A r \in Sessions : InTransit(r)' => InTransit(r)
    BY <2>1 DEF InTransit
  <2>5. QueueNotOverstated'
    BY <2>1, <2>2, <2>4, SameWaiting
  <2> QED
    BY <2>1, <2>3, <2>5 DEF Arrived, StoppedClosed
<1> QED
  BY <1>1, <1>2, <1>3, <1>4, <1>5, <1>6, <1>7, <1>8 DEF ServerStep, ServerHandler

LEMMA SignalQueue ==
  ASSUME ServerInv, QueueInv, SignalPostsStop \/ SignalStopsIo \/ Exited \/ UNCHANGED vars
  PROVE  QueueInv'
<1> USE DEF ServerInv, QueueInv
<1>1. UNCHANGED <<sessionVars, pc, queued, closed, queued_requests, stopping, server_pc, cur>>
  BY DEF SignalPostsStop, SignalStopsIo, Exited, vars, serverVars, sessionVars, limiterVars
<1>2. \A r \in Sessions : EnqueueTask(r) \in Tasks' <=> EnqueueTask(r) \in Tasks
  <2>1. CASE SignalPostsStop
    BY <2>1, OtherPosted DEF SignalPostsStop
  <2>2. CASE strand_q' = strand_q
    BY <2>2 DEF Tasks
  <2> QED
    BY <2>1, <2>2 DEF SignalStopsIo, Exited, vars, serverVars
<1>3. Calm' /\ \A r \in Sessions : OnTheWay(r)' => OnTheWay(r)
  BY <1>1, <1>2, ServerFrame
<1>4. \A r \in Sessions : InTransit(r)' => InTransit(r)
  BY <1>1 DEF InTransit
<1>5. QueueNotOverstated'
  BY <1>1, <1>2, <1>4, SameWaiting
<1>6. Arrived'
  BY <1>1, <1>2 DEF Arrived, OnTheWay, EnqueueTask, TypeOK
<1> QED
  BY <1>1, <1>3, <1>5, <1>6 DEF StoppedClosed

LEMMA InitQueue == Init => QueueInv
<1> SUFFICES ASSUME Init PROVE QueueInv
  OBVIOUS
<1>1. Tasks = {}
  BY DEF Init, Tasks, ElemsOf
<1>2. queued_requests = 0
  BY DEF Init, LimiterInit
<1> QED
  BY <1>1, <1>2, WaitingFinite
     DEF Init, QueueInv, Calm, OnTheWay, Arrived, StoppedClosed, QueueNotOverstated

LEMMA NextQueue == ServerInv /\ OutcomeInv /\ QueueInv /\ [Next]_vars => QueueInv'
BY HandleRequestQueue, SessionStrandQueue, ServerStrandQueue, SignalQueue DEF Next

(***************************************************************************)
(* With any number of worker threads the limiter never counts more queued  *)
(* requests than wait, although a promotion and a queue timeout may both   *)
(* count the same one out.                                                 *)
(***************************************************************************)
THEOREM QueueNotOverstatedCorrect == Spec => []QueueNotOverstated
<1>1. QueueInv => QueueNotOverstated
  BY DEF QueueInv
<1> QED
  BY <1>1, InitOutcome, NextOutcome, InitQueue, NextQueue, PTL DEF Spec
=============================================================================
