----------------------------- MODULE ProxyServer -----------------------------
(***************************************************************************)
(* The admission path of the proxy: ProxyServer's strand and deque, the    *)
(* queue and request timers of the sessions, the limiter they share, and   *)
(* the io_context whose worker threads run all handlers.                   *)
(*                                                                         *)
(* A handler is a sequence of steps; a step ends where another thread      *)
(* could see or disturb what the handler does next: a limiter call, an     *)
(* access to an atomic another strand writes, a post.  A strand runs one   *)
(* handler at a time (server_pc for the server's strand, pc[s] for the     *)
(* strand of session s) and at most Workers handlers are in progress, so   *)
(* Workers = 1 (the default of ProxyConfig::worker_threads) makes every    *)
(* handler atomic and a larger value gives the interleavings that the      *)
(* VLLM_SLO_WORKER_THREADS setting allows.                                 *)
(*                                                                         *)
(* Everything between start_proxy_request and the end of the exchange with *)
(* the upstream is one outstanding operation here (chain); ProxySession    *)
(* has its detail.                                                         *)
(***************************************************************************)
EXTENDS InflightLimiter, Sequences

CONSTANT Workers   \* number of threads in io_context::run()

ASSUME WorkersAssumption == Workers \in Nat \ {0}

VARIABLES
  \* ProxyServer
  queued_sessions,  \* the deque of weak_ptr<ProxySession>
  stopping,
  strand_q,         \* handlers posted to strand_ and not yet started, FIFO
  server_pc,        \* where the handler running on strand_ is
  cur,              \* promote_queued_sessions(): the local variable session
  \* io_context and the signal handler of proxy_main
  io,               \* "run", "signalled" (inside the handler), "stopped"
  \* ProxySession, per session
  object,           \* "none" (not accepted), "live", "destroyed"
  pc,               \* where the handler running on the session's strand is
  queued,           \* queued_
  finished,         \* finished_
  chain,            \* the exchange with the upstream has an operation pending
  queue_timer,
  request_timer,
  \* ProxyMetrics
  metrics           \* total_, completed_ and failed_requests

serverVars  == <<queued_sessions, stopping, strand_q, server_pc, cur, io>>
sessionVars == <<object, pc, queued, finished, chain, queue_timer, request_timer>>
vars == <<limiterVars, serverVars, sessionVars, metrics>>

(* A timer is "off", "armed", or "due": expired with its handler queued    *)
(* and error code 0, which cancel() no longer changes.  A cancelled wait   *)
(* runs its handler with an error code, which returns at once: "off".      *)
TimerState == {"off", "armed", "due"}
Cancelled(t) == IF t = "armed" THEN "off" ELSE t

(* Handlers posted to the server's strand.                                 *)
EnqueueTask(s) == [op |-> "enqueue", session |-> s]
PromoteTask == [op |-> "promote"]
StopTask    == [op |-> "stop"]
Task == {EnqueueTask(s) : s \in Sessions} \union {PromoteTask, StopTask}

ServerPc  == {"idle", "loop", "try", "denied", "start", "begin", "drop", "notify"}
SessionPc == {"idle", "enqueue", "cancel", "dequeue", "release", "notify"}

Counters  == {"total", "completed", "failed"}

(* Handlers in progress, each of them on a worker thread of its own.       *)
Busy ==
  Cardinality({s \in Sessions : pc[s] # "idle"})
    + (IF server_pc = "idle" THEN 0 ELSE 1)
    + (IF io = "signalled" THEN 1 ELSE 0)

(* A thread in run() may take the next handler.                            *)
WorkerFree == io # "stopped" /\ Busy < Workers

(* A Permit for s exists but is still an argument on its way through       *)
(* promote_queued_sessions, not yet the session's permit_.                 *)
InTransit(s) == cur = s /\ server_pc \in {"start", "begin", "drop"}
OwnsPermit(s) == s \in permits /\ ~InTransit(s)

Init ==
  /\ LimiterInit
  /\ queued_sessions = <<>> /\ strand_q = <<>>
  /\ stopping = FALSE
  /\ server_pc = "idle"
  /\ cur \in Sessions     \* irrelevant until the first promote
  /\ io = "run"
  /\ object = [s \in Sessions |-> "none"]
  /\ pc = [s \in Sessions |-> "idle"]
  /\ queued = [s \in Sessions |-> FALSE]
  /\ finished = [s \in Sessions |-> FALSE]
  /\ chain = [s \in Sessions |-> FALSE]
  /\ queue_timer = [s \in Sessions |-> "off"]
  /\ request_timer = [s \in Sessions |-> "off"]
  /\ metrics = [c \in Counters |-> 0]

-----------------------------------------------------------------------------
(***************************************************************************)
(* Handlers of a session's strand                                          *)
(***************************************************************************)

(* start_proxy_request: request_timer_ armed, first upstream operation     *)
(* started.  The permit moves into permit_ (see OwnsPermit).               *)
StartProxyRequest(s) ==
  /\ request_timer' = [request_timer EXCEPT ![s] = "armed"]
  /\ chain' = [chain EXCEPT ![s] = TRUE]

(* fail_with_status / finish_request up to permit_.reset(), on a session   *)
(* not finished before: the caller checks.                                 *)
EndRequest(s, outcome) ==
  /\ finished' = [finished EXCEPT ![s] = TRUE]
  /\ queue_timer' = [queue_timer EXCEPT ![s] = Cancelled(@)]
  /\ request_timer' = [request_timer EXCEPT ![s] = Cancelled(@)]
  /\ metrics' = [metrics EXCEPT ![outcome] = @ + 1]

(* handle_request of a POST to /v1/chat/completions, from the lock of      *)
(* server_ on.  A queued request is posted to the strand in a later step   *)
(* of the handler; a refused one fails and owns no permit to reset.        *)
HandleRequest(s) ==
  /\ WorkerFree /\ object[s] = "none"
  /\ object' = [object EXCEPT ![s] = "live"]
  /\ \E d \in InflightDecision :
       /\ TryAcquireOrQueue(s, d)
       /\ \/ /\ d = "Admit"
             /\ StartProxyRequest(s)
             /\ metrics' = [metrics EXCEPT !["total"] = @ + 1]
             /\ UNCHANGED <<pc, finished>>
          \/ /\ d = "Queue"
             /\ pc' = [pc EXCEPT ![s] = "enqueue"]
             /\ metrics' = [metrics EXCEPT !["total"] = @ + 1]
             /\ UNCHANGED <<finished, chain, request_timer>>
          \/ /\ d \in {"Reject", "Closed"}
             /\ finished' = [finished EXCEPT ![s] = TRUE]
             /\ metrics' = [metrics EXCEPT !["total"] = @ + 1, !["failed"] = @ + 1]
             /\ UNCHANGED <<pc, chain, request_timer>>
  /\ UNCHANGED <<serverVars, queued, queue_timer>>

(* enqueue_session posts to the strand; the end of handle_request.         *)
PostEnqueue(s) ==
  /\ pc[s] = "enqueue"
  /\ strand_q' = Append(strand_q, EnqueueTask(s))
  /\ pc' = [pc EXCEPT ![s] = "idle"]
  /\ UNCHANGED <<limiterVars, queued_sessions, stopping, server_pc, cur, io,
                 object, queued, finished, chain, queue_timer, request_timer, metrics>>

(* Time passes: a timer expires.                                           *)
TimerExpires(s) ==
  /\ io # "stopped"
  /\ \/ /\ queue_timer[s] = "armed"
        /\ queue_timer' = [queue_timer EXCEPT ![s] = "due"]
        /\ UNCHANGED request_timer
     \/ /\ request_timer[s] = "armed"
        /\ request_timer' = [request_timer EXCEPT ![s] = "due"]
        /\ UNCHANGED queue_timer
  /\ UNCHANGED <<limiterVars, serverVars, object, pc, queued, finished, chain, metrics>>

(* The handler of queue_timer_: its test of queued_.                       *)
QueueTimerFires(s) ==
  /\ WorkerFree /\ pc[s] = "idle" /\ queue_timer[s] = "due"
  /\ queue_timer' = [queue_timer EXCEPT ![s] = "off"]
  /\ pc' = [pc EXCEPT ![s] = IF queued[s] THEN "cancel" ELSE "idle"]
  /\ UNCHANGED <<limiterVars, serverVars, object, queued, finished, chain,
                 request_timer, metrics>>

(* ... its call of cancel_queued() ...                                     *)
QueueTimerCancels(s) ==
  /\ pc[s] = "cancel"
  /\ CancelQueued
  /\ pc' = [pc EXCEPT ![s] = "dequeue"]
  /\ UNCHANGED <<serverVars, object, queued, finished, chain, queue_timer,
                 request_timer, metrics>>

(* ... queued_.store(false) and the 429 through fail_with_status.          *)
QueueTimerFails(s) ==
  /\ pc[s] = "dequeue"
  /\ queued' = [queued EXCEPT ![s] = FALSE]
  /\ IF finished[s]
     THEN /\ pc' = [pc EXCEPT ![s] = "idle"]
          /\ UNCHANGED <<finished, queue_timer, request_timer, metrics>>
     ELSE /\ pc' = [pc EXCEPT ![s] = "release"]
          /\ EndRequest(s, "failed")
  /\ UNCHANGED <<limiterVars, serverVars, object, chain>>

(* The handler of request_timer_: the operation of the chain stays pending *)
(* and its own handler will find the session finished.                     *)
RequestTimerFires(s) ==
  /\ WorkerFree /\ pc[s] = "idle" /\ request_timer[s] = "due"
  /\ IF finished[s]
     THEN /\ request_timer' = [request_timer EXCEPT ![s] = "off"]
          /\ UNCHANGED <<pc, finished, queue_timer, metrics>>
     ELSE /\ pc' = [pc EXCEPT ![s] = "release"]
          /\ finished' = [finished EXCEPT ![s] = TRUE]
          /\ queue_timer' = [queue_timer EXCEPT ![s] = Cancelled(@)]
          /\ request_timer' = [request_timer EXCEPT ![s] = "off"]
          /\ metrics' = [metrics EXCEPT !["failed"] = @ + 1]
  /\ UNCHANGED <<limiterVars, serverVars, object, queued, chain>>

(* Mutant of ChainEnds: finished_ is not tested.                           *)
ChainEndsUnchecked(s) ==
  /\ WorkerFree /\ pc[s] = "idle" /\ chain[s]
  /\ chain' = [chain EXCEPT ![s] = FALSE]
  /\ pc' = [pc EXCEPT ![s] = "release"]
  /\ EndRequest(s, "completed")
  /\ UNCHANGED <<limiterVars, serverVars, object, queued>>

(* The last handler of the chain: finish_request or fail_with_status, both *)
(* of which return at once on a finished session.                          *)
ChainEnds(s) ==
  /\ WorkerFree /\ pc[s] = "idle" /\ chain[s]
  /\ chain' = [chain EXCEPT ![s] = FALSE]
  /\ IF finished[s]
     THEN UNCHANGED <<pc, finished, queue_timer, request_timer, metrics>>
     ELSE /\ pc' = [pc EXCEPT ![s] = "release"]
          /\ \E outcome \in {"completed", "failed"} : EndRequest(s, outcome)
  /\ UNCHANGED <<limiterVars, serverVars, object, queued>>

(* Mutant of ResetPermit: the permit is kept until the destructor.         *)
ResetPermitForgotten(s) ==
  /\ pc[s] = "release"
  /\ pc' = [pc EXCEPT ![s] = "idle"]
  /\ UNCHANGED <<limiterVars, serverVars, object, queued, finished, chain,
                 queue_timer, request_timer, metrics>>

(* permit_.reset(): releases the slot if permit_ owns one at this moment.  *)
ResetPermit(s) ==
  /\ pc[s] = "release"
  /\ IF OwnsPermit(s)
     THEN /\ PermitRelease(s)
          /\ pc' = [pc EXCEPT ![s] = IF current_inflight = 0 THEN "idle" ELSE "notify"]
     ELSE /\ pc' = [pc EXCEPT ![s] = "idle"]
          /\ UNCHANGED limiterVars
  /\ UNCHANGED <<serverVars, object, queued, finished, chain, queue_timer,
                 request_timer, metrics>>

(* The on_release callback posts a promotion to the strand.                *)
NotifyRelease(s) ==
  /\ pc[s] = "notify"
  /\ strand_q' = Append(strand_q, PromoteTask)
  /\ pc' = [pc EXCEPT ![s] = "idle"]
  /\ UNCHANGED <<limiterVars, queued_sessions, stopping, server_pc, cur, io,
                 object, queued, finished, chain, queue_timer, request_timer, metrics>>

(* ~ProxySession and the destruction of permit_, on the thread that drops  *)
(* the last reference: no handler, pending operation or task refers to the *)
(* session any more, or the io_context is torn down with everything that   *)
(* is pending in it.                                                       *)
Unreferenced(s) ==
  /\ ~chain[s] /\ queue_timer[s] = "off" /\ request_timer[s] = "off"
  /\ ~(server_pc \notin {"idle", "loop"} /\ cur = s)
  /\ \A i \in 1..Len(strand_q) : strand_q[i] # EnqueueTask(s)

TornDown == io = "stopped" /\ Busy = 0

Destroy(s) ==
  /\ object[s] = "live" /\ pc[s] = "idle" /\ Busy < Workers
  /\ Unreferenced(s) \/ TornDown
  /\ object' = [object EXCEPT ![s] = "destroyed"]
  /\ queued' = [queued EXCEPT ![s] = FALSE]
  /\ chain' = [chain EXCEPT ![s] = FALSE]
  /\ queue_timer' = [queue_timer EXCEPT ![s] = "off"]
  /\ request_timer' = [request_timer EXCEPT ![s] = "off"]
  /\ pc' = [pc EXCEPT ![s] = IF s \in permits THEN "release" ELSE "idle"]
  /\ IF queued[s] THEN CancelQueued ELSE UNCHANGED limiterVars
  /\ UNCHANGED <<serverVars, finished, metrics>>

-----------------------------------------------------------------------------
(***************************************************************************)
(* Handlers of the server's strand                                         *)
(***************************************************************************)
NextTask(t) ==
  /\ WorkerFree /\ server_pc = "idle"
  /\ strand_q # <<>> /\ Head(strand_q) = t
  /\ strand_q' = Tail(strand_q)

(* Mutant of EnqueueSession: start_queue_timer does not wait on the timer. *)
EnqueueSessionNoTimer(s) ==
  /\ NextTask(EnqueueTask(s))
  /\ ~stopping
  /\ queued_sessions' = Append(queued_sessions, s)
  /\ queued' = [queued EXCEPT ![s] = TRUE]
  /\ UNCHANGED <<limiterVars, stopping, server_pc, cur, io, object, pc, finished,
                 chain, queue_timer, request_timer, metrics>>

(* The handler posted by enqueue_session; start_queue_timer included.  The *)
(* deque is touched by this strand only and the session has no other       *)
(* handler yet, so nothing can come between its statements.                *)
EnqueueSession(s) ==
  /\ NextTask(EnqueueTask(s))
  /\ IF stopping
     THEN UNCHANGED <<queued_sessions, queued, queue_timer>>   \* close_client()
     ELSE /\ queued_sessions' = Append(queued_sessions, s)
          /\ queued' = [queued EXCEPT ![s] = TRUE]
          /\ queue_timer' = [queue_timer EXCEPT ![s] = "armed"]
  /\ UNCHANGED <<limiterVars, stopping, server_pc, cur, io, object, pc, finished,
                 chain, request_timer, metrics>>

(* promote_queued_sessions, posted by the on_release callback.             *)
PromoteBegins ==
  /\ NextTask(PromoteTask)
  /\ server_pc' = "loop"
  /\ UNCHANGED <<limiterVars, queued_sessions, stopping, cur, io, sessionVars, metrics>>

(* Mutant of PromoteLoop: the front is looked at and not popped.           *)
PromoteLoopPeeks ==
  /\ server_pc = "loop" /\ queued_sessions # <<>>
  /\ server_pc' = "try" /\ cur' = Head(queued_sessions)
  /\ UNCHANGED <<limiterVars, queued_sessions, stopping, strand_q, io, sessionVars, metrics>>

(* Head of its loop: pop the front; skip an expired or unqueued session.   *)
PromoteLoop ==
  /\ server_pc = "loop"
  /\ IF queued_sessions = <<>>
     THEN server_pc' = "idle" /\ UNCHANGED <<queued_sessions, cur>>
     ELSE LET session == Head(queued_sessions)
          IN  /\ queued_sessions' = Tail(queued_sessions)
              /\ IF object[session] = "live" /\ queued[session]
                 THEN server_pc' = "try" /\ cur' = session
                 ELSE UNCHANGED <<server_pc, cur>>
  /\ UNCHANGED <<limiterVars, stopping, strand_q, io, sessionVars, metrics>>

(* Its call of try_promote_queued().                                       *)
PromoteTry ==
  /\ server_pc = "try"
  /\ \E valid \in BOOLEAN :
       /\ TryPromoteQueued(cur, valid)
       /\ server_pc' = IF valid THEN "start" ELSE "denied"
  /\ UNCHANGED <<queued_sessions, stopping, strand_q, cur, io, sessionVars, metrics>>

(* Mutant of PromoteDenied: the session is not put back.                   *)
PromoteDeniedDrops ==
  /\ server_pc = "denied" /\ server_pc' = "idle"
  /\ UNCHANGED <<limiterVars, queued_sessions, stopping, strand_q, cur, io,
                 sessionVars, metrics>>

(* No permit: forget the session if the limiter counts nobody as queued,   *)
(* else put it back and return.                                            *)
PromoteDenied ==
  /\ server_pc = "denied"
  /\ IF queued_requests = 0
     THEN server_pc' = "loop" /\ UNCHANGED queued_sessions
     ELSE server_pc' = "idle" /\ queued_sessions' = <<cur>> \o queued_sessions
  /\ UNCHANGED <<limiterVars, stopping, strand_q, cur, io, sessionVars, metrics>>

(* try_start_from_queue: its test of queued_ and finished_ ...             *)
TryStartFromQueue ==
  /\ server_pc = "start"
  /\ server_pc' = IF queued[cur] /\ ~finished[cur] THEN "begin" ELSE "drop"
  /\ UNCHANGED <<limiterVars, queued_sessions, stopping, strand_q, cur, io,
                 sessionVars, metrics>>

(* ... and what it does on a positive answer.                              *)
BeginFromQueue ==
  /\ server_pc = "begin"
  /\ server_pc' = "loop"
  /\ queued' = [queued EXCEPT ![cur] = FALSE]
  /\ queue_timer' = [queue_timer EXCEPT ![cur] = Cancelled(@)]
  /\ StartProxyRequest(cur)
  /\ UNCHANGED <<limiterVars, queued_sessions, stopping, strand_q, cur, io,
                 object, pc, finished, metrics>>

(* On a negative one its parameter, the permit, is destroyed.              *)
DropPermit ==
  /\ server_pc = "drop"
  /\ PermitRelease(cur)
  /\ server_pc' = IF current_inflight = 0 THEN "loop" ELSE "notify"
  /\ UNCHANGED <<queued_sessions, stopping, strand_q, cur, io, sessionVars, metrics>>

NotifyDrop ==
  /\ server_pc = "notify"
  /\ strand_q' = Append(strand_q, PromoteTask)
  /\ server_pc' = "loop"
  /\ UNCHANGED <<limiterVars, queued_sessions, stopping, cur, io, sessionVars, metrics>>

(* The handler posted by stop().  close_client() on the sessions in the    *)
(* deque closes sockets only: queued_ and the queue timers stay as they    *)
(* are.                                                                    *)
StopServer ==
  /\ NextTask(StopTask)
  /\ stopping' = TRUE
  /\ LimiterClose
  /\ queued_sessions' = <<>>
  /\ UNCHANGED <<server_pc, cur, io, sessionVars, metrics>>

-----------------------------------------------------------------------------
(* The signal handler of proxy_main: server->stop() posts, then io.stop(). *)
SignalPostsStop ==
  /\ io = "run" /\ WorkerFree
  /\ io' = "signalled"
  /\ strand_q' = Append(strand_q, StopTask)
  /\ UNCHANGED <<limiterVars, queued_sessions, stopping, server_pc, cur,
                 sessionVars, metrics>>

SignalStopsIo ==
  /\ io = "signalled"
  /\ io' = "stopped"
  /\ UNCHANGED <<limiterVars, queued_sessions, stopping, strand_q, server_pc, cur,
                 sessionVars, metrics>>

(* main has returned: no thread is left and every session is destroyed.    *)
Exited ==
  /\ TornDown /\ \A s \in Sessions : object[s] # "live"
  /\ UNCHANGED vars

ServerStep ==
  \/ PromoteLoop \/ PromoteTry \/ PromoteDenied
  \/ TryStartFromQueue \/ BeginFromQueue \/ DropPermit \/ NotifyDrop

ServerHandler == PromoteBegins \/ StopServer \/ \E s \in Sessions : EnqueueSession(s)

SessionStep(s) ==
  \/ PostEnqueue(s) \/ QueueTimerCancels(s) \/ QueueTimerFails(s)
  \/ ResetPermit(s) \/ NotifyRelease(s)

SessionHandler(s) ==
  \/ QueueTimerFires(s) \/ RequestTimerFires(s) \/ ChainEnds(s)

Next ==
  \/ ServerStep
  \/ ServerHandler
  \/ \E s \in Sessions :
       \/ HandleRequest(s)
       \/ SessionStep(s)
       \/ SessionHandler(s)
       \/ TimerExpires(s)
       \/ Destroy(s)
  \/ SignalPostsStop
  \/ SignalStopsIo
  \/ Exited

Spec == Init /\ [][Next]_vars

(* Handlers that are started run to their end, posted handlers and         *)
(* expired waits are eventually run while the io_context runs, and time    *)
(* passes.  The exchange with the upstream ends: its reads and writes      *)
(* there have timeouts, the request timer closes the client's socket, and  *)
(* the resolver answers.  The last reference goes: the small error reply   *)
(* is taken.  Clients need not come and nobody need send a signal.         *)
Fairness ==
  /\ WF_vars(ServerStep)
  /\ WF_vars(ServerHandler)
  /\ WF_vars(SignalStopsIo)
  /\ \A s \in Sessions :
       /\ WF_vars(SessionStep(s))
       /\ WF_vars(SessionHandler(s))
       /\ WF_vars(TimerExpires(s))
       /\ WF_vars(Destroy(s))

FairSpec == Spec /\ Fairness

-----------------------------------------------------------------------------
TypeOK ==
  /\ LimiterTypeOK
  /\ queued_sessions \in Seq(Sessions)
  /\ stopping \in BOOLEAN
  /\ strand_q \in Seq(Task)
  /\ server_pc \in ServerPc
  /\ cur \in Sessions
  /\ io \in {"run", "signalled", "stopped"}
  /\ object \in [Sessions -> {"none", "live", "destroyed"}]
  /\ pc \in [Sessions -> SessionPc]
  /\ queued \in [Sessions -> BOOLEAN]
  /\ finished \in [Sessions -> BOOLEAN]
  /\ chain \in [Sessions -> BOOLEAN]
  /\ queue_timer \in [Sessions -> TimerState]
  /\ request_timer \in [Sessions -> TimerState]
  /\ metrics \in [Counters -> Nat]

-----------------------------------------------------------------------------
(***************************************************************************)
(* Properties                                                              *)
(***************************************************************************)
ElemsOf(q) == {q[i] : i \in 1..Len(q)}
NoRepeat(q, T) == \A i, j \in 1..Len(q) : q[i] \in T /\ q[i] = q[j] => i = j

Tasks == ElemsOf(strand_q)
EnqueueTasks == {EnqueueTask(s) : s \in Sessions}
InDeque(s) == s \in ElemsOf(queued_sessions)

(* The sessions a decision Queue was given to and for which neither        *)
(* try_promote_queued nor cancel_queued has been called yet.               *)
Waiting ==
  {s \in Sessions :
     /\ ~closed
     /\ \/ pc[s] = "enqueue"
        \/ EnqueueTask(s) \in Tasks
        \/ queued[s] /\ pc[s] # "dequeue" /\ ~InTransit(s)}

(***************************************************************************)
(* The contract in the header of InflightLimiter: callers own the queued   *)
(* requests and call cancel_queued() for one that leaves before promotion. *)
(* If they all keep to it, the limiter's count is the number of requests   *)
(* that really wait.                                                       *)
(***************************************************************************)
QueueCountExact == queued_requests = Cardinality(Waiting)

(***************************************************************************)
(* With several threads a promotion and a queue timeout can both count the *)
(* same request out, and the count falls behind those who wait.  It never  *)
(* runs ahead of them: no client is refused, at max_queue_size, for a place*)
(* in the queue that nobody has.                                           *)
(***************************************************************************)
QueueNotOverstated == queued_requests <= Cardinality(Waiting)

(***************************************************************************)
(* On its way through the queue a session is in one place at a time (about *)
(* to be posted, posted, in the deque, in the hands of the promotion) and  *)
(* owns no slot until it has left: it is never queued twice, and no        *)
(* promotion gives a second slot to a session that has one.                *)
(***************************************************************************)
Promoting(s) == cur = s /\ server_pc \in {"try", "denied"}

OnePlace(s) ==
  LET new     == object[s] = "none"
      posting == pc[s] = "enqueue"
      posted  == EnqueueTask(s) \in Tasks
  IN  /\ new => ~posting
      /\ new \/ posting => ~posted
      /\ new \/ posting \/ posted => ~InDeque(s)
      /\ new \/ posting \/ posted \/ InDeque(s) => ~Promoting(s)
      /\ new \/ posting \/ posted \/ InDeque(s) \/ Promoting(s) => s \notin permits

QueuedOnce ==
  /\ NoRepeat(queued_sessions, Sessions)
  /\ NoRepeat(strand_q, EnqueueTasks)
  /\ \A s \in Sessions : OnePlace(s)

(***************************************************************************)
(* No lost wakeup: while a slot is free, a session that waits in the queue *)
(* is on its way out of it: the strand runs or has been posted a           *)
(* promotion, or a releasing thread is about to post one.  And a session   *)
(* that waits is never forgotten by the deque.                             *)
(***************************************************************************)
NoLostWakeup ==
  \A s \in Waiting :
    queued[s] /\ pc[s] = "idle" /\ io = "run" =>
      /\ InDeque(s) \/ (server_pc # "idle" /\ cur = s)
      /\ current_inflight < MaxInflight =>
           \/ PromoteTask \in Tasks
           \/ server_pc # "idle"
           \/ \E r \in Sessions : pc[r] = "notify"

(***************************************************************************)
(* A request that got its final answer occupies no slot, except in the     *)
(* handler that is about to release it.                                    *)
(***************************************************************************)
FinishedHoldsNoSlot ==
  \A s \in Sessions : finished[s] /\ pc[s] # "release" => s \notin permits

(***************************************************************************)
(* Once stop() has closed the limiter the server only empties: no request  *)
(* that is being read, no promotion and no session that times out or is    *)
(* destroyed afterwards gets a slot or a place in the count, and nothing   *)
(* opens the limiter again.                                                *)
(***************************************************************************)
ClosedAdmitsNobody ==
  [][closed => closed' /\ permits' \subseteq permits /\ queued_requests' = 0]_vars

(***************************************************************************)
(* Whichever of queue timer, request timer, upstream exchange and refusal  *)
(* come to a request, it is recorded as completed or failed exactly once.  *)
(***************************************************************************)
OutcomeOnce ==
  metrics["completed"] + metrics["failed"] = Cardinality({s \in Sessions : finished[s]})

(***************************************************************************)
(* The admission path implements the abstract admission control.           *)
(***************************************************************************)
AC == INSTANCE AdmissionControl
        WITH active <- permits, waiting <- Waiting, open <- ~closed
ImplementsAdmission == AC!AdmissionSpec

(***************************************************************************)
(* Every session that makes a request is eventually destroyed with its     *)
(* slot given back and, unless the process stops first, with an outcome:   *)
(* nobody waits for ever, whatever the timers and releases do.             *)
(***************************************************************************)
RequestResolved ==
  \A s \in Sessions :
    object[s] = "live" ~>
      /\ object[s] = "destroyed" /\ s \notin permits
      /\ finished[s] \/ io # "run"

(* After a signal, stop() takes effect on the server's strand.             *)
StopTakesEffect == io = "signalled" ~> stopping
=============================================================================
