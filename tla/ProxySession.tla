----------------------------- MODULE ProxySession ----------------------------
(***************************************************************************)
(* One client connection of the proxy (controller/src/proxy_session.cpp):  *)
(* reading the request, routing it, and forwarding a chat completion to    *)
(* the upstream and its event stream back to the client, as a chain of     *)
(* asynchronous operations.                                                *)
(*                                                                         *)
(* All handlers of a session run on its strand, so a handler is one step.  *)
(* The admission layer is the abstract one, which ProxyServer is shown to  *)
(* implement: a permit is membership of active, a place in the queue is    *)
(* membership of waiting, from the decision Queue on.  The handler that    *)
(* enqueue_session posts to the server's strand comes later.  Shutdown, and*)
(* with it the decision Closed, is in ProxyServer only.                    *)
(*                                                                         *)
(* An asynchronous operation is "pending" until the outside world completes*)
(* it; then its result waits with the handler in the io_context until the  *)
(* handler runs.  Closing a socket aborts what is pending on it, but an    *)
(* operation already completed still delivers its success.                 *)
(***************************************************************************)
EXTENDS AdmissionControl

CONSTANTS
  ReadResults,  \* results of a body read that the upstream's framing allows
  MaxPieces     \* bound: pieces of body the upstream sends in a response

(* The results of http::async_read_some on the response body:              *)
(*   data  a piece of the body;                                            *)
(*   done  a piece in which SseParser finds [DONE] or throws;              *)
(*   full  error need_buffer: the piece fills upstream_body_buffer_;       *)
(*   last  a piece that also ends the message (Content-Length framing);    *)
(*   end   the end of the message and no piece (last chunk, end of stream).*)
ASSUME SessionAssumption ==
  /\ ReadResults \subseteq {"data", "done", "full", "last", "end"}
  /\ MaxPieces \in Nat
  /\ MaxInflight \in Nat /\ MaxQueueSize \in Nat

VARIABLE sess   \* the ProxySession objects and their sockets

sessionVars == <<sess, admissionVars>>

UpstreamOps  == {"connect", "write_request", "read_header", "read_body"}
ClientWrites == {"write_text", "write_header", "write_body", "write_last"}
OpKinds == UpstreamOps \union ClientWrites \union {"none", "read_request", "resolve"}
OpResults == {"pending", "ok", "err", "non200"} \union ReadResults

NoOp == [kind |-> "none", result |-> "ok"]
Pending(kind) == [kind |-> kind, result |-> "pending"]

NewSession ==
  [object           |-> "none",  \* "none", "live", "destroyed"
   op               |-> NoOp,    \* the operation of the chain, and its result
   reply            |-> "none",  \* the write of an error response
   client           |-> "open",  \* "open", "closed": the proxy's end of the socket
   upstream         |-> "closed",
   finished         |-> FALSE,
   response_started |-> FALSE,
   request_counted  |-> FALSE,
   outcome          |-> "none",  \* which counter of ProxyMetrics recorded it
   queue_timer      |-> "off",   \* "off"; "posted": the handler that starts it is
                                 \* posted; "armed"; "due": expired, handler queued
   request_timer    |-> "off",
   received         |-> 0,       \* pieces read from the upstream
   delivered        |-> 0,       \* pieces written to the client
   lost             |-> 0]       \* history: pieces that OnReadBody drops

SessionInit == AdmissionInit /\ sess = [s \in Sessions |-> NewSession]

-----------------------------------------------------------------------------
(***************************************************************************)
(* What handlers do to a session.  An operator takes the session r as the  *)
(* handler has it at that point and gives what it is afterwards.           *)
(***************************************************************************)
Set(s, r) == sess' = [sess EXCEPT ![s] = r]

Cancelled(timer) == IF timer = "armed" THEN "off" ELSE timer
Aborted(op, kinds) ==
  IF op.kind \in kinds /\ op.result = "pending" THEN [op EXCEPT !.result = "err"] ELSE op

CloseUpstream(r) == [r EXCEPT !.upstream = "closed", !.op = Aborted(@, UpstreamOps)]

CloseClient(r) ==
  [r EXCEPT !.client = "closed",
            !.op = Aborted(@, ClientWrites),
            !.reply = IF @ = "pending" THEN "written" ELSE @]

(* Starting an operation; on a closed socket it fails.                     *)
StartUpstream(r, kind) ==
  [r EXCEPT !.op = IF r.upstream = "open" THEN Pending(kind)
                                          ELSE [kind |-> kind, result |-> "err"]]
StartWrite(r, kind) ==
  [r EXCEPT !.op = IF r.client = "open" THEN Pending(kind)
                                          ELSE [kind |-> kind, result |-> "err"]]

(* permit_.reset()                                                         *)
ResetPermit(s) == IF s \in active THEN Leave(s) ELSE UNCHANGED admissionVars

(* The common part of finish_request and fail_with_status; cancel_timers   *)
(* and close_upstream included.                                            *)
Ended(r, outcome) ==
  CloseUpstream([r EXCEPT !.finished = TRUE,
                          !.queue_timer = Cancelled(@),
                          !.request_timer = Cancelled(@),
                          !.outcome = IF r.request_counted THEN outcome ELSE @])

FinishRequest(s, r) ==
  IF r.finished
  THEN Set(s, r) /\ UNCHANGED admissionVars
  ELSE Set(s, CloseClient(Ended(r, "completed"))) /\ ResetPermit(s)

Answered(r) ==
  IF r.response_started THEN CloseClient(r)
  ELSE [r EXCEPT !.reply = "pending"]

(* Mutant of FailWithStatus: the permit is not reset.                      *)
FailWithStatusKeepsPermit(s, r) ==
  /\ IF r.finished THEN Set(s, r) ELSE Set(s, Answered(Ended(r, "failed")))
  /\ UNCHANGED admissionVars

FailWithStatus(s, r) ==
  IF r.finished
  THEN Set(s, r) /\ UNCHANGED admissionVars
  ELSE Set(s, Answered(Ended(r, "failed"))) /\ ResetPermit(s)

(* A step of the chain that leaves the admission layer alone.              *)
Continue(s, r) == Set(s, r) /\ UNCHANGED admissionVars

(* Mutant of Started: the request timer is not started.                    *)
StartedUntimed(r) == [r EXCEPT !.op = Pending("resolve")]

(* start_proxy_request with start_request_timer and resolve_upstream.      *)
Started(r) == [r EXCEPT !.request_timer = "armed", !.op = Pending("resolve")]

-----------------------------------------------------------------------------
(***************************************************************************)
(* The outside world                                                       *)
(***************************************************************************)
Live(s) == sess[s].object = "live"

(* on_accept constructs the session and start() reads the request.         *)
Accept(s) ==
  /\ sess[s].object = "none"
  /\ Continue(s, [sess[s] EXCEPT !.object = "live", !.op = Pending("read_request")])

Results(r) ==
  CASE r.op.kind = "read_header" -> {"ok", "non200", "err"}
    [] r.op.kind = "read_body"   ->
         {"err"} \union (IF r.received < MaxPieces THEN ReadResults
                                                   ELSE ReadResults \intersect {"end"})
    [] OTHER -> {"ok", "err"}

(* The operation of the chain completes; what involves the client may fail *)
(* at any time, as the client may leave.                                   *)
OpCompletes(s) ==
  /\ sess[s].op.result = "pending"
  /\ \E result \in Results(sess[s]) :
       Continue(s, [sess[s] EXCEPT
         !.op.result = result,
         !.received  = IF result \in {"data", "done", "full", "last"} THEN @ + 1 ELSE @,
         !.delivered = IF sess[s].op.kind \in {"write_body", "write_last"} /\ result = "ok"
                       THEN @ + 1 ELSE @])

ReplyCompletes(s) ==
  /\ sess[s].reply = "pending"
  /\ Continue(s, [sess[s] EXCEPT !.reply = "written"])

TimerExpires(s) ==
  \/ /\ sess[s].queue_timer = "armed"
     /\ Continue(s, [sess[s] EXCEPT !.queue_timer = "due"])
  \/ /\ sess[s].request_timer = "armed"
     /\ Continue(s, [sess[s] EXCEPT !.request_timer = "due"])

-----------------------------------------------------------------------------
(***************************************************************************)
(* Handlers.  Completed(s, kind): the handler of such an operation is due; *)
(* Taken(s) is the session without the operation.                          *)
(***************************************************************************)
Completed(s, kind) == sess[s].op.kind = kind /\ sess[s].op.result # "pending"
Result(s) == sess[s].op.result
Taken(s) == [sess[s] EXCEPT !.op = NoOp]

(* send_health and send_text_response.                                     *)
SendHealth(s, r) == Continue(s, StartWrite(r, "write_text"))

(* handle_request of a POST to /v1/chat/completions; enqueue_session posts *)
(* its handler.                                                            *)
HandleChat(s, r) ==
  \/ Admit(s) /\ Set(s, Started(r))
  \/ StartWaiting(s) /\ Set(s, [r EXCEPT !.queue_timer = "posted"])
  \/ /\ ~SlotFree /\ Cardinality(waiting) >= MaxQueueSize
     /\ FailWithStatus(s, r)

(* on_read_request and handle_request.                                     *)
OnReadRequest(s) ==
  /\ Completed(s, "read_request")
  /\ \/ /\ Result(s) = "err"
        /\ Continue(s, [Taken(s) EXCEPT !.finished = TRUE])
     \/ /\ Result(s) = "ok"
        /\ \/ SendHealth(s, Taken(s))                           \* GET /health
           \/ FailWithStatus(s, Taken(s))                       \* 404, 405
           \/ HandleChat(s, [Taken(s) EXCEPT !.request_counted = TRUE])

(* The completion handler in send_text_response.                           *)
OnTextWritten(s) ==
  /\ Completed(s, "write_text")
  /\ Continue(s, CloseClient([Taken(s) EXCEPT !.finished = TRUE]))

(* Mutant of EnqueueSession: start_queue_timer does not wait on the timer. *)
EnqueueSessionUntimed(s) ==
  /\ sess[s].queue_timer = "posted"
  /\ Continue(s, [sess[s] EXCEPT !.queue_timer = "off"])

(* The handler posted by enqueue_session, with start_queue_timer: from now *)
(* on the session is in the server's deque.                                *)
EnqueueSession(s) ==
  /\ sess[s].queue_timer = "posted"
  /\ Continue(s, [sess[s] EXCEPT !.queue_timer = "armed"])

(* try_start_from_queue, called with a permit by the server for a session  *)
(* that it has taken out of its deque.                                     *)
TryStartFromQueue(s) ==
  /\ sess[s].queue_timer # "posted"
  /\ PromoteWaiting(s)
  /\ Set(s, Started([sess[s] EXCEPT !.queue_timer = Cancelled(@)]))

(* The handler of queue_timer_.                                            *)
OnQueueTimer(s) ==
  /\ sess[s].queue_timer = "due"
  /\ LET r == [sess[s] EXCEPT !.queue_timer = "off"]
     IN  IF s \in waiting
         THEN GiveUp(s) /\ Set(s, Answered(Ended(r, "failed")))
         ELSE Continue(s, r)

(* The handler of request_timer_.                                          *)
OnRequestTimer(s) ==
  /\ sess[s].request_timer = "due"
  /\ FailWithStatus(s, [sess[s] EXCEPT !.request_timer = "off"])

(* The completion handlers in resolve_upstream, connect_upstream and       *)
(* write_upstream_request.  None of them looks at finished_; async_connect *)
(* opens the socket, also one that close_upstream has closed.              *)
OnResolve(s) ==
  /\ Completed(s, "resolve")
  /\ IF Result(s) = "err"
     THEN FailWithStatus(s, Taken(s))
     ELSE Continue(s, StartUpstream([Taken(s) EXCEPT !.upstream = "open"], "connect"))

OnConnect(s) ==
  /\ Completed(s, "connect")
  /\ IF Result(s) = "err"
     THEN FailWithStatus(s, Taken(s))
     ELSE Continue(s, StartUpstream(Taken(s), "write_request"))

OnWriteRequest(s) ==
  /\ Completed(s, "write_request")
  /\ IF Result(s) = "err"
     THEN FailWithStatus(s, Taken(s))
     ELSE Continue(s, StartUpstream(Taken(s), "read_header"))

(* The completion handler in read_upstream_header, which goes on with      *)
(* write_downstream_sse_header.                                            *)
OnReadHeader(s) ==
  /\ Completed(s, "read_header")
  /\ IF Result(s) # "ok"
     THEN FailWithStatus(s, Taken(s))
     ELSE Continue(s, StartWrite([Taken(s) EXCEPT !.response_started = TRUE],
                                 "write_header"))

(* The completion handler in write_downstream_sse_header.                  *)
OnWriteHeader(s) ==
  /\ Completed(s, "write_header")
  /\ IF Result(s) = "err"
     THEN FinishRequest(s, Taken(s))
     ELSE Continue(s, StartUpstream(Taken(s), "read_body"))

(* The piece just read is not written to the client.                       *)
Dropped(r) == [r EXCEPT !.lost = @ + 1]

(* Mutants of OnReadBody: the buffer is written once more at the end of the*)
(* stream; the piece that holds [DONE] is not written.                     *)
OnReadBodyRepeats(s) ==
  /\ Completed(s, "read_body")
  /\ \/ Result(s) = "full" /\ Continue(s, StartUpstream(Dropped(Taken(s)), "read_body"))
     \/ Result(s) = "err" /\ FailWithStatus(s, Taken(s))
     \/ Result(s) = "data" /\ Continue(s, StartWrite(Taken(s), "write_body"))
     \/ Result(s) \in {"done", "last", "end"}
          /\ Continue(s, StartWrite(Taken(s), "write_last"))
OnReadBodyDropsDone(s) ==
  /\ Completed(s, "read_body")
  /\ \/ Result(s) = "full" /\ Continue(s, StartUpstream(Dropped(Taken(s)), "read_body"))
     \/ Result(s) = "last" /\ FinishRequest(s, Dropped(Taken(s)))
     \/ Result(s) = "err" /\ FailWithStatus(s, Taken(s))
     \/ Result(s) = "data" /\ Continue(s, StartWrite(Taken(s), "write_body"))
     \/ Result(s) \in {"done", "end"} /\ FinishRequest(s, Taken(s))

(* The completion handler in read_upstream_body, with observe_sse_chunk    *)
(* and write_downstream_body; write_last is a write with upstream_done.    *)
OnReadBody(s) ==
  /\ Completed(s, "read_body")
  /\ \/ Result(s) = "full" /\ Continue(s, StartUpstream(Dropped(Taken(s)), "read_body"))
     \/ Result(s) = "last" /\ FinishRequest(s, Dropped(Taken(s)))
     \/ Result(s) = "end" /\ FinishRequest(s, Taken(s))
     \/ Result(s) = "err" /\ FailWithStatus(s, Taken(s))
     \/ Result(s) = "data" /\ Continue(s, StartWrite(Taken(s), "write_body"))
     \/ Result(s) = "done" /\ Continue(s, StartWrite(Taken(s), "write_last"))

(* The completion handler in write_downstream_body.                        *)
OnWriteBody(s) ==
  \/ /\ Completed(s, "write_body")
     /\ IF Result(s) = "err"
        THEN FailWithStatus(s, Taken(s))
        ELSE Continue(s, StartUpstream(Taken(s), "read_body"))
  \/ /\ Completed(s, "write_last")
     /\ IF Result(s) = "err"
        THEN FailWithStatus(s, Taken(s))
        ELSE FinishRequest(s, Taken(s))

(* The completion handler in fail_with_status.                             *)
OnReplyWritten(s) ==
  /\ sess[s].reply = "written"
  /\ Continue(s, CloseClient([sess[s] EXCEPT !.reply = "closed"]))

(* ~ProxySession, when the last handler that holds the session is gone, one*)
(* posted to the server's strand included: sockets are closed, the permit  *)
(* is given back, the fields are no more.                                  *)
Destruct(s) ==
  /\ Live(s) /\ sess[s].op = NoOp
  /\ sess[s].reply \notin {"pending", "written"}
  /\ sess[s].queue_timer = "off" /\ sess[s].request_timer = "off"
  /\ Set(s, [NewSession EXCEPT !.object = "destroyed", !.client = "closed"])
  /\ ResetPermit(s)

Handler(s) ==
  \/ OnReadRequest(s) \/ OnTextWritten(s) \/ EnqueueSession(s)
  \/ OnQueueTimer(s) \/ OnRequestTimer(s)
  \/ OnResolve(s) \/ OnConnect(s) \/ OnWriteRequest(s) \/ OnReadHeader(s)
  \/ OnWriteHeader(s) \/ OnReadBody(s) \/ OnWriteBody(s) \/ OnReplyWritten(s)

(* All connections of the instance have been served.                       *)
AllServed ==
  /\ \A s \in Sessions : sess[s].object = "destroyed"
  /\ UNCHANGED sessionVars

SessionNext ==
  \/ \E s \in Sessions :
       \/ Accept(s) \/ OpCompletes(s) \/ ReplyCompletes(s)
       \/ TimerExpires(s) \/ TryStartFromQueue(s) \/ Handler(s) \/ Destruct(s)
  \/ AllServed

SessionSpec == SessionInit /\ [][SessionNext]_sessionVars

(* Queued handlers run, time passes.  Nothing else is promised: a resolver *)
(* may hang, the upstream may be silent and the client may stop reading.   *)
FairSessionSpec ==
  /\ SessionSpec
  /\ \A s \in Sessions : WF_sessionVars(Handler(s)) /\ WF_sessionVars(TimerExpires(s))

-----------------------------------------------------------------------------
SessionRecord ==
  [object           : {"none", "live", "destroyed"},
   op               : [kind : OpKinds, result : OpResults],
   reply            : {"none", "pending", "written", "closed"},
   client           : {"open", "closed"},
   upstream         : {"open", "closed"},
   finished         : BOOLEAN,
   response_started : BOOLEAN,
   request_counted  : BOOLEAN,
   outcome          : {"none", "completed", "failed"},
   queue_timer      : {"off", "posted", "armed", "due"},
   request_timer    : {"off", "armed", "due"},
   received         : 0..MaxPieces,
   delivered        : 0..MaxPieces,
   lost             : 0..MaxPieces]

SessionTypeOK == sess \in [Sessions -> SessionRecord]

Forwarding == {"resolve", "connect", "write_request", "read_header", "write_header",
               "read_body", "write_body", "write_last"}

(***************************************************************************)
(* A session owns a slot exactly while it works on an unanswered chat      *)
(* request: no path through the chain, its errors and its timers keeps the *)
(* slot after the answer, gives it back early, or forwards without one.    *)
(***************************************************************************)
SlotWhileForwarding ==
  \A s \in Sessions :
    s \in active <=> sess[s].op.kind \in Forwarding /\ ~sess[s].finished

(***************************************************************************)
(* A request that is not answered yet always has a handler that will end   *)
(* it, whatever upstream and client do.  An admitted one has its request   *)
(* timer.  A waiting one has no operation; from the decision Queue to the  *)
(* run of the posted handler it has that handler, which finds it still     *)
(* waiting, and from then on its queue timer.                              *)
(***************************************************************************)
Watched ==
  \A s \in Sessions :
    /\ s \in active  => sess[s].request_timer # "off"
    /\ s \in waiting => sess[s].queue_timer # "off" /\ sess[s].op = NoOp
    /\ sess[s].queue_timer = "posted" => s \in waiting

(***************************************************************************)
(* For a request recorded as completed, as many pieces were written to the *)
(* client as were read from the upstream, but for those that fill the      *)
(* buffer or end the message: the chain cannot skip a piece or write one   *)
(* again on its way to the end of the stream.                              *)
(***************************************************************************)
PiecesAccounted ==
  \A s \in Sessions :
    sess[s].outcome = "completed" => sess[s].delivered + sess[s].lost = sess[s].received

(***************************************************************************)
(* For a request recorded as completed, every piece of the body that was   *)
(* read from the upstream has been written to the client.                  *)
(***************************************************************************)
CompletedDelivered ==
  \A s \in Sessions :
    sess[s].outcome = "completed" => sess[s].delivered = sess[s].received

(***************************************************************************)
(* At most one write at a time is in progress on the client's socket.      *)
(***************************************************************************)
OneClientWrite ==
  \A s \in Sessions :
    ~(sess[s].reply = "pending" /\ sess[s].op \in {Pending(k) : k \in ClientWrites})

(***************************************************************************)
(* No more than max_inflight exchanges with the upstream are in progress.  *)
(***************************************************************************)
Exchanging(s) ==
  sess[s].upstream = "open" /\ sess[s].op.kind \in Forwarding \ {"resolve", "connect"}
UpstreamBounded == Cardinality({s \in Sessions : Exchanging(s)}) <= MaxInflight

(***************************************************************************)
(* An admitted request gives its slot back and a waiting one stops waiting,*)
(* with no help from resolver, upstream or client.                         *)
(***************************************************************************)
SlotReturned ==
  \A s \in Sessions : s \in active \union waiting ~> s \notin active \union waiting
=============================================================================
