-------------------------- MODULE ProxySessionProofs -------------------------
(***************************************************************************)
(* Proofs about one connection and the slots it uses (ProxySession), for   *)
(* any number of sessions, any limits, any number of pieces in a response  *)
(* and any upstream framing.                                               *)
(***************************************************************************)
EXTENDS ProxySession, FiniteSetTheorems, TLAPS

-----------------------------------------------------------------------------
(***************************************************************************)
(* The inductive invariant, for one session: r is the session, a says that *)
(* it owns a slot and w that it is in the queue.                           *)
(***************************************************************************)
Pieces == {"data", "done", "full", "last"}

(* Which result an operation can have: only a read of the body has pieces, *)
(* only a read of the header a status, and there is one way to have no     *)
(* operation.                                                              *)
OpSound(r) ==
  /\ r.op.kind = "none" => r.op = NoOp
  /\ r.op.kind = "read_body" => r.op.result \in {"pending", "err"} \union ReadResults
  /\ r.op.kind = "read_header" => r.op.result \in {"pending", "ok", "err", "non200"}
  /\ r.op.kind \notin {"read_body", "read_header"} => r.op.result \in {"pending", "ok", "err"}

(* A piece has been read that is neither written nor dropped yet.          *)
InHand(r) ==
  \/ r.op.kind \in {"write_body", "write_last"} /\ r.op.result # "ok"
  \/ r.op.kind = "read_body" /\ r.op.result \in Pieces

(* While the chain runs every piece is accounted for; a request recorded as*)
(* completed has no operation left that could change the account.          *)
Account(r) ==
  /\ r.op.kind # "none" =>
       r.received = r.delivered + r.lost + (IF InHand(r) THEN 1 ELSE 0)
  /\ r.outcome = "completed" =>
       r.finished /\ r.op = NoOp /\ r.received = r.delivered + r.lost

(* Before the request is read nothing else has happened to the session.    *)
Unread(r) ==
  /\ r.object = "none" => r = NewSession
  /\ r.op.kind = "read_request" =>
       ~r.finished /\ r.queue_timer = "off" /\ r.request_timer = "off"

Placed(r, a, w) ==
  /\ a <=> r.op.kind \in Forwarding /\ ~r.finished
  /\ a => r.request_timer # "off"
  /\ w => /\ r.op = NoOp /\ ~r.finished
          /\ r.queue_timer # "off" /\ r.request_timer = "off"
          /\ r.received = r.delivered + r.lost
  /\ r.queue_timer = "posted" => w

Sound(r, a, w) ==
  r \in SessionRecord /\ OpSound(r) /\ Account(r) /\ Unread(r) /\ Placed(r, a, w)

SessionInv ==
  /\ SessionTypeOK
  /\ \A s \in Sessions : Sound(sess[s], s \in active, s \in waiting)

-----------------------------------------------------------------------------
(* What is proved of one session extends to all: the others do not change. *)
LEMMA SetSound ==
  ASSUME SessionInv, NEW s \in Sessions, NEW r, Set(s, r),
         Sound(r, s \in active', s \in waiting'),
         \A t \in Sessions \ {s} : /\ t \in active'  <=> t \in active
                                   /\ t \in waiting' <=> t \in waiting
  PROVE  SessionInv'
<1>1. r \in SessionRecord
  BY DEF Sound
<1>2. sess' = [sess EXCEPT ![s] = r] /\ sess \in [Sessions -> SessionRecord]
  BY DEF Set, SessionInv, SessionTypeOK
<1>3. SessionTypeOK'
  BY <1>1, <1>2 DEF SessionTypeOK
<1>4. ASSUME NEW t \in Sessions, t # s
      PROVE  Sound(sess'[t], t \in active', t \in waiting')
  <2>1. sess'[t] = sess[t]
    BY <1>2, <1>4
  <2>2. Sound(sess[t], t \in active, t \in waiting)
    BY DEF SessionInv
  <2>3. (t \in active' <=> t \in active) /\ (t \in waiting' <=> t \in waiting)
    BY <1>4
  <2> QED
    BY <2>1, <2>2, <2>3, Zenon DEF Sound, Placed
<1>5. sess'[s] = r
  BY <1>2
<1>6. ASSUME NEW t \in Sessions
      PROVE  Sound(sess'[t], t \in active', t \in waiting')
  BY <1>4, <1>5
<1> QED
  BY <1>3, <1>6 DEF SessionInv

LEMMA ContinueSound ==
  ASSUME SessionInv, NEW s \in Sessions, NEW r, Continue(s, r),
         Sound(r, s \in active, s \in waiting)
  PROVE  SessionInv'
<1>1. Set(s, r) /\ active' = active /\ waiting' = waiting
  BY DEF Continue, admissionVars
<1> QED
  BY <1>1, SetSound

-----------------------------------------------------------------------------
(* Closing a socket keeps the account: what it aborts is not written.      *)
LEMMA AbortedSound ==
  ASSUME NEW r \in SessionRecord, OpSound(r), Account(r), NEW kinds,
         NEW q \in SessionRecord, q.op = Aborted(r.op, kinds),
         q.received = r.received, q.delivered = r.delivered, q.lost = r.lost,
         q.outcome = r.outcome, q.finished = r.finished
  PROVE  /\ OpSound(q) /\ Account(q)
         /\ q.op.kind = r.op.kind
         /\ r.op = NoOp => q.op = NoOp
<1>1. r.op \in [kind : OpKinds, result : OpResults]
  BY DEF SessionRecord
<1>2. \/ q.op = r.op
      \/ r.op.result = "pending" /\ q.op = [r.op EXCEPT !.result = "err"]
  BY DEF Aborted
<1>3. CASE q.op = r.op
  BY <1>3 DEF OpSound, Account, InHand
<1>4. CASE r.op.result = "pending" /\ q.op = [r.op EXCEPT !.result = "err"]
  <2>1. q.op.kind = r.op.kind /\ q.op.result = "err"
    BY <1>1, <1>4
  <2>2. r.op # NoOp /\ r.op.kind # "none"
    BY <1>4 DEF NoOp, OpSound
  <2>3. InHand(q) <=> InHand(r)
    BY <2>1, <1>4 DEF InHand, Pieces
  <2> QED
    BY <2>1, <2>2, <2>3 DEF OpSound, Account
<1> QED
  BY <1>2, <1>3, <1>4

LEMMA CloseUpstreamSound ==
  ASSUME NEW r \in SessionRecord, OpSound(r), Account(r)
  PROVE  LET q == CloseUpstream(r)
         IN  /\ q \in SessionRecord /\ OpSound(q) /\ Account(q)
             /\ q.op.kind = r.op.kind
             /\ r.op = NoOp => q.op = NoOp
             /\ q.finished = r.finished /\ q.object = r.object
             /\ q.queue_timer = r.queue_timer /\ q.request_timer = r.request_timer
             /\ q.outcome = r.outcome /\ q.response_started = r.response_started
             /\ q.received = r.received /\ q.delivered = r.delivered /\ q.lost = r.lost
<1> DEFINE q == CloseUpstream(r)
<1>1. q = [r EXCEPT !.upstream = "closed", !.op = Aborted(r.op, UpstreamOps)]
  BY DEF CloseUpstream
<1>2. Aborted(r.op, UpstreamOps) \in [kind : OpKinds, result : OpResults]
  BY DEF Aborted, SessionRecord, OpResults
<1>3. /\ q \in SessionRecord /\ q.op = Aborted(r.op, UpstreamOps)
      /\ q.finished = r.finished /\ q.object = r.object
      /\ q.queue_timer = r.queue_timer /\ q.request_timer = r.request_timer
      /\ q.outcome = r.outcome /\ q.response_started = r.response_started
      /\ q.received = r.received /\ q.delivered = r.delivered /\ q.lost = r.lost
  BY <1>1, <1>2 DEF SessionRecord
<1> HIDE DEF q
<1>4. /\ OpSound(q) /\ Account(q)
      /\ q.op.kind = r.op.kind
      /\ r.op = NoOp => q.op = NoOp
  BY <1>3, AbortedSound
<1> QED
  BY <1>3, <1>4 DEF q

LEMMA CloseClientSound ==
  ASSUME NEW r \in SessionRecord, OpSound(r), Account(r)
  PROVE  LET q == CloseClient(r)
         IN  /\ q \in SessionRecord /\ OpSound(q) /\ Account(q)
             /\ q.op.kind = r.op.kind
             /\ r.op = NoOp => q.op = NoOp
             /\ q.finished = r.finished /\ q.object = r.object
             /\ q.queue_timer = r.queue_timer /\ q.request_timer = r.request_timer
             /\ q.received = r.received /\ q.delivered = r.delivered /\ q.lost = r.lost
<1> DEFINE q == CloseClient(r)
           reply == IF r.reply = "pending" THEN "written" ELSE r.reply
<1>1. q = [r EXCEPT !.client = "closed", !.op = Aborted(r.op, ClientWrites),
                    !.reply = reply]
  BY DEF CloseClient
<1>2. /\ Aborted(r.op, ClientWrites) \in [kind : OpKinds, result : OpResults]
      /\ reply \in {"none", "pending", "written", "closed"}
  BY DEF Aborted, SessionRecord, OpResults
<1>3. /\ q \in SessionRecord /\ q.op = Aborted(r.op, ClientWrites)
      /\ q.finished = r.finished /\ q.object = r.object
      /\ q.queue_timer = r.queue_timer /\ q.request_timer = r.request_timer
      /\ q.outcome = r.outcome
      /\ q.received = r.received /\ q.delivered = r.delivered /\ q.lost = r.lost
  <2> HIDE DEF reply
  <2> QED
    BY <1>1, <1>2 DEF SessionRecord
<1> HIDE DEF q
<1>4. /\ OpSound(q) /\ Account(q)
      /\ q.op.kind = r.op.kind
      /\ r.op = NoOp => q.op = NoOp
  BY <1>3, AbortedSound
<1> QED
  BY <1>3, <1>4 DEF q

-----------------------------------------------------------------------------
(***************************************************************************)
(* finish_request and fail_with_status are called with the session as the  *)
(* handler has it, r: the operation whose handler runs is taken off, or    *)
(* the timer is.                                                           *)
(***************************************************************************)
MayEnd(r) ==
  /\ r \in SessionRecord /\ OpSound(r) /\ Account(r)
  /\ r.object # "none" /\ r.op.kind # "read_request"
  /\ r.queue_timer # "posted"

LEMMA MayEndSound ==
  ASSUME NEW r, MayEnd(r), r.finished
  PROVE  Sound(r, FALSE, FALSE)
BY DEF MayEnd, Sound, Placed, Unread

LEMMA EndedSound ==
  ASSUME NEW r, MayEnd(r), ~r.finished, NEW outcome,
         \/ outcome = "failed"
         \/ outcome = "completed" /\ r.op = NoOp /\ r.received = r.delivered + r.lost
  PROVE  MayEnd(Ended(r, outcome)) /\ Ended(r, outcome).finished
<1> DEFINE qt == Cancelled(r.queue_timer)
           rt == Cancelled(r.request_timer)
           out == IF r.request_counted THEN outcome ELSE r.outcome
           p == [r EXCEPT !.finished = TRUE, !.queue_timer = qt, !.request_timer = rt,
                          !.outcome = out]
<1>1. r \in SessionRecord /\ OpSound(r) /\ Account(r) /\ r.queue_timer # "posted"
  BY DEF MayEnd
<1>2. Ended(r, outcome) = CloseUpstream(p)
  BY DEF Ended
<1>3. /\ qt \in {"off", "armed", "due"} /\ rt \in {"off", "armed", "due"}
      /\ out \in {"none", "completed", "failed"} /\ out \in {outcome, r.outcome}
  BY <1>1 DEF SessionRecord, Cancelled
<1> HIDE DEF qt, rt, out
<1>4. /\ p \in SessionRecord /\ p.finished = TRUE /\ p.object = r.object /\ p.op = r.op
      /\ p.queue_timer = qt /\ p.outcome \in {outcome, r.outcome}
      /\ p.received = r.received /\ p.delivered = r.delivered /\ p.lost = r.lost
  <2>1. p \in SessionRecord
    <3> DEFINE p1 == [r EXCEPT !.finished = TRUE, !.queue_timer = qt]
    <3>1. p1 \in SessionRecord
      BY <1>1, <1>3 DEF SessionRecord
    <3>2. p = [p1 EXCEPT !.request_timer = rt, !.outcome = out]
      OBVIOUS
    <3> HIDE DEF p, p1
    <3> QED
      BY <1>3, <3>1, <3>2 DEF SessionRecord
  <2>2. p.finished = TRUE /\ p.outcome = out /\ p.queue_timer = qt
    BY <1>1 DEF SessionRecord
  <2>3. /\ p.object = r.object /\ p.op = r.op
        /\ p.received = r.received /\ p.delivered = r.delivered /\ p.lost = r.lost
    BY <1>1 DEF SessionRecord
  <2> QED
    BY <1>3, <2>1, <2>2, <2>3
<1> HIDE DEF p
<1>5. r.outcome # "completed"
  BY <1>1 DEF Account
<1>6. OpSound(p) /\ Account(p)
  BY <1>1, <1>4, <1>5 DEF OpSound, Account, InHand
<1>7. MayEnd(CloseUpstream(p)) /\ CloseUpstream(p).finished
  BY <1>3, <1>4, <1>6, CloseUpstreamSound DEF MayEnd
<1> QED
  BY <1>2, <1>7

LEMMA AnsweredSound ==
  ASSUME NEW r, MayEnd(r), r.finished
  PROVE  MayEnd(Answered(r)) /\ Answered(r).finished
<1>1. r \in SessionRecord /\ OpSound(r) /\ Account(r)
  BY DEF MayEnd
<1>2. MayEnd(CloseClient(r)) /\ CloseClient(r).finished
  BY <1>1, CloseClientSound DEF MayEnd
<1> DEFINE q == [r EXCEPT !.reply = "pending"]
<1>3. /\ q \in SessionRecord /\ q.finished = r.finished /\ q.object = r.object
      /\ q.op = r.op /\ q.outcome = r.outcome /\ q.queue_timer = r.queue_timer
      /\ q.received = r.received /\ q.delivered = r.delivered /\ q.lost = r.lost
  BY <1>1 DEF SessionRecord
<1> HIDE DEF q
<1>4. MayEnd(q) /\ q.finished
  BY <1>1, <1>3 DEF MayEnd, OpSound, Account, InHand
<1>5. Answered(r) \in {CloseClient(r), q}
  BY DEF Answered, q
<1> QED
  BY <1>2, <1>4, <1>5

(* permit_.reset() takes the slot of s, if it has one, and no other.       *)
LEMMA ResetPermitSound ==
  ASSUME NEW s \in Sessions, ResetPermit(s)
  PROVE  /\ s \notin active' /\ waiting' = waiting
         /\ \A t \in Sessions \ {s} : t \in active' <=> t \in active
BY DEF ResetPermit, Leave, admissionVars

(* A session that has been answered may be put in place of the old one.    *)
LEMMA EndSound ==
  ASSUME SessionInv, NEW s \in Sessions, s \notin waiting, NEW r, MayEnd(r), r.finished,
         Set(s, r), ResetPermit(s)
  PROVE  SessionInv'
<1>1. /\ s \notin active' /\ s \notin waiting'
      /\ \A t \in Sessions \ {s} : /\ t \in active'  <=> t \in active
                                   /\ t \in waiting' <=> t \in waiting
  BY ResetPermitSound
<1>2. Sound(r, s \in active', s \in waiting')
  BY <1>1, MayEndSound, Zenon DEF Sound, Placed
<1> QED
  BY <1>1, <1>2, SetSound

LEMMA AlreadyFinished ==
  ASSUME SessionInv, NEW s \in Sessions, s \notin waiting, s \notin active,
         NEW r, MayEnd(r), r.finished, Continue(s, r)
  PROVE  SessionInv'
<1>1. Sound(r, s \in active, s \in waiting)
  BY MayEndSound, Zenon DEF Sound, Placed
<1> QED
  BY <1>1, ContinueSound

LEMMA FailWithStatusSound ==
  ASSUME SessionInv, NEW s \in Sessions, s \notin waiting, NEW r, MayEnd(r),
         r.finished => s \notin active,
         FailWithStatus(s, r)
  PROVE  SessionInv'
<1>1. CASE r.finished
  BY <1>1, AlreadyFinished DEF FailWithStatus, Continue
<1>2. CASE ~r.finished
  <2>1. Set(s, Answered(Ended(r, "failed"))) /\ ResetPermit(s)
    BY <1>2 DEF FailWithStatus
  <2>2. MayEnd(Answered(Ended(r, "failed"))) /\ Answered(Ended(r, "failed")).finished
    BY <1>2, EndedSound, AnsweredSound
  <2> QED
    BY <2>1, <2>2, EndSound
<1> QED
  BY <1>1, <1>2

LEMMA FinishRequestSound ==
  ASSUME SessionInv, NEW s \in Sessions, s \notin waiting, NEW r, MayEnd(r),
         r.finished => s \notin active,
         r.op = NoOp, r.received = r.delivered + r.lost,
         FinishRequest(s, r)
  PROVE  SessionInv'
<1>1. CASE r.finished
  BY <1>1, AlreadyFinished DEF FinishRequest, Continue
<1>2. CASE ~r.finished
  <2> DEFINE e == Ended(r, "completed")
  <2>1. Set(s, CloseClient(e)) /\ ResetPermit(s)
    BY <1>2 DEF FinishRequest
  <2>2. MayEnd(e) /\ e.finished
    BY <1>2, EndedSound
  <2> HIDE DEF e
  <2>3. MayEnd(CloseClient(e)) /\ CloseClient(e).finished
    BY <2>2, CloseClientSound DEF MayEnd
  <2> QED
    BY <2>1, <2>3, EndSound
<1> QED
  BY <1>1, <1>2

-----------------------------------------------------------------------------
(***************************************************************************)
(* The chain of operations.                                                *)
(***************************************************************************)

(* What a completion handler starts from.                                  *)
LEMMA TakenSound ==
  ASSUME SessionInv, NEW s \in Sessions, sess[s].op.kind # "none"
  PROVE  LET r == sess[s]  q == Taken(s)
         IN  /\ q = [r EXCEPT !.op = NoOp] /\ q \in SessionRecord
             /\ q.op = NoOp /\ q.finished = r.finished /\ q.object = r.object
             /\ q.queue_timer = r.queue_timer /\ q.request_timer = r.request_timer
             /\ q.outcome = r.outcome /\ q.received = r.received
             /\ q.delivered = r.delivered /\ q.lost = r.lost
             /\ q.outcome # "completed" /\ q.object # "none"
             /\ s \notin waiting
             /\ q.finished => s \notin active
             /\ q.received = q.delivered + q.lost + (IF InHand(r) THEN 1 ELSE 0)
             /\ MayEnd(q)
<1> DEFINE r == sess[s]  q == Taken(s)
<1>1. r \in SessionRecord /\ Sound(r, s \in active, s \in waiting)
  BY DEF SessionInv, Sound
<1>2. NoOp \in [kind : OpKinds, result : OpResults]
  BY DEF NoOp, OpKinds, OpResults
<1>3. /\ q = [r EXCEPT !.op = NoOp] /\ q \in SessionRecord
      /\ q.op = NoOp /\ q.finished = r.finished /\ q.object = r.object
      /\ q.queue_timer = r.queue_timer /\ q.request_timer = r.request_timer
      /\ q.outcome = r.outcome /\ q.received = r.received
      /\ q.delivered = r.delivered /\ q.lost = r.lost
  BY <1>1, <1>2 DEF Taken, SessionRecord
<1>4. NoOp.kind = "none" /\ NewSession.op = NoOp /\ NoOp.result = "ok"
  BY DEF NoOp, NewSession
<1>5. r.op.kind # "none"
  OBVIOUS
<1> HIDE DEF r, q
<1>6. /\ r.outcome # "completed"
      /\ r.received = r.delivered + r.lost + (IF InHand(r) THEN 1 ELSE 0)
  BY <1>1, <1>4, <1>5 DEF Sound, Account
<1>7. r.object # "none"
  BY <1>1, <1>4, <1>5 DEF Sound, Unread
<1>8. s \notin waiting /\ (r.finished => s \notin active) /\ r.queue_timer # "posted"
  BY <1>1, <1>4, <1>5 DEF Sound, Placed
<1>9. MayEnd(q)
  BY <1>1, <1>3, <1>4, <1>6, <1>7, <1>8 DEF MayEnd, OpSound, Account
<1> QED
  BY <1>3, <1>6, <1>7, <1>8, <1>9 DEF r, q

(* The handler of an operation starts the next one; r is the session as the*)
(* handler has it, q what it makes of it, on an open or a closed socket.   *)
LEMMA NextOpSound ==
  ASSUME SessionInv, NEW s \in Sessions, sess[s].op.kind # "none",
         NEW r \in SessionRecord, NEW kind \in OpKinds \ {"none", "read_request"},
         NEW q \in {StartUpstream(r, kind), StartWrite(r, kind)},
         r.finished = sess[s].finished, r.object = sess[s].object,
         r.request_timer = sess[s].request_timer, r.outcome = sess[s].outcome,
         r.queue_timer = sess[s].queue_timer,
         kind \in Forwarding <=> sess[s].op.kind \in Forwarding,
         r.received = r.delivered + r.lost
                        + (IF kind \in {"write_body", "write_last"} THEN 1 ELSE 0),
         Continue(s, q)
  PROVE  SessionInv'
<1>0. PICK o \in {Pending(kind), [kind |-> kind, result |-> "err"]} : q = [r EXCEPT !.op = o]
  BY DEF StartUpstream, StartWrite
<1>1. o.kind = kind /\ o.result \in {"pending", "err"}
  BY DEF Pending
<1>2. o \in [kind : OpKinds, result : OpResults]
  BY DEF Pending, OpResults
<1>3. /\ q \in SessionRecord /\ q.op = o
      /\ q.finished = r.finished /\ q.object = r.object
      /\ q.request_timer = r.request_timer /\ q.outcome = r.outcome
      /\ q.queue_timer = r.queue_timer
      /\ q.received = r.received /\ q.delivered = r.delivered /\ q.lost = r.lost
  BY <1>0, <1>2 DEF SessionRecord
<1>5. Sound(sess[s], s \in active, s \in waiting)
  BY DEF SessionInv
<1>6. s \notin waiting /\ q.outcome # "completed" /\ q.object # "none"
  BY <1>3, TakenSound
<1>7. OpSound(q) /\ Unread(q)
  BY <1>1, <1>3, <1>6 DEF OpSound, Unread
<1>8. InHand(q) <=> kind \in {"write_body", "write_last"}
  BY <1>1, <1>3 DEF InHand, Pieces
<1>9. Account(q)
  BY <1>3, <1>6, <1>8 DEF Account
<1>10. Placed(q, s \in active, s \in waiting)
  BY <1>1, <1>3, <1>5, <1>6 DEF Sound, Placed
<1>11. Sound(q, s \in active, s \in waiting)
  BY <1>3, <1>7, <1>9, <1>10 DEF Sound
<1> QED
  BY <1>11, ContinueSound

LEMMA OnResolveSound ==
  ASSUME SessionInv, NEW s \in Sessions, OnResolve(s)
  PROVE  SessionInv'
<1>1. sess[s].op.kind = "resolve"
  BY DEF OnResolve, Completed
<1>2. ~InHand(sess[s])
  BY <1>1 DEF InHand
<1>3. CASE Result(s) = "err"
  BY <1>1, <1>3, TakenSound, FailWithStatusSound DEF OnResolve
<1>4. CASE Result(s) # "err"
  <2> DEFINE r == [Taken(s) EXCEPT !.upstream = "open"]
  <2>1. Continue(s, StartUpstream(r, "connect"))
    BY <1>4 DEF OnResolve
  <2>2. /\ r \in SessionRecord /\ r.finished = Taken(s).finished
        /\ r.object = Taken(s).object /\ r.request_timer = Taken(s).request_timer
        /\ r.outcome = Taken(s).outcome /\ r.received = Taken(s).received
        /\ r.queue_timer = Taken(s).queue_timer
        /\ r.delivered = Taken(s).delivered /\ r.lost = Taken(s).lost
    <3>1. Taken(s) \in SessionRecord
      BY <1>1, TakenSound
    <3> QED
      BY <3>1 DEF SessionRecord
  <2> HIDE DEF r
  <2>3. r.received = r.delivered + r.lost + 0
    BY <1>1, <1>2, <2>2, TakenSound
  <2> QED
    BY <1>1, <2>1, <2>2, <2>3, TakenSound, NextOpSound
    DEF OpKinds, UpstreamOps, ClientWrites, Forwarding
<1> QED
  BY <1>3, <1>4

LEMMA OnConnectSound ==
  ASSUME SessionInv, NEW s \in Sessions, OnConnect(s)
  PROVE  SessionInv'
<1>1. sess[s].op.kind = "connect"
  BY DEF OnConnect, Completed
<1>2. ~InHand(sess[s])
  BY <1>1 DEF InHand
<1>3. CASE Result(s) = "err"
  BY <1>1, <1>3, TakenSound, FailWithStatusSound DEF OnConnect
<1>4. CASE Result(s) # "err"
  <2>1. Continue(s, StartUpstream(Taken(s), "write_request"))
    BY <1>4 DEF OnConnect
  <2> QED
    BY <1>1, <1>2, <2>1, TakenSound, NextOpSound
    DEF OpKinds, UpstreamOps, ClientWrites, Forwarding
<1> QED
  BY <1>3, <1>4

LEMMA OnWriteRequestSound ==
  ASSUME SessionInv, NEW s \in Sessions, OnWriteRequest(s)
  PROVE  SessionInv'
<1>1. sess[s].op.kind = "write_request"
  BY DEF OnWriteRequest, Completed
<1>2. ~InHand(sess[s])
  BY <1>1 DEF InHand
<1>3. CASE Result(s) = "err"
  BY <1>1, <1>3, TakenSound, FailWithStatusSound DEF OnWriteRequest
<1>4. CASE Result(s) # "err"
  <2>1. Continue(s, StartUpstream(Taken(s), "read_header"))
    BY <1>4 DEF OnWriteRequest
  <2> QED
    BY <1>1, <1>2, <2>1, TakenSound, NextOpSound
    DEF OpKinds, UpstreamOps, ClientWrites, Forwarding
<1> QED
  BY <1>3, <1>4

LEMMA OnReadHeaderSound ==
  ASSUME SessionInv, NEW s \in Sessions, OnReadHeader(s)
  PROVE  SessionInv'
<1>1. sess[s].op.kind = "read_header"
  BY DEF OnReadHeader, Completed
<1>2. ~InHand(sess[s])
  BY <1>1 DEF InHand
<1>3. CASE Result(s) # "ok"
  BY <1>1, <1>3, TakenSound, FailWithStatusSound DEF OnReadHeader
<1>4. CASE Result(s) = "ok"
  <2> DEFINE r == [Taken(s) EXCEPT !.response_started = TRUE]
  <2>1. Continue(s, StartWrite(r, "write_header"))
    BY <1>4 DEF OnReadHeader
  <2>2. /\ r \in SessionRecord /\ r.finished = Taken(s).finished
        /\ r.object = Taken(s).object /\ r.request_timer = Taken(s).request_timer
        /\ r.outcome = Taken(s).outcome /\ r.received = Taken(s).received
        /\ r.queue_timer = Taken(s).queue_timer
        /\ r.delivered = Taken(s).delivered /\ r.lost = Taken(s).lost
    <3>1. Taken(s) \in SessionRecord
      BY <1>1, TakenSound
    <3> QED
      BY <3>1 DEF SessionRecord
  <2> HIDE DEF r
  <2>3. r.received = r.delivered + r.lost + 0
    BY <1>1, <1>2, <2>2, TakenSound
  <2> QED
    BY <1>1, <2>1, <2>2, <2>3, TakenSound, NextOpSound
    DEF OpKinds, UpstreamOps, ClientWrites, Forwarding
<1> QED
  BY <1>3, <1>4

LEMMA OnWriteHeaderSound ==
  ASSUME SessionInv, NEW s \in Sessions, OnWriteHeader(s)
  PROVE  SessionInv'
<1>1. sess[s].op.kind = "write_header"
  BY DEF OnWriteHeader, Completed
<1>2. ~InHand(sess[s])
  BY <1>1 DEF InHand
<1>3. CASE Result(s) = "err"
  <2>1. FinishRequest(s, Taken(s))
    BY <1>3 DEF OnWriteHeader
  <2>2. Taken(s).received = Taken(s).delivered + Taken(s).lost
    <3>1. Taken(s).received = Taken(s).delivered + Taken(s).lost + 0
      BY <1>1, <1>2, TakenSound
    <3>2. Taken(s) \in SessionRecord
      BY <1>1, TakenSound
    <3> QED
      BY <3>1, <3>2, SessionAssumption DEF SessionRecord
  <2> QED
    BY <1>1, <2>1, <2>2, TakenSound, FinishRequestSound
<1>4. CASE Result(s) # "err"
  <2>1. Continue(s, StartUpstream(Taken(s), "read_body"))
    BY <1>4 DEF OnWriteHeader
  <2> QED
    BY <1>1, <1>2, <2>1, TakenSound, NextOpSound
    DEF OpKinds, UpstreamOps, ClientWrites, Forwarding
<1> QED
  BY <1>3, <1>4

(* The account of the piece in hand that OnReadBody drops.                 *)
LEMMA DroppedSound ==
  ASSUME NEW r, MayEnd(r), r.op = NoOp, r.outcome # "completed",
         r.received = r.delivered + r.lost + 1
  PROVE  LET q == Dropped(r)
         IN  /\ MayEnd(q) /\ q.op = NoOp
             /\ q.finished = r.finished /\ q.object = r.object
             /\ q.request_timer = r.request_timer /\ q.outcome = r.outcome
             /\ q.queue_timer = r.queue_timer
             /\ q.received = q.delivered + q.lost
<1> DEFINE q == Dropped(r)
<1>1. r \in SessionRecord /\ r.object # "none"
  BY DEF MayEnd
<1>2. r.lost + 1 \in 0..MaxPieces
  BY <1>1, SessionAssumption DEF SessionRecord
<1>3. q = [r EXCEPT !.lost = r.lost + 1]
  BY DEF Dropped
<1>4. /\ q \in SessionRecord /\ q.op = r.op
      /\ q.finished = r.finished /\ q.object = r.object
      /\ q.request_timer = r.request_timer /\ q.outcome = r.outcome
      /\ q.queue_timer = r.queue_timer
      /\ q.received = r.received /\ q.delivered = r.delivered /\ q.lost = r.lost + 1
  BY <1>1, <1>2, <1>3 DEF SessionRecord
<1> HIDE DEF q
<1>5. q.received = q.delivered + q.lost
  BY <1>1, <1>4, SessionAssumption DEF SessionRecord
<1>6. OpSound(q) /\ Account(q)
  BY <1>4, <1>5 DEF OpSound, Account, NoOp
<1>7. MayEnd(q)
  BY <1>1, <1>4, <1>6 DEF MayEnd, NoOp
<1> QED
  BY <1>4, <1>5, <1>7 DEF q

LEMMA OnReadBodySound ==
  ASSUME SessionInv, NEW s \in Sessions, OnReadBody(s)
  PROVE  SessionInv'
<1> DEFINE r == Taken(s)
<1>1. sess[s].op.kind = "read_body"
  BY DEF OnReadBody, Completed
<1>2. /\ r \in SessionRecord /\ MayEnd(r) /\ r.op = NoOp
      /\ r.finished = sess[s].finished /\ r.object = sess[s].object
      /\ r.request_timer = sess[s].request_timer
      /\ r.queue_timer = sess[s].queue_timer
      /\ r.outcome = sess[s].outcome /\ r.outcome # "completed"
      /\ s \notin waiting
      /\ r.finished => s \notin active
  BY <1>1, TakenSound
<1>3. Result(s) \in Pieces => r.received = r.delivered + r.lost + 1
  <2>1. Result(s) \in Pieces => InHand(sess[s])
    BY <1>1 DEF InHand, Result
  <2> QED
    BY <1>1, <2>1, TakenSound
<1>4. Result(s) \in {"end", "err"} => r.received = r.delivered + r.lost
  <2>1. Result(s) \in {"end", "err"} => ~InHand(sess[s])
    BY <1>1 DEF InHand, Result, Pieces
  <2>2. Result(s) \in {"end", "err"} => r.received = r.delivered + r.lost + 0
    BY <1>1, <2>1, TakenSound
  <2> QED
    BY <1>2, <2>2, SessionAssumption DEF SessionRecord
<1>5. /\ "write_body" \in OpKinds \ {"none", "read_request"}
      /\ "write_last" \in OpKinds \ {"none", "read_request"}
      /\ "read_body" \in OpKinds \ {"none", "read_request"}
      /\ {"write_body", "write_last", "read_body"} \subseteq Forwarding
  BY DEF OpKinds, UpstreamOps, ClientWrites, Forwarding
<1> HIDE DEF r
<1>6. CASE Result(s) = "full" /\ Continue(s, StartUpstream(Dropped(r), "read_body"))
  <2> DEFINE q == Dropped(r)
  <2>1. /\ MayEnd(q) /\ q.finished = r.finished /\ q.object = r.object
        /\ q.request_timer = r.request_timer /\ q.outcome = r.outcome
        /\ q.queue_timer = r.queue_timer
        /\ q.received = q.delivered + q.lost
    BY <1>2, <1>3, <1>6, DroppedSound DEF Pieces
  <2> HIDE DEF q
  <2>2. q \in SessionRecord
    BY <2>1 DEF MayEnd
  <2>3. q.received = q.delivered + q.lost + 0
    BY <2>1, <2>2, SessionAssumption DEF SessionRecord
  <2>4. Continue(s, StartUpstream(q, "read_body"))
    BY <1>6 DEF q
  <2> QED
    BY <1>1, <1>2, <1>5, <2>1, <2>2, <2>3, <2>4, NextOpSound
<1>7. CASE Result(s) = "last" /\ FinishRequest(s, Dropped(r))
  <2> DEFINE q == Dropped(r)
  <2>1. /\ MayEnd(q) /\ q.op = NoOp /\ q.finished = r.finished
        /\ q.received = q.delivered + q.lost
    BY <1>2, <1>3, <1>7, DroppedSound DEF Pieces
  <2> HIDE DEF q
  <2>2. FinishRequest(s, q)
    BY <1>7 DEF q
  <2> QED
    BY <1>2, <2>1, <2>2, FinishRequestSound
<1>8. CASE Result(s) = "end" /\ FinishRequest(s, r)
  BY <1>2, <1>4, <1>8, FinishRequestSound
<1>9. CASE Result(s) = "err" /\ FailWithStatus(s, r)
  BY <1>2, <1>9, FailWithStatusSound
<1>10. CASE Result(s) = "data" /\ Continue(s, StartWrite(r, "write_body"))
  BY <1>1, <1>2, <1>3, <1>5, <1>10, NextOpSound DEF Pieces
<1>11. CASE Result(s) = "done" /\ Continue(s, StartWrite(r, "write_last"))
  BY <1>1, <1>2, <1>3, <1>5, <1>11, NextOpSound DEF Pieces
<1> QED
  BY <1>6, <1>7, <1>8, <1>9, <1>10, <1>11 DEF OnReadBody, r

LEMMA OnWriteBodySound ==
  ASSUME SessionInv, NEW s \in Sessions, OnWriteBody(s)
  PROVE  SessionInv'
<1> DEFINE r == Taken(s)
<1>1. sess[s].op.kind \in {"write_body", "write_last"}
  BY DEF OnWriteBody, Completed
<1>2. /\ r \in SessionRecord /\ MayEnd(r) /\ r.op = NoOp
      /\ r.finished = sess[s].finished /\ r.object = sess[s].object
      /\ r.request_timer = sess[s].request_timer
      /\ r.queue_timer = sess[s].queue_timer
      /\ r.outcome = sess[s].outcome
      /\ s \notin waiting
      /\ r.finished => s \notin active
  BY <1>1, TakenSound
<1>3. CASE Result(s) = "err"
  BY <1>2, <1>3, FailWithStatusSound DEF OnWriteBody
<1>4. CASE Result(s) # "err"
  <2>1. Result(s) = "ok"
    BY <1>1, <1>4 DEF SessionInv, Sound, OpSound, Result, OnWriteBody, Completed
  <2>2. ~InHand(sess[s])
    BY <1>1, <2>1 DEF InHand, Result
  <2>3. r.received = r.delivered + r.lost + 0
    BY <1>1, <2>2, TakenSound
  <2>4. r.received = r.delivered + r.lost
    BY <1>2, <2>3, SessionAssumption DEF SessionRecord
  <2> HIDE DEF r
  <2>5. CASE sess[s].op.kind = "write_body"
    <3>1. Continue(s, StartUpstream(r, "read_body"))
      BY <1>4, <2>5 DEF OnWriteBody, Completed, r
    <3> QED
      BY <1>2, <2>3, <2>5, <3>1, NextOpSound
      DEF OpKinds, UpstreamOps, ClientWrites, Forwarding
  <2>6. CASE sess[s].op.kind = "write_last"
    <3>1. FinishRequest(s, r)
      BY <1>4, <2>6 DEF OnWriteBody, Completed, r
    <3> QED
      BY <1>2, <2>4, <3>1, FinishRequestSound
  <2> QED
    BY <1>1, <2>5, <2>6
<1> QED
  BY <1>3, <1>4

-----------------------------------------------------------------------------
(***************************************************************************)
(* The rest of a session: its request, its timers, its end and what the    *)
(* outside world does.                                                     *)
(***************************************************************************)
LEMMA SoundNow ==
  ASSUME SessionInv, NEW s \in Sessions
  PROVE  sess[s] \in SessionRecord /\ Sound(sess[s], s \in active, s \in waiting)
BY DEF SessionInv, Sound

(* A step that changes neither the chain nor the end of the request keeps  *)
(* the invariant; it may move a timer that the session does not rest on.   *)
LEMMA SameChainSound ==
  ASSUME NEW r, NEW a, NEW w, Sound(r, a, w), NEW q \in SessionRecord,
         q.op = r.op, q.finished = r.finished, q.outcome = r.outcome,
         q.received = r.received, q.delivered = r.delivered, q.lost = r.lost,
         q.object = r.object, r.object # "none",
         r.queue_timer = "off" <=> q.queue_timer = "off",
         q.queue_timer = "posted" => r.queue_timer = "posted",
         r.request_timer = "off" <=> q.request_timer = "off"
  PROVE  Sound(q, a, w)
BY DEF Sound, OpSound, Account, InHand, Unread, Placed

LEMMA AcceptSound ==
  ASSUME SessionInv, NEW s \in Sessions, Accept(s)
  PROVE  SessionInv'
<1> DEFINE r == sess[s]
           q == [r EXCEPT !.object = "live", !.op = Pending("read_request")]
<1>1. r = NewSession /\ r \in SessionRecord /\ Placed(r, s \in active, s \in waiting)
  BY SoundNow DEF Accept, Sound, Unread
<1>2. Continue(s, q)
  BY DEF Accept
<1>3. /\ Pending("read_request") \in [kind : OpKinds, result : OpResults]
      /\ Pending("read_request").kind = "read_request"
      /\ Pending("read_request").result = "pending"
  BY DEF Pending, OpKinds, OpResults
<1>4. /\ q \in SessionRecord /\ q.object = "live" /\ q.op = Pending("read_request")
      /\ q.finished = r.finished /\ q.queue_timer = r.queue_timer
      /\ q.request_timer = r.request_timer /\ q.outcome = r.outcome
      /\ q.received = r.received /\ q.delivered = r.delivered /\ q.lost = r.lost
  BY <1>1, <1>3 DEF SessionRecord
<1>5. /\ r.finished = FALSE /\ r.queue_timer = "off" /\ r.request_timer = "off"
      /\ r.outcome = "none" /\ r.received = 0 /\ r.delivered = 0 /\ r.lost = 0
      /\ r.op.kind = "none"
  BY <1>1 DEF NewSession, NoOp
<1> HIDE DEF r, q
<1>6. s \notin active /\ s \notin waiting
  BY <1>1, <1>5 DEF Placed, Forwarding
<1>7. OpSound(q) /\ Unread(q) /\ ~InHand(q)
  BY <1>3, <1>4, <1>5 DEF OpSound, Unread, InHand
<1>8. Account(q)
  BY <1>4, <1>5, <1>7 DEF Account
<1>9. Placed(q, s \in active, s \in waiting)
  BY <1>3, <1>4, <1>5, <1>6 DEF Placed, Forwarding
<1> QED
  BY <1>2, <1>4, <1>7, <1>8, <1>9, ContinueSound DEF Sound

LEMMA ReplyCompletesSound ==
  ASSUME SessionInv, NEW s \in Sessions, ReplyCompletes(s)
  PROVE  SessionInv'
<1> DEFINE r == sess[s]  q == [r EXCEPT !.reply = "written"]
<1>1. r \in SessionRecord /\ Sound(r, s \in active, s \in waiting)
  BY SoundNow
<1>2. r.object # "none"
  BY <1>1 DEF ReplyCompletes, Sound, Unread, NewSession
<1>3. /\ q \in SessionRecord /\ q.op = r.op /\ q.finished = r.finished
      /\ q.outcome = r.outcome /\ q.received = r.received
      /\ q.delivered = r.delivered /\ q.lost = r.lost /\ q.object = r.object
      /\ q.queue_timer = r.queue_timer /\ q.request_timer = r.request_timer
  BY <1>1 DEF SessionRecord
<1>4. Continue(s, q)
  BY DEF ReplyCompletes
<1> HIDE DEF r, q
<1>5. Sound(q, s \in active, s \in waiting)
  BY <1>1, <1>2, <1>3, SameChainSound
<1> QED
  BY <1>4, <1>5, ContinueSound

LEMMA TimerExpiresSound ==
  ASSUME SessionInv, NEW s \in Sessions, TimerExpires(s)
  PROVE  SessionInv'
<1> DEFINE r == sess[s]
           q1 == [r EXCEPT !.queue_timer = "due"]
           q2 == [r EXCEPT !.request_timer = "due"]
<1>1. r \in SessionRecord /\ Sound(r, s \in active, s \in waiting)
  BY SoundNow
<1>2. \/ r.queue_timer = "armed" /\ Continue(s, q1)
      \/ r.request_timer = "armed" /\ Continue(s, q2)
  BY DEF TimerExpires
<1>3. r.object # "none"
  BY <1>1, <1>2 DEF Sound, Unread, NewSession
<1>4. \A q \in {q1, q2} :
        /\ q \in SessionRecord /\ q.op = r.op /\ q.finished = r.finished
        /\ q.outcome = r.outcome /\ q.received = r.received
        /\ q.delivered = r.delivered /\ q.lost = r.lost /\ q.object = r.object
  BY <1>1 DEF SessionRecord
<1>5. /\ q1.queue_timer = "due" /\ q1.request_timer = r.request_timer
      /\ q2.queue_timer = r.queue_timer /\ q2.request_timer = "due"
  BY <1>1 DEF SessionRecord
<1> HIDE DEF r, q1, q2
<1>6. CASE r.queue_timer = "armed" /\ Continue(s, q1)
  <2>1. Sound(q1, s \in active, s \in waiting)
    BY <1>1, <1>3, <1>4, <1>5, <1>6, SameChainSound
  <2> QED
    BY <1>6, <2>1, ContinueSound
<1>7. CASE r.request_timer = "armed" /\ Continue(s, q2)
  <2>1. Sound(q2, s \in active, s \in waiting)
    BY <1>1, <1>3, <1>4, <1>5, <1>7, SameChainSound
  <2> QED
    BY <1>7, <2>1, ContinueSound
<1> QED
  BY <1>2, <1>6, <1>7

LEMMA OpCompletesSound ==
  ASSUME SessionInv, NEW s \in Sessions, OpCompletes(s)
  PROVE  SessionInv'
<1> DEFINE r == sess[s]
<1>1. r \in SessionRecord /\ Sound(r, s \in active, s \in waiting)
  BY SoundNow
<1>2. PICK result \in Results(r) :
        Continue(s, [r EXCEPT
          !.op.result = result,
          !.received  = IF result \in {"data", "done", "full", "last"} THEN @ + 1 ELSE @,
          !.delivered = IF r.op.kind \in {"write_body", "write_last"} /\ result = "ok"
                        THEN @ + 1 ELSE @])
  BY DEF OpCompletes
<1> DEFINE op  == [r.op EXCEPT !.result = result]
           rec == IF result \in Pieces THEN r.received + 1 ELSE r.received
           del == IF r.op.kind \in {"write_body", "write_last"} /\ result = "ok"
                  THEN r.delivered + 1 ELSE r.delivered
           q   == [r EXCEPT !.op = op, !.received = rec, !.delivered = del]
<1>3. Continue(s, q)
  BY <1>2 DEF Pieces
<1>4. r.op.result = "pending" /\ r.op \in [kind : OpKinds, result : OpResults]
  BY <1>1 DEF OpCompletes, SessionRecord
<1>5. r.op.kind # "none" /\ r.object # "none"
  BY <1>1, <1>4 DEF Sound, OpSound, Unread, NoOp, NewSession
<1> HIDE DEF r
<1>6. /\ r.op.kind = "read_body" => result \in {"err"} \union ReadResults
      /\ r.op.kind = "read_header" => result \in {"ok", "non200", "err"}
      /\ r.op.kind \notin {"read_body", "read_header"} => result \in {"ok", "err"}
      /\ result \in Pieces => r.op.kind = "read_body" /\ r.received < MaxPieces
  BY DEF Results, Pieces
<1>7. result \in OpResults
  BY <1>6 DEF OpResults
<1>8. op \in [kind : OpKinds, result : OpResults] /\ op.kind = r.op.kind /\ op.result = result
  BY <1>4, <1>7
<1>9. r.received = r.delivered + r.lost + (IF InHand(r) THEN 1 ELSE 0)
  BY <1>1, <1>5 DEF Sound, Account
<1>10. InHand(r) <=> r.op.kind \in {"write_body", "write_last"}
  BY <1>4 DEF InHand, Pieces
<1>11. /\ r.received \in 0..MaxPieces /\ r.delivered \in 0..MaxPieces /\ r.lost \in 0..MaxPieces
       /\ MaxPieces \in Nat
  BY <1>1, SessionAssumption DEF SessionRecord
<1>12. rec \in 0..MaxPieces /\ del \in 0..MaxPieces
  BY <1>6, <1>9, <1>10, <1>11
<1> HIDE DEF op
<1>13. q \in SessionRecord /\ q.op = op /\ q.received = rec /\ q.delivered = del
  <2> HIDE DEF rec, del
  <2> QED
    BY <1>1, <1>8, <1>12 DEF SessionRecord
<1>14. /\ q.lost = r.lost /\ q.finished = r.finished /\ q.object = r.object
       /\ q.outcome = r.outcome
       /\ q.queue_timer = r.queue_timer /\ q.request_timer = r.request_timer
  <2> HIDE DEF rec, del
  <2> QED
    BY <1>1 DEF SessionRecord
<1> HIDE DEF q
<1>15. OpSound(q)
  BY <1>5, <1>6, <1>8, <1>13 DEF OpSound
<1>16. Account(q)
  <2>1. /\ InHand(q) <=> \/ r.op.kind \in {"write_body", "write_last"} /\ result # "ok"
                         \/ result \in Pieces
    BY <1>6, <1>8, <1>13 DEF InHand
  <2>2. q.received = q.delivered + q.lost + (IF InHand(q) THEN 1 ELSE 0)
    <3>1. CASE result \in Pieces
      BY <1>6, <1>9, <1>10, <1>11, <1>13, <1>14, <2>1, <3>1 DEF Pieces
    <3>2. CASE result \notin Pieces /\ r.op.kind \in {"write_body", "write_last"}
      BY <1>6, <1>9, <1>10, <1>11, <1>13, <1>14, <2>1, <3>2
    <3>3. CASE result \notin Pieces /\ r.op.kind \notin {"write_body", "write_last"}
      BY <1>6, <1>9, <1>10, <1>11, <1>13, <1>14, <2>1, <3>3
    <3> QED
      BY <3>1, <3>2, <3>3
  <2>3. q.outcome # "completed"
    BY <1>1, <1>5, <1>14 DEF Sound, Account, NoOp
  <2> QED
    BY <2>2, <2>3 DEF Account
<1>17. Unread(q) /\ Placed(q, s \in active, s \in waiting)
  BY <1>1, <1>4, <1>5, <1>8, <1>13, <1>14 DEF Sound, Unread, Placed, NoOp
<1> QED
  BY <1>3, <1>13, <1>15, <1>16, <1>17, ContinueSound DEF Sound

LEMMA OnReplyWrittenSound ==
  ASSUME SessionInv, NEW s \in Sessions, OnReplyWritten(s)
  PROVE  SessionInv'
<1> DEFINE r == sess[s]  p == [r EXCEPT !.reply = "closed"]  q == CloseClient(p)
<1>1. r \in SessionRecord /\ Sound(r, s \in active, s \in waiting)
  BY SoundNow
<1>2. r.object # "none"
  BY <1>1 DEF OnReplyWritten, Sound, Unread, NewSession
<1>3. /\ p \in SessionRecord /\ p.op = r.op /\ p.finished = r.finished
      /\ p.outcome = r.outcome /\ p.received = r.received
      /\ p.delivered = r.delivered /\ p.lost = r.lost /\ p.object = r.object
      /\ p.queue_timer = r.queue_timer /\ p.request_timer = r.request_timer
  BY <1>1 DEF SessionRecord
<1>4. Continue(s, q)
  BY DEF OnReplyWritten
<1> HIDE DEF r, p
<1>5. Sound(p, s \in active, s \in waiting)
  BY <1>1, <1>2, <1>3, SameChainSound
<1>6. OpSound(p) /\ Account(p)
  BY <1>5 DEF Sound
<1>7. /\ q \in SessionRecord /\ OpSound(q) /\ Account(q)
      /\ q.op.kind = p.op.kind
      /\ p.op = NoOp => q.op = NoOp
      /\ q.finished = p.finished /\ q.object = p.object
      /\ q.queue_timer = p.queue_timer /\ q.request_timer = p.request_timer
      /\ q.received = p.received /\ q.delivered = p.delivered /\ q.lost = p.lost
  BY <1>3, <1>6, CloseClientSound
<1> HIDE DEF q
<1>8. Unread(q) /\ Placed(q, s \in active, s \in waiting)
  BY <1>2, <1>3, <1>5, <1>7 DEF Sound, Unread, Placed
<1> QED
  BY <1>4, <1>7, <1>8, ContinueSound DEF Sound

LEMMA OnTextWrittenSound ==
  ASSUME SessionInv, NEW s \in Sessions, OnTextWritten(s)
  PROVE  SessionInv'
<1> DEFINE p == [Taken(s) EXCEPT !.finished = TRUE]
<1>1. sess[s].op.kind = "write_text"
  BY DEF OnTextWritten, Completed
<1>2. s \notin waiting /\ s \notin active
  BY <1>1, SoundNow, TakenSound DEF Sound, Placed, Forwarding
<1>3. MayEnd(Taken(s)) /\ Taken(s).op = NoOp /\ Taken(s).outcome # "completed"
  BY <1>1, TakenSound
<1>4. Taken(s) \in SessionRecord
  BY <1>3 DEF MayEnd
<1>5. /\ p \in SessionRecord /\ p.finished = TRUE /\ p.op = NoOp
      /\ p.object = Taken(s).object /\ p.outcome = Taken(s).outcome
      /\ p.queue_timer = Taken(s).queue_timer
  BY <1>3, <1>4 DEF SessionRecord
<1>6. Continue(s, CloseClient(p))
  BY DEF OnTextWritten
<1> HIDE DEF p
<1>7. MayEnd(p)
  BY <1>3, <1>5 DEF MayEnd, OpSound, Account, NoOp
<1>8. MayEnd(CloseClient(p)) /\ CloseClient(p).finished
  BY <1>5, <1>7, CloseClientSound DEF MayEnd
<1> QED
  BY <1>2, <1>6, <1>8, AlreadyFinished

(* start_proxy_request on a session that has just got its permit.          *)
LEMMA StartedSound ==
  ASSUME NEW r \in SessionRecord, ~r.finished, r.object # "none", r.queue_timer # "posted",
         r.outcome # "completed", r.received = r.delivered + r.lost
  PROVE  Sound(Started(r), TRUE, FALSE)
<1> DEFINE q == Started(r)
<1>1. /\ Pending("resolve") \in [kind : OpKinds, result : OpResults]
      /\ Pending("resolve").kind = "resolve" /\ Pending("resolve").result = "pending"
  BY DEF Pending, OpKinds, OpResults
<1>2. /\ q \in SessionRecord /\ q.op = Pending("resolve") /\ q.request_timer = "armed"
      /\ q.queue_timer = r.queue_timer /\ q.finished = r.finished /\ q.object = r.object /\ q.outcome = r.outcome
      /\ q.received = r.received /\ q.delivered = r.delivered /\ q.lost = r.lost
  BY <1>1 DEF Started, SessionRecord
<1> HIDE DEF q
<1>3. OpSound(q) /\ Unread(q) /\ ~InHand(q)
  BY <1>1, <1>2 DEF OpSound, Unread, InHand
<1>4. r.received = r.delivered + r.lost + 0
  BY SessionAssumption DEF SessionRecord
<1>5. Account(q)
  BY <1>2, <1>3, <1>4 DEF Account
<1>6. Placed(q, TRUE, FALSE)
  BY <1>1, <1>2 DEF Placed, Forwarding
<1> QED
  BY <1>2, <1>3, <1>5, <1>6 DEF Sound, q

LEMMA OnReadRequestSound ==
  ASSUME SessionInv, NEW s \in Sessions, OnReadRequest(s)
  PROVE  SessionInv'
<1> DEFINE r == Taken(s)
           chat == [r EXCEPT !.request_counted = TRUE]
<1>1. sess[s].op.kind = "read_request"
  BY DEF OnReadRequest, Completed
<1>2. /\ s \notin active /\ ~sess[s].finished
      /\ sess[s].queue_timer = "off" /\ sess[s].request_timer = "off"
      /\ ~InHand(sess[s])
  BY <1>1, SoundNow DEF Sound, Placed, Forwarding, Unread, InHand
<1>3. /\ r \in SessionRecord /\ r.op = NoOp /\ r.finished = sess[s].finished
      /\ r.object = sess[s].object /\ r.object # "none"
      /\ r.queue_timer = "off" /\ r.request_timer = "off"
      /\ r.request_timer = sess[s].request_timer /\ r.queue_timer = sess[s].queue_timer
      /\ r.outcome # "completed" /\ r.outcome = sess[s].outcome
      /\ s \notin waiting /\ MayEnd(r)
      /\ r.received = r.delivered + r.lost + 0
  BY <1>1, <1>2, TakenSound
<1>4. r.received = r.delivered + r.lost
  BY <1>3, SessionAssumption DEF SessionRecord
<1>5. /\ chat \in SessionRecord /\ chat.op = r.op /\ chat.finished = r.finished
      /\ chat.object = r.object /\ chat.outcome = r.outcome
      /\ chat.queue_timer = r.queue_timer /\ chat.request_timer = r.request_timer
      /\ chat.received = r.received /\ chat.delivered = r.delivered /\ chat.lost = r.lost
  BY <1>3 DEF SessionRecord
<1>6. \/ Continue(s, [r EXCEPT !.finished = TRUE])
      \/ Continue(s, StartWrite(r, "write_text"))
      \/ FailWithStatus(s, r)
      \/ HandleChat(s, chat)
  BY DEF OnReadRequest, SendHealth
<1> HIDE DEF r, chat
<1>7. CASE Continue(s, [r EXCEPT !.finished = TRUE])
  <2> DEFINE q == [r EXCEPT !.finished = TRUE]
  <2>1. /\ q \in SessionRecord /\ q.finished = TRUE /\ q.op = r.op
        /\ q.object = r.object /\ q.outcome = r.outcome /\ q.queue_timer = r.queue_timer
    BY <1>3 DEF SessionRecord
  <2>2. Continue(s, q)
    BY <1>7
  <2> HIDE DEF q
  <2>3. MayEnd(q)
    BY <1>3, <2>1 DEF MayEnd, OpSound, Account, NoOp
  <2> QED
    BY <1>2, <1>3, <2>1, <2>2, <2>3, AlreadyFinished
<1>8. CASE Continue(s, StartWrite(r, "write_text"))
  BY <1>1, <1>3, <1>8, NextOpSound DEF OpKinds, UpstreamOps, ClientWrites, Forwarding
<1>9. CASE FailWithStatus(s, r)
  BY <1>2, <1>3, <1>9, FailWithStatusSound
<1>10. CASE HandleChat(s, chat)
  <2>1. CASE Admit(s) /\ Set(s, Started(chat))
    <3>1. /\ s \in active' /\ s \notin waiting'
          /\ \A t \in Sessions \ {s} : /\ t \in active'  <=> t \in active
                                       /\ t \in waiting' <=> t \in waiting
      BY <2>1 DEF Admit
    <3>2. Sound(Started(chat), TRUE, FALSE)
      BY <1>2, <1>3, <1>4, <1>5, StartedSound
    <3>3. Sound(Started(chat), s \in active', s \in waiting')
      BY <3>1, <3>2, Zenon DEF Sound, Placed
    <3> QED
      BY <2>1, <3>1, <3>3, SetSound
  <2>2. CASE StartWaiting(s) /\ Set(s, [chat EXCEPT !.queue_timer = "posted"])
    <3> DEFINE q == [chat EXCEPT !.queue_timer = "posted"]
    <3>1. /\ s \notin active' /\ s \in waiting'
          /\ \A t \in Sessions \ {s} : /\ t \in active'  <=> t \in active
                                       /\ t \in waiting' <=> t \in waiting
      BY <2>2 DEF StartWaiting
    <3>2. /\ q \in SessionRecord /\ q.op = chat.op /\ q.finished = chat.finished
          /\ q.object = chat.object /\ q.outcome = chat.outcome
          /\ q.queue_timer = "posted" /\ q.request_timer = chat.request_timer
          /\ q.received = chat.received /\ q.delivered = chat.delivered
          /\ q.lost = chat.lost
      BY <1>5 DEF SessionRecord
    <3>3. Set(s, q)
      BY <2>2
    <3> HIDE DEF q
    <3>4. OpSound(q) /\ Account(q) /\ Unread(q)
      BY <1>3, <1>5, <3>2 DEF OpSound, Account, Unread, NoOp
    <3>5. Placed(q, s \in active', s \in waiting')
      BY <1>2, <1>3, <1>4, <1>5, <3>1, <3>2 DEF Placed, NoOp, Forwarding
    <3> QED
      BY <3>1, <3>2, <3>3, <3>4, <3>5, SetSound DEF Sound
  <2>3. CASE FailWithStatus(s, chat)
    <3>1. MayEnd(chat)
      BY <1>3, <1>5 DEF MayEnd, OpSound, Account, NoOp
    <3> QED
      BY <1>2, <1>3, <2>3, <3>1, FailWithStatusSound
  <2> QED
    BY <1>10, <2>1, <2>2, <2>3 DEF HandleChat
<1> QED
  BY <1>6, <1>7, <1>8, <1>9, <1>10

LEMMA TryStartFromQueueSound ==
  ASSUME SessionInv, NEW s \in Sessions, TryStartFromQueue(s)
  PROVE  SessionInv'
<1> DEFINE r == sess[s]  q == [r EXCEPT !.queue_timer = Cancelled(r.queue_timer)]
<1>1. r \in SessionRecord /\ Sound(r, s \in active, s \in waiting)
  BY SoundNow
<1>2. /\ s \in waiting /\ s \in active' /\ s \notin waiting'
      /\ \A t \in Sessions \ {s} : /\ t \in active'  <=> t \in active
                                   /\ t \in waiting' <=> t \in waiting
  BY DEF TryStartFromQueue, PromoteWaiting
<1>3. Set(s, Started(q)) /\ r.queue_timer # "posted"
  BY DEF TryStartFromQueue
<1>4. Cancelled(r.queue_timer) \in {"off", "armed", "due"}
  BY <1>1, <1>3 DEF Cancelled, SessionRecord
<1>5. /\ q \in SessionRecord /\ q.finished = r.finished /\ q.object = r.object
      /\ q.queue_timer \in {"off", "armed", "due"}
      /\ q.outcome = r.outcome /\ q.received = r.received
      /\ q.delivered = r.delivered /\ q.lost = r.lost
  BY <1>1, <1>4 DEF SessionRecord
<1> HIDE DEF r, q
<1>6. ~r.finished /\ r.queue_timer # "off" /\ r.received = r.delivered + r.lost
  BY <1>1, <1>2 DEF Sound, Placed
<1>7. r.object # "none" /\ r.outcome # "completed"
  BY <1>1, <1>6 DEF Sound, Unread, Account, NewSession
<1>8. Sound(Started(q), TRUE, FALSE)
  BY <1>5, <1>6, <1>7, StartedSound
<1>9. Sound(Started(q), s \in active', s \in waiting')
  BY <1>2, <1>8, Zenon DEF Sound, Placed
<1> QED
  BY <1>2, <1>3, <1>9, SetSound

LEMMA EnqueueSessionSound ==
  ASSUME SessionInv, NEW s \in Sessions, EnqueueSession(s)
  PROVE  SessionInv'
<1> DEFINE r == sess[s]  q == [r EXCEPT !.queue_timer = "armed"]
<1>1. r \in SessionRecord /\ Sound(r, s \in active, s \in waiting)
  BY SoundNow
<1>2. r.queue_timer = "posted" /\ Continue(s, q)
  BY DEF EnqueueSession
<1>3. /\ q \in SessionRecord /\ q.op = r.op /\ q.finished = r.finished
      /\ q.outcome = r.outcome /\ q.received = r.received
      /\ q.delivered = r.delivered /\ q.lost = r.lost /\ q.object = r.object
      /\ q.queue_timer = "armed" /\ q.request_timer = r.request_timer
  BY <1>1 DEF SessionRecord
<1> HIDE DEF r, q
<1>4. r.object # "none"
  BY <1>1, <1>2 DEF Sound, Unread, NewSession
<1>5. Sound(q, s \in active, s \in waiting)
  BY <1>1, <1>2, <1>3, <1>4, SameChainSound
<1> QED
  BY <1>2, <1>5, ContinueSound

LEMMA OnQueueTimerSound ==
  ASSUME SessionInv, NEW s \in Sessions, OnQueueTimer(s)
  PROVE  SessionInv'
<1> DEFINE r == sess[s]  q == [r EXCEPT !.queue_timer = "off"]
<1>1. r \in SessionRecord /\ Sound(r, s \in active, s \in waiting)
  BY SoundNow
<1>2. /\ r.queue_timer = "due"
      /\ \/ s \in waiting /\ GiveUp(s) /\ Set(s, Answered(Ended(q, "failed")))
         \/ s \notin waiting /\ Continue(s, q)
  BY DEF OnQueueTimer
<1>3. /\ q \in SessionRecord /\ q.op = r.op /\ q.finished = r.finished
      /\ q.outcome = r.outcome /\ q.received = r.received
      /\ q.delivered = r.delivered /\ q.lost = r.lost /\ q.object = r.object
      /\ q.queue_timer = "off" /\ q.request_timer = r.request_timer
  BY <1>1 DEF SessionRecord
<1> HIDE DEF r, q
<1>4. r.object # "none" /\ r.op.kind # "read_request"
  BY <1>1, <1>2 DEF Sound, Unread, NewSession
<1>5. MayEnd(q)
  BY <1>1, <1>3, <1>4 DEF Sound, MayEnd, OpSound, Account, InHand
<1>6. CASE s \in waiting /\ GiveUp(s) /\ Set(s, Answered(Ended(q, "failed")))
  <2> DEFINE e == Answered(Ended(q, "failed"))
  <2>1. ~q.finished /\ s \notin active
    BY <1>1, <1>3, <1>6 DEF Sound, Placed, NoOp, Forwarding
  <2>2. MayEnd(e) /\ e.finished
    BY <1>5, <2>1, EndedSound, AnsweredSound
  <2>3. Set(s, e)
    BY <1>6
  <2> HIDE DEF e
  <2>4. /\ s \notin active' /\ s \notin waiting'
        /\ \A t \in Sessions \ {s} : /\ t \in active'  <=> t \in active
                                     /\ t \in waiting' <=> t \in waiting
    BY <1>6, <2>1 DEF GiveUp
  <2>5. Sound(e, s \in active', s \in waiting')
    BY <2>2, <2>4, MayEndSound, Zenon DEF Sound, Placed
  <2> QED
    BY <2>3, <2>4, <2>5, SetSound
<1>7. CASE s \notin waiting /\ Continue(s, q)
  <2>1. OpSound(q) /\ Account(q) /\ Unread(q)
    BY <1>3, <1>4, <1>5 DEF MayEnd, Unread
  <2>2. Placed(q, s \in active, s \in waiting)
    BY <1>1, <1>3, <1>7 DEF Sound, Placed
  <2> QED
    BY <1>3, <1>7, <2>1, <2>2, ContinueSound DEF Sound
<1> QED
  BY <1>2, <1>6, <1>7

LEMMA OnRequestTimerSound ==
  ASSUME SessionInv, NEW s \in Sessions, OnRequestTimer(s)
  PROVE  SessionInv'
<1> DEFINE r == sess[s]  q == [r EXCEPT !.request_timer = "off"]
<1>1. r \in SessionRecord /\ Sound(r, s \in active, s \in waiting)
  BY SoundNow
<1>2. r.request_timer = "due" /\ FailWithStatus(s, q)
  BY DEF OnRequestTimer
<1>3. /\ q \in SessionRecord /\ q.op = r.op /\ q.finished = r.finished
      /\ q.outcome = r.outcome /\ q.received = r.received
      /\ q.delivered = r.delivered /\ q.lost = r.lost /\ q.object = r.object
      /\ q.queue_timer = r.queue_timer
  BY <1>1 DEF SessionRecord
<1> HIDE DEF r, q
<1>4. r.object # "none" /\ r.op.kind # "read_request" /\ r.queue_timer # "posted"
  BY <1>1, <1>2 DEF Sound, Unread, Placed, NewSession
<1>5. MayEnd(q)
  BY <1>1, <1>3, <1>4 DEF Sound, MayEnd, OpSound, Account, InHand
<1>6. s \notin waiting /\ (q.finished => s \notin active)
  BY <1>1, <1>2, <1>3 DEF Sound, Placed
<1> QED
  BY <1>2, <1>5, <1>6, FailWithStatusSound

LEMMA NewSessionSound ==
  /\ NoOp \in [kind : OpKinds, result : OpResults] /\ NoOp.kind = "none"
  /\ NewSession \in SessionRecord /\ NewSession.op = NoOp
  /\ NewSession.outcome = "none" /\ NewSession.finished = FALSE /\ NewSession.queue_timer = "off"
  /\ OpSound(NewSession) /\ Account(NewSession) /\ Unread(NewSession)
<1>1. NoOp \in [kind : OpKinds, result : OpResults] /\ NoOp.kind = "none"
  BY DEF NoOp, OpKinds, OpResults
<1>2. /\ NewSession \in SessionRecord /\ NewSession.op = NoOp
      /\ NewSession.outcome = "none" /\ NewSession.finished = FALSE /\ NewSession.queue_timer = "off"
  BY <1>1, SessionAssumption DEF NewSession, SessionRecord
<1>3. OpSound(NewSession) /\ Account(NewSession) /\ Unread(NewSession)
  BY <1>1, <1>2 DEF OpSound, Account, Unread, NoOp
<1> QED
  BY <1>1, <1>2, <1>3

LEMMA DestructSound ==
  ASSUME SessionInv, NEW s \in Sessions, Destruct(s)
  PROVE  SessionInv'
<1> DEFINE q == [NewSession EXCEPT !.object = "destroyed", !.client = "closed"]
<1>1. /\ sess[s].op = NoOp /\ sess[s].queue_timer = "off"
      /\ Set(s, q) /\ ResetPermit(s)
  BY DEF Destruct
<1>2. s \notin waiting
  BY <1>1, SoundNow DEF Sound, Placed
<1>3. /\ s \notin active' /\ s \notin waiting'
      /\ \A t \in Sessions \ {s} : /\ t \in active'  <=> t \in active
                                   /\ t \in waiting' <=> t \in waiting
  BY <1>1, <1>2, ResetPermitSound
<1>4. NoOp.kind = "none" /\ NewSession \in SessionRecord
  BY NewSessionSound
<1>5. /\ q \in SessionRecord /\ q.object = "destroyed" /\ q.op = NoOp
      /\ q.finished = FALSE /\ q.outcome = "none" /\ q.queue_timer = "off"
  <2>1. /\ q \in SessionRecord /\ q.object = "destroyed" /\ q.op = NewSession.op
        /\ q.finished = NewSession.finished /\ q.outcome = NewSession.outcome
        /\ q.queue_timer = NewSession.queue_timer
    BY <1>4 DEF SessionRecord
  <2> QED
    BY <2>1, NewSessionSound
<1> HIDE DEF q
<1>6. OpSound(q) /\ Account(q) /\ Unread(q)
  BY <1>4, <1>5 DEF OpSound, Account, Unread, NoOp
<1>7. Placed(q, s \in active', s \in waiting')
  BY <1>3, <1>4, <1>5 DEF Placed, Forwarding
<1> QED
  BY <1>1, <1>3, <1>5, <1>6, <1>7, SetSound DEF Sound

-----------------------------------------------------------------------------
LEMMA InitSound == SessionInit => SessionInv
<1> SUFFICES ASSUME SessionInit PROVE SessionInv
  OBVIOUS
<1>1. \A s \in Sessions : sess[s] = NewSession /\ s \notin active /\ s \notin waiting
  BY DEF SessionInit, AdmissionInit
<1>2. ASSUME NEW s \in Sessions
      PROVE  Placed(sess[s], s \in active, s \in waiting)
  BY <1>1, NewSessionSound DEF Placed, Forwarding
<1>3. SessionTypeOK
  BY NewSessionSound DEF SessionInit, SessionTypeOK
<1> QED
  BY <1>1, <1>2, <1>3, NewSessionSound DEF SessionInv, Sound

LEMMA NextSound == SessionInv /\ [SessionNext]_sessionVars => SessionInv'
<1> SUFFICES ASSUME SessionInv, [SessionNext]_sessionVars PROVE SessionInv'
  OBVIOUS
<1>1. ASSUME NEW s \in Sessions, Handler(s) PROVE SessionInv'
  BY <1>1, OnReadRequestSound, OnTextWrittenSound, EnqueueSessionSound,
     OnQueueTimerSound, OnRequestTimerSound, OnResolveSound, OnConnectSound, OnWriteRequestSound,
     OnReadHeaderSound, OnWriteHeaderSound, OnReadBodySound, OnWriteBodySound,
     OnReplyWrittenSound
  DEF Handler
<1>2. ASSUME NEW s \in Sessions,
             \/ Accept(s) \/ OpCompletes(s) \/ ReplyCompletes(s)
             \/ TimerExpires(s) \/ TryStartFromQueue(s) \/ Destruct(s)
      PROVE  SessionInv'
  BY <1>2, AcceptSound, OpCompletesSound, ReplyCompletesSound, TimerExpiresSound,
     TryStartFromQueueSound, DestructSound
<1>3. CASE UNCHANGED sessionVars
  BY <1>3 DEF sessionVars, admissionVars, SessionInv, SessionTypeOK
<1> QED
  BY <1>1, <1>2, <1>3 DEF SessionNext, AllServed

LEMMA SessionInvariant == SessionSpec => []SessionInv
BY InitSound, NextSound, PTL DEF SessionSpec

(***************************************************************************)
(* The fields of a session keep their types; the counters of pieces stay   *)
(* within the pieces the upstream sent.                                    *)
(***************************************************************************)
THEOREM SessionTypeCorrect == SessionSpec => []SessionTypeOK
<1>1. SessionInv => SessionTypeOK
  BY DEF SessionInv
<1> QED
  BY <1>1, SessionInvariant, PTL

(***************************************************************************)
(* Through every error, timeout, late completion and destruction a session *)
(* owns a slot exactly while it works on a chat request that has not been  *)
(* answered.                                                               *)
(***************************************************************************)
THEOREM SlotCorrect == SessionSpec => []SlotWhileForwarding
<1>1. SessionInv => SlotWhileForwarding
  BY DEF SessionInv, Sound, Placed, SlotWhileForwarding
<1> QED
  BY <1>1, SessionInvariant, PTL

(***************************************************************************)
(* Every unanswered request has a handler that will end it.  One that has  *)
(* been admitted has its request timer running.  One that waits has no     *)
(* operation, and has its queue timer or, between the decision Queue and   *)
(* the run of the handler that enqueue_session posts, that handler; a      *)
(* session with a posted handler still waits when the handler runs.        *)
(***************************************************************************)
THEOREM WatchedCorrect == SessionSpec => []Watched
<1>1. SessionInv => Watched
  BY DEF SessionInv, Sound, Placed, Watched
<1> QED
  BY <1>1, SessionInvariant, PTL

(***************************************************************************)
(* Of a response that is recorded as completed, as many pieces have been   *)
(* written to the client as were read from the upstream, but for those     *)
(* that read_upstream_body drops.                                          *)
(***************************************************************************)
THEOREM PiecesCorrect == SessionSpec => []PiecesAccounted
<1>1. ASSUME SessionInv, NEW s \in Sessions, sess[s].outcome = "completed"
      PROVE  sess[s].delivered + sess[s].lost = sess[s].received
  BY <1>1 DEF SessionInv, Sound, Account
<1>2. SessionInv => PiecesAccounted
  BY <1>1 DEF PiecesAccounted
<1> QED
  BY <1>2, SessionInvariant, PTL

-----------------------------------------------------------------------------
(***************************************************************************)
(* The limits.  They are a promise of the abstract admission layer, and the*)
(* sessions only ever take its steps.                                      *)
(***************************************************************************)
AdmissionBounds ==
  /\ IsFiniteSet(active) /\ Cardinality(active) <= MaxInflight
  /\ IsFiniteSet(waiting) /\ Cardinality(waiting) <= MaxQueueSize

LEMMA AdmissionBoundsStep ==
  AdmissionBounds /\ [AdmissionNext]_admissionVars => AdmissionBounds'
<1> SUFFICES ASSUME AdmissionBounds, [AdmissionNext]_admissionVars
             PROVE  AdmissionBounds'
  OBVIOUS
<1>1. MaxInflight \in Nat /\ MaxQueueSize \in Nat
  BY SessionAssumption
<1>2. /\ IsFiniteSet(active) /\ Cardinality(active) <= MaxInflight
      /\ IsFiniteSet(waiting) /\ Cardinality(waiting) <= MaxQueueSize
      /\ Cardinality(active) \in Nat /\ Cardinality(waiting) \in Nat
  BY FS_CardinalityType DEF AdmissionBounds
<1>3. ASSUME NEW s, active' = active \union {s}, Cardinality(active) < MaxInflight
      PROVE  IsFiniteSet(active') /\ Cardinality(active') <= MaxInflight
  <2>1. IsFiniteSet(active \union {s})
    BY <1>2, FS_AddElement
  <2>2. Cardinality(active \union {s}) = Cardinality(active)
          \/ Cardinality(active \union {s}) = Cardinality(active) + 1
    BY <1>2, FS_AddElement
  <2> QED
    BY <1>1, <1>2, <1>3, <2>1, <2>2
<1>4. ASSUME NEW s, waiting' = waiting \union {s}, Cardinality(waiting) < MaxQueueSize
      PROVE  IsFiniteSet(waiting') /\ Cardinality(waiting') <= MaxQueueSize
  <2>1. IsFiniteSet(waiting \union {s})
    BY <1>2, FS_AddElement
  <2>2. Cardinality(waiting \union {s}) = Cardinality(waiting)
          \/ Cardinality(waiting \union {s}) = Cardinality(waiting) + 1
    BY <1>2, FS_AddElement
  <2> QED
    BY <1>1, <1>2, <1>4, <2>1, <2>2
<1>5. ASSUME NEW A, A \subseteq active
      PROVE  IsFiniteSet(A) /\ Cardinality(A) <= MaxInflight
  <2>1. IsFiniteSet(A) /\ Cardinality(A) <= Cardinality(active) /\ Cardinality(A) \in Nat
    BY <1>2, <1>5, FS_Subset, FS_CardinalityType
  <2> QED
    BY <1>1, <1>2, <2>1
<1>6. ASSUME NEW W, W \subseteq waiting
      PROVE  IsFiniteSet(W) /\ Cardinality(W) <= MaxQueueSize
  <2>1. IsFiniteSet(W) /\ Cardinality(W) <= Cardinality(waiting) /\ Cardinality(W) \in Nat
    BY <1>2, <1>6, FS_Subset, FS_CardinalityType
  <2> QED
    BY <1>1, <1>2, <2>1
<1>7. ASSUME NEW s \in Sessions, Admit(s) PROVE AdmissionBounds'
  BY <1>2, <1>3, <1>7 DEF Admit, SlotFree, AdmissionBounds
<1>8. ASSUME NEW s \in Sessions, StartWaiting(s) PROVE AdmissionBounds'
  BY <1>2, <1>4, <1>8 DEF StartWaiting, AdmissionBounds
<1>9. ASSUME NEW s \in Sessions, PromoteWaiting(s) PROVE AdmissionBounds'
  <2>1. waiting' \subseteq waiting
    BY <1>9 DEF PromoteWaiting
  <2> QED
    BY <1>3, <1>6, <1>9, <2>1 DEF PromoteWaiting, SlotFree, AdmissionBounds
<1>10. ASSUME NEW s \in Sessions, GiveUp(s) \/ Leave(s) PROVE AdmissionBounds'
  <2>1. waiting' \subseteq waiting /\ active' \subseteq active
    BY <1>10 DEF GiveUp, Leave
  <2> QED
    BY <1>5, <1>6, <2>1 DEF AdmissionBounds
<1>11. CASE Shut \/ UNCHANGED admissionVars
  <2>1. waiting' \subseteq waiting /\ active' \subseteq active
    BY <1>11 DEF Shut, admissionVars
  <2> QED
    BY <1>5, <1>6, <2>1 DEF AdmissionBounds
<1> QED
  BY <1>7, <1>8, <1>9, <1>10, <1>11 DEF AdmissionNext

(***************************************************************************)
(* The abstract admission layer keeps its limits.                          *)
(***************************************************************************)
THEOREM AdmissionBounded == AdmissionSpec => []AdmissionBounds
<1>1. AdmissionInit => AdmissionBounds
  BY FS_EmptySet, SessionAssumption DEF AdmissionInit, AdmissionBounds
<1> QED
  BY <1>1, AdmissionBoundsStep, PTL DEF AdmissionSpec

(***************************************************************************)
(* The sessions use the admission layer only as it allows: no handler takes*)
(* a slot, a place in the queue or another session's slot past it.         *)
(***************************************************************************)
THEOREM SessionUsesAdmission == SessionSpec => AdmissionSpec
<1>1. SessionInit => AdmissionInit
  BY DEF SessionInit
<1>2. [SessionNext]_sessionVars => [AdmissionNext]_admissionVars
  <2> SUFFICES ASSUME [SessionNext]_sessionVars
               PROVE  AdmissionNext \/ UNCHANGED admissionVars
    OBVIOUS
  <2>1. ASSUME NEW s \in Sessions, ResetPermit(s)
        PROVE  AdmissionNext \/ UNCHANGED admissionVars
    BY <2>1 DEF ResetPermit, AdmissionNext
  <2>2. ASSUME NEW s \in Sessions, NEW r, FinishRequest(s, r) \/ FailWithStatus(s, r)
        PROVE  AdmissionNext \/ UNCHANGED admissionVars
    BY <2>1, <2>2 DEF FinishRequest, FailWithStatus
  <2>3. ASSUME NEW s \in Sessions, NEW r, HandleChat(s, r)
        PROVE  AdmissionNext \/ UNCHANGED admissionVars
    BY <2>2, <2>3 DEF HandleChat, AdmissionNext
  <2>4. ASSUME NEW s \in Sessions,
               \/ OnReadRequest(s) \/ OnTextWritten(s) \/ EnqueueSession(s)
               \/ OnQueueTimer(s) \/ OnRequestTimer(s) \/ OnReplyWritten(s)
        PROVE  AdmissionNext \/ UNCHANGED admissionVars
    <3>1. CASE OnReadRequest(s)
      BY <2>2, <2>3, <3>1 DEF OnReadRequest, SendHealth, Continue
    <3>2. CASE OnTextWritten(s) \/ OnReplyWritten(s) \/ EnqueueSession(s)
      BY <3>2 DEF OnTextWritten, OnReplyWritten, EnqueueSession, Continue
    <3>3. CASE OnQueueTimer(s)
      BY <3>3 DEF OnQueueTimer, Continue, AdmissionNext
    <3>4. CASE OnRequestTimer(s)
      BY <2>2, <3>4 DEF OnRequestTimer
    <3> QED
      BY <2>4, <3>1, <3>2, <3>3, <3>4
  <2>5. ASSUME NEW s \in Sessions,
               \/ OnResolve(s) \/ OnConnect(s) \/ OnWriteRequest(s) \/ OnReadHeader(s)
               \/ OnWriteHeader(s) \/ OnReadBody(s) \/ OnWriteBody(s)
        PROVE  AdmissionNext \/ UNCHANGED admissionVars
    <3>1. CASE OnResolve(s) \/ OnConnect(s) \/ OnWriteRequest(s)
      BY <2>2, <3>1 DEF OnResolve, OnConnect, OnWriteRequest, Continue
    <3>2. CASE OnReadHeader(s) \/ OnWriteHeader(s)
      BY <2>2, <3>2 DEF OnReadHeader, OnWriteHeader, Continue
    <3>3. CASE OnReadBody(s) \/ OnWriteBody(s)
      BY <2>2, <3>3 DEF OnReadBody, OnWriteBody, Continue
    <3> QED
      BY <2>5, <3>1, <3>2, <3>3
  <2>6. ASSUME NEW s \in Sessions,
               \/ Accept(s) \/ OpCompletes(s) \/ ReplyCompletes(s)
               \/ TimerExpires(s) \/ TryStartFromQueue(s) \/ Destruct(s)
        PROVE  AdmissionNext \/ UNCHANGED admissionVars
    <3>1. CASE TryStartFromQueue(s)
      BY <3>1 DEF TryStartFromQueue, AdmissionNext
    <3>2. CASE Destruct(s)
      BY <2>1, <3>2 DEF Destruct
    <3>3. CASE Accept(s) \/ OpCompletes(s) \/ ReplyCompletes(s) \/ TimerExpires(s)
      BY <3>3 DEF Accept, OpCompletes, ReplyCompletes, TimerExpires, Continue
    <3> QED
      BY <2>6, <3>1, <3>2, <3>3
  <2>7. CASE UNCHANGED sessionVars
    BY <2>7 DEF sessionVars
  <2> QED
    BY <2>4, <2>5, <2>6, <2>7 DEF SessionNext, AllServed, Handler
<1> QED
  BY <1>1, <1>2, PTL DEF SessionSpec, AdmissionSpec

(* The requests that are being forwarded and have no final answer yet.     *)
Unanswered == {s \in Sessions : sess[s].op.kind \in Forwarding /\ ~sess[s].finished}

(***************************************************************************)
(* At most max_inflight requests are being forwarded and not yet answered, *)
(* however their chains, errors and timeouts interleave.  (UpstreamBounded *)
(* says it of the exchanges with the upstream, and is false: an exchange   *)
(* may outlive the answer.)                                                *)
(***************************************************************************)
THEOREM ForwardingBounded == SessionSpec => [](Cardinality(Unanswered) <= MaxInflight)
<1>1. SlotWhileForwarding /\ AdmissionBounds => Cardinality(Unanswered) <= MaxInflight
  <2> SUFFICES ASSUME SlotWhileForwarding, AdmissionBounds
               PROVE  Cardinality(Unanswered) <= MaxInflight
    OBVIOUS
  <2>1. Unanswered \subseteq active
    BY DEF Unanswered, SlotWhileForwarding
  <2>2. IsFiniteSet(active) /\ Cardinality(active) <= MaxInflight
    BY DEF AdmissionBounds
  <2>3. Cardinality(Unanswered) <= Cardinality(active) /\ IsFiniteSet(Unanswered)
    BY <2>1, <2>2, FS_Subset
  <2> QED
    BY <2>2, <2>3, FS_CardinalityType, SessionAssumption
<1> QED
  BY <1>1, SlotCorrect, SessionUsesAdmission, AdmissionBounded, PTL
=============================================================================
