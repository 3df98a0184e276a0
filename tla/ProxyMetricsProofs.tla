-------------------------- MODULE ProxyMetricsProofs --------------------------
(***************************************************************************)
(* Proofs about ProxyMetrics, for any number of sessions and worker        *)
(* threads, any limits and any capacity of the window: what a report of    *)
(* /health shows, and what the window holds.                               *)
(***************************************************************************)
EXTENDS ProxyMetrics, InflightLimiterProofs, SequenceTheorems

Places ==
  {"new", "started", "queued", "active", "refused", "completed", "failed", "late", "gone"}
TokenStates == {"none", "counted", "sampled"}
Ttft == Durations \union {0}
Report ==
  [step : {"none", "limiter", "counters", "sent"}, inflight : Nat, queued : Nat,
   total : Nat, completed : Nat, failed : Nat, tokens : Nat, window : Nat]

MetricsTypeOK ==
  /\ at \in [Sessions -> Places]
  /\ token \in [Sessions -> TokenStates] /\ ttft \in [Sessions -> Ttft]
  /\ total_requests \in Nat /\ completed_requests \in Nat /\ failed_requests \in Nat
  /\ first_token_events \in Nat /\ last_ttft \in Ttft
  /\ samples \in Seq(Ttft)
  /\ mutex \in BOOLEAN /\ report \in Report

(* The sessions that f puts in one of the places P.                        *)
In(f, P) == {r \in Sessions : f[r] \in P}

Ended == {"completed", "failed", "late", "gone"}

(* The counters and the limiter count the sessions by where they are.      *)
Counts ==
  /\ total_requests = Cardinality(In(at, Places \ {"new"}))
  /\ completed_requests + failed_requests = Cardinality(In(at, Ended))
  /\ queued_requests = Cardinality(In(at, {"queued"}))
  /\ permits \subseteq In(at, {"active", "completed", "failed"})

(* After the sample reported as the last, the window has got and will get  *)
(* only those of calls that were under way at the same time.               *)
LastKept ==
  first_token_events > 0 =>
    \/ \E s \in Sessions : token[s] = "counted" /\ ttft[s] = last_ttft
    \/ \E i \in 1..Len(samples) :
         /\ samples[i] = last_ttft
         /\ (Len(samples) - i) + Cardinality(In(token, {"counted"})) < Workers

Tokens ==
  /\ first_token_events = Cardinality(In(token, {"counted", "sampled"}))
  /\ Len(samples) = IF Cardinality(In(token, {"sampled"})) < WindowCapacity
                    THEN Cardinality(In(token, {"sampled"})) ELSE WindowCapacity
  /\ Cardinality(In(token, {"counted"})) <= Workers

(* What the reader has read so far still bounds what it is about to read.  *)
Partial ==
  /\ mutex <=> report.step = "counters"
  /\ report.step = "limiter" => report.inflight + report.queued <= total_requests
  /\ report.step \in {"counters", "sent"} =>
       /\ report.inflight + report.queued <= report.total
       /\ report.completed + report.failed <= report.total
  /\ report.step = "counters" => report.tokens = first_token_events
  /\ report.step = "sent" => report.window <= report.tokens

MetricsInv ==
  /\ LimiterInv /\ ~closed /\ MetricsTypeOK
  /\ Counts /\ Tokens /\ Partial
  /\ Workers <= WindowCapacity => LastKept

-----------------------------------------------------------------------------
LEMMA InCount ==
  ASSUME NEW f, NEW P
  PROVE  IsFiniteSet(In(f, P)) /\ Cardinality(In(f, P)) \in Nat
<1>1. In(f, P) \subseteq Sessions
  BY DEF In
<1> QED
  BY <1>1, LimiterAssumption, FS_Subset, FS_CardinalityType

LEMMA InSubset ==
  ASSUME NEW f, NEW P, NEW Q, P \subseteq Q
  PROVE  Cardinality(In(f, P)) <= Cardinality(In(f, Q))
<1>1. In(f, P) \subseteq In(f, Q)
  BY DEF In
<1> QED
  BY <1>1, InCount, FS_Subset

(* Two disjoint groups of places are counted one by one.                   *)
LEMMA InUnion ==
  ASSUME NEW f, NEW P, NEW Q, P \intersect Q = {}
  PROVE  Cardinality(In(f, P \union Q)) = Cardinality(In(f, P)) + Cardinality(In(f, Q))
<1>1. In(f, P \union Q) = In(f, P) \union In(f, Q) /\ In(f, P) \intersect In(f, Q) = {}
  BY DEF In
<1>2. Cardinality(In(f, P) \union In(f, Q))
        = Cardinality(In(f, P)) + Cardinality(In(f, Q)) - Cardinality(In(f, P) \intersect In(f, Q))
  BY InCount, FS_Union
<1>3. Cardinality(In(f, P) \intersect In(f, Q)) = 0
  BY <1>1, FS_EmptySet
<1>4. Cardinality(In(f, P)) \in Nat /\ Cardinality(In(f, Q)) \in Nat
  BY InCount
<1>5. Cardinality(In(f, P)) + Cardinality(In(f, Q)) - 0
        = Cardinality(In(f, P)) + Cardinality(In(f, Q))
  BY <1>4
<1> QED
  BY <1>1, <1>2, <1>3, <1>5, Zenon

(* One session moves.                                                      *)
LEMMA MoveOne ==
  ASSUME NEW f, NEW g, NEW s \in Sessions, \A r \in Sessions \ {s} : g[r] = f[r], NEW P
  PROVE  /\ f[s] \notin P /\ g[s] \in P =>
              Cardinality(In(g, P)) = Cardinality(In(f, P)) + 1
         /\ f[s] \in P /\ g[s] \notin P =>
              Cardinality(In(g, P)) = Cardinality(In(f, P)) - 1
         /\ (f[s] \in P <=> g[s] \in P) => In(g, P) = In(f, P)
<1>1. CASE f[s] \notin P /\ g[s] \in P
  <2>1. In(g, P) = In(f, P) \union {s} /\ s \notin In(f, P)
    BY <1>1 DEF In
  <2> QED
    BY <1>1, <2>1, InCount, FS_AddElement
<1>2. CASE f[s] \in P /\ g[s] \notin P
  <2>1. In(g, P) = In(f, P) \ {s} /\ s \in In(f, P)
    BY <1>2 DEF In
  <2> QED
    BY <1>2, <2>1, InCount, FS_RemoveElement
<1>3. CASE f[s] \in P <=> g[s] \in P
  BY <1>3 DEF In
<1> QED
  BY <1>1, <1>2, <1>3

-----------------------------------------------------------------------------
(***************************************************************************)
(* The counters                                                            *)
(***************************************************************************)
LEMMA GoesMoves ==
  ASSUME MetricsTypeOK, NEW s \in Sessions, NEW p \in Places, Goes(s, p)
  PROVE  /\ at' \in [Sessions -> Places]
         /\ at'[s] = p /\ \A r \in Sessions \ {s} : at'[r] = at[r]
  BY DEF MetricsTypeOK, Goes

(* How the four counts of sessions change when s goes to p.                *)
LEMMA GoesCounts ==
  ASSUME MetricsTypeOK, NEW s \in Sessions, NEW p \in Places, Goes(s, p)
  PROVE  /\ at[s] = "new" /\ p # "new" =>
              Cardinality(In(at', Places \ {"new"})) = Cardinality(In(at, Places \ {"new"})) + 1
         /\ at[s] # "new" /\ p # "new" =>
              In(at', Places \ {"new"}) = In(at, Places \ {"new"})
         /\ at[s] \notin Ended /\ p \in Ended =>
              Cardinality(In(at', Ended)) = Cardinality(In(at, Ended)) + 1
         /\ (at[s] \in Ended <=> p \in Ended) => In(at', Ended) = In(at, Ended)
         /\ at[s] # "queued" /\ p = "queued" =>
              Cardinality(In(at', {"queued"})) = Cardinality(In(at, {"queued"})) + 1
         /\ at[s] = "queued" /\ p # "queued" =>
              Cardinality(In(at', {"queued"})) = Cardinality(In(at, {"queued"})) - 1
         /\ at[s] # "queued" /\ p # "queued" => In(at', {"queued"}) = In(at, {"queued"})
<1>1. /\ at[s] \in Places /\ at'[s] = p /\ \A r \in Sessions \ {s} : at'[r] = at[r]
  BY GoesMoves DEF MetricsTypeOK
<1>2. ASSUME NEW P
      PROVE  /\ at[s] \notin P /\ p \in P =>
                  Cardinality(In(at', P)) = Cardinality(In(at, P)) + 1
             /\ at[s] \in P /\ p \notin P =>
                  Cardinality(In(at', P)) = Cardinality(In(at, P)) - 1
             /\ (at[s] \in P <=> p \in P) => In(at', P) = In(at, P)
  <2> DEFINE g == at'
  <2>1. g[s] = p /\ \A r \in Sessions \ {s} : g[r] = at[r]
    BY <1>1
  <2> HIDE DEF g
  <2>2. /\ at[s] \notin P /\ g[s] \in P =>
             Cardinality(In(g, P)) = Cardinality(In(at, P)) + 1
        /\ at[s] \in P /\ g[s] \notin P =>
             Cardinality(In(g, P)) = Cardinality(In(at, P)) - 1
        /\ (at[s] \in P <=> g[s] \in P) => In(g, P) = In(at, P)
    BY <2>1, MoveOne
  <2> QED
    BY <2>1, <2>2 DEF g
<1>3. /\ at[s] \in Places \ {"new"} <=> at[s] # "new"
      /\ p \in Places \ {"new"} <=> p # "new"
  BY <1>1
<1> QED
  BY <1>2, <1>3

(* The permits stay with sessions that may have one.                       *)
LEMMA GoesPermits ==
  ASSUME MetricsTypeOK, Counts, NEW s \in Sessions, NEW p \in Places, Goes(s, p),
         permits' \subseteq permits \union {s},
         s \in permits' => p \in {"active", "completed", "failed"}
  PROVE  permits' \subseteq In(at', {"active", "completed", "failed"})
<1>1. at'[s] = p /\ \A r \in Sessions \ {s} : at'[r] = at[r]
  BY GoesMoves
<1> QED
  BY <1>1 DEF Counts, In

LEMMA SessionCounts ==
  ASSUME MetricsInv, NEW s \in Sessions, SessionStep(s)
  PROVE  LimiterInv' /\ ~closed' /\ Counts' /\ total_requests' >= total_requests
<1>1. MetricsTypeOK /\ Counts /\ LimiterInv /\ ~closed
  BY DEF MetricsInv
<1>2. /\ total_requests \in Nat /\ completed_requests \in Nat /\ failed_requests \in Nat
      /\ queued_requests \in Nat /\ current_inflight \in Nat
      /\ s \in permits => at[s] \in {"active", "completed", "failed"}
  BY <1>1 DEF MetricsTypeOK, LimiterInv, LimiterTypeOK, Counts, In
<1>3. ASSUME /\ total_requests' = Cardinality(In(at', Places \ {"new"}))
             /\ completed_requests' + failed_requests' = Cardinality(In(at', Ended))
             /\ queued_requests' = Cardinality(In(at', {"queued"}))
             /\ permits' \subseteq In(at', {"active", "completed", "failed"})
      PROVE  Counts'
  BY <1>3 DEF Counts, Places, Ended
<1>4. ASSUME UNCHANGED limiterVars
      PROVE  LimiterInv' /\ ~closed'
  BY <1>1, <1>4
  DEF limiterVars, LimiterInv, LimiterTypeOK, SlotsExact, QueueBounded, ClosedEmpty
<1>5. CASE RecordStarted(s)
  <2>1. /\ at[s] = "new" /\ total_requests' = total_requests + 1 /\ Goes(s, "started")
        /\ UNCHANGED <<limiterVars, completed_requests, failed_requests>>
    BY <1>5 DEF RecordStarted
  <2>2. UNCHANGED <<queued_requests, permits>> /\ s \notin permits
    BY <1>2, <2>1 DEF limiterVars
  <2>3. "started" \in Places /\ "started" \notin Ended /\ "new" \notin Ended
    BY DEF Places, Ended
  <2>4. permits' \subseteq In(at', {"active", "completed", "failed"})
    BY <1>1, <2>1, <2>2, <2>3, GoesPermits
  <2>5. Counts'
    BY <1>1, <1>3, <2>1, <2>2, <2>3, <2>4, GoesCounts DEF Counts
  <2> QED
    BY <1>2, <1>4, <2>1, <2>5
<1>6. CASE AcquireSlot(s)
  <2>1. PICK d \in InflightDecision : TryAcquireOrQueue(s, d) /\ Goes(s, Place(d))
    BY <1>6 DEF AcquireSlot
  <2>2. at[s] = "started" /\ UNCHANGED <<total_requests, completed_requests, failed_requests>>
    BY <1>6 DEF AcquireSlot, counters
  <2>3. s \notin permits
    BY <1>2, <2>2
  <2>4. LimiterInv'
    BY <1>1, <2>1, <2>3, AcquireKeepsCounts
  <2>5. ~closed'
    BY <1>1, <2>1 DEF TryAcquireOrQueue, limiterVars
  <2>6. /\ "started" \notin Ended /\ "active" \in Places \ Ended
        /\ "queued" \in Places \ Ended /\ "refused" \in Places \ Ended
    BY DEF Places, Ended
  <2>7. CASE d = "Admit"
    <3>1. Place(d) = "active" /\ permits' = permits \union {s} /\ UNCHANGED queued_requests
      BY <2>1, <2>7 DEF Place, TryAcquireOrQueue
    <3>2. permits' \subseteq In(at', {"active", "completed", "failed"})
      BY <1>1, <2>1, <2>6, <3>1, GoesPermits
    <3>3. Counts'
      BY <1>1, <1>3, <2>1, <2>2, <2>6, <3>1, <3>2, GoesCounts DEF Counts
    <3> QED
      BY <1>2, <2>2, <2>4, <2>5, <3>3
  <2>8. CASE d = "Queue"
    <3>1. Place(d) = "queued" /\ permits' = permits /\ queued_requests' = queued_requests + 1
      BY <2>1, <2>8 DEF Place, TryAcquireOrQueue
    <3>2. permits' \subseteq In(at', {"active", "completed", "failed"})
      BY <1>1, <2>1, <2>3, <2>6, <3>1, GoesPermits
    <3>3. Counts'
      BY <1>1, <1>3, <2>1, <2>2, <2>6, <3>1, <3>2, GoesCounts DEF Counts
    <3> QED
      BY <1>2, <2>2, <2>4, <2>5, <3>3
  <2>9. CASE d \in {"Reject", "Closed"}
    <3>1. Place(d) = "refused" /\ permits' = permits /\ UNCHANGED queued_requests
      BY <2>1, <2>9 DEF Place, TryAcquireOrQueue, limiterVars
    <3>2. permits' \subseteq In(at', {"active", "completed", "failed"})
      BY <1>1, <2>1, <2>3, <2>6, <3>1, GoesPermits
    <3>3. Counts'
      BY <1>1, <1>3, <2>1, <2>2, <2>6, <3>1, <3>2, GoesCounts DEF Counts
    <3> QED
      BY <1>2, <2>2, <2>4, <2>5, <3>3
  <2> QED
    BY <2>7, <2>8, <2>9 DEF InflightDecision
<1>7. CASE PromoteSession(s)
  <2>1. /\ at[s] = "queued" /\ TryPromoteQueued(s, TRUE) /\ Goes(s, "active")
        /\ UNCHANGED <<total_requests, completed_requests, failed_requests>>
    BY <1>7 DEF PromoteSession, counters
  <2>2. s \notin permits
    BY <1>2, <2>1
  <2>3. LimiterInv' /\ ~closed'
    BY <1>1, <2>1, <2>2, PromoteKeepsCounts DEF TryPromoteQueued
  <2>4. queued_requests' = queued_requests - 1 /\ permits' = permits \union {s}
    BY <2>1 DEF TryPromoteQueued
  <2>5. "active" \in Places \ Ended /\ "queued" \notin Ended
    BY DEF Places, Ended
  <2>6. permits' \subseteq In(at', {"active", "completed", "failed"})
    BY <1>1, <2>1, <2>4, <2>5, GoesPermits
  <2>7. Counts'
    BY <1>1, <1>3, <2>1, <2>4, <2>5, <2>6, GoesCounts DEF Counts
  <2> QED
    BY <1>2, <2>1, <2>3, <2>7
<1>8. CASE QueueTimeout(s)
  <2>1. /\ at[s] = "queued" /\ CancelQueued /\ Goes(s, "refused")
        /\ UNCHANGED <<total_requests, completed_requests, failed_requests>>
    BY <1>8 DEF QueueTimeout, counters
  <2>2. s \notin permits
    BY <1>2, <2>1
  <2>3. LimiterInv' /\ ~closed' /\ permits' = permits
    BY <1>1, <2>1, CancelKeepsCounts DEF CancelQueued
  <2>4. queued_requests # 0
    <3>1. s \in In(at, {"queued"})
      BY <2>1 DEF In
    <3>2. Cardinality(In(at, {"queued"})) # 0
      BY <3>1, InCount, FS_EmptySet
    <3> QED
      BY <1>1, <3>2 DEF Counts
  <2>5. queued_requests' = queued_requests - 1
    BY <2>1, <2>4 DEF CancelQueued
  <2>6. "refused" \in Places \ Ended /\ "queued" \notin Ended
    BY DEF Places, Ended
  <2>7. permits' \subseteq In(at', {"active", "completed", "failed"})
    BY <1>1, <2>1, <2>2, <2>3, <2>6, GoesPermits
  <2>8. Counts'
    BY <1>1, <1>3, <2>1, <2>3, <2>5, <2>6, <2>7, GoesCounts DEF Counts
  <2> QED
    BY <1>2, <2>1, <2>3, <2>8
<1>9. CASE CountToken(s) \/ SampleToken(s)
  <2>1. UNCHANGED <<limiterVars, at, total_requests, completed_requests, failed_requests>>
    BY <1>9 DEF CountToken, SampleToken, counters
  <2>2. Counts'
    BY <1>1, <1>3, <2>1 DEF Counts, limiterVars
  <2> QED
    BY <1>2, <1>4, <2>1, <2>2
<1>10. CASE RecordCompleted(s) \/ RecordFailed(s)
  <2>1. PICK p \in {"completed", "failed"} : Goes(s, p)
    BY <1>10 DEF RecordCompleted, RecordFailed
  <2>2. /\ at[s] \in {"active", "refused"} /\ (at[s] = "refused" => p \in {"completed", "failed"})
        /\ UNCHANGED <<limiterVars, total_requests>>
    BY <1>10 DEF RecordCompleted, RecordFailed
  <2>3. completed_requests' + failed_requests' = completed_requests + failed_requests + 1
    BY <1>2, <1>10 DEF RecordCompleted, RecordFailed
  <2>4. UNCHANGED <<queued_requests, permits>>
    BY <2>2 DEF limiterVars
  <2>5. /\ p \in Places /\ p \in Ended /\ p # "new" /\ p # "queued"
        /\ at[s] \notin Ended /\ at[s] # "new" /\ at[s] # "queued"
    BY <2>2 DEF Places, Ended
  <2>6. permits' \subseteq In(at', {"active", "completed", "failed"})
    BY <1>1, <2>1, <2>4, <2>5, GoesPermits
  <2>7. Counts'
    BY <1>1, <1>3, <2>1, <2>2, <2>3, <2>4, <2>5, <2>6, GoesCounts DEF Counts
  <2> QED
    BY <1>2, <1>4, <2>2, <2>7
<1>11. CASE ReleaseSlot(s)
  <2>1. PICK p \in {"late", "gone"} : Goes(s, p)
    BY <1>11 DEF ReleaseSlot
  <2>2. /\ at[s] \in {"completed", "failed"}
        /\ UNCHANGED <<total_requests, completed_requests, failed_requests>>
    BY <1>11 DEF ReleaseSlot, counters
  <2>3. (s \in permits /\ PermitRelease(s)) \/ (s \notin permits /\ UNCHANGED limiterVars)
    BY <1>11 DEF ReleaseSlot
  <2>4. LimiterInv' /\ ~closed'
    BY <1>1, <1>4, <2>3, ReleaseKeepsCounts DEF PermitRelease
  <2>5. permits' = permits \ {s} /\ UNCHANGED queued_requests
    BY <2>3 DEF PermitRelease, limiterVars
  <2>6. /\ p \in Places /\ p \in Ended /\ p # "new" /\ p # "queued"
        /\ at[s] \in Ended /\ at[s] # "new" /\ at[s] # "queued"
    BY <2>2 DEF Places, Ended
  <2>7. permits' \subseteq In(at', {"active", "completed", "failed"})
    BY <1>1, <2>1, <2>5, <2>6, GoesPermits
  <2>8. Counts'
    BY <1>1, <1>3, <2>1, <2>2, <2>5, <2>6, <2>7, GoesCounts DEF Counts
  <2> QED
    BY <1>2, <2>2, <2>4, <2>8
<1> QED
  BY <1>5, <1>6, <1>7, <1>8, <1>9, <1>10, <1>11 DEF SessionStep

-----------------------------------------------------------------------------
(***************************************************************************)
(* The window                                                              *)
(***************************************************************************)

(* AddSample: what a window that is full or not holds afterwards.          *)
LEMMA AddedSample ==
  ASSUME samples \in Seq(Ttft), Len(samples) <= WindowCapacity, NEW v \in Ttft, AddSample(v)
  PROVE  /\ samples' \in Seq(Ttft)
         /\ Len(samples') = IF Len(samples) = WindowCapacity THEN WindowCapacity
                                                             ELSE Len(samples) + 1
         /\ samples'[Len(samples')] = v
         /\ \A i \in 1..Len(samples) :
              IF Len(samples) = WindowCapacity
              THEN i > 1 => samples'[i - 1] = samples[i]
              ELSE samples'[i] = samples[i]
<1>1. CASE Len(samples) = WindowCapacity
  <2>1. samples # <<>>
    BY <1>1, WindowAssumption
  <2>2. /\ Tail(samples) \in Seq(Ttft) /\ Len(Tail(samples)) = Len(samples) - 1
        /\ \A i \in 1..(Len(samples) - 1) : Tail(samples)[i] = samples[i + 1]
    BY <2>1
  <2>3. samples' = Append(Tail(samples), v)
    BY <1>1 DEF AddSample
  <2>4. /\ samples' \in Seq(Ttft) /\ Len(samples') = Len(samples)
        /\ samples'[Len(samples)] = v
        /\ \A i \in 1..(Len(samples) - 1) : samples'[i] = samples[i + 1]
    BY <2>2, <2>3
  <2>5. ASSUME NEW i \in 1..Len(samples), i > 1
        PROVE  samples'[i - 1] = samples[i]
    <3>1. i - 1 \in 1..(Len(samples) - 1) /\ (i - 1) + 1 = i
      BY <2>5
    <3> QED
      BY <2>4, <3>1
  <2> QED
    BY <1>1, <2>4, <2>5
<1>2. CASE Len(samples) # WindowCapacity
  <2>1. samples' = Append(samples, v)
    BY <1>2 DEF AddSample
  <2> QED
    BY <1>2, <2>1
<1> QED
  BY <1>1, <1>2

TokenGoes(s, x) == token' = [token EXCEPT ![s] = x]

LEMMA TokenMoves ==
  ASSUME MetricsTypeOK, NEW s \in Sessions, NEW x \in TokenStates, TokenGoes(s, x), NEW P
  PROVE  /\ token[s] \notin P /\ x \in P =>
              Cardinality(In(token', P)) = Cardinality(In(token, P)) + 1
         /\ token[s] \in P /\ x \notin P =>
              Cardinality(In(token', P)) = Cardinality(In(token, P)) - 1
         /\ (token[s] \in P <=> x \in P) => In(token', P) = In(token, P)
<1> DEFINE g == token'
<1>1. g[s] = x /\ \A r \in Sessions \ {s} : g[r] = token[r]
  BY DEF MetricsTypeOK, TokenGoes
<1> HIDE DEF g
<1>2. token[s] \notin P /\ g[s] \in P =>
        Cardinality(In(g, P)) = Cardinality(In(token, P)) + 1
  BY <1>1, MoveOne
<1>3. token[s] \in P /\ g[s] \notin P =>
        Cardinality(In(g, P)) = Cardinality(In(token, P)) - 1
  <2> SUFFICES ASSUME token[s] \in P, g[s] \notin P
               PROVE  Cardinality(In(g, P)) = Cardinality(In(token, P)) - 1
    OBVIOUS
  <2>1. In(g, P) = In(token, P) \ {s} /\ s \in In(token, P)
    BY <1>1 DEF In
  <2> QED
    BY <2>1, InCount, FS_RemoveElement
<1>4. (token[s] \in P <=> g[s] \in P) => In(g, P) = In(token, P)
  BY <1>1, MoveOne
<1> QED
  BY <1>1, <1>2, <1>3, <1>4 DEF g

(* record_ttft, first half: the new last token is on its way.              *)
LEMMA CountTokenKeeps ==
  ASSUME MetricsInv, NEW s \in Sessions, CountToken(s)
  PROVE  Tokens' /\ LastKept'
<1>1. MetricsTypeOK /\ Tokens
  BY DEF MetricsInv
<1>2. /\ token[s] = "none" /\ token' = [token EXCEPT ![s] = "counted"] /\ Begins(s)
      /\ first_token_events' = first_token_events + 1 /\ samples' = samples
      /\ ttft'[s] = last_ttft'
  BY <1>1 DEF CountToken, MetricsTypeOK
<1>3. /\ Cardinality(In(token', {"counted", "sampled"}))
           = Cardinality(In(token, {"counted", "sampled"})) + 1
      /\ Cardinality(In(token', {"counted"})) = Cardinality(In(token, {"counted"})) + 1
      /\ In(token', {"sampled"}) = In(token, {"sampled"})
  BY <1>1, <1>2, TokenMoves DEF TokenStates, TokenGoes
<1>4. Cardinality(In(token, {"counted"})) + 1 <= Workers
  <2> DEFINE H == {r \in Sessions : InHandler(r)}
             x == IF Reading THEN 1 ELSE 0
  <2>1. In(token, {"counted"}) \subseteq H /\ H \subseteq Sessions
    BY DEF In, InHandler
  <2>2. IsFiniteSet(H) /\ Cardinality(H) \in Nat
    BY <2>1, LimiterAssumption, FS_Subset, FS_CardinalityType
  <2>3. Cardinality(In(token, {"counted"})) <= Cardinality(H)
    BY <2>1, <2>2, FS_Subset
  <2>4. Cardinality(H) + x < Workers /\ x \in {0, 1}
    BY <1>2 DEF Begins, WorkerFree
  <2>5. Cardinality(In(token, {"counted"})) \in Nat
    BY InCount
  <2> HIDE DEF H, x
  <2> QED
    BY <2>2, <2>3, <2>4, <2>5, MetricsAssumption
<1>5. Tokens'
  BY <1>1, <1>2, <1>3, <1>4 DEF Tokens
<1>6. LastKept'
  BY <1>1, <1>2 DEF LastKept, MetricsTypeOK
<1> QED
  BY <1>5, <1>6

(* record_ttft, second half: the sample reaches the window, and pushes the *)
(* last one a place on at most.                                            *)
LEMMA SampleTokenKeeps ==
  ASSUME MetricsInv, NEW s \in Sessions, SampleToken(s)
  PROVE  Tokens' /\ (Workers <= WindowCapacity => LastKept')
<1>1. MetricsTypeOK /\ Tokens /\ (Workers <= WindowCapacity => LastKept)
  BY DEF MetricsInv
<1>2. /\ token[s] = "counted" /\ token' = [token EXCEPT ![s] = "sampled"]
      /\ UNCHANGED <<ttft, last_ttft, first_token_events>>
      /\ AddSample(ttft[s]) /\ ttft[s] \in Ttft
  BY <1>1 DEF SampleToken, MetricsTypeOK
<1> DEFINE c == Cardinality(In(token, {"counted"}))
           k == Cardinality(In(token, {"sampled"}))
           n == Len(samples)
<1>3. /\ In(token', {"counted", "sampled"}) = In(token, {"counted", "sampled"})
      /\ Cardinality(In(token', {"counted"})) = c - 1
      /\ Cardinality(In(token', {"sampled"})) = k + 1
  BY <1>1, <1>2, TokenMoves DEF TokenStates, TokenGoes
<1>4. c \in Nat /\ k \in Nat /\ n \in Nat /\ c # 0
  <2>1. s \in In(token, {"counted"})
    BY <1>2 DEF In
  <2>2. c # 0
    BY <2>1, InCount, FS_EmptySet
  <2> QED
    BY <1>1, <2>2, InCount DEF MetricsTypeOK
<1>5. n = (IF k < WindowCapacity THEN k ELSE WindowCapacity) /\ c <= Workers
  BY <1>1 DEF Tokens
<1>6. /\ samples' \in Seq(Ttft)
      /\ Len(samples') = IF n = WindowCapacity THEN WindowCapacity ELSE n + 1
      /\ samples'[Len(samples')] = ttft[s]
      /\ \A i \in 1..n : IF n = WindowCapacity THEN i > 1 => samples'[i - 1] = samples[i]
                                               ELSE samples'[i] = samples[i]
  <2>1. n <= WindowCapacity
    BY <1>4, <1>5, WindowAssumption
  <2> QED
    BY <1>1, <1>2, <2>1, AddedSample DEF MetricsTypeOK
<1> HIDE DEF c, k, n
<1>7. Tokens'
  <2>1. Len(samples') = IF k + 1 < WindowCapacity THEN k + 1 ELSE WindowCapacity
    BY <1>4, <1>5, <1>6, WindowAssumption
  <2>2. c - 1 <= Workers
    BY <1>4, <1>5, MetricsAssumption
  <2>3. first_token_events' = Cardinality(In(token', {"counted", "sampled"}))
    BY <1>1, <1>2, <1>3 DEF Tokens
  <2> QED
    BY <1>3, <2>1, <2>2, <2>3 DEF Tokens
<1>8. ASSUME Workers <= WindowCapacity
      PROVE  LastKept'
  <2> SUFFICES ASSUME first_token_events > 0
               PROVE  \/ \E r \in Sessions : token'[r] = "counted" /\ ttft'[r] = last_ttft'
                      \/ \E i \in 1..Len(samples') :
                           samples'[i] = last_ttft' /\ (Len(samples') - i) + (c - 1) < Workers
    BY <1>2, <1>3 DEF LastKept
  <2>1. Len(samples') \in Nat \ {0}
    BY <1>4, <1>6, WindowAssumption
  <2>2. CASE \E r \in Sessions : token[r] = "counted" /\ ttft[r] = last_ttft
    <3>1. PICK r \in Sessions : token[r] = "counted" /\ ttft[r] = last_ttft
      BY <2>2
    <3>2. CASE r # s
      <4>1. token'[r] = "counted"
        BY <1>1, <1>2, <3>1, <3>2 DEF MetricsTypeOK
      <4> QED
        BY <1>2, <3>1, <4>1
    <3>3. CASE r = s
      <4> DEFINE i == Len(samples')
      <4>1. i \in 1..Len(samples') /\ samples'[i] = last_ttft'
        BY <1>2, <1>6, <2>1, <3>1, <3>3
      <4>2. (Len(samples') - i) + (c - 1) < Workers
        BY <1>4, <1>5, <2>1, MetricsAssumption
      <4> QED
        BY <4>1, <4>2
    <3> QED
      BY <3>2, <3>3
  <2>3. CASE \E i \in 1..n : samples[i] = last_ttft /\ (n - i) + c < Workers
    <3>1. PICK i \in 1..n : samples[i] = last_ttft /\ (n - i) + c < Workers
      BY <2>3
    <3>2. CASE n = WindowCapacity
      <4>1. i > 1
        BY <1>4, <1>8, <3>1, <3>2, WindowAssumption, MetricsAssumption
      <4>2. /\ i - 1 \in 1..Len(samples') /\ samples'[i - 1] = last_ttft'
            /\ (Len(samples') - (i - 1)) + (c - 1) < Workers
        BY <1>2, <1>4, <1>6, <3>1, <3>2, <4>1, WindowAssumption, MetricsAssumption
      <4> QED
        BY <4>2
    <3>3. CASE n # WindowCapacity
      <4>1. /\ i \in 1..Len(samples') /\ samples'[i] = last_ttft'
            /\ (Len(samples') - i) + (c - 1) < Workers
        BY <1>2, <1>4, <1>6, <3>1, <3>3, MetricsAssumption
      <4> QED
        BY <4>1
    <3> QED
      BY <3>2, <3>3
  <2> QED
    BY <1>1, <1>8, <2>2, <2>3 DEF LastKept, c, n
<1> QED
  BY <1>7, <1>8

LEMMA TokensUntouched ==
  ASSUME Tokens, Workers <= WindowCapacity => LastKept, UNCHANGED tokenVars
  PROVE  Tokens' /\ (Workers <= WindowCapacity => LastKept')
<1>1. UNCHANGED <<token, ttft, first_token_events, last_ttft, samples>>
  BY DEF tokenVars
<1> QED
  BY <1>1 DEF Tokens, LastKept

-----------------------------------------------------------------------------
(***************************************************************************)
(* The sessions' steps                                                     *)
(***************************************************************************)
LEMMA SessionTypes ==
  ASSUME MetricsInv, NEW s \in Sessions, SessionStep(s)
  PROVE  MetricsTypeOK'
<1>1. MetricsTypeOK /\ Tokens
  BY DEF MetricsInv
<1>2. UNCHANGED <<mutex, report>>
  BY DEF SessionStep, RecordStarted, AcquireSlot, PromoteSession, QueueTimeout, CountToken,
         SampleToken, RecordCompleted, RecordFailed, ReleaseSlot
<1>3. at' \in [Sessions -> Places]
  <2>1. CASE CountToken(s) \/ SampleToken(s)
    BY <1>1, <2>1 DEF CountToken, SampleToken, MetricsTypeOK
  <2>2. CASE ~(CountToken(s) \/ SampleToken(s))
    <3>1. PICK p \in Places : Goes(s, p)
      BY <2>2 DEF SessionStep, RecordStarted, AcquireSlot, PromoteSession, QueueTimeout,
                  RecordCompleted, RecordFailed, ReleaseSlot, Place, Places
    <3> QED
      BY <1>1, <3>1, GoesMoves
  <2> QED
    BY <2>1, <2>2
<1>4. total_requests' \in Nat /\ completed_requests' \in Nat /\ failed_requests' \in Nat
  <2>1. total_requests \in Nat /\ completed_requests \in Nat /\ failed_requests \in Nat
    BY <1>1 DEF MetricsTypeOK
  <2>2. CASE RecordStarted(s) \/ RecordCompleted(s) \/ RecordFailed(s)
    BY <2>1, <2>2 DEF RecordStarted, RecordCompleted, RecordFailed
  <2>3. CASE ~(RecordStarted(s) \/ RecordCompleted(s) \/ RecordFailed(s))
    <3>1. UNCHANGED counters
      BY <2>3 DEF SessionStep, AcquireSlot, PromoteSession, QueueTimeout, CountToken,
                  SampleToken, ReleaseSlot
    <3> QED
      BY <2>1, <3>1 DEF counters
  <2> QED
    BY <2>2, <2>3
<1>5. /\ token' \in [Sessions -> TokenStates] /\ ttft' \in [Sessions -> Ttft]
      /\ first_token_events' \in Nat /\ last_ttft' \in Ttft /\ samples' \in Seq(Ttft)
  <2>1. CASE CountToken(s)
    BY <1>1, <2>1 DEF CountToken, MetricsTypeOK, TokenStates, Ttft
  <2>2. CASE SampleToken(s)
    <3>1. /\ token' = [token EXCEPT ![s] = "sampled"] /\ AddSample(ttft[s])
          /\ UNCHANGED <<ttft, first_token_events, last_ttft>>
      BY <2>2 DEF SampleToken
    <3>2. ttft[s] \in Ttft /\ samples \in Seq(Ttft)
      BY <1>1 DEF MetricsTypeOK
    <3>3. Len(samples) <= WindowCapacity
      <4>1. Cardinality(In(token, {"sampled"})) \in Nat
        BY InCount
      <4> QED
        BY <1>1, <4>1, WindowAssumption DEF Tokens
    <3>4. samples' \in Seq(Ttft)
      BY <3>1, <3>2, <3>3, AddedSample
    <3>5. token' \in [Sessions -> TokenStates]
      BY <1>1, <3>1 DEF MetricsTypeOK, TokenStates
    <3> QED
      BY <1>1, <3>1, <3>4, <3>5 DEF MetricsTypeOK
  <2>3. CASE ~(CountToken(s) \/ SampleToken(s))
    <3>1. UNCHANGED <<token, ttft, first_token_events, last_ttft, samples>>
      BY <2>3 DEF SessionStep, RecordStarted, AcquireSlot, PromoteSession, QueueTimeout,
                  RecordCompleted, RecordFailed, ReleaseSlot, tokenVars
    <3> QED
      BY <1>1, <3>1 DEF MetricsTypeOK
  <2> QED
    BY <2>1, <2>2, <2>3
<1> QED
  BY <1>1, <1>2, <1>3, <1>4, <1>5
     DEF MetricsTypeOK, Places, TokenStates, Ttft, Report

(* No session disturbs a report that is being made: the total only grows,  *)
(* and mutex_ keeps new tokens out while p95 is computed.                  *)
LEMMA SessionKeepsReport ==
  ASSUME MetricsInv, NEW s \in Sessions, SessionStep(s)
  PROVE  Partial'
<1>1. MetricsTypeOK /\ Partial
  BY DEF MetricsInv
<1>2. UNCHANGED <<mutex, report>>
  BY DEF SessionStep, RecordStarted, AcquireSlot, PromoteSession, QueueTimeout, CountToken,
         SampleToken, RecordCompleted, RecordFailed, ReleaseSlot
<1>3. /\ total_requests' >= total_requests /\ total_requests \in Nat
      /\ total_requests' \in Nat
      /\ report.inflight \in Nat /\ report.queued \in Nat
  BY <1>1, SessionCounts, SessionTypes DEF MetricsTypeOK, Report
<1>4. mutex => first_token_events' = first_token_events
  BY DEF SessionStep, RecordStarted, AcquireSlot, PromoteSession, QueueTimeout, CountToken,
         SampleToken, RecordCompleted, RecordFailed, ReleaseSlot, tokenVars
<1>5. report.step = "limiter" => report.inflight + report.queued <= total_requests'
  BY <1>1, <1>3 DEF Partial
<1> QED
  BY <1>1, <1>2, <1>4, <1>5 DEF Partial

LEMMA SessionKeeps ==
  ASSUME MetricsInv, NEW s \in Sessions, SessionStep(s)
  PROVE  MetricsInv'
<1>1. Tokens' /\ (Workers <= WindowCapacity => LastKept')
  <2>1. CASE CountToken(s)
    BY <2>1, CountTokenKeeps
  <2>2. CASE SampleToken(s)
    BY <2>2, SampleTokenKeeps
  <2>3. CASE ~(CountToken(s) \/ SampleToken(s))
    <3>1. UNCHANGED tokenVars
      BY <2>3 DEF SessionStep, RecordStarted, AcquireSlot, PromoteSession, QueueTimeout,
                  RecordCompleted, RecordFailed, ReleaseSlot
    <3> QED
      BY <3>1, TokensUntouched DEF MetricsInv
  <2> QED
    BY <2>1, <2>2, <2>3
<1> QED
  BY <1>1, SessionCounts, SessionTypes, SessionKeepsReport DEF MetricsInv

-----------------------------------------------------------------------------
(***************************************************************************)
(* The reader                                                              *)
(***************************************************************************)

(* What the limiter has in flight and queued was counted before.           *)
LEMMA WorkIsCounted ==
  ASSUME MetricsInv
  PROVE  /\ current_inflight + queued_requests <= total_requests
         /\ completed_requests + failed_requests <= total_requests
         /\ Len(samples) <= first_token_events
<1>1. MetricsTypeOK /\ Counts /\ Tokens /\ LimiterInv
  BY DEF MetricsInv
<1> DEFINE held   == Cardinality(In(at, {"active", "completed", "failed"}))
           queue  == Cardinality(In(at, {"queued"}))
           begun  == Cardinality(In(at, Places \ {"new"}))
           ended  == Cardinality(In(at, Ended))
           heard  == Cardinality(In(token, {"counted", "sampled"}))
           stored == Cardinality(In(token, {"sampled"}))
<1>2. /\ held \in Nat /\ queue \in Nat /\ begun \in Nat /\ ended \in Nat
      /\ heard \in Nat /\ stored \in Nat
  BY InCount
<1>3. current_inflight <= held /\ current_inflight \in Nat
  <2>1. Cardinality(permits) <= held
    BY <1>1, InCount, FS_Subset DEF Counts
  <2> QED
    BY <1>1, <2>1 DEF LimiterInv, SlotsExact, LimiterTypeOK
<1>4. held + queue <= begun
  <2> DEFINE A == {"active", "completed", "failed"} \union {"queued"}
  <2>1. Cardinality(In(at, A)) = held + queue
    BY InUnion
  <2>2. A \subseteq Places \ {"new"}
    BY DEF Places
  <2>3. Cardinality(In(at, A)) <= begun
    BY <2>2, InSubset
  <2> QED
    BY <2>1, <2>3
<1>5. ended <= begun
  <2>1. Ended \subseteq Places \ {"new"}
    BY DEF Ended, Places
  <2> QED
    BY <2>1, InSubset
<1>6. stored <= heard
  <2>1. {"sampled"} \subseteq {"counted", "sampled"}
    OBVIOUS
  <2> QED
    BY <2>1, InSubset
<1>7. /\ total_requests = begun /\ completed_requests + failed_requests = ended
      /\ queued_requests = queue /\ first_token_events = heard
      /\ Len(samples) = IF stored < WindowCapacity THEN stored ELSE WindowCapacity
  BY <1>1 DEF Counts, Tokens
<1> HIDE DEF held, queue, begun, ended, heard, stored
<1>8. current_inflight + queued_requests <= total_requests
  BY <1>2, <1>3, <1>4, <1>7
<1>9. Len(samples) <= first_token_events
  BY <1>2, <1>6, <1>7, WindowAssumption
<1> QED
  BY <1>5, <1>7, <1>8, <1>9

LEMMA ReaderFrame ==
  ASSUME MetricsInv, UNCHANGED <<limiterVars, at, tokenVars, counters>>
  PROVE  /\ LimiterInv' /\ ~closed' /\ Counts' /\ Tokens'
         /\ Workers <= WindowCapacity => LastKept'
         /\ mutex' \in BOOLEAN /\ report' \in Report => MetricsTypeOK'
<1>1. /\ LimiterInv /\ ~closed /\ MetricsTypeOK /\ Counts /\ Tokens
      /\ Workers <= WindowCapacity => LastKept
  BY DEF MetricsInv
<1>2. UNCHANGED <<current_inflight, queued_requests, closed, permits, at, token, ttft,
                  first_token_events, last_ttft, samples, total_requests,
                  completed_requests, failed_requests>>
  BY DEF limiterVars, tokenVars, counters
<1>3. LimiterInv' /\ ~closed'
  BY <1>1, <1>2 DEF LimiterInv, LimiterTypeOK, SlotsExact, QueueBounded, ClosedEmpty
<1>4. Counts'
  BY <1>1, <1>2 DEF Counts, Places, Ended
<1>5. Tokens' /\ (Workers <= WindowCapacity => LastKept')
  BY <1>1, TokensUntouched
<1>6. mutex' \in BOOLEAN /\ report' \in Report => MetricsTypeOK'
  BY <1>1, <1>2 DEF MetricsTypeOK, Places, TokenStates, Ttft, Report
<1> QED
  BY <1>3, <1>4, <1>5, <1>6

LEMMA ReadLimiterKeeps ==
  ASSUME MetricsInv, ReadLimiter
  PROVE  MetricsInv'
<1>1. MetricsTypeOK /\ Partial /\ LimiterInv
  BY DEF MetricsInv
<1>2. UNCHANGED <<limiterVars, at, tokenVars, counters, mutex>> /\ ~Reading
  BY DEF ReadLimiter, Reads
<1>3. report' = [step |-> "limiter", inflight |-> current_inflight,
                 queued |-> queued_requests, total |-> 0, completed |-> 0, failed |-> 0,
                 tokens |-> 0, window |-> 0]
  BY DEF ReadLimiter, Reads, NoReport
<1>4. ~mutex
  BY <1>1, <1>2 DEF Partial, Reading
<1>5. report' \in Report
  BY <1>1, <1>3 DEF Report, LimiterInv, LimiterTypeOK
<1>6. total_requests' = total_requests
  BY <1>2 DEF counters
<1>7. Partial'
  BY <1>2, <1>3, <1>4, <1>6, WorkIsCounted DEF Partial
<1> QED
  BY <1>1, <1>2, <1>5, <1>7, ReaderFrame DEF MetricsInv, MetricsTypeOK

LEMMA ReadCountersKeeps ==
  ASSUME MetricsInv, ReadCounters
  PROVE  MetricsInv'
<1>1. MetricsTypeOK /\ Partial
  BY DEF MetricsInv
<1>2. /\ UNCHANGED <<limiterVars, at, tokenVars, counters>> /\ mutex' = TRUE
      /\ report.step = "limiter"
  BY DEF ReadCounters, Reads
<1> DEFINE r1 == [report EXCEPT !.step = "counters", !.total = total_requests,
                                !.completed = completed_requests]
           r2 == [r1 EXCEPT !.failed = failed_requests, !.tokens = first_token_events]
<1>3. /\ r1 \in Report /\ r1.step = "counters" /\ r1.total = total_requests
      /\ r1.completed = completed_requests
      /\ r1.inflight = report.inflight /\ r1.queued = report.queued
  BY <1>1 DEF MetricsTypeOK, Report
<1>4. report' = r2
  BY <1>1 DEF ReadCounters, Reads, MetricsTypeOK, Report
<1> HIDE DEF r1
<1>5. /\ r2 \in Report /\ r2.step = r1.step /\ r2.total = r1.total
      /\ r2.completed = r1.completed /\ r2.failed = failed_requests
      /\ r2.tokens = first_token_events
      /\ r2.inflight = r1.inflight /\ r2.queued = r1.queued
  BY <1>1, <1>3 DEF MetricsTypeOK, Report
<1> HIDE DEF r2
<1>6. UNCHANGED <<total_requests, first_token_events>>
  BY <1>2 DEF counters, tokenVars
<1>7. /\ report.inflight + report.queued <= total_requests
      /\ completed_requests + failed_requests <= total_requests
  BY <1>1, <1>2, WorkIsCounted DEF Partial
<1>8. Partial'
  BY <1>2, <1>3, <1>4, <1>5, <1>6, <1>7 DEF Partial
<1> QED
  BY <1>2, <1>4, <1>5, <1>8, ReaderFrame DEF MetricsInv

LEMMA ReadWindowKeeps ==
  ASSUME MetricsInv, ReadWindow
  PROVE  MetricsInv'
<1>1. MetricsTypeOK /\ Partial
  BY DEF MetricsInv
<1>2. /\ UNCHANGED <<limiterVars, at, tokenVars, counters>> /\ mutex' = FALSE
      /\ report.step = "counters"
      /\ report' = [report EXCEPT !.step = "sent", !.window = Len(samples)]
  BY DEF ReadWindow, Reads
<1>3. Len(samples) \in Nat
  BY <1>1 DEF MetricsTypeOK
<1>4. /\ report' \in Report /\ report'.step = "sent" /\ report'.window = Len(samples)
      /\ report'.inflight = report.inflight /\ report'.queued = report.queued
      /\ report'.total = report.total /\ report'.tokens = report.tokens
      /\ report'.completed = report.completed /\ report'.failed = report.failed
  BY <1>1, <1>2, <1>3 DEF MetricsTypeOK, Report
<1>5. Len(samples) <= report.tokens
  BY <1>1, <1>2, WorkIsCounted DEF Partial
<1>6. Partial'
  BY <1>1, <1>2, <1>4, <1>5 DEF Partial
<1> QED
  BY <1>2, <1>4, <1>6, ReaderFrame DEF MetricsInv

-----------------------------------------------------------------------------
LEMMA InitMetrics == MetricsInit => MetricsInv
<1> SUFFICES ASSUME MetricsInit PROVE MetricsInv
  OBVIOUS
<1>1. LimiterInv /\ ~closed
  BY InitCounts DEF MetricsInit, LimiterInit
<1>2. MetricsTypeOK
  <2>1. /\ at \in [Sessions -> Places] /\ token \in [Sessions -> TokenStates]
        /\ ttft \in [Sessions -> Ttft] /\ last_ttft \in Ttft
    BY DEF MetricsInit, Places, TokenStates, Ttft
  <2>2. samples \in Seq(Ttft)
    BY DEF MetricsInit, WindowInit
  <2>3. report \in Report
    BY DEF MetricsInit, NoReport, Report
  <2> QED
    BY <2>1, <2>2, <2>3 DEF MetricsInit, MetricsTypeOK
<1>3. /\ In(at, Places \ {"new"}) = {} /\ In(at, Ended) = {} /\ In(at, {"queued"}) = {}
      /\ In(token, {"counted", "sampled"}) = {} /\ In(token, {"counted"}) = {}
      /\ In(token, {"sampled"}) = {}
  BY DEF MetricsInit, In, Ended
<1>4. Cardinality({}) = 0
  BY FS_EmptySet
<1>5. Counts
  BY <1>3, <1>4 DEF MetricsInit, LimiterInit, Counts
<1>6. Tokens
  <2>1. first_token_events = 0 /\ Len(samples) = 0
    BY DEF MetricsInit, WindowInit
  <2>2. /\ Cardinality(In(token, {"counted", "sampled"})) = 0
        /\ Cardinality(In(token, {"counted"})) = 0 /\ Cardinality(In(token, {"sampled"})) = 0
    BY <1>3, <1>4, Zenon
  <2>3. 0 < WindowCapacity /\ 0 <= Workers
    BY WindowAssumption, MetricsAssumption
  <2> QED
    BY <2>1, <2>2, <2>3, Zenon DEF Tokens
<1>7. Partial /\ LastKept
  BY DEF MetricsInit, NoReport, Partial, LastKept
<1> QED
  BY <1>1, <1>2, <1>5, <1>6, <1>7 DEF MetricsInv

LEMMA NextMetrics == MetricsInv /\ [MetricsNext]_metricsVars => MetricsInv'
<1> SUFFICES ASSUME MetricsInv, [MetricsNext]_metricsVars PROVE MetricsInv'
  OBVIOUS
<1>1. CASE UNCHANGED metricsVars
  <2>1. UNCHANGED <<limiterVars, at, tokenVars, counters, mutex, report>>
    BY <1>1 DEF metricsVars
  <2>2. UNCHANGED <<total_requests, first_token_events>>
    BY <2>1 DEF counters, tokenVars
  <2>3. Partial'
    BY <2>1, <2>2 DEF MetricsInv, Partial
  <2>4. mutex' \in BOOLEAN /\ report' \in Report
    BY <2>1 DEF MetricsInv, MetricsTypeOK
  <2> QED
    BY <2>1, <2>3, <2>4, ReaderFrame DEF MetricsInv
<1> QED
  BY <1>1, SessionKeeps, ReadLimiterKeeps, ReadCountersKeeps, ReadWindowKeeps
     DEF MetricsNext

-----------------------------------------------------------------------------
(***************************************************************************)
(* A report of /health shows no request in flight, queued or ended that    *)
(* its total does not count, although send_health reads the limiter and    *)
(* the metrics at different times and sessions go on in between.           *)
(***************************************************************************)
THEOREM ReportCorrect == MetricsSpec => []ReportConsistent
<1>1. MetricsInv => ReportConsistent
  BY DEF MetricsInv, Partial, ReportConsistent
<1> QED
  BY <1>1, InitMetrics, NextMetrics, PTL DEF MetricsSpec

(***************************************************************************)
(* The window that snapshot() takes p95 of has no sample that the          *)
(* first_token_events of the same snapshot does not count.                 *)
(***************************************************************************)
THEOREM WindowCountedCorrect == MetricsSpec => []WindowCounted
<1>1. MetricsInv => WindowCounted
  BY DEF MetricsInv, Partial, WindowCounted
<1> QED
  BY <1>1, InitMetrics, NextMetrics, PTL DEF MetricsSpec

(***************************************************************************)
(* When no record_ttft is under way the window holds as many samples as it *)
(* can and, if it is at least as large as the number of threads, the one   *)
(* reported as the last: no order in which concurrent calls reach the      *)
(* window pushes it out.                                                   *)
(***************************************************************************)
THEOREM WindowSettledCorrect ==
  ASSUME Workers <= WindowCapacity PROVE MetricsSpec => []WindowSettled
<1>1. MetricsInv => WindowSettled
  <2> SUFFICES ASSUME MetricsInv, \A s \in Sessions : token[s] # "counted"
               PROVE  /\ Len(samples) = IF first_token_events < WindowCapacity
                                        THEN first_token_events ELSE WindowCapacity
                      /\ first_token_events > 0 =>
                           \E i \in DOMAIN samples : samples[i] = last_ttft
    BY DEF WindowSettled
  <2>1. MetricsTypeOK /\ Tokens /\ LastKept
    BY DEF MetricsInv
  <2>2. In(token, {"counted", "sampled"}) = In(token, {"sampled"})
    BY DEF In
  <2>3. first_token_events = Cardinality(In(token, {"sampled"}))
    BY <2>1, <2>2 DEF Tokens
  <2>4. DOMAIN samples = 1..Len(samples)
    BY <2>1 DEF MetricsTypeOK
  <2> QED
    BY <2>1, <2>3, <2>4 DEF Tokens, LastKept
<1> QED
  BY <1>1, InitMetrics, NextMetrics, PTL DEF MetricsSpec

-----------------------------------------------------------------------------
(***************************************************************************)
(* Percentiles                                                             *)
(***************************************************************************)
UpToPlace(values, j) == {i \in 1..Len(values) : NotAfter(values, i, j)}

LEMMA UpToPlaceFacts ==
  ASSUME NEW values \in Seq(Int), NEW j \in 1..Len(values)
  PROVE  /\ PlaceOf(values, j) = Cardinality(UpToPlace(values, j))
         /\ PlaceOf(values, j) \in 1..Len(values)
         /\ IsFiniteSet(UpToPlace(values, j)) /\ j \in UpToPlace(values, j)
<1>1. DOMAIN values = 1..Len(values) /\ Len(values) \in Nat
  OBVIOUS
<1>2. PlaceOf(values, j) = Cardinality(UpToPlace(values, j))
  BY <1>1 DEF PlaceOf, UpToPlace
<1>3. IsFiniteSet(1..Len(values)) /\ Cardinality(1..Len(values)) = Len(values)
  <2>1. 1 \in Int /\ Len(values) \in Int
    OBVIOUS
  <2>2. /\ IsFiniteSet(1..Len(values))
        /\ Cardinality(1..Len(values)) = IF 1 > Len(values) THEN 0 ELSE Len(values) - 1 + 1
    BY <2>1, FS_Interval
  <2> QED
    BY <1>1, <2>2
<1>4. UpToPlace(values, j) \subseteq 1..Len(values)
  BY DEF UpToPlace
<1>5. /\ IsFiniteSet(UpToPlace(values, j))
      /\ Cardinality(UpToPlace(values, j)) <= Len(values)
  BY <1>3, <1>4, FS_Subset
<1>6. j \in UpToPlace(values, j)
  BY DEF UpToPlace, NotAfter
<1>7. Cardinality(UpToPlace(values, j)) \in Nat /\ Cardinality(UpToPlace(values, j)) # 0
  BY <1>5, <1>6, FS_CardinalityType, FS_EmptySet
<1> QED
  BY <1>1, <1>2, <1>5, <1>6, <1>7

(* Two samples never have the same place.                                  *)
LEMMA PlacesDiffer ==
  ASSUME NEW values \in Seq(Int), NEW i \in 1..Len(values), NEW j \in 1..Len(values),
         i # j, NotAfter(values, i, j)
  PROVE  PlaceOf(values, i) < PlaceOf(values, j)
<1>1. \A k \in 1..Len(values) : values[k] \in Int
  OBVIOUS
<1>2. UpToPlace(values, i) \subseteq UpToPlace(values, j)
  BY <1>1 DEF UpToPlace, NotAfter
<1>3. j \notin UpToPlace(values, i)
  BY <1>1 DEF UpToPlace, NotAfter
<1>4. /\ PlaceOf(values, i) = Cardinality(UpToPlace(values, i))
      /\ PlaceOf(values, j) = Cardinality(UpToPlace(values, j))
      /\ IsFiniteSet(UpToPlace(values, j)) /\ j \in UpToPlace(values, j)
      /\ PlaceOf(values, i) \in Int /\ PlaceOf(values, j) \in Int
  BY UpToPlaceFacts
<1>5. /\ Cardinality(UpToPlace(values, i)) <= Cardinality(UpToPlace(values, j))
      /\ Cardinality(UpToPlace(values, i)) = Cardinality(UpToPlace(values, j))
           => UpToPlace(values, i) = UpToPlace(values, j)
  BY <1>2, <1>4, FS_Subset
<1> QED
  BY <1>3, <1>4, <1>5

(* Every place from the first to the last is that of a sample.             *)
LEMMA PlaceTaken ==
  ASSUME NEW values \in Seq(Int), NEW k \in 1..Len(values)
  PROVE  \E j \in 1..Len(values) : PlaceOf(values, j) = k
<1> DEFINE D == 1..Len(values)
           place == [j \in D |-> PlaceOf(values, j)]
<1>1. IsFiniteSet(D)
  BY FS_Interval
<1>2. place \in [D -> D]
  BY UpToPlaceFacts
<1>3. ASSUME NEW i \in D, NEW j \in D, place[i] = place[j], i # j
      PROVE  FALSE
  <2>1. NotAfter(values, i, j) \/ NotAfter(values, j, i)
    <3>1. values[i] \in Int /\ values[j] \in Int
      OBVIOUS
    <3> QED
      BY <3>1 DEF NotAfter
  <2>2. PlaceOf(values, i) = PlaceOf(values, j)
    BY <1>3
  <2>3. PlaceOf(values, i) \in Int /\ PlaceOf(values, j) \in Int
    BY UpToPlaceFacts
  <2> QED
    BY <1>3, <2>1, <2>2, <2>3, PlacesDiffer
<1> HIDE DEF D, place
<1>4. place \in Injection(D, D)
  BY <1>2, <1>3 DEF Injection, IsInjective
<1>5. place \in Surjection(D, D)
  BY <1>1, <1>4, FS_Injection
<1>6. \E j \in D : place[j] = k
  BY <1>5 DEF Surjection, D
<1> QED
  BY <1>6 DEF place, D

(* The sample in place k of the sorted window: at least k samples are not  *)
(* above it, and less than k are not above a smaller one.                  *)
LEMMA SortedPlace ==
  ASSUME NEW values \in Seq(Int), NEW k \in 1..Len(values)
  PROVE  LET v == Sorted(values)[k]
         IN  /\ \E i \in DOMAIN values : values[i] = v
             /\ NotAbove(values, v) \in Nat /\ NotAbove(values, v) >= k
             /\ \A i \in DOMAIN values : values[i] < v =>
                  NotAbove(values, values[i]) \in 1..(k - 1)
<1> DEFINE j == CHOOSE i \in 1..Len(values) : PlaceOf(values, i) = k
           v == Sorted(values)[k]
<1>1. DOMAIN values = 1..Len(values) /\ \A i \in 1..Len(values) : values[i] \in Int
  OBVIOUS
<1>2. j \in 1..Len(values) /\ PlaceOf(values, j) = k
  BY PlaceTaken
<1>3. v = values[j]
  BY <1>1 DEF Sorted
<1> HIDE DEF j, v
<1>4. /\ Cardinality(UpToPlace(values, j)) = k
      /\ IsFiniteSet(UpToPlace(values, j)) /\ j \in UpToPlace(values, j)
  BY <1>2, UpToPlaceFacts
<1> DEFINE Low(u) == {i \in 1..Len(values) : values[i] <= u}
<1>5. \A u : NotAbove(values, u) = Cardinality(Low(u))
  BY <1>1 DEF NotAbove
<1>6. IsFiniteSet(1..Len(values))
  BY FS_Interval
<1>7. \A u : IsFiniteSet(Low(u)) /\ Cardinality(Low(u)) \in Nat
  <2> TAKE u
  <2>1. Low(u) \subseteq 1..Len(values)
    OBVIOUS
  <2> HIDE DEF Low
  <2>2. IsFiniteSet(Low(u))
    BY <1>6, <2>1, FS_Subset
  <2> QED
    BY <2>2, FS_CardinalityType
<1>8. NotAbove(values, v) >= k
  <2>1. UpToPlace(values, j) \subseteq Low(v)
    BY <1>1, <1>2, <1>3 DEF UpToPlace, NotAfter
  <2>2. Cardinality(UpToPlace(values, j)) <= Cardinality(Low(v))
    <3> HIDE DEF Low
    <3> QED
      BY <1>7, <2>1, FS_Subset
  <2> QED
    BY <1>4, <1>5, <1>7, <2>2
<1>9. ASSUME NEW i \in 1..Len(values), values[i] < v
      PROVE  NotAbove(values, values[i]) \in 1..(k - 1)
  <2>1. Low(values[i]) \subseteq UpToPlace(values, j) /\ j \notin Low(values[i])
    BY <1>1, <1>2, <1>3, <1>9 DEF UpToPlace, NotAfter
  <2>2. i \in Low(values[i])
    BY <1>1
  <2> HIDE DEF Low
  <2>3. /\ Cardinality(Low(values[i])) <= Cardinality(UpToPlace(values, j))
        /\ Cardinality(Low(values[i])) = Cardinality(UpToPlace(values, j))
             => Low(values[i]) = UpToPlace(values, j)
    BY <1>4, <2>1, FS_Subset
  <2>4. Cardinality(Low(values[i])) # 0
    BY <1>7, <2>2, FS_EmptySet
  <2>5. Cardinality(Low(values[i])) \in Nat /\ NotAbove(values, values[i]) = Cardinality(Low(values[i]))
    BY <1>5, <1>7
  <2> QED
    BY <1>4, <2>1, <2>3, <2>4, <2>5
<1>10. NotAbove(values, v) \in Nat
  BY <1>5, <1>7
<1>11. \E i \in DOMAIN values : values[i] = v
  BY <1>1, <1>2, <1>3
<1> QED
  BY <1>1, <1>8, <1>9, <1>10, <1>11 DEF v

(* std::ceil of p percent of n, from the first to the last place.          *)
LEMMA RankBounds ==
  ASSUME NEW p \in 0..100, NEW n \in Nat \ {0}
  PROVE  /\ Rank(p, n) \in Int
         /\ p * n \in Nat /\ 100 * Rank(p, n) >= p * n /\ 100 * (Rank(p, n) - 1) < p * n
         /\ p = 0 => Rank(p, n) = 0
         /\ p # 0 => Rank(p, n) \in 1..n
<1> DEFINE x == p * n
           r == Rank(p, n)
<1>1. x \in Nat /\ x <= 100 * n /\ (p = 0 => x = 0) /\ (p # 0 => x >= 1)
  <2>1. x \in Nat
    OBVIOUS
  <2>2. p = 0 => x = 0
    OBVIOUS
  <2>3. p # 0 => x >= 1
    OBVIOUS
  <2>4. x <= 100 * n
    OBVIOUS
  <2> QED
    BY <2>1, <2>2, <2>3, <2>4
<1>2. r = (x + 99) \div 100
  BY DEF Rank
<1> HIDE DEF x, r
<1>3. r \in Int /\ 100 * r <= x + 99 /\ x + 99 < 100 * (r + 1)
  BY <1>1, <1>2
<1>4. 100 * r >= x /\ 100 * (r - 1) < x
  BY <1>1, <1>3
<1>5. (p = 0 => r = 0) /\ (p # 0 => r >= 1 /\ r <= n)
  BY <1>1, <1>3
<1> QED
  BY <1>1, <1>3, <1>4, <1>5 DEF x, r

LEMMA PercentileIsNearestRank ==
  ASSUME NEW values \in Seq(Int), values # <<>>, NEW p \in 0..100
  PROVE  IsNearestRank(values, p)
<1> DEFINE n == Len(values)
           k == IF p = 0 THEN 1 ELSE Rank(p, n)
           v == Percentile(values, p)
<1>1. n \in Nat \ {0}
  OBVIOUS
<1> HIDE DEF n
<1>2. /\ Rank(p, n) \in Int
      /\ p * n \in Nat /\ 100 * Rank(p, n) >= p * n /\ 100 * (Rank(p, n) - 1) < p * n
      /\ p = 0 => Rank(p, n) = 0
      /\ p # 0 => Rank(p, n) \in 1..n
  BY <1>1, RankBounds
<1>3. k \in 1..n
  BY <1>1, <1>2
<1>4. v = Sorted(values)[k]
  <2>1. p # 0 => /\ ~(Rank(p, n) < 1)
                 /\ (IF Rank(p, n) - 1 < n - 1 THEN Rank(p, n) - 1 ELSE n - 1) + 1 = Rank(p, n)
    BY <1>1, <1>2
  <2> QED
    BY <2>1 DEF Percentile, n
<1> HIDE DEF k, v
<1>5. /\ \E i \in DOMAIN values : values[i] = v
      /\ NotAbove(values, v) \in Nat /\ NotAbove(values, v) >= k
      /\ \A i \in DOMAIN values : values[i] < v => NotAbove(values, values[i]) \in 1..(k - 1)
  BY <1>3, <1>4, SortedPlace DEF n
<1>6. 100 * NotAbove(values, v) >= p * n
  <2>1. 100 * k >= p * n
    BY <1>2 DEF k
  <2> QED
    BY <1>2, <1>3, <1>5, <2>1
<1>7. ASSUME NEW i \in DOMAIN values, values[i] < v
      PROVE  100 * NotAbove(values, values[i]) < p * n
  <2>1. NotAbove(values, values[i]) \in 1..(k - 1)
    BY <1>5, <1>7
  <2>2. p # 0 /\ k = Rank(p, n)
    BY <2>1 DEF k
  <2>3. 100 * (k - 1) < p * n
    BY <1>2, <2>2
  <2> QED
    BY <1>2, <1>3, <2>1, <2>3
<1> QED
  BY <1>5, <1>6, <1>7 DEF IsNearestRank, v, n

(***************************************************************************)
(* p50(), p95() and p99() of the window are its nearest ranks, whatever    *)
(* samples the sessions have put into it and in which order; and so is any *)
(* whole percentile of any other contents.                                 *)
(***************************************************************************)
THEOREM NearestRankCorrect == MetricsSpec => []NearestRank
<1>1. NearestRankOfGiven
  BY WindowAssumption, PercentileIsNearestRank DEF NearestRankOfGiven
<1>2. ASSUME MetricsInv, samples # <<>>, NEW p \in {50, 95, 99}
      PROVE  IsNearestRank(samples, p)
  <2>1. samples \in Seq(Ttft)
    BY <1>2 DEF MetricsInv, MetricsTypeOK
  <2>2. Ttft \subseteq Int
    BY MetricsAssumption DEF Ttft
  <2>3. samples \in Seq(Int)
    BY <2>1, <2>2, SeqMonotonic
  <2>4. p \in 0..100
    OBVIOUS
  <2> QED
    BY <1>2, <2>3, <2>4, PercentileIsNearestRank
<1>3. MetricsInv => NearestRank
  BY <1>1, <1>2 DEF NearestRank
<1> QED
  BY <1>3, InitMetrics, NextMetrics, PTL DEF MetricsSpec
=============================================================================
