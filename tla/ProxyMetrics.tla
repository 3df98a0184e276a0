------------------------------ MODULE ProxyMetrics ----------------------------
(***************************************************************************)
(* The proxy's metrics (controller/src/proxy_metrics.cpp) with those who   *)
(* write them, the sessions at the points where they call the limiter and  *)
(* record_*, and with one that reads both: send_health of a session        *)
(* (controller/src/proxy_session.cpp).                                     *)
(*                                                                         *)
(* Three mutexes are taken one after the other: the limiter's, mutex_ of   *)
(* the metrics and that of the window.  snapshot() holds mutex_ while it   *)
(* asks the window for p95; record_ttft lets go of it before it adds to the*)
(* window.  A step is one critical section.                                *)
(***************************************************************************)
EXTENDS InflightLimiter, SlidingWindow

CONSTANTS
  Workers,     \* threads that run handlers
  Durations    \* the times to first token that may be measured
ASSUME MetricsAssumption == Workers \in Nat \ {0} /\ Durations \subseteq Int

VARIABLES
  at,              \* at[s]: where session s is
  token,           \* token[s]: record_ttft "none", "counted" (in between), "sampled"
  ttft,            \* ttft[s]: what record_ttft measured
  total_requests, completed_requests, failed_requests,
  first_token_events, last_ttft,
  mutex,           \* whether snapshot() holds mutex_
  report           \* the reader: what it has read so far

counters == <<total_requests, completed_requests, failed_requests>>
tokenVars == <<token, ttft, first_token_events, last_ttft, samples>>
metricsVars == <<limiterVars, at, tokenVars, counters, mutex, report>>

NoReport ==
  [step |-> "none", inflight |-> 0, queued |-> 0, total |-> 0,
   completed |-> 0, failed |-> 0, tokens |-> 0, window |-> 0]

MetricsInit ==
  /\ LimiterInit /\ WindowInit
  /\ at = [s \in Sessions |-> "new"]
  /\ token = [s \in Sessions |-> "none"] /\ ttft = [s \in Sessions |-> 0]
  /\ total_requests = 0 /\ completed_requests = 0 /\ failed_requests = 0
  /\ first_token_events = 0 /\ last_ttft = 0
  /\ mutex = FALSE /\ report = NoReport

-----------------------------------------------------------------------------
(* Handlers in progress, and whether a thread is free for another one.     *)
InHandler(s) ==
  at[s] \in {"started", "refused", "completed", "failed"} \/ token[s] = "counted"
Reading == report.step \in {"limiter", "counters"}
WorkerFree ==
  Cardinality({s \in Sessions : InHandler(s)}) + (IF Reading THEN 1 ELSE 0) < Workers

(* A handler of s can begin: a strand runs one at a time.                  *)
Begins(s) == WorkerFree /\ ~InHandler(s)

Goes(s, place) == at' = [at EXCEPT ![s] = place]

(* handle_request: record_request_started, then try_acquire_or_queue.      *)
RecordStarted(s) ==
  /\ at[s] = "new" /\ Begins(s) /\ ~mutex
  /\ total_requests' = total_requests + 1
  /\ Goes(s, "started")
  /\ UNCHANGED <<limiterVars, tokenVars, completed_requests, failed_requests, mutex, report>>

Place(d) == CASE d = "Admit" -> "active" [] d = "Queue" -> "queued" [] OTHER -> "refused"

AcquireSlot(s) ==
  /\ at[s] = "started"
  /\ \E d \in InflightDecision : TryAcquireOrQueue(s, d) /\ Goes(s, Place(d))
  /\ UNCHANGED <<tokenVars, counters, mutex, report>>

(* A promotion; the queue timer, which goes on to record the failure.      *)
PromoteSession(s) ==
  /\ at[s] = "queued" /\ WorkerFree
  /\ TryPromoteQueued(s, TRUE)
  /\ Goes(s, "active")
  /\ UNCHANGED <<tokenVars, counters, mutex, report>>

QueueTimeout(s) ==
  /\ at[s] = "queued" /\ Begins(s)
  /\ CancelQueued
  /\ Goes(s, "refused")
  /\ UNCHANGED <<tokenVars, counters, mutex, report>>

(* record_ttft, called once by a session that forwards or, when the timer  *)
(* was faster than the handler of a read, has just failed.                 *)
CountToken(s) ==
  /\ at[s] \in {"active", "late"}
  /\ token[s] = "none" /\ Begins(s) /\ ~mutex
  /\ \E d \in Durations :
       /\ ttft' = [ttft EXCEPT ![s] = d]
       /\ last_ttft' = d
  /\ first_token_events' = first_token_events + 1
  /\ token' = [token EXCEPT ![s] = "counted"]
  /\ UNCHANGED <<limiterVars, at, samples, counters, mutex, report>>

SampleToken(s) ==
  /\ token[s] = "counted"
  /\ AddSample(ttft[s])
  /\ token' = [token EXCEPT ![s] = "sampled"]
  /\ UNCHANGED <<limiterVars, at, ttft, first_token_events, last_ttft, counters, mutex, report>>

(* finish_request and fail_with_status: the outcome is recorded, then the  *)
(* permit is reset.                                                        *)
RecordCompleted(s) ==
  /\ at[s] = "active" /\ Begins(s) /\ ~mutex
  /\ completed_requests' = completed_requests + 1
  /\ Goes(s, "completed")
  /\ UNCHANGED <<limiterVars, tokenVars, total_requests, failed_requests, mutex, report>>

(* Mutant of RecordFailed: a session that has finished is not spared.      *)
RecordFailedAgain(s) ==
  /\ at[s] \in {"refused", "active", "late"} /\ ~mutex
  /\ failed_requests' = failed_requests + 1
  /\ Goes(s, "failed")
  /\ UNCHANGED <<limiterVars, tokenVars, total_requests, completed_requests, mutex, report>>

RecordFailed(s) ==
  /\ at[s] = "refused" \/ (at[s] = "active" /\ Begins(s))
  /\ ~mutex
  /\ failed_requests' = failed_requests + 1
  /\ Goes(s, "failed")
  /\ UNCHANGED <<limiterVars, tokenVars, total_requests, completed_requests, mutex, report>>

ReleaseSlot(s) ==
  /\ at[s] \in {"completed", "failed"}
  /\ IF s \in permits
     THEN PermitRelease(s) /\ Goes(s, IF at[s] = "failed" THEN "late" ELSE "gone")
     ELSE UNCHANGED limiterVars /\ Goes(s, "gone")
  /\ UNCHANGED <<tokenVars, counters, mutex, report>>

-----------------------------------------------------------------------------
(***************************************************************************)
(* send_health: limiter().snapshot(), then the two halves of               *)
(* metrics().snapshot().                                                   *)
(***************************************************************************)
Reads(r) == report' = r /\ UNCHANGED <<limiterVars, at, tokenVars, counters>>

ReadLimiter ==
  /\ ~Reading /\ WorkerFree
  /\ Reads([NoReport EXCEPT !.step = "limiter", !.inflight = current_inflight,
                            !.queued = queued_requests])
  /\ UNCHANGED mutex

(* Mutant of ReadCounters: mutex_ is not held until p95 is known.          *)
ReadCountersUnlocked ==
  /\ report.step = "limiter" /\ ~mutex
  /\ Reads([report EXCEPT !.step = "counters", !.total = total_requests,
                          !.completed = completed_requests, !.failed = failed_requests,
                          !.tokens = first_token_events])
  /\ UNCHANGED mutex

ReadCounters ==
  /\ report.step = "limiter" /\ ~mutex
  /\ Reads([report EXCEPT !.step = "counters", !.total = total_requests,
                          !.completed = completed_requests, !.failed = failed_requests,
                          !.tokens = first_token_events])
  /\ mutex' = TRUE

ReadWindow ==
  /\ report.step = "counters"
  /\ Reads([report EXCEPT !.step = "sent", !.window = Len(samples)])
  /\ mutex' = FALSE

SessionStep(s) ==
  \/ RecordStarted(s) \/ AcquireSlot(s) \/ PromoteSession(s) \/ QueueTimeout(s)
  \/ CountToken(s) \/ SampleToken(s) \/ RecordCompleted(s) \/ RecordFailed(s)
  \/ ReleaseSlot(s)

MetricsNext ==
  ReadLimiter \/ ReadCounters \/ ReadWindow \/ \E s \in Sessions : SessionStep(s)

MetricsSpec == MetricsInit /\ [][MetricsNext]_metricsVars

-----------------------------------------------------------------------------
(***************************************************************************)
(* A report never shows work that its counters do not know of: every       *)
(* request in flight or queued is among the total, and so is every outcome.*)
(* This rests on /health reading the limiter first, and on sessions        *)
(* recording a request before they ask for a slot.                         *)
(***************************************************************************)
ReportConsistent ==
  report.step = "sent" =>
    /\ report.inflight + report.queued <= report.total
    /\ report.completed + report.failed <= report.total

(***************************************************************************)
(* A snapshot never has a p95 over samples that its first_token_events does*)
(* not count, although record_ttft updates the two under different locks.  *)
(***************************************************************************)
WindowCounted == report.step = "sent" => report.window <= report.tokens

(***************************************************************************)
(* When no record_ttft is under way, the window is as full as the number of*)
(* first tokens allows and holds the one reported as the last, in whatever *)
(* order concurrent calls reached the window.  This needs a window at least*)
(* as large as the number of threads; the proxy's has 256 samples.         *)
(***************************************************************************)
WindowSettled ==
  (\A s \in Sessions : token[s] # "counted") =>
    /\ Len(samples) = IF first_token_events < WindowCapacity THEN first_token_events
                                                             ELSE WindowCapacity
    /\ first_token_events > 0 => \E i \in DOMAIN samples : samples[i] = last_ttft
=============================================================================
