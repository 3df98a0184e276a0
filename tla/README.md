# TLA+ verification of the vLLM SLO admission proxy

The repository holds a C++ admission controller for a vLLM server and, built on
Boost.Asio/Beast, an HTTP proxy that limits the number of requests in flight,
queues a bounded number of others and streams server-sent events back to the
clients. This directory models the proxy and the controller's policy classes in
TLA+, checks small instances with TLC and proves the central invariants with TLAPS
for every size of instance.

All source paths below are relative to `src/controller/`.

## 1. Inventory of the system

| Component | State | Operations | Interacts with |
|---|---|---|---|
| `InflightLimiter` (`src/inflight_limiter.cpp`) | `current_inflight`, `queued_requests`, `closed`, `on_release`; RAII `Permit` with `owns_slot_` | `try_acquire_or_queue`, `try_promote_queued`, `cancel_queued`, `close`, `Permit::release` | called from every strand; its callback posts to the server's strand after the unlock |
| `ProxyServer` (`src/proxy_server.cpp`) | `strand_`, `queued_sessions_` (deque of weak pointers), `stopping_`, limiter, metrics | `start`, `stop`, `enqueue_session`, `promote_queued_sessions`, `on_accept` | posts to its own strand; starts sessions of the deque on that strand |
| `ProxySession` (`src/proxy_session.cpp`) | sockets, two timers, `permit_`, `queued_`, `finished_`, `response_started_`, `request_counted_`, SSE parser | one completion handler per asynchronous operation, `try_start_from_queue`, `fail_with_status`, `finish_request`, destructor | limiter, server, metrics, client, upstream |
| `proxy_main` | signal set, worker threads | signal handler, `io_context::run`, teardown | server |
| `ProxyMetrics` | request counters, TTFT window | `record_*`, `snapshot` | called by sessions |
| `SseParser` | line buffer, current event | `feed`, `reset` | called by a session for each piece |
| `SlidingWindow` | ring of samples | `add_sample`, `percentile`, `average` | used by `ProxyMetrics` |
| `AdmissionPolicy` | recommended limit, cooldown, recovery count | `evaluate` | `controller_demo` only; not connected to the proxy |
| `TokenBucket` | tokens, time of last refill | `try_consume`, `available_tokens` | not connected to the proxy |

Also in the repository, and without state worth a model: `controller_demo`
(prints a fixed sequence), a mock vLLM in Python, start and smoke test scripts,
benchmark scenario files, and the lecture notes under `std-infra/`.

### What is hard in it

* **Two strands per queued request.** A session's handlers run on its own strand,
  but `enqueue_session`, `promote_queued_sessions` and `try_start_from_queue`
  touch the session from the server's strand. With one worker thread (the default)
  handlers cannot overlap; `VLLM_SLO_WORKER_THREADS` allows more.
* **Decisions and their consequences are apart.** The limiter says Queue, the deque
  learns of it later; a slot is released, the promotion is posted and runs later;
  a timer expires, its handler runs later.
* **Late completions.** Closing a socket or cancelling a timer does not take back an
  operation that has completed and whose handler is queued; a resolve is not
  cancelled at all.
* **Shutdown** races with everything that is posted.
* **Stream framing.** What one read returns depends on how the network cuts the
  stream.

### What makes each component correct

* Limiter: a slot is counted exactly while a permit owns it; both counts stay in
  their bounds in any order of calls, `close()` included.
* Server: a waiting session is not forgotten, not queued twice, and is woken when a
  slot is free; the limiter's queue count is the number of sessions that wait; the
  whole implements admission control; everybody is resolved.
* Session: a slot is held exactly while an unanswered request is forwarded; exactly
  one outcome; one write at a time on the client's socket; what is recorded as
  completed was delivered; the timers alone suffice to give slots back.
* Parser: the events are those of the stream read as a whole, wherever it is cut; no
  buffer outgrows its limit, also when `feed` throws half way.
* Metrics and window: a report read under several locks is consistent in itself; a
  percentile is the nearest rank.
* Policy: the recommendation stays in its limits, rises only after a quiet and calm
  period, comes back after a lasting recovery, and a worse sample never gets a better
  answer.
* Bucket: no window grants more than a full bucket and its refill, and the lazy refill
  cannot be observed.

`PROJECT.json` lists every hazard with the line where it bites and the properties
that cover it.

## 2. Modules

| Module | Role |
|---|---|
| `InflightLimiter` | the limiter: each method is one step, as it holds the mutex from first to last access |
| `AdmissionControl` | abstract specification: sets `active` and `waiting`, no counters, deque, timers or threads |
| `ProxyServer` | EXTENDS `InflightLimiter`: strand, deque, timers, signal and worker threads; each handler cut into steps |
| `ProxySession` | EXTENDS `AdmissionControl`: the handler chain of a connection |
| `SseParser` | the parser and `observe_sse_chunk`, which feeds it |
| `SlidingWindow` | the window of samples and its percentile |
| `ProxyMetrics` | EXTENDS `InflightLimiter`, `SlidingWindow`: counters, TTFT window, and the sessions and `/health` that use them |
| `AdmissionPolicy` | `evaluate()` |
| `EagerBucket` | abstract specification: a bucket refilled at each tick |
| `TokenBucket` | the bucket that refills when it is called |
| `InflightLimiterProofs`, `ProxyServerProofs`, `OneWorkerProofs`, `ProxySessionProofs`, `SseParserProofs`, `ProxyMetricsProofs`, `AdmissionPolicyProofs`, `TokenBucketProofs` | theorems and proofs |
| `MCProxyServer`, `MCProxyMetrics`, `MCSseParser`, `MCAdmissionPolicy`, `MCTokenBucket` | instances for TLC |

### InflightLimiter

The variables are the fields of `State`, plus `permits`: the callers for whom a
`Permit` with `owns_slot_` set exists. A method with a result is an operator with the
result as a parameter (`TryAcquireOrQueue(s, d)`: the call made for `s` returns `d`).
`PermitRelease` goes to the end of the locked block; the callback is a later step of
the caller.

### ProxyServer

`server_pc` and `pc[s]` say where the handler on the server's strand and the handler
on the strand of session `s` are. A step ends where another thread can see or disturb
what follows: at a limiter call, at an access to `queued_` or `finished_`, at a post.
At most `Workers` handlers are in progress (`Busy`), so `Workers = 1` makes each
handler run alone. Correspondence of the handlers:

| Code | Actions |
|---|---|
| `handle_request` | `HandleRequest`, `PostEnqueue` |
| queue timer's handler | `QueueTimerFires`, `QueueTimerCancels`, `QueueTimerFails`, then release |
| request timer's handler | `RequestTimerFires`, then release |
| end of the upstream exchange | `ChainEnds`, then release |
| `permit_.reset()` and callback | `ResetPermit`, `NotifyRelease` |
| `enqueue_session` handler | `EnqueueSession` |
| `promote_queued_sessions` | `PromoteBegins`, `PromoteLoop`, `PromoteTry`, `PromoteDenied`, `TryStartFromQueue`, `BeginFromQueue`, `DropPermit`, `NotifyDrop` |
| `stop` handler | `StopServer` |
| signal handler, teardown | `SignalPostsStop`, `SignalStopsIo`, `Destroy`, `Exited` |

A timer is off, armed or due; due means expired with its handler queued, which
`cancel()` does not take back. Each session makes one request (the code closes the
connection after each response), and reads of `/health`, 404 and 405, which do not
touch the limiter, are in `ProxySession` only.

### ProxySession

`sess[s]` is the session object as a record: the pending operation of the chain and
its result, the state of both sockets, the flags, the timers, and the number of pieces
received, delivered and (a history) dropped by the handler of a body read. The client
is not an actor: it may leave at any time, which is why what involves it may fail at any
time. A request waits from the decision Queue on, as in the mapping of `ProxyServer`, but its
queue timer is started later, by the handler that `enqueue_session` posts: `queue_timer` is
`posted` in between, `EnqueueSession` is that handler, and `TryStartFromQueue` cannot come
before it, since the server takes sessions out of its deque only. Shutdown, and with it the
decision Closed, is in `ProxyServer` only. A handler is one step, since all of them run on the session's
strand and the admission layer is the abstract one. `OpCompletes` decides a result,
a later `On...` action is the handler. The results of a body read (`ReadResults`) are a
constant, so that a run can say which framing it is about. Closing a socket fails
what is pending on it and leaves what has completed.

The default of one worker thread is what makes the composition through
`AdmissionControl` sound: `OneWorkerProofs` shows that the concrete admission path
implements it there, for every size of instance. With more threads it does not (see the
findings).

### SseParser

A stream is a sequence of symbols of size one, so that sizes and cuts are exact and the
strings are short: the prefix `data:` is two symbols, between which a cut can fall. The
loop of `feed` is a recursive function over the text (`Scanned`), one `Scan` per symbol. When `append_data_line` throws, the
buffer keeps the whole chunk, the current event what it had got, and the events of the
call are lost, as in the code; the session then ends the response. Whether a long line
throws does depend on the cut, since `enforce_limit` looks at a whole chunk; the events
do not. `Reset` models `reset()`, which the proxy does not call, in any state, the one
after an exception included. `ReferenceEvents` is what `CutIndependent` compares with. It says
without any state what the events of a stream are, in terms of positions: where a line ends
(`PreviousEnd`, `LineLast`), which lines are blank or data (`BlankAt`, `DataAt`), which data
lines are open at a position (`OpenLines`), which positions make up the text of the open event
(`OpenText`), and what a sequence has at a set of positions (`Extract`).

### SlidingWindow and ProxyMetrics

One step is one critical section, of three mutexes: the limiter's, that of the metrics
and that of the window. `snapshot()` holds the second while it takes the third (the
variable `mutex`); `record_ttft` takes them one after the other. A session goes through
the points at which `ProxySession` calls limiter and metrics, in the order of
`handle_request`, `finish_request` and `fail_with_status`; `late` is a session that the
request timer failed while a piece was already read, and which may still record its
first token. `std::sort` is modelled by what it
does: `Sorted` has in the k-th place the sample with k - 1 others before it (`PlaceOf`).
Samples are whole numbers, percentages too, and the rank is exact. The code computes it with
`double`; that agrees for the 50th, 95th and 99th percentile at every size up to the
proxy's 256 samples, and may be one larger for others (the 7th of 100).
`record_ttft` cannot throw: both times come from the steady clock, in order.
`WindowSettled` needs a window at least as large as the number of threads (256 in the
proxy): with more concurrent calls than places the last sample can be pushed out.

### AdmissionPolicy

Ratios and rates are whole percents. The variables `kind`, `quiet` and `calm` are
history: the class of the last sample, the number of samples since an overload and of
recovery samples in a row, up to the bounds `MaxQuiet` and `MaxCalm`. The assumption is
what the constructor checks; in particular `max_queue_size` may be 0, which rejects
everything, and so may `max_waiting_requests`, which makes every sample an overload.

### TokenBucket and EagerBucket

Time is in ticks and the refill rate in tokens per tick, both whole; the rounding of
`double` is left out. Only `elapsed`, the distance of the clock from `last_refill_`, is
kept. A history window that may begin at any moment counts ticks (`age`) and grants.
The refinement maps the level of `EagerBucket` to `Refilled`, what a call would find.

## 3. Runs

Passing runs:

| Run | Instance | Shows |
|---|---|---|
| `server_queue` | 1 thread, 4 sessions, 1 slot, 2 places | slots exact, queue bounded, queue count exact, no lost wakeup, no slot after the answer; implements `AdmissionControl` |
| `server_threads` | 2 threads, 2 sessions, 1 slot, 1 place, fair | types, one outcome, one place in the queue, a queue count never ahead of those who wait, nobody admitted after `close()`; every request resolved even where a wakeup is lost |
| `session` | 2 sessions, 2 pieces, every result of a read, fair | slot exactly while forwarding; a timer, or the posted handler that starts it, for every unanswered request; as many pieces written as read but for those dropped; the timers alone bring slots and places back |
| `policy` | limits 1..6, cooldown 3, 144 samples, fair | limits kept, raise earned, recovery and shedding complete, worse is never better |
| `bucket` | capacity 5, rate 2, 5 amounts, fair | rate limited over every window; implements `EagerBucket`; a patient caller is served |
| `sse` | all streams of up to 4 lines of 8 kinds, chunks of up to 6, limit 7 | events independent of the cut; buffers bounded; first data and `[DONE]` seen once |
| `metrics` | 2 threads, 3 sessions, window of 2 | reports consistent, window counted and settled, percentile is nearest rank |

Runs that refute what a document, comment or test says; each is a finding in
`PROJECT.json`:

| Run | Refuted | How |
|---|---|---|
| `threads_lost_wakeup` | `NoLostWakeup` | 2 threads: the promotion overtakes the enqueue |
| `stop_effect` | `StopTakesEffect` | `io.stop()` overtakes the posted stop |
| `client_writes` | `OneClientWrite` | 504 and the SSE header are written at the same time |
| `body_pieces` | `CompletedDelivered` | a piece that fills the buffer, or one that ends the message, is lost |
| `upstream_bound` | `UpstreamBounded` | a late resolve forwards without a slot |

Four more things a reader of the code should know are not runs.

* With two threads `QueueCountExact` fails (`server_queue` checked with `Workers = 2` shows
  it): a promotion has taken the count down and not yet cleared `queued_` when the session's
  queue timer cancels once more, so the count loses a request that still waits. It can only
  lose: that the count is never too large (`QueueNotOverstated`) holds with any number of
  threads.
* With two threads `FinishedHoldsNoSlot` fails as well: the queue timer's handler fails the
  session between the test in `try_start_from_queue` and the move of the permit, and the
  slot goes to a session that has been answered. If the handler's `permit_.reset()` comes
  after the move it releases the slot while the exchange runs; if it came before, the slot
  is kept until the session is destroyed at the end of the exchange. `RequestResolved` shows
  that it comes back.
* The header of the limiter asks for `cancel_queued()` also when a queued client
  disconnects. A queued session reads nothing from its client and does not notice: the
  request keeps its place until the queue timer fires, or is promoted and forwarded. No
  property can be about an event that the code does not have; what holds is that the place
  and the slot come back (`RequestResolved`, `SlotReturned`).
* The deque has no bound: sessions that time out stay in it until a promotion pops them.

With one worker `close()` never runs, since the signal handler stops the `io_context` before
its thread can take the posted handler. So `server_queue` does not exercise `Shut` of
`AdmissionControl`; `close()` is exercised by `server_threads`.

### Bounds

One slot suffices for contention: with a session in the slot, one queued and one
arriving, every decision of the limiter happens, and so does a slot that is released
and taken again before the promotion runs. A second queue place and a fourth session
(`server_queue`) add an order among waiting sessions and a refusal while two wait, which is
what `QueueBounded` needs to mean anything. Two
threads give every overlap of two handlers; a third handler overlapping adds no step
that two cannot take in turn, and `ProxyServerProofs` covers any number of threads for
the invariants proved. `MaxPieces` bounds the pieces of a response only; a
body read of a bounded response can then only end or fail; two pieces are enough for one
to be dropped and another to follow. Sessions are interchangeable, which is the symmetry
used in runs that check safety only.

`policy` has samples on both sides of every threshold; its GPU limit of 100 and recovery
ratio of 99 percent admit a sample that is critical, not soft, and below the recovery
thresholds, which the order of the tests in the code has to settle. A range of six and a
cooldown of three let halving and stepping reach both limits from different sides.
`bucket` has amounts below, at and above the capacity, and idle times that refill it
completely. In `sse` the limit lies between the sizes of a short and of a long event, so that
streams fit, exceed it with one line, with the separator between two lines only, or with a
chunk. `metrics` asks percentiles of all windows of up to five samples of three values, and
of falling windows of 19 to 256 samples, where the 95th percentile leaves the maximum.
Deadlock is checked in every run: the states in which the process has exited
(`Exited`) or all connections were served (`AllServed`) stutter explicitly.

### Fairness

`FairSpec` (server): a handler that runs gets to its end (threads are scheduled), what
is posted to a running `io_context` is run, timers expire, the upstream exchange ends,
the last reference to a session is dropped. Reads and writes of the upstream have
`expires_after` timeouts, writes to the client end at the latest when the request timer
closes the socket, and the resolver is assumed to answer; the error reply fits the
socket buffer and is assumed to be taken. No arrival and no signal is assumed.
`FairSessionSpec` assumes less: queued handlers run and timers expire, nothing is
assumed of resolver, upstream or client. `FairPolicySpec` assumes that samples keep
coming, which is what a controller's loop is, and `FairBucketSpec` that time passes and
that somebody keeps asking; neither says what is sampled or asked for. All fairness is
weak.

## 4. Proofs

`InflightLimiterProofs`, theorem `LimiterCorrect`: for any finite set of callers and any
limits with `MaxInflight > 0` (`LimiterAssumption`, what the constructor enforces),
`LimiterSpec` implies `LimiterTypeOK`, `SlotsExact`, `QueueBounded` and `ClosedEmpty` (no
request is counted as queued after `close()`) always. The
conjunction is inductive. Each limiter method has a lemma of its own that it preserves
the counts, from one fact about cardinality: adding a caller that has no permit, or
taking one that has, changes the number of permits by one.

`ProxyServerProofs`: `Spec` implies `TypeOK` (`TypeCorrect`), `SlotsExact`
(`SlotsCorrect`), `QueueBounded` (`QueueCorrect`), `QueuedOnce` (`QueuedOnceCorrect`),
`ClosedAdmitsNobody` (`ClosedCorrect`), `OutcomeOnce` (`OutcomeCorrect`) and
`QueueNotOverstated` (`QueueNotOverstatedCorrect`), for any number of sessions, slots, queue
places and worker threads. The inductive invariant of the first five is

    ServerInv == TypeOK /\ LimiterInv /\ QueuedOnce

`SlotsExact` alone is not inductive in the server: a promotion adds `cur` to the
permits and the count goes up by one, which agree only if `cur` had no permit. That is
the last line of `OnePlace` in `QueuedOnce`; and to keep it, the session must be in one
place only on its way through strand, deque and promotion, which is the rest of
`QueuedOnce`. The limiter's lemmas are used as they stand for the steps that call it.
The proof has one step per action. `ClosedAdmitsNobody` is an action property: a closed
limiter refuses by its tests of `closed`, and `cancel_queued`, which has no such test, finds
the count at zero (`ClosedEmpty`, in `LimiterInv`).

`OutcomeOnce` adds `OutcomeInv`: the number of outcomes follows the number of finished
sessions because every handler tests `finished_` first, except a refusal, which does not.
There it has to be known that nothing has happened to a session before its request: `Fresh`,
which needs that a queued handler's session has made its request, and for the server's strand
`Begun` and the place of the session in the queue (`QueuedOnce`).

`QueueNotOverstated` adds

    QueueInv == Calm /\ Arrived /\ StoppedClosed /\ QueueNotOverstated

A request waits from the decision Queue, which counts it, to the promotion, queue timeout or
`close()` that counts it out. Every step either keeps the count and loses nobody who waits, or counts one out while at
most one leaves, or counts in a session that did not wait before. The danger is a session that
stops waiting without being counted out, and the enqueue handler is where that could happen:
between the decision and this handler the session must be left alone (`Calm`: no flag, timer,
exchange or other handler), a promotion must not start it before it is in the deque
(`Arrived`), and the handler drops it only after `close()` has set the count to zero
(`StoppedClosed`). The handlers of a queued session count it out before they clear `queued_`,
which is why the count can fall behind and cannot run ahead.

`OneWorkerProofs`, for any number of sessions and any limits, with the hypothesis
`Workers = 1` in each theorem (the default of `ProxyConfig::worker_threads`; with two
threads the run `threads_lost_wakeup` refutes one of them): `Spec` implies
`QueueCountExact` (`QueueCountCorrect`), `NoLostWakeup` (`WakeupCorrect`),
`FinishedHoldsNoSlot` (`FinishedCorrect`) and `ImplementsAdmission`
(`AdmissionImplemented`). The inductive invariant `OneWorkerInv` adds to the two
invariants above:

* `Solo`: at most one handler is between two of its steps. It follows from `Busy` and
  the hypothesis, and is the only place where the hypothesis enters.
* `Queueing`, `Alive`: on its way through the queue a request has no exchange, no
  outcome and, until the teardown, an object; a promotion never finds its session gone,
  so that `DropPermit` is not reached.
* `Kept`: outside `close()`, a session with `queued_` set is in the deque or in the
  hands of the promotion.
* `Full`: no slot is free between the decision Queue and its post, or between a refused
  `try_promote_queued` and the session's return to the deque.
* `Woken`: while a slot is free, a promotion is about to be posted, or it is posted
  *behind* every enqueue that is still posted (`Followed`) and is posted or running if
  somebody is queued. `NoLostWakeup` alone is not inductive: it says nothing of a session
  whose enqueue is still in the strand's queue, and it is the order of that queue which
  saves it.

Each action has a lemma that gives its step's effect on the invariant and, as
`AdmissionMove`, its meaning for `AdmissionControl` together with the change of
`queued_requests`. From the second come both the refinement and the exact queue count:
every abstract step that adds a session to `waiting` or takes one off changes the count by
one (`MoveCounts`).

`ProxySessionProofs`, for any number of sessions, limits, pieces and framings
(`SessionAssumption`): `SessionTypeOK`, `SlotWhileForwarding`, `Watched` and
`PiecesAccounted`. The inductive invariant `SessionInv` is a predicate `Sound` on one
session record and on its membership in `active` and `waiting`: the result fits the
operation (`OpSound`), every piece read is delivered, dropped or in hand (`Account`), a
session that is admitted has its request timer, and one that waits has no operation and
has its queue timer or the posted handler that starts it (`Placed`), and nothing has happened before the request is read (`Unread`). The account is needed because
delivered and received pieces agree only between a write and the next read. A handler
changes one record, so a lemma on all handlers (`SetSound`) leaves one record to reason
about. `Watched` needs that a posted handler finds its session still waiting: nothing else
can end the wait before, as the timer does not run yet and a promotion takes only what is in
the deque. `SessionUsesAdmission` shows that sessions use the admission layer through its
operations only, `AdmissionBounded` that the layer keeps its two limits; with
`SlotWhileForwarding` they give `ForwardingBounded`, the proxy's purpose: at most
`max_inflight` unanswered requests are forwarded. (Without the word unanswered it is false:
`upstream_bound`.)

`ProxyMetricsProofs`, for any number of sessions and threads and any window:
`ReportConsistent`, `WindowCounted`, and `WindowSettled` under the hypothesis
`Workers <= WindowCapacity`. `MetricsInv` counts sessions by where they are (`Counts`,
`Tokens`), says what a half-made report still guarantees (`Partial`: what was read from the
limiter is within the total, which only grows; while `mutex_` is held the token count
stands still), and where the last sample is (`LastKept`): the samples behind it and the
calls still under way are together fewer than the threads, so that it is not pushed out.

`NearestRank` (`NearestRankCorrect`) holds for every window of whole samples, of any size and
in any order. `Sorted` chooses, for each place, the sample that has it; that there is one is a
counting argument: no two samples have the same place (`PlacesDiffer`), each has a place from 1
to n, and an injection of a finite set into one of the same size is onto (`PlaceTaken`). Then
the k samples of the first k places are not above the k-th (`UpToPlaceFacts`,
`SortedPlace`), and the rank is the least whole number that is at least p percent of n
(`RankBounds`). The theorem is about exact arithmetic; what `double` does to the rank is said
in section 2.

`SseParserProofs`, for every set of streams, every limit of the buffer and every size of the
network's chunks (`ParserAssumption`: both sizes positive, as the constructor demands of the
limit, and streams of the given symbols): `CutIndependent` (`FeedCutIndependent`),
`BufferBounded` (`FeedBounded`) and `Observed` (`ChunksObserved`). The proof needs an induction over
the text, and the library's induction theorems take an operator as a parameter, which the
provers cannot instantiate. Three lemmas replace them: `LeastNumber`, from the
well-foundedness of the natural numbers, `SetInduction`, which is induction for a *set* of
numbers, and `Recursion`, by which a function defined by recursion on `0..n` exists. What they
are applied to is:

* `ScanAgrees`: if the loop's state after k symbols agrees with the reference at position k,
  so does the state after k + 1, or the loop has thrown. One case per kind of symbol and
  line: inside a line (`ScanOther`), ignored (`ScanIgnored`), blank (`ScanBlank`), data
  (`ScanData`). They rest on what `Extract` gives for a union of sets of positions one
  behind the other (`ExtractUnion`) and for an interval (`ExtractInterval`).
* `RunAgrees` and `RunBound`: the same for a whole text, by `SetInduction`.
* `FeedAgrees`: the text of a call, what was left and the new chunk, is the stream from the
  beginning of the open line, so a call takes agreement from `fed` to `fed + n`.

The inductive invariant is

    ParserInv == Typed /\ CutIndependent /\ BufferBounded /\ (~failed => Resumable) /\ Watched

`CutIndependent` speaks of the events returned so far; `Resumable` says what the parser has to
remember between calls for the next ones to be right: the open line in `buffer_`, the text of
the open event in `current_data_` and whether it has any data line. It is lost when `feed`
throws, after which the session reads no further. `Watched` ties the flags of the session to
the events.

`AdmissionPolicyProofs`, for every configuration the constructor accepts and every set of
samples: `PolicyTypeOK`, `RaiseEarned` and `Monotone`. The inductive invariant is

    PolicyInv == PolicyTypeOK /\ QuietCounts

`QuietCounts` ties the code's two counters to the history: below the maximum, at least
the elapsed part of the cooldown and the counted recovery samples lie after the last overload, and no
recovery sample is counted while the cooldown lasts. `Monotone` needs no history: it
follows from `PolicyTypeOK` and from the three classifications being monotone themselves.

`TokenBucketProofs`, for every capacity and rate: `BucketTypeOK`, `RateLimited` and `ImplementsEager`. The
rate limit is not inductive: a window's grants are bounded only together with what is left
in the bucket. `BucketInv` adds that (`Conserved`): grants and what a call would find now
are together at most the capacity and the window's refill. The refinement is proved action
by action; a tick of the clock is a tick, a call that grants is `Take`, and the beginning
of a history window is a stutter.

The inductive invariants were checked with TLC on instances like those of the runs before
they were proved.

Only model-checked: the temporal properties `RequestResolved`, `SlotReturned`, `Recovers`,
`Sheds` and `Served`. Liveness under fairness, and with it `ENABLED`, is outside what the
prover does.

## 5. Not modelled

Contents of messages and headers, logging, environment variables (`stoull` accepts a minus
sign and wraps, the port is cut to 16 bits: the models begin with a configuration the
constructors accept), `/health`'s text, `start()`'s socket set-up errors, accept errors,
`SlidingWindow::average` and the rounding of `double`. `controller_demo` runs
`AdmissionPolicy` on seven fixed samples and prints, the mock upstream and the scripts are
test equipment: the models let the upstream do whatever the client library can report,
which includes every mode of the mock.

A torn access to
`queue_timer_` or `permit_`, which two strands touch without synchronisation, is
undefined behaviour inside the library; the model takes each access as atomic.
Boost's behaviour is external and modelled from how the code uses it.

## 6. Plan

Every component with state of its own is modelled, and every safety property that the
passing runs check is a theorem. What is left:

1. What more survives of the admission control with several threads: an abstract
   specification that admits the lost wakeup and the request counted out twice, and still
   says that a session is admitted only into a free slot.
2. When the findings are corrected in the code, the runs that refute a claim become passing
   runs, and their properties candidates for proof.
