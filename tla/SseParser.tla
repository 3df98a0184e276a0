------------------------------- MODULE SseParser ------------------------------
(***************************************************************************)
(* The incremental parser of server-sent events (controller/src/           *)
(* sse_parser.cpp) and its caller, observe_sse_chunk of a session          *)
(* (controller/src/proxy_session.cpp), which looks for the first data and  *)
(* for [DONE] in the pieces of a response as the network cuts them.        *)
(*                                                                         *)
(* A stream is a sequence of symbols, each of size one: "da" and "ta:",    *)
(* the two halves of the prefix of a data line, so that a cut may fall     *)
(* between them; "[DONE]"; "sp", "cr", "lf"; ":"; and "x" for other text.  *)
(***************************************************************************)
EXTENDS Integers, Sequences, FiniteSets, SequencesExt

CONSTANTS
  Streams,     \* the bodies that an upstream may send
  MaxBuffer,   \* max_buffer_size_
  MaxChunk     \* size of upstream_body_buffer_

Symbol == {"da", "ta:", "[DONE]", "sp", "cr", "lf", ":", "x"}

ASSUME ParserAssumption ==
  /\ MaxBuffer \in Nat \ {0} /\ MaxChunk \in Nat \ {0}
  /\ \A t \in Streams : t \in Seq(Symbol)

VARIABLES
  stream, fed,       \* what the upstream sends, and how much the parser took
  buffer,            \* buffer_
  current, has_data, \* current_data_, has_data_
  events,            \* history: the events that feed() returned
  first_seen,        \* first_sse_data_seen_
  ttfts,             \* history: calls of record_ttft
  done, failed       \* the answer of observe_sse_chunk; feed() has thrown

parserVars == <<buffer, current, has_data>>
vars == <<stream, fed, parserVars, events, first_seen, ttfts, done, failed>>

Init ==
  /\ stream \in Streams /\ fed = 0
  /\ buffer = <<>> /\ current = <<>> /\ has_data = FALSE
  /\ events = <<>> /\ first_seen = FALSE /\ ttfts = 0
  /\ done = FALSE /\ failed = FALSE

-----------------------------------------------------------------------------
(***************************************************************************)
(* feed().  The record p is what the loop has at a point: the line it is   *)
(* in, the event it is in, the events to return, and whether it has thrown.*)
(***************************************************************************)
DataPrefix == <<"da", "ta:">>

WithoutLast(s) == SubSeq(s, 1, Len(s) - 1)
StripCr(line) == IF line # <<>> /\ Last(line) = "cr" THEN WithoutLast(line) ELSE line
StripSingleLeadingSpace(s) == IF s # <<>> /\ Head(s) = "sp" THEN Tail(s) ELSE s

(* Mutant of AppendDataLine: the separator is not counted.                 *)
AppendDataLineNoSeparator(p, value) ==
  IF Len(p.current) + Len(value) > MaxBuffer
  THEN [p EXCEPT !.failed = TRUE]
  ELSE [p EXCEPT !.current = (IF p.has_data THEN Append(@, "lf") ELSE @) \o value,
                 !.has_data = TRUE]

AppendDataLine(p, value) ==
  LET separator == IF p.has_data THEN 1 ELSE 0
  IN  IF Len(p.current) + Len(value) + separator > MaxBuffer
      THEN [p EXCEPT !.failed = TRUE]
      ELSE [p EXCEPT !.current = (IF p.has_data THEN Append(@, "lf") ELSE @) \o value,
                     !.has_data = TRUE]

(* make_event and clear_current_event at a blank line.                     *)
EndEvent(p) ==
  IF p.has_data
  THEN [p EXCEPT !.events = Append(@, p.current), !.current = <<>>, !.has_data = FALSE]
  ELSE p

HandleLine(p, line) ==
  IF line = <<>> THEN EndEvent(p)
  ELSE IF Head(line) # ":" /\ IsPrefix(DataPrefix, line)
  THEN AppendDataLine(p, StripSingleLeadingSpace(SubSeq(line, Len(DataPrefix) + 1, Len(line))))
  ELSE p

(* One symbol further; an exception ends the loop.                         *)
Scan(p, symbol) ==
  IF p.failed THEN p
  ELSE IF symbol = "lf" THEN HandleLine([p EXCEPT !.line = <<>>], StripCr(p.line))
  ELSE [p EXCEPT !.line = Append(@, symbol)]

(* The loop over a text; p[k] is what it has after k symbols.              *)
Scanned(start, text) ==
  LET p[k \in 0..Len(text)] == IF k = 0 THEN start ELSE Scan(p[k - 1], text[k])
  IN  p[Len(text)]

ScanStart == [line |-> <<>>, current |-> current, has_data |-> has_data,
              events |-> <<>>, failed |-> FALSE]

(* Mutant of Parsed: what is left at the end of a chunk counts as a line.  *)
ParsedByChunk(text) ==
  LET p == Scanned(ScanStart, text)
  IN  IF p.failed \/ p.line = <<>> THEN p ELSE Scan(p, "lf")

Parsed(text) == Scanned(ScanStart, text)

IsDone(event) == event = <<"[DONE]">>

(* Mutant of Observe: done is that of the last event.                      *)
ObserveLast(new) ==
  LET data == {k \in DOMAIN new : new[k] # <<>>}
  IN  /\ first_seen' = (first_seen \/ data # {})
      /\ ttfts' = IF ~first_seen /\ data # {} THEN ttfts + 1 ELSE ttfts
      /\ done' = (new # <<>> /\ IsDone(Last(new)))

(* The loop of observe_sse_chunk over the events of a call.                *)
Observe(new) ==
  LET data == {k \in DOMAIN new : new[k] # <<>>}
  IN  /\ first_seen' = (first_seen \/ data # {})
      /\ ttfts' = IF ~first_seen /\ data # {} THEN ttfts + 1 ELSE ttfts
      /\ done' = \E k \in DOMAIN new : IsDone(new[k])

(* feed() throws: done, and the events of the call are lost.               *)
ObserveException ==
  failed' = TRUE /\ done' = TRUE /\ UNCHANGED <<fed, events, first_seen, ttfts>>

(* observe_sse_chunk of the next n symbols.  A session reads no further    *)
(* after done.                                                             *)
ObserveSseChunk(n) ==
  /\ ~done /\ n <= Len(stream) - fed
  /\ UNCHANGED stream
  /\ IF Len(buffer) + n > MaxBuffer
     THEN ObserveException /\ UNCHANGED parserVars     \* enforce_limit
     ELSE LET text == buffer \o SubSeq(stream, fed + 1, fed + n)
              p    == Parsed(text)
          IN  /\ current' = p.current /\ has_data' = p.has_data
              /\ IF p.failed
                 THEN buffer' = text /\ ObserveException
                 ELSE /\ buffer' = p.line
                      /\ fed' = fed + n /\ events' = events \o p.events
                      /\ Observe(p.events)
                      /\ UNCHANGED failed

(* reset(), in any state: the parser then gets a stream from its beginning.*)
Reset ==
  /\ fed' = 0 /\ UNCHANGED stream
  /\ buffer' = <<>> /\ current' = <<>> /\ has_data' = FALSE
  /\ events' = <<>> /\ first_seen' = FALSE /\ ttfts' = 0
  /\ done' = FALSE /\ failed' = FALSE

Next == Reset \/ \E n \in 1..MaxChunk : ObserveSseChunk(n)

Spec == Init /\ [][Next]_vars

-----------------------------------------------------------------------------
(***************************************************************************)
(* Reference: the events that end in the first n symbols of a stream t,    *)
(* said of positions in t.  An event ends at a blank line and holds the    *)
(* data lines since the blank line before it, if there are any.  Its text  *)
(* is what is left of the stream without everything but the values of these*)
(* lines and the newlines between them.                                    *)
(***************************************************************************)

(* The newline before position i, or 0, and the last symbol of the line    *)
(* that a newline at i ends.                                               *)
PreviousEnd(t, i) ==
  CHOOSE b \in 0..(i - 1) : /\ b = 0 \/ t[b] = "lf"
                            /\ \A j \in (b + 1)..(i - 1) : t[j] # "lf"
LineLast(t, i) ==
  IF i - 1 > PreviousEnd(t, i) /\ t[i - 1] = "cr" THEN i - 2 ELSE i - 1

BlankAt(t, i) == t[i] = "lf" /\ LineLast(t, i) = PreviousEnd(t, i)
DataAt(t, i) ==
  LET b == PreviousEnd(t, i)
  IN  t[i] = "lf" /\ b + 2 <= LineLast(t, i) /\ t[b + 1] = "da" /\ t[b + 2] = "ta:"

(* The positions of the value of a data line: behind the prefix and one    *)
(* leading space.                                                          *)
ValueAt(t, i) ==
  LET v == PreviousEnd(t, i) + 3
  IN  {q \in v..LineLast(t, i) : ~(q = v /\ t[q] = "sp")}

(* The data lines of the event that is open after n symbols, and its text. *)
OpenLines(t, n) == {j \in 1..n : DataAt(t, j) /\ \A k \in j..n : ~BlankAt(t, k)}
OpenText(t, n) ==
  {q \in 1..n : \E j \in OpenLines(t, n) :
     q \in ValueAt(t, j) \/ (q = j /\ \E k \in OpenLines(t, n) : j < k)}

(* What s has at the positions in S, in order.                             *)
UpTo(S, i) == {j \in S : j <= i}
Extract(s, S) ==
  [k \in 1..Cardinality(S) |-> s[CHOOSE i \in S : Cardinality(UpTo(S, i)) = k]]

EventEnds(t, n) == {i \in 1..n : BlankAt(t, i) /\ OpenLines(t, i - 1) # {}}

ReferenceEvents(t, n) ==
  Extract([i \in 1..n |-> Extract(t, OpenText(t, i - 1))], EventEnds(t, n))

(***************************************************************************)
(* The caller of feed() gets the events of the stream read as a whole, each*)
(* once and in order, wherever the network cuts it: inside a prefix, before*)
(* a newline, between CR and LF, or with several events in one chunk; and  *)
(* after reset() nothing of an earlier, perhaps failed, stream is left.    *)
(***************************************************************************)
CutIndependent == events = ReferenceEvents(stream, fed)

(***************************************************************************)
(* Neither the line buffer nor the event under construction outgrows       *)
(* max_buffer_size, also when feed() throws in the middle of a chunk.      *)
(***************************************************************************)
BufferBounded == Len(buffer) <= MaxBuffer /\ Len(current) <= MaxBuffer

(***************************************************************************)
(* observe_sse_chunk ends the response exactly when the stream has brought *)
(* a [DONE] event or could not be parsed, and records the time to the first*)
(* token exactly once, with the first event that has data.                 *)
(***************************************************************************)
Observed ==
  LET read == ReferenceEvents(stream, fed)
  IN  /\ done <=> failed \/ \E k \in DOMAIN read : IsDone(read[k])
      /\ ttfts = IF \E k \in DOMAIN read : read[k] # <<>> THEN 1 ELSE 0
=============================================================================
