------------------------------ MODULE SseStream ------------------------------
(***************************************************************************)
(* The event stream of one upstream conversation: parseSSE of              *)
(* internal/upstream/chatgpt/conversation.go, a goroutine that reads the   *)
(* body line by line and sends events into a buffered channel, and         *)
(* ParseImageSSE of image.go, which takes them out.                        *)
(*                                                                         *)
(* A line is abstracted to its kind and, for a data line, to what its      *)
(* event would be good for: a member of Payloads or the end mark.          *)
(***************************************************************************)
EXTENDS Integers, Sequences, FiniteSets, Functions

CONSTANTS Payloads,  \* references that a data line may carry
          Capacity,  \* places in the channel, at least one; 64 in the code
          MaxLines   \* bound: lines of the body

VARIABLES
  lines,     \* history: the lines read so far
  buf,       \* dataBuf
  sending,   \* what the parser is sending: at most one event
  channel,   \* out
  parser,    \* "reading", "ending" (its last event to send), "closed"
  taken,     \* history: the events the consumer took
  result,    \* r of ParseImageSSE: the references seen, in their order
  consumer,  \* "ranging" or "returned"
  canceled   \* the context of the request is done

streamVars == <<lines, buf, sending, channel, parser, taken, result, consumer,
                canceled>>

DoneMark == "[DONE]"
Blank    == "blank"
Other    == "other"    \* a comment, an event: line or anything else
Lines    == Payloads \cup {DoneMark, Blank, Other}
ReadErr  == <<"err">>

\* The four kinds of line and the error are told apart.
ASSUME StreamAssumption ==
  /\ Payloads \cap {DoneMark, Blank, Other, "err"} = {}
  /\ Capacity \in Nat \ {0}
  /\ MaxLines \in Nat

\* The elements of a sequence at the positions P, in their order.
UpTo(P, i) == {j \in P : j <= i}
Nth(P, k)  == CHOOSE i \in P : Cardinality(UpTo(P, i)) = k
Pick(s, P) == [k \in 1..Cardinality(P) |-> s[Nth(P, k)]]

StreamInit ==
  /\ lines = <<>>
  /\ buf = <<>>
  /\ sending = <<>>
  /\ channel = <<>>
  /\ parser = "reading"
  /\ taken = <<>>
  /\ result = <<>>
  /\ consumer = "ranging"
  /\ canceled = FALSE

-----------------------------------------------------------------------------
(* parseSSE                                                                  *)

\* An event is the sequence of its data lines; without one nothing is sent.
Flush ==
  /\ sending' = IF buf = <<>> THEN <<>> ELSE <<buf>>
  /\ buf' = <<>>

\* Lines that are in the reader's buffer are read also after a cancellation.
ReadLine ==
  /\ parser = "reading"
  /\ sending = <<>>
  /\ Len(lines) < MaxLines
  /\ \E l \in Lines :
       /\ lines' = Append(lines, l)
       /\ CASE l = Blank -> Flush
            [] l = Other -> UNCHANGED <<buf, sending>>
            [] OTHER     -> buf' = Append(buf, l) /\ UNCHANGED sending
  /\ UNCHANGED <<channel, parser, taken, result, consumer, canceled>>

\* io.EOF: an event without a blank line after it is sent too.
EndOfBody ==
  /\ parser = "reading"
  /\ sending = <<>>
  /\ Flush
  /\ parser' = "ending"
  /\ UNCHANGED <<lines, channel, taken, result, consumer, canceled>>

\* Mutant: a read does not end with the context.
ReadFailsNever == parser = "reading" /\ FALSE /\ UNCHANGED streamVars

\* Any other error of the read, as when the context is done: the lines that were
\* not flushed are dropped.
ReadFails ==
  /\ parser = "reading"
  /\ sending = <<>>
  /\ sending' = <<ReadErr>>
  /\ parser' = "ending"
  /\ UNCHANGED <<lines, buf, channel, taken, result, consumer, canceled>>

\* Mutant: a full channel makes the parser drop its event.
SendOrDrop ==
  /\ sending # <<>>
  /\ channel' = IF Len(channel) < Capacity THEN channel \o sending ELSE channel
  /\ sending' = <<>>
  /\ UNCHANGED <<lines, buf, parser, taken, result, consumer, canceled>>

\* The send; it does not look at the context.
Send ==
  /\ sending # <<>>
  /\ Len(channel) < Capacity
  /\ channel' = channel \o sending
  /\ sending' = <<>>
  /\ UNCHANGED <<lines, buf, parser, taken, result, consumer, canceled>>

\* The deferred close of the channel and of the body.
Close ==
  /\ parser = "ending"
  /\ sending = <<>>
  /\ parser' = "closed"
  /\ UNCHANGED <<lines, buf, sending, channel, taken, result, consumer, canceled>>

-----------------------------------------------------------------------------
(* ParseImageSSE                                                             *)

Stops(e) == e = ReadErr \/ e = <<DoneMark>>

\* Mutant: a reference is only looked for in its own event.
NewRefsOfEvent(seq, e) == Pick(e, {i \in 1..Len(e) : e[i] \in Payloads})

\* The references of an event that are new.
NewAt(seq, e) ==
  {i \in 1..Len(e) : e[i] \in Payloads \ Range(seq) /\ \A j \in 1..(i - 1) : e[j] # e[i]}
NewRefs(seq, e) == Pick(e, NewAt(seq, e))

Take ==
  /\ consumer = "ranging"
  /\ channel # <<>>
  /\ taken' = Append(taken, Head(channel))
  /\ channel' = Tail(channel)
  /\ IF Stops(Head(channel))
     THEN consumer' = "returned" /\ UNCHANGED result
     ELSE result' = result \o NewRefs(result, Head(channel)) /\ UNCHANGED consumer
  /\ UNCHANGED <<lines, buf, sending, parser, canceled>>

\* The channel is closed and empty.
RangeEnds ==
  /\ consumer = "ranging"
  /\ parser = "closed"
  /\ channel = <<>>
  /\ consumer' = "returned"
  /\ UNCHANGED <<lines, buf, sending, channel, parser, taken, result, canceled>>

-----------------------------------------------------------------------------

\* The deadline of the task passes or the request cancels it; at the latest when
\* runOnce returns.
Cancel ==
  /\ ~canceled
  /\ canceled' = TRUE
  /\ UNCHANGED <<lines, buf, sending, channel, parser, taken, result, consumer>>

StreamNext ==
  \/ ReadLine \/ EndOfBody \/ ReadFails \/ Send \/ Close
  \/ Take \/ RangeEnds
  \/ Cancel

StreamSpec == StreamInit /\ [][StreamNext]_streamVars

\* The goroutines go on, a read fails once the context is done, and the context is
\* done in the end.  The upstream owes nothing.
StreamFairSpec ==
  /\ StreamSpec
  /\ WF_streamVars(Send) /\ WF_streamVars(Close)
  /\ WF_streamVars(Take \/ RangeEnds)
  /\ WF_streamVars(canceled /\ ReadFails)
  /\ WF_streamVars(Cancel)

-----------------------------------------------------------------------------

\* The events of a body, from the format's definition: the data lines between two
\* blank lines are one event.
IsData(l) == l \in Payloads \cup {DoneMark}
DataBefore(s, b) ==
  {i \in 1..(b - 1) : IsData(s[i]) /\ \A j \in i..(b - 1) : s[j] # Blank}
DataLines(s, b) == Pick(s, DataBefore(s, b))
EventEnds(s) == {b \in 1..Len(s) : s[b] = Blank /\ DataBefore(s, b) # {}}
EventsOf(s)  == Pick([b \in 1..Len(s) |-> DataLines(s, b)], EventEnds(s))

\* The data lines after the last blank line.
RestOf(s) == DataLines(s, Len(s) + 1)

\* Nothing is lost, doubled or reordered between the body and the consumer: what
\* was taken, what is in the channel and what is being sent are the events of the
\* lines read so far, at the end with the unfinished one or with the error, and
\* nothing comes after those.
Conveyed ==
  LET events == EventsOf(lines)
      all    == taken \o channel \o sending
      rest   == IF RestOf(lines) = <<>> THEN <<>> ELSE <<RestOf(lines)>>
  IN  IF parser = "reading" THEN all = events
      ELSE all \in {events \o rest, Append(events, ReadErr)}

\* Where the events taken carry a reference, and which place comes first.
Places == UNION {{i} \X (1..Len(taken[i])) : i \in {j \in 1..Len(taken) : ~Stops(taken[j])}}
Sighted(p) == {a \in Places : taken[a[1]][a[2]] = p}
Before(a, b) == a[1] < b[1] \/ (a[1] = b[1] /\ a[2] < b[2])

\* What ParseImageSSE reports is what the events before the end mark or an error
\* carry, each reference once and in the order of arrival, however the two
\* goroutines interleave and wherever a cancellation falls; in particular an
\* error takes nothing back.
ResultIsPrefix ==
  /\ Range(result) = {p \in Payloads : Sighted(p) # {}}
  /\ \A m, n \in 1..Len(result) : m < n =>
       \E a \in Sighted(result[m]) : \A b \in Sighted(result[n]) : Before(a, b)
  /\ \A i \in 1..Len(taken) :
       Stops(taken[i]) => i = Len(taken) /\ consumer = "returned"

\* Canceling the context makes ParseImageSSE return and frees the connection, as the
\* comment of StreamConversation says, whatever the upstream does.  One case is
\* excepted: the consumer stopped at the end mark, and more events follow than the
\* channel takes.
StuckInSend ==
  consumer = "returned" /\ sending # <<>> /\ Len(channel) = Capacity

CancelReleases ==
  canceled ~> consumer = "returned" /\ (parser = "closed" \/ StuckInSend)

=============================================================================
