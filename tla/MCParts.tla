------------------------------- MODULE MCParts --------------------------------
(***************************************************************************)
(* Small instances for TLC of three components that share nothing: the     *)
(* blob store, the event stream and the image poll.  A behaviour is one of *)
(* any of the three; the other two stay in their initial states.           *)
(***************************************************************************)
EXTENDS BlobStore, SseStream, Poll

CONSTANTS b1, b2, b3, f1, f2, f3, s1

\* blob_ttl may be written as a negative duration too.
SomeTTLs == {-1, 0, 2}

VARIABLE part

allVars == <<part, vars, streamVars, pollVars>>

PartsInit ==
  /\ part \in {"blobs", "stream", "poll"}
  /\ Init /\ StreamInit /\ PollInit
  /\ part # "blobs" => ttl = 0
  /\ part # "poll" => ~requireFile

Blobs(A)   == part = "blobs" /\ A /\ UNCHANGED <<part, streamVars, pollVars>>
Streams(A) == part = "stream" /\ A /\ UNCHANGED <<part, vars, pollVars>>
Polls(A)   == part = "poll" /\ A /\ UNCHANGED <<part, vars, streamVars>>

PartsNext == Blobs(Next) \/ Streams(StreamNext) \/ Polls(PollNext)

\* The fairness of StreamFairSpec in SseStream and of CtxFairSpec in Poll.
PartsSpec ==
  /\ PartsInit /\ [][PartsNext]_allVars
  /\ WF_allVars(Streams(Send)) /\ WF_allVars(Streams(Close))
  /\ WF_allVars(Streams(Take \/ RangeEnds))
  /\ WF_allVars(Streams(canceled /\ ReadFails))
  /\ WF_allVars(Streams(Cancel))
  /\ WF_allVars(Polls(Proceed))
  /\ WF_allVars(Polls(ctx # "live" /\ AnswerError))

=============================================================================
