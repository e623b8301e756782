--------------------------------- MODULE Poll ---------------------------------
(***************************************************************************)
(* PollConversationForImages of internal/upstream/chatgpt/image.go: the    *)
(* loop that asks the upstream for a conversation again and again until it *)
(* shows enough images, and backs off while it is answered with 429.       *)
(*                                                                         *)
(* An answer is abstracted to the references of its tool messages that are *)
(* not in the baseline; their order is left out.                           *)
(***************************************************************************)
EXTENDS Integers, FiniteSets

CONSTANTS Files, Seds,    \* file-service and sediment references, disjoint
          Ignored,        \* IgnoreFileIDs and IgnoreSedimentIDs
          ExpectedN,      \* opt.ExpectedN
          MaxWait,        \* opt.MaxWait
          Interval,       \* opt.Interval; 3 seconds
          BackoffStep,    \* 10 seconds
          BackoffCap,     \* 30 seconds
          CallMax         \* the HTTP client's timeout; 120 seconds

\* Options that are not positive are replaced by defaults.
ASSUME PollAssumption ==
  /\ ExpectedN \in Nat \ {0}
  /\ MaxWait \in Nat \ {0}
  /\ Interval \in Nat \ {0}
  /\ BackoffStep \in Nat /\ BackoffCap \in Nat
  /\ CallMax \in Nat

VARIABLES
  requireFile, \* opt.RequireFileService, as the call was given it
  clock,     \* the time
  ctx,       \* "live", "deadline" or "canceled"
  at,        \* "top", "calling", "sleeping" or "returned"
  wake,      \* when the sleep, or the call's timeout, ends
  all,       \* allFile and allSed
  rate,      \* consecutive429
  status,    \* the PollStatus returned
  last429,   \* history: how many answers in a row, up to the last, were 429
  shown,     \* history: every reference an answer showed
  answered   \* history: when the last answer came

history  == <<last429, shown, answered>>
pollVars == <<requireFile, clock, ctx, at, wake, all, rate, status, history>>

Refs == Files \cup Seds

PollInit ==
  /\ requireFile \in BOOLEAN
  /\ clock = 0
  /\ ctx = "live"
  /\ at = "top"
  /\ wake = 0
  /\ all = {}
  /\ rate = 0
  /\ status = "none"
  /\ last429 = 0
  /\ shown = {}
  /\ answered = 0

-----------------------------------------------------------------------------

\* With RequireFileService only file-service references count as images.
Usable(S) == IF requireFile THEN S \cap Files ELSE S

Return(s) ==
  /\ status' = s
  /\ at' = "returned"
  /\ UNCHANGED <<requireFile, clock, ctx, wake, all, rate, history>>

\* The wait is over: one image is enough.
EndByTime ==
  /\ at = "top"
  /\ clock >= MaxWait
  /\ Return(IF Usable(all) # {} THEN "success" ELSE "timeout")

\* Mutant: a canceled context is reported like a deadline.
StatusByCtxTimeout ==
  IF Usable(all) # {} THEN "success" ELSE IF ctx = "live" THEN "error" ELSE "timeout"

\* Also when the context is done, images that were seen count.
StatusByCtx ==
  IF Usable(all) # {} THEN "success"
  ELSE IF ctx = "deadline" THEN "timeout" ELSE "error"

EndByCtx ==
  /\ at = "top"
  /\ clock < MaxWait
  /\ ctx # "live"
  /\ Return(StatusByCtx)

Call ==
  /\ at = "top"
  /\ clock < MaxWait
  /\ ctx = "live"
  /\ at' = "calling"
  /\ wake' = clock + CallMax
  /\ UNCHANGED <<requireFile, clock, ctx, all, rate, status, history>>

Sleep(d) ==
  /\ at' = "sleeping"
  /\ wake' = clock + d

Answered(kind, S) ==
  /\ last429' = IF kind = "429" THEN last429 + 1 ELSE 0
  /\ shown' = shown \cup S
  /\ answered' = clock
  /\ UNCHANGED <<requireFile, clock, ctx>>

\* Mutants: the wait does not grow; it grows without a bound.
BackoffFlat(k)     == IF k > 0 THEN BackoffStep ELSE 0
BackoffUncapped(k) == k * BackoffStep

Backoff(k) == IF k * BackoffStep > BackoffCap THEN BackoffCap ELSE k * BackoffStep

Answer429 ==
  /\ at = "calling"
  /\ rate' = rate + 1
  /\ Sleep(Backoff(rate + 1))
  /\ Answered("429", {})
  /\ UNCHANGED <<all, status>>

\* Any other error; the count of 429 stays.
AnswerError ==
  /\ at = "calling"
  /\ Sleep(Interval)
  /\ Answered("error", {})
  /\ UNCHANGED <<all, rate, status>>

Enough(S) == Cardinality(Usable(S)) >= ExpectedN

\* What was seen so far and is not known to be an input.
Gather(S) == all \cup (S \ Ignored)

AnswerMapping(S) ==
  /\ at = "calling"
  /\ all' = Gather(S)
  /\ rate' = 0
  /\ Answered("mapping", S)
  /\ IF Enough(Gather(S))
     THEN at' = "returned" /\ status' = "success" /\ UNCHANGED wake
     ELSE Sleep(Interval) /\ UNCHANGED status

\* Mutant: the sleep does not look at the context.
AwakeByTimer == clock >= wake

\* sleep returns when its timer fires or the context is done.
Awake == clock >= wake \/ ctx # "live"

WakeUp ==
  /\ at = "sleeping"
  /\ Awake
  /\ at' = "top"
  /\ UNCHANGED <<requireFile, clock, ctx, wake, all, rate, status, history>>

-----------------------------------------------------------------------------

\* The task's deadline passes, or the request cancels the job.
CtxDone ==
  /\ ctx = "live"
  /\ at # "returned"
  /\ ctx' \in {"deadline", "canceled"}
  /\ UNCHANGED <<requireFile, clock, at, wake, all, rate, status, history>>

\* Time passes while the poll waits for its timer or for an answer; its own steps
\* take none.
TimePasses ==
  /\ at \in {"calling", "sleeping"}
  /\ clock < wake
  /\ clock' = clock + 1
  /\ UNCHANGED <<requireFile, ctx, at, wake, all, rate, status, history>>

Answer == Answer429 \/ AnswerError \/ \E S \in SUBSET Refs : AnswerMapping(S)
Proceed == EndByTime \/ EndByCtx \/ Call \/ WakeUp

PollNext == Proceed \/ Answer \/ CtxDone \/ TimePasses

PollSpec == PollInit /\ [][PollNext]_pollVars

\* The goroutine goes on, and a call whose context is done or whose time is over
\* fails.  Time itself may stand still.
CtxFairSpec == PollSpec /\ WF_pollVars(Proceed) /\ WF_pollVars(ctx # "live" /\ AnswerError)

-----------------------------------------------------------------------------

\* The usable references that the answers have shown.
ImagesShown == (IF requireFile THEN shown \cap Files ELSE shown) \ Ignored

\* The status says what there is and why there is no more: images of any answer,
\* before or after errors, make a success, also at the deadline and at a
\* cancellation; a timeout means that time ran out with no image seen, also when
\* every answer was a 429; an error means that the request canceled the job and
\* nothing else, although the comment on PollStatusError names a break after answers
\* of 429 as well: there is none in the code.
StatusTellsAll ==
  at = "returned" =>
    /\ status = "success" <=> ImagesShown # {}
    /\ status = "timeout" => clock >= MaxWait \/ ctx = "deadline"
    /\ status = "error" => ctx = "canceled"
    /\ all = shown \ Ignored

\* The upstream is not asked again before the wait its last answers call for,
\* which grows with every further 429, whatever lies before them.
BacksOff ==
  [][at' = "calling" /\ at # "calling" =>
       clock >= answered + (IF last429 * BackoffStep > BackoffCap
                          THEN BackoffCap ELSE last429 * BackoffStep)]_pollVars

Longest(a, b) == IF a > b THEN a ELSE b

\* The poll overruns its time by one call and one backoff at most, whatever the
\* answers are.
OverrunBounded ==
  at # "returned" => clock < MaxWait + CallMax + Longest(Interval, BackoffCap)

\* It returns when the context is done, also out of a long backoff.
CtxReturns == ctx # "live" ~> at = "returned"

=============================================================================
