----------------------------- MODULE ImageRequest -----------------------------
(***************************************************************************)
(* One image request of internal/server/server.go: validation, the wait in *)
(* the image queue, the parallel jobs, the loop that gathers their results *)
(* and the reply.  A request is one call of the gate: every step that      *)
(* touches the queue is the gate's own action.                             *)
(*                                                                         *)
(* Runner.Run is abstracted to what the request sees of it: the job ends   *)
(* at some time, with some images or with an error code (module Runner).   *)
(***************************************************************************)
EXTENDS Gate

CONSTANTS NArgs,      \* values of the request's field n
          MaxImages,  \* images one job may return, a bound
          JobErrors   \* error codes of Runner.Run that occur

NoErr == "none"

ASSUME RequestAssumption ==
  /\ NArgs \subseteq Int
  /\ MaxImages \in Nat \ {0}
  /\ NoErr \notin JobErrors

VARIABLES
  stage,      \* where the handler is
  n,          \* the number of images asked for, normalized
  job,        \* the job goroutines of a request
  results,    \* the buffered channel of results: job indices
  completed,  \* results received
  items,      \* images gathered
  lastErr,    \* the last error received
  stopped,    \* requests that called cancelJobs
  gone,       \* requests whose client has gone: req.Context is done
  late,       \* requests whose queue_wait_timeout passed while they waited
  reply       \* what the client is told

request == <<stage, n, job, results, completed, items, lastErr, stopped, gone,
             late, reply>>
reqVars == <<vars, request>>

Stages == {"new", "queue", "collect", "leaving", "returned"}

\* normalizeN cuts n off at four, the most jobs a request has.
JobIds == 1..4

Idle    == [at |-> "none", images |-> 0, code |-> NoErr]
Running == [at |-> "running", images |-> 0, code |-> NoErr]
Outcomes ==
  [at : {"ended"}, images : 1..MaxImages, code : {NoErr}] \cup
  [at : {"ended"}, images : {0}, code : JobErrors]

NoReply    == [status |-> 0, code |-> NoErr, images |-> 0]
Images(k)  == [status |-> 200, code |-> NoErr, images |-> k]
Error(s, c) == [status |-> s, code |-> c, images |-> 0]

RequestInit ==
  /\ Init
  /\ stage = [r \in Calls |-> "new"]
  /\ n = [r \in Calls |-> 1]
  /\ job = [r \in Calls |-> [i \in JobIds |-> Idle]]
  /\ results = [r \in Calls |-> <<>>]
  /\ completed = [r \in Calls |-> 0]
  /\ items = [r \in Calls |-> 0]
  /\ lastErr = [r \in Calls |-> NoErr]
  /\ stopped = {}
  /\ gone = {}
  /\ late = {}
  /\ reply = [r \in Calls |-> NoReply]

To(r, s)    == stage' = [stage EXCEPT ![r] = s]
Says(r, m)  == reply' = [reply EXCEPT ![r] = m]

-----------------------------------------------------------------------------
(* Validation and the image queue                                            *)

normalizeN(v) == IF v <= 0 THEN 1 ELSE IF v > 4 THEN 4 ELSE v

\* withAuth and the checks of the two handlers answer by themselves.
Refuse(r) ==
  /\ stage[r] = "new"
  /\ \E m \in {Error(401, "invalid_api_key"), Error(400, "invalid_request_error")} :
       Says(r, m)
  /\ To(r, "returned")
  /\ UNCHANGED <<vars, n, job, results, completed, items, lastErr, stopped,
                 gone, late>>

Accept(r) ==
  /\ stage[r] = "new"
  /\ \E v \in NArgs : n' = [n EXCEPT ![r] = normalizeN(v)]
  /\ To(r, "queue")
  /\ UNCHANGED <<vars, job, results, completed, items, lastErr, stopped, gone,
                 late, reply>>

\* The queue's lease is there: all jobs are started.
Start(r) ==
  /\ stage[r] = "queue"
  /\ AcquireFast(r) \/ WakeReady(r) \/ AbandonLate(r)
  /\ job' = [job EXCEPT ![r] =
       [i \in JobIds |-> IF i <= n[r] THEN Running ELSE Idle]]
  /\ To(r, "collect")
  /\ UNCHANGED <<n, results, completed, items, lastErr, stopped, gone, late,
                 reply>>

QueueStep(r) ==
  /\ stage[r] = "queue"
  /\ Enqueue(r) \/ WakeDone(r)
  /\ UNCHANGED request

\* The HTTP status of an error code: writeRunnerError.
StatusOf(c) ==
  CASE c \in {"no_available_account", "network_transient", "queue_full",
              "queue_timeout"} -> 503
    [] c = "rate_limited"  -> 429
    [] c = "auth_required" -> 401
    [] c = "no_image_task" -> 400
    [] c = "image_timeout" -> 504
    [] OTHER               -> 502

\* Mutant: the deadline of the queue is reported like any other error.
QueueErrorPlain(r) == IF FALSE /\ r \in late THEN "queue_timeout" ELSE "upstream_error"

\* acquireImageQueue tells its own deadline from the client's cancellation,
\* which goes through as a plain error.
QueueError(r) == IF r \in late THEN "queue_timeout" ELSE "upstream_error"

TurnAway(r) ==
  /\ stage[r] = "queue"
  /\ \/ AcquireFull(r) /\ Says(r, Error(StatusOf("queue_full"), "queue_full"))
     \/ Abandon(r) /\ Says(r, Error(StatusOf(QueueError(r)), QueueError(r)))
  /\ To(r, "returned")
  /\ UNCHANGED <<n, job, results, completed, items, lastErr, stopped, gone,
                 late>>

-----------------------------------------------------------------------------
(* The jobs                                                                  *)

\* Mutant: the channel has room for one result, not for jobCount of them.
RoomForOne(r) == Len(results[r]) < 1

\* The results channel has jobCount places.
Room(r) == Len(results[r]) < n[r]

\* Run returns and the result is sent; a job may end either way whether its
\* context was canceled or not.
JobEnds(r, i) ==
  /\ job[r][i] = Running
  /\ Room(r)
  /\ \E o \in Outcomes : job' = [job EXCEPT ![r][i] = o]
  /\ results' = [results EXCEPT ![r] = Append(@, i)]
  /\ UNCHANGED <<vars, stage, n, completed, items, lastErr, stopped, gone, late,
                 reply>>

\* What a job's error code becomes on its way to the handler.
Told(c) == IF c = "poll_timeout" THEN "image_timeout" ELSE c

-----------------------------------------------------------------------------
(* The loop that gathers the results                                         *)

\* Mutants: the loop ends one result early; the loop ends at the first error.
LoopGoesShort(r)   == completed[r] < n[r] - 1 /\ items[r] < n[r]
LoopGoesNoError(r) == completed[r] < n[r] /\ items[r] < n[r] /\ lastErr[r] = NoErr

LoopGoes(r) == completed[r] < n[r] /\ items[r] < n[r]

\* The images of a result that are kept: at most n in all.
RoomInReply(r, k) == IF k <= n[r] - items[r] THEN k ELSE n[r] - items[r]

Collect(r) ==
  /\ stage[r] = "collect"
  /\ LoopGoes(r)
  /\ results[r] # <<>>
  /\ LET o == job[r][Head(results[r])] IN
       /\ items' = [items EXCEPT ![r] = @ + RoomInReply(r, o.images)]
       /\ lastErr' = [lastErr EXCEPT ![r] =
            IF o.code = NoErr THEN @ ELSE Told(o.code)]
  /\ results' = [results EXCEPT ![r] = Tail(@)]
  /\ completed' = [completed EXCEPT ![r] = @ + 1]
  /\ UNCHANGED <<vars, stage, n, job, stopped, gone, late, reply>>

\* Mutant: nothing calls cancelJobs.
CancelJobsNever(r) == UNCHANGED stopped

cancelJobs(r) == stopped' = stopped \cup {r}

\* Mutant: the loop's select does not look at the context.
GiveUpNever(r) == FALSE /\ stage[r] = "collect" /\ UNCHANGED reqVars

\* The select takes ctx.Done; it may also take a result that is there.
GiveUp(r) ==
  /\ stage[r] = "collect"
  /\ LoopGoes(r)
  /\ r \in gone
  /\ cancelJobs(r)
  /\ Says(r, Error(StatusOf("image_timeout"), "image_timeout"))
  /\ To(r, "leaving")
  /\ UNCHANGED <<vars, n, job, results, completed, items, lastErr, gone, late>>

\* The loop is over: what there is of images, or the last error.
Finish(r) ==
  /\ stage[r] = "collect"
  /\ ~LoopGoes(r)
  /\ cancelJobs(r)
  /\ Says(r, IF items[r] > 0 THEN Images(items[r])
             ELSE IF lastErr[r] # NoErr THEN Error(StatusOf(lastErr[r]), lastErr[r])
             ELSE Error(StatusOf("download_failed"), "download_failed"))
  /\ To(r, "leaving")
  /\ UNCHANGED <<vars, n, job, results, completed, items, lastErr, gone, late>>

\* The deferred Release runs, and the handler writes the reply.
Leave(r) ==
  /\ stage[r] = "leaving"
  /\ Release(r)
  /\ To(r, "returned")
  /\ UNCHANGED <<n, job, results, completed, items, lastErr, stopped, gone, late,
                 reply>>

-----------------------------------------------------------------------------
(* The environment: queue_wait_timeout passes, or the client goes away.      *)

QueueDeadline(r) ==
  /\ stage[r] = "queue"
  /\ CtxDone(r)
  /\ late' = late \cup {r}
  /\ UNCHANGED <<stage, n, job, results, completed, items, lastErr, stopped, gone,
                 reply>>

\* The context of the wait is a child of the request's.
ClientGone(r) ==
  /\ stage[r] \in {"queue", "collect"}
  /\ r \notin gone
  /\ gone' = gone \cup {r}
  /\ \/ CtxDone(r)
     \/ (pc[r] \notin {"idle", "waiting"} \/ r \in ctxDone) /\ UNCHANGED vars
  /\ UNCHANGED <<stage, n, job, results, completed, items, lastErr, stopped, late,
                 reply>>

RequestNext ==
  \E r \in Calls :
    \/ Refuse(r)
    \/ Accept(r)
    \/ Start(r)
    \/ QueueStep(r)
    \/ TurnAway(r)
    \/ \E i \in JobIds : JobEnds(r, i)
    \/ Collect(r)
    \/ GiveUp(r)
    \/ Finish(r)
    \/ Leave(r)
    \/ QueueDeadline(r)
    \/ ClientGone(r)

RequestSpec == RequestInit /\ [][RequestNext]_reqVars

\* A handler that can go on does.
HandlerRuns(r) ==
  Start(r) \/ QueueStep(r) \/ TurnAway(r) \/ Collect(r) \/ GiveUp(r) \/ Finish(r)
    \/ Leave(r)

\* Every job returns, as module Runner's RunReturns says; a request does not rest
\* on it, RequestEnds takes it as a hypothesis.
JobsRun == \A r \in Calls : WF_reqVars(\E i \in JobIds : JobEnds(r, i))

RequestFairSpec == RequestSpec /\ \A r \in Calls : WF_reqVars(HandlerRuns(r))

-----------------------------------------------------------------------------

Live(r) == \E i \in JobIds : job[r][i] = Running

\* A handler holds its slot from Acquire to its return and never after it: no
\* path of generateImages loses the lease, and a slot that is granted to a
\* request that was just giving up is either used or handed on.
SlotWhileServing ==
  \A r \in Calls :
    /\ stage[r] \in {"collect", "leaving"} <=> pc[r] = "leased"
    /\ stage[r] = "returned" => r \notin Holders

\* Jobs that are not canceled run only under a slot: the limit of the gate bounds
\* the requests that have jobs at work, whether the request's own loop ended
\* early, the client went away or the deadline of the wait passed at the grant.
JobsUnderSlot ==
  /\ \A r \in Calls :
       Live(r) /\ r \notin stopped \cup gone => pc[r] = "leased"
  /\ Cardinality({r \in Calls : Live(r) /\ r \notin stopped \cup gone}) <= limit

\* A reply has as many images as the jobs brought, up to the number asked for,
\* and falls short of it only when no job is still at work.
ImagesOf(r) ==
  LET brought(i) == job[r][i].images
  IN  brought(1) + brought(2) + brought(3) + brought(4)

NothingLost ==
  \A r \in Calls : reply[r].status = 200 =>
    /\ reply[r].images \in 1..n[r]
    /\ reply[r].images < n[r] =>
         ~Live(r) /\ ImagesOf(r) = reply[r].images

\* One failed job never costs the images of another: while the client is there,
\* an error of a job is the reply only if all the jobs of the request failed, and
\* then it is one of theirs, a poll that ran out being told as image_timeout.
ErrorOnlyIfAllFailed ==
  \A r \in Calls :
    stage[r] \in {"leaving", "returned"} /\ pc[r] \in {"leased", "released"} =>
      \/ reply[r].status = 200
      \/ r \in gone /\ reply[r].code = "image_timeout"
      \/ /\ ImagesOf(r) = 0
         /\ ~Live(r)
         /\ \E i \in JobIds :
              /\ job[r][i].code # NoErr
              /\ reply[r].code = IF job[r][i].code = "poll_timeout"
                                THEN "image_timeout" ELSE job[r][i].code

\* A request that got no slot is told 503 when the line was full or its time in
\* the line was over, and has started no job.
TurnedAwayIsUnavailable ==
  \A r \in Calls : pc[r] = "failed" =>
    /\ reply[r].status = 503 \/ r \in gone
    /\ \A i \in JobIds : job[r][i] = Idle

\* A request whose client has gone returns, even if no job ever ends.
GoneReturns ==
  \A r \in Calls : r \in gone ~> stage[r] = "returned"

\* If every job returns, every accepted request does and all its jobs end: a job
\* whose request did not wait for it is not stuck in its send, and no request
\* starves in the line.
RequestEnds ==
  JobsRun =>
    \A r \in Calls : stage[r] = "queue" ~> stage[r] = "returned" /\ ~Live(r)

=============================================================================
