-------------------------------- MODULE Runner --------------------------------
(***************************************************************************)
(* One image job: Runner.Run of internal/runner/runner.go, a goroutine     *)
(* that leases an account of the pool, runs the upstream conversation on   *)
(* it, and reports to the pool what happened.  Every step that touches the *)
(* pool is the pool's own action, so the jobs here are the pool's jobs     *)
(* with the order of their steps filled in.                                *)
(*                                                                         *)
(* The upstream is abstracted to what the runner tells apart: the class of *)
(* an error, and what an SSE stream or a poll showed.  Each job runs once. *)
(***************************************************************************)
EXTENDS Pool

CONSTANT Edits   \* jobs that carry reference images

ASSUME RunnerAssumption == Edits \subseteq Jobs

VARIABLES
  stage,     \* where Run is
  attempt,   \* 1 or 2
  code,      \* the code of the last attempt; NoCode: it succeeded
  reason,    \* why a no-image failure was recorded in this attempt
  reported,  \* cr.Persona of this attempt
  preview,   \* jobs whose stream showed only initial sediment previews
  expired,   \* jobs whose task deadline has passed
  canceled,  \* jobs whose request canceled them
  charged,   \* history: the account and cooldown of the first attempt's failure
  tasks,     \* history: image tasks that the upstream has begun for a job
  unseen     \* history: jobs whose stream ended without showing the task begun

run     == <<stage, attempt, code, reason, reported, preview, expired, canceled,
             charged, tasks, unseen>>
runVars == <<vars, run>>

NoCode    == ""
Codes     == {NoCode, "unknown", "no_available_account", "auth_required",
              "rate_limited", "network_transient", "pow_timeout", "pow_failed",
              "no_image_task", "preview_only", "poll_timeout", "download_failed",
              "upstream_error"}
NoReason  == "none"
NotCharged == [name |-> Nobody, until |-> 0]

\* Stages under the task's deadline, and all of them: "waiting" for an account,
\* "release" with the deferred calls to run, "between" two attempts.
Body == {"client", "upload", "requirements", "proof", "prepare", "stream", "sse",
         "charge", "poll", "download"}
Waits == Body \ {"client", "charge"}   \* those that wait for someone else
Stages == Body \cup {"waiting", "release", "between", "returned"}

To(j, s) == stage' = [stage EXCEPT ![j] = s]
Reports(j, c) == code' = [code EXCEPT ![j] = c]

RunInit ==
  /\ Init
  /\ stage = [j \in Jobs |-> "waiting"]
  /\ attempt = [j \in Jobs |-> 1]
  /\ code = [j \in Jobs |-> "unknown"]
  /\ reason = [j \in Jobs |-> NoReason]
  /\ reported = [j \in Jobs |-> NoPersona]
  /\ preview = {}
  /\ expired = {}
  /\ canceled = {}
  /\ charged = [j \in Jobs |-> NotCharged]
  /\ tasks = [j \in Jobs |-> 0]
  /\ unseen = {}

-----------------------------------------------------------------------------
(* runOnce: the account                                                      *)

Acquiring(j) ==
  /\ stage[j] = "waiting"
  /\ Look(j) \/ Miss(j)
  /\ UNCHANGED run

Acquired(j) ==
  /\ stage[j] = "waiting"
  /\ Grant(j)
  /\ To(j, "client")
  /\ UNCHANGED <<attempt, code, reason, reported, preview, expired, canceled,
                 charged, tasks, unseen>>

\* ErrNoAvailable, or ctx.Err() when it was the request that was canceled; which
\* of the two contexts ended first is not kept.
AcquireErrors(j) ==
  {"no_available_account"} \cup (IF j \in canceled THEN {"unknown"} ELSE {})

\* A configuration that was loaded has an enabled account, so Acquire never finds
\* an empty list here.
NotAcquired(j) ==
  /\ stage[j] = "waiting"
  /\ GiveUp(j)
  /\ \E c \in AcquireErrors(j) : Reports(j, c)
  /\ To(j, "between")
  /\ UNCHANGED <<attempt, reason, reported, preview, expired, canceled, charged,
                 tasks, unseen>>

-----------------------------------------------------------------------------
(* The conversation                                                          *)

\* Mutant: the calls do not use the context with the task's deadline.
CutByRequest(j) == j \in canceled

\* The context of the job's calls is done.
Cut(j) == j \in expired \cup canceled

\* Mutant: an error returns without the deferred Release.
FailsUnreleased(j, c) == Reports(j, c) /\ To(j, "between")

\* The attempt ends with an error.
Fails(j, c) == Reports(j, c) /\ To(j, "release")

NewClient(j) ==
  /\ stage[j] = "client"
  /\ \/ To(j, "upload") /\ UNCHANGED code
     \/ Fails(j, "unknown")
  /\ UNCHANGED <<vars, attempt, reason, reported, preview, expired, canceled,
                 charged, tasks, unseen>>

\* The upstream calls of this job, in their order.
Calling(j) ==
  {"requirements", "prepare", "stream"} \cup
    (IF j \in Edits THEN {"upload"} ELSE {})

\* Without reference images nothing is uploaded.
Uploaded(j) ==
  /\ stage[j] = "upload"
  /\ j \in Edits => ~Cut(j)
  /\ To(j, "requirements")
  /\ UNCHANGED <<vars, attempt, code, reason, reported, preview, expired,
                 canceled, charged, tasks, unseen>>

\* The answer tells the account's persona and whether it wants a proof of work.
Required(j) ==
  /\ stage[j] = "requirements"
  /\ ~Cut(j)
  /\ \E p \in Personas \cup {NoPersona} :
       /\ reported' = [reported EXCEPT ![j] = p]
       /\ IF p # NoPersona /\ IsListed(held[j].name)
          THEN MarkPersona(j, p) ELSE UNCHANGED vars
  /\ \E s \in {"proof", "prepare"} : To(j, s)
  /\ UNCHANGED <<attempt, code, reason, preview, expired, canceled, charged,
                 tasks, unseen>>

\* The solver ends, or the 8 seconds or the job's context do.
Proved(j) ==
  /\ stage[j] = "proof"
  /\ \/ To(j, "prepare") /\ UNCHANGED code
     \/ \E c \in {"pow_failed", "pow_timeout"} : Fails(j, c)
  /\ UNCHANGED <<vars, attempt, reason, reported, preview, expired, canceled,
                 charged, tasks, unseen>>

Prepared(j) ==
  /\ stage[j] = "prepare"
  /\ ~Cut(j)
  /\ To(j, "stream")
  /\ UNCHANGED <<vars, attempt, code, reason, reported, preview, expired,
                 canceled, charged, tasks, unseen>>

Streaming(j) ==
  /\ stage[j] = "stream"
  /\ ~Cut(j)
  /\ To(j, "sse")
  /\ UNCHANGED <<vars, attempt, code, reason, reported, preview, expired,
                 canceled, charged, tasks, unseen>>

\* classifyUpstream: the upstream answers with a status, which may have come before
\* the context was done and the rest of the answer was cut off; or the call ends
\* with its context; or the connection or the client times out.
Failures(j) ==
  {"rate_limited", "auth_required", "upstream_error"} \cup
    (IF Cut(j) THEN IF j \in expired THEN {"poll_timeout"} ELSE {}
               ELSE {"network_transient", "poll_timeout"})

\* Mutant: only a rate limit is told to the pool.
Tell429Only(j, c) ==
  IF c = "rate_limited" /\ RateCooldown > 0 /\ IsListed(held[j].name)
  THEN MarkCooldown(j) ELSE UNCHANGED vars

\* What the pool is told of a failed call.
Tell(j, c) ==
  CASE c = "rate_limited" /\ RateCooldown > 0 /\ IsListed(held[j].name) ->
         MarkCooldown(j)
    [] c = "auth_required" /\ IsListed(held[j].name) -> MarkUnauthorized(j)
    [] OTHER -> UNCHANGED vars

\* The upstream begins an image task, or does not.
Begins(j, began) == tasks' = IF began THEN [tasks EXCEPT ![j] = @ + 1] ELSE tasks

\* Of the call that opens the conversation, also the answer may be lost.
CallFails(j) ==
  /\ stage[j] \in Calling(j)
  /\ \E c \in Failures(j), began \in BOOLEAN :
       /\ began => stage[j] = "stream" /\ c \notin {"rate_limited", "auth_required"}
       /\ Tell(j, c) /\ Fails(j, c)
       /\ Begins(j, began)
  /\ UNCHANGED <<attempt, reason, reported, preview, expired, canceled, charged,
                 unseen>>

-----------------------------------------------------------------------------
(* The stream, the poll and the downloads                                    *)

\* The end of the stream, or of what came before it broke or its context ended:
\* usable references, the id of an image task, neither; for an edit the initial
\* sediment previews are ignored.  What is shown is of a task that was begun; one
\* may have been begun and not been shown.
Streamed(j, refs, task, previews, began) ==
  /\ stage[j] = "sse"
  /\ previews => j \in Edits
  /\ refs \/ task \/ previews => began
  /\ preview' = IF previews THEN preview \cup {j} ELSE preview
  /\ Begins(j, began)
  /\ unseen' = IF began /\ ~refs /\ ~task THEN unseen \cup {j} ELSE unseen
  /\ IF ~refs /\ ~task
     THEN RecordBegin(j) /\ reason' = [reason EXCEPT ![j] = "no_image_task"]
     ELSE UNCHANGED <<vars, reason>>
  /\ To(j, IF refs THEN "download" ELSE IF task THEN "poll" ELSE "charge")
  /\ UNCHANGED <<attempt, code, reported, expired, canceled, charged>>

Polled(j) ==
  /\ stage[j] = "poll"
  /\ ~Cut(j)
  /\ To(j, "download")
  /\ UNCHANGED <<vars, attempt, code, reason, reported, preview, expired,
                 canceled, charged, tasks, unseen>>

\* poll_max_wait or the task's deadline; also when the wait ends just as the
\* request is canceled.
PollTimeout(j) ==
  /\ stage[j] = "poll"
  /\ RecordBegin(j)
  /\ reason' = [reason EXCEPT ![j] = "poll_timeout"]
  /\ To(j, "charge")
  /\ UNCHANGED <<attempt, code, reported, preview, expired, canceled, charged,
                 tasks, unseen>>

PollCanceled(j) ==
  /\ stage[j] = "poll"
  /\ j \in canceled
  /\ Fails(j, "upstream_error")
  /\ UNCHANGED <<vars, attempt, reason, reported, preview, expired, canceled,
                 charged, tasks, unseen>>

\* The attempt's code when no image came and the account was not cooled.
NoImageCode(j) ==
  CASE reason[j] = "no_image_task" -> "no_image_task"
    [] j \in preview               -> "preview_only"
    [] OTHER                       -> "poll_timeout"

\* recordNoImageFailure, and the error for the cooldown it may have applied.
Charged(j) ==
  /\ stage[j] = "charge"
  /\ \E q \in PolicyPersonas(held[j].name, reported[j]), rec \in Outcomes :
       /\ RecordFailure(j, reported[j], q, rec)
       /\ IF /\ IsListed(held[j].name)
             /\ CooldownApplied(held[j].name, now[j], q, rec)
          THEN /\ Fails(j, "rate_limited")
               /\ charged' = [charged EXCEPT ![j] =
                    [name  |-> held[j].name,
                     until |-> now[j] + PolicyCooldown(q)]]
          ELSE Fails(j, NoImageCode(j)) /\ UNCHANGED charged
  /\ UNCHANGED <<attempt, reason, reported, preview, expired, canceled, tasks,
                 unseen>>

\* An image came, be it before the context was done, or every download failed.
Downloaded(j) ==
  /\ stage[j] = "download"
  /\ Reports(j, NoCode) \/ Reports(j, "download_failed")
  /\ To(j, "release")
  /\ UNCHANGED <<vars, attempt, reason, reported, preview, expired, canceled,
                 charged, tasks, unseen>>

-----------------------------------------------------------------------------
(* The end of an attempt                                                     *)

Deferred(j) ==
  /\ stage[j] = "release"
  /\ pc[j] = "leased"
  /\ Release(j)
  /\ To(j, "between")
  /\ UNCHANGED <<attempt, code, reason, reported, preview, expired, canceled,
                 charged, tasks, unseen>>

\* Mutant: a failed poll is retried as well.
RetryableAnyCharge(j) ==
  \/ code[j] = "no_image_task"
  \/ code[j] = "rate_limited" /\ reason[j] # NoReason
  \/ code[j] = "poll_timeout"

\* retryableNoImageTask: no image task was seen to start, whether or not the account
\* was cooled for it.
Retryable(j) ==
  \/ code[j] = "no_image_task"
  \/ code[j] = "rate_limited" /\ reason[j] = "no_image_task"

MayRetry(j) == attempt[j] = 1 /\ Retryable(j)

Retry(j) ==
  /\ stage[j] = "between"
  /\ MayRetry(j)
  /\ NewJob(j)
  /\ attempt' = [attempt EXCEPT ![j] = @ + 1]
  /\ Reports(j, "unknown")
  /\ reason' = [reason EXCEPT ![j] = NoReason]
  /\ reported' = [reported EXCEPT ![j] = NoPersona]
  /\ preview' = preview \ {j}
  /\ expired' = expired \ {j}
  /\ To(j, "waiting")
  /\ UNCHANGED <<canceled, charged, tasks, unseen>>

Return(j) ==
  /\ stage[j] = "between"
  /\ ~MayRetry(j)
  /\ To(j, "returned")
  /\ UNCHANGED <<vars, attempt, code, reason, reported, preview, expired,
                 canceled, charged, tasks, unseen>>

-----------------------------------------------------------------------------
(* The job's contexts                                                        *)

\* acquire_timeout, or the canceled request.
AcquireDone(j) ==
  /\ stage[j] = "waiting"
  /\ CtxDone(j)
  /\ UNCHANGED run

Expire(j) ==
  /\ stage[j] \in Waits
  /\ j \notin expired
  /\ expired' = expired \cup {j}
  /\ UNCHANGED <<vars, stage, attempt, code, reason, reported, preview, canceled,
                 charged, tasks, unseen>>

Cancel(j) ==
  /\ stage[j] # "returned"
  /\ j \notin canceled
  /\ canceled' = canceled \cup {j}
  /\ UNCHANGED <<vars, stage, attempt, code, reason, reported, preview, expired,
                 charged, tasks, unseen>>

\* The steps Run takes on its own, and those that wait for the upstream.
LocalStep(j) ==
  \/ Acquiring(j)
  \/ Acquired(j)
  \/ NewClient(j)
  \/ (j \notin Edits /\ Uploaded(j))
  \/ Proved(j)
  \/ Charged(j)
  \/ Deferred(j)
  \/ Retry(j)
  \/ Return(j)

UpstreamStep(j) ==
  \/ (j \in Edits /\ Uploaded(j))
  \/ Required(j)
  \/ Prepared(j)
  \/ Streaming(j)
  \/ CallFails(j)
  \/ \E refs, task, previews, began \in BOOLEAN :
       Streamed(j, refs, task, previews, began)
  \/ Polled(j)
  \/ PollTimeout(j)
  \/ PollCanceled(j)
  \/ Downloaded(j)

RunStep(j) ==
  \/ LocalStep(j)
  \/ NotAcquired(j)
  \/ UpstreamStep(j)
  \/ AcquireDone(j)
  \/ Expire(j)
  \/ Cancel(j)

Around ==
  \/ \E cfg \in Configs, interval \in Intervals : Reload(cfg, interval)
  \/ Tick

RunNext ==
  \/ \E j \in Jobs : RunStep(j)
  \/ Around /\ UNCHANGED run

RunSpec == RunInit /\ [][RunNext]_runVars

\* Timers fire, a goroutine that can go on does, and a call whose context is done
\* returns; an upstream that still has time owes no answer.
RunFairSpec ==
  /\ RunSpec
  /\ \A j \in Jobs :
       /\ WF_runVars(LocalStep(j))
       /\ SF_runVars(NotAcquired(j))
       /\ WF_runVars(AcquireDone(j))
       /\ WF_runVars(Expire(j))
       /\ WF_runVars(Cut(j) /\ UpstreamStep(j))

-----------------------------------------------------------------------------

\* A job holds its account from Acquire to the deferred Release, whatever path
\* runOnce takes: it waits for its second one, and returns, with none.
LeaseSpansAttempt ==
  \A j \in Jobs : stage[j] \in Body \cup {"release"} <=> j \in Working

\* What the client is told about the account is true when it is said: after
\* rate_limited the listed account is cooled for at least as long as the limit
\* that was applied, after auth_required it is disabled.
CodeTellsTheMark ==
  [][\A j \in Jobs :
       stage[j] # "release" /\ stage'[j] = "release" /\ IsListed(held[j].name) =>
         LET limit == IF reason[j] # NoReason THEN charged'[j].until
                      ELSE IF RateCooldown > 0 THEN clock + RateCooldown ELSE 0
         IN  /\ code'[j] = "rate_limited" =>
                  cooldown'[held[j].name] >= limit
             /\ code'[j] = "auth_required" =>
                  FirstOf(held[j].name) \in disabled']_runVars

\* The second attempt does not go back to the account that the first one had
\* cooled, unless that cooldown is over.
RetryElsewhere ==
  [][\A j \in Jobs :
       /\ stage[j] = "waiting" /\ stage'[j] = "client"
       /\ held'[j].name = charged[j].name
       => clock >= charged[j].until]_runVars

\* The upstream begins a second image task for a job only if the stream of the first
\* attempt ended before it showed one, or showed previews of an edit only.  A task
\* that was seen, or whose conversation failed to open, is never followed by another.
SecondTaskOnlyUnseen == \A j \in Jobs : tasks[j] > 1 => j \in unseen

\* Run returns, whatever the upstream and the pool do.
RunReturns == \A j \in Jobs : <>(stage[j] = "returned")

\* A job whose time on the account runs out while the upstream has shown no image
\* ends as a timeout.
TimeoutEndsAsTimeout ==
  [][\A j \in Jobs :
       /\ stage[j] = "charge" /\ stage'[j] # "charge"
       /\ j \in expired \ canceled
       => code'[j] = "poll_timeout"]_runVars

=============================================================================
