---------------------------- MODULE RunnerProofs ----------------------------
(***************************************************************************)
(* The jobs of Runner are jobs of Pool, so what is proved of the pool      *)
(* holds while they run; and a job holds its account exactly while an      *)
(* attempt runs.                                                           *)
(***************************************************************************)
EXTENDS Runner, PoolProofs

\* The pool's place for each stage of a job.
PlaceOf(s) ==
  CASE s \in (Body \ {"charge"}) \cup {"release"} -> {"leased"}
    [] s = "charge"                               -> {"recording"}
    [] s = "waiting"                              -> {"idle", "looking", "sleeping"}
    [] OTHER                                      -> {"released", "failed"}

RunInv ==
  /\ pc \in [Jobs -> PCs]
  /\ stage \in [Jobs -> Stages]
  /\ reported \in [Jobs -> Personas \cup {NoPersona}]
  /\ \A j \in Jobs : pc[j] \in PlaceOf(stage[j])

\* What a job tells the pool of a failed call is a step of the pool, and moves
\* no job.
LEMMA TellStep ==
  ASSUME NEW j \in Jobs, NEW c, Tell(j, c)
  PROVE  /\ JobStep(j) \/ UNCHANGED vars
         /\ UNCHANGED pc
<1>1. MarkCooldown(j) \/ MarkUnauthorized(j) \/ UNCHANGED vars
  BY DEF Tell
<1>2. CASE MarkCooldown(j)
  BY <1>2 DEF MarkCooldown, JobStep, jobs
<1>3. CASE MarkUnauthorized(j)
  BY <1>3 DEF MarkUnauthorized, JobStep, jobs
<1>4. CASE UNCHANGED vars
  BY <1>4 DEF vars, jobs
<1>5. QED BY <1>1, <1>2, <1>3, <1>4

\* Every step of a job is a step of the pool or leaves the pool alone.
LEMMA RunStepIsPoolStep ==
  ASSUME RunInv, NEW j \in Jobs, RunStep(j)
  PROVE  JobStep(j) \/ UNCHANGED vars
<1>1. CASE Acquiring(j)
  BY <1>1 DEF Acquiring, JobStep
<1>2. CASE Acquired(j)
  BY <1>2 DEF Acquired, JobStep
<1>3. CASE NotAcquired(j)
  BY <1>3 DEF NotAcquired, JobStep
<1>4. CASE NewClient(j) \/ Uploaded(j) \/ Proved(j) \/ Prepared(j) \/ Streaming(j)
             \/ Polled(j) \/ PollCanceled(j) \/ Downloaded(j) \/ Return(j)
             \/ Expire(j) \/ Cancel(j)
  BY <1>4 DEF NewClient, Uploaded, Proved, Prepared, Streaming, Polled,
              PollCanceled, Downloaded, Return, Expire, Cancel
<1>5. CASE Required(j)
  <2>1. PICK p \in Personas \cup {NoPersona} :
          IF p # NoPersona /\ IsListed(held[j].name)
          THEN MarkPersona(j, p) ELSE UNCHANGED vars
    BY <1>5 DEF Required
  <2>2. QED BY <2>1 DEF JobStep
<1>6. CASE CallFails(j)
  BY <1>6, TellStep DEF CallFails
<1>7. CASE \E refs, task, previews, began \in BOOLEAN :
             Streamed(j, refs, task, previews, began)
  BY <1>7 DEF Streamed, JobStep
<1>8. CASE PollTimeout(j)
  BY <1>8 DEF PollTimeout, JobStep
<1>9. CASE Charged(j)
  <2>1. reported[j] \in Personas \cup {NoPersona}
    BY DEF RunInv
  <2>2. RecordNoImageFailure(j, reported[j])
    BY <1>9 DEF Charged, RecordNoImageFailure, RecordFailure
  <2>3. QED BY <2>1, <2>2 DEF JobStep
<1>10. CASE Deferred(j)
  BY <1>10 DEF Deferred, JobStep
<1>11. CASE Retry(j)
  BY <1>11 DEF Retry, JobStep
<1>12. CASE AcquireDone(j)
  BY <1>12 DEF AcquireDone, JobStep
<1>13. QED
  BY <1>1, <1>2, <1>3, <1>4, <1>5, <1>6, <1>7, <1>8, <1>9, <1>10, <1>11, <1>12
     DEF RunStep, LocalStep, UpstreamStep

-----------------------------------------------------------------------------

\* A step that moves one job to a stage and its place in the pool keeps RunInv.
LEMMA MoveKeeps ==
  ASSUME RunInv, NEW j \in Jobs, NEW s \in Stages, NEW x \in PCs,
         stage' = [stage EXCEPT ![j] = s], pc' = [pc EXCEPT ![j] = x],
         x \in PlaceOf(s), reported' \in [Jobs -> Personas \cup {NoPersona}]
  PROVE  RunInv'
<1>1. /\ stage' \in [Jobs -> Stages]
      /\ pc' \in [Jobs -> PCs]
  BY DEF RunInv
<1>2. ASSUME NEW k \in Jobs
      PROVE  pc'[k] \in PlaceOf(stage'[k])
  <2>1. CASE k = j
    BY <2>1 DEF RunInv
  <2>2. CASE k # j
    <3>1. stage'[k] = stage[k] /\ pc'[k] = pc[k]
      BY <2>2 DEF RunInv
    <3>2. QED BY <3>1 DEF RunInv
  <2>3. QED BY <2>1, <2>2
<1>3. QED BY <1>1, <1>2 DEF RunInv, PlaceOf

\* The same when the pool's place stays.
LEMMA StayKeeps ==
  ASSUME RunInv, NEW j \in Jobs, NEW s \in Stages, UNCHANGED pc,
         stage' = [stage EXCEPT ![j] = s], pc[j] \in PlaceOf(s),
         reported' \in [Jobs -> Personas \cup {NoPersona}]
  PROVE  RunInv'
<1>1. pc' = [pc EXCEPT ![j] = pc[j]] /\ pc[j] \in PCs
  BY DEF RunInv
<1>2. QED BY <1>1, MoveKeeps

LEMMA RunStepKeeps ==
  ASSUME RunInv, NEW j \in Jobs, RunStep(j)
  PROVE  RunInv'
<1> USE DEF To, Goto, Stages, Body, PCs, PlaceOf
<1>1. /\ pc[j] \in PlaceOf(stage[j])
      /\ stage[j] \in Stages
      /\ stage \in [Jobs -> Stages]
      /\ pc \in [Jobs -> PCs]
      /\ reported \in [Jobs -> Personas \cup {NoPersona}]
  BY DEF RunInv
<1>2. CASE Acquiring(j)
  <2>1. stage' = [stage EXCEPT ![j] = "waiting"] /\ UNCHANGED reported
    BY <1>1, <1>2 DEF Acquiring, run
  <2>2. \E x \in {"looking", "sleeping"} : pc' = [pc EXCEPT ![j] = x]
    BY <1>2 DEF Acquiring, Look, Miss
  <2>3. QED BY <1>1, <2>1, <2>2, MoveKeeps
<1>3. CASE Acquired(j)
  BY <1>1, <1>3, MoveKeeps DEF Acquired, Grant
<1>4. CASE NotAcquired(j)
  BY <1>1, <1>4, MoveKeeps DEF NotAcquired, GiveUp
<1>5. CASE NewClient(j) \/ Uploaded(j) \/ Proved(j) \/ Prepared(j) \/ Streaming(j)
             \/ Polled(j) \/ PollCanceled(j) \/ Downloaded(j)
  <2>1. UNCHANGED pc /\ UNCHANGED reported /\ pc[j] = "leased"
    BY <1>1, <1>5 DEF NewClient, Uploaded, Proved, Prepared, Streaming, Polled,
                      PollCanceled, Downloaded, vars, jobs
  <2>2. \E s \in (Body \ {"charge"}) \cup {"release"} :
          stage' = [stage EXCEPT ![j] = s]
    BY <1>5 DEF NewClient, Uploaded, Proved, Prepared, Streaming, Polled,
                PollCanceled, Downloaded, Fails
  <2>3. QED BY <1>1, <2>1, <2>2, StayKeeps
<1>6. CASE Required(j)
  <2>1. UNCHANGED pc
    BY <1>6 DEF Required, MarkPersona, vars, jobs
  <2>2. reported' \in [Jobs -> Personas \cup {NoPersona}]
    BY <1>1, <1>6 DEF Required
  <2>3. QED BY <1>1, <1>6, <2>1, <2>2, StayKeeps DEF Required
<1>7. CASE CallFails(j)
  <2>1. UNCHANGED pc
    BY <1>7, TellStep DEF CallFails
  <2>2. QED BY <1>1, <1>7, <2>1, StayKeeps DEF CallFails, Fails, Calling
<1>8. CASE \E refs, task, previews, began \in BOOLEAN :
             Streamed(j, refs, task, previews, began)
  <2>1. PICK refs, task, previews, began \in BOOLEAN :
          Streamed(j, refs, task, previews, began)
    BY <1>8
  <2>2. CASE ~refs /\ ~task
    BY <1>1, <2>1, <2>2, MoveKeeps DEF Streamed, RecordBegin
  <2>3. CASE refs \/ task
    BY <1>1, <2>1, <2>3, StayKeeps DEF Streamed, vars, jobs
  <2>4. QED BY <2>2, <2>3
<1>9. CASE PollTimeout(j)
  BY <1>1, <1>9, MoveKeeps DEF PollTimeout, RecordBegin
<1>10. CASE Charged(j)
  BY <1>1, <1>10, MoveKeeps DEF Charged, RecordFailure, Fails
<1>11. CASE Deferred(j)
  BY <1>1, <1>11, MoveKeeps DEF Deferred, Release
<1>12. CASE Retry(j)
  <2>1. reported' \in [Jobs -> Personas \cup {NoPersona}]
    BY <1>1, <1>12 DEF Retry
  <2>2. QED BY <1>1, <1>12, <2>1, MoveKeeps DEF Retry, NewJob
<1>13. CASE Return(j)
  BY <1>1, <1>13, StayKeeps DEF Return, vars, jobs
<1>14. CASE AcquireDone(j) \/ Expire(j) \/ Cancel(j)
  BY <1>1, <1>14 DEF AcquireDone, Expire, Cancel, CtxDone, RunInv, run, vars, jobs
<1>15. QED
  BY <1>2, <1>3, <1>4, <1>5, <1>6, <1>7, <1>8, <1>9, <1>10, <1>11, <1>12, <1>13,
     <1>14 DEF RunStep, LocalStep, UpstreamStep

LEMMA AroundKeeps ==
  ASSUME RunInv, Around, UNCHANGED run
  PROVE  RunInv'
<1>1. UNCHANGED pc
  BY DEF Around, Reload, Tick, jobs
<1>2. QED BY <1>1 DEF RunInv, run

LEMMA RunInvInitially == RunInit => RunInv
BY DEF RunInit, Init, RunInv, PCs, Stages, PlaceOf, Body

\* Each job is where the pool has it, in every reachable state.
THEOREM RunnerInvariant == RunSpec => []RunInv
<1>1. RunInv /\ [RunNext]_runVars => RunInv'
  <2>1. CASE \E j \in Jobs : RunStep(j)
    BY <2>1, RunStepKeeps
  <2>2. CASE Around /\ UNCHANGED run
    BY <2>2, AroundKeeps
  <2>3. CASE UNCHANGED runVars
    BY <2>3 DEF RunInv, runVars, vars, jobs, run
  <2>4. QED BY <2>1, <2>2, <2>3 DEF RunNext
<1>2. QED BY <1>1, RunInvInitially, PTL DEF RunSpec

\* runOnce uses the pool as Pool's jobs do, so that every property proved of Pool
\* holds of the image jobs.
THEOREM RunnerUsesPool == RunSpec => Spec
<1>1. RunInit => Init
  BY DEF RunInit
<1>2. RunInv /\ [RunNext]_runVars => [Next]_vars
  <2>1. CASE \E j \in Jobs : RunStep(j)
    BY <2>1, RunStepIsPoolStep DEF Next
  <2>2. CASE Around
    BY <2>2 DEF Around, Next
  <2>3. CASE UNCHANGED runVars
    BY <2>3 DEF runVars
  <2>4. QED BY <2>1, <2>2, <2>3 DEF RunNext
<1>3. QED BY <1>1, <1>2, RunnerInvariant, PTL DEF RunSpec, Spec

\* Whatever path an attempt takes, the account is held until its end and no longer.
THEOREM RunnerLeaseSpansAttempt == RunSpec => []LeaseSpansAttempt
<1>1. RunInv => LeaseSpansAttempt
  BY DEF RunInv, LeaseSpansAttempt, Working, PlaceOf, Stages, Body
<1>2. QED BY <1>1, RunnerInvariant, PTL

-----------------------------------------------------------------------------
(* A second image task is begun only after one that the stream did not show. *)

\* The stages up to the parsed stream.
BeforeStart ==
  {"waiting", "client", "upload", "requirements", "proof", "prepare", "stream",
   "sse"}

\* The upstream has begun no task for the job, or one that was not seen.
NoneSeen(j) == tasks[j] = 0 \/ j \in unseen

StartOf(j) ==
  /\ stage[j] \in BeforeStart =>
       code[j] = "unknown" /\ reason[j] = NoReason /\ NoneSeen(j)
  /\ code[j] = "no_image_task" \/ reason[j] = "no_image_task" => NoneSeen(j)
  /\ stage[j] = "charge" => reason[j] # NoReason
  /\ tasks[j] <= 1 \/ j \in unseen

StartTyped ==
  /\ stage \in [Jobs -> Stages]
  /\ code \in [Jobs -> Codes]
  /\ reason \in [Jobs -> {NoReason, "no_image_task", "poll_timeout"}]
  /\ tasks \in [Jobs -> Nat]
  /\ unseen \subseteq Jobs

StartInv == StartTyped /\ \A j \in Jobs : StartOf(j)

\* A step of one job, with the fields it leaves in that job and the set of unseen
\* tasks.
Moves(j, s, c, r, n, U) ==
  /\ stage' = [stage EXCEPT ![j] = s]
  /\ code' = [code EXCEPT ![j] = c]
  /\ reason' = [reason EXCEPT ![j] = r]
  /\ tasks' = [tasks EXCEPT ![j] = n]
  /\ unseen' = U

\* It keeps StartInv when they satisfy it.
LEMMA StartKept ==
  ASSUME StartInv, NEW j \in Jobs, NEW s \in Stages, NEW c \in Codes,
         NEW r \in {NoReason, "no_image_task", "poll_timeout"}, NEW n \in Nat,
         NEW U \in {unseen, unseen \cup {j}},
         Moves(j, s, c, r, n, U),
         s \in BeforeStart =>
           c = "unknown" /\ r = NoReason /\ (n = 0 \/ j \in U),
         c = "no_image_task" \/ r = "no_image_task" => n = 0 \/ j \in U,
         s = "charge" => r # NoReason,
         n <= 1 \/ j \in U
  PROVE  StartInv'
<1>1. StartTyped'
  BY DEF StartInv, StartTyped, Moves
<1>2. ASSUME NEW k \in Jobs
      PROVE  StartOf(k)'
  <2>1. CASE k = j
    BY <2>1 DEF StartInv, StartTyped, StartOf, NoneSeen, Moves
  <2>2. CASE k # j
    BY <2>2 DEF StartInv, StartTyped, StartOf, NoneSeen, Moves
  <2>3. QED BY <2>1, <2>2
<1>3. QED BY <1>1, <1>2 DEF StartInv

\* So it does when no task is begun and none goes unseen.
LEMMA StartKeptSame ==
  ASSUME StartInv, NEW j \in Jobs, NEW s \in Stages, NEW c \in Codes,
         NEW r \in {NoReason, "no_image_task", "poll_timeout"},
         Moves(j, s, c, r, tasks[j], unseen),
         s \in BeforeStart => c = "unknown" /\ r = NoReason /\ NoneSeen(j),
         c = "no_image_task" \/ r = "no_image_task" => NoneSeen(j),
         s = "charge" => r # NoReason
  PROVE  StartInv'
<1>1. tasks[j] \in Nat /\ (tasks[j] <= 1 \/ j \in unseen)
  BY DEF StartInv, StartTyped, StartOf
<1>2. QED BY <1>1, StartKept DEF NoneSeen

LEMMA StartStep ==
  ASSUME StartInv, NEW j \in Jobs, RunStep(j)
  PROVE  StartInv'
<1> USE DEF To, Reports, Stages, Body, BeforeStart, NoReason, NoCode, Codes, Moves
<1>1. /\ stage[j] \in Stages /\ code[j] \in Codes
      /\ reason[j] \in {NoReason, "no_image_task", "poll_timeout"}
      /\ tasks[j] \in Nat
      /\ stage[j] \in BeforeStart =>
           code[j] = "unknown" /\ reason[j] = NoReason /\ NoneSeen(j)
      /\ code[j] = "no_image_task" \/ reason[j] = "no_image_task" => NoneSeen(j)
  BY DEF StartInv, StartTyped, StartOf
<1>2. /\ stage = [stage EXCEPT ![j] = stage[j]]
      /\ code = [code EXCEPT ![j] = code[j]]
      /\ reason = [reason EXCEPT ![j] = reason[j]]
      /\ tasks = [tasks EXCEPT ![j] = tasks[j]]
  BY DEF StartInv, StartTyped
<1>3. CASE Acquiring(j) \/ AcquireDone(j) \/ Expire(j) \/ Cancel(j)
  BY <1>3 DEF Acquiring, AcquireDone, Expire, Cancel, StartInv, StartTyped, StartOf,
              NoneSeen, run
<1>4. CASE Acquired(j)
  <2>1. /\ Moves(j, "client", code[j], reason[j], tasks[j], unseen)
        /\ stage[j] = "waiting"
    BY <1>2, <1>4 DEF Acquired
  <2>2. QED BY <1>1, <2>1, StartKeptSame
<1>5. CASE NotAcquired(j)
  <2>1. PICK c \in {"no_available_account", "unknown"} : Reports(j, c)
    BY <1>5 DEF NotAcquired, AcquireErrors
  <2>2. Moves(j, "between", c, reason[j], tasks[j], unseen) /\ stage[j] = "waiting"
    BY <1>2, <1>5, <2>1 DEF NotAcquired
  <2>3. QED BY <1>1, <2>2, StartKeptSame
<1>6. CASE NewClient(j) \/ Proved(j)
  <2>1. /\ UNCHANGED <<reason, tasks, unseen>>
        /\ stage[j] \in BeforeStart
    BY <1>6 DEF NewClient, Proved
  <2>2. CASE UNCHANGED code /\ \E s \in {"upload", "prepare"} : To(j, s)
    <3>1. PICK s \in {"upload", "prepare"} : To(j, s)
      BY <2>2
    <3>2. Moves(j, s, code[j], reason[j], tasks[j], unseen)
      BY <1>2, <2>1, <2>2, <3>1
    <3>3. QED BY <1>1, <2>1, <3>2, StartKeptSame
  <2>3. CASE \E c \in {"unknown", "pow_failed", "pow_timeout"} : Fails(j, c)
    <3>1. PICK c \in {"unknown", "pow_failed", "pow_timeout"} : Fails(j, c)
      BY <2>3
    <3>2. Moves(j, "release", c, reason[j], tasks[j], unseen)
      BY <1>2, <2>1, <3>1 DEF Fails
    <3>3. QED BY <1>1, <2>1, <3>2, StartKeptSame
  <2>4. QED BY <1>6, <2>2, <2>3 DEF NewClient, Proved
<1>7. CASE Uploaded(j) \/ Required(j) \/ Prepared(j) \/ Streaming(j)
  <2>1. /\ UNCHANGED <<code, reason, tasks, unseen>>
        /\ stage[j] \in BeforeStart
    BY <1>7 DEF Uploaded, Required, Prepared, Streaming
  <2>2. PICK s \in BeforeStart : To(j, s)
    BY <1>7 DEF Uploaded, Required, Prepared, Streaming
  <2>3. Moves(j, s, code[j], reason[j], tasks[j], unseen)
    BY <1>2, <2>1, <2>2
  <2>4. QED BY <1>1, <2>1, <2>3, StartKeptSame
<1>8. CASE CallFails(j)
  <2>1. PICK c \in {"rate_limited", "auth_required", "upstream_error",
                    "network_transient", "poll_timeout"}, began \in BOOLEAN :
          Fails(j, c) /\ Begins(j, began)
    BY <1>8 DEF CallFails, Failures
  <2>2. UNCHANGED <<reason, unseen>> /\ stage[j] \in BeforeStart
    BY <1>8 DEF CallFails, Calling
  <2>3. PICK n \in {tasks[j], tasks[j] + 1} : tasks' = [tasks EXCEPT ![j] = n]
    BY <1>2, <2>1 DEF Begins
  <2>4. Moves(j, "release", c, reason[j], n, unseen)
    BY <1>2, <2>1, <2>2, <2>3 DEF Fails
  <2>5. n \in Nat /\ (n <= 1 \/ j \in unseen)
    <3>1. tasks[j] \in Nat /\ NoneSeen(j)
      BY <1>1, <2>2
    <3>2. QED BY <2>3, <3>1 DEF NoneSeen
  <2>6. c # "no_image_task" /\ reason[j] # "no_image_task"
    BY <1>1, <2>2
  <2>7. QED BY <1>1, <2>4, <2>5, <2>6, StartKept
<1>9. CASE \E refs, task, previews, began \in BOOLEAN :
             Streamed(j, refs, task, previews, began)
  <2>1. PICK refs, task, previews, began \in BOOLEAN :
          Streamed(j, refs, task, previews, began)
    BY <1>9
  <2>2. stage[j] = "sse" /\ UNCHANGED code
    BY <2>1 DEF Streamed
  <2>3. PICK n \in {tasks[j], tasks[j] + 1} :
          /\ tasks' = [tasks EXCEPT ![j] = n]
          /\ ~began => n = tasks[j]
    BY <1>2, <2>1 DEF Streamed, Begins
  <2>4. CASE ~refs /\ ~task
    <3>1. unseen' = IF began THEN unseen \cup {j} ELSE unseen
      BY <2>1, <2>4 DEF Streamed
    <3>2. Moves(j, "charge", code[j], "no_image_task", n, unseen')
      BY <1>2, <2>1, <2>2, <2>3, <2>4 DEF Streamed
    <3>3. n \in Nat /\ (n = 0 \/ j \in unseen')
      <4>1. tasks[j] \in Nat /\ NoneSeen(j)
        BY <1>1, <2>2
      <4>2. QED BY <2>3, <3>1, <4>1 DEF NoneSeen
    <3>4. unseen' \in {unseen, unseen \cup {j}} /\ code[j] = "unknown"
      BY <1>1, <2>2, <3>1
    <3>5. n <= 1 \/ j \in unseen'
      BY <3>3
    <3>6. QED BY <3>2, <3>3, <3>4, <3>5, StartKept
  <2>5. CASE refs \/ task
    <3>1. UNCHANGED <<reason, unseen>>
      BY <2>1, <2>5 DEF Streamed
    <3>2. PICK s \in {"download", "poll"} : To(j, s)
      BY <2>1, <2>5 DEF Streamed
    <3>3. Moves(j, s, code[j], reason[j], n, unseen)
      BY <1>2, <2>2, <2>3, <3>1, <3>2
    <3>4. n \in Nat /\ (n <= 1 \/ j \in unseen)
      <4>1. tasks[j] \in Nat /\ NoneSeen(j)
        BY <1>1, <2>2
      <4>2. QED BY <2>3, <4>1 DEF NoneSeen
    <3>5. code[j] = "unknown" /\ reason[j] = NoReason
      BY <1>1, <2>2
    <3>6. QED BY <3>2, <3>3, <3>4, <3>5, StartKept
  <2>6. QED BY <2>4, <2>5
<1>10. CASE Polled(j)
  <2>1. Moves(j, "download", code[j], reason[j], tasks[j], unseen)
    BY <1>2, <1>10 DEF Polled
  <2>2. QED BY ZenonT(30), <1>1, <2>1, StartKeptSame
<1>11. CASE PollTimeout(j)
  <2>1. Moves(j, "charge", code[j], "poll_timeout", tasks[j], unseen)
    BY <1>2, <1>11 DEF PollTimeout
  <2>2. QED BY <1>1, <2>1, StartKeptSame
<1>12. CASE PollCanceled(j)
  <2>1. Moves(j, "release", "upstream_error", reason[j], tasks[j], unseen)
    BY <1>2, <1>12 DEF PollCanceled, Fails
  <2>2. QED BY <1>1, <2>1, StartKeptSame
<1>13. CASE Charged(j)
  <2>1. UNCHANGED <<reason, tasks, unseen>>
    BY <1>13 DEF Charged
  <2>2. CASE Fails(j, "rate_limited")
    <3>1. Moves(j, "release", "rate_limited", reason[j], tasks[j], unseen)
      BY <1>2, <2>1, <2>2 DEF Fails
    <3>2. QED BY <1>1, <3>1, StartKeptSame
  <2>3. CASE Fails(j, NoImageCode(j))
    <3>1. Moves(j, "release", NoImageCode(j), reason[j], tasks[j], unseen)
      BY <1>2, <2>1, <2>3 DEF Fails
    <3>2. /\ NoImageCode(j) \in {"no_image_task", "preview_only", "poll_timeout"}
          /\ NoImageCode(j) = "no_image_task" => reason[j] = "no_image_task"
      BY Zenon DEF NoImageCode
    <3>3. QED BY <1>1, <3>1, <3>2, StartKeptSame
  <2>4. QED BY <1>13, <2>2, <2>3 DEF Charged
<1>14. CASE Downloaded(j)
  <2>1. PICK c \in {NoCode, "download_failed"} : Reports(j, c)
    BY <1>14 DEF Downloaded
  <2>2. Moves(j, "release", c, reason[j], tasks[j], unseen)
    BY <1>2, <1>14, <2>1 DEF Downloaded
  <2>3. QED BY <1>1, <2>2, StartKeptSame
<1>15. CASE Deferred(j)
  <2>1. Moves(j, "between", code[j], reason[j], tasks[j], unseen)
    BY <1>2, <1>15 DEF Deferred
  <2>2. QED BY ZenonT(30), <1>1, <2>1, StartKeptSame
<1>16. CASE Retry(j)
  <2>1. NoneSeen(j) /\ UNCHANGED <<tasks, unseen>>
    BY <1>1, <1>16 DEF Retry, MayRetry, Retryable
  <2>2. Moves(j, "waiting", "unknown", NoReason, tasks[j], unseen)
    BY <1>2, <1>16, <2>1 DEF Retry
  <2>3. QED BY <1>1, <2>1, <2>2, StartKeptSame
<1>17. CASE Return(j)
  <2>1. Moves(j, "returned", code[j], reason[j], tasks[j], unseen)
    BY <1>2, <1>17 DEF Return
  <2>2. QED BY ZenonT(30), <1>1, <2>1, StartKeptSame
<1>18. QED
  BY <1>3, <1>4, <1>5, <1>6, <1>7, <1>8, <1>9, <1>10, <1>11, <1>12, <1>13, <1>14,
     <1>15, <1>16, <1>17 DEF RunStep, LocalStep, UpstreamStep

\* Code, reason and count agree with the stage, in every reachable state.
THEOREM RunnerStart == RunSpec => []StartInv
<1>1. RunInit => StartInv
  BY DEF RunInit, StartInv, StartTyped, StartOf, NoneSeen, Stages, Codes, NoReason
<1>2. StartInv /\ [RunNext]_runVars => StartInv'
  <2>1. CASE \E j \in Jobs : RunStep(j)
    BY <2>1, StartStep
  <2>2. CASE UNCHANGED run
    BY <2>2 DEF StartInv, StartTyped, StartOf, NoneSeen, run
  <2>3. QED BY <2>1, <2>2 DEF RunNext, runVars
<1>3. QED BY <1>1, <1>2, PTL DEF RunSpec

\* A second image task is begun for a job only if its first attempt had one begun
\* that the stream did not show: what the upstream shows of a task, and a call that
\* fails, end the attempts of a job.
THEOREM RunnerSecondTaskOnlyUnseen == RunSpec => []SecondTaskOnlyUnseen
<1>1. StartInv => SecondTaskOnlyUnseen
  BY DEF StartInv, StartTyped, StartOf, SecondTaskOnlyUnseen
<1>2. QED BY <1>1, RunnerStart, PTL

-----------------------------------------------------------------------------
(* What an attempt tells of its account, for a store that does not fail.     *)

\* A job's step is one of the pool, or leaves it alone.
LEMMA PoolsStep == RunInv /\ [RunNext]_runVars => [Next]_vars
<1> SUFFICES ASSUME RunInv, [RunNext]_runVars PROVE [Next]_vars
  OBVIOUS
<1>1. CASE \E j \in Jobs : RunStep(j)
  BY <1>1, RunStepIsPoolStep DEF Next
<1>2. CASE Around
  BY <1>2 DEF Around, Next
<1>3. CASE UNCHANGED runVars
  BY <1>3 DEF runVars
<1>4. QED BY <1>1, <1>2, <1>3 DEF RunNext

\* A store that does not fail has the mark after MarkCooldown.
LEMMA MarkIsKept ==
  ASSUME StoreTypeOK, NEW n \in Names, NEW until \in Nat,
         cooldown' = MarkedCooldown(n, until)
  PROVE  cooldown'[n] >= until
BY DEF StoreTypeOK, MarkedCooldown

\* The end of an attempt that is charged for a failure: code and mark agree.
LEMMA ChargedMarks ==
  ASSUME ~StoreMayFail, IInv, RunInv, NEW j \in Jobs, Charged(j)
  PROVE  \/ /\ code' = [code EXCEPT ![j] = NoImageCode(j)]
            /\ UNCHANGED charged
         \/ \E until \in Nat :
              /\ code' = [code EXCEPT ![j] = "rate_limited"]
              /\ charged' = [charged EXCEPT ![j] =
                               [name |-> held[j].name, until |-> until]]
              /\ held[j].name \in Names
              /\ cooldown'[held[j].name] >= until
<1>1. PICK q \in PolicyPersonas(held[j].name, reported[j]), rec \in Outcomes :
        /\ RecordFailure(j, reported[j], q, rec)
        /\ IF /\ IsListed(held[j].name)
              /\ CooldownApplied(held[j].name, now[j], q, rec)
           THEN /\ Fails(j, "rate_limited")
                /\ charged' = [charged EXCEPT ![j] =
                     [name  |-> held[j].name,
                      until |-> now[j] + PolicyCooldown(q)]]
           ELSE Fails(j, NoImageCode(j)) /\ UNCHANGED charged
  BY DEF Charged
<1>2. CASE ~(/\ IsListed(held[j].name)
             /\ CooldownApplied(held[j].name, now[j], q, rec))
  BY <1>1, <1>2 DEF Fails, Reports
<1>3. CASE /\ IsListed(held[j].name)
           /\ CooldownApplied(held[j].name, now[j], q, rec)
  <2>1. now[j] + PolicyCooldown(q) \in Nat
    BY StoreAssumption DEF IInv, TypeOK, PolicyCooldown
  <2>2. held[j].name \in Names
    BY <1>1 DEF RecordFailure, IInv, SnapshotsKnown, Account
  <2>3. cooldown' = MarkedCooldown(held[j].name, now[j] + PolicyCooldown(q))
    BY <1>1, <1>3 DEF RecordFailure, CountFailure, Outcomes, Applied
  <2>4. cooldown'[held[j].name] >= now[j] + PolicyCooldown(q)
    BY <2>1, <2>2, <2>3, MarkIsKept DEF IInv, TypeOK
  <2>5. QED BY <1>1, <1>3, <2>1, <2>2, <2>4 DEF Fails, Reports
<1>4. QED BY <1>2, <1>3

\* The end of an attempt by a call that failed.
LEMMA CallFailsMarks ==
  ASSUME ~StoreMayFail, IInv, IInv', RunInv, StartInv, NEW j \in Jobs,
         CallFails(j), IsListed(held[j].name)
  PROVE  /\ reason[j] = NoReason
         /\ code'[j] = "rate_limited" =>
              cooldown'[held[j].name] >=
                IF RateCooldown > 0 THEN clock + RateCooldown ELSE 0
         /\ code'[j] = "auth_required" => FirstOf(held[j].name) \in disabled'
<1>1. PICK c \in Failures(j) : Tell(j, c) /\ Fails(j, c)
  BY DEF CallFails
<1>2. code'[j] = c
  BY <1>1 DEF Fails, Reports, StartInv, StartTyped
<1>3. reason[j] = NoReason
  BY DEF CallFails, Calling, StartInv, StartOf, BeforeStart
<1>4. held[j].name \in Names
  BY DEF CallFails, Calling, RunInv, PlaceOf, Body, IInv, SnapshotsKnown, Account
<1>5. c = "rate_limited" =>
        cooldown'[held[j].name] >=
          IF RateCooldown > 0 THEN clock + RateCooldown ELSE 0
  <2> SUFFICES ASSUME c = "rate_limited"
               PROVE  cooldown'[held[j].name] >=
                        IF RateCooldown > 0 THEN clock + RateCooldown ELSE 0
    OBVIOUS
  <2>1. CASE RateCooldown > 0
    <3>1. MarkCooldown(j)
      BY <1>1, <2>1 DEF Tell
    <3>2. cooldown' = MarkedCooldown(held[j].name, clock + RateCooldown)
      BY <3>1 DEF MarkCooldown, Outcomes, Applied
    <3>3. StoreTypeOK
      BY DEF IInv, TypeOK
    <3>4. clock + RateCooldown \in Nat
      BY <3>3, PoolAssumption DEF StoreTypeOK
    <3>5. QED BY <1>4, <2>1, <3>2, <3>3, <3>4, MarkIsKept
  <2>2. CASE ~(RateCooldown > 0)
    BY <1>4, <2>2 DEF IInv, TypeOK, StoreTypeOK
  <2>3. QED BY <2>1, <2>2
<1>6. c = "auth_required" => FirstOf(held[j].name) \in disabled'
  BY <1>1 DEF Tell, MarkUnauthorized
<1>7. QED BY <1>2, <1>3, <1>5, <1>6

\* A job that comes to its deferred calls does so by one of these steps.
LEMMA ReleaseReached ==
  ASSUME StartInv, RunNext, NEW j \in Jobs,
         stage[j] # "release", stage'[j] = "release"
  PROVE  \/ CallFails(j)
         \/ Charged(j)
         \/ code'[j] \notin {"rate_limited", "auth_required"}
<1>1. PICK k \in Jobs : RunStep(k)
  BY DEF RunNext, run
<1>2. stage \in [Jobs -> Stages] /\ code \in [Jobs -> Codes]
  BY DEF StartInv, StartTyped
<1>3. CASE NewClient(k) \/ Proved(k) \/ PollCanceled(k) \/ Downloaded(k)
  <2>1. k = j
    BY <1>2, <1>3 DEF NewClient, Proved, PollCanceled, Downloaded, Fails, To
  <2>2. \/ To(j, "upload") \/ To(j, "prepare")
        \/ \E c \in {"unknown", "pow_failed", "pow_timeout", "upstream_error",
                     NoCode, "download_failed"} : Reports(j, c)
    BY <1>3, <2>1 DEF NewClient, Proved, PollCanceled, Downloaded, Fails
  <2>3. QED BY <1>2, <2>2 DEF To, Reports, NoCode
<1>4. CASE CallFails(k) \/ Charged(k)
  BY <1>2, <1>4 DEF CallFails, Charged, Fails, To
<1>5. CASE \/ Acquiring(k) \/ Acquired(k) \/ NotAcquired(k) \/ Uploaded(k)
           \/ Required(k) \/ Prepared(k) \/ Streaming(k) \/ Polled(k)
           \/ PollTimeout(k)
           \/ \E refs, task, previews, began \in BOOLEAN :
                Streamed(k, refs, task, previews, began)
           \/ Deferred(k) \/ Retry(k) \/ Return(k) \/ AcquireDone(k)
           \/ Expire(k) \/ Cancel(k)
  BY <1>2, <1>5
     DEF Acquiring, Acquired, NotAcquired, Uploaded, Required, Prepared, Streaming,
         Polled, PollTimeout, Streamed, Deferred, Retry, Return, AcquireDone,
         Expire, Cancel, To, run
<1>6. QED
  BY <1>1, <1>3, <1>4, <1>5 DEF RunStep, LocalStep, UpstreamStep

ChargedTyped ==
  /\ charged \in [Jobs -> [name : Names \cup {Nobody}, until : Nat]]
  /\ \A j \in Jobs : charged[j].name \in Names \/ charged[j].until = 0

\* Only the end of an attempt that is charged writes down what was charged.
LEMMA ChargedOnce ==
  ASSUME [RunNext]_runVars
  PROVE  UNCHANGED charged \/ \E j \in Jobs : Charged(j)
<1>1. CASE UNCHANGED run
  BY <1>1 DEF run
<1>2. CASE \E j \in Jobs : RunStep(j)
  <2>1. PICK j \in Jobs : RunStep(j)
    BY <1>2
  <2>2. QED
    BY <2>1
       DEF RunStep, LocalStep, UpstreamStep, Acquiring, Acquired, NotAcquired,
           NewClient, Uploaded, Required, Proved, Prepared, Streaming, CallFails,
           Streamed, Polled, PollTimeout, PollCanceled, Downloaded, Deferred, Retry,
           Return, AcquireDone, Expire, Cancel, run
<1>3. QED BY <1>1, <1>2 DEF RunNext, runVars

LEMMA RunnerChargedTyped ==
  ASSUME ~StoreMayFail
  PROVE  RunSpec => []ChargedTyped
<1>1. RunInit => ChargedTyped
  BY DEF RunInit, ChargedTyped, NotCharged
<1>2. IInv /\ RunInv /\ ChargedTyped /\ [RunNext]_runVars => ChargedTyped'
  BY ChargedOnce, ChargedMarks DEF ChargedTyped
<1>3. RunSpec => []IInv
  BY RunnerUsesPool, PoolInvariant, PTL
<1>4. QED BY <1>1, <1>2, <1>3, RunnerInvariant, PTL DEF RunSpec

\* An attempt that ends as rate_limited leaves its account cooled for at least as
\* long as the limit that was applied, one that ends as auth_required leaves it
\* disabled.
THEOREM RunnerCodeTellsTheMark ==
  ASSUME ~StoreMayFail
  PROVE  RunSpec => CodeTellsTheMark
<1> DEFINE
      Limit(j) == IF reason[j] # NoReason THEN charged'[j].until
                  ELSE IF RateCooldown > 0 THEN clock + RateCooldown ELSE 0
      Told(j) == /\ code'[j] = "rate_limited" =>
                      cooldown'[held[j].name] >= Limit(j)
                 /\ code'[j] = "auth_required" =>
                      FirstOf(held[j].name) \in disabled'
<1>1. ASSUME IInv, IInv', RunInv, StartInv, ChargedTyped, RunNext, NEW j \in Jobs,
             stage[j] # "release", stage'[j] = "release", IsListed(held[j].name)
      PROVE  Told(j)
  <2>1. CASE CallFails(j)
    BY <1>1, <2>1, CallFailsMarks
  <2>2. CASE Charged(j)
    <3>1. reason[j] # NoReason /\ code \in [Jobs -> Codes]
      BY <1>1, <2>2 DEF Charged, StartInv, StartTyped, StartOf
    <3>2. NoImageCode(j) \notin {"rate_limited", "auth_required"}
      BY Zenon DEF NoImageCode
    <3>3. QED BY <1>1, <2>2, <3>1, <3>2, ChargedMarks DEF ChargedTyped
  <2>3. QED BY <1>1, <2>1, <2>2, ReleaseReached
<1>2. IInv /\ IInv' /\ RunInv /\ StartInv /\ ChargedTyped /\ [RunNext]_runVars =>
        [\A j \in Jobs :
           stage[j] # "release" /\ stage'[j] = "release" /\ IsListed(held[j].name)
             => Told(j)]_runVars
  BY <1>1
<1>3. RunSpec => []IInv
  BY RunnerUsesPool, PoolInvariant, PTL
<1>4. QED
  BY <1>2, <1>3, RunnerInvariant, RunnerStart, RunnerChargedTyped, PTL
     DEF RunSpec, CodeTellsTheMark

-----------------------------------------------------------------------------
(* The second attempt, while no account gets new credentials.                *)

OneCredential == \A c, d \in Creds : c = d

\* What the first attempt was charged for is over, or still a cooldown.
ChargedKept ==
  \A j \in Jobs :
    charged[j].until <= clock \/ charged[j].until <= cooldown[charged[j].name]

LEMMA ClockForward == [Next]_vars /\ TypeOK => clock' \in Nat /\ clock <= clock'
<1> SUFFICES ASSUME [Next]_vars, TypeOK
             PROVE  clock' \in Nat /\ clock <= clock'
  OBVIOUS
<1>1. clock \in Nat
  BY DEF TypeOK, StoreTypeOK
<1>2. CASE \E j \in Jobs : JobStep(j)
  BY <1>1, <1>2
     DEF JobStep, Look, Grant, Miss, NoAccounts, GiveUp, Release, MarkCooldown,
         MarkPersona, MarkUnauthorized, RecordBegin, RecordNoImageFailure,
         RecordFailure, CtxDone, NewJob
<1>3. CASE \/ States \/ Tick \/ UNCHANGED vars
           \/ \E cfg \in Configs, interval \in Intervals : Reload(cfg, interval)
  BY <1>1, <1>3 DEF States, Tick, Reload, vars
<1>4. QED BY <1>2, <1>3 DEF Next

\* With one credential no cooldown that runs is shortened.
LEMMA NotShortened ==
  ASSUME NoDuplicateNames, OneCredential, IInv, IInv', [Next]_vars, NEW n \in Names,
         clock < cooldown[n]
  PROVE  cooldown[n] <= cooldown'[n]
<1>1. cooldown[n] \in Nat /\ cooldown'[n] \in Nat
  BY DEF IInv, TypeOK, StoreTypeOK
<1>2. \A o \in Listed \cap Listed' : snapshot[o].cred = snapshot'[o].cred
  BY DEF OneCredential, IInv, SnapshotsKnown, Account
<1>3. ~(cooldown'[n] < cooldown[n])
  BY <1>2, ShortenedCooldown
<1>4. QED BY <1>1, <1>3

LEMMA ChargedKeptStep ==
  ASSUME NoDuplicateNames, OneCredential, ~StoreMayFail, IInv, IInv', RunInv,
         ChargedTyped, ChargedTyped', ChargedKept, [RunNext]_runVars
  PROVE  ChargedKept'
<1>1. [Next]_vars
  BY PoolsStep
<1>2. clock \in Nat /\ clock' \in Nat /\ clock <= clock'
  BY <1>1, ClockForward DEF IInv, TypeOK, StoreTypeOK
<1>3. ASSUME NEW k \in Jobs, charged'[k] = charged[k]
      PROVE  \/ charged'[k].until <= clock'
             \/ charged'[k].until <= cooldown'[charged'[k].name]
  <2>1. charged[k].until \in Nat
    BY DEF ChargedTyped
  <2>2. CASE charged[k].until <= clock
    BY <1>2, <1>3, <2>1, <2>2
  <2>3. CASE ~(charged[k].until <= clock)
    <3>1. charged[k].until <= cooldown[charged[k].name]
      BY <2>3 DEF ChargedKept
    <3>2. CASE charged[k].name \in Names
      <4>1. /\ cooldown[charged[k].name] \in Nat
            /\ cooldown'[charged[k].name] \in Nat
        BY <3>2 DEF IInv, TypeOK, StoreTypeOK
      <4>2. clock < cooldown[charged[k].name]
        BY <1>2, <2>1, <2>3, <3>1, <4>1
      <4>3. cooldown[charged[k].name] <= cooldown'[charged[k].name]
        BY <1>1, <3>2, <4>2, NotShortened
      <4>4. QED BY <1>3, <2>1, <3>1, <4>1, <4>3
    <3>3. charged[k].name \in Names
      BY <1>2, <2>3 DEF ChargedTyped
    <3>4. QED BY <3>2, <3>3
  <2>4. QED BY <2>2, <2>3
<1>4. CASE UNCHANGED charged
  BY <1>3, <1>4 DEF ChargedKept
<1>5. CASE \E j \in Jobs : Charged(j)
  <2>1. PICK j \in Jobs : Charged(j)
    BY <1>5
  <2>2. PICK until \in Nat :
          \/ UNCHANGED charged
          \/ /\ charged' = [charged EXCEPT ![j] =
                              [name |-> held[j].name, until |-> until]]
             /\ held[j].name \in Names
             /\ cooldown'[held[j].name] >= until
    BY <2>1, ChargedMarks
  <2>3. CASE UNCHANGED charged
    BY <1>4, <2>3
  <2>4. CASE ~UNCHANGED charged
    <3>1. /\ charged'[j] = [name |-> held[j].name, until |-> until]
          /\ cooldown'[held[j].name] >= until
          /\ cooldown'[held[j].name] \in Nat
      BY <2>2, <2>4 DEF ChargedTyped, IInv, TypeOK, StoreTypeOK
    <3>2. charged'[j].until <= cooldown'[charged'[j].name]
      BY <3>1
    <3>3. \A k \in Jobs \ {j} : charged'[k] = charged[k]
      BY <2>2, <2>4 DEF ChargedTyped
    <3>4. QED BY <1>3, <3>2, <3>3 DEF ChargedKept
  <2>5. QED BY <2>3, <2>4
<1>6. QED BY <1>4, <1>5, ChargedOnce

\* A job that leaves the wait for an account has just been granted one.
LEMMA GrantedNow ==
  ASSUME IInv, RunInv, RunNext, NEW j \in Jobs,
         stage[j] = "waiting", stage'[j] = "client"
  PROVE  Grant(j)
<1>1. PICK k \in Jobs : RunStep(k)
  BY DEF RunNext, run
<1>2. stage \in [Jobs -> Stages]
  BY DEF RunInv
<1>3. CASE Acquired(k)
  BY <1>2, <1>3 DEF Acquired, To
<1>4. CASE NotAcquired(k)
  BY <1>2, <1>4 DEF NotAcquired, To
<1>5. CASE Acquiring(k) \/ AcquireDone(k) \/ Expire(k) \/ Cancel(k)
  BY <1>5 DEF Acquiring, AcquireDone, Expire, Cancel, run
<1>6. CASE stage[k] # "waiting" /\ \E s \in Stages : To(k, s)
  BY <1>2, <1>6 DEF To
<1>7. CASE \/ NewClient(k) \/ Uploaded(k) \/ Required(k) \/ Proved(k)
           \/ Prepared(k) \/ Streaming(k) \/ CallFails(k)
           \/ \E refs, task, previews, began \in BOOLEAN :
                Streamed(k, refs, task, previews, began)
           \/ Polled(k) \/ PollTimeout(k) \/ PollCanceled(k) \/ Charged(k)
           \/ Downloaded(k) \/ Deferred(k) \/ Retry(k) \/ Return(k)
  BY <1>6, <1>7
     DEF NewClient, Uploaded, Required, Proved, Prepared, Streaming, CallFails,
         Calling, Streamed, Polled, PollTimeout, PollCanceled, Charged, Downloaded,
         Deferred, Retry, Return, Fails, Stages, Body
<1>8. QED
  BY <1>1, <1>3, <1>4, <1>5, <1>7 DEF RunStep, LocalStep, UpstreamStep

\* The second attempt of a job does not get the account that its first one had
\* cooled, until that is over; reloads may take accounts out and in, but bring no
\* new credentials.
THEOREM RunnerRetryElsewhere ==
  ASSUME NoDuplicateNames, OneCredential, ~StoreMayFail
  PROVE  RunSpec => RetryElsewhere
<1>1. RunInit => ChargedKept
  BY DEF RunInit, Init, StoreInit, ChargedKept, NotCharged
<1>2. IInv /\ IInv' /\ RunInv /\ ChargedTyped /\ ChargedTyped' /\ ChargedKept
        /\ [RunNext]_runVars => ChargedKept'
  BY ChargedKeptStep
<1>3. ASSUME IInv, RunInv, ChargedTyped, ChargedKept, RunNext, NEW j \in Jobs,
             stage[j] = "waiting", stage'[j] = "client",
             held'[j].name = charged[j].name
      PROVE  clock >= charged[j].until
  <2>1. Grant(j)
    BY <1>3, GrantedNow
  <2>2. held'[j] = snapshot[lease'[j]]
    BY <1>3, <2>1 DEF Grant, IInv, TypeOK
  <2>3. lease'[j] \in Listed /\ clock >= cooldown[snapshot[lease'[j]].name]
    BY <1>3, <2>1, GrantStep
  <2>4. charged[j].name \in Names
    BY <1>3, <2>2, <2>3 DEF IInv, SnapshotsKnown, Account
  <2>5. /\ clock \in Nat /\ cooldown[charged[j].name] \in Nat
        /\ charged[j].until \in Nat
    BY <1>3, <2>4 DEF IInv, TypeOK, StoreTypeOK, ChargedTyped
  <2>6. QED BY <1>3, <2>2, <2>3, <2>5 DEF ChargedKept
<1>4. IInv /\ RunInv /\ ChargedTyped /\ ChargedKept /\ [RunNext]_runVars =>
        [\A j \in Jobs :
           /\ stage[j] = "waiting" /\ stage'[j] = "client"
           /\ held'[j].name = charged[j].name
           => clock >= charged[j].until]_runVars
  BY <1>3
<1>5. RunSpec => []IInv
  BY RunnerUsesPool, PoolInvariant, PTL
<1>6. QED
  BY <1>1, <1>2, <1>4, <1>5, RunnerInvariant, RunnerChargedTyped, PTL
     DEF RunSpec, RetryElsewhere

\* With a store that does not fail, Run charges an account for missing images by
\* the pool's policy: a paid one after PaidThreshold failures of one window, any
\* other after each.
THEOREM RunnerFailurePolicy ==
  ASSUME ~StoreMayFail, FreeThreshold = 1
  PROVE  RunSpec => FailurePolicy
BY RunnerUsesPool, PoolFailurePolicy, PTL

=============================================================================
