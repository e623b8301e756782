------------------------------- MODULE Attempt --------------------------------
(***************************************************************************)
(* One attempt of an image job, call by call: what runOnce of internal/    *)
(* runner/runner.go does with an account once it has it, and the calls of  *)
(* internal/upstream/chatgpt behind it.  Runner has each of these groups   *)
(* of calls as one step; here are the calls themselves, with the stand-in  *)
(* for a requirement that could not be had in two steps, the goroutine     *)
(* that solves the proof of work, and what becomes of the references.      *)
(*                                                                         *)
(* The attempt ends where it returns, or where it asks the pool to record  *)
(* a failure without an image.  The order of references is left out.       *)
(***************************************************************************)
EXTENDS Integers, FiniteSets

CONSTANTS MaxRefs,       \* bound: reference images of the job
          FileIds, Seds, \* file-service and sediment references
          Personas       \* non-empty personas the upstream reports

ASSUME AttemptAssumption == MaxRefs \in Nat

VARIABLES
  count,     \* len(req.References)
  stage,     \* where the goroutine is
  uploaded,  \* inputFileIDs
  cr,        \* the requirement: what its token and its seed belong to, and the
             \* persona; history: whose challenge's answer it is
  required,  \* history: the challenges that want a proof of work
  solver,    \* the goroutine of getRequirements: "none", "solving", "ended"
  ch,        \* its channel, with room for one answer
  proof,     \* proofToken: the challenge whose seed it was solved for, or none
  begun,     \* history: the upstream has begun an image task
  task,      \* an image_gen_task_id was seen
  previews,  \* sediments that the stream showed
  refs,      \* fileRefs
  left,      \* those that were not looked at yet
  images,    \* the images downloaded: their references and contents
  expired,   \* the deadline of the task has passed
  canceled,  \* the request has canceled the job
  told,      \* what the pool was told
  code       \* the code returned; none: an image came

shown        == <<task, previews, refs, left, images>>
conversation == <<begun, shown>>
sentinel     == <<cr, required, solver, ch, proof>>
ctx          == <<expired, canceled>>
vars         == <<count, stage, uploaded, sentinel, conversation, ctx, told, code>>

None    == ""
TwoStep == "two-step"      \* the challenge of /chat-requirements/prepare
OneStep == "single-step"   \* that of /chat-requirements
IsEdit  == count > 0
Refs    == FileIds \cup Seds
Cut     == expired \/ canceled
Ended   == stage \in {"charge", "return"}

To(s) == stage' = s

Init ==
  /\ count \in 0..MaxRefs
  /\ stage = "client"
  /\ uploaded = {}
  /\ cr = [of |-> None, token |-> None, seed |-> None, persona |-> None]
  /\ required = {}
  /\ solver = "none" /\ ch = <<>> /\ proof = None
  /\ begun = FALSE
  /\ task = FALSE /\ previews = {} /\ refs = {} /\ left = {} /\ images = {}
  /\ expired = FALSE /\ canceled = FALSE
  /\ told = {}
  /\ code = "unknown"

Return(c) == code' = c /\ To("return")

NewClient ==
  /\ stage = "client"
  /\ \/ To("create") /\ UNCHANGED code
     \/ Return("unknown")
  /\ UNCHANGED <<count, uploaded, sentinel, conversation, ctx, told>>

-----------------------------------------------------------------------------
(* Calls that fail                                                           *)

\* The context of a call is done, for either reason.
Interruptions == {e \in {"deadline", "canceled"} :
                    (e = "deadline" => expired) /\ (e = "canceled" => canceled)}

\* How a call may fail: the status of an answer; a body that does not decode or
\* lacks what it should have, as when the rest of it was cut off, which is not
\* noticed where it is read; or an error of the transport, which is that of the
\* context once this is done.  A pause has its context only.
Failures ==
  IF stage = "pause" THEN Interruptions
  ELSE {"429", "401", "500"} \cup
       (IF stage \in {"create", "single"} THEN {"decode"} ELSE {}) \cup
       (IF Cut THEN Interruptions ELSE {"EOF", "deadline"})

classifyUpstream(e) ==
  CASE e = "429"      -> "rate_limited"
    [] e = "401"      -> "auth_required"
    [] e = "deadline" -> "poll_timeout"
    [] e = "EOF"      -> "network_transient"
    [] OTHER          -> "upstream_error"

\* Calls whose failure ends the attempt; the pause between two of an upload ends
\* with the context only.
Reporting == {"put", "register", "single", "prepare", "stream"} \cup
             (IF IsEdit THEN {"create"} ELSE {}) \cup (IF Cut THEN {"pause"} ELSE {})

\* Mutant: only a 429 is told.
TellLimitedOnly(c) == IF c = "rate_limited" THEN {"limited"} ELSE {}

Tell(c) ==
  CASE c = "rate_limited"  -> {"limited"}
    [] c = "auth_required" -> {"unauthorized"}
    [] OTHER               -> {}

\* Of the call that opens the conversation, an image task may have been begun even
\* so, unless the upstream turned it away.
CallFails ==
  /\ stage \in Reporting
  /\ \E e \in Failures :
       /\ Return(classifyUpstream(e))
       /\ told' = told \cup Tell(classifyUpstream(e))
       /\ begun' \in IF stage = "stream" /\ e \notin {"429", "401"} THEN BOOLEAN
                     ELSE {begun}
  /\ UNCHANGED <<count, uploaded, sentinel, shown, ctx>>

-----------------------------------------------------------------------------
(* UploadFile, for each reference image                                      *)

NothingToUpload ==
  /\ stage = "create" /\ ~IsEdit
  /\ To("two-prepare")
  /\ UNCHANGED <<count, uploaded, sentinel, conversation, ctx, told, code>>

\* The file's id; it is kept only if all of the upload succeeds, as is the attempt.
Created ==
  /\ stage = "create" /\ IsEdit /\ ~Cut
  /\ \E id \in FileIds \ uploaded : uploaded' = uploaded \cup {id}
  /\ To("pause")
  /\ UNCHANGED <<count, sentinel, conversation, ctx, told, code>>

\* 500 ms; when the context is done too, either may be taken.
Paused ==
  /\ stage = "pause"
  /\ To("put")
  /\ UNCHANGED <<count, uploaded, sentinel, conversation, ctx, told, code>>

Stored ==
  /\ stage = "put" /\ ~Cut
  /\ To("register")
  /\ UNCHANGED <<count, uploaded, sentinel, conversation, ctx, told, code>>

Registered ==
  /\ stage = "register" /\ ~Cut
  /\ To(IF Cardinality(uploaded) < count THEN "create" ELSE "two-prepare")
  /\ UNCHANGED <<count, uploaded, sentinel, conversation, ctx, told, code>>

-----------------------------------------------------------------------------
(* ChatRequirementsV2                                                        *)

\* A requirement was had: the pool is told its persona, and the proof it wants is
\* begun.
GotRequirement(r) ==
  /\ cr' = r
  /\ told' = told \cup (IF r.persona # None THEN {"persona"} ELSE {})
  /\ IF r.seed # None THEN To("proof") /\ solver' = "solving"
                      ELSE To("prepare") /\ UNCHANGED solver

\* The challenge of two steps, which may want a proof and a turnstile.  For the
\* turnstile the program has no solver.  The proof for the second step is solved
\* here, without a look at the context.
TwoStepPrepared ==
  /\ stage = "two-prepare" /\ ~Cut
  /\ \E p \in Personas \cup {None}, pow, turnstile \in BOOLEAN :
       /\ cr' = [of |-> None, token |-> None, seed |-> IF pow THEN TwoStep ELSE None,
                 persona |-> p]
       /\ required' = IF pow THEN {TwoStep} ELSE {}
       /\ To(IF turnstile THEN "bootstrap" ELSE "finalize")
  /\ UNCHANGED <<count, uploaded, solver, ch, proof, conversation, ctx, told, code>>

\* Of an answer, be its token empty, nothing is asked but that it decodes.
Answered(p, t) ==
  [cr EXCEPT !.of = TwoStep, !.token = t, !.persona = IF p # None THEN p ELSE @]

Finalized ==
  /\ stage = "finalize" /\ ~Cut
  /\ \E p \in Personas \cup {None}, t \in {TwoStep, None} :
       GotRequirement(Answered(p, t))
  /\ UNCHANGED <<count, uploaded, required, ch, proof, conversation, ctx, code>>

\* Whatever fails in the two steps, the single step stands in.
TwoStepFails ==
  /\ stage \in {"two-prepare", "finalize"}
  /\ To("bootstrap")
  /\ UNCHANGED <<count, uploaded, sentinel, conversation, ctx, told, code>>

\* GET /, whose outcome is ignored.
Bootstrapped ==
  /\ stage = "bootstrap"
  /\ To("single")
  /\ UNCHANGED <<count, uploaded, sentinel, conversation, ctx, told, code>>

\* Mutant: the single step fills in what the two steps left open.
StandInMerged(p, pow, t) ==
  [of      |-> OneStep,
   token   |-> t,
   seed    |-> IF cr.seed # None THEN cr.seed ELSE IF pow THEN OneStep ELSE None,
   persona |-> p]

\* Nothing of the two steps is kept; here too the token may be empty.
StandIn(p, pow, t) ==
  [of |-> OneStep, token |-> t, seed |-> IF pow THEN OneStep ELSE None, persona |-> p]

SingleStep ==
  /\ stage = "single" /\ ~Cut
  /\ \E p \in Personas \cup {None}, pow \in BOOLEAN, t \in {OneStep, None} :
       /\ GotRequirement(StandIn(p, pow, t))
       /\ required' = required \cup (IF pow THEN {OneStep} ELSE {})
  /\ UNCHANGED <<count, uploaded, ch, proof, conversation, ctx, code>>

-----------------------------------------------------------------------------
(* The proof of work                                                         *)

\* Mutant: the channel has no room.
SolverSendsUnbuffered(a) == stage = "proof" /\ ch' = <<a>>

\* The channel has room for the one answer, also when nobody waits for it.
SolverSends(a) == ch = <<>> /\ ch' = <<a>>

\* SolveProofToken, which does not look at the context: an empty answer if the seed
\* or the difficulty is, else a solution or, after 100000 tries, a made-up one.
SolverEnds ==
  /\ solver = "solving"
  /\ \E a \in {None, cr.seed} : SolverSends(a)
  /\ solver' = "ended"
  /\ UNCHANGED <<count, stage, uploaded, cr, required, proof, conversation, ctx,
                 told, code>>

Proved ==
  /\ stage = "proof" /\ ch # <<>>
  /\ ch' = <<>>
  /\ proof' = ch[1]
  /\ IF ch[1] = None THEN Return("pow_failed") ELSE To("prepare") /\ UNCHANGED code
  /\ UNCHANGED <<count, uploaded, cr, required, solver, conversation, ctx, told>>

\* 8 seconds, or the context.
ProofTimeout ==
  /\ stage = "proof"
  /\ Return("pow_timeout")
  /\ UNCHANGED <<count, uploaded, sentinel, conversation, ctx, told>>

-----------------------------------------------------------------------------
(* The conversation                                                          *)

\* PrepareFConversation and StreamFConversation; both send the token of cr and
\* the proof.
Prepared ==
  /\ stage = "prepare" /\ ~Cut
  /\ To("stream")
  /\ UNCHANGED <<count, uploaded, sentinel, conversation, ctx, told, code>>

Opened ==
  /\ stage = "stream" /\ ~Cut
  /\ To("sse")
  /\ UNCHANGED <<count, uploaded, sentinel, conversation, ctx, told, code>>

\* A reference image is no result, and for an edit no sediment of the stream is.
Usable(S) == (S \ uploaded) \ (IF IsEdit THEN Seds ELSE {})

\* The end of the stream, however it ends; what it showed until then of a task that
\* was begun.  The id of an input may be echoed without one.
Streamed ==
  /\ stage = "sse"
  /\ \E S \in SUBSET Refs, t \in BOOLEAN :
       /\ task' = t
       /\ previews' = S \cap Seds
       /\ refs' = Usable(S)
       /\ begun' \in IF t \/ previews' \cup refs' # {} THEN {TRUE} ELSE BOOLEAN
       /\ left' = refs'
       /\ To(IF refs' # {} THEN "download" ELSE IF t THEN "poll" ELSE "charge")
       /\ told' = told \cup (IF refs' = {} /\ ~t THEN {"no image"} ELSE {})
  /\ UNCHANGED <<count, uploaded, sentinel, images, ctx, code>>

\* Mutant: the poll is not told of the previews.
IgnoredInputs == uploaded

\* IgnoreFileIDs and IgnoreSedimentIDs.
Ignored == uploaded \cup (IF IsEdit THEN previews ELSE {})

\* The poll (module Poll) ends with some images, after its time, or canceled.
PollEnds ==
  /\ stage = "poll"
  /\ \/ /\ ~Cut
        /\ refs' \in SUBSET (Refs \ Ignored) \ {{}}
        /\ left' = refs'
        /\ To("download")
        /\ UNCHANGED <<told, code>>
     \/ /\ To("charge")
        /\ told' = told \cup {"no image"}
        /\ UNCHANGED <<refs, left, code>>
     \/ /\ canceled
        /\ Return("upstream_error")
        /\ UNCHANGED <<refs, left, told>>
  /\ UNCHANGED <<count, uploaded, sentinel, begun, task, previews, images, ctx>>

\* ImageDownloadURL and FetchImage for one reference: either may fail, and an
\* image with the bytes of a reference image is skipped.
Download(r) ==
  /\ stage = "download" /\ r \in left
  /\ left' = left \ {r}
  /\ \/ UNCHANGED images
     \/ /\ ~Cut
        /\ \E content \in {"input", "new"} :
             images' = IF IsEdit /\ content = "input" THEN images
                       ELSE images \cup {[ref |-> r, content |-> content]}
  /\ UNCHANGED <<count, stage, uploaded, sentinel, begun, task, previews, refs, ctx,
                 told, code>>

Downloaded ==
  /\ stage = "download" /\ left = {}
  /\ Return(IF images # {} THEN None ELSE "download_failed")
  /\ UNCHANGED <<count, uploaded, sentinel, conversation, ctx, told>>

-----------------------------------------------------------------------------

\* The task's deadline, and the request; the mark on the account, if it comes to
\* that, is not held up by them.
Expire ==
  /\ stage # "client" /\ ~Ended /\ ~expired
  /\ expired' = TRUE
  /\ UNCHANGED <<count, stage, uploaded, sentinel, conversation, canceled, told,
                 code>>

Cancel ==
  /\ ~Ended /\ ~canceled
  /\ canceled' = TRUE
  /\ UNCHANGED <<count, stage, uploaded, sentinel, conversation, expired, told, code>>

\* Steps the goroutine takes by itself, and those that wait for the upstream.
LocalStep ==
  \/ NewClient \/ NothingToUpload \/ Paused
  \/ Proved \/ ProofTimeout
  \/ Downloaded

UpstreamStep ==
  \/ CallFails
  \/ Created \/ Stored \/ Registered
  \/ TwoStepPrepared \/ Finalized \/ TwoStepFails \/ Bootstrapped \/ SingleStep
  \/ Prepared \/ Opened \/ Streamed \/ PollEnds
  \/ \E r \in left : Download(r)

Next == LocalStep \/ UpstreamStep \/ SolverEnds \/ Expire \/ Cancel

Spec == Init /\ [][Next]_vars

\* A goroutine that can go on does, a call whose context is done returns, and the
\* deadline comes; an upstream that still has time owes no answer.
FairSpec ==
  /\ Spec
  /\ WF_vars(LocalStep)
  /\ WF_vars(Cut /\ UpstreamStep)
  /\ WF_vars(SolverEnds)
  /\ WF_vars(Expire)

-----------------------------------------------------------------------------

\* The token that opens a conversation, if there is one, and the proof are of the
\* challenge that was answered last, and the proof is there exactly if that challenge
\* wants one, wherever the two steps were left for the single one and whatever the
\* first challenge wanted.
FitsOneChallenge ==
  stage \in {"prepare", "stream"} =>
    /\ cr.token \in {cr.of, None}
    /\ proof = IF cr.of \in required THEN cr.of ELSE None

\* A conversation is opened with a token, which the option that carries it says is
\* required, and the calls of a text conversation look for before they send it.
TokenSent == stage \in {"prepare", "stream"} => cr.token # None

\* An edit returns no input image, under the id of its upload or any other, and no
\* preview its stream showed, whichever of stream and poll brings the reference.
OnlyNewImages ==
  IsEdit => \A i \in images : i.ref \notin uploaded \cup previews /\ i.content = "new"

\* The attempt ends, and so does the goroutine of its proof, whatever the upstream
\* does and whoever gave up waiting first.
AttemptEnds == <>(Ended /\ solver # "solving")

-----------------------------------------------------------------------------

\* What the modules above take for one step of an attempt.
Group ==
  CASE stage \in {"create", "pause", "put", "register"} -> "upload"
    [] stage \in {"two-prepare", "finalize", "bootstrap", "single"} -> "requirements"
    [] stage = "return" -> "release"
    [] OTHER -> stage

\* The job in Runner that has as many reference images; it works on account "a",
\* and the pool has been told by it what was told here.
Of(mine, others) == [j \in 0..MaxRefs |-> IF j = count THEN mine ELSE others]
OfAccount(x)     == [n \in {"a"} |-> x]
Account          == [name |-> "a", cred |-> "c"]

RunnersReason ==
  Of(IF stage # "charge" THEN "none"
     ELSE IF task THEN "poll_timeout" ELSE "no_image_task", "none")
RunnersReported == Of(IF cr.of = None THEN None ELSE cr.persona, None)
RunnersTasks    == Of(IF begun THEN 1 ELSE 0, 0)
RunnersCharged  == Of([name |-> None, until |-> 0], [name |-> None, until |-> 0])
TheJobIf(b)     == IF b THEN {count} ELSE {}
RunnersUnseen   == TheJobIf(begun /\ stage = "charge" /\ ~task)

PoolsCooldown == OfAccount(IF "limited" \in told THEN 2 ELSE 0)
PoolsPersona  == OfAccount(IF "persona" \in told THEN cr.persona ELSE None)
PoolsDisabled == IF "unauthorized" \in told THEN {"o"} ELSE {}
PoolsPc       == Of(IF stage = "charge" THEN "recording" ELSE "leased", "idle")
PoolsNow      == Of(IF stage = "charge" THEN 1 ELSE 0, 0)

Job == INSTANCE Runner WITH
  Names <- {"a"}, Creds <- {"c"}, Objects <- {"o"}, Nobody <- None,
  Jobs <- 0..MaxRefs, Edits <- 1..MaxRefs,
  Configs <- {<<Account>>}, Intervals <- {0}, RateCooldown <- 1,
  StoreMayFail <- FALSE, Paid <- "paid", Window <- 1,
  FreeThreshold <- 1, FreeCooldown <- 1, PaidThreshold <- 1, PaidCooldown <- 1,
  MaxTime <- 1, MaxReloads <- 0, MaxReports <- 3,
  clock <- 1,
  cooldown <- PoolsCooldown, persona <- PoolsPersona, failures <- OfAccount({}),
  accounts <- <<"o">>, minInterval <- 0, nextIndex <- 0,
  snapshot <- [o \in {"o"} |-> Account],
  busy <- {"o"}, disabled <- PoolsDisabled,
  lastUsedAt <- [o \in {"o"} |-> 0],
  pc <- PoolsPc, now <- PoolsNow, ctxDone <- {},
  lease <- Of("o", None), held <- Of(Account, None),
  reloads <- 0, reports <- Cardinality(told),
  stage <- Of(Group, "waiting"), attempt <- Of(1, 1), code <- Of(code, "unknown"),
  reason <- RunnersReason, reported <- RunnersReported,
  preview <- TheJobIf(IsEdit /\ previews # {}),
  expired <- TheJobIf(expired), canceled <- TheJobIf(canceled),
  charged <- RunnersCharged, tasks <- RunnersTasks, unseen <- RunnersUnseen

\* Call by call the attempt does what Runner lets a job do in its larger steps:
\* the same codes after the same failures, the pool told of each by the same
\* marks, an image task begun, and begun unseen, in the same cases.
AttemptIsRunners == [][Job!RunStep(count)]_(Job!runVars)

=============================================================================
