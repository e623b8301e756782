---------------------------- MODULE AttemptProofs -----------------------------
(***************************************************************************)
(* Theorems about Attempt: the proof that is sent belongs to the token it  *)
(* is sent with, an edit returns new images only, and the calls add up to  *)
(* the steps of a job of Runner, for any number of reference images and    *)
(* any references the upstream shows.                                      *)
(***************************************************************************)
EXTENDS Attempt, Sequences, FiniteSetTheorems, TLAPS

Challenges == {None, TwoStep, OneStep}

Requirements ==
  [of : Challenges, token : Challenges, seed : Challenges,
   persona : Personas \cup {None}]

\* Before the requirement, before the answer of the two steps, and while the
\* single step is asked.
NotAsked  == {"client", "create", "pause", "put", "register", "two-prepare"}
BeforeOne == NotAsked \cup {"finalize", "bootstrap", "single"}

\* What belongs to which challenge in each stage up to the conversation.  The
\* goroutine of the proof works on the challenge that was answered.
ChallengesFit ==
  /\ cr \in Requirements
  /\ stage \in NotAsked => required = {}
  /\ stage \in BeforeOne =>
       required \subseteq {TwoStep} /\ solver = "none" /\ ch = <<>> /\ proof = None
  /\ stage = "finalize" => cr.seed = IF TwoStep \in required THEN TwoStep ELSE None
  /\ stage = "proof" =>
       /\ cr.of = cr.seed /\ cr.of # None /\ cr.of \in required
       /\ cr.token \in {cr.of, None}
       /\ proof = None
       /\ ch # <<>> => ch[1] \in {None, cr.seed}
  /\ stage \in {"prepare", "stream"} => cr.of # None
  /\ FitsOneChallenge

-----------------------------------------------------------------------------

LEMMA FitInit == Init => ChallengesFit
<1>. SUFFICES ASSUME Init PROVE ChallengesFit
  OBVIOUS
<1>1. cr \in Requirements
  BY DEF Init, Requirements, Challenges
<1>2. /\ stage = "client" /\ required = {} /\ solver = "none" /\ ch = <<>>
      /\ proof = None
  BY DEF Init
<1>3. QED
  BY <1>1, <1>2 DEF ChallengesFit, FitsOneChallenge, NotAsked, BeforeOne

\* A requirement whose token and seed are of its own challenge, the seed exactly if
\* that wants a proof, begins a proof or a conversation that fits.
LEMMA FitGot ==
  ASSUME NEW r \in Requirements, GotRequirement(r), stage \in BeforeOne,
         ChallengesFit, r.of # None, r.token \in {r.of, None},
         UNCHANGED <<ch, proof>>,
         r.seed = IF r.of \in required' THEN r.of ELSE None
  PROVE  ChallengesFit'
<1>1. ch' = <<>> /\ proof' = None /\ cr' = r
  BY DEF ChallengesFit, GotRequirement
<1>2. CASE r.seed # None
  <2>1. stage' = "proof" /\ r.of \in required' /\ r.seed = r.of
    BY <1>2 DEF GotRequirement, To
  <2>2. QED
    BY <1>1, <2>1 DEF ChallengesFit, FitsOneChallenge, NotAsked, BeforeOne
<1>3. CASE r.seed = None
  <2>1. stage' = "prepare" /\ r.of \notin required'
    BY <1>3 DEF GotRequirement, To, None
  <2>2. QED
    BY <1>1, <2>1 DEF ChallengesFit, FitsOneChallenge, NotAsked, BeforeOne
<1>4. QED
  BY <1>2, <1>3

LEMMA FitTwoStep == ChallengesFit /\ TwoStepPrepared => ChallengesFit'
<1>. SUFFICES ASSUME ChallengesFit, TwoStepPrepared PROVE ChallengesFit'
  OBVIOUS
<1>1. PICK p \in Personas \cup {None}, pow, turnstile \in BOOLEAN :
        /\ cr' = [of |-> None, token |-> None,
                  seed |-> IF pow THEN TwoStep ELSE None, persona |-> p]
        /\ required' = IF pow THEN {TwoStep} ELSE {}
        /\ To(IF turnstile THEN "bootstrap" ELSE "finalize")
  BY DEF TwoStepPrepared
<1>2. /\ UNCHANGED <<solver, ch, proof>> /\ stage = "two-prepare"
      /\ stage' \in {"bootstrap", "finalize"}
  BY <1>1 DEF TwoStepPrepared, To
<1>3. cr' \in Requirements
  BY <1>1 DEF Requirements, Challenges
<1>4. /\ required' \subseteq {TwoStep}
      /\ cr'.seed = IF TwoStep \in required' THEN TwoStep ELSE None
  BY <1>1
<1>5. solver' = "none" /\ ch' = <<>> /\ proof' = None
  BY <1>2 DEF ChallengesFit, BeforeOne, NotAsked
<1>6. QED
  BY <1>2, <1>3, <1>4, <1>5 DEF ChallengesFit, FitsOneChallenge, NotAsked

LEMMA FitFinalized == ChallengesFit /\ Finalized => ChallengesFit'
<1>. SUFFICES ASSUME ChallengesFit, Finalized PROVE ChallengesFit'
  OBVIOUS
<1>1. PICK p \in Personas \cup {None}, t \in {TwoStep, None} :
        GotRequirement(Answered(p, t))
  BY DEF Finalized
<1>2. /\ Answered(p, t) \in Requirements
      /\ Answered(p, t).of = TwoStep /\ Answered(p, t).token = t
      /\ Answered(p, t).seed = cr.seed
  BY DEF Answered, ChallengesFit, Requirements, Challenges
<1>3. stage = "finalize" /\ required' = required /\ UNCHANGED <<ch, proof>>
  BY DEF Finalized
<1>4. stage \in BeforeOne /\ Answered(p, t).of # None
  BY <1>2, <1>3 DEF BeforeOne, TwoStep, None
<1>5. /\ Answered(p, t).token \in {Answered(p, t).of, None}
      /\ Answered(p, t).seed =
           IF Answered(p, t).of \in required' THEN Answered(p, t).of ELSE None
  BY <1>2, <1>3 DEF ChallengesFit
<1>6. QED
  BY <1>1, <1>2, <1>3, <1>4, <1>5, FitGot

LEMMA FitSingle == ChallengesFit /\ SingleStep => ChallengesFit'
<1>. SUFFICES ASSUME ChallengesFit, SingleStep PROVE ChallengesFit'
  OBVIOUS
<1>1. PICK p \in Personas \cup {None}, pow \in BOOLEAN, t \in {OneStep, None} :
        /\ GotRequirement(StandIn(p, pow, t))
        /\ required' = required \cup (IF pow THEN {OneStep} ELSE {})
  BY DEF SingleStep
<1>2. /\ StandIn(p, pow, t) \in Requirements
      /\ StandIn(p, pow, t).of = OneStep /\ StandIn(p, pow, t).token = t
      /\ StandIn(p, pow, t).seed = IF pow THEN OneStep ELSE None
  BY DEF StandIn, Requirements, Challenges
<1>3. stage \in BeforeOne /\ UNCHANGED <<ch, proof>>
  BY DEF SingleStep, BeforeOne
<1>4. OneStep \in required' <=> pow
  BY <1>1, <1>3 DEF ChallengesFit, OneStep, TwoStep
<1>5. QED
  BY <1>1, <1>2, <1>3, <1>4, FitGot DEF OneStep, None

\* The goroutine's answer is for the seed of the requirement, whenever it comes.
LEMMA FitSolver == ChallengesFit /\ SolverEnds => ChallengesFit'
<1>. SUFFICES ASSUME ChallengesFit, SolverEnds PROVE ChallengesFit'
  OBVIOUS
<1>1. PICK a \in {None, cr.seed} : ch' = <<a>>
  BY DEF SolverEnds, SolverSends
<1>2. ch'[1] \in {None, cr.seed}
  BY <1>1
<1>3. stage \notin BeforeOne /\ UNCHANGED <<stage, cr, required, proof>>
  BY DEF SolverEnds, ChallengesFit
<1>4. QED
  BY <1>2, <1>3 DEF ChallengesFit, FitsOneChallenge, BeforeOne

LEMMA FitProved == ChallengesFit /\ Proved => ChallengesFit'
<1>. SUFFICES ASSUME ChallengesFit, Proved PROVE ChallengesFit'
  OBVIOUS
<1>1. /\ stage = "proof" /\ proof' = ch[1] /\ ch[1] \in {None, cr.seed}
      /\ UNCHANGED <<cr, required, solver>>
  BY DEF Proved, ChallengesFit
<1>2. \/ ch[1] = None /\ stage' = "return"
      \/ ch[1] # None /\ stage' = "prepare"
  BY DEF Proved, Return, To
<1>3. QED
  BY <1>1, <1>2 DEF ChallengesFit, FitsOneChallenge, NotAsked, BeforeOne

\* Steps that leave requirement and proof alone go to stages that ask no more of
\* them than those they leave.
LEMMA FitOther ==
  ASSUME ChallengesFit, UNCHANGED sentinel,
         \/ stage' = stage
         \/ stage \in NotAsked /\ stage' \in NotAsked
         \/ stage \in BeforeOne /\ stage' \in {"bootstrap", "single"}
         \/ stage = "prepare" /\ stage' = "stream"
         \/ stage' \in {"sse", "poll", "download", "charge", "return"}
  PROVE  ChallengesFit'
BY DEF ChallengesFit, FitsOneChallenge, sentinel, NotAsked, BeforeOne

LEMMA FitStep == ChallengesFit /\ [Next]_vars => ChallengesFit'
<1>. SUFFICES ASSUME ChallengesFit, [Next]_vars PROVE ChallengesFit'
  OBVIOUS
<1>1. CASE NewClient \/ NothingToUpload \/ Paused \/ Created \/ Stored \/ Registered
  BY <1>1, FitOther DEF NewClient, NothingToUpload, Paused, Created, Stored,
     Registered, To, Return, NotAsked
<1>2. CASE TwoStepFails \/ Bootstrapped
  BY <1>2, FitOther DEF TwoStepFails, Bootstrapped, To, BeforeOne, NotAsked
<1>3. CASE CallFails \/ ProofTimeout \/ Downloaded
  BY <1>3, FitOther DEF CallFails, ProofTimeout, Downloaded, Return, To
<1>4. CASE Prepared \/ Opened \/ PollEnds
  BY <1>4, FitOther DEF Prepared, Opened, PollEnds, Return, To
<1>5. CASE Streamed
  BY <1>5, FitOther DEF Streamed, To
<1>6. CASE Expire \/ Cancel \/ (\E r \in left : Download(r)) \/ UNCHANGED vars
  BY <1>6, FitOther DEF Expire, Cancel, Download, vars
<1>7. QED
  BY <1>1, <1>2, <1>3, <1>4, <1>5, <1>6, FitTwoStep, FitFinalized, FitSingle,
     FitSolver, FitProved DEF Next, LocalStep, UpstreamStep

\* Whatever fails on the way to a requirement, and whenever the goroutine of the
\* proof answers, a conversation is opened with the token and the proof of the one
\* challenge that was answered: a token that is empty if the answer's is, a proof
\* exactly if the challenge wants one.
THEOREM AttemptFitsOneChallenge == Spec => []FitsOneChallenge
<1>1. ChallengesFit => FitsOneChallenge
  BY DEF ChallengesFit
<1>2. QED
  BY <1>1, FitInit, FitStep, PTL DEF Spec

-----------------------------------------------------------------------------

\* What is downloaded was referred to, and for an edit no reference is an upload
\* or a preview.
RefsAreNew ==
  /\ stage \notin {"download", "charge", "return"} => refs = {} /\ images = {}
  /\ IsEdit => refs \cap (uploaded \cup previews) = {}
  /\ left \subseteq refs
  /\ \A i \in images : i.ref \in refs /\ (IsEdit => i.content = "new")

LEMMA NewInit == Init => RefsAreNew
BY DEF Init, RefsAreNew

LEMMA NewStreamed == RefsAreNew /\ Streamed => RefsAreNew'
<1>. SUFFICES ASSUME RefsAreNew, Streamed PROVE RefsAreNew'
  OBVIOUS
<1>1. PICK S \in SUBSET Refs : previews' = S \cap Seds /\ refs' = Usable(S)
  BY DEF Streamed
<1>2. /\ left' = refs' /\ images' = {} /\ UNCHANGED <<uploaded, count>>
      /\ refs' # {} => stage' = "download"
  BY DEF Streamed, RefsAreNew, To
<1>3. IsEdit' => refs' \cap (uploaded' \cup previews') = {}
  BY <1>1, <1>2 DEF Usable, IsEdit
<1>4. QED
  BY <1>2, <1>3 DEF RefsAreNew

LEMMA NewPolled == RefsAreNew /\ PollEnds => RefsAreNew'
<1>. SUFFICES ASSUME RefsAreNew, PollEnds PROVE RefsAreNew'
  OBVIOUS
<1>1. stage = "poll" /\ images' = {} /\ UNCHANGED <<count, uploaded, previews>>
  BY DEF PollEnds, RefsAreNew
<1>2. CASE /\ refs' \in SUBSET (Refs \ Ignored) \ {{}}
           /\ left' = refs'
           /\ To("download")
  <2>1. IsEdit' => refs' \cap (uploaded' \cup previews') = {}
    BY <1>1, <1>2 DEF Ignored, IsEdit
  <2>2. QED
    BY <1>1, <1>2, <2>1 DEF RefsAreNew, To
<1>3. CASE UNCHANGED <<refs, left>>
  BY <1>1, <1>3 DEF RefsAreNew, IsEdit
<1>4. QED
  BY <1>2, <1>3 DEF PollEnds

LEMMA NewDownload ==
  ASSUME RefsAreNew, NEW r \in left, Download(r)
  PROVE  RefsAreNew'
<1>1. /\ left' \subseteq left /\ UNCHANGED <<count, stage, uploaded, previews, refs>>
      /\ stage = "download" /\ r \in refs
  BY DEF Download, RefsAreNew
<1>2. \A i \in images' : i \in images \/ (i.ref = r /\ (IsEdit => i.content = "new"))
  <2>1. CASE UNCHANGED images
    BY <2>1
  <2>2. CASE \E content \in {"input", "new"} :
               images' = IF IsEdit /\ content = "input" THEN images
                         ELSE images \cup {[ref |-> r, content |-> content]}
    <3>1. PICK content \in {"input", "new"} :
            images' = IF IsEdit /\ content = "input" THEN images
                      ELSE images \cup {[ref |-> r, content |-> content]}
      BY <2>2
    <3>2. QED
      BY <3>1
  <2>3. QED
    BY <2>1, <2>2 DEF Download
<1>3. QED
  BY <1>1, <1>2 DEF RefsAreNew, IsEdit

\* Other steps change neither references nor images, or nothing was referred to.
LEMMA NewOther ==
  ASSUME RefsAreNew, UNCHANGED <<count, shown>>,
         \/ UNCHANGED uploaded
         \/ stage = "create",
         \/ stage' = stage
         \/ stage \notin {"download", "charge", "return"}
         \/ stage' \in {"download", "charge", "return"}
  PROVE  RefsAreNew'
BY DEF RefsAreNew, shown, IsEdit

LEMMA NewStep == RefsAreNew /\ [Next]_vars => RefsAreNew'
<1>. SUFFICES ASSUME RefsAreNew, [Next]_vars PROVE RefsAreNew'
  OBVIOUS
<1>1. CASE NewClient \/ NothingToUpload \/ Paused \/ Created \/ Stored \/ Registered
  BY <1>1, NewOther DEF NewClient, NothingToUpload, Paused, Created, Stored,
     Registered, conversation
<1>2. CASE TwoStepPrepared \/ Finalized \/ TwoStepFails \/ Bootstrapped \/ SingleStep
  BY <1>2, NewOther DEF TwoStepPrepared, Finalized, TwoStepFails, Bootstrapped,
     SingleStep, conversation
<1>3. CASE CallFails \/ Proved \/ ProofTimeout \/ SolverEnds
  BY <1>3, NewOther DEF CallFails, Proved, ProofTimeout, SolverEnds, Return, To,
     conversation
<1>4. CASE Prepared \/ Opened \/ Downloaded
  BY <1>4, NewOther DEF Prepared, Opened, Downloaded, Return, To, conversation
<1>5. CASE Expire \/ Cancel \/ UNCHANGED vars
  BY <1>5, NewOther DEF Expire, Cancel, vars, conversation
<1>6. QED
  BY <1>1, <1>2, <1>3, <1>4, <1>5, NewStreamed, NewPolled, NewDownload
     DEF Next, LocalStep, UpstreamStep

\* An edit returns no image whose reference is an upload's or was shown as a
\* preview, nor one with the bytes of its input, whatever references the stream and
\* the poll bring.
THEOREM AttemptOnlyNewImages == Spec => []OnlyNewImages
<1>1. RefsAreNew => OnlyNewImages
  BY DEF RefsAreNew, OnlyNewImages
<1>2. QED
  BY <1>1, NewInit, NewStep, PTL DEF Spec

-----------------------------------------------------------------------------
(* The attempt as a job of Runner.  A mark can be told because at most the    *)
(* persona has been, and what Runner has not learned yet has its first value. *)

\* Stages of an upload that has begun, and those from the requirement to the end of
\* the stream.
Uploading == {"pause", "put", "register"}
Talking   == {"proof", "prepare", "stream", "sse"}

\* What each stage of the attempt has learned and told.
OnItsWay ==
  /\ count \in 0..MaxRefs
  /\ stage \in BeforeOne \cup Talking \cup {"poll", "download", "charge", "return"}
  /\ cr \in Requirements
  /\ stage \in Uploading => IsEdit
  /\ stage \in BeforeOne => cr.of = None /\ told = {} /\ begun = FALSE
  /\ stage \in Talking \cup {"poll", "download"} => told \subseteq {"persona"}
  /\ stage \in Talking => begun = FALSE
  /\ stage \in BeforeOne \cup Talking => ~task /\ refs = {} /\ previews = {}
  /\ stage = "poll" => task /\ refs = {}

LEMMA OnItsWayInit == Init => OnItsWay
<1>. SUFFICES ASSUME Init PROVE OnItsWay
  OBVIOUS
<1>1. cr \in Requirements /\ cr.of = None
  BY DEF Init, Requirements, Challenges
<1>2. QED
  BY <1>1 DEF Init, OnItsWay, BeforeOne, NotAsked, Uploading, Talking, IsEdit

\* A requirement ends the stages before it.
LEMMA GotOnItsWay ==
  ASSUME OnItsWay, NEW r \in Requirements, GotRequirement(r), stage \in BeforeOne,
         UNCHANGED <<count, conversation>>
  PROVE  OnItsWay'
<1>1. stage' \in {"proof", "prepare"} /\ cr' = r /\ told' \subseteq {"persona"}
  BY DEF GotRequirement, To, OnItsWay
<1>2. QED
  BY <1>1 DEF OnItsWay, BeforeOne, NotAsked, Uploading, Talking, IsEdit,
     conversation, shown

\* Other steps go to a stage that has learned no more.
LEMMA OtherOnItsWay ==
  ASSUME OnItsWay, UNCHANGED <<count, cr, shown>>,
         UNCHANGED begun \/ stage' = "return",
         \/ UNCHANGED <<stage, told>>
         \/ /\ stage \in BeforeOne /\ stage' \in BeforeOne /\ UNCHANGED told
            /\ stage' \in Uploading => IsEdit
         \/ stage \in Talking /\ stage' \in Talking /\ UNCHANGED told
         \/ stage' = "return"
  PROVE  OnItsWay'
BY DEF OnItsWay, BeforeOne, NotAsked, Uploading, Talking, IsEdit,
     conversation, shown

LEMMA OnItsWayStep == OnItsWay /\ [Next]_vars => OnItsWay'
<1>. SUFFICES ASSUME OnItsWay, [Next]_vars PROVE OnItsWay'
  OBVIOUS
<1>1. CASE NewClient \/ NothingToUpload \/ Paused \/ Created \/ Stored \/ Registered
  BY <1>1, OtherOnItsWay DEF NewClient, NothingToUpload, Paused, Created, Stored,
     Registered, To, Return, BeforeOne, NotAsked, Uploading, IsEdit, OnItsWay,
     sentinel, conversation
<1>2. CASE TwoStepFails \/ Bootstrapped
  BY <1>2, OtherOnItsWay DEF TwoStepFails, Bootstrapped, To, BeforeOne, NotAsked,
     Uploading, sentinel, conversation
<1>3. CASE TwoStepPrepared
  <2>1. PICK p \in Personas \cup {None}, pow \in BOOLEAN :
          cr' = [of |-> None, token |-> None,
                 seed |-> IF pow THEN TwoStep ELSE None, persona |-> p]
    BY <1>3 DEF TwoStepPrepared
  <2>2. cr' \in Requirements /\ cr'.of = None
    BY <2>1 DEF Requirements, Challenges
  <2>3. /\ stage \in BeforeOne /\ stage' \in {"bootstrap", "finalize"}
        /\ UNCHANGED <<count, conversation, told>>
    BY <1>3 DEF TwoStepPrepared, To, BeforeOne, NotAsked
  <2>4. QED
    BY <2>2, <2>3 DEF OnItsWay, BeforeOne, NotAsked, Uploading, Talking, IsEdit,
     conversation, shown
<1>4. CASE Finalized
  <2>1. PICK p \in Personas \cup {None}, t \in {TwoStep, None} :
          GotRequirement(Answered(p, t))
    BY <1>4 DEF Finalized
  <2>2. Answered(p, t) \in Requirements
    BY DEF Answered, OnItsWay, Requirements, Challenges
  <2>3. stage \in BeforeOne /\ UNCHANGED <<count, conversation>>
    BY <1>4 DEF Finalized, BeforeOne
  <2>4. QED
    BY <2>1, <2>2, <2>3, GotOnItsWay
<1>5. CASE SingleStep
  <2>1. PICK p \in Personas \cup {None}, pow \in BOOLEAN, t \in {OneStep, None} :
          GotRequirement(StandIn(p, pow, t))
    BY <1>5 DEF SingleStep
  <2>2. StandIn(p, pow, t) \in Requirements
    BY DEF StandIn, Requirements, Challenges
  <2>3. stage \in BeforeOne /\ UNCHANGED <<count, conversation>>
    BY <1>5 DEF SingleStep, BeforeOne
  <2>4. QED
    BY <2>1, <2>2, <2>3, GotOnItsWay
<1>6. CASE CallFails \/ Proved \/ ProofTimeout \/ SolverEnds \/ Prepared \/ Opened
           \/ Downloaded
  BY <1>6, OtherOnItsWay DEF CallFails, Proved, ProofTimeout, SolverEnds, Prepared,
     Opened, Downloaded, To, Return, Talking, sentinel, conversation
<1>7. CASE Streamed
  <2>1. /\ UNCHANGED <<count, cr>>
        /\ stage' = IF refs' # {} THEN "download"
                    ELSE IF task' THEN "poll" ELSE "charge"
        /\ stage' # "charge" => told' = told
        /\ stage = "sse"
    <3>1. PICK S \in SUBSET Refs, t \in BOOLEAN :
            /\ task' = t
            /\ To(IF refs' # {} THEN "download" ELSE IF t THEN "poll" ELSE "charge")
            /\ told' = told \cup (IF refs' = {} /\ ~t THEN {"no image"} ELSE {})
      BY <1>7 DEF Streamed
    <3>2. stage = "sse" /\ UNCHANGED <<count, cr>>
      BY <1>7 DEF Streamed, sentinel
    <3>3. QED
      BY <3>1, <3>2 DEF To
  <2>2. QED
    BY <2>1 DEF OnItsWay, BeforeOne, NotAsked, Uploading, Talking, IsEdit
<1>8. CASE PollEnds
  <2>1. /\ UNCHANGED <<count, cr>> /\ stage = "poll"
        /\ stage' \in {"download", "charge", "return"}
        /\ stage' = "download" => told' = told
    BY <1>8 DEF PollEnds, To, Return, sentinel
  <2>2. QED
    BY <2>1 DEF OnItsWay, BeforeOne, NotAsked, Uploading, Talking, IsEdit
<1>9. CASE \E r \in left : Download(r)
  <2>1. UNCHANGED <<count, cr, stage, told>> /\ stage = "download"
    BY <1>9 DEF Download, sentinel
  <2>2. QED
    BY <2>1 DEF OnItsWay, BeforeOne, NotAsked, Uploading, Talking, IsEdit
<1>10. CASE Expire \/ Cancel \/ UNCHANGED vars
  BY <1>10, OtherOnItsWay DEF Expire, Cancel, vars, sentinel, conversation
<1>11. QED
  BY <1>1, <1>2, <1>3, <1>4, <1>5, <1>6, <1>7, <1>8, <1>9, <1>10
     DEF Next, LocalStep, UpstreamStep

-----------------------------------------------------------------------------
(* The steps of Runner.                                                      *)

\* Where the attempt goes, and what it returns, in terms of the job.
LEMMA JobAt ==
  ASSUME OnItsWay
  PROVE  Of(Group, "waiting")[count] = Group
BY DEF OnItsWay, Of

LEMMA JobTo ==
  ASSUME OnItsWay, UNCHANGED count
  PROVE  Job!To(count, Group')
BY DEF OnItsWay, Of, Job!To

LEMMA JobReports ==
  ASSUME OnItsWay, UNCHANGED count
  PROVE  Job!Reports(count, code')
BY DEF OnItsWay, Of, Job!Reports

\* What stays as it is when the attempt has the same account.
LEMMA Fixed ==
  ASSUME UNCHANGED count
  PROVE  UNCHANGED <<Of(1, 1), Of("o", None), Of(Account, None), RunnersCharged,
                     OfAccount({}), [o \in {"o"} |-> Account],
                     [o \in {"o"} |-> 0]>>
BY DEF Of, OfAccount, RunnersCharged, Account

\* The pool does not notice a step that tells it nothing.
LEMMA PoolQuiet ==
  ASSUME UNCHANGED <<count, told>>, "persona" \in told => UNCHANGED cr,
         stage = "charge" <=> stage' = "charge"
  PROVE  UNCHANGED Job!vars
<1>1. UNCHANGED <<PoolsCooldown, PoolsPersona, PoolsDisabled, PoolsPc, PoolsNow>>
  BY DEF PoolsCooldown, PoolsPersona, PoolsDisabled, PoolsPc, PoolsNow, Of, OfAccount
<1>2. QED
  BY <1>1, Fixed DEF Job!vars, Job!store, Job!list, Job!entries, Job!jobs, Job!bounds

\* Steps without news for the job's record of the conversation.
LEMMA RecordKept ==
  ASSUME UNCHANGED <<count, ctx, task, refs, previews>>,
         (cr.of = None /\ cr'.of = None) \/ UNCHANGED cr,
         stage # "charge", stage' # "charge"
  PROVE  /\ UNCHANGED <<RunnersReason, RunnersReported, RunnersUnseen,
                        TheJobIf(IsEdit /\ previews # {}), TheJobIf(expired),
                        TheJobIf(canceled)>>
         /\ UNCHANGED begun => UNCHANGED RunnersTasks
BY DEF RunnersReason, RunnersReported, RunnersTasks, RunnersUnseen, TheJobIf, Of,
   IsEdit, ctx

\* The first image task of the job is counted, if the upstream begins one.
LEMMA TaskCounted ==
  ASSUME OnItsWay, UNCHANGED count, begun = FALSE, begun' \in BOOLEAN
  PROVE  Job!Begins(count, begun')
<1>1. RunnersTasks = [j \in 0..MaxRefs |-> 0] /\ count \in 0..MaxRefs
  BY DEF RunnersTasks, Of, OnItsWay
<1>2. CASE begun'
  <2>1. RunnersTasks' = [j \in 0..MaxRefs |-> IF j = count THEN 1 ELSE 0]
    BY <1>2 DEF RunnersTasks, Of
  <2>2. [[j \in 0..MaxRefs |-> 0] EXCEPT ![count] = 1] =
          [j \in 0..MaxRefs |-> IF j = count THEN 1 ELSE 0]
    BY <1>1
  <2>3. RunnersTasks[count] + 1 = 1
    BY <1>1
  <2>4. [RunnersTasks EXCEPT ![count] = @ + 1] = [RunnersTasks EXCEPT ![count] = 1]
    BY <2>3
  <2>5. QED
    BY <1>1, <1>2, <2>1, <2>2, <2>4 DEF Job!Begins
<1>3. CASE ~begun'
  BY <1>3 DEF RunnersTasks, Of, Job!Begins
<1>4. QED
  BY <1>2, <1>3

\* A call inside a group of calls is no step of the job.
LEMMA InGroup ==
  ASSUME UNCHANGED <<count, ctx, begun, task, refs, previews, told, code>>,
         "persona" \in told => UNCHANGED cr,
         (cr.of = None /\ cr'.of = None) \/ UNCHANGED cr,
         stage # "charge", stage' # "charge", Group' = Group
  PROVE  UNCHANGED Job!runVars
<1>1. UNCHANGED <<Of(Group, "waiting"), Of(code, "unknown")>>
  BY DEF Of
<1>2. QED
  BY <1>1, Fixed, PoolQuiet, RecordKept DEF Job!runVars, Job!run

LEMMA IsNewClient ==
  ASSUME OnItsWay, NewClient
  PROVE  Job!NewClient(count)
<1>1. /\ stage = "client" /\ Group = "client"
      /\ \/ stage' = "create" /\ Group' = "upload" /\ UNCHANGED code
         \/ stage' = "return" /\ Group' = "release" /\ code' = "unknown"
      /\ UNCHANGED <<count, ctx, begun, task, refs, previews, told, cr>>
  BY DEF NewClient, To, Return, Group, conversation, shown, sentinel
<1>2. UNCHANGED Of(code, "unknown") \/ code' # code
  BY <1>1 DEF Of
<1>3. QED
  BY <1>1, <1>2, JobAt, JobTo, JobReports, Fixed, PoolQuiet, RecordKept
     DEF Job!NewClient, Job!Fails

\* The job's context is done when the attempt's is.
LEMMA CutAgrees == Job!Cut(count) <=> Cut
BY DEF Job!Cut, Cut, TheJobIf

\* Steps that go on in the conversation, or end it with the given code.
LEMMA GoesOn ==
  ASSUME OnItsWay,
         UNCHANGED <<count, ctx, begun, task, refs, previews, told, cr, code>>,
         stage # "charge", stage' # "charge"
  PROVE  /\ Job!To(count, Group')
         /\ UNCHANGED <<Job!vars, Of(1, 1), Of(code, "unknown"), RunnersReason,
                        RunnersReported, TheJobIf(IsEdit /\ previews # {}),
                        TheJobIf(expired), TheJobIf(canceled), RunnersCharged,
                        RunnersTasks, RunnersUnseen>>
<1>1. UNCHANGED Of(code, "unknown")
  BY DEF Of
<1>2. QED
  BY <1>1, JobTo, Fixed, PoolQuiet, RecordKept

LEMMA IsUploaded ==
  ASSUME OnItsWay,
         NothingToUpload \/ (Registered /\ stage' = "two-prepare")
  PROVE  Job!Uploaded(count)
<1>1. /\ stage \in {"create", "register"} /\ stage' = "two-prepare"
      /\ UNCHANGED <<count, ctx, begun, task, refs, previews, told, cr, code>>
      /\ ~IsEdit \/ ~Cut
  BY DEF NothingToUpload, Registered, To, conversation, shown, sentinel
<1>2. Group = "upload" /\ Group' = "requirements"
  BY <1>1 DEF Group
<1>3. count \in 1..MaxRefs => ~Job!Cut(count)
  BY <1>1, CutAgrees DEF IsEdit
<1>4. QED
  BY <1>1, <1>2, <1>3, JobAt, GoesOn DEF Job!Uploaded

LEMMA IsNextCall ==
  ASSUME OnItsWay
  PROVE  /\ Prepared => Job!Prepared(count)
         /\ Opened => Job!Streaming(count)
<1>1. ASSUME Prepared PROVE Job!Prepared(count)
  <2>1. /\ Group = "prepare" /\ Group' = "stream" /\ ~Job!Cut(count)
        /\ stage = "prepare" /\ stage' = "stream"
        /\ UNCHANGED <<count, ctx, begun, task, refs, previews, told, cr, code>>
    BY <1>1, CutAgrees DEF Prepared, To, Group, conversation, shown, sentinel
  <2>2. QED
    BY <2>1, JobAt, GoesOn DEF Job!Prepared
<1>2. ASSUME Opened PROVE Job!Streaming(count)
  <2>1. /\ Group = "stream" /\ Group' = "sse" /\ ~Job!Cut(count)
        /\ stage = "stream" /\ stage' = "sse"
        /\ UNCHANGED <<count, ctx, begun, task, refs, previews, told, cr, code>>
    BY <1>2, CutAgrees DEF Opened, To, Group, conversation, shown, sentinel
  <2>2. QED
    BY <2>1, JobAt, GoesOn DEF Job!Streaming
<1>3. QED
  BY <1>1, <1>2

LEMMA IsProved ==
  ASSUME OnItsWay, Proved \/ ProofTimeout
  PROVE  Job!Proved(count)
<1>1. /\ stage = "proof"
      /\ UNCHANGED <<count, ctx, begun, task, refs, previews, told, cr>>
      /\ \/ stage' = "prepare" /\ UNCHANGED code
         \/ stage' = "return" /\ code' \in {"pow_failed", "pow_timeout"}
  BY DEF Proved, ProofTimeout, To, Return, conversation, shown, sentinel
<1>2. Group = "proof" /\ Group' = IF stage' = "prepare" THEN "prepare" ELSE "release"
  BY <1>1 DEF Group
<1>3. UNCHANGED code => UNCHANGED Of(code, "unknown")
  BY <1>1 DEF Of
<1>4. UNCHANGED <<Job!vars, Of(1, 1), RunnersReason, RunnersReported,
                  TheJobIf(IsEdit /\ previews # {}), TheJobIf(expired),
                  TheJobIf(canceled), RunnersCharged, RunnersTasks, RunnersUnseen>>
  BY <1>1, Fixed, PoolQuiet, RecordKept
<1>5. QED
  BY <1>1, <1>2, <1>3, <1>4, JobAt, JobTo, JobReports DEF Job!Proved, Job!Fails

LEMMA IsDownloaded ==
  ASSUME OnItsWay, Downloaded
  PROVE  Job!Downloaded(count)
<1>1. /\ stage = "download" /\ stage' = "return"
      /\ code' \in {None, "download_failed"}
      /\ UNCHANGED <<count, ctx, begun, task, refs, previews, told, cr>>
  BY DEF Downloaded, To, Return, conversation, shown, sentinel
<1>2. Group = "download" /\ Group' = "release"
  BY <1>1 DEF Group
<1>3. UNCHANGED <<Job!vars, Of(1, 1), RunnersReason, RunnersReported,
                  TheJobIf(IsEdit /\ previews # {}), TheJobIf(expired),
                  TheJobIf(canceled), RunnersCharged, RunnersTasks, RunnersUnseen>>
  BY <1>1, Fixed, PoolQuiet, RecordKept
<1>4. QED
  BY <1>1, <1>2, <1>3, JobAt, JobTo, JobReports DEF Job!Downloaded, Job!NoCode, None

\* The account of the job is the one account of the list.
LEMMA OneAccount ==
  ASSUME OnItsWay
  PROVE  /\ Of(Account, None)[count].name = "a"
         /\ Job!IsListed("a") /\ Job!FirstOf("a") = "o"
         /\ Job!Outcomes = {"ok"} /\ Job!Applied("ok")
<1>1. Of(Account, None)[count] = Account
  BY DEF OnItsWay, Of
<1>2. <<"o">>[1] = "o" /\ 1..Len(<<"o">>) = {1}
  OBVIOUS
<1>3. Job!Listed = {"o"}
  BY <1>2 DEF Job!Listed
<1>4. [o \in {"o"} |-> Account]["o"].name = "a"
  BY DEF Account
<1>5. Job!IsListed("a")
  BY <1>3, <1>4 DEF Job!IsListed
<1>6. {i \in 1..Len(<<"o">>) : [o \in {"o"} |-> Account][<<"o">>[i]].name = "a"} = {1}
  BY <1>2, <1>4
<1>7. Job!FirstOf("a") = "o"
  BY <1>2, <1>6 DEF Job!FirstOf
<1>8. QED
  BY <1>1, <1>5, <1>7 DEF Account, Job!Outcomes, Job!Applied

\* The pool takes one more report: the attempt has made one at most.
LEMMA Reported ==
  ASSUME OnItsWay, told \subseteq {"persona"}, NEW x, x \notin told,
         told' = told \cup {x}
  PROVE  Job!Report
<1>1. IsFiniteSet(told) /\ Cardinality(told) \in Nat /\ Cardinality(told) <= 1
  <2>1. IsFiniteSet({"persona"}) /\ Cardinality({"persona"}) = 1
    BY FS_Singleton
  <2>2. QED
    BY <2>1, FS_Subset, FS_CardinalityType
<1>2. Cardinality(told') = Cardinality(told) + 1
  BY <1>1, FS_AddElement
<1>3. QED
  BY <1>1, <1>2 DEF Job!Report

\* What the pool is told of a failed call is what Runner tells it.
LEMMA IsTold ==
  ASSUME OnItsWay, told \subseteq {"persona"}, UNCHANGED <<count, cr>>,
         stage # "charge", stage' # "charge", NEW c, told' = told \cup Tell(c)
  PROVE  Job!Tell(count, c)
<1>1. PoolsPc[count] = "leased"
  BY DEF PoolsPc, Of, OnItsWay
<1>2. UNCHANGED <<PoolsPc, PoolsNow>>
  BY DEF PoolsPc, PoolsNow, Of
<1>3. CASE c = "rate_limited"
  <2>1. told' = told \cup {"limited"} /\ "limited" \notin told
    BY <1>3 DEF Tell
  <2>2. Job!Report
    BY <2>1, Reported
  <2>3. UNCHANGED <<PoolsPersona, PoolsDisabled>>
    BY <2>1 DEF PoolsPersona, PoolsDisabled, OfAccount
  <2>4. PoolsCooldown' = Job!MarkedCooldown("a", 1 + 1)
    BY <2>1 DEF PoolsCooldown, OfAccount, Job!MarkedCooldown
  <2>5. Job!MarkCooldown(count)
    BY <1>1, <1>2, <2>2, <2>3, <2>4, OneAccount, Fixed
       DEF Job!MarkCooldown, Job!list, Job!entries, Job!jobs
  <2>6. QED
    BY <1>3, <2>5, OneAccount DEF Job!Tell
<1>4. CASE c = "auth_required"
  <2>1. told' = told \cup {"unauthorized"} /\ "unauthorized" \notin told
    BY <1>4 DEF Tell
  <2>2. Job!Report
    BY <2>1, Reported
  <2>3. UNCHANGED <<PoolsPersona, PoolsCooldown>>
    BY <2>1 DEF PoolsPersona, PoolsCooldown, OfAccount
  <2>4. PoolsDisabled' = PoolsDisabled \cup {"o"}
    BY <2>1 DEF PoolsDisabled
  <2>5. Job!MarkUnauthorized(count)
    BY <1>1, <1>2, <2>2, <2>3, <2>4, OneAccount, Fixed
       DEF Job!MarkUnauthorized, Job!store, Job!list, Job!jobs
  <2>6. QED
    BY <1>4, <2>5, OneAccount DEF Job!Tell
<1>5. CASE c \notin {"rate_limited", "auth_required"}
  <2>1. UNCHANGED told
    BY <1>5 DEF Tell
  <2>2. UNCHANGED Job!vars
    BY <2>1, PoolQuiet
  <2>3. QED
    BY <1>5, <2>2 DEF Job!Tell
<1>6. QED
  BY <1>3, <1>4, <1>5

LEMMA IsCallFails ==
  ASSUME OnItsWay, CallFails
  PROVE  Job!CallFails(count)
<1>1. PICK e \in Failures :
        /\ Return(classifyUpstream(e))
        /\ told' = told \cup Tell(classifyUpstream(e))
       /\ begun' \in IF stage = "stream" /\ e \notin {"429", "401"} THEN BOOLEAN
                     ELSE {begun}
  BY DEF CallFails
<1>. DEFINE c == classifyUpstream(e)
<1>2. /\ stage \in Reporting /\ stage' = "return" /\ code' = c
      /\ told' = told \cup Tell(c)
      /\ UNCHANGED <<count, ctx, task, refs, previews, cr>>
  BY <1>1 DEF CallFails, Return, To, shown, sentinel
<1>3. told \subseteq {"persona"} /\ stage # "charge" /\ begun = FALSE
  BY <1>2 DEF OnItsWay, Reporting, BeforeOne, NotAsked, Uploading, Talking, IsEdit
<1>4. Group \in Job!Calling(count) /\ Group' = "release"
  <2>1. \/ stage \in {"create", "put", "register", "pause"} /\ IsEdit
        \/ stage \in {"single", "prepare", "stream"}
        \/ stage \in {"put", "register", "pause"}
    BY <1>2 DEF Reporting
  <2>2. QED
    BY <1>2, <2>1 DEF Group, Job!Calling, IsEdit, OnItsWay, Uploading
<1>5. c \in Job!Failures(count)
  <2>1. e \in {"429", "401", "500", "decode"} =>
          c \in {"rate_limited", "auth_required", "upstream_error"}
    BY DEF classifyUpstream
  <2>2. CASE e \in Interruptions
    <3>1. \/ e = "deadline" /\ expired /\ c = "poll_timeout"
          \/ e = "canceled" /\ canceled /\ c = "upstream_error"
      BY <2>2 DEF Interruptions, classifyUpstream
    <3>2. QED
      BY <3>1, CutAgrees DEF Job!Failures, TheJobIf, Cut
  <2>3. CASE ~Cut /\ e \in {"EOF", "deadline"}
    <3>1. c \in {"network_transient", "poll_timeout"}
      BY <2>3 DEF classifyUpstream
    <3>2. QED
      BY <2>3, <3>1, CutAgrees DEF Job!Failures
  <2>4. QED
    BY <2>1, <2>2, <2>3 DEF Failures, Job!Failures
<1>6. Job!Tell(count, c)
  <2>. HIDE DEF c
  <2>1. QED
    BY <1>2, <1>3, IsTold
<1>7. Job!Fails(count, c)
  BY <1>2, <1>4, JobTo, JobReports DEF Job!Fails
<1>8. UNCHANGED <<Of(1, 1), RunnersReason, RunnersReported,
                  TheJobIf(IsEdit /\ previews # {}), TheJobIf(expired),
                  TheJobIf(canceled), RunnersCharged, RunnersUnseen>>
  BY <1>2, <1>3, Fixed, RecordKept
<1>9. begun' \in BOOLEAN /\ Job!Begins(count, begun')
  BY <1>1, <1>2, <1>3, TaskCounted
<1>10. begun' => Group = "stream" /\ c \notin {"rate_limited", "auth_required"}
  <2>1. begun' => stage = "stream" /\ e \notin {"429", "401"}
    BY <1>1, <1>3
  <2>2. e \notin {"429", "401"} => c \notin {"rate_limited", "auth_required"}
    BY DEF classifyUpstream
  <2>3. QED
    BY <2>1, <2>2 DEF Group
<1>. HIDE DEF c
<1>11. QED
  BY <1>4, <1>5, <1>6, <1>7, <1>8, <1>9, <1>10, JobAt DEF Job!CallFails

\* The answer to a challenge is the one step that tells the persona.
LEMMA IsRequired ==
  ASSUME OnItsWay, NEW r \in Requirements, GotRequirement(r), r.of # None,
         stage \in {"finalize", "single"}, ~Cut,
         UNCHANGED <<count, ctx, conversation, code>>
  PROVE  Job!Required(count)
<1>1. /\ Group = "requirements" /\ Group' \in {"proof", "prepare"}
      /\ stage # "charge" /\ stage' # "charge" /\ ~Job!Cut(count)
      /\ told = {} /\ cr.of = None /\ cr' = r
      /\ UNCHANGED <<begun, task, refs, previews, canceled, expired>>
  BY CutAgrees DEF GotRequirement, To, Group, OnItsWay, BeforeOne, conversation,
     shown, ctx
<1>2. r.persona \in Personas \cup {Job!NoPersona}
  BY DEF Requirements, Job!NoPersona, None
<1>3. RunnersReported' = [RunnersReported EXCEPT ![count] = r.persona]
  BY <1>1 DEF RunnersReported, Of, OnItsWay
<1>4. /\ UNCHANGED <<Of(1, 1), Of(code, "unknown"), RunnersReason, RunnersTasks,
                     RunnersUnseen, RunnersCharged, PoolsPc, PoolsNow>>
      /\ UNCHANGED <<TheJobIf(IsEdit /\ previews # {}), TheJobIf(expired),
                     TheJobIf(canceled)>>
      /\ PoolsPc[count] = "leased"
  BY <1>1, Fixed DEF RunnersReason, RunnersTasks, RunnersUnseen, PoolsPc, PoolsNow,
     TheJobIf, Of, IsEdit, OnItsWay
<1>5. CASE r.persona # None
  <2>1. told' = told \cup {"persona"} /\ "persona" \notin told
    BY <1>1, <1>5 DEF GotRequirement
  <2>2. Job!Report
    BY <1>1, <2>1, Reported
  <2>3. UNCHANGED <<PoolsCooldown, PoolsDisabled>>
    BY <1>1, <2>1 DEF PoolsCooldown, PoolsDisabled, OfAccount
  <2>4. PoolsPersona' = [PoolsPersona EXCEPT !["a"] = r.persona]
    BY <1>1, <2>1 DEF PoolsPersona, OfAccount
  <2>5. Job!MarkPersona(count, r.persona)
    BY <1>4, <1>5, <2>2, <2>3, <2>4, OneAccount, Fixed
       DEF Job!MarkPersona, Job!NoPersona, Job!list, Job!entries, Job!jobs, None
  <2>6. QED
    BY <1>1, <1>2, <1>3, <1>4, <1>5, <2>5, JobAt, JobTo, OneAccount
       DEF Job!Required, Job!NoPersona, None
<1>6. CASE r.persona = None
  <2>1. UNCHANGED told
    BY <1>1, <1>6 DEF GotRequirement
  <2>2. UNCHANGED Job!vars
    BY <1>1, <2>1, PoolQuiet
  <2>3. QED
    BY <1>1, <1>2, <1>3, <1>4, <1>6, <2>2, JobAt, JobTo
       DEF Job!Required, Job!NoPersona, None
<1>7. QED
  BY <1>5, <1>6

\* No image: the pool is asked to record it, at the time that is read.
LEMMA IsRecorded ==
  ASSUME OnItsWay, told \subseteq {"persona"}, UNCHANGED <<count, cr>>,
         stage # "charge", stage' = "charge", told' = told \cup {"no image"}
  PROVE  Job!RecordBegin(count)
<1>0. "no image" \notin told
  OBVIOUS
<1>1. Job!Report
  BY <1>0, Reported
<1>2. UNCHANGED <<PoolsCooldown, PoolsPersona, PoolsDisabled>>
  BY DEF PoolsCooldown, PoolsPersona, PoolsDisabled, OfAccount
<1>3. /\ PoolsPc[count] = "leased"
      /\ PoolsPc' = [PoolsPc EXCEPT ![count] = "recording"]
      /\ PoolsNow' = [PoolsNow EXCEPT ![count] = 1]
  BY DEF PoolsPc, PoolsNow, Of, OnItsWay
<1>4. QED
  BY <1>1, <1>2, <1>3, Fixed
     DEF Job!RecordBegin, Job!Goto, Job!store, Job!list, Job!entries

LEMMA IsStreamed ==
  ASSUME OnItsWay, Streamed
  PROVE  \E r, t, p, b \in BOOLEAN : Job!Streamed(count, r, t, p, b)
<1>1. PICK S \in SUBSET Refs, t \in BOOLEAN :
        /\ task' = t
        /\ To(IF refs' # {} THEN "download" ELSE IF t THEN "poll" ELSE "charge")
        /\ told' = told \cup (IF refs' = {} /\ ~t THEN {"no image"} ELSE {})
        /\ begun' \in IF t \/ previews' \cup refs' # {} THEN {TRUE} ELSE BOOLEAN
  BY DEF Streamed
<1>. DEFINE r == refs' # {}
            p == IsEdit /\ previews' # {}
<1>2. /\ stage = "sse"
      /\ stage' = IF r THEN "download" ELSE IF t THEN "poll" ELSE "charge"
      /\ UNCHANGED <<count, ctx, cr, code>>
      /\ told \subseteq {"persona"} /\ ~task /\ refs = {} /\ previews = {}
      /\ begun = FALSE
  BY <1>1 DEF Streamed, To, sentinel, OnItsWay, Talking
<1>3. Group = "sse" /\ Group' = IF r THEN "download" ELSE IF t THEN "poll" ELSE "charge"
  BY <1>2 DEF Group
<1>4. p => count \in 1..MaxRefs
  BY DEF IsEdit, OnItsWay
<1>5. TheJobIf(IsEdit /\ previews # {})' =
        IF p THEN TheJobIf(IsEdit /\ previews # {}) \cup {count}
             ELSE TheJobIf(IsEdit /\ previews # {})
  BY <1>2 DEF TheJobIf, IsEdit
<1>6. /\ begun' \in BOOLEAN /\ (r \/ t \/ p => begun')
      /\ Job!Begins(count, begun')
      /\ RunnersUnseen' = IF begun' /\ ~r /\ ~t THEN RunnersUnseen \cup {count}
                                             ELSE RunnersUnseen
  <2>1. begun' \in BOOLEAN /\ (r \/ t \/ p => begun')
    BY <1>1
  <2>2. Job!Begins(count, begun')
    BY <1>2, <2>1, TaskCounted
  <2>3. /\ RunnersUnseen = {}
        /\ RunnersUnseen' = IF begun' /\ ~r /\ ~t THEN {count} ELSE {}
    BY <1>1, <1>2 DEF RunnersUnseen, TheJobIf
  <2>4. QED
    BY <2>1, <2>2, <2>3
<1>7. UNCHANGED <<Of(1, 1), Of(code, "unknown"), RunnersReported, RunnersCharged,
                  TheJobIf(expired), TheJobIf(canceled)>>
  BY <1>2, Fixed DEF RunnersReported, TheJobIf, Of, ctx
<1>8. CASE ~r /\ ~t
  <2>1. stage' = "charge" /\ told' = told \cup {"no image"}
    BY <1>1, <1>2, <1>8
  <2>2. Job!RecordBegin(count)
    BY <1>2, <2>1, IsRecorded
  <2>3. RunnersReason' = [RunnersReason EXCEPT ![count] = "no_image_task"]
    BY <1>1, <1>2, <1>8, <2>1 DEF RunnersReason, Of, OnItsWay
  <2>. HIDE DEF r, p
  <2>4. Job!Streamed(count, r, t, p, begun')
    BY <1>2, <1>3, <1>4, <1>5, <1>6, <1>7, <1>8, <2>2, <2>3, JobAt, JobTo
       DEF Job!Streamed
  <2>5. QED
    BY <1>6, <2>4 DEF r, p
<1>9. CASE r \/ t
  <2>1. stage' # "charge" /\ UNCHANGED told
    BY <1>1, <1>2, <1>9
  <2>2. UNCHANGED <<Job!vars, RunnersReason>>
    BY <1>2, <2>1, PoolQuiet DEF RunnersReason, Of
  <2>. HIDE DEF r, p
  <2>3. Job!Streamed(count, r, t, p, begun')
    BY <1>2, <1>3, <1>4, <1>5, <1>6, <1>7, <1>9, <2>2, JobAt, JobTo
       DEF Job!Streamed
  <2>4. QED
    BY <1>6, <2>3 DEF r, p
<1>10. QED
  BY <1>8, <1>9

LEMMA IsPolled ==
  ASSUME OnItsWay, PollEnds
  PROVE  Job!Polled(count) \/ Job!PollTimeout(count) \/ Job!PollCanceled(count)
<1>1. /\ stage = "poll" /\ Group = "poll" /\ task /\ refs = {}
      /\ told \subseteq {"persona"}
      /\ UNCHANGED <<count, ctx, cr, begun, task, previews>>
  BY DEF PollEnds, sentinel, OnItsWay, Group
<1>2. UNCHANGED <<Of(1, 1), RunnersReported, RunnersCharged, RunnersTasks,
                  RunnersUnseen,
                  TheJobIf(IsEdit /\ previews # {}), TheJobIf(expired),
                  TheJobIf(canceled)>>
  BY <1>1, Fixed DEF RunnersReported, RunnersTasks, RunnersUnseen, TheJobIf, IsEdit,
     Of, ctx
<1>3. CASE ~Cut /\ To("download") /\ UNCHANGED <<told, code>>
  <2>1. stage' = "download" /\ Group' = "download" /\ ~Job!Cut(count)
    BY <1>3, CutAgrees DEF To, Group
  <2>2. UNCHANGED <<Of(code, "unknown"), RunnersReason, Job!vars>>
    BY <1>1, <1>3, <2>1, PoolQuiet DEF RunnersReason, Of
  <2>3. QED
    BY <1>1, <1>2, <2>1, <2>2, JobAt, JobTo DEF Job!Polled
<1>4. CASE To("charge") /\ told' = told \cup {"no image"} /\ UNCHANGED code
  <2>1. stage' = "charge" /\ Group' = "charge"
    BY <1>4 DEF To, Group
  <2>2. Job!RecordBegin(count)
    BY <1>1, <1>4, <2>1, IsRecorded
  <2>3. RunnersReason' = [RunnersReason EXCEPT ![count] = "poll_timeout"]
    BY <1>1, <2>1 DEF RunnersReason, Of, OnItsWay
  <2>4. UNCHANGED Of(code, "unknown")
    BY <1>1, <1>4 DEF Of
  <2>5. QED
    BY <1>1, <1>2, <2>1, <2>2, <2>3, <2>4, JobAt, JobTo DEF Job!PollTimeout
<1>5. CASE canceled /\ Return("upstream_error") /\ UNCHANGED <<refs, told>>
  <2>1. stage' = "return" /\ Group' = "release" /\ code' = "upstream_error"
    BY <1>5 DEF Return, To, Group
  <2>2. UNCHANGED <<RunnersReason, Job!vars>>
    BY <1>1, <1>5, <2>1, PoolQuiet DEF RunnersReason, Of
  <2>3. Job!Fails(count, "upstream_error")
    BY <1>1, <2>1, JobTo, JobReports DEF Job!Fails
  <2>4. count \in TheJobIf(canceled)
    BY <1>5 DEF TheJobIf
  <2>5. QED
    BY <1>1, <1>2, <2>2, <2>3, <2>4, JobAt DEF Job!PollCanceled
<1>6. QED
  BY <1>3, <1>4, <1>5 DEF PollEnds

LEMMA IsCut ==
  ASSUME OnItsWay
  PROVE  /\ Expire => Job!Expire(count)
         /\ Cancel => Job!Cancel(count)
<1>1. ASSUME Expire PROVE Job!Expire(count)
  <2>1. /\ stage # "client" /\ stage \notin {"charge", "return"} /\ ~expired /\ expired'
        /\ UNCHANGED <<count, stage, cr, begun, task, refs, previews, canceled, told,
                       code>>
    BY <1>1 DEF Expire, Ended, conversation, shown, sentinel
  <2>2. Group \in Job!Waits
    BY <2>1 DEF Group, Job!Waits, Job!Body, OnItsWay, BeforeOne, NotAsked, Talking
  <2>3. /\ count \notin TheJobIf(expired)
        /\ TheJobIf(expired)' = TheJobIf(expired) \cup {count}
    BY <2>1 DEF TheJobIf
  <2>4. UNCHANGED <<Of(Group, "waiting"), Of(code, "unknown"), RunnersReason,
                    RunnersReported, RunnersTasks, RunnersUnseen, TheJobIf(canceled),
                    TheJobIf(IsEdit /\ previews # {})>>
    BY <2>1 DEF Of, Group, RunnersReason, RunnersReported, RunnersTasks,
       RunnersUnseen, TheJobIf,
       IsEdit
  <2>5. QED
    BY <2>1, <2>2, <2>3, <2>4, JobAt, Fixed, PoolQuiet DEF Job!Expire
<1>2. ASSUME Cancel PROVE Job!Cancel(count)
  <2>1. /\ stage \notin {"charge", "return"} /\ ~canceled /\ canceled'
        /\ UNCHANGED <<count, stage, cr, begun, task, refs, previews, expired, told,
                       code>>
    BY <1>2 DEF Cancel, Ended, conversation, shown, sentinel
  <2>2. Group # "returned"
    BY <2>1 DEF Group, OnItsWay, BeforeOne, NotAsked, Talking
  <2>3. /\ count \notin TheJobIf(canceled)
        /\ TheJobIf(canceled)' = TheJobIf(canceled) \cup {count}
    BY <2>1 DEF TheJobIf
  <2>4. UNCHANGED <<Of(Group, "waiting"), Of(code, "unknown"), RunnersReason,
                    RunnersReported, RunnersTasks, RunnersUnseen, TheJobIf(expired),
                    TheJobIf(IsEdit /\ previews # {})>>
    BY <2>1 DEF Of, Group, RunnersReason, RunnersReported, RunnersTasks,
       RunnersUnseen, TheJobIf,
       IsEdit
  <2>5. QED
    BY <2>1, <2>2, <2>3, <2>4, JobAt, Fixed, PoolQuiet DEF Job!Cancel
<1>3. QED
  BY <1>1, <1>2

\* Every call the attempt makes is a step of the job or none.
LEMMA StepIsRunners == OnItsWay /\ [Next]_vars => [Job!RunStep(count)]_(Job!runVars)
<1>. SUFFICES ASSUME OnItsWay, [Next]_vars
              PROVE  Job!RunStep(count) \/ UNCHANGED Job!runVars
  OBVIOUS
<1>1. CASE NewClient
  BY <1>1, IsNewClient DEF Job!RunStep, Job!LocalStep
<1>2. CASE NothingToUpload \/ (Registered /\ stage' = "two-prepare")
  <2>1. Job!Uploaded(count)
    BY <1>2, IsUploaded
  <2>2. QED
    BY <2>1 DEF Job!RunStep, Job!LocalStep, Job!UpstreamStep
<1>3. CASE Created \/ Paused \/ Stored \/ (Registered /\ stage' # "two-prepare")
  <2>1. /\ stage \in {"create", "pause", "put", "register"}
        /\ stage' \in {"create", "pause", "put", "register"}
        /\ UNCHANGED <<count, ctx, begun, task, refs, previews, told, code, cr>>
    BY <1>3 DEF Created, Paused, Stored, Registered, To, conversation, shown, sentinel
  <2>2. QED
    BY <2>1, InGroup DEF Group
<1>4. CASE TwoStepPrepared \/ TwoStepFails \/ Bootstrapped
  <2>1. /\ stage \in {"two-prepare", "finalize", "bootstrap"}
        /\ stage' \in {"finalize", "bootstrap", "single"}
        /\ UNCHANGED <<count, ctx, begun, task, refs, previews, told, code>>
    BY <1>4 DEF TwoStepPrepared, TwoStepFails, Bootstrapped, To, conversation,
       shown
  <2>2. cr.of = None /\ told = {}
    BY <2>1 DEF OnItsWay, BeforeOne, NotAsked
  <2>3. cr'.of = None
    BY <1>4, <2>2 DEF TwoStepPrepared, TwoStepFails, Bootstrapped, sentinel
  <2>4. QED
    BY <2>1, <2>2, <2>3, InGroup DEF Group
<1>5. CASE Finalized
  <2>1. PICK p \in Personas \cup {None}, t \in {TwoStep, None} :
          GotRequirement(Answered(p, t))
    BY <1>5 DEF Finalized
  <2>2. Answered(p, t) \in Requirements /\ Answered(p, t).of # None
    BY DEF Answered, OnItsWay, Requirements, Challenges, None, TwoStep
  <2>3. stage = "finalize" /\ ~Cut /\ UNCHANGED <<count, ctx, conversation, code>>
    BY <1>5 DEF Finalized
  <2>4. Job!Required(count)
    BY <2>1, <2>2, <2>3, IsRequired
  <2>5. QED
    BY <2>4 DEF Job!RunStep, Job!UpstreamStep
<1>6. CASE SingleStep
  <2>1. PICK p \in Personas \cup {None}, pow \in BOOLEAN, t \in {OneStep, None} :
          GotRequirement(StandIn(p, pow, t))
    BY <1>6 DEF SingleStep
  <2>2. StandIn(p, pow, t) \in Requirements /\ StandIn(p, pow, t).of # None
    BY DEF StandIn, Requirements, Challenges, None, OneStep
  <2>3. stage = "single" /\ ~Cut /\ UNCHANGED <<count, ctx, conversation, code>>
    BY <1>6 DEF SingleStep
  <2>4. Job!Required(count)
    BY <2>1, <2>2, <2>3, IsRequired
  <2>5. QED
    BY <2>4 DEF Job!RunStep, Job!UpstreamStep
<1>7. CASE CallFails
  BY <1>7, IsCallFails DEF Job!RunStep, Job!UpstreamStep
<1>8. CASE Proved \/ ProofTimeout
  BY <1>8, IsProved DEF Job!RunStep, Job!LocalStep
<1>9. CASE Prepared \/ Opened
  BY <1>9, IsNextCall DEF Job!RunStep, Job!UpstreamStep
<1>10. CASE Streamed
  BY <1>10, IsStreamed DEF Job!RunStep, Job!UpstreamStep
<1>11. CASE PollEnds
  BY <1>11, IsPolled DEF Job!RunStep, Job!UpstreamStep
<1>12. CASE Downloaded
  BY <1>12, IsDownloaded DEF Job!RunStep, Job!UpstreamStep
<1>13. CASE Expire \/ Cancel
  BY <1>13, IsCut DEF Job!RunStep
<1>14. CASE SolverEnds \/ (\E r \in left : Download(r)) \/ UNCHANGED vars
  <2>1. UNCHANGED <<count, stage, cr, ctx, begun, task, refs, previews, told, code>>
    BY <1>14 DEF SolverEnds, Download, vars, conversation, shown, sentinel
  <2>2. UNCHANGED <<Of(Group, "waiting"), Of(code, "unknown"), RunnersReason,
                    RunnersReported, RunnersTasks, RunnersUnseen, TheJobIf(expired),
                    TheJobIf(canceled), TheJobIf(IsEdit /\ previews # {})>>
    BY <2>1 DEF Of, Group, RunnersReason, RunnersReported, RunnersTasks,
       RunnersUnseen, TheJobIf,
       IsEdit, ctx
  <2>3. QED
    BY <2>1, <2>2, Fixed, PoolQuiet DEF Job!runVars, Job!run
<1>15. QED
  BY <1>1, <1>2, <1>3, <1>4, <1>5, <1>6, <1>7, <1>8, <1>9, <1>10, <1>11, <1>12,
     <1>13, <1>14 DEF Next, LocalStep, UpstreamStep

\* Call by call an attempt is a job of Runner: with the same failures, marks and
\* codes, for every number of reference images and whatever the upstream shows.
THEOREM AttemptImplementsRunner == Spec => AttemptIsRunners
BY OnItsWayInit, OnItsWayStep, StepIsRunners, PTL DEF Spec, AttemptIsRunners

=============================================================================
