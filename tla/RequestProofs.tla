---------------------------- MODULE RequestProofs ----------------------------
(***************************************************************************)
(* The requests of ImageRequest are calls of Gate, so what is proved of    *)
(* the gate holds while they run; a handler holds its slot exactly while   *)
(* it serves, and jobs at work are under a slot or canceled.               *)
(***************************************************************************)
EXTENDS ImageRequest, GateProofs

\* The gate's place for each stage of a handler.
PlaceOf(s) ==
  CASE s = "new"                     -> {"idle"}
    [] s = "queue"                   -> {"idle", "waiting", "abandoning"}
    [] s \in {"collect", "leaving"}  -> {"leased"}
    [] OTHER                         -> {"idle", "failed", "released"}

AllIdle(r) == \A i \in JobIds : job[r][i] = Idle

RequestOf(r) ==
  /\ pc[r] \in PlaceOf(stage[r])
  /\ pc[r] \notin {"leased", "released"} => AllIdle(r)
  /\ stage[r] \in {"leaving", "returned"} /\ Live(r) => r \in stopped
  /\ pc[r] = "abandoning" => r \in ctxDone
  /\ r \in ctxDone => r \in late \cup gone
  /\ pc[r] = "failed" => reply[r].status = 503 \/ r \in gone

Typed ==
  /\ pc \in [Calls -> PCs]
  /\ stage \in [Calls -> Stages]
  /\ job \in [Calls -> [JobIds -> {Idle, Running} \cup Outcomes]]
  /\ reply = [r \in Calls |-> reply[r]]

ReqInv == Typed /\ \A r \in Calls : RequestOf(r)

\* A started job is not an idle one.
LEMMA IdleNotRunning == Idle # Running
BY DEF Idle, Running

\* A request whose jobs are idle has none at work.
LEMMA IdleNotLive ==
  ASSUME NEW r \in Calls, AllIdle(r)
  PROVE  ~Live(r)
BY IdleNotRunning DEF AllIdle, Live

LEMMA RequestInitInv == RequestInit => ReqInv
<1> SUFFICES ASSUME RequestInit PROVE ReqInv OBVIOUS
<1>1. Typed
  BY DEF RequestInit, Init, Typed, PCs, Stages, NoReply, NoErr
<1>2. ASSUME NEW r \in Calls PROVE RequestOf(r)
  <2>1. AllIdle(r)
    BY DEF RequestInit, AllIdle
  <2>2. pc[r] = "idle" /\ stage[r] = "new" /\ r \notin ctxDone
    BY DEF RequestInit, Init
  <2>3. QED BY <2>1, <2>2 DEF RequestOf, PlaceOf
<1>3. QED BY <1>1, <1>2 DEF ReqInv

\* A step that changes one request only, and leaves it in order, keeps ReqInv.
LEMMA OneRequest ==
  ASSUME ReqInv, NEW r \in Calls, Typed', RequestOf(r)',
         \A k \in Calls \ {r} :
           /\ pc'[k] = pc[k] /\ stage'[k] = stage[k]
           /\ job'[k] = job[k] /\ reply'[k] = reply[k]
           /\ k \in ctxDone' <=> k \in ctxDone,
         stopped \subseteq stopped', gone \subseteq gone', late \subseteq late'
  PROVE  ReqInv'
<1>1. ASSUME NEW k \in Calls, k # r PROVE RequestOf(k)'
  <2>1. RequestOf(k)
    BY DEF ReqInv
  <2>2. AllIdle(k)' <=> AllIdle(k)
    BY <1>1 DEF AllIdle
  <2>3. Live(k)' <=> Live(k)
    BY <1>1 DEF Live
  <2>4. /\ pc'[k] = pc[k] /\ stage'[k] = stage[k] /\ reply'[k] = reply[k]
        /\ k \in ctxDone' <=> k \in ctxDone
    BY <1>1
  <2>5. QED BY <2>1, <2>2, <2>3, <2>4 DEF RequestOf, PlaceOf
<1>2. QED BY <1>1 DEF ReqInv

-----------------------------------------------------------------------------

\* One step of one request.
RequestStep(r) ==
  \/ Refuse(r) \/ Accept(r) \/ Start(r) \/ QueueStep(r) \/ TurnAway(r)
  \/ \E i \in JobIds : JobEnds(r, i)
  \/ Collect(r) \/ GiveUp(r) \/ Finish(r) \/ Leave(r)
  \/ QueueDeadline(r) \/ ClientGone(r)

LEMMA RefuseInv ==
  ASSUME ReqInv, NEW r \in Calls, Refuse(r) PROVE ReqInv'
<1>0. Typed /\ RequestOf(r)
  BY DEF ReqInv
<1>1. Typed'
  BY <1>0 DEF Typed, Refuse, To, Says, Error, Stages, vars, NoErr
<1>2. stage'[r] = "returned" /\ pc[r] = "idle" /\ UNCHANGED <<vars, job, stopped, gone, late>>
  BY <1>0 DEF Typed, Refuse, To, RequestOf, PlaceOf
<1>3. AllIdle(r)' /\ ~Live(r)'
  BY <1>0, <1>2, IdleNotLive DEF RequestOf, AllIdle, Live
<1>4. RequestOf(r)'
  BY <1>0, <1>2, <1>3 DEF RequestOf, PlaceOf, vars
<1>5. QED
  BY <1>1, <1>2, <1>4, OneRequest DEF Refuse, To, Says, vars, Typed, ReqInv

LEMMA AcceptInv ==
  ASSUME ReqInv, NEW r \in Calls, Accept(r) PROVE ReqInv'
<1>0. Typed /\ RequestOf(r)
  BY DEF ReqInv
<1>1. Typed'
  BY <1>0 DEF Typed, Accept, To, Stages, vars
<1>2. /\ stage'[r] = "queue" /\ pc[r] = "idle"
      /\ UNCHANGED <<vars, job, stopped, gone, late, reply>>
  BY <1>0 DEF Typed, Accept, To, RequestOf, PlaceOf
<1>3. AllIdle(r)'
  BY <1>0, <1>2 DEF RequestOf, AllIdle
<1>4. RequestOf(r)'
  BY <1>0, <1>2, <1>3 DEF RequestOf, PlaceOf, vars
<1>5. QED
  BY <1>1, <1>2, <1>4, OneRequest DEF Accept, To, vars, Typed, ReqInv

LEMMA StartInv ==
  ASSUME ReqInv, NEW r \in Calls, Start(r) PROVE ReqInv'
<1>0. Typed /\ RequestOf(r)
  BY DEF ReqInv
<1>a. pc' = [pc EXCEPT ![r] = "leased"] /\ UNCHANGED ctxDone
  BY DEF Start, AcquireFast, WakeReady, AbandonLate, Goto, gate
<1>1. Typed'
  BY <1>0, <1>a DEF Typed, Start, To, Stages, PCs
<1>2. /\ stage'[r] = "collect" /\ pc'[r] = "leased"
      /\ UNCHANGED <<ctxDone, stopped, gone, late, reply>>
  BY <1>0, <1>a DEF Typed, Start, To
<1>3. RequestOf(r)'
  BY <1>0, <1>2 DEF RequestOf, PlaceOf
<1>4. QED
  BY <1>a, <1>1, <1>2, <1>3, OneRequest DEF Start, To, Typed, ReqInv

LEMMA QueueStepInv ==
  ASSUME ReqInv, NEW r \in Calls, QueueStep(r) PROVE ReqInv'
<1>0. Typed /\ RequestOf(r)
  BY DEF ReqInv
<1>a. /\ \E x \in {"waiting", "abandoning"} :
           pc' = [pc EXCEPT ![r] = x] /\ (x = "abandoning" => r \in ctxDone)
      /\ UNCHANGED ctxDone /\ stage[r] = "queue"
      /\ UNCHANGED request
  BY DEF QueueStep, Enqueue, WakeDone, Goto, gate
<1>1. Typed'
  BY <1>0, <1>a DEF Typed, request, PCs
<1>2. AllIdle(r)'
  BY <1>0, <1>a DEF RequestOf, PlaceOf, AllIdle, request
<1>3. RequestOf(r)'
  BY <1>0, <1>a, <1>2 DEF RequestOf, PlaceOf, request, Typed
<1>4. QED
  BY <1>a, <1>1, <1>3, OneRequest DEF request, Typed, ReqInv

LEMMA QueueStatus == StatusOf("queue_full") = 503 /\ StatusOf("queue_timeout") = 503
BY DEF StatusOf

LEMMA TurnAwayInv ==
  ASSUME ReqInv, NEW r \in Calls, TurnAway(r) PROVE ReqInv'
<1>0. Typed /\ RequestOf(r)
  BY DEF ReqInv
<1>a. /\ pc' = [pc EXCEPT ![r] = "failed"] /\ UNCHANGED ctxDone
      /\ UNCHANGED <<job, stopped, gone, late>>
      /\ stage' = [stage EXCEPT ![r] = "returned"] /\ stage[r] = "queue"
  BY DEF TurnAway, AcquireFull, Abandon, Goto, gate, To
<1>b. \E m :
        /\ reply' = [reply EXCEPT ![r] = m]
        /\ m.status = 503 \/ r \in gone
  <2>1. CASE AcquireFull(r) /\ Says(r, Error(StatusOf("queue_full"), "queue_full"))
    <3>1. Error(StatusOf("queue_full"), "queue_full").status = 503 \/ r \in gone
      BY QueueStatus DEF Error
    <3>2. QED BY <2>1, <3>1 DEF Says
  <2>2. CASE Abandon(r) /\ Says(r, Error(StatusOf(QueueError(r)), QueueError(r)))
    <3>1. r \in late \cup gone
      BY <1>0, <2>2 DEF Abandon, RequestOf
    <3>2. Error(StatusOf(QueueError(r)), QueueError(r)).status = 503 \/ r \in gone
      BY <3>1, QueueStatus DEF Error, QueueError
    <3>3. QED BY <2>2, <3>2 DEF Says
  <2>3. QED BY <2>1, <2>2 DEF TurnAway
<1>1. Typed'
  BY <1>0, <1>a, <1>b DEF Typed, Stages, PCs
<1>2. AllIdle(r)' /\ ~Live(r)'
  BY <1>0, <1>a, IdleNotLive DEF RequestOf, PlaceOf, AllIdle, Live
<1>3. RequestOf(r)'
  BY <1>0, <1>a, <1>b, <1>2 DEF RequestOf, PlaceOf, Typed
<1>4. QED
  BY <1>a, <1>b, <1>1, <1>3, OneRequest DEF Typed, ReqInv

LEMMA JobEndsInv ==
  ASSUME ReqInv, NEW r \in Calls, NEW i \in JobIds, JobEnds(r, i) PROVE ReqInv'
<1>0. Typed /\ RequestOf(r)
  BY DEF ReqInv
<1>a. PICK o \in Outcomes : job' = [job EXCEPT ![r][i] = o]
  BY DEF JobEnds
<1>b. o # Running
  BY DEF Outcomes, Running
<1>c. UNCHANGED <<pc, stage, ctxDone, stopped, gone, late, reply>> /\ job[r][i] = Running
  BY DEF JobEnds, vars
<1>1. Typed'
  BY <1>0, <1>a, <1>c DEF Typed
<1>2. Live(r)' => Live(r)
  BY <1>0, <1>a, <1>b DEF Live, Typed
<1>3. pc[r] \in {"leased", "released"}
  BY <1>0, <1>c, IdleNotLive DEF RequestOf, Live
<1>4. RequestOf(r)'
  BY <1>0, <1>c, <1>2, <1>3 DEF RequestOf, PlaceOf
<1>5. QED
  BY <1>a, <1>c, <1>1, <1>4, OneRequest DEF Typed, ReqInv

LEMMA CollectInv ==
  ASSUME ReqInv, NEW r \in Calls, Collect(r) PROVE ReqInv'
<1>1. UNCHANGED <<pc, stage, ctxDone, job, stopped, gone, late, reply>>
  BY DEF Collect, vars
<1>2. QED
  BY <1>1 DEF ReqInv, Typed, RequestOf, PlaceOf, AllIdle, Live

LEMMA EndInv ==
  ASSUME ReqInv, NEW r \in Calls, stage[r] = "collect", cancelJobs(r),
         NEW m, Says(r, m),
         To(r, "leaving"), UNCHANGED <<vars, job, gone, late>>
  PROVE  ReqInv'
<1>0. Typed /\ RequestOf(r)
  BY DEF ReqInv
<1>1. Typed'
  BY <1>0 DEF Typed, To, Says, Stages, vars
<1>2. stage'[r] = "leaving" /\ pc'[r] = "leased" /\ r \in stopped'
  BY <1>0 DEF Typed, To, cancelJobs, RequestOf, PlaceOf, vars
<1>3. RequestOf(r)'
  BY <1>0, <1>2 DEF RequestOf, PlaceOf, vars
<1>4. QED
  BY <1>1, <1>3, OneRequest DEF To, Says, cancelJobs, vars, Typed, ReqInv

LEMMA LeaveInv ==
  ASSUME ReqInv, NEW r \in Calls, Leave(r) PROVE ReqInv'
<1>0. Typed /\ RequestOf(r)
  BY DEF ReqInv
<1>a. /\ pc' = [pc EXCEPT ![r] = "released"] /\ UNCHANGED ctxDone
      /\ UNCHANGED <<job, stopped, gone, late, reply>>
      /\ stage' = [stage EXCEPT ![r] = "returned"] /\ stage[r] = "leaving"
  BY DEF Leave, Release, Goto, To
<1>1. Typed'
  BY <1>0, <1>a DEF Typed, Stages, PCs
<1>2. RequestOf(r)'
  BY <1>0, <1>a DEF RequestOf, PlaceOf, Typed, Live
<1>3. QED
  BY <1>a, <1>1, <1>2, OneRequest DEF Typed, ReqInv

LEMMA ContextInv ==
  ASSUME ReqInv, NEW r \in Calls, QueueDeadline(r) \/ ClientGone(r) PROVE ReqInv'
<1>0. Typed /\ RequestOf(r)
  BY DEF ReqInv
<1>1. /\ UNCHANGED <<pc, stage, job, stopped, reply>>
      /\ gone \subseteq gone' /\ late \subseteq late'
      /\ ctxDone' \in {ctxDone, ctxDone \cup {r}}
      /\ ctxDone' # ctxDone => r \in late' \cup gone'
  BY DEF QueueDeadline, ClientGone, CtxDone, gate, vars
<1>2. Typed'
  BY <1>0, <1>1 DEF Typed
<1>3. RequestOf(r)'
  BY <1>0, <1>1 DEF RequestOf, PlaceOf, AllIdle, Live
<1>4. QED
  BY <1>1, <1>2, <1>3, OneRequest

LEMMA StepInv == ReqInv /\ [RequestNext]_reqVars => ReqInv'
<1> SUFFICES ASSUME ReqInv, [RequestNext]_reqVars PROVE ReqInv' OBVIOUS
<1>1. CASE UNCHANGED reqVars
  BY <1>1 DEF reqVars, request, vars, ReqInv, Typed, RequestOf, PlaceOf, AllIdle, Live
<1>2. ASSUME NEW r \in Calls, RequestStep(r) PROVE ReqInv'
  <2>1. CASE Refuse(r) BY <2>1, RefuseInv
  <2>2. CASE Accept(r) BY <2>2, AcceptInv
  <2>3. CASE Start(r) BY <2>3, StartInv
  <2>4. CASE QueueStep(r) BY <2>4, QueueStepInv
  <2>5. CASE TurnAway(r) BY <2>5, TurnAwayInv
  <2>6. CASE \E i \in JobIds : JobEnds(r, i) BY <2>6, JobEndsInv
  <2>7. CASE Collect(r) BY <2>7, CollectInv
  <2>8. CASE GiveUp(r) BY <2>8, EndInv DEF GiveUp
  <2>9. CASE Finish(r) BY <2>9, EndInv DEF Finish
  <2>10. CASE Leave(r) BY <2>10, LeaveInv
  <2>11. CASE QueueDeadline(r) \/ ClientGone(r) BY <2>11, ContextInv
  <2>12. QED
    BY <1>2, <2>1, <2>2, <2>3, <2>4, <2>5, <2>6, <2>7, <2>8, <2>9, <2>10, <2>11
       DEF RequestStep
<1>3. QED BY <1>1, <1>2 DEF RequestNext, RequestStep

THEOREM RequestInvariant == RequestSpec => []ReqInv
BY RequestInitInv, StepInv, PTL DEF RequestSpec

-----------------------------------------------------------------------------
(* The requests use the gate as its own specification says.                  *)

\* Every step of a request is a step of a call of the gate, or leaves it alone.
LEMMA StepIsGateStep ==
  ASSUME ReqInv, NEW r \in Calls, RequestStep(r)
  PROVE  Next \/ UNCHANGED vars
<1>1. CASE Refuse(r) \/ Accept(r) \/ Collect(r) \/ GiveUp(r) \/ Finish(r)
             \/ \E i \in JobIds : JobEnds(r, i)
  BY <1>1 DEF Refuse, Accept, Collect, GiveUp, Finish, JobEnds
<1>2. CASE Start(r) \/ QueueStep(r) \/ TurnAway(r) \/ Leave(r)
  BY <1>2 DEF Start, QueueStep, TurnAway, Leave, Next
<1>3. CASE QueueDeadline(r) \/ ClientGone(r)
  BY <1>3 DEF QueueDeadline, ClientGone, Next
<1>4. QED BY <1>1, <1>2, <1>3 DEF RequestStep

\* The image requests drive the gate through its own actions only, so what is
\* proved of the gate holds of the server's queue.
THEOREM RequestUsesGate == RequestSpec => Spec
<1>1. RequestInit => Init
  BY DEF RequestInit
<1>2. ReqInv /\ [RequestNext]_reqVars => [Next]_vars
  BY StepIsGateStep DEF RequestNext, RequestStep, reqVars
<1>3. QED BY <1>1, <1>2, RequestInvariant, PTL DEF RequestSpec, Spec

\* On every path a handler holds its slot from Acquire to its return.
THEOREM RequestSlotWhileServing == RequestSpec => []SlotWhileServing
<1>1. ReqInv => SlotWhileServing
  BY DEF ReqInv, Typed, RequestOf, PlaceOf, Stages, SlotWhileServing, Holders,
         InAcquire
<1>2. QED BY <1>1, RequestInvariant, PTL

\* Jobs at work that are not canceled belong to a request that holds a slot, and
\* so the limit bounds the requests that have any.
THEOREM RequestJobsUnderSlot == RequestSpec => []JobsUnderSlot
<1>1. ReqInv /\ ActiveCountsHolders => JobsUnderSlot
  <2> SUFFICES ASSUME ReqInv, ActiveCountsHolders PROVE JobsUnderSlot
    OBVIOUS
  <2> DEFINE Busy == {r \in Calls : Live(r) /\ r \notin stopped \cup gone}
  <2>1. ASSUME NEW r \in Calls, Live(r), r \notin stopped \cup gone
        PROVE  pc[r] = "leased"
    <3>1. RequestOf(r) /\ ~AllIdle(r) /\ stage[r] \in Stages
      BY <2>1, IdleNotLive DEF ReqInv, Typed
    <3>2. QED BY <2>1, <3>1 DEF RequestOf, PlaceOf, Stages
  <2>2. Busy \subseteq Holders
    BY <2>1 DEF Holders
  <2>3. IsFiniteSet(Busy) /\ Cardinality(Busy) <= Cardinality(Holders)
    BY <2>2, SetsFinite, FS_Subset
  <2>4. Cardinality(Busy) \in Nat /\ Cardinality(Holders) \in Nat
    BY <2>3, SetsFinite, FS_CardinalityType
  <2>5. Cardinality(Holders) <= limit
    BY DEF ActiveCountsHolders, Stats
  <2>6. Cardinality(Busy) <= limit
    BY <2>3, <2>4, <2>5, LimitPositive
  <2>7. QED BY <2>1, <2>6 DEF JobsUnderSlot
<1>2. CountersMatch => ActiveCountsHolders
  BY DEF CountersMatch
<1>3. QED BY <1>1, <1>2, RequestInvariant, RequestUsesGate, GateCounters, PTL

\* A request that got no slot starts no job, and is told 503 unless it was the
\* client that left.
THEOREM RequestTurnedAway == RequestSpec => []TurnedAwayIsUnavailable
<1>1. ReqInv => TurnedAwayIsUnavailable
  BY DEF ReqInv, RequestOf, AllIdle, TurnedAwayIsUnavailable
<1>2. QED BY <1>1, RequestInvariant, PTL

-----------------------------------------------------------------------------
(* What the loop has gathered.                                               *)

\* Results that were sent and not received, and jobs whose result was received.
Sent(r)  == {results[r][k] : k \in 1..Len(results[r])}
Taken(r) == {i \in 1..n[r] : job[r][i].at = "ended" /\ i \notin Sent(r)}

\* The images the received results brought.
Brought(r, i) == IF i \in Taken(r) THEN job[r][i].images ELSE 0
SumTaken(r)   == Brought(r, 1) + Brought(r, 2) + Brought(r, 3) + Brought(r, 4)

GatherTyped ==
  /\ n \in [Calls -> JobIds]
  /\ results \in [Calls -> Seq(JobIds)]
  /\ completed \in [Calls -> Nat]
  /\ items \in [Calls -> Nat]
  /\ lastErr = [r \in Calls |-> lastErr[r]]

Begun(r) == pc[r] \in {"leased", "released"}

\* The jobs of a request, and the channel: each result that is in it once is one
\* of an ended job.
ChannelOf(r) ==
  /\ \A i \in JobIds : i > n[r] => job[r][i] = Idle
  /\ Begun(r) => \A i \in 1..n[r] : job[r][i].at \in {"running", "ended"}
  /\ \A i \in Sent(r) : i <= n[r] /\ job[r][i].at = "ended"
  /\ \A k, l \in 1..Len(results[r]) : results[r][k] = results[r][l] => k = l

\* The counters of the loop: the received results, their images up to n, and an
\* error exactly if one of them was one.
CountersOf(r) ==
  /\ completed[r] = Cardinality(Taken(r))
  /\ items[r] = IF SumTaken(r) <= n[r] THEN SumTaken(r) ELSE n[r]
  /\ (\E i \in Taken(r) : job[r][i].code # NoErr) => lastErr[r] # NoErr
  /\ lastErr[r] # NoErr =>
       \E i \in Taken(r) : job[r][i].code # NoErr /\ lastErr[r] = Told(job[r][i].code)

AllTaken(r) == Taken(r) = 1..n[r]

\* The reply: the images, all there are if they are fewer than asked for; the end of
\* the client; or an error of one of the jobs, all of which failed.
ReplyOf(r) ==
  /\ reply[r].status = 200 =>
       /\ stage[r] \in {"leaving", "returned"} /\ Begun(r)
       /\ items[r] > 0 /\ reply[r].images = items[r]
       /\ items[r] < n[r] => AllTaken(r)
  /\ stage[r] \in {"leaving", "returned"} /\ Begun(r) =>
       \/ reply[r].status = 200
       \/ r \in gone /\ reply[r].code = "image_timeout"
       \/ items[r] = 0 /\ AllTaken(r) /\ lastErr[r] # NoErr /\ reply[r].code = lastErr[r]

GatherInv ==
  /\ GatherTyped
  /\ \A r \in Calls : ChannelOf(r) /\ CountersOf(r) /\ ReplyOf(r)

\* A job that ended brought images, or failed.
LEMMA EndedJob ==
  ASSUME ReqInv, NEW r \in Calls, NEW i \in JobIds, job[r][i].at = "ended"
  PROVE  /\ job[r][i] \in Outcomes
         /\ job[r][i].images \in Nat
         /\ job[r][i].images = 0 <=> job[r][i].code # NoErr
<1>1. job[r][i] \in {Idle, Running} \cup Outcomes
  BY DEF ReqInv, Typed
<1>2. job[r][i] \in Outcomes
  BY <1>1 DEF Idle, Running
<1>3. QED
  BY <1>2, RequestAssumption DEF Outcomes

LEMMA FourAtMost ==
  ASSUME GatherTyped, NEW r \in Calls
  PROVE  n[r] \in 1..4 /\ n[r] \in Nat /\ 1..n[r] \subseteq JobIds
<1>1. n[r] \in 1..4
  BY DEF GatherTyped, JobIds
<1>2. QED BY <1>1 DEF JobIds

LEMMA TakenFinite ==
  ASSUME GatherTyped, NEW r \in Calls
  PROVE  /\ IsFiniteSet(Taken(r))
         /\ Cardinality(Taken(r)) \in Nat
         /\ Cardinality(Taken(r)) <= n[r]
         /\ Cardinality(Taken(r)) = n[r] => AllTaken(r)
<1>1. n[r] \in Nat
  BY FourAtMost
<1>2. IsFiniteSet(1..n[r]) /\ Cardinality(1..n[r]) = n[r]
  BY SMTT(30), <1>1, FS_Interval
<1>3. Taken(r) \subseteq 1..n[r]
  BY DEF Taken
<1>4. /\ IsFiniteSet(Taken(r)) /\ Cardinality(Taken(r)) <= Cardinality(1..n[r])
      /\ Cardinality(Taken(r)) = Cardinality(1..n[r]) => Taken(r) = 1..n[r]
  BY <1>2, <1>3, FS_Subset
<1>5. QED
  BY <1>2, <1>4, FS_CardinalityType DEF AllTaken

\* The sum is a number, and 0 only if no received result brought an image.
LEMMA SumNat ==
  ASSUME ReqInv, NEW r \in Calls, GatherTyped
  PROVE  /\ \A i \in JobIds : Brought(r, i) \in Nat
         /\ SumTaken(r) \in Nat
         /\ SumTaken(r) = 0 => \A i \in Taken(r) : job[r][i].images = 0
<1>1. ASSUME NEW i \in JobIds PROVE Brought(r, i) \in Nat
  <2>1. CASE i \in Taken(r)
    BY <2>1, EndedJob DEF Taken, Brought
  <2>2. CASE i \notin Taken(r)
    BY <2>2 DEF Brought
  <2>3. QED BY <2>1, <2>2
<1>2. /\ Brought(r, 1) \in Nat /\ Brought(r, 2) \in Nat
      /\ Brought(r, 3) \in Nat /\ Brought(r, 4) \in Nat
  BY <1>1 DEF JobIds
<1>3. SumTaken(r) \in Nat
  BY <1>2 DEF SumTaken
<1>4. SumTaken(r) = 0 => \A i \in JobIds : Brought(r, i) = 0
  <2>1. SumTaken(r) = 0 =>
          /\ Brought(r, 1) = 0 /\ Brought(r, 2) = 0
          /\ Brought(r, 3) = 0 /\ Brought(r, 4) = 0
    BY <1>2 DEF SumTaken
  <2>2. JobIds = {1, 2, 3, 4}
    BY DEF JobIds
  <2>3. QED BY <2>1, <2>2
<1>5. Taken(r) \subseteq JobIds
  BY FourAtMost DEF Taken
<1>6. QED
  BY <1>1, <1>3, <1>4, <1>5 DEF Brought

LEMMA GatherInit == RequestInit => GatherInv
<1> SUFFICES ASSUME RequestInit PROVE GatherInv OBVIOUS
<1>1. GatherTyped
  BY DEF RequestInit, GatherTyped, JobIds, NoErr
<1>2. ASSUME NEW r \in Calls PROVE ChannelOf(r) /\ CountersOf(r) /\ ReplyOf(r)
  <2>1. /\ pc[r] = "idle" /\ n[r] = 1 /\ results[r] = <<>> /\ completed[r] = 0
        /\ items[r] = 0 /\ lastErr[r] = NoErr /\ reply[r].status = 0
        /\ \A i \in JobIds : job[r][i] = Idle
    BY DEF RequestInit, Init, NoReply
  <2>2. Sent(r) = {} /\ Taken(r) = {}
    BY <2>1 DEF Sent, Taken, Idle, JobIds
  <2>3. SumTaken(r) = 0 /\ Cardinality(Taken(r)) = 0
    BY <2>2, FS_EmptySet DEF SumTaken, Brought
  <2>4. QED
    BY <2>1, <2>2, <2>3 DEF ChannelOf, CountersOf, ReplyOf, Begun
<1>3. QED BY <1>1, <1>2 DEF GatherInv

\* A step of one request does not disturb what another has gathered.
LEMMA OneGathers ==
  ASSUME GatherInv, NEW r \in Calls, GatherTyped',
         (ChannelOf(r) /\ CountersOf(r) /\ ReplyOf(r))',
         \A k \in Calls \ {r} :
           /\ pc'[k] = pc[k] /\ stage'[k] = stage[k] /\ job'[k] = job[k]
           /\ n'[k] = n[k] /\ results'[k] = results[k] /\ reply'[k] = reply[k]
           /\ completed'[k] = completed[k] /\ items'[k] = items[k]
           /\ lastErr'[k] = lastErr[k],
         gone \subseteq gone'
  PROVE  GatherInv'
<1>1. ASSUME NEW k \in Calls, k # r
      PROVE (ChannelOf(k) /\ CountersOf(k) /\ ReplyOf(k))'
  <2>1. ChannelOf(k) /\ CountersOf(k) /\ ReplyOf(k)
    BY DEF GatherInv
  <2>2. Sent(k)' = Sent(k) /\ Begun(k)' = Begun(k)
    BY <1>1 DEF Sent, Begun
  <2>3. Taken(k)' = Taken(k)
    BY <1>1, <2>2 DEF Taken
  <2>4. SumTaken(k)' = SumTaken(k) /\ AllTaken(k)' = AllTaken(k)
    BY <1>1, <2>3 DEF SumTaken, Brought, AllTaken
  <2>5. ChannelOf(k)'
    BY <1>1, <2>1, <2>2 DEF ChannelOf
  <2>6. CountersOf(k)'
    BY <1>1, <2>1, <2>3, <2>4 DEF CountersOf
  <2>7. ReplyOf(k)'
    BY <1>1, <2>1, <2>2, <2>4 DEF ReplyOf
  <2>8. QED BY <2>5, <2>6, <2>7
<1>2. QED BY <1>1 DEF GatherInv

-----------------------------------------------------------------------------

\* A request that has not begun has gathered nothing; it keeps that whatever n
\* becomes, and also while its jobs are started.
LEMMA NothingGathered ==
  ASSUME ReqInv, GatherInv, NEW r \in Calls, ~Begun(r)
  PROVE  /\ Sent(r) = {} /\ Taken(r) = {} /\ results[r] = <<>>
         /\ completed[r] = 0 /\ items[r] = 0 /\ lastErr[r] = NoErr
<1>1. AllIdle(r) /\ ChannelOf(r) /\ CountersOf(r) /\ results[r] \in Seq(JobIds)
  BY DEF ReqInv, RequestOf, Begun, GatherInv, GatherTyped
<1>2. Sent(r) \subseteq JobIds
  BY <1>1 DEF Sent
<1>3. Sent(r) = {}
  BY <1>1, <1>2 DEF ChannelOf, AllIdle, Idle
<1>4. results[r] = <<>>
  <2>1. Len(results[r]) \in Nat
    BY <1>1
  <2>2. CASE Len(results[r]) > 0
    <3>1. 1 \in 1..Len(results[r])
      BY <2>1, <2>2
    <3>2. QED BY <1>3, <3>1 DEF Sent
  <2>3. QED BY <1>1, <2>1, <2>2
<1>5. Taken(r) = {}
  <2>1. 1..n[r] \subseteq JobIds
    BY FourAtMost DEF GatherInv
  <2>2. \A i \in 1..n[r] : job[r][i].at # "ended"
    BY <1>1, <2>1 DEF AllIdle, Idle
  <2>3. QED BY <2>2 DEF Taken
<1>6. completed[r] = 0
  BY <1>1, <1>5, FS_EmptySet DEF CountersOf
<1>7. n[r] \in 1..4 /\ SumTaken(r) = 0
  BY <1>5 DEF SumTaken, Brought, GatherInv, GatherTyped, JobIds
<1>8. items[r] = 0 /\ lastErr[r] = NoErr
  BY <1>1, <1>5, <1>7 DEF CountersOf
<1>9. QED BY <1>3, <1>4, <1>5, <1>6, <1>8

\* The same, seen from a later state.
LEMMA StillNothing ==
  ASSUME NEW r \in Calls, GatherTyped',
         results'[r] = <<>>, completed'[r] = 0, items'[r] = 0, lastErr'[r] = NoErr,
         \A i \in JobIds : job'[r][i].at # "ended",
         \A i \in JobIds : i > n'[r] => job'[r][i] = Idle,
         Begun(r)' => \A i \in 1..n'[r] : job'[r][i].at \in {"running", "ended"}
  PROVE  ChannelOf(r)' /\ CountersOf(r)'
<1>1. Sent(r)' = {} /\ n'[r] \in 1..4
  BY DEF Sent, GatherTyped, JobIds
<1>2. Taken(r)' = {}
  BY <1>1 DEF Taken, JobIds
<1>3. SumTaken(r)' = 0 /\ Cardinality(Taken(r)') = 0
  BY <1>2, FS_EmptySet DEF SumTaken, Brought
<1>4. ChannelOf(r)'
  BY <1>1 DEF ChannelOf
<1>5. CountersOf(r)'
  BY <1>1, <1>2, <1>3 DEF CountersOf
<1>6. QED BY <1>4, <1>5

\* What a step leaves of a request that has not begun.
LEMMA NotBegun ==
  ASSUME ReqInv, GatherInv, NEW r \in Calls, ~Begun(r), GatherTyped',
         UNCHANGED <<results, completed, items, lastErr>>,
         \A i \in JobIds : job'[r][i].at # "ended",
         \A i \in JobIds : i > n'[r] => job'[r][i] = Idle,
         Begun(r)' => \A i \in 1..n'[r] : job'[r][i].at \in {"running", "ended"}
  PROVE  ChannelOf(r)' /\ CountersOf(r)'
<1>1. /\ results'[r] = <<>> /\ completed'[r] = 0
      /\ items'[r] = 0 /\ lastErr'[r] = NoErr
  BY NothingGathered
<1>2. QED BY <1>1, StillNothing

LEMMA IdleJobs ==
  ASSUME ReqInv, NEW r \in Calls, ~Begun(r)
  PROVE  AllIdle(r) /\ \A i \in JobIds : job[r][i].at # "ended"
<1>1. AllIdle(r)
  BY DEF ReqInv, RequestOf, Begun
<1>2. QED BY <1>1 DEF AllIdle, Idle

\* No error is told as a success.
LEMMA StatusNotOk == ASSUME NEW c PROVE StatusOf(c) # 200
BY DEF StatusOf

\* A step that ends before the jobs are started: the handler refuses, accepts, or
\* is turned away.
LEMMA EarlyGathers ==
  ASSUME ReqInv, ReqInv', GatherInv, NEW r \in Calls,
         Refuse(r) \/ Accept(r) \/ TurnAway(r)
  PROVE  GatherInv'
<1>0. Typed /\ RequestOf(r) /\ Typed'
  BY DEF ReqInv
<1>1. /\ stage[r] \in {"new", "queue"} /\ ~Begun(r)
      /\ \A k \in Calls \ {r} : pc'[k] = pc[k] /\ stage'[k] = stage[k] /\ n'[k] = n[k]
      /\ UNCHANGED <<job, results, completed, items, lastErr, gone>>
  <2>1. stage[r] \in {"new", "queue"}
    BY DEF Refuse, Accept, TurnAway
  <2>2. ~Begun(r)
    BY <1>0, <2>1 DEF RequestOf, PlaceOf, Begun
  <2>3. \A k \in Calls \ {r} : pc'[k] = pc[k]
    <3>1. CASE Refuse(r) \/ Accept(r)
      BY <3>1 DEF Refuse, Accept, vars
    <3>2. CASE TurnAway(r)
      BY <1>0, <3>2 DEF TurnAway, AcquireFull, Abandon, Goto, Typed
    <3>3. QED BY <3>1, <3>2
  <2>4. \A k \in Calls \ {r} : stage'[k] = stage[k] /\ n'[k] = n[k]
    BY <1>0 DEF Refuse, Accept, TurnAway, To, Typed, GatherInv, GatherTyped
  <2>5. QED BY <2>1, <2>2, <2>3, <2>4 DEF Refuse, Accept, TurnAway
<1>2. ~Begun(r)'
  <2>1. stage'[r] \in {"queue", "returned"} /\ AllIdle(r)'
    BY <1>0, <1>1, IdleJobs DEF Refuse, Accept, TurnAway, To, Typed, AllIdle
  <2>2. CASE Refuse(r) \/ Accept(r)
    BY <1>1, <2>2 DEF Refuse, Accept, vars, Begun
  <2>3. CASE TurnAway(r)
    BY <1>0, <2>3 DEF TurnAway, AcquireFull, Abandon, Goto, Typed, Begun
  <2>4. QED BY <2>2, <2>3
<1>3. GatherTyped'
  <2>1. n' \in [Calls -> JobIds]
    <3>1. \A v \in NArgs : normalizeN(v) \in JobIds
      BY RequestAssumption DEF normalizeN, JobIds
    <3>2. QED BY <3>1 DEF Refuse, Accept, TurnAway, GatherInv, GatherTyped
  <2>2. QED BY <1>1, <2>1 DEF GatherInv, GatherTyped
<1>4. /\ \A i \in JobIds : job'[r][i] = Idle
      /\ \A i \in JobIds : job'[r][i].at # "ended"
  BY <1>1, IdleJobs DEF AllIdle
<1>5. ChannelOf(r)' /\ CountersOf(r)'
  BY <1>1, <1>2, <1>3, <1>4, NotBegun
<1>6. /\ reply'[r].status # 200
      /\ \A k \in Calls \ {r} : reply'[k] = reply[k]
  <2>1. CASE Accept(r)
    <3>1. reply' = reply /\ ReplyOf(r)
      BY <2>1 DEF Accept, GatherInv
    <3>2. QED BY <1>1, <3>1 DEF ReplyOf
  <2>2. CASE Refuse(r)
    <3>1. \E m : m.status # 200 /\ Says(r, m)
      BY <2>2 DEF Refuse, Error
    <3>2. QED BY <1>0, <3>1 DEF Says, Typed
  <2>3. CASE TurnAway(r)
    <3>1. \E c : Says(r, Error(StatusOf(c), c))
      BY <2>3 DEF TurnAway
    <3>2. \E m : m.status # 200 /\ Says(r, m)
      BY <3>1, StatusNotOk DEF Error
    <3>3. QED BY <1>0, <3>2 DEF Says, Typed
  <2>4. QED BY <2>1, <2>2, <2>3
<1>7. ReplyOf(r)'
  BY <1>2, <1>6 DEF ReplyOf
<1>8. QED
  BY <1>1, <1>3, <1>5, <1>6, <1>7, OneGathers

\* The jobs are started.
LEMMA StartGathers ==
  ASSUME ReqInv, GatherInv, NEW r \in Calls, Start(r) PROVE GatherInv'
<1>0. Typed /\ RequestOf(r)
  BY DEF ReqInv
<1>1. /\ pc' = [pc EXCEPT ![r] = "leased"] /\ stage[r] = "queue" /\ ~Begun(r)
      /\ UNCHANGED <<n, results, completed, items, lastErr, gone, reply>>
      /\ stage' = [stage EXCEPT ![r] = "collect"]
  <2>1. pc' = [pc EXCEPT ![r] = "leased"]
    BY DEF Start, AcquireFast, WakeReady, AbandonLate, Goto, gate
  <2>2. QED BY <1>0, <2>1 DEF Start, To, RequestOf, PlaceOf, Begun
<1>2. GatherTyped'
  BY <1>1 DEF GatherInv, GatherTyped
<1>3. \A i \in JobIds : job'[r][i] = IF i <= n[r] THEN Running ELSE Idle
  BY <1>0 DEF Start, Typed
<1>4. 1..n[r] \subseteq JobIds /\ n[r] \in Nat
  BY FourAtMost DEF GatherInv
<1>5. /\ \A i \in JobIds : job'[r][i].at # "ended"
      /\ \A i \in JobIds : i > n'[r] => job'[r][i] = Idle
      /\ \A i \in 1..n'[r] : job'[r][i].at \in {"running", "ended"}
  BY <1>1, <1>3, <1>4 DEF Idle, Running, JobIds
<1>6. ChannelOf(r)' /\ CountersOf(r)'
  BY <1>1, <1>2, <1>5, NotBegun
<1>7. ReplyOf(r) /\ stage'[r] = "collect" /\ reply'[r] = reply[r]
  BY <1>0, <1>1 DEF GatherInv, Typed
<1>8. reply'[r].status # 200
  BY <1>1, <1>7 DEF ReplyOf
<1>9. ReplyOf(r)'
  BY <1>7, <1>8 DEF ReplyOf
<1>10. \A k \in Calls \ {r} : job'[k] = job[k] /\ pc'[k] = pc[k] /\ stage'[k] = stage[k]
  BY <1>0, <1>1 DEF Start, Typed
<1>11. QED BY <1>1, <1>2, <1>6, <1>9, <1>10, OneGathers

\* A step in the queue, or of the contexts: only the gate moves.
LEMMA WaitGathers ==
  ASSUME ReqInv, GatherInv, NEW r \in Calls,
         QueueStep(r) \/ QueueDeadline(r) \/ ClientGone(r)
  PROVE  GatherInv'
<1>0. Typed /\ RequestOf(r)
  BY DEF ReqInv
<1>1. /\ UNCHANGED <<stage, n, job, results, completed, items, lastErr, reply>>
      /\ gone \subseteq gone'
  BY DEF QueueStep, QueueDeadline, ClientGone, request
<1>2. /\ Begun(r)' = Begun(r)
      /\ \A k \in Calls \ {r} : pc'[k] = pc[k]
  <2>1. CASE QueueStep(r)
    <3>1. \E x \in {"waiting", "abandoning"} : pc' = [pc EXCEPT ![r] = x]
      BY <2>1 DEF QueueStep, Enqueue, WakeDone, Goto, gate
    <3>2. pc[r] \notin {"leased", "released"}
      BY <1>0, <2>1 DEF QueueStep, RequestOf, PlaceOf
    <3>3. QED BY <1>0, <3>1, <3>2 DEF Typed, Begun
  <2>2. CASE QueueDeadline(r) \/ ClientGone(r)
    BY <2>2 DEF QueueDeadline, ClientGone, CtxDone, gate, vars, Begun
  <2>3. QED BY <2>1, <2>2
<1>3. GatherTyped'
  BY <1>1 DEF GatherInv, GatherTyped
<1>4. /\ Sent(r)' = Sent(r) /\ Taken(r)' = Taken(r) /\ SumTaken(r)' = SumTaken(r)
      /\ AllTaken(r)' = AllTaken(r)
  BY <1>1 DEF Sent, Taken, SumTaken, Brought, AllTaken
<1>5. ChannelOf(r) /\ CountersOf(r) /\ ReplyOf(r)
  BY DEF GatherInv
<1>6. ChannelOf(r)'
  BY <1>1, <1>2, <1>4, <1>5 DEF ChannelOf
<1>7. CountersOf(r)'
  BY <1>1, <1>4, <1>5 DEF CountersOf
<1>8. ReplyOf(r)'
  BY <1>1, <1>2, <1>4, <1>5 DEF ReplyOf
<1>9. QED BY <1>1, <1>2, <1>3, <1>6, <1>7, <1>8, OneGathers

-----------------------------------------------------------------------------

\* The same jobs received, with the same outcomes, sum up to the same.
LEMMA SameSum ==
  ASSUME NEW r \in Calls, Taken(r)' = Taken(r),
         \A i \in Taken(r) : job'[r][i] = job[r][i]
  PROVE  SumTaken(r)' = SumTaken(r)
<1>1. \A i \in {1, 2, 3, 4} : Brought(r, i)' = Brought(r, i)
  BY DEF Brought
<1>2. QED BY <1>1 DEF SumTaken

\* A job that returns sends its result once.
LEMMA JobEndsGathers ==
  ASSUME ReqInv, GatherInv, NEW r \in Calls, NEW i \in JobIds, JobEnds(r, i)
  PROVE  GatherInv'
<1>0. Typed /\ RequestOf(r) /\ ChannelOf(r) /\ CountersOf(r) /\ ReplyOf(r) /\ GatherTyped
  BY DEF ReqInv, GatherInv
<1>1. PICK o \in Outcomes : job' = [job EXCEPT ![r][i] = o]
  BY DEF JobEnds
<1>2. /\ o.at = "ended" /\ job[r][i] = Running /\ job[r][i].at = "running"
      /\ job'[r][i] = o
      /\ \A j \in JobIds \ {i} : job'[r][j] = job[r][j]
      /\ \A k \in Calls \ {r} : job'[k] = job[k]
  BY <1>0, <1>1 DEF JobEnds, Outcomes, Running, Typed
<1>3. /\ UNCHANGED <<pc, stage, n, completed, items, lastErr, gone, reply>>
      /\ results'[r] = Append(results[r], i) /\ results[r] \in Seq(JobIds)
      /\ \A k \in Calls \ {r} : results'[k] = results[k]
  BY <1>0 DEF JobEnds, vars, GatherTyped
<1>4. GatherTyped'
  <2>1. results' \in [Calls -> Seq(JobIds)]
    BY <1>0 DEF JobEnds, GatherTyped
  <2>2. QED BY <1>0, <1>3, <2>1 DEF GatherTyped
<1>5. i \notin Sent(r)
  BY <1>0, <1>2 DEF ChannelOf
<1>6. /\ Len(results'[r]) = Len(results[r]) + 1 /\ Len(results[r]) \in Nat
      /\ results'[r][Len(results[r]) + 1] = i
      /\ \A k \in 1..Len(results[r]) : results'[r][k] = results[r][k]
  BY <1>3
<1>7. Sent(r)' = Sent(r) \cup {i}
  <2>1. Sent(r)' = {results'[r][k] : k \in 1..(Len(results[r]) + 1)}
    BY <1>6 DEF Sent
  <2>2. 1..(Len(results[r]) + 1) = 1..Len(results[r]) \cup {Len(results[r]) + 1}
    BY <1>6
  <2>3. QED BY <1>6, <2>1, <2>2 DEF Sent
<1>8. i \in 1..n[r]
  BY <1>0, <1>2, IdleNotRunning, FourAtMost DEF ChannelOf, JobIds
<1>9. Taken(r)' = Taken(r)
  <2>1. i \notin Taken(r) /\ i \notin Taken(r)'
    BY <1>2, <1>7 DEF Taken
  <2>2. \A j \in 1..n[r] : j # i => (j \in Taken(r)' <=> j \in Taken(r))
    BY <1>0, <1>2, <1>3, <1>7, FourAtMost DEF Taken
  <2>3. QED BY <1>3, <2>1, <2>2 DEF Taken
<1>10. \A j \in Taken(r) : job'[r][j] = job[r][j]
  <2>1. Taken(r) \subseteq JobIds /\ i \notin Taken(r)
    BY <1>0, <1>2, FourAtMost DEF Taken
  <2>2. QED BY <1>2, <2>1
<1>11. SumTaken(r)' = SumTaken(r) /\ AllTaken(r)' = AllTaken(r)
  BY <1>3, <1>9, <1>10, SameSum DEF AllTaken
<1>12. ChannelOf(r)'
  <2>1. \A j \in JobIds : j > n'[r] => job'[r][j] = Idle
    BY <1>0, <1>2, <1>3, <1>8, FourAtMost DEF ChannelOf
  <2>2. Begun(r)' => \A j \in 1..n'[r] : job'[r][j].at \in {"running", "ended"}
    BY <1>0, <1>2, <1>3, FourAtMost DEF ChannelOf, Begun
  <2>3. \A j \in Sent(r)' : j <= n'[r] /\ job'[r][j].at = "ended"
    <3>1. Sent(r) \subseteq JobIds
      BY <1>3 DEF Sent
    <3>2. QED BY <1>0, <1>2, <1>3, <1>7, <1>8, <3>1, FourAtMost DEF ChannelOf
  <2>4. \A k, l \in 1..Len(results'[r]) : results'[r][k] = results'[r][l] => k = l
    <3>1. \A k \in 1..Len(results[r]) : results'[r][k] # i
      BY <1>5, <1>6 DEF Sent
    <3>2. QED BY SMTT(30), <1>0, <1>6, <3>1 DEF ChannelOf
  <2>5. QED BY <2>1, <2>2, <2>3, <2>4 DEF ChannelOf
<1>13. CountersOf(r)'
  BY <1>0, <1>3, <1>9, <1>10, <1>11 DEF CountersOf
<1>14. ReplyOf(r)'
  BY <1>0, <1>3, <1>11 DEF ReplyOf, Begun
<1>15. QED BY <1>2, <1>3, <1>4, <1>12, <1>13, <1>14, OneGathers

\* What the head of the channel leaves behind.
LEMMA HeadOf ==
  ASSUME NEW s \in Seq(JobIds), s # <<>>,
         \A k, l \in 1..Len(s) : s[k] = s[l] => k = l
  PROVE  /\ Tail(s) \in Seq(JobIds) /\ Head(s) \in JobIds
         /\ Head(s) \in {s[k] : k \in 1..Len(s)}
         /\ {Tail(s)[k] : k \in 1..Len(Tail(s))} = {s[k] : k \in 1..Len(s)} \ {Head(s)}
         /\ \A k, l \in 1..Len(Tail(s)) : Tail(s)[k] = Tail(s)[l] => k = l
<1>1. /\ Len(s) \in Nat /\ Len(s) >= 1 /\ Tail(s) \in Seq(JobIds)
      /\ Len(Tail(s)) = Len(s) - 1 /\ Head(s) = s[1]
      /\ \A k \in 1..Len(Tail(s)) : Tail(s)[k] = s[k + 1]
  OBVIOUS
<1>2. 1 \in 1..Len(s) /\ s[1] \in JobIds
  BY <1>1
<1>3. ASSUME NEW k \in 1..Len(Tail(s))
      PROVE  Tail(s)[k] \in {s[l] : l \in 1..Len(s)} \ {Head(s)}
  <2>1. k + 1 \in 1..Len(s) /\ k + 1 # 1
    BY <1>1
  <2>2. Tail(s)[k] = s[k + 1] /\ s[k + 1] # s[1]
    BY <1>1, <1>2, <2>1
  <2>3. QED BY <1>1, <2>1, <2>2
<1>4. ASSUME NEW k \in 1..Len(s), s[k] # Head(s)
      PROVE  s[k] \in {Tail(s)[l] : l \in 1..Len(Tail(s))}
  <2>1. k # 1
    BY <1>1, <1>4
  <2>2. k - 1 \in 1..Len(Tail(s)) /\ (k - 1) + 1 = k
    BY <1>1, <2>1
  <2>3. Tail(s)[k - 1] = s[k]
    BY <1>1, <2>2
  <2>4. QED BY <2>2, <2>3
<1>5. \A k, l \in 1..Len(Tail(s)) : Tail(s)[k] = Tail(s)[l] => k = l
  <2> SUFFICES ASSUME NEW k \in 1..Len(Tail(s)), NEW l \in 1..Len(Tail(s)),
                      Tail(s)[k] = Tail(s)[l]
               PROVE  k = l
    OBVIOUS
  <2>1. k + 1 \in 1..Len(s) /\ l + 1 \in 1..Len(s) /\ s[k + 1] = s[l + 1]
    BY <1>1
  <2>2. k + 1 = l + 1
    BY <2>1
  <2>3. QED BY <1>1, <2>2
<1>6. QED BY <1>1, <1>2, <1>3, <1>4, <1>5

\* One more job received adds its images to the sum.
LEMMA SumGains ==
  ASSUME ReqInv, GatherInv, NEW r \in Calls, NEW h \in JobIds, h \notin Taken(r),
         Taken(r)' = Taken(r) \cup {h}, job' = job, job[r][h].images \in Nat
  PROVE  SumTaken(r)' = SumTaken(r) + job[r][h].images
<1>1. /\ Brought(r, 1) \in Nat /\ Brought(r, 2) \in Nat
      /\ Brought(r, 3) \in Nat /\ Brought(r, 4) \in Nat
  BY SumNat DEF GatherInv, JobIds
<1>2. Brought(r, h)' = job[r][h].images /\ Brought(r, h) = 0
  BY DEF Brought
<1>3. \A i \in {1, 2, 3, 4} : i # h => Brought(r, i)' = Brought(r, i)
  BY DEF Brought
<1>4. h \in {1, 2, 3, 4}
  BY DEF JobIds
<1>5. CASE h = 1 BY <1>1, <1>2, <1>3, <1>5 DEF SumTaken
<1>6. CASE h = 2 BY <1>1, <1>2, <1>3, <1>6 DEF SumTaken
<1>7. CASE h = 3 BY <1>1, <1>2, <1>3, <1>7 DEF SumTaken
<1>8. CASE h = 4 BY <1>1, <1>2, <1>3, <1>8 DEF SumTaken
<1>9. QED BY <1>4, <1>5, <1>6, <1>7, <1>8

\* The loop receives the result at the head of the channel.
LEMMA CollectGathers ==
  ASSUME ReqInv, GatherInv, NEW r \in Calls, Collect(r) PROVE GatherInv'
<1> DEFINE h == Head(results[r])
<1> DEFINE o == job[r][h]
<1>0. Typed /\ RequestOf(r) /\ ChannelOf(r) /\ CountersOf(r) /\ ReplyOf(r) /\ GatherTyped
  BY DEF ReqInv, GatherInv
<1>1. /\ results[r] \in Seq(JobIds) /\ results[r] # <<>>
      /\ UNCHANGED <<pc, stage, n, job, gone, reply>>
      /\ stage[r] = "collect" /\ pc[r] = "leased"
  BY <1>0 DEF Collect, GatherTyped, vars, RequestOf, PlaceOf
<1>2. /\ Tail(results[r]) \in Seq(JobIds) /\ h \in Sent(r) /\ h \in JobIds
      /\ {Tail(results[r])[k] : k \in 1..Len(Tail(results[r]))} = Sent(r) \ {h}
      /\ \A k, l \in 1..Len(Tail(results[r])) :
           Tail(results[r])[k] = Tail(results[r])[l] => k = l
  BY <1>0, <1>1, HeadOf DEF ChannelOf, Sent
<1>3. /\ results'[r] = Tail(results[r]) /\ completed'[r] = completed[r] + 1
      /\ items'[r] = items[r] + RoomInReply(r, o.images)
      /\ lastErr'[r] = IF o.code = NoErr THEN lastErr[r] ELSE Told(o.code)
      /\ \A k \in Calls \ {r} :
           /\ results'[k] = results[k] /\ completed'[k] = completed[k]
           /\ items'[k] = items[k] /\ lastErr'[k] = lastErr[k]
      /\ lastErr' = [k \in Calls |-> lastErr'[k]]
  BY <1>0 DEF Collect, GatherTyped
<1>4. h \in 1..n[r] /\ o.at = "ended" /\ n[r] \in 1..4 /\ n[r] \in Nat
  BY <1>0, <1>2, FourAtMost DEF ChannelOf, JobIds
<1>5. o.images \in Nat /\ (o.images = 0 <=> o.code # NoErr)
  BY <1>2, <1>4, EndedJob
<1>6. Sent(r)' = Sent(r) \ {h}
  <2>1. Sent(r)' = {results'[r][k] : k \in 1..Len(results'[r])}
    BY DEF Sent
  <2>2. results'[r] = Tail(results[r])
    BY <1>3
  <2>3. Sent(r)' = {Tail(results[r])[k] : k \in 1..Len(Tail(results[r]))}
    BY <2>1, <2>2, Zenon
  <2>4. QED BY <1>2, <2>3
<1>7. h \notin Taken(r) /\ Taken(r)' = Taken(r) \cup {h}
  BY <1>1, <1>2, <1>4, <1>6 DEF Taken
<1>8. SumTaken(r)' = SumTaken(r) + o.images
  BY <1>1, <1>2, <1>5, <1>7, SumGains
<1>9. Cardinality(Taken(r)') = Cardinality(Taken(r)) + 1
  BY <1>0, <1>7, TakenFinite, FS_AddElement
<1>10. SumTaken(r) \in Nat /\ items[r] \in Nat /\ completed[r] \in Nat
  BY <1>0, SumNat DEF GatherTyped
<1>11. /\ items'[r] = IF SumTaken(r)' <= n[r] THEN SumTaken(r)' ELSE n[r]
       /\ items'[r] \in Nat
  <2>1. items[r] = IF SumTaken(r) <= n[r] THEN SumTaken(r) ELSE n[r]
    BY <1>0 DEF CountersOf
  <2>2. items'[r] = items[r] + (IF o.images <= n[r] - items[r] THEN o.images
                                ELSE n[r] - items[r])
    BY <1>3 DEF RoomInReply
  <2>3. QED BY <1>4, <1>5, <1>8, <1>10, <2>1, <2>2
<1>12. GatherTyped'
  <2>1. results' \in [Calls -> Seq(JobIds)]
    BY <1>0, <1>2 DEF Collect, GatherTyped
  <2>2. completed' \in [Calls -> Nat]
    BY <1>0 DEF Collect, GatherTyped
  <2>3. items' \in [Calls -> Nat]
    <3>1. items' = [items EXCEPT ![r] = items'[r]]
      BY <1>0, <1>3 DEF Collect, GatherTyped
    <3>2. QED BY <1>0, <1>11, <3>1 DEF GatherTyped
  <2>4. QED BY <1>0, <1>1, <1>3, <2>1, <2>2, <2>3 DEF GatherTyped
<1>13. ChannelOf(r)'
  <2>1. \A i \in Sent(r)' : i <= n'[r] /\ job'[r][i].at = "ended"
    BY <1>0, <1>1, <1>6 DEF ChannelOf
  <2>2. \A k, l \in 1..Len(results'[r]) : results'[r][k] = results'[r][l] => k = l
    BY <1>2, <1>3
  <2>3. QED BY <1>0, <1>1, <2>1, <2>2 DEF ChannelOf, Begun
<1>14. CountersOf(r)'
  <2>1. completed'[r] = Cardinality(Taken(r)')
    BY <1>0, <1>3, <1>9 DEF CountersOf
  <2>2. (\E i \in Taken(r)' : job'[r][i].code # NoErr) => lastErr'[r] # NoErr
    <3>1. CASE o.code = NoErr
      BY <1>0, <1>1, <1>3, <1>7, <3>1 DEF CountersOf
    <3>2. CASE o.code # NoErr
      BY <1>3, <3>2 DEF Told, NoErr
    <3>3. QED BY <3>1, <3>2
  <2>3. lastErr'[r] # NoErr =>
          \E i \in Taken(r)' : job'[r][i].code # NoErr /\ lastErr'[r] = Told(job'[r][i].code)
    <3>1. CASE o.code = NoErr
      BY <1>0, <1>1, <1>3, <1>7, <3>1 DEF CountersOf
    <3>2. CASE o.code # NoErr
      BY <1>1, <1>3, <1>7, <3>2
    <3>3. QED BY <3>1, <3>2
  <2>4. QED BY <1>1, <1>11, <2>1, <2>2, <2>3 DEF CountersOf
<1>15. ReplyOf(r)'
  <2>1. stage'[r] = "collect" /\ reply'[r].status # 200
    BY <1>0, <1>1 DEF ReplyOf
  <2>2. QED BY <2>1 DEF ReplyOf
<1>16. QED
  BY <1>1, <1>3, <1>12, <1>13, <1>14, <1>15, OneGathers

\* The handler's end: the loop's outcome is told, nothing else that was gathered
\* changes.
LEMMA ReplyGathers ==
  ASSUME ReqInv, ReqInv', GatherInv, NEW r \in Calls, ReplyOf(r)',
         Begun(r)' = Begun(r),
         \A k \in Calls \ {r} :
           pc'[k] = pc[k] /\ stage'[k] = stage[k] /\ reply'[k] = reply[k],
         UNCHANGED <<n, job, results, completed, items, lastErr, gone>>
  PROVE  GatherInv'
<1>0. ChannelOf(r) /\ CountersOf(r) /\ GatherTyped
  BY DEF GatherInv
<1>1. Sent(r)' = Sent(r) /\ Taken(r)' = Taken(r) /\ SumTaken(r)' = SumTaken(r)
  BY DEF Sent, Taken, SumTaken, Brought
<1>2. ChannelOf(r)'
  BY <1>0, <1>1 DEF ChannelOf
<1>3. CountersOf(r)'
  BY <1>0, <1>1 DEF CountersOf
<1>4. GatherTyped'
  BY <1>0 DEF GatherTyped
<1>5. QED BY <1>2, <1>3, <1>4, OneGathers

LEMMA GiveUpGathers ==
  ASSUME ReqInv, ReqInv', GatherInv, NEW r \in Calls, GiveUp(r) PROVE GatherInv'
<1>0. Typed /\ RequestOf(r) /\ ReplyOf(r)
  BY DEF ReqInv, GatherInv
<1>1. /\ UNCHANGED <<pc, n, job, results, completed, items, lastErr, gone>>
      /\ r \in gone
      /\ \A k \in Calls \ {r} : stage'[k] = stage[k] /\ reply'[k] = reply[k]
      /\ reply'[r] = Error(StatusOf("image_timeout"), "image_timeout")
  BY <1>0 DEF GiveUp, To, Says, vars, Typed
<1>2. reply'[r].status # 200 /\ reply'[r].code = "image_timeout" /\ r \in gone'
  BY <1>1, StatusNotOk DEF Error
<1>3. ReplyOf(r)'
  BY <1>2 DEF ReplyOf
<1>4. QED BY <1>1, <1>3, ReplyGathers DEF Begun

\* When the loop is over without enough images, every job's result was received;
\* without any image, they all failed.
LEMMA LoopOver ==
  ASSUME ReqInv, GatherInv, NEW r \in Calls, ~LoopGoes(r)
  PROVE  /\ items[r] < n[r] => AllTaken(r)
         /\ items[r] = 0 => lastErr[r] # NoErr
<1>0. CountersOf(r) /\ GatherTyped /\ n[r] \in 1..4 /\ items[r] \in Nat
  BY FourAtMost DEF GatherInv, GatherTyped
<1>1. items[r] < n[r] => AllTaken(r)
  <2>1. HAVE items[r] < n[r]
  <2>2. completed[r] = Cardinality(Taken(r)) /\ ~(completed[r] < n[r])
    BY <1>0, <2>1 DEF CountersOf, LoopGoes
  <2>3. QED BY <1>0, <2>2, TakenFinite
<1>2. items[r] = 0 => lastErr[r] # NoErr
  <2>1. HAVE items[r] = 0
  <2>2. 1 \in Taken(r)
    BY <1>0, <1>1, <2>1 DEF AllTaken
  <2>3. SumTaken(r) = 0
    BY <1>0, <2>1, SumNat DEF CountersOf
  <2>4. job[r][1].images = 0 /\ job[r][1].at = "ended"
    BY <1>0, <2>2, <2>3, SumNat DEF Taken
  <2>5. job[r][1].code # NoErr
    BY <2>4, EndedJob DEF JobIds
  <2>6. QED BY <1>0, <2>2, <2>5 DEF CountersOf
<1>3. QED BY <1>1, <1>2

LEMMA FinishGathers ==
  ASSUME ReqInv, ReqInv', GatherInv, NEW r \in Calls, Finish(r) PROVE GatherInv'
<1>0. Typed /\ RequestOf(r) /\ Typed' /\ GatherTyped
  BY DEF ReqInv, GatherInv
<1>1. /\ UNCHANGED <<pc, n, job, results, completed, items, lastErr, gone>>
      /\ pc[r] = "leased" /\ stage'[r] = "leaving" /\ ~LoopGoes(r)
      /\ \A k \in Calls \ {r} : stage'[k] = stage[k] /\ reply'[k] = reply[k]
      /\ reply'[r] = IF items[r] > 0 THEN Images(items[r])
                     ELSE IF lastErr[r] # NoErr THEN Error(StatusOf(lastErr[r]), lastErr[r])
                     ELSE Error(StatusOf("download_failed"), "download_failed")
  BY <1>0 DEF Finish, To, Says, vars, Typed, RequestOf, PlaceOf
<1>2. items[r] \in Nat /\ n[r] \in 1..4
  BY <1>0, FourAtMost DEF GatherTyped
<1>3. AllTaken(r)' = AllTaken(r) /\ Begun(r)' /\ Begun(r)
  BY <1>1 DEF AllTaken, Taken, Sent, Begun
<1>4. ReplyOf(r)'
  <2>1. CASE items[r] > 0
    <3>1. reply'[r].status = 200 /\ reply'[r].images = items[r]
      BY <1>1, <2>1 DEF Images
    <3>2. QED BY <1>1, <1>3, <2>1, <3>1, LoopOver DEF ReplyOf
  <2>2. CASE ~(items[r] > 0)
    <3>1. items[r] = 0 /\ AllTaken(r) /\ lastErr[r] # NoErr
      BY <1>1, <1>2, <2>2, LoopOver
    <3>2. reply'[r].status # 200 /\ reply'[r].code = lastErr[r]
      BY <1>1, <2>2, <3>1, StatusNotOk DEF Error
    <3>3. QED BY <1>1, <1>3, <3>1, <3>2 DEF ReplyOf
  <2>3. QED BY <2>1, <2>2
<1>5. QED BY <1>1, <1>3, <1>4, ReplyGathers

LEMMA LeaveGathers ==
  ASSUME ReqInv, ReqInv', GatherInv, NEW r \in Calls, Leave(r) PROVE GatherInv'
<1>0. Typed /\ RequestOf(r) /\ ReplyOf(r)
  BY DEF ReqInv, GatherInv
<1>1. /\ UNCHANGED <<n, job, results, completed, items, lastErr, gone, reply>>
      /\ pc' = [pc EXCEPT ![r] = "released"] /\ stage[r] = "leaving"
      /\ stage' = [stage EXCEPT ![r] = "returned"]
  BY DEF Leave, Release, Goto, To
<1>2. /\ Begun(r) /\ Begun(r)' /\ stage'[r] = "returned"
      /\ \A k \in Calls \ {r} : pc'[k] = pc[k] /\ stage'[k] = stage[k]
  BY <1>0, <1>1 DEF Typed, RequestOf, PlaceOf, Begun
<1>3. AllTaken(r)' = AllTaken(r)
  BY <1>1 DEF AllTaken, Taken, Sent
<1>4. ReplyOf(r)'
  BY <1>0, <1>1, <1>2, <1>3 DEF ReplyOf
<1>5. QED BY <1>1, <1>2, <1>4, ReplyGathers

LEMMA StepGathers ==
  ReqInv /\ ReqInv' /\ GatherInv /\ [RequestNext]_reqVars => GatherInv'
<1> SUFFICES ASSUME ReqInv, ReqInv', GatherInv, [RequestNext]_reqVars
             PROVE  GatherInv'
  OBVIOUS
<1>1. CASE UNCHANGED reqVars
  <2>1. UNCHANGED <<pc, stage, n, job, results, completed, items, lastErr, gone, reply>>
    BY <1>1 DEF reqVars, request, vars
  <2>2. ASSUME NEW r \in Calls PROVE ReplyOf(r)' /\ Begun(r)' = Begun(r)
    <3>1. AllTaken(r)' = AllTaken(r) /\ Begun(r)' = Begun(r)
      BY <2>1 DEF AllTaken, Taken, Sent, Begun
    <3>2. ReplyOf(r)
      BY DEF GatherInv
    <3>3. QED BY <2>1, <3>1, <3>2 DEF ReplyOf
  <2>3. ASSUME NEW r \in Calls PROVE GatherInv'
    BY <2>1, <2>2, ReplyGathers
  <2>4. GatherTyped'
    BY <2>1 DEF GatherInv, GatherTyped
  <2>5. QED BY <2>3, <2>4 DEF GatherInv
<1>2. ASSUME NEW r \in Calls, RequestStep(r) PROVE GatherInv'
  <2>1. CASE Refuse(r) \/ Accept(r) \/ TurnAway(r) BY <2>1, EarlyGathers
  <2>2. CASE Start(r) BY <2>2, StartGathers
  <2>3. CASE QueueStep(r) \/ QueueDeadline(r) \/ ClientGone(r) BY <2>3, WaitGathers
  <2>4. CASE \E i \in JobIds : JobEnds(r, i) BY <2>4, JobEndsGathers
  <2>5. CASE Collect(r) BY <2>5, CollectGathers
  <2>6. CASE GiveUp(r) BY <2>6, GiveUpGathers
  <2>7. CASE Finish(r) BY <2>7, FinishGathers
  <2>8. CASE Leave(r) BY <2>8, LeaveGathers
  <2>9. QED
    BY <1>2, <2>1, <2>2, <2>3, <2>4, <2>5, <2>6, <2>7, <2>8 DEF RequestStep
<1>3. QED BY <1>1, <1>2 DEF RequestNext, RequestStep

THEOREM RequestGathers == RequestSpec => [](ReqInv /\ GatherInv)
<1>1. ReqInv /\ GatherInv /\ [RequestNext]_reqVars => (ReqInv /\ GatherInv)'
  BY StepInv, StepGathers
<1>2. RequestInit => ReqInv /\ GatherInv
  BY RequestInitInv, GatherInit
<1>3. QED BY <1>1, <1>2, PTL DEF RequestSpec

\* When all results were received no job is at work, and what was received is all
\* there is.
LEMMA AllTakenIsAll ==
  ASSUME ReqInv, GatherInv, NEW r \in Calls, AllTaken(r)
  PROVE  ~Live(r) /\ ImagesOf(r) = SumTaken(r)
<1>0. ChannelOf(r) /\ n[r] \in 1..4
  BY FourAtMost DEF GatherInv
<1>1. ASSUME NEW i \in JobIds
      PROVE  job[r][i] # Running /\ job[r][i].images = Brought(r, i)
  <2>1. CASE i <= n[r]
    <3>1. i \in Taken(r)
      BY <1>0, <2>1 DEF AllTaken, JobIds
    <3>2. QED BY <3>1 DEF Taken, Running, Brought
  <2>2. CASE i > n[r]
    <3>1. job[r][i] = Idle /\ i \notin Taken(r)
      BY <1>0, <2>2 DEF ChannelOf, Taken, JobIds
    <3>2. QED BY <3>1 DEF Idle, Running, Brought
  <2>3. QED BY <1>0, <2>1, <2>2 DEF JobIds
<1>2. ~Live(r)
  BY <1>1 DEF Live
<1>3. ImagesOf(r) = SumTaken(r)
  BY <1>1 DEF ImagesOf, SumTaken, JobIds
<1>4. QED BY <1>2, <1>3

\* The images of every job are in the reply, up to the number asked for; it has
\* fewer only if no job is at work and no image was left behind.
THEOREM RequestNothingLost == RequestSpec => []NothingLost
<1>1. ReqInv /\ GatherInv => NothingLost
  <2> SUFFICES ASSUME ReqInv, GatherInv, NEW r \in Calls, reply[r].status = 200
               PROVE  /\ reply[r].images \in 1..n[r]
                      /\ reply[r].images < n[r] =>
                           ~Live(r) /\ ImagesOf(r) = reply[r].images
    BY DEF NothingLost
  <2>1. ReplyOf(r) /\ CountersOf(r) /\ n[r] \in 1..4 /\ SumTaken(r) \in Nat
    BY FourAtMost, SumNat DEF GatherInv
  <2>2. /\ reply[r].images = items[r] /\ items[r] > 0
        /\ items[r] < n[r] => AllTaken(r)
    BY <2>1 DEF ReplyOf
  <2>3. /\ items[r] \in Nat /\ items[r] <= n[r]
        /\ items[r] < n[r] => items[r] = SumTaken(r)
    BY <2>1 DEF CountersOf
  <2>4. QED BY <2>1, <2>2, <2>3, AllTakenIsAll
<1>2. QED BY <1>1, RequestGathers, PTL

\* One failed job never costs the images of another.
THEOREM RequestErrorOnlyIfAllFailed == RequestSpec => []ErrorOnlyIfAllFailed
<1>1. ReqInv /\ GatherInv => ErrorOnlyIfAllFailed
  <2> SUFFICES ASSUME ReqInv, GatherInv, NEW r \in Calls,
                      stage[r] \in {"leaving", "returned"},
                      pc[r] \in {"leased", "released"},
                      reply[r].status # 200,
                      ~(r \in gone /\ reply[r].code = "image_timeout")
               PROVE  /\ ImagesOf(r) = 0
                      /\ ~Live(r)
                      /\ \E i \in JobIds :
                           /\ job[r][i].code # NoErr
                           /\ reply[r].code = IF job[r][i].code = "poll_timeout"
                                              THEN "image_timeout" ELSE job[r][i].code
    BY DEF ErrorOnlyIfAllFailed
  <2>1. ReplyOf(r) /\ CountersOf(r) /\ n[r] \in 1..4 /\ SumTaken(r) \in Nat
    BY FourAtMost, SumNat DEF GatherInv
  <2>2. items[r] = 0 /\ AllTaken(r) /\ lastErr[r] # NoErr /\ reply[r].code = lastErr[r]
    BY <2>1 DEF ReplyOf, Begun
  <2>3. SumTaken(r) = 0
    BY <2>1, <2>2 DEF CountersOf
  <2>4. PICK i \in Taken(r) : job[r][i].code # NoErr /\ lastErr[r] = Told(job[r][i].code)
    BY <2>1, <2>2 DEF CountersOf
  <2>5. i \in JobIds
    BY <2>1 DEF Taken, JobIds
  <2>6. QED BY <2>2, <2>3, <2>4, <2>5, AllTakenIsAll DEF Told
<1>2. QED BY <1>1, RequestGathers, PTL

=============================================================================
