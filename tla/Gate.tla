-------------------------------- MODULE Gate --------------------------------
(***************************************************************************)
(* The request gate of internal/queue: a FIFO semaphore with a bounded     *)
(* waiting line, context cancellation and direct hand-over of a released   *)
(* slot to the first live waiter.                                          *)
(*                                                                         *)
(* A member of Calls is one call of Gate.Acquire together with its waiter  *)
(* object and the Lease it may return; the identity is used again once the *)
(* call is over and no longer occurs in the waiters slice.  Every action   *)
(* that touches the gate's fields is one critical section of g.mu.         *)
(***************************************************************************)
EXTENDS Integers, Sequences, FiniteSets

CONSTANTS Calls,       \* concurrent calls of Acquire
          LimitArg,    \* New's limit argument
          MaxPending   \* New's maxPending argument; 0 or less: unbounded

ASSUME GateAssumption ==
  /\ IsFiniteSet(Calls)
  /\ LimitArg \in Int
  /\ MaxPending \in Int

\* New: a limit that is not positive becomes one slot.
limit == IF LimitArg <= 0 THEN 1 ELSE LimitArg

VARIABLES
  active,    \* slots handed out
  pending,   \* waiters that are neither granted nor canceled
  waiters,   \* the slice: live waiters in order of arrival, and canceled ones
  granted,   \* calls whose waiter has granted = TRUE (and its channel closed)
  canceled,  \* calls whose waiter has canceled = TRUE
  ctxDone,   \* calls whose context is done
  pc         \* where each call is

vars == <<active, pending, waiters, granted, canceled, ctxDone, pc>>
gate == <<active, pending, waiters, granted, canceled>>

\* "idle"       not called yet
\* "waiting"    in the select on its ready channel and its context
\* "abandoning" the select took ctx.Done, the mutex is not yet taken
\* "leased"     returned a Lease that was not released
\* "released"   the Lease was released
\* "failed"     returned ErrQueueFull or ctx.Err()
PCs == {"idle", "waiting", "abandoning", "leased", "released", "failed"}

InAcquire == {c \in Calls : pc[c] \in {"waiting", "abandoning"}}

\* Calls that own a slot: they hold the Lease, or were granted one they have
\* not returned yet.
Holders == {c \in Calls : pc[c] = "leased"} \cup (InAcquire \cap granted)

\* Calls that are waiting for a slot.
Waiting == InAcquire \ granted

-----------------------------------------------------------------------------

Init ==
  /\ active = 0
  /\ pending = 0
  /\ waiters = <<>>
  /\ granted = {}
  /\ canceled = {}
  /\ ctxDone = {}
  /\ pc = [c \in Calls |-> "idle"]

Goto(c, l) == pc' = [pc EXCEPT ![c] = l]

\* The fast path of Acquire: a free slot and nobody waiting.  It does not look
\* at the context.
SlotFree == active < limit /\ pending = 0

AcquireFast(c) ==
  /\ pc[c] = "idle"
  /\ SlotFree
  /\ active' = active + 1
  /\ Goto(c, "leased")
  /\ UNCHANGED <<pending, waiters, granted, canceled, ctxDone>>

LineFull == MaxPending > 0 /\ pending >= MaxPending

AcquireFull(c) ==
  /\ pc[c] = "idle"
  /\ ~SlotFree
  /\ LineFull
  /\ Goto(c, "failed")
  /\ UNCHANGED <<gate, ctxDone>>

Enqueue(c) ==
  /\ pc[c] = "idle"
  /\ ~SlotFree
  /\ ~LineFull
  /\ waiters' = Append(waiters, c)
  /\ pending' = pending + 1
  /\ Goto(c, "waiting")
  /\ UNCHANGED <<active, granted, canceled, ctxDone>>

\* The select returns: on the closed ready channel, or on the context; when
\* both are ready Go takes either.
WakeReady(c) ==
  /\ pc[c] = "waiting"
  /\ c \in granted
  /\ Goto(c, "leased")
  /\ UNCHANGED <<gate, ctxDone>>

\* Mutant: the select has no ctx.Done case.
WakeDoneIgnored(c) == pc[c] = "waiting" /\ FALSE /\ UNCHANGED vars

WakeDone(c) ==
  /\ pc[c] = "waiting"
  /\ c \in ctxDone
  /\ Goto(c, "abandoning")
  /\ UNCHANGED <<gate, ctxDone>>

\* Mutant: the slot granted between ctx.Done and the lock is not kept.
AbandonLateLost(c) ==
  /\ pc[c] = "abandoning"
  /\ c \in granted
  /\ Goto(c, "failed")
  /\ UNCHANGED <<gate, ctxDone>>

\* The critical section after ctx.Done: a slot granted in between is kept.
AbandonLate(c) ==
  /\ pc[c] = "abandoning"
  /\ c \in granted
  /\ Goto(c, "leased")
  /\ UNCHANGED <<gate, ctxDone>>

\* Mutant: the waiter is not marked canceled.
AbandonUnmarked(c) ==
  /\ pc[c] = "abandoning"
  /\ c \notin granted
  /\ pending' = pending - 1
  /\ Goto(c, "failed")
  /\ UNCHANGED <<active, waiters, granted, canceled, ctxDone>>

Abandon(c) ==
  /\ pc[c] = "abandoning"
  /\ c \notin granted
  /\ canceled' = canceled \cup {c}
  /\ pending' = IF c \in canceled THEN pending ELSE pending - 1
  /\ Goto(c, "failed")
  /\ UNCHANGED <<active, waiters, granted, ctxDone>>

\* Gate.release: drop canceled and granted waiters from the head; the first
\* other one takes over the slot, and if there is none the slot becomes free.
Skipped(c) == c \in canceled \cup granted

LivePositions == {i \in 1..Len(waiters) : ~Skipped(waiters[i])}

\* Mutant: the latest waiter is served first.
HandOverLast ==
  \E k \in LivePositions :
    /\ \A i \in LivePositions : i <= k
    /\ waiters' = SubSeq(waiters, 1, k - 1)
    /\ granted' = granted \cup {waiters[k]}
    /\ pending' = pending - 1
    /\ UNCHANGED <<active, canceled>>

HandOver ==
  \E k \in LivePositions :
    /\ \A i \in LivePositions : k <= i
    /\ waiters' = SubSeq(waiters, k + 1, Len(waiters))
    /\ granted' = granted \cup {waiters[k]}
    /\ pending' = pending - 1
    /\ UNCHANGED <<active, canceled>>

FreeSlot ==
  /\ LivePositions = {}
  /\ waiters' = <<>>
  /\ active' = IF active > 0 THEN active - 1 ELSE active
  /\ UNCHANGED <<pending, granted, canceled>>

\* Lease.Release: sync.Once makes a second call do nothing.
OnceDone(c) == pc[c] = "released"

Release(c) ==
  /\ pc[c] \in {"leased", "released"}
  /\ IF OnceDone(c) THEN UNCHANGED gate ELSE HandOver \/ FreeSlot
  /\ Goto(c, "released")
  /\ UNCHANGED ctxDone

\* The environment: a context is cancelled or its deadline passes; a new call
\* of Acquire begins with a waiter and a context of its own.
CtxDone(c) ==
  /\ pc[c] \in {"idle", "waiting"}
  /\ c \notin ctxDone
  /\ ctxDone' = ctxDone \cup {c}
  /\ UNCHANGED <<gate, pc>>

NewCall(c) ==
  /\ pc[c] \in {"released", "failed"}
  /\ \A i \in 1..Len(waiters) : waiters[i] # c
  /\ granted' = granted \ {c}
  /\ canceled' = canceled \ {c}
  /\ ctxDone' = ctxDone \ {c}
  /\ Goto(c, "idle")
  /\ UNCHANGED <<active, pending, waiters>>

Next ==
  \E c \in Calls :
    \/ AcquireFast(c)
    \/ AcquireFull(c)
    \/ Enqueue(c)
    \/ WakeReady(c)
    \/ WakeDone(c)
    \/ AbandonLate(c)
    \/ Abandon(c)
    \/ Release(c)
    \/ CtxDone(c)
    \/ NewCall(c)

Spec == Init /\ [][Next]_vars

\* A goroutine inside Acquire keeps running; this is all a cancelled call needs.
AcquireRuns(c) == WakeReady(c) \/ WakeDone(c) \/ AbandonLate(c) \/ Abandon(c)

CallsRun == \A c \in Calls : WF_vars(AcquireRuns(c))

\* The server defers Release right after Acquire and bounds every request by a
\* timeout, so a lease is released in the end.  The gate itself does not rest on
\* it: WaiterServed takes it as a hypothesis.
LeasesEnd == \A c \in Calls : WF_vars(Release(c))

FairSpec == Spec /\ CallsRun

-----------------------------------------------------------------------------

\* Gate.Stats: what the health endpoint reports.
Stats == [active |-> active, pending |-> pending]

TypeOK ==
  /\ active \in Nat
  /\ pending \in Nat
  /\ waiters \in Seq(Calls)
  /\ granted \subseteq Calls
  /\ canceled \subseteq Calls
  /\ ctxDone \subseteq Calls
  /\ pc \in [Calls -> PCs]

\* The active count is exactly the number of calls that own a slot, whether they
\* already hold the lease or were handed one while giving up, and it is never
\* over the limit: no slot is lost or handed out twice by a cancellation that
\* races with a hand-over.
ActiveCountsHolders ==
  /\ Stats.active = Cardinality(Holders)
  /\ Stats.active <= limit

\* The pending count is exactly the number of calls still waiting, never over
\* the bound New was given, so that ErrQueueFull is returned when the line is
\* really full and only then.
PendingCountsWaiters ==
  /\ Stats.pending = Cardinality(Waiting)
  /\ MaxPending > 0 => Stats.pending <= MaxPending

\* Both counters of the gate tell the truth in every state, whichever way calls are
\* granted, give up and release: what decides about a free slot and a full line, and
\* what the health endpoint reports.
CountersMatch == ActiveCountsHolders /\ PendingCountsWaiters

\* A slot is never free while a call waits: release() hands it over past
\* canceled waiters and the fast path leaves none behind.
NoIdleSlot == Stats.pending > 0 => Stats.active = limit

\* Every waiting call is in the slice, where release() will find it, and a call
\* that left with an error never owns a slot afterwards.
WaitersReachable ==
  /\ \A c \in Waiting : \E i \in LivePositions : waiters[i] = c
  /\ \A i \in LivePositions : waiters[i] \in Waiting
  /\ canceled \cap Holders = {}

\* Acquire returns after its context is done, even when no holder ever releases.
CancelReturns ==
  \A c \in Calls :
    (pc[c] \in {"waiting", "abandoning"} /\ c \in ctxDone)
      ~> pc[c] \in {"leased", "failed"}

\* If every lease is released in the end, a waiting call gets its slot unless
\* its context ends first: later arrivals cannot starve it.
WaiterServed ==
  LeasesEnd =>
    \A c \in Calls : pc[c] = "waiting" ~> pc[c] = "leased" \/ c \in ctxDone

-----------------------------------------------------------------------------

\* The clients ahead of a waiting call are those whose live waiters come before its
\* own in the slice.
Ahead(c) ==
  {d \in Waiting :
     \E i, j \in LivePositions : i < j /\ waiters[i] = d /\ waiters[j] = c}

Slots == INSTANCE FifoSlots WITH
  Clients <- Calls,
  Slots   <- limit,
  holding <- Holders,
  ahead   <- [c \in Waiting |-> Ahead(c)]

\* The gate does what FifoSlots promises: every critical section of Acquire and
\* Release is one step of the abstract line or leaves it alone.
GateIsFifoSlots == Slots!Spec

=============================================================================
