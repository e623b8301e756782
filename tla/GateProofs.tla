----------------------------- MODULE GateProofs -----------------------------
(***************************************************************************)
(* The safety of Gate for every set of calls, limit and pending bound.     *)
(*                                                                         *)
(* The counters say nothing by themselves: active = |Holders| is kept by a *)
(* release only because the waiter it finds in the slice is a call that    *)
(* still waits, and pending > 0 => active = limit only because every call  *)
(* that waits is in the slice.  The inductive invariant therefore joins    *)
(* the counters with WaitersReachable and with where a call's flags may be *)
(* set.                                                                    *)
(***************************************************************************)
EXTENDS Gate, FiniteSetTheorems, SequenceTheorems, TLAPS

\* A call that has not started has a fresh waiter, and a canceled waiter is one
\* of a call that returned ctx.Err().
FlagsMatch ==
  /\ \A c \in Calls : pc[c] = "idle" => c \notin granted
  /\ \A c \in canceled : pc[c] = "failed"

IInv ==
  /\ TypeOK
  /\ ActiveCountsHolders
  /\ PendingCountsWaiters
  /\ NoIdleSlot
  /\ WaitersReachable
  /\ FlagsMatch

LEMMA LimitPositive == limit \in Nat /\ limit >= 1
BY GateAssumption DEF limit

LEMMA SetsFinite ==
  /\ IsFiniteSet(Holders)
  /\ IsFiniteSet(Waiting)
<1>1. Holders \subseteq Calls /\ Waiting \subseteq Calls
  BY DEF Holders, Waiting, InAcquire
<1>2. QED BY <1>1, GateAssumption, FS_Subset

LEMMA InitInvariant == Init => IInv
<1> SUFFICES ASSUME Init PROVE IInv OBVIOUS
<1> USE DEF Init
<1>1. TypeOK
  BY DEF TypeOK, PCs
<1>2. Holders = {} /\ Waiting = {} /\ LivePositions = {}
  BY DEF Holders, Waiting, InAcquire, LivePositions
<1>3. Cardinality({}) = 0
  BY FS_EmptySet
<1>4. ActiveCountsHolders /\ PendingCountsWaiters /\ NoIdleSlot
  BY <1>2, <1>3, LimitPositive, GateAssumption
     DEF ActiveCountsHolders, PendingCountsWaiters, NoIdleSlot, Stats
<1>5. WaitersReachable /\ FlagsMatch
  BY <1>2 DEF WaitersReachable, FlagsMatch
<1>6. QED BY <1>1, <1>4, <1>5 DEF IInv

LEMMA FastInvariant ==
  ASSUME IInv, NEW c \in Calls, AcquireFast(c)
  PROVE  IInv'
<1> USE DEF AcquireFast, Goto
<1>0. TypeOK /\ FlagsMatch
  BY DEF IInv
<1>1. TypeOK'
  BY <1>0 DEF TypeOK, PCs
<1>2. Holders' = Holders \cup {c} /\ c \notin Holders
  BY <1>0 DEF Holders, InAcquire, TypeOK
<1>3. Waiting' = Waiting /\ LivePositions' = LivePositions
  BY <1>0 DEF Waiting, InAcquire, LivePositions, Skipped, TypeOK
<1>4. ActiveCountsHolders'
  <2>1. Cardinality(Holders') = Cardinality(Holders) + 1
    BY <1>2, SetsFinite, FS_AddElement
  <2>2. active' = Cardinality(Holders') /\ active' <= limit
    BY <1>0, <2>1, LimitPositive
       DEF IInv, ActiveCountsHolders, Stats, SlotFree, TypeOK
  <2>3. QED BY <2>2 DEF ActiveCountsHolders, Stats, limit
<1>5. PendingCountsWaiters' /\ NoIdleSlot'
  BY <1>3 DEF IInv, PendingCountsWaiters, NoIdleSlot, Stats, SlotFree
<1>6. WaitersReachable' /\ FlagsMatch'
  BY <1>0, <1>2, <1>3 DEF IInv, WaitersReachable, FlagsMatch, TypeOK
<1>7. QED BY <1>1, <1>4, <1>5, <1>6 DEF IInv

LEMMA FullInvariant ==
  ASSUME IInv, NEW c \in Calls, AcquireFull(c)
  PROVE  IInv'
<1> USE DEF AcquireFull, Goto, gate
<1>0. TypeOK /\ FlagsMatch
  BY DEF IInv
<1>1. TypeOK'
  BY <1>0 DEF TypeOK, PCs
<1>2. Holders' = Holders
  BY <1>0 DEF Holders, InAcquire, TypeOK
<1>3. Waiting' = Waiting /\ LivePositions' = LivePositions
  BY <1>0 DEF Waiting, InAcquire, LivePositions, Skipped, TypeOK
<1>4. ActiveCountsHolders' /\ PendingCountsWaiters' /\ NoIdleSlot'
  BY <1>2, <1>3
     DEF IInv, ActiveCountsHolders, PendingCountsWaiters, NoIdleSlot, Stats, limit
<1>5. WaitersReachable' /\ FlagsMatch'
  BY <1>0, <1>2, <1>3 DEF IInv, WaitersReachable, FlagsMatch, TypeOK
<1>6. QED BY <1>1, <1>4, <1>5 DEF IInv

LEMMA EnqueueInvariant ==
  ASSUME IInv, NEW c \in Calls, Enqueue(c)
  PROVE  IInv'
<1> USE DEF Enqueue, Goto
<1>0. TypeOK /\ FlagsMatch /\ WaitersReachable
  BY DEF IInv
<1>a. c \notin granted /\ c \notin canceled
  BY <1>0 DEF FlagsMatch, TypeOK
<1>b. /\ Len(waiters') = Len(waiters) + 1
      /\ \A i \in 1..Len(waiters) : waiters'[i] = waiters[i]
      /\ waiters'[Len(waiters) + 1] = c
      /\ Len(waiters) \in Nat
  BY <1>0 DEF TypeOK
<1>1. TypeOK'
  BY <1>0 DEF TypeOK, PCs
<1>2. Holders' = Holders
  BY <1>0, <1>a DEF Holders, InAcquire, TypeOK
<1>3. Waiting' = Waiting \cup {c} /\ c \notin Waiting
  BY <1>0, <1>a DEF Waiting, InAcquire, TypeOK
<1>4. LivePositions' = LivePositions \cup {Len(waiters) + 1}
  BY <1>a, <1>b DEF LivePositions, Skipped
<1>5. ActiveCountsHolders'
  BY <1>2 DEF IInv, ActiveCountsHolders, Stats, limit
<1>6. PendingCountsWaiters'
  <2>1. Cardinality(Waiting') = Cardinality(Waiting) + 1
    BY <1>3, SetsFinite, FS_AddElement
  <2>2. QED
    BY <1>0, <2>1, GateAssumption
       DEF IInv, PendingCountsWaiters, Stats, LineFull, TypeOK
<1>7. NoIdleSlot'
  BY <1>0, LimitPositive
     DEF IInv, NoIdleSlot, ActiveCountsHolders, Stats, SlotFree, TypeOK, limit
<1>8. WaitersReachable'
  <2>1. \A d \in Waiting' : \E i \in LivePositions' : waiters'[i] = d
    BY <1>0, <1>b, <1>3, <1>4 DEF WaitersReachable, LivePositions
  <2>2. \A i \in LivePositions' : waiters'[i] \in Waiting'
    BY <1>0, <1>b, <1>3, <1>4 DEF WaitersReachable, LivePositions
  <2>3. canceled' \cap Holders' = {}
    BY <1>0, <1>2 DEF WaitersReachable
  <2>4. QED BY <2>1, <2>2, <2>3 DEF WaitersReachable
<1>9. FlagsMatch'
  BY <1>0 DEF FlagsMatch, TypeOK
<1>10. QED BY <1>1, <1>5, <1>6, <1>7, <1>8, <1>9 DEF IInv

\* Returning a lease that was granted leaves the gate and both sets as they are.
LEMMA TakeLeaseInvariant ==
  ASSUME IInv, NEW c \in Calls, WakeReady(c) \/ AbandonLate(c)
  PROVE  IInv'
<1> USE DEF WakeReady, AbandonLate, Goto, gate
<1>0. TypeOK /\ FlagsMatch
  BY DEF IInv
<1>1. TypeOK'
  BY <1>0 DEF TypeOK, PCs
<1>2. Holders' = Holders
  BY <1>0 DEF Holders, InAcquire, TypeOK
<1>3. Waiting' = Waiting /\ LivePositions' = LivePositions
  BY <1>0 DEF Waiting, InAcquire, LivePositions, Skipped, TypeOK
<1>4. ActiveCountsHolders' /\ PendingCountsWaiters' /\ NoIdleSlot'
  BY <1>2, <1>3
     DEF IInv, ActiveCountsHolders, PendingCountsWaiters, NoIdleSlot, Stats, limit
<1>5. WaitersReachable' /\ FlagsMatch'
  BY <1>0, <1>2, <1>3 DEF IInv, WaitersReachable, FlagsMatch, TypeOK
<1>6. QED BY <1>1, <1>4, <1>5 DEF IInv

LEMMA WakeDoneInvariant ==
  ASSUME IInv, NEW c \in Calls, WakeDone(c)
  PROVE  IInv'
<1> USE DEF WakeDone, Goto, gate
<1>0. TypeOK /\ FlagsMatch
  BY DEF IInv
<1>1. TypeOK'
  BY <1>0 DEF TypeOK, PCs
<1>2. Holders' = Holders
  BY <1>0 DEF Holders, InAcquire, TypeOK
<1>3. Waiting' = Waiting /\ LivePositions' = LivePositions
  BY <1>0 DEF Waiting, InAcquire, LivePositions, Skipped, TypeOK
<1>4. ActiveCountsHolders' /\ PendingCountsWaiters' /\ NoIdleSlot'
  BY <1>2, <1>3
     DEF IInv, ActiveCountsHolders, PendingCountsWaiters, NoIdleSlot, Stats, limit
<1>5. WaitersReachable' /\ FlagsMatch'
  BY <1>0, <1>2, <1>3 DEF IInv, WaitersReachable, FlagsMatch, TypeOK
<1>6. QED BY <1>1, <1>4, <1>5 DEF IInv

LEMMA AbandonInvariant ==
  ASSUME IInv, NEW c \in Calls, Abandon(c)
  PROVE  IInv'
<1> USE DEF Abandon, Goto
<1>0. TypeOK /\ FlagsMatch /\ WaitersReachable
  BY DEF IInv
<1>a. c \in Waiting /\ c \notin canceled
  BY <1>0 DEF Waiting, InAcquire, FlagsMatch
<1>1. Waiting' = Waiting \ {c}
  BY <1>0 DEF Waiting, InAcquire, TypeOK
<1>2. Holders' = Holders
  BY <1>0 DEF Holders, InAcquire, TypeOK
<1>3. pending >= 1
  <2>1. Cardinality(Waiting) # 0
    BY <1>a, SetsFinite, FS_EmptySet
  <2>2. QED BY <1>0, <2>1 DEF IInv, PendingCountsWaiters, Stats, TypeOK
<1>4. TypeOK'
  BY <1>0, <1>3, <1>a DEF TypeOK, PCs
<1>5. ActiveCountsHolders'
  BY <1>2 DEF IInv, ActiveCountsHolders, Stats, limit
<1>6. PendingCountsWaiters'
  <2>1. Cardinality(Waiting') = Cardinality(Waiting) - 1
    BY <1>1, <1>a, SetsFinite, FS_RemoveElement
  <2>2. QED
    BY <1>0, <1>a, <2>1, GateAssumption
       DEF IInv, PendingCountsWaiters, Stats, TypeOK
<1>7. NoIdleSlot'
  BY <1>0, <1>3, <1>a DEF IInv, NoIdleSlot, Stats, TypeOK, limit
<1>8. LivePositions' = {i \in LivePositions : waiters[i] # c}
  BY <1>0 DEF LivePositions, Skipped, TypeOK
<1>9. WaitersReachable'
  BY <1>0, <1>1, <1>2, <1>8, <1>a
     DEF WaitersReachable, Waiting, Holders, InAcquire
<1>10. FlagsMatch'
  BY <1>0 DEF FlagsMatch, TypeOK
<1>11. QED BY <1>4, <1>5, <1>6, <1>7, <1>9, <1>10 DEF IInv

LEMMA CtxDoneInvariant ==
  ASSUME IInv, NEW c \in Calls, CtxDone(c)
  PROVE  IInv'
<1> USE DEF CtxDone, gate
<1>1. TypeOK'
  BY DEF IInv, TypeOK
<1>2. /\ Holders' = Holders
      /\ Waiting' = Waiting
      /\ LivePositions' = LivePositions
  BY DEF Holders, Waiting, InAcquire, LivePositions, Skipped
<1>3. QED
  BY <1>1, <1>2
     DEF IInv, ActiveCountsHolders, PendingCountsWaiters, NoIdleSlot, Stats,
         WaitersReachable, FlagsMatch, limit

LEMMA NewCallInvariant ==
  ASSUME IInv, NEW c \in Calls, NewCall(c)
  PROVE  IInv'
<1> USE DEF NewCall, Goto
<1>0. TypeOK /\ FlagsMatch
  BY DEF IInv
<1>1. TypeOK'
  BY <1>0 DEF TypeOK, PCs
<1>2. Holders' = Holders /\ Waiting' = Waiting
  BY <1>0 DEF Holders, Waiting, InAcquire, TypeOK
<1>3. LivePositions' = LivePositions
  BY <1>0 DEF LivePositions, Skipped, TypeOK
<1>4. ActiveCountsHolders' /\ PendingCountsWaiters' /\ NoIdleSlot'
  BY <1>2
     DEF IInv, ActiveCountsHolders, PendingCountsWaiters, NoIdleSlot, Stats, limit
<1>5. WaitersReachable' /\ FlagsMatch'
  BY <1>0, <1>2, <1>3 DEF IInv, WaitersReachable, FlagsMatch, TypeOK
<1>6. QED BY <1>1, <1>4, <1>5 DEF IInv

\* A release that finds a live waiter: the slot changes its owner.
LEMMA HandOverInvariant ==
  ASSUME IInv, NEW c \in Calls, pc[c] = "leased", HandOver,
         pc' = [pc EXCEPT ![c] = "released"], ctxDone' = ctxDone
  PROVE  IInv'
<1>0. TypeOK /\ FlagsMatch /\ WaitersReachable
  BY DEF IInv
<1> PICK k \in LivePositions :
      /\ \A i \in LivePositions : k <= i
      /\ waiters' = SubSeq(waiters, k + 1, Len(waiters))
      /\ granted' = granted \cup {waiters[k]}
      /\ pending' = pending - 1
      /\ UNCHANGED <<active, canceled>>
  BY DEF HandOver
<1> DEFINE w == waiters[k]
<1>a. /\ k \in 1..Len(waiters)
      /\ Len(waiters) \in Nat
      /\ w \in Waiting /\ w \in Calls
      /\ w \notin granted /\ w \notin canceled /\ w # c
  BY <1>0 DEF LivePositions, Skipped, WaitersReachable, Waiting, InAcquire, TypeOK
<1>b. /\ waiters' \in Seq(Calls)
      /\ Len(waiters') = Len(waiters) - k
      /\ \A i \in 1..(Len(waiters) - k) : waiters'[i] = waiters[k + i]
  BY <1>0, <1>a DEF TypeOK
<1>1. Waiting' = Waiting \ {w}
  BY <1>0, <1>a DEF Waiting, InAcquire, TypeOK
<1>2. Holders' = (Holders \ {c}) \cup {w} /\ c \in Holders /\ w \notin Holders
  BY <1>0, <1>a DEF Holders, Waiting, InAcquire, TypeOK
<1>3. pending >= 1
  <2>1. Cardinality(Waiting) # 0
    BY <1>a, SetsFinite, FS_EmptySet
  <2>2. QED BY <1>0, <2>1 DEF IInv, PendingCountsWaiters, Stats, TypeOK
<1>4. TypeOK'
  BY <1>0, <1>3, <1>a, <1>b DEF TypeOK, PCs
<1>5. Cardinality(Holders') = Cardinality(Holders)
  <2>1. /\ IsFiniteSet(Holders \ {c})
        /\ Cardinality(Holders \ {c}) = Cardinality(Holders) - 1
    BY <1>2, SetsFinite, FS_RemoveElement
  <2>2. Cardinality((Holders \ {c}) \cup {w}) = Cardinality(Holders \ {c}) + 1
    BY <1>2, <2>1, FS_AddElement
  <2>3. Cardinality(Holders) \in Nat
    BY SetsFinite, FS_CardinalityType
  <2>4. QED BY <1>2, <2>1, <2>2, <2>3
<1>6. ActiveCountsHolders'
  BY <1>5 DEF IInv, ActiveCountsHolders, Stats, limit
<1>7. PendingCountsWaiters'
  <2>1. Cardinality(Waiting') = Cardinality(Waiting) - 1
    BY <1>1, <1>a, SetsFinite, FS_RemoveElement
  <2>2. QED
    BY <1>0, <2>1, GateAssumption
       DEF IInv, PendingCountsWaiters, Stats, TypeOK
<1>8. NoIdleSlot'
  BY <1>0, <1>3 DEF IInv, NoIdleSlot, Stats, TypeOK, limit
<1>9. WaitersReachable'
  <2>1. \A d \in Waiting' : \E i \in LivePositions' : waiters'[i] = d
    <3> SUFFICES ASSUME NEW d \in Waiting'
                 PROVE  \E i \in LivePositions' : waiters'[i] = d
      OBVIOUS
    <3>1. PICK j \in LivePositions : waiters[j] = d
      BY <1>0, <1>1 DEF WaitersReachable
    <3>2. j \in (k + 1)..Len(waiters)
      BY <1>1, <1>a, <3>1 DEF LivePositions
    <3>3. j - k \in 1..(Len(waiters) - k) /\ waiters'[j - k] = d
      BY <1>a, <1>b, <3>1, <3>2
    <3>4. d \notin canceled' \cup granted'
      BY <1>1, <3>1 DEF LivePositions, Skipped
    <3>5. QED BY <1>b, <3>3, <3>4 DEF LivePositions, Skipped
  <2>2. \A i \in LivePositions' : waiters'[i] \in Waiting'
    <3> SUFFICES ASSUME NEW i \in LivePositions'
                 PROVE  waiters'[i] \in Waiting'
      OBVIOUS
    <3>1. /\ i \in 1..(Len(waiters) - k)
          /\ waiters'[i] \notin canceled' \cup granted'
      BY <1>b DEF LivePositions, Skipped
    <3>2. k + i \in LivePositions /\ waiters'[i] = waiters[k + i]
      BY <1>a, <1>b, <3>1 DEF LivePositions, Skipped
    <3>3. QED BY <1>0, <1>1, <3>1, <3>2 DEF WaitersReachable, Skipped
  <2>3. canceled' \cap Holders' = {}
    BY <1>0, <1>2, <1>a DEF WaitersReachable
  <2>4. QED BY <2>1, <2>2, <2>3 DEF WaitersReachable
<1>10. FlagsMatch'
  BY <1>0, <1>a DEF FlagsMatch, Waiting, InAcquire, TypeOK
<1>11. QED BY <1>4, <1>6, <1>7, <1>8, <1>9, <1>10 DEF IInv

\* A release that finds no live waiter: nobody waits, and the slot is freed.
LEMMA FreeSlotInvariant ==
  ASSUME IInv, NEW c \in Calls, pc[c] = "leased", FreeSlot,
         pc' = [pc EXCEPT ![c] = "released"], ctxDone' = ctxDone
  PROVE  IInv'
<1> USE DEF FreeSlot
<1>0. TypeOK /\ FlagsMatch /\ WaitersReachable
  BY DEF IInv
<1>1. Waiting = {} /\ Waiting' = {}
  BY <1>0 DEF WaitersReachable, Waiting, InAcquire, TypeOK
<1>2. Holders' = Holders \ {c} /\ c \in Holders
  BY <1>0 DEF Holders, InAcquire, TypeOK
<1>3. /\ Cardinality(Holders') = Cardinality(Holders) - 1
      /\ Cardinality(Holders) \in Nat
      /\ Cardinality(Holders) # 0
  BY <1>2, SetsFinite, FS_RemoveElement, FS_EmptySet, FS_CardinalityType
<1>4. active >= 1 /\ active' = active - 1
  BY <1>0, <1>3 DEF IInv, ActiveCountsHolders, Stats, TypeOK
<1>5. TypeOK'
  BY <1>0, <1>4 DEF TypeOK, PCs
<1>6. ActiveCountsHolders'
  BY <1>0, <1>3, <1>4, LimitPositive
     DEF IInv, ActiveCountsHolders, Stats, TypeOK, limit
<1>7. pending = 0
  BY <1>1, FS_EmptySet DEF IInv, PendingCountsWaiters, Stats
<1>8. PendingCountsWaiters' /\ NoIdleSlot'
  BY <1>1, <1>7 DEF IInv, PendingCountsWaiters, NoIdleSlot, Stats
<1>9. WaitersReachable'
  <2>1. LivePositions' = {}
    BY DEF LivePositions
  <2>2. QED BY <1>0, <1>1, <1>2, <2>1 DEF WaitersReachable
<1>10. FlagsMatch'
  BY <1>0 DEF FlagsMatch, TypeOK
<1>11. QED BY <1>5, <1>6, <1>8, <1>9, <1>10 DEF IInv

LEMMA ReleaseInvariant ==
  ASSUME IInv, NEW c \in Calls, Release(c)
  PROVE  IInv'
<1>0. TypeOK
  BY DEF IInv
<1>1. CASE pc[c] = "released"
  <2>1. UNCHANGED vars
    BY <1>0, <1>1 DEF Release, OnceDone, Goto, gate, vars, TypeOK
  <2>2. QED
    BY <2>1
       DEF vars, IInv, TypeOK, ActiveCountsHolders, PendingCountsWaiters,
           NoIdleSlot, WaitersReachable, FlagsMatch, Stats, Holders, Waiting,
           InAcquire, LivePositions, Skipped, limit
<1>2. CASE pc[c] = "leased"
  BY <1>2, HandOverInvariant, FreeSlotInvariant DEF Release, OnceDone, Goto
<1>3. QED BY <1>1, <1>2 DEF Release

\* The invariant is kept by every step of the gate.
LEMMA NextInvariant == IInv /\ [Next]_vars => IInv'
<1> SUFFICES ASSUME IInv, [Next]_vars PROVE IInv' OBVIOUS
<1>1. CASE UNCHANGED vars
  BY <1>1
     DEF vars, IInv, TypeOK, ActiveCountsHolders, PendingCountsWaiters,
         NoIdleSlot, WaitersReachable, FlagsMatch, Stats, Holders, Waiting,
         InAcquire, LivePositions, Skipped, limit
<1>2. ASSUME NEW c \in Calls, AcquireFast(c) PROVE IInv'
  BY <1>2, FastInvariant
<1>3. ASSUME NEW c \in Calls, AcquireFull(c) PROVE IInv'
  BY <1>3, FullInvariant
<1>4. ASSUME NEW c \in Calls, Enqueue(c) PROVE IInv'
  BY <1>4, EnqueueInvariant
<1>5. ASSUME NEW c \in Calls, WakeReady(c) \/ AbandonLate(c) PROVE IInv'
  BY <1>5, TakeLeaseInvariant
<1>6. ASSUME NEW c \in Calls, WakeDone(c) PROVE IInv'
  BY <1>6, WakeDoneInvariant
<1>7. ASSUME NEW c \in Calls, Abandon(c) PROVE IInv'
  BY <1>7, AbandonInvariant
<1>8. ASSUME NEW c \in Calls, Release(c) PROVE IInv'
  BY <1>8, ReleaseInvariant
<1>9. ASSUME NEW c \in Calls, CtxDone(c) PROVE IInv'
  BY <1>9, CtxDoneInvariant
<1>10. ASSUME NEW c \in Calls, NewCall(c) PROVE IInv'
  BY <1>10, NewCallInvariant
<1>11. QED
  BY <1>1, <1>2, <1>3, <1>4, <1>5, <1>6, <1>7, <1>8, <1>9, <1>10 DEF Next

THEOREM GateInvariant == Spec => []IInv
BY InitInvariant, NextInvariant, PTL DEF Spec

\* In every reachable state of every gate the variables have their types.
THEOREM GateTypeCorrect == Spec => []TypeOK
<1>1. IInv => TypeOK BY DEF IInv
<1>2. QED BY <1>1, GateInvariant, PTL

\* No schedule of acquires, cancellations and releases loses a slot or hands one out
\* twice, and none leaves a dead waiter in the count that decides about ErrQueueFull.
THEOREM GateCounters == Spec => []CountersMatch
<1>1. IInv => CountersMatch
  BY DEF IInv, CountersMatch
<1>2. QED
  BY <1>1, GateInvariant, PTL

\* A slot is never left free while a call waits.
THEOREM GateNoIdleSlot == Spec => []NoIdleSlot
<1>1. IInv => NoIdleSlot BY DEF IInv
<1>2. QED BY <1>1, GateInvariant, PTL

\* release() finds every waiting call, and gives no slot to one that left.
THEOREM GateWaitersReachable == Spec => []WaitersReachable
<1>1. IInv => WaitersReachable BY DEF IInv
<1>2. QED BY <1>1, GateInvariant, PTL

-----------------------------------------------------------------------------
(* The gate implements FifoSlots.                                            *)

\* No waiting call is twice in the slice, so its place in line is one place.
LiveOnce == \A i, j \in LivePositions : waiters[i] = waiters[j] => i = j

Line == [c \in Waiting |-> Ahead(c)]

\* A step that changes neither the line nor the holders is none of FifoSlots.
LEMMA NoStep ==
  ASSUME Holders' = Holders, Waiting' = Waiting, LivePositions' = LivePositions,
         \A i \in LivePositions : waiters'[i] = waiters[i]
  PROVE  /\ UNCHANGED <<Holders, Line>>
         /\ LiveOnce => LiveOnce'
<1>1. \A c \in Waiting : Ahead(c)' = Ahead(c)
  BY DEF Ahead
<1>2. Line' = Line
  BY <1>1 DEF Line
<1>3. LiveOnce => LiveOnce'
  BY DEF LiveOnce
<1>4. QED BY <1>2, <1>3

\* FifoSlots counts as the gate does.
LEMMA SameCount == Slots!Cardinality(Holders) = Cardinality(Holders)
BY DEF Slots!Cardinality, Cardinality

\* What a step of the gate is to its users.
LineStep == Slots!Next \/ UNCHANGED <<Holders, Line>>

LEMMA FastFifo ==
  ASSUME IInv, LiveOnce, NEW c \in Calls, AcquireFast(c)
  PROVE  LineStep /\ LiveOnce'
<1>0. TypeOK /\ FlagsMatch
  BY DEF IInv
<1>1. /\ Holders' = Holders \cup {c} /\ c \notin Holders /\ c \notin Waiting
      /\ Waiting' = Waiting /\ LivePositions' = LivePositions
      /\ UNCHANGED waiters
  BY <1>0 DEF AcquireFast, Goto, Holders, Waiting, InAcquire, LivePositions, Skipped,
     TypeOK
<1>2. Waiting = {} /\ Cardinality(Holders) < limit
  <2>1. pending = 0 /\ active < limit
    BY DEF AcquireFast, SlotFree
  <2>2. Cardinality(Waiting) = 0 /\ Cardinality(Holders) < limit
    BY <2>1 DEF IInv, ActiveCountsHolders, PendingCountsWaiters, Stats
  <2>3. QED BY <2>2, SetsFinite, FS_EmptySet
<1>3. \A d \in Waiting : Ahead(d)' = Ahead(d)
  BY <1>1 DEF Ahead
<1>4. Line' = Line
  BY <1>1, <1>3 DEF Line
<1>5. Slots!Enter(c)
  BY <1>1, <1>2, <1>4, SameCount DEF Slots!Enter, Slots!line, Line
<1>6. LiveOnce'
  BY <1>1 DEF LiveOnce
<1>7. QED BY <1>5, <1>6 DEF LineStep, Slots!Next

LEMMA EnqueueFifo ==
  ASSUME IInv, LiveOnce, NEW c \in Calls, Enqueue(c)
  PROVE  LineStep /\ LiveOnce'
<1>0. TypeOK /\ FlagsMatch /\ WaitersReachable
  BY DEF IInv
<1>1. /\ Len(waiters) \in Nat
      /\ \A i \in 1..Len(waiters) : waiters'[i] = waiters[i]
      /\ waiters'[Len(waiters) + 1] = c
      /\ Len(waiters') = Len(waiters) + 1
  BY <1>0 DEF Enqueue, TypeOK
<1>2. /\ Holders' = Holders /\ c \notin Holders
      /\ Waiting' = Waiting \cup {c} /\ c \notin Waiting
      /\ c \notin granted /\ c \notin canceled
  BY <1>0 DEF Enqueue, Goto, Holders, Waiting, InAcquire, FlagsMatch, TypeOK
<1>3. LivePositions' = LivePositions \cup {Len(waiters) + 1}
  BY <1>1, <1>2 DEF Enqueue, LivePositions, Skipped
<1>4. LivePositions \subseteq 1..Len(waiters)
  BY DEF LivePositions
<1>5. Cardinality(Holders) = limit
  BY <1>0, LimitPositive
     DEF Enqueue, SlotFree, IInv, NoIdleSlot, ActiveCountsHolders, Stats, TypeOK
<1>6. \A i \in LivePositions : waiters[i] \in Waiting
  BY <1>0 DEF WaitersReachable
<1>7. Ahead(c)' = Waiting
  <2>1. ASSUME NEW d \in Waiting PROVE d \in Ahead(c)'
    <3>1. PICK i \in LivePositions : waiters[i] = d
      BY <1>0 DEF WaitersReachable
    <3>2. i \in LivePositions' /\ Len(waiters) + 1 \in LivePositions'
          /\ i < Len(waiters) + 1 /\ waiters'[i] = d
      BY <1>1, <1>3, <1>4, <3>1
    <3>3. QED BY <1>1, <1>2, <3>2 DEF Ahead
  <2>2. ASSUME NEW d \in Ahead(c)' PROVE d \in Waiting
    <3>1. PICK i \in LivePositions', j \in LivePositions' : i < j /\ waiters'[i] = d
      BY <2>2 DEF Ahead
    <3>2. i \in LivePositions
      BY <1>1, <1>3, <1>4, <3>1
    <3>3. QED BY <1>1, <1>4, <1>6, <3>1, <3>2
  <2>3. QED BY <2>1, <2>2
<1>8. ASSUME NEW d \in Waiting PROVE Ahead(d)' = Ahead(d)
  <2>1. ASSUME NEW e \in Ahead(d)' PROVE e \in Ahead(d)
    <3>1. PICK i \in LivePositions', j \in LivePositions' :
            i < j /\ waiters'[i] = e /\ waiters'[j] = d
      BY <2>1 DEF Ahead
    <3>2. j \in LivePositions
      BY <1>1, <1>2, <1>3, <3>1
    <3>3. i \in LivePositions
      BY <1>1, <1>3, <1>4, <3>1, <3>2
    <3>4. waiters[i] = e /\ waiters[j] = d /\ e \in Waiting
      BY <1>1, <1>4, <1>6, <3>1, <3>2, <3>3
    <3>5. QED BY <3>1, <3>2, <3>3, <3>4 DEF Ahead
  <2>2. ASSUME NEW e \in Ahead(d) PROVE e \in Ahead(d)'
    BY <1>1, <1>2, <1>3, <1>4, <2>2 DEF Ahead
  <2>3. QED BY <2>1, <2>2
<1>9. Line' = [d \in Waiting \cup {c} |-> IF d = c THEN Waiting ELSE Line[d]]
  BY <1>2, <1>7, <1>8 DEF Line
<1>10. Slots!Join(c)
  BY <1>2, <1>5, <1>9, SameCount DEF Slots!Join, Slots!line, Line
<1>11. LiveOnce'
  <2>1. \A i \in LivePositions : waiters'[i] # c /\ i # Len(waiters) + 1
    BY <1>1, <1>2, <1>4, <1>6
  <2>2. QED BY <1>1, <1>3, <1>4, <2>1 DEF LiveOnce
<1>12. QED BY <1>10, <1>11 DEF LineStep, Slots!Next

LEMMA AbandonFifo ==
  ASSUME IInv, LiveOnce, NEW c \in Calls, Abandon(c)
  PROVE  LineStep /\ LiveOnce'
<1>0. TypeOK /\ FlagsMatch /\ WaitersReachable
  BY DEF IInv
<1>1. /\ UNCHANGED waiters /\ Holders' = Holders
      /\ Waiting' = Waiting \ {c} /\ c \in Waiting
  BY <1>0 DEF Abandon, Goto, Holders, Waiting, InAcquire, TypeOK
<1>2. LivePositions' = {i \in LivePositions : waiters[i] # c}
  BY DEF Abandon, LivePositions, Skipped
<1>3. ASSUME NEW d \in Waiting \ {c} PROVE Ahead(d)' = Ahead(d) \ {c}
  BY <1>1, <1>2 DEF Ahead
<1>4. Line' = [d \in Waiting \ {c} |-> Line[d] \ {c}]
  BY <1>1, <1>3 DEF Line
<1>5. Slots!Leave(c)
  BY <1>1, <1>4 DEF Slots!Leave, Slots!Without, Slots!line, Line
<1>6. LiveOnce'
  BY <1>1, <1>2 DEF LiveOnce
<1>7. QED BY <1>5, <1>6 DEF LineStep, Slots!Next

LEMMA HandOverFifo ==
  ASSUME IInv, LiveOnce, NEW c \in Calls, pc[c] = "leased", HandOver,
         pc' = [pc EXCEPT ![c] = "released"], ctxDone' = ctxDone
  PROVE  LineStep /\ LiveOnce'
<1>0. TypeOK /\ FlagsMatch /\ WaitersReachable
  BY DEF IInv
<1> PICK k \in LivePositions :
      /\ \A i \in LivePositions : k <= i
      /\ waiters' = SubSeq(waiters, k + 1, Len(waiters))
      /\ granted' = granted \cup {waiters[k]}
      /\ UNCHANGED canceled
  BY DEF HandOver
<1> DEFINE w == waiters[k]
<1>a. /\ k \in 1..Len(waiters) /\ Len(waiters) \in Nat
      /\ w \in Waiting /\ w \in Calls
      /\ w \notin granted /\ w \notin canceled /\ w # c
  BY <1>0 DEF LivePositions, Skipped, WaitersReachable, Waiting, InAcquire, TypeOK
<1>b. /\ Len(waiters') = Len(waiters) - k
      /\ \A i \in 1..(Len(waiters) - k) : waiters'[i] = waiters[k + i]
  BY <1>0, <1>a DEF TypeOK
<1>1. Waiting' = Waiting \ {w}
  BY <1>0, <1>a DEF Waiting, InAcquire, TypeOK
<1>2. Holders' = (Holders \ {c}) \cup {w} /\ c \in Holders
  BY <1>0, <1>a DEF Holders, Waiting, InAcquire, TypeOK
<1>3. ASSUME NEW i \in LivePositions, waiters[i] # w
      PROVE  i - k \in LivePositions' /\ waiters'[i - k] = waiters[i]
  <2>1. i \in (k + 1)..Len(waiters) /\ ~Skipped(waiters[i])
    BY <1>a, <1>3 DEF LivePositions
  <2>2. i - k \in 1..(Len(waiters) - k) /\ k + (i - k) = i
    BY <1>a, <2>1
  <2>3. waiters'[i - k] = waiters[i]
    BY <1>b, <2>2
  <2>4. QED BY <1>3, <1>b, <2>1, <2>2, <2>3 DEF LivePositions, Skipped
<1>4. ASSUME NEW i \in LivePositions'
      PROVE  /\ k + i \in LivePositions /\ waiters'[i] = waiters[k + i]
             /\ i \in Int /\ waiters[k + i] # w
  <2>1. i \in 1..(Len(waiters) - k) /\ waiters'[i] \notin canceled \cup granted \cup {w}
    BY <1>b, <1>4 DEF LivePositions, Skipped
  <2>2. k + i \in 1..Len(waiters) /\ waiters'[i] = waiters[k + i]
    BY SMTT(30), <1>a, <1>b, <2>1
  <2>3. QED BY <2>1, <2>2 DEF LivePositions, Skipped
<1>5. LivePositions \subseteq Int
  BY DEF LivePositions
<1>6. Ahead(w) = {}
  BY <1>5 DEF Ahead, LiveOnce
<1>7. ASSUME NEW d \in Waiting \ {w} PROVE Ahead(d)' = Ahead(d) \ {w}
  <2>1. ASSUME NEW e \in Ahead(d)' PROVE e \in Ahead(d) \ {w}
    <3>1. PICK i \in LivePositions', j \in LivePositions' :
            i < j /\ waiters'[i] = e /\ waiters'[j] = d
      BY <2>1 DEF Ahead
    <3>2. /\ k + i \in LivePositions /\ k + j \in LivePositions /\ k + i < k + j
          /\ waiters[k + i] = e /\ waiters[k + j] = d /\ e # w
      <4>1. /\ k + i \in LivePositions /\ i \in Int
            /\ waiters[k + i] = e /\ waiters[k + i] # w
        BY <1>4, <3>1
      <4>2. k + j \in LivePositions /\ j \in Int /\ waiters[k + j] = d
        BY <1>4, <3>1
      <4>3. k + i < k + j
        BY <1>a, <3>1, <4>1, <4>2
      <4>4. QED BY <4>1, <4>2, <4>3
    <3>3. e \in Waiting
      BY <1>0, <3>2 DEF WaitersReachable
    <3>4. QED BY <3>2, <3>3 DEF Ahead
  <2>2. ASSUME NEW e \in Ahead(d) \ {w} PROVE e \in Ahead(d)'
    <3>1. PICK i \in LivePositions, j \in LivePositions :
            i < j /\ waiters[i] = e /\ waiters[j] = d
      BY <2>2 DEF Ahead
    <3>2. /\ i - k \in LivePositions' /\ j - k \in LivePositions' /\ i - k < j - k
          /\ waiters'[i - k] = e /\ waiters'[j - k] = d
      <4>1. waiters[i] # w /\ waiters[j] # w
        BY <1>7, <2>2, <3>1
      <4>2. i \in Int /\ j \in Int /\ i - k < j - k
        BY <1>5, <1>a, <3>1
      <4>3. QED BY <1>3, <3>1, <4>1, <4>2
    <3>3. e \in Waiting'
      BY <1>1, <2>2 DEF Ahead
    <3>4. QED BY <3>2, <3>3 DEF Ahead
  <2>3. QED BY <2>1, <2>2
<1>8. Line' = [d \in Waiting \ {w} |-> Line[d] \ {w}]
  BY <1>1, <1>7 DEF Line
<1>9. Slots!Pass(c, w)
  BY <1>2, <1>6, <1>8, <1>a DEF Slots!Pass, Slots!Without, Slots!line, Line
<1>10. LiveOnce'
  <2> SUFFICES ASSUME NEW i \in LivePositions', NEW j \in LivePositions',
                      waiters'[i] = waiters'[j]
               PROVE  i = j
    BY DEF LiveOnce
  <2>1. k + i = k + j
    BY ZenonT(30), <1>4 DEF LiveOnce
  <2>2. QED BY <1>4, <1>a, <2>1
<1>11. QED BY <1>9, <1>10, <1>a DEF LineStep, Slots!Next

LEMMA FreeSlotFifo ==
  ASSUME IInv, LiveOnce, NEW c \in Calls, pc[c] = "leased", FreeSlot,
         pc' = [pc EXCEPT ![c] = "released"], ctxDone' = ctxDone
  PROVE  LineStep /\ LiveOnce'
<1>0. TypeOK /\ WaitersReachable
  BY DEF IInv
<1>1. Waiting = {} /\ Waiting' = {}
  BY <1>0 DEF FreeSlot, WaitersReachable, Waiting, InAcquire, TypeOK
<1>2. Holders' = Holders \ {c} /\ c \in Holders
  BY <1>0 DEF FreeSlot, Holders, InAcquire, TypeOK
<1>3. Line' = Line
  BY <1>1 DEF Line
<1>4. Slots!Free(c)
  BY <1>1, <1>2, <1>3 DEF Slots!Free, Slots!line, Line
<1>5. LivePositions' = {}
  BY DEF FreeSlot, LivePositions
<1>6. QED BY <1>4, <1>5 DEF LineStep, Slots!Next, LiveOnce

\* Every other step leaves line and holders as they are.
LEMMA QuietFifo ==
  ASSUME IInv, LiveOnce, NEW c \in Calls,
         \/ AcquireFull(c) \/ WakeReady(c) \/ WakeDone(c) \/ AbandonLate(c)
         \/ CtxDone(c) \/ NewCall(c)
  PROVE  LineStep /\ LiveOnce'
<1>0. TypeOK /\ FlagsMatch
  BY DEF IInv
<1>1. CASE NewCall(c)
  <2>1. LivePositions' = LivePositions /\ UNCHANGED waiters
    BY <1>1 DEF NewCall, LivePositions, Skipped
  <2>2. Holders' = Holders /\ Waiting' = Waiting
    BY <1>0, <1>1 DEF NewCall, Goto, Holders, Waiting, InAcquire, TypeOK
  <2>3. QED BY <2>1, <2>2, NoStep DEF LineStep
<1>2. CASE ~NewCall(c)
  <2>1. /\ UNCHANGED <<waiters, granted, canceled>>
        /\ LivePositions' = LivePositions
    BY <1>2 DEF AcquireFull, WakeReady, WakeDone, AbandonLate, CtxDone, gate,
       LivePositions, Skipped
  <2>2. Holders' = Holders /\ Waiting' = Waiting
    BY <1>0, <1>2, <2>1 DEF AcquireFull, WakeReady, WakeDone, AbandonLate, CtxDone, Goto,
       Holders, Waiting, InAcquire, TypeOK
  <2>3. QED BY <2>1, <2>2, NoStep DEF LineStep
<1>3. QED BY <1>1, <1>2

LEMMA StepFifo == IInv /\ LiveOnce /\ [Next]_vars => LineStep /\ LiveOnce'
<1> SUFFICES ASSUME IInv, LiveOnce, [Next]_vars PROVE LineStep /\ LiveOnce'
  OBVIOUS
<1>1. ASSUME UNCHANGED vars PROVE LineStep /\ LiveOnce'
  <2>1. /\ Holders' = Holders /\ Waiting' = Waiting /\ LivePositions' = LivePositions
        /\ UNCHANGED waiters
    BY <1>1 DEF vars, Holders, Waiting, InAcquire, LivePositions, Skipped
  <2>2. QED BY <2>1, NoStep DEF LineStep
<1>2. ASSUME NEW c \in Calls, Release(c) PROVE LineStep /\ LiveOnce'
  <2>1. CASE pc[c] = "released"
    <3>1. UNCHANGED vars
      BY <1>2, <2>1 DEF Release, OnceDone, Goto, gate, vars, IInv, TypeOK
    <3>2. QED BY <1>1, <3>1
  <2>2. CASE pc[c] = "leased"
    BY <1>2, <2>2, HandOverFifo, FreeSlotFifo DEF Release, OnceDone, Goto
  <2>3. QED BY <1>2, <2>1, <2>2 DEF Release
<1>3. ASSUME NEW c \in Calls,
             \/ AcquireFull(c) \/ WakeReady(c) \/ WakeDone(c) \/ AbandonLate(c)
             \/ CtxDone(c) \/ NewCall(c)
      PROVE  LineStep /\ LiveOnce'
  BY <1>3, QuietFifo
<1>4. ASSUME NEW c \in Calls, AcquireFast(c) \/ Enqueue(c) \/ Abandon(c)
      PROVE  LineStep /\ LiveOnce'
  BY <1>4, FastFifo, EnqueueFifo, AbandonFifo
<1>5. QED BY <1>1, <1>2, <1>3, <1>4 DEF Next

\* The gate is a line in which a slot goes to the call nobody stands ahead of, for any
\* number of calls, any limit and any bound, through all cancellations and hand-overs.
THEOREM GateFifo == Spec => GateIsFifoSlots
<1>1. Init => Slots!Init /\ LiveOnce
  <2> SUFFICES ASSUME Init PROVE Slots!Init /\ LiveOnce OBVIOUS
  <2>1. Holders = {} /\ Waiting = {} /\ LivePositions = {}
    BY DEF Init, Holders, Waiting, InAcquire, LivePositions
  <2>2. QED BY <2>1 DEF Slots!Init, LiveOnce
<1>2. IInv /\ LiveOnce /\ [Next]_vars =>
        [Slots!Next]_<<Holders, Line>> /\ LiveOnce'
  BY StepFifo DEF LineStep
<1>3. Spec => Slots!Init /\ [][Slots!Next]_<<Holders, Line>>
  BY <1>1, <1>2, GateInvariant, PTL DEF Spec
<1>4. QED BY <1>3, PTL DEF GateIsFifoSlots, Slots!Spec, Line

=============================================================================
