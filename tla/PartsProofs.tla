------------------------------ MODULE PartsProofs ------------------------------
(***************************************************************************)
(* Theorems about the three components that share nothing.                 *)
(*                                                                         *)
(* The blob store, which collects what has expired only when it is called, *)
(* implements PromptCache, from which blobs disappear by themselves: for   *)
(* any ids and any times to live, negative ones included.                  *)
(*                                                                         *)
(* The image poll forgets nothing it was shown, ends within its bound and  *)
(* waits as long as it has to: for any references and any durations.       *)
(*                                                                         *)
(* The event stream loses, doubles and reorders nothing: for any body, any *)
(* size of the channel and any place of a cut.                             *)
(***************************************************************************)
EXTENDS BlobStore, SseStream, Poll, FiniteSetTheorems, SequenceTheorems,
        WellFoundedInduction, TLAPS

\* The value that the refinement mapping gives to PromptCache's variable.
until == [i \in Available |-> items[i]]

LEMMA TypeInit == Init => TypeOK
BY BlobAssumption DEF Init, TypeOK, Kept

LEMMA TypeStep == TypeOK /\ [Next]_vars => TypeOK'
<1>. SUFFICES ASSUME TypeOK, [Next]_vars PROVE TypeOK'
  OBVIOUS
<1>. USE BlobAssumption DEF TypeOK, Kept
<1>1. CASE Tick
  BY <1>1 DEF Tick
<1>2. ASSUME NEW d \in TTLs, SetTTL(d) PROVE TypeOK'
  BY <1>2 DEF SetTTL, gc
<1>3. ASSUME NEW i \in Ids, Put(i) PROVE TypeOK'
  <2>1. now + ttl \in Int
    OBVIOUS
  <2>2. QED
    BY <1>3, <2>1 DEF Put, gc
<1>4. ASSUME NEW i \in Ids, Get(i) PROVE TypeOK'
  BY <1>4 DEF Get, gc
<1>5. CASE UNCHANGED vars
  BY <1>5 DEF vars
<1>6. QED
  BY <1>1, <1>2, <1>3, <1>4, <1>5 DEF Next

\* Every state of the blob store has its type.
THEOREM BlobTypeCorrect == Spec => []TypeOK
BY TypeInit, TypeStep, PTL DEF Spec

-----------------------------------------------------------------------------

\* Collecting changes nothing that a client can see.
LEMMA CollectUnseen ==
  ASSUME items' = gc, now' = now
  PROVE  Available' = Available /\ until' = until
<1>1. Available' = Available
  BY DEF Available, Kept, Expired, gc
<1>2. \A i \in Available : items'[i] = items[i]
  BY DEF Available, Kept, Expired, gc
<1>3. QED
  BY <1>1, <1>2 DEF until

LEMMA FoundIffAvailable == DOMAIN gc = Available
BY DEF Available, Kept, gc

LEMMA PromptInit == Init => Prompt!Init
<1>. SUFFICES ASSUME Init PROVE Prompt!Init
  OBVIOUS
<1>1. Available = {}
  BY DEF Init, Available, Kept
<1>2. until = [i \in {} |-> 0]
  BY <1>1 DEF until
<1>3. QED
  BY <1>2 DEF Init, Prompt!Init, until

LEMMA PromptPut ==
  ASSUME TypeOK, NEW i \in Ids, Put(i)
  PROVE  Prompt!Put(i)
<1>1. i \notin Available /\ i \notin Kept
  BY DEF TypeOK, Put, Available
<1>2. Available' = {k \in Available \cup {i} : k # i \/ ttl >= 0}
  <2>1. Kept' = Available \cup {i} /\ now' = now
    BY FoundIffAvailable DEF Put, Kept
  <2>2. \A k \in Available : items'[k] = items[k] /\ ~Expired(k)'
    BY <1>1, FoundIffAvailable DEF Put, Available, Expired
  <2>3. items'[i] = now + ttl
    BY DEF Put
  <2>4. Expired(i)' <=> ttl < 0
    BY <2>1, <2>3, BlobAssumption DEF Expired, TypeOK
  <2>5. ttl \in Int
    BY BlobAssumption DEF TypeOK
  <2>6. QED
    BY <1>1, <2>1, <2>2, <2>4, <2>5 DEF Available
<1>3. until' = [k \in {l \in Available \cup {i} : l # i \/ ttl >= 0} |->
                  IF k = i THEN now + ttl ELSE until[k]]
  <2>1. \A k \in Available' : items'[k] = IF k = i THEN now + ttl ELSE until[k]
    BY <1>1, <1>2, FoundIffAvailable DEF Put, until
  <2>2. QED
    BY <1>2, <2>1 DEF until
<1>4. QED
  BY <1>1, <1>3 DEF Put, Prompt!Put, Prompt!There, until

LEMMA PromptGet ==
  ASSUME TypeOK, NEW i \in Ids, Get(i)
  PROVE  Prompt!Get(i)
BY CollectUnseen, FoundIffAvailable DEF Get, Prompt!Get, Prompt!There, until

LEMMA PromptSetTTL ==
  ASSUME TypeOK, NEW d \in TTLs, SetTTL(d)
  PROVE  Prompt!SetTTL
BY CollectUnseen DEF SetTTL, Prompt!SetTTL, until

LEMMA PromptTick ==
  ASSUME TypeOK, Tick
  PROVE  Prompt!Tick
<1>1. Available' = {j \in Available : until[j] >= now + 1}
  BY BlobAssumption DEF TypeOK, Tick, Available, Kept, Expired, until
<1>2. until' = [i \in {j \in Available : until[j] >= now + 1} |-> until[i]]
  BY <1>1 DEF Tick, until
<1>3. QED
  BY <1>2 DEF Tick, Prompt!Tick, Prompt!There, until

LEMMA PromptStep == TypeOK /\ [Next]_vars => [Prompt!Next]_Prompt!vars
<1>. SUFFICES ASSUME TypeOK, [Next]_vars PROVE [Prompt!Next]_Prompt!vars
  OBVIOUS
<1>1. CASE Tick
  BY <1>1, PromptTick DEF Prompt!Next
<1>2. ASSUME NEW d \in TTLs, SetTTL(d) PROVE Prompt!Next
  BY <1>2, PromptSetTTL DEF Prompt!Next
<1>3. ASSUME NEW i \in Ids, Put(i) \/ Get(i) PROVE Prompt!Next
  BY <1>3, PromptPut, PromptGet DEF Prompt!Next
<1>4. CASE UNCHANGED vars
  BY <1>4 DEF vars, Prompt!vars, Available, Kept, Expired
<1>5. QED
  BY <1>1, <1>2, <1>3, <1>4 DEF Next

\* Collecting late cannot be seen: every behaviour of the store is one of a store
\* that drops each blob by itself when its own time to live is over.
THEOREM BlobIsPrompt == Spec => LazyIsPrompt
<1>1. Spec => []TypeOK
  BY BlobTypeCorrect
<1>2. QED
  BY <1>1, PromptInit, PromptStep, PTL DEF Spec, LazyIsPrompt, Prompt!Spec

-----------------------------------------------------------------------------
(* The image poll                                                            *)

\* Every state of the poll has its type.
PollTypeOK ==
  /\ requireFile \in BOOLEAN
  /\ clock \in Nat /\ wake \in Nat /\ answered \in Nat
  /\ ctx \in {"live", "deadline", "canceled"}
  /\ at \in {"top", "calling", "sleeping", "returned"}
  /\ status \in {"none", "success", "timeout", "error"}
  /\ shown \in SUBSET Refs /\ all \in SUBSET Refs
  /\ rate \in Nat /\ last429 \in Nat

\* A backoff is a time, at most the cap, and does not get shorter.
LEMMA BackoffTime ==
  ASSUME NEW k \in Nat
  PROVE  Backoff(k) \in Nat /\ Backoff(k) <= BackoffCap
<1>1. k * BackoffStep \in Nat
  BY PollAssumption
<1>2. QED
  BY <1>1, PollAssumption DEF Backoff

LEMMA BackoffGrows ==
  ASSUME NEW k \in Nat, NEW l \in Nat, k <= l
  PROVE  Backoff(k) <= Backoff(l)
<1>1. k * BackoffStep \in Nat /\ l * BackoffStep \in Nat
  BY PollAssumption
<1>2. k * BackoffStep <= l * BackoffStep
  <2>. DEFINE d == l - k
  <2>1. d \in Nat /\ l = k + d
    OBVIOUS
  <2>2. d * BackoffStep \in Nat
    BY <2>1, PollAssumption
  <2>3. (k + d) * BackoffStep = k * BackoffStep + d * BackoffStep
    BY <2>1, PollAssumption
  <2>4. QED
    BY <1>1, <2>1, <2>2, <2>3
<1>3. QED
  BY <1>1, <1>2, PollAssumption DEF Backoff

\* Where the clock may be in each place of the loop.
InTime ==
  LET last == MaxWait + CallMax
  IN  /\ at = "top" => clock < last + Longest(Interval, BackoffCap)
      /\ at = "calling" => clock <= wake /\ wake < last
      /\ at = "sleeping" =>
           clock <= wake /\ wake < last + Longest(Interval, BackoffCap)

\* While the context lives, a sleep lasts as long as the answers before it ask for.
\* The count in the code does not start again after another error: it is at
\* least the number of 429 at the end.
WaitsOut ==
  /\ answered <= clock
  /\ last429 <= rate
  /\ at = "sleeping" => wake >= answered + Backoff(last429)
  /\ at = "top" /\ ctx = "live" => clock >= answered + Backoff(last429)

\* Nothing that was shown is forgotten; what a status says.
Remembers ==
  /\ all = shown \ Ignored
  /\ at = "returned" =>
       /\ status = "success" <=> Usable(all) # {}
       /\ status = "timeout" => clock >= MaxWait \/ ctx = "deadline"
       /\ status = "error" => ctx = "canceled"

PollInv == PollTypeOK /\ InTime /\ WaitsOut /\ Remembers

LEMMA PollInvInit == PollInit => PollInv
<1>. SUFFICES ASSUME PollInit PROVE PollInv
  OBVIOUS
<1>. USE PollAssumption DEF PollInit
<1>1. PollTypeOK
  BY DEF PollTypeOK
<1>2. InTime
  BY DEF InTime, Longest
<1>3. WaitsOut
  BY DEF WaitsOut, Backoff
<1>4. Remembers
  BY DEF Remembers
<1>5. QED
  BY <1>1, <1>2, <1>3, <1>4 DEF PollInv

LEMMA PollTypeStep == PollTypeOK /\ [PollNext]_pollVars => PollTypeOK'
<1>. SUFFICES ASSUME PollTypeOK, [PollNext]_pollVars PROVE PollTypeOK'
  OBVIOUS
<1>. USE PollAssumption DEF PollTypeOK, history
<1>1. CASE EndByTime
  BY <1>1 DEF EndByTime, Return
<1>2. CASE EndByCtx
  BY <1>2 DEF EndByCtx, Return, StatusByCtx
<1>3. CASE Call
  BY <1>3 DEF Call
<1>4. CASE WakeUp
  BY <1>4 DEF WakeUp
<1>5. CASE Answer429
  <2>1. rate + 1 \in Nat
    OBVIOUS
  <2>2. QED
    BY <1>5, <2>1, BackoffTime DEF Answer429, Answered, Sleep
<1>6. CASE AnswerError
  BY <1>6 DEF AnswerError, Answered, Sleep
<1>7. ASSUME NEW S \in SUBSET Refs, AnswerMapping(S) PROVE PollTypeOK'
  BY <1>7 DEF AnswerMapping, Answered, Sleep, Gather
<1>8. CASE CtxDone
  BY <1>8 DEF CtxDone
<1>9. CASE TimePasses
  BY <1>9 DEF TimePasses
<1>10. CASE UNCHANGED pollVars
  BY <1>10 DEF pollVars
<1>11. QED
  BY <1>1, <1>2, <1>3, <1>4, <1>5, <1>6, <1>7, <1>8, <1>9, <1>10
     DEF PollNext, Proceed, Answer

LEMMA LongestBounds ==
  /\ Longest(Interval, BackoffCap) \in Nat
  /\ Interval <= Longest(Interval, BackoffCap)
  /\ BackoffCap <= Longest(Interval, BackoffCap)
BY PollAssumption DEF Longest

LEMMA InTimeStep == PollTypeOK /\ InTime /\ [PollNext]_pollVars => InTime'
<1>. SUFFICES ASSUME PollTypeOK, InTime, [PollNext]_pollVars PROVE InTime'
  OBVIOUS
<1>. USE PollAssumption, LongestBounds DEF PollTypeOK, InTime, history
<1>1. CASE EndByTime
  BY <1>1 DEF EndByTime, Return
<1>2. CASE EndByCtx
  BY <1>2 DEF EndByCtx, Return
<1>3. CASE Call
  BY <1>3 DEF Call
<1>4. CASE WakeUp
  BY <1>4 DEF WakeUp
<1>5. CASE Answer429
  <2>1. rate + 1 \in Nat
    OBVIOUS
  <2>2. Backoff(rate + 1) \in Nat /\ Backoff(rate + 1) <= BackoffCap
    BY <2>1, BackoffTime
  <2>3. QED
    BY <1>5, <2>2 DEF Answer429, Answered, Sleep
<1>6. CASE AnswerError
  BY <1>6 DEF AnswerError, Answered, Sleep
<1>7. ASSUME NEW S \in SUBSET Refs, AnswerMapping(S) PROVE InTime'
  BY <1>7 DEF AnswerMapping, Answered, Sleep
<1>8. CASE CtxDone
  BY <1>8 DEF CtxDone
<1>9. CASE TimePasses
  BY <1>9 DEF TimePasses
<1>10. CASE UNCHANGED pollVars
  BY <1>10 DEF pollVars
<1>11. QED
  BY <1>1, <1>2, <1>3, <1>4, <1>5, <1>6, <1>7, <1>8, <1>9, <1>10
     DEF PollNext, Proceed, Answer

LEMMA WaitsOutStep == PollTypeOK /\ WaitsOut /\ [PollNext]_pollVars => WaitsOut'
<1>. SUFFICES ASSUME PollTypeOK, WaitsOut, [PollNext]_pollVars PROVE WaitsOut'
  OBVIOUS
<1>0. Backoff(last429) \in Nat /\ Backoff(0) = 0
  <2>1. 0 * BackoffStep = 0
    BY PollAssumption
  <2>2. Backoff(0) = 0
    BY <2>1, PollAssumption DEF Backoff
  <2>3. QED
    BY <2>2, BackoffTime DEF PollTypeOK
<1>. USE PollAssumption, <1>0 DEF PollTypeOK, WaitsOut, history
<1>1. CASE EndByTime
  BY <1>1 DEF EndByTime, Return
<1>2. CASE EndByCtx
  BY <1>2 DEF EndByCtx, Return
<1>3. CASE Call
  BY <1>3 DEF Call
<1>4. CASE WakeUp
  BY <1>4 DEF WakeUp, Awake
<1>5. CASE Answer429
  <2>1. rate + 1 \in Nat /\ last429 + 1 \in Nat /\ last429 + 1 <= rate + 1
    OBVIOUS
  <2>2. /\ Backoff(rate + 1) \in Nat /\ Backoff(last429 + 1) \in Nat
        /\ Backoff(last429 + 1) <= Backoff(rate + 1)
    BY <2>1, BackoffTime, BackoffGrows
  <2>3. QED
    BY <1>5, <2>1, <2>2 DEF Answer429, Answered, Sleep
<1>6. CASE AnswerError
  BY <1>6 DEF AnswerError, Answered, Sleep
<1>7. ASSUME NEW S \in SUBSET Refs, AnswerMapping(S) PROVE WaitsOut'
  BY <1>7 DEF AnswerMapping, Answered, Sleep
<1>8. CASE CtxDone
  BY <1>8 DEF CtxDone
<1>9. CASE TimePasses
  BY <1>9 DEF TimePasses
<1>10. CASE UNCHANGED pollVars
  BY <1>10 DEF pollVars
<1>11. QED
  BY <1>1, <1>2, <1>3, <1>4, <1>5, <1>6, <1>7, <1>8, <1>9, <1>10
     DEF PollNext, Proceed, Answer

LEMMA RemembersStep == PollTypeOK /\ Remembers /\ [PollNext]_pollVars => Remembers'
<1>. SUFFICES ASSUME PollTypeOK, Remembers, [PollNext]_pollVars PROVE Remembers'
  OBVIOUS
<1>. USE PollAssumption DEF PollTypeOK, Remembers, history
<1>1. CASE EndByTime
  BY <1>1 DEF EndByTime, Return, Usable
<1>2. CASE EndByCtx
  BY <1>2 DEF EndByCtx, Return, StatusByCtx, Usable
<1>3. CASE Call
  BY <1>3 DEF Call
<1>4. CASE WakeUp
  BY <1>4 DEF WakeUp
<1>5. CASE Answer429
  BY <1>5 DEF Answer429, Answered, Sleep
<1>6. CASE AnswerError
  BY <1>6 DEF AnswerError, Answered, Sleep
<1>7. ASSUME NEW S \in SUBSET Refs, AnswerMapping(S) PROVE Remembers'
  <2>1. all' = shown' \ Ignored
    BY <1>7 DEF AnswerMapping, Answered, Gather
  <2>2. ASSUME Enough(Gather(S)) PROVE Usable(all)' # {}
    <3>1. Cardinality(Usable(Gather(S))) >= ExpectedN
      BY <2>2 DEF Enough
    <3>2. Usable(Gather(S)) # {}
      BY <3>1, FS_EmptySet
    <3>3. QED
      BY <1>7, <3>2 DEF AnswerMapping, Answered, Usable
  <2>3. QED
    BY <1>7, <2>1, <2>2 DEF AnswerMapping, Answered, Sleep
<1>8. CASE CtxDone
  BY <1>8 DEF CtxDone, Usable
<1>9. CASE TimePasses
  BY <1>9 DEF TimePasses
<1>10. CASE UNCHANGED pollVars
  BY <1>10 DEF pollVars, Usable
<1>11. QED
  BY <1>1, <1>2, <1>3, <1>4, <1>5, <1>6, <1>7, <1>8, <1>9, <1>10
     DEF PollNext, Proceed, Answer

\* The inductive invariant of PollConversationForImages.
THEOREM PollInvariant == PollSpec => []PollInv
<1>1. PollInv /\ [PollNext]_pollVars => PollInv'
  BY PollTypeStep, InTimeStep, WaitsOutStep, RemembersStep DEF PollInv
<1>2. QED
  BY <1>1, PollInvInit, PTL DEF PollSpec

\* The poll's status and references tell of all its answers: whatever was shown in
\* one of them, before or after errors, counts when it returns.
THEOREM PollStatusTellsAll == PollSpec => []StatusTellsAll
<1>1. PollInv => StatusTellsAll
  BY DEF PollInv, PollTypeOK, Remembers, StatusTellsAll, ImagesShown, Usable
<1>2. QED
  BY <1>1, PollInvariant, PTL

\* The poll ends at most one call and one wait after its time.
THEOREM PollOverrunBounded == PollSpec => []OverrunBounded
<1>1. PollInv => OverrunBounded
  BY PollAssumption, LongestBounds DEF PollInv, PollTypeOK, InTime, OverrunBounded
<1>2. QED
  BY <1>1, PollInvariant, PTL

\* The upstream is not asked before the wait of its last answers is over.
THEOREM PollBacksOff == PollSpec => BacksOff
<1>1. PollInv /\ [PollNext]_pollVars
        => [at' = "calling" /\ at # "calling" =>
              clock >= answered + (IF last429 * BackoffStep > BackoffCap
                                   THEN BackoffCap ELSE last429 * BackoffStep)]_pollVars
  <2>. SUFFICES ASSUME PollInv, [PollNext]_pollVars, at' = "calling", at # "calling"
                PROVE  clock >= answered + Backoff(last429)
    BY DEF Backoff
  <2>1. Call
    BY DEF PollNext, Proceed, Answer, EndByTime, EndByCtx, Return, WakeUp, Answer429,
           AnswerError, AnswerMapping, Sleep, CtxDone, TimePasses, pollVars
  <2>2. QED
    BY <2>1 DEF Call, PollInv, WaitsOut
<1>2. QED
  BY <1>1, PollInvariant, PTL DEF PollSpec, BacksOff

-----------------------------------------------------------------------------
(* The elements of a sequence at chosen positions                            *)

\* Every set of natural numbers that is not empty has a least member: what stands in
\* for induction over data in the proofs below.
LEMMA LeastExists ==
  ASSUME NEW T \in SUBSET Nat, T # {}
  PROVE  \E x \in T : \A y \in T : x <= y
<1>. DEFINE R == {p \in Nat \X Nat : p[1] < p[2]}
<1>1. OpToRel(<, Nat) = R
  BY Zenon DEF OpToRel
<1>2. IsWellFoundedOn(R, Nat)
  BY <1>1, NatLessThanWellFounded, Zenon
<1>3. \E x \in T : \A y \in T : <<y, x>> \notin R
  <2> HIDE DEF R
  <2> QED BY <1>2, WFMin
<1>4. PICK x \in T : \A y \in T : <<y, x>> \notin R
  BY <1>3
<1>5. \A y \in T : x <= y
  <2>1. SUFFICES ASSUME NEW y \in T PROVE x <= y
    OBVIOUS
  <2>2. x \in Nat /\ y \in Nat /\ <<y, x>> \notin R
    BY <1>4
  <2>3. ~(y < x)
    BY <2>2
  <2>4. QED BY <2>2, <2>3
<1>6. QED BY <1>5

\* The members up to one of them are finitely many.
LEMMA UpToFinite ==
  ASSUME NEW P \in SUBSET Nat, IsFiniteSet(P), NEW i
  PROVE  /\ Cardinality(P) \in Nat
         /\ IsFiniteSet(UpTo(P, i))
         /\ Cardinality(UpTo(P, i)) \in Nat
         /\ Cardinality(UpTo(P, i)) <= Cardinality(P)
<1>1. UpTo(P, i) \in SUBSET P
  BY DEF UpTo
<1>2. QED
  BY <1>1, FS_Subset, FS_CardinalityType

\* Taking a number above all others adds a last place and moves no other.
LEMMA UpToLast ==
  ASSUME NEW P \in SUBSET Nat, IsFiniteSet(P), NEW n \in Nat, \A i \in P : i < n
  PROVE  /\ IsFiniteSet(P \cup {n})
         /\ Cardinality(P \cup {n}) = Cardinality(P) + 1
         /\ \A i \in P : UpTo(P \cup {n}, i) = UpTo(P, i)
         /\ UpTo(P \cup {n}, n) = P \cup {n}
<1>1. n \notin P
  OBVIOUS
<1>2. IsFiniteSet(P \cup {n}) /\ Cardinality(P \cup {n}) = Cardinality(P) + 1
  BY <1>1, FS_AddElement
<1>3. \A i \in P : UpTo(P \cup {n}, i) = UpTo(P, i)
  BY DEF UpTo
<1>4. UpTo(P \cup {n}, n) = P \cup {n}
  <2>1. \A j \in P \cup {n} : j <= n
    OBVIOUS
  <2>2. QED
    BY <2>1 DEF UpTo
<1>5. QED
  BY <1>2, <1>3, <1>4

\* A larger member has more members up to it, so no two have the same place.
LEMMA PlacesDiffer ==
  ASSUME NEW P \in SUBSET Nat, IsFiniteSet(P), NEW i \in P, NEW j \in P, i < j
  PROVE  Cardinality(UpTo(P, i)) < Cardinality(UpTo(P, j))
<1>1. UpTo(P, i) \in SUBSET UpTo(P, j) /\ j \in UpTo(P, j) /\ j \notin UpTo(P, i)
  <2>1. \A o \in P : o \in Nat /\ (o <= i => o <= j)
    OBVIOUS
  <2>2. j <= j /\ ~(j <= i)
    OBVIOUS
  <2>3. QED
    BY <2>1, <2>2 DEF UpTo
<1>2. IsFiniteSet(UpTo(P, j)) /\ Cardinality(UpTo(P, j)) \in Nat /\ Cardinality(UpTo(P, i)) \in Nat
  BY UpToFinite
<1>3. Cardinality(UpTo(P, i)) <= Cardinality(UpTo(P, j))
      /\ Cardinality(UpTo(P, i)) # Cardinality(UpTo(P, j))
  BY <1>1, <1>2, FS_Subset
<1>4. QED
  BY <1>2, <1>3

\* Every place up to the number of members is the place of a member: otherwise
\* take a set with the least bound for which this fails, without its largest.
LEMMA PlacesFilled ==
  ASSUME NEW Q \in SUBSET Nat, IsFiniteSet(Q), NEW k \in 1..Cardinality(Q),
         NEW m \in Nat, \A i \in Q : i < m
  PROVE  \E i \in Q : Cardinality(UpTo(Q, i)) = k
<1>. DEFINE Filled(n) == \A P \in SUBSET Nat :
                           IsFiniteSet(P) /\ (\A i \in P : i < n) =>
                             \A l \in 1..Cardinality(P) :
                               \E i \in P : Cardinality(UpTo(P, i)) = l
            Bad == {n \in Nat : ~Filled(n)}
<1>1. SUFFICES Bad = {}
  <2>1. Filled(m)
    BY <1>1
  <2>2. QED
    BY <2>1
<1>2. SUFFICES ASSUME Bad # {} PROVE FALSE
  OBVIOUS
<1>3. PICK n \in Bad : \A o \in Bad : n <= o
  <2>1. Bad \in SUBSET Nat
    OBVIOUS
  <2>. HIDE DEF Bad
  <2>2. QED
    BY <1>2, <2>1, LeastExists
<1>4. n \in Nat /\ ~Filled(n)
  BY <1>3
<1>5. PICK P \in SUBSET Nat :
        /\ IsFiniteSet(P) /\ \A i \in P : i < n
        /\ \E l \in 1..Cardinality(P) : \A i \in P : Cardinality(UpTo(P, i)) # l
  BY <1>4
<1>6. PICK l \in 1..Cardinality(P) : \A i \in P : Cardinality(UpTo(P, i)) # l
  BY <1>5
<1>7. l \in Nat /\ l # 0 /\ l <= Cardinality(P) /\ Cardinality(P) \in Nat
  BY <1>5, <1>6, UpToFinite
<1>8. P # {} /\ n # 0
  <2>1. P # {}
    BY <1>7, FS_EmptySet
  <2>2. PICK i \in P : i \in Nat /\ i < n
    BY <1>5, <2>1
  <2>3. QED
    BY <1>4, <2>1, <2>2
<1>9. n - 1 \in Nat /\ Filled(n - 1)
  <2>1. n - 1 \in Nat /\ ~(n <= n - 1)
    BY <1>4, <1>8
  <2>2. n - 1 \notin Bad
    BY <1>3, <2>1
  <2>3. QED
    BY <2>1, <2>2
<1>. DEFINE O == P \ {n - 1}
<1>10. O \in SUBSET Nat /\ IsFiniteSet(O) /\ \A i \in O : i < n - 1
  BY <1>4, <1>5, FS_RemoveElement
<1>11. ASSUME NEW j \in 1..Cardinality(O) PROVE \E i \in O : Cardinality(UpTo(O, i)) = j
  <2>. HIDE DEF O
  <2>1. QED
    BY <1>9, <1>10
<1>12. CASE n - 1 \notin P
  <2>1. O = P
    BY <1>12
  <2>. HIDE DEF O
  <2>2. QED
    BY <1>6, <1>11, <2>1
<1>13. CASE n - 1 \in P
  <2>1. O \cup {n - 1} = P
    BY <1>13
  <2>. HIDE DEF O
  <2>2. /\ Cardinality(P) = Cardinality(O) + 1
        /\ \A i \in O : UpTo(P, i) = UpTo(O, i)
        /\ UpTo(P, n - 1) = P
    <3>1. /\ Cardinality(O \cup {n - 1}) = Cardinality(O) + 1
          /\ \A i \in O : UpTo(O \cup {n - 1}, i) = UpTo(O, i)
          /\ UpTo(O \cup {n - 1}, n - 1) = O \cup {n - 1}
      BY <1>9, <1>10, UpToLast
    <3>2. QED
      BY <2>1, <3>1
  <2>3. l # Cardinality(P)
    BY <1>6, <1>13, <2>2
  <2>4. Cardinality(O) \in Nat
    BY <1>10, UpToFinite
  <2>5. l \in 1..Cardinality(O)
    BY <1>7, <2>2, <2>3, <2>4
  <2>6. PICK i \in O : Cardinality(UpTo(O, i)) = l
    BY <1>11, <2>5
  <2>7. i \in P /\ Cardinality(UpTo(P, i)) = l
    BY <2>1, <2>2, <2>6
  <2>8. QED
    BY <1>6, <2>7
<1>14. QED
  BY <1>12, <1>13

\* The k-th member is a member, and the only one in its place.
LEMMA NthMember ==
  ASSUME NEW P \in SUBSET Nat, IsFiniteSet(P), NEW m \in Nat, \A i \in P : i < m,
         NEW k \in 1..Cardinality(P)
  PROVE  Nth(P, k) \in P /\ Cardinality(UpTo(P, Nth(P, k))) = k
BY PlacesFilled DEF Nth

LEMMA NthOfPlace ==
  ASSUME NEW P \in SUBSET Nat, IsFiniteSet(P), NEW m \in Nat, \A i \in P : i < m,
         NEW i \in P, NEW k, k = Cardinality(UpTo(P, i))
  PROVE  k \in 1..Cardinality(P) /\ Nth(P, k) = i
<1>1. k \in Nat /\ k <= Cardinality(P) /\ Cardinality(P) \in Nat
  BY UpToFinite
<1>2. k # 0
  <2>1. i \in UpTo(P, i) /\ IsFiniteSet(UpTo(P, i))
    BY UpToFinite DEF UpTo
  <2>2. QED
    BY <2>1, FS_EmptySet
<1>3. k \in 1..Cardinality(P)
  BY <1>1, <1>2
<1>4. Nth(P, k) \in P /\ Cardinality(UpTo(P, Nth(P, k))) = k
  BY <1>3, NthMember
<1>5. ASSUME Nth(P, k) < i PROVE FALSE
  <2>1. k < k
    BY <1>4, <1>5, PlacesDiffer
  <2>2. QED
    BY <1>1, <2>1
<1>6. ASSUME i < Nth(P, k) PROVE FALSE
  <2>1. k < k
    BY <1>4, <1>6, PlacesDiffer
  <2>2. QED
    BY <1>1, <2>1
<1>7. Nth(P, k) \in Nat /\ i \in Nat
  BY <1>4
<1>8. QED
  BY <1>3, <1>5, <1>6, <1>7

\* The places grow with the members.
LEMMA NthGrows ==
  ASSUME NEW P \in SUBSET Nat, IsFiniteSet(P), NEW m \in Nat, \A i \in P : i < m,
         NEW k \in 1..Cardinality(P), NEW l \in 1..Cardinality(P), k < l
  PROVE  Nth(P, k) < Nth(P, l)
<1>1. /\ Nth(P, k) \in P /\ Cardinality(UpTo(P, Nth(P, k))) = k
      /\ Nth(P, l) \in P /\ Cardinality(UpTo(P, Nth(P, l))) = l
  BY NthMember
<1>2. k \in Nat /\ l \in Nat
  BY UpToFinite
<1>3. ASSUME Nth(P, l) < Nth(P, k) PROVE FALSE
  <2>1. l < k
    BY <1>1, <1>3, PlacesDiffer
  <2>2. QED
    BY <1>2, <2>1
<1>4. Nth(P, k) # Nth(P, l)
  BY <1>1, <1>2
<1>5. Nth(P, k) \in Nat /\ Nth(P, l) \in Nat
  BY <1>1
<1>6. QED
  BY <1>3, <1>4, <1>5

LEMMA NthLast ==
  ASSUME NEW P \in SUBSET Nat, IsFiniteSet(P), NEW n \in Nat, \A i \in P : i < n
  PROVE  /\ \A k \in 1..Cardinality(P) : Nth(P \cup {n}, k) = Nth(P, k)
         /\ Nth(P \cup {n}, Cardinality(P) + 1) = n
<1>. DEFINE Q == P \cup {n}
<1>1. Q \in SUBSET Nat /\ n \in Q /\ P \subseteq Q /\ n + 1 \in Nat /\ \A i \in Q : i < n + 1
  OBVIOUS
<1>2. /\ IsFiniteSet(Q)
      /\ Cardinality(Q) = Cardinality(P) + 1
      /\ \A i \in P : UpTo(Q, i) = UpTo(P, i)
      /\ UpTo(Q, n) = Q
  BY UpToLast
<1>. HIDE DEF Q
<1>3. ASSUME NEW k \in 1..Cardinality(P) PROVE Nth(Q, k) = Nth(P, k)
  <2>1. Nth(P, k) \in P /\ Cardinality(UpTo(P, Nth(P, k))) = k
    BY NthMember
  <2>2. Nth(P, k) \in Q /\ Cardinality(UpTo(Q, Nth(P, k))) = k
    BY <1>1, <1>2, <2>1
  <2>3. QED
    BY <1>1, <1>2, <2>2, NthOfPlace
<1>4. Cardinality(UpTo(Q, n)) = Cardinality(P) + 1
  BY <1>2
<1>5. Nth(Q, Cardinality(P) + 1) = n
  BY <1>1, <1>2, <1>4, NthOfPlace
<1>6. QED
  BY <1>3, <1>5 DEF Q

\* Positions of a sequence are bounded.
LEMMA Positions ==
  ASSUME NEW n \in Nat, NEW P, P \subseteq 1..n
  PROVE  P \in SUBSET Nat /\ IsFiniteSet(P) /\ n + 1 \in Nat /\ \A i \in P : i < n + 1
<1>1. IsFiniteSet(P)
  <2>1. IsFiniteSet(1..n) /\ P \in SUBSET (1..n)
    BY FS_Interval
  <2>2. QED
    BY <2>1, FS_Subset
<1>2. \A i \in P : i \in Nat /\ i < n + 1
  OBVIOUS
<1>3. QED
  BY <1>1, <1>2

\* What is picked depends on the chosen positions only.
LEMMA PickAgree ==
  ASSUME NEW n \in Nat, NEW P, P \subseteq 1..n, NEW s, NEW t, \A i \in P : s[i] = t[i]
  PROVE  Pick(s, P) = Pick(t, P)
<1>1. \A k \in 1..Cardinality(P) : Nth(P, k) \in P
  BY Positions, NthMember
<1>2. QED
  BY <1>1 DEF Pick

\* One more position at the end gives one more element at the end.
LEMMA PickLast ==
  ASSUME NEW n \in Nat, NEW P, P \subseteq 1..n, NEW s, NEW t, \A i \in P : s[i] = t[i]
  PROVE  Pick(t, P \cup {n + 1}) = Append(Pick(s, P), t[n + 1])
<1>. DEFINE c == Cardinality(P)
            Q == P \cup {n + 1}
            S == {t[i] : i \in Q}
<1>0. P \in SUBSET Nat /\ IsFiniteSet(P) /\ n + 1 \in Nat /\ \A i \in P : i < n + 1
  BY Positions
<1>1. /\ c \in Nat /\ Cardinality(Q) = c + 1
      /\ \A k \in 1..c : Nth(P, k) \in P /\ Nth(Q, k) = Nth(P, k)
      /\ Nth(Q, c + 1) = n + 1
  <2>1. c \in Nat
    BY <1>0, UpToFinite
  <2>2. Cardinality(Q) = c + 1
    BY <1>0, UpToLast
  <2>3. \A k \in 1..c : Nth(P, k) \in P
    BY <1>0, NthMember
  <2>4. (\A k \in 1..c : Nth(Q, k) = Nth(P, k)) /\ Nth(Q, c + 1) = n + 1
    BY <1>0, NthLast
  <2>5. QED
    BY <2>1, <2>2, <2>3, <2>4
<1>10. \A i \in P : s[i] \in S
  OBVIOUS
<1>. HIDE DEF c, Q, S
<1>2. Pick(s, P) = [k \in 1..c |-> s[Nth(P, k)]]
  BY DEF Pick, c
<1>3. Pick(t, Q) = [k \in 1..(c + 1) |-> t[Nth(Q, k)]]
  BY <1>1 DEF Pick
<1>4. Pick(s, P) \in Seq(S) /\ Len(Pick(s, P)) = c
  <2>1. \A k \in 1..c : s[Nth(P, k)] \in S
    BY <1>1, <1>10
  <2>2. QED
    BY <1>1, <1>2, <2>1
<1>5. Append(Pick(s, P), t[n + 1]) =
        [k \in 1..(c + 1) |-> IF k = c + 1 THEN t[n + 1] ELSE Pick(s, P)[k]]
  BY <1>1, <1>4
<1>6. ASSUME NEW k \in 1..(c + 1)
      PROVE  t[Nth(Q, k)] = IF k = c + 1 THEN t[n + 1] ELSE Pick(s, P)[k]
  <2>1. CASE k = c + 1
    BY <1>1, <2>1
  <2>2. CASE k # c + 1
    <3>1. k \in 1..c
      BY <1>1, <2>2
    <3>2. Nth(P, k) \in P /\ Nth(Q, k) = Nth(P, k)
      BY <1>1, <3>1
    <3>3. t[Nth(Q, k)] = s[Nth(P, k)]
      BY <3>2
    <3>4. Pick(s, P)[k] = s[Nth(P, k)]
      BY <1>2, <3>1
    <3>5. QED
      BY <2>2, <3>3, <3>4
  <2>3. QED
    BY <2>1, <2>2
<1>7. QED
  BY <1>3, <1>5, <1>6 DEF Q

LEMMA PickType ==
  ASSUME NEW n \in Nat, NEW P, P \subseteq 1..n, NEW S, NEW s, \A i \in P : s[i] \in S
  PROVE  /\ Pick(s, P) \in Seq(S)
         /\ Len(Pick(s, P)) = Cardinality(P)
         /\ Pick(s, P) = <<>> <=> P = {}
<1>1. Cardinality(P) \in Nat /\ \A k \in 1..Cardinality(P) : Nth(P, k) \in P
  BY Positions, UpToFinite, NthMember
<1>2. Pick(s, P) \in Seq(S) /\ Len(Pick(s, P)) = Cardinality(P)
  <2>1. \A k \in 1..Cardinality(P) : s[Nth(P, k)] \in S
    BY <1>1
  <2>2. QED
    BY <1>1, <2>1 DEF Pick
<1>3. IsFiniteSet(P) /\ (Cardinality(P) = 0 <=> P = {})
  BY Positions, FS_EmptySet
<1>4. QED
  BY <1>2, <1>3

-----------------------------------------------------------------------------
(* The events of a body                                                      *)

Data  == Payloads \cup {DoneMark}
Event == Seq(Data \cup {"err"})

\* What one more line does not change: the lines of earlier events.
LEMMA DataBeforeAppend ==
  ASSUME NEW s \in Seq(Lines), NEW l \in Lines, NEW b \in 1..(Len(s) + 1)
  PROVE  /\ DataBefore(s, b) \subseteq 1..Len(s)
         /\ DataBefore(Append(s, l), b) = DataBefore(s, b)
         /\ DataLines(Append(s, l), b) = DataLines(s, b)
         /\ DataLines(s, b) \in Seq(Data)
         /\ DataLines(s, b) = <<>> <=> DataBefore(s, b) = {}
<1>. DEFINE t == Append(s, l)
<1>1. Len(s) \in Nat /\ b \in Nat /\ b - 1 \in Nat /\ b - 1 <= Len(s)
  OBVIOUS
<1>2. \A i \in 1..(b - 1) : i \in 1..Len(s) /\ t[i] = s[i]
  BY <1>1
<1>. HIDE DEF t
<1>3. DataBefore(t, b) = DataBefore(s, b)
  <2>1. ASSUME NEW i \in 1..(b - 1) PROVE \A j \in i..(b - 1) : t[j] = s[j]
    <3>1. \A j \in i..(b - 1) : j \in 1..(b - 1)
      BY <1>1
    <3>2. QED
      BY <1>2, <3>1
  <2>2. QED
    BY <1>2, <2>1 DEF DataBefore
<1>4. DataBefore(s, b) \subseteq 1..Len(s)
  BY <1>2 DEF DataBefore
<1>5. \A i \in DataBefore(s, b) : s[i] \in Data /\ s[i] = t[i]
  BY <1>2 DEF DataBefore, IsData, Data
<1>6. DataLines(t, b) = DataLines(s, b)
  BY <1>1, <1>3, <1>4, <1>5, PickAgree DEF DataLines
<1>7. DataLines(s, b) \in Seq(Data) /\ (DataLines(s, b) = <<>> <=> DataBefore(s, b) = {})
  BY <1>1, <1>4, <1>5, PickType DEF DataLines
<1>8. QED
  BY <1>3, <1>4, <1>6, <1>7 DEF t

\* The lines read so far are cut into whole events and a rest.
LEMMA EventsType ==
  ASSUME NEW s \in Seq(Lines)
  PROVE  EventsOf(s) \in Seq(Seq(Data)) /\ RestOf(s) \in Seq(Data)
<1>1. Len(s) \in Nat /\ Blank \in Lines /\ EventEnds(s) \subseteq 1..Len(s)
  BY DEF Lines, EventEnds
<1>2. \A b \in 1..(Len(s) + 1) : DataLines(s, b) \in Seq(Data)
  BY <1>1, DataBeforeAppend
<1>. DEFINE d == [b \in 1..Len(s) |-> DataLines(s, b)]
<1>3. \A b \in EventEnds(s) : d[b] \in Seq(Data)
  BY <1>1, <1>2
<1>. HIDE DEF d
<1>4. Pick(d, EventEnds(s)) \in Seq(Seq(Data))
  BY <1>1, <1>3, PickType
<1>5. QED
  BY <1>1, <1>2, <1>4 DEF EventsOf, RestOf, d

LEMMA NoEvents == EventsOf(<<>>) = <<>> /\ RestOf(<<>>) = <<>>
<1>1. 0 \in Nat /\ {} \subseteq 1..0 /\ Len(<<>>) = 0
  OBVIOUS
<1>2. DataBefore(<<>>, 1) = {} /\ EventEnds(<<>>) = {}
  BY DEF DataBefore, EventEnds
<1>3. \A f : Pick(f, {}) = <<>>
  <2>. TAKE f
  <2>1. \A i \in {} : f[i] \in {}
    OBVIOUS
  <2>2. QED
    BY <1>1, <2>1, PickType
<1>4. EventsOf(<<>>) = <<>>
  BY <1>2, <1>3 DEF EventsOf
<1>5. RestOf(<<>>) = Pick(<<>>, DataBefore(<<>>, 1))
  BY <1>1 DEF RestOf, DataLines
<1>6. QED
  BY <1>2, <1>3, <1>4, <1>5

\* A blank line closes the event of the data lines before it, if there are any.
LEMMA BlankCloses ==
  ASSUME NEW s \in Seq(Lines)
  PROVE  /\ EventsOf(Append(s, Blank)) =
              IF RestOf(s) = <<>> THEN EventsOf(s) ELSE Append(EventsOf(s), RestOf(s))
         /\ RestOf(Append(s, Blank)) = <<>>
<1>. DEFINE t == Append(s, Blank)
            n == Len(s)
            d == [b \in 1..n |-> DataLines(s, b)]
            e == [b \in 1..(n + 1) |-> DataLines(t, b)]
<1>1. /\ Blank \in Lines /\ n \in Nat /\ n + 1 \in 1..(n + 1)
      /\ t \in Seq(Lines) /\ Len(t) = n + 1 /\ t[n + 1] = Blank
      /\ \A i \in 1..n : t[i] = s[i]
  BY DEF Lines
<1>. HIDE DEF t, n
<1>2. \A b \in 1..(n + 1) :
        /\ DataBefore(t, b) = DataBefore(s, b)
        /\ DataLines(t, b) = DataLines(s, b)
        /\ DataLines(s, b) \in Seq(Data)
        /\ DataLines(s, b) = <<>> <=> DataBefore(s, b) = {}
  BY <1>1, DataBeforeAppend DEF t, n
<1>3. EventEnds(s) \subseteq 1..n
  BY DEF EventEnds, n
<1>4. EventEnds(t) = EventEnds(s) \cup (IF RestOf(s) = <<>> THEN {} ELSE {n + 1})
  <2>1. 1..(n + 1) = (1..n) \cup {n + 1}
    BY <1>1
  <2>2. RestOf(s) = <<>> <=> DataBefore(s, n + 1) = {}
    BY <1>1, <1>2 DEF RestOf, n
  <2>3. EventEnds(t) = {b \in 1..(n + 1) : t[b] = Blank /\ DataBefore(s, b) # {}}
    BY <1>1, <1>2 DEF EventEnds
  <2>4. EventEnds(s) = {b \in 1..n : t[b] = Blank /\ DataBefore(s, b) # {}}
    BY <1>1 DEF EventEnds, n
  <2>5. QED
    BY <1>1, <2>1, <2>2, <2>3, <2>4
<1>5. \A b \in EventEnds(s) : d[b] \in Seq(Data) /\ d[b] = e[b]
  <2>1. \A b \in 1..n : b \in 1..(n + 1)
    BY <1>1
  <2>2. QED
    BY <1>2, <1>3, <2>1
<1>6. e[n + 1] = RestOf(s) /\ e[n + 1] \in Seq(Data)
  BY <1>1, <1>2 DEF RestOf, n
<1>. HIDE DEF d, e
<1>7. Pick(e, EventEnds(s)) = Pick(d, EventEnds(s))
  BY <1>1, <1>3, <1>5, PickAgree
<1>8. Pick(e, EventEnds(s) \cup {n + 1}) = Append(Pick(d, EventEnds(s)), RestOf(s))
  <2>1. Pick(e, EventEnds(s) \cup {n + 1}) = Append(Pick(d, EventEnds(s)), e[n + 1])
    <3>1. EventEnds(s) \subseteq 1..n /\ \A b \in EventEnds(s) : d[b] = e[b]
      BY <1>3, <1>5
    <3>2. QED
      BY <1>1, <3>1, PickLast
  <2>2. QED
    BY <1>6, <2>1
<1>9. EventsOf(t) = Pick(e, EventEnds(t)) /\ EventsOf(s) = Pick(d, EventEnds(s))
  BY <1>1 DEF EventsOf, d, e, n
<1>10. EventsOf(t) = IF RestOf(s) = <<>> THEN EventsOf(s) ELSE Append(EventsOf(s), RestOf(s))
  BY <1>4, <1>7, <1>8, <1>9
<1>11. RestOf(t) = <<>>
  <2>1. \A i \in 1..(n + 1) : n + 1 \in i..(n + 1)
    BY <1>1
  <2>2. (n + 2) - 1 = n + 1 /\ n + 2 \in 1..(Len(t) + 1) /\ (n + 1) + 1 = n + 2
    BY <1>1
  <2>3. DataBefore(t, n + 2) = {}
    BY <1>1, <2>1, <2>2 DEF DataBefore
  <2>4. QED
    BY <1>1, <2>2, <2>3, DataBeforeAppend DEF RestOf
<1>12. QED
  BY <1>10, <1>11 DEF t

\* Any other line closes nothing; a data line is one more of the rest.
LEMMA OtherLineKeeps ==
  ASSUME NEW s \in Seq(Lines), NEW l \in Lines, l # Blank
  PROVE  /\ EventsOf(Append(s, l)) = EventsOf(s)
         /\ RestOf(Append(s, l)) = IF l = Other THEN RestOf(s) ELSE Append(RestOf(s), l)
<1>. DEFINE t == Append(s, l)
            n == Len(s)
            d == [b \in 1..n |-> DataLines(s, b)]
            e == [b \in 1..(n + 1) |-> DataLines(t, b)]
            P == DataBefore(s, n + 1)
<1>1. /\ n \in Nat /\ n + 1 \in 1..(n + 1)
      /\ t \in Seq(Lines) /\ Len(t) = n + 1 /\ t[n + 1] = l
      /\ \A i \in 1..n : t[i] = s[i] /\ s[i] \in Lines
  OBVIOUS
<1>. HIDE DEF t, n
<1>2. \A b \in 1..(n + 1) :
        /\ DataBefore(t, b) = DataBefore(s, b)
        /\ DataLines(t, b) = DataLines(s, b)
        /\ DataLines(s, b) \in Seq(Data)
  BY <1>1, DataBeforeAppend DEF t, n
<1>3. EventEnds(s) \subseteq 1..n
  BY DEF EventEnds, n
<1>4. EventEnds(t) = EventEnds(s)
  <2>1. 1..(n + 1) = (1..n) \cup {n + 1}
    BY <1>1
  <2>2. EventEnds(t) = {b \in 1..(n + 1) : t[b] = Blank /\ DataBefore(s, b) # {}}
    BY <1>1, <1>2 DEF EventEnds
  <2>3. EventEnds(s) = {b \in 1..n : t[b] = Blank /\ DataBefore(s, b) # {}}
    BY <1>1 DEF EventEnds, n
  <2>4. QED
    BY <1>1, <2>1, <2>2, <2>3
<1>5. \A b \in EventEnds(s) : e[b] = d[b]
  <2>1. \A b \in 1..n : b \in 1..(n + 1)
    BY <1>1
  <2>2. QED
    BY <1>2, <1>3, <2>1
<1>. HIDE DEF d, e
<1>6. EventsOf(t) = EventsOf(s)
  <2>1. EventsOf(t) = Pick(e, EventEnds(s)) /\ EventsOf(s) = Pick(d, EventEnds(s))
    BY <1>1, <1>4 DEF EventsOf, d, e, n
  <2>2. QED
    BY <1>1, <1>3, <1>5, <2>1, PickAgree
<1>7. P \subseteq 1..n /\ \A i \in P : s[i] \in Data /\ s[i] = t[i]
  <2>1. P \subseteq 1..n
    BY <1>1, DataBeforeAppend DEF n
  <2>2. QED
    BY <1>1, <2>1 DEF DataBefore, IsData, Data
<1>8. DataBefore(t, n + 2) = IF l = Other THEN P ELSE P \cup {n + 1}
  <2>1. IsData(l) <=> l # Other
    BY StreamAssumption DEF IsData, Lines, DoneMark, Blank, Other
  <2>2. (n + 2) - 1 = n + 1 /\ (n + 1) - 1 = n /\ 1..(n + 1) = (1..n) \cup {n + 1}
    BY <1>1
  <2>3. \A i \in 1..n : i..(n + 1) = (i..n) \cup {n + 1} /\ \A j \in i..n : j \in 1..n
    BY <1>1
  <2>4. (n + 1)..(n + 1) = {n + 1}
    BY <1>1
  <2>5. ASSUME NEW i \in 1..n
        PROVE  (\A j \in i..(n + 1) : t[j] # Blank) <=> (\A j \in i..n : s[j] # Blank)
    BY <1>1, <2>3
  <2>6. ASSUME NEW i PROVE i \in DataBefore(t, n + 2) <=> i \in P \/ (i = n + 1 /\ l # Other)
    <3>1. CASE i \in 1..n
      BY <1>1, <2>2, <2>5, <3>1 DEF DataBefore
    <3>2. CASE i = n + 1
      BY <1>1, <1>7, <2>1, <2>2, <2>4, <3>2 DEF DataBefore
    <3>3. CASE i \notin 1..(n + 1)
      BY <2>2, <3>3 DEF DataBefore
    <3>4. QED
      BY <2>2, <3>1, <3>2, <3>3
  <2>7. QED
    BY <2>6
<1>9. RestOf(t) = Pick(t, DataBefore(t, n + 2)) /\ RestOf(s) = Pick(s, P)
  <2>1. (n + 1) + 1 = n + 2
    BY <1>1
  <2>2. QED
    BY <1>1, <2>1 DEF RestOf, DataLines, n
<1>10. CASE l = Other
  <2>. HIDE DEF P
  <2>1. Pick(s, P) = Pick(t, P)
    BY <1>1, <1>7, PickAgree
  <2>2. QED
    BY <1>6, <1>8, <1>9, <1>10, <2>1 DEF t
<1>11. CASE l # Other
  <2>. HIDE DEF P
  <2>1. Pick(t, P \cup {n + 1}) = Append(Pick(s, P), l)
    <3>1. Pick(t, P \cup {n + 1}) = Append(Pick(s, P), t[n + 1])
      BY <1>1, <1>7, PickLast
    <3>2. QED
      BY <1>1, <3>1
  <2>2. QED
    BY <1>6, <1>8, <1>9, <1>11, <2>1 DEF t
<1>12. QED
  BY <1>10, <1>11

-----------------------------------------------------------------------------
(* The event stream                                                          *)

\* Every state of the stream has its type: the parser sends one event at a time,
\* the channel keeps its size.
StreamTypeOK ==
  /\ lines \in Seq(Lines)
  /\ buf \in Seq(Data)
  /\ sending \in Seq(Event) /\ Len(sending) <= 1
  /\ channel \in Seq(Event) /\ Len(channel) <= Capacity
  /\ taken \in Seq(Event)
  /\ result \in Seq(Payloads)
  /\ parser \in {"reading", "ending", "closed"}
  /\ consumer \in {"ranging", "returned"}
  /\ canceled \in BOOLEAN

LEMMA DataIsEvent == Seq(Data) \subseteq Event /\ ReadErr \in Event
<1>1. Data \subseteq Data \cup {"err"}
  OBVIOUS
<1>2. QED
  BY <1>1 DEF Event, ReadErr

\* The positions of the new references of an event.
LEMMA NewAtPositions ==
  ASSUME NEW q, NEW e \in Event
  PROVE  /\ Len(e) \in Nat
         /\ NewAt(q, e) \subseteq 1..Len(e)
         /\ \A i \in NewAt(q, e) : e[i] \in Payloads \ Range(q)
BY DEF NewAt, Event

LEMMA NewRefsType ==
  ASSUME NEW q, NEW e \in Event
  PROVE  NewRefs(q, e) \in Seq(Payloads) /\ Len(NewRefs(q, e)) = Cardinality(NewAt(q, e))
<1>1. \A i \in NewAt(q, e) : e[i] \in Payloads
  BY NewAtPositions
<1>2. QED
  BY <1>1, NewAtPositions, PickType DEF NewRefs

LEMMA StreamTypeInit == StreamInit => StreamTypeOK
<1>1. \A S : <<>> \in Seq(S)
  OBVIOUS
<1>2. Len(<<>>) = 0 /\ 0 <= 1 /\ 0 <= Capacity
  BY StreamAssumption
<1>. SUFFICES ASSUME StreamInit PROVE StreamTypeOK
  OBVIOUS
<1>3. lines \in Seq(Lines) /\ buf \in Seq(Data) /\ result \in Seq(Payloads)
  BY <1>1 DEF StreamInit
<1>4. sending \in Seq(Event) /\ channel \in Seq(Event) /\ taken \in Seq(Event)
  BY <1>1 DEF StreamInit
<1>5. QED
  BY <1>2, <1>3, <1>4 DEF StreamInit, StreamTypeOK

LEMMA StreamTypeStep == StreamTypeOK /\ [StreamNext]_streamVars => StreamTypeOK'
<1>. SUFFICES ASSUME StreamTypeOK, [StreamNext]_streamVars PROVE StreamTypeOK'
  OBVIOUS
<1>. USE StreamAssumption DEF StreamTypeOK
<1>1. CASE ReadLine
  <2>1. PICK l \in Lines :
          /\ lines' = Append(lines, l)
          /\ CASE l = Blank -> Flush
               [] l = Other -> UNCHANGED <<buf, sending>>
               [] OTHER     -> buf' = Append(buf, l) /\ UNCHANGED sending
    BY <1>1 DEF ReadLine
  <2>2. lines' \in Seq(Lines)
    BY <2>1
  <2>3. CASE l = Blank
    <3>1. Flush
      BY <2>1, <2>3 DEF Blank, Other
    <3>2. sending' \in Seq(Event) /\ Len(sending') <= 1 /\ buf' \in Seq(Data)
      BY <3>1, DataIsEvent DEF Flush
    <3>3. QED
      BY <1>1, <2>2, <3>2 DEF ReadLine
  <2>4. CASE l = Other
    <3>1. UNCHANGED <<buf, sending>>
      BY <2>1, <2>4 DEF Blank, Other
    <3>2. QED
      BY <1>1, <2>2, <3>1 DEF ReadLine
  <2>5. CASE l # Blank /\ l # Other
    <3>1. buf' = Append(buf, l) /\ UNCHANGED sending
      BY <2>1, <2>5
    <3>2. l \in Data
      BY <2>5 DEF Lines, Data
    <3>3. QED
      BY <1>1, <2>2, <3>1, <3>2 DEF ReadLine
  <2>6. QED
    BY <2>3, <2>4, <2>5
<1>2. CASE EndOfBody
  <2>1. sending' \in Seq(Event) /\ Len(sending') <= 1 /\ buf' \in Seq(Data)
    BY <1>2, DataIsEvent DEF EndOfBody, Flush
  <2>2. QED
    BY <1>2, <2>1 DEF EndOfBody
<1>3. CASE ReadFails
  BY <1>3, DataIsEvent DEF ReadFails
<1>4. CASE Send
  <2>1. channel' \in Seq(Event) /\ Len(channel') = Len(channel) + Len(sending)
    BY <1>4 DEF Send
  <2>2. Len(channel') <= Capacity
    BY <1>4, <2>1 DEF Send
  <2>3. QED
    BY <1>4, <2>1, <2>2 DEF Send
<1>5. CASE Close
  BY <1>5 DEF Close
<1>6. CASE Take
  <2>. DEFINE e == Head(channel)
  <2>1. e \in Event /\ Tail(channel) \in Seq(Event) /\ Len(Tail(channel)) <= Capacity
    BY <1>6 DEF Take
  <2>2. result' \in Seq(Payloads) /\ consumer' \in {"ranging", "returned"}
    <3>. HIDE DEF e
    <3>1. NewRefs(result, e) \in Seq(Payloads)
      BY <2>1, NewRefsType
    <3>2. result \o NewRefs(result, e) \in Seq(Payloads)
      BY <3>1
    <3>3. QED
      BY <1>6, <3>2 DEF Take, e
  <2>3. taken' \in Seq(Event)
    BY <1>6, <2>1 DEF Take
  <2>4. QED
    BY <1>6, <2>1, <2>2, <2>3 DEF Take
<1>7. CASE RangeEnds
  BY <1>7 DEF RangeEnds
<1>8. CASE Cancel
  BY <1>8 DEF Cancel
<1>9. CASE UNCHANGED streamVars
  BY <1>9 DEF streamVars
<1>10. QED
  BY <1>1, <1>2, <1>3, <1>4, <1>5, <1>6, <1>7, <1>8, <1>9 DEF StreamNext

\* Moving an event from one end of a queue to the other loses nothing.
LEMMA SendMoves ==
  ASSUME NEW S, NEW t \in Seq(S), NEW c \in Seq(S), NEW x \in Seq(S)
  PROVE  t \o (c \o x) \o <<>> = t \o c \o x
<1>1. t \o (c \o x) \in Seq(S)
  OBVIOUS
<1>2. t \o (c \o x) = t \o c \o x
  BY ConcatAssociative
<1>3. QED
  BY <1>1, <1>2, ConcatEmptySeq

LEMMA TakeMoves ==
  ASSUME NEW S, NEW t \in Seq(S), NEW c \in Seq(S), c # <<>>, NEW x \in Seq(S)
  PROVE  Append(t, Head(c)) \o Tail(c) \o x = t \o c \o x
<1>1. Head(c) \in S /\ Tail(c) \in Seq(S) /\ c = <<Head(c)>> \o Tail(c)
  BY HeadTailProperties
<1>2. Append(t, Head(c)) = t \o <<Head(c)>>
  BY <1>1, AppendIsConcat
<1>3. (t \o <<Head(c)>>) \o Tail(c) = t \o (<<Head(c)>> \o Tail(c))
  BY <1>1, ConcatAssociative
<1>4. QED
  BY <1>1, <1>2, <1>3

LEMMA NewLast ==
  ASSUME NEW t \in Seq(Event), NEW c \in Seq(Event), NEW e \in Event
  PROVE  t \o c \o <<e>> = Append(t \o c \o <<>>, e)
<1>1. t \o c \in Seq(Event)
  OBVIOUS
<1>2. t \o c \o <<>> = t \o c
  BY <1>1, ConcatEmptySeq
<1>3. Append(t \o c, e) = t \o c \o <<e>>
  BY <1>1, AppendIsConcat
<1>4. QED
  BY <1>2, <1>3

\* What the stream has carried: while the parser reads, its buffer is the rest.
Carrying ==
  /\ Conveyed
  /\ parser = "reading" => buf = RestOf(lines)

LEMMA CarryingInit == StreamInit => Carrying
<1>1. <<>> \o <<>> \o <<>> = <<>>
  OBVIOUS
<1>2. QED
  BY <1>1, NoEvents DEF StreamInit, Carrying, Conveyed

\* A line that is read goes into the rest, or closes an event that is sent.
LEMMA CarryingReadLine == StreamTypeOK /\ Carrying /\ ReadLine => Carrying'
<1>. SUFFICES ASSUME StreamTypeOK, Carrying, ReadLine PROVE Carrying'
  OBVIOUS
<1>1. PICK l \in Lines :
        /\ lines' = Append(lines, l)
        /\ CASE l = Blank -> Flush
             [] l = Other -> UNCHANGED <<buf, sending>>
             [] OTHER     -> buf' = Append(buf, l) /\ UNCHANGED sending
  BY DEF ReadLine
<1>2. /\ lines \in Seq(Lines) /\ taken \in Seq(Event) /\ channel \in Seq(Event)
      /\ parser = "reading" /\ parser' = parser /\ sending = <<>>
      /\ taken' = taken /\ channel' = channel
      /\ taken \o channel \o <<>> = EventsOf(lines) /\ buf = RestOf(lines)
  BY DEF StreamTypeOK, ReadLine, Carrying, Conveyed
<1>3. SUFFICES taken \o channel \o sending' = EventsOf(lines') /\ buf' = RestOf(lines')
  BY <1>2 DEF Carrying, Conveyed
<1>4. CASE l = Blank
  <2>1. Flush
    BY <1>1, <1>4 DEF Blank, Other
  <2>2. lines' = Append(lines, Blank)
    BY <1>1, <1>4
  <2>3. /\ EventsOf(lines') =
             IF buf = <<>> THEN EventsOf(lines) ELSE Append(EventsOf(lines), buf)
        /\ RestOf(lines') = <<>>
    BY <1>2, <2>2, BlankCloses
  <2>4. CASE buf = <<>>
    BY <1>2, <2>1, <2>3, <2>4 DEF Flush
  <2>5. CASE buf # <<>>
    <3>1. buf \in Event
      BY DataIsEvent DEF StreamTypeOK
    <3>2. taken \o channel \o <<buf>> = Append(taken \o channel \o <<>>, buf)
      BY <1>2, <3>1, NewLast
    <3>3. QED
      BY <1>2, <2>1, <2>3, <2>5, <3>2 DEF Flush
  <2>6. QED
    BY <2>4, <2>5
<1>5. CASE l = Other
  <2>1. UNCHANGED <<buf, sending>> /\ l # Blank
    BY <1>1, <1>5 DEF Blank, Other
  <2>2. EventsOf(lines') = EventsOf(lines) /\ RestOf(lines') = RestOf(lines)
    BY <1>1, <1>2, <1>5, <2>1, OtherLineKeeps
  <2>3. QED
    BY <1>2, <2>1, <2>2
<1>6. CASE l # Blank /\ l # Other
  <2>1. buf' = Append(buf, l) /\ UNCHANGED sending
    BY <1>1, <1>6
  <2>2. EventsOf(lines') = EventsOf(lines) /\ RestOf(lines') = Append(RestOf(lines), l)
    BY <1>1, <1>2, <1>6, OtherLineKeeps
  <2>3. QED
    BY <1>2, <2>1, <2>2
<1>7. QED
  BY <1>4, <1>5, <1>6

\* The end of the body sends the rest, a failed read the error, and nothing else.
LEMMA CarryingEnds == StreamTypeOK /\ Carrying /\ (EndOfBody \/ ReadFails) => Carrying'
<1>. SUFFICES ASSUME StreamTypeOK, Carrying, EndOfBody \/ ReadFails PROVE Carrying'
  OBVIOUS
<1>1. /\ taken \in Seq(Event) /\ channel \in Seq(Event) /\ buf \in Event
      /\ parser = "reading" /\ parser' = "ending" /\ sending = <<>>
      /\ taken' = taken /\ channel' = channel /\ lines' = lines
      /\ taken \o channel \o <<>> = EventsOf(lines) /\ buf = RestOf(lines)
  BY DataIsEvent DEF StreamTypeOK, EndOfBody, ReadFails, Carrying, Conveyed
<1>2. EventsOf(lines) \in Seq(Seq(Data))
  BY EventsType DEF StreamTypeOK
<1>. DEFINE rest == IF RestOf(lines) = <<>> THEN <<>> ELSE <<RestOf(lines)>>
<1>3. SUFFICES taken \o channel \o sending'
                 \in {EventsOf(lines) \o rest, Append(EventsOf(lines), ReadErr)}
  BY <1>1 DEF Carrying, Conveyed
<1>4. CASE EndOfBody
  <2>1. sending' = rest
    BY <1>1, <1>4 DEF EndOfBody, Flush
  <2>2. CASE buf = <<>>
    BY <1>1, <1>2, <2>1, <2>2, ConcatEmptySeq
  <2>3. CASE buf # <<>>
    <3>0. taken \o channel \o <<buf>> = Append(taken \o channel \o <<>>, buf)
      BY <1>1, NewLast
    <3>1. taken \o channel \o <<buf>> = Append(EventsOf(lines), buf)
      BY <1>1, <3>0
    <3>2. EventsOf(lines) = taken \o channel
      BY <1>1, ConcatEmptySeq
    <3>3. taken \o channel \in Seq(Event)
      BY <1>1
    <3>4. Append(EventsOf(lines), buf) = EventsOf(lines) \o <<buf>>
      BY <1>1, <3>2, <3>3, AppendIsConcat
    <3>5. QED
      BY <1>1, <2>1, <2>3, <3>1, <3>4
  <2>4. QED
    BY <2>2, <2>3
<1>5. CASE ReadFails
  <2>1. sending' = <<ReadErr>>
    BY <1>5 DEF ReadFails
  <2>2. taken \o channel \o <<ReadErr>> = Append(taken \o channel \o <<>>, ReadErr)
    BY <1>1, DataIsEvent, NewLast
  <2>3. QED
    BY <1>1, <2>1, <2>2
<1>6. QED
  BY <1>4, <1>5

\* The other steps move events and change none.
LEMMA CarryingMoves ==
  ASSUME StreamTypeOK, Carrying,
         UNCHANGED <<lines, buf>>,
         parser' = parser \/ (parser = "ending" /\ parser' = "closed"),
         taken' \o channel' \o sending' = taken \o channel \o sending
  PROVE  Carrying'
BY DEF Carrying, Conveyed

LEMMA CarryingStep == StreamTypeOK /\ Carrying /\ [StreamNext]_streamVars => Carrying'
<1>. SUFFICES ASSUME StreamTypeOK, Carrying, [StreamNext]_streamVars PROVE Carrying'
  OBVIOUS
<1>0. taken \in Seq(Event) /\ channel \in Seq(Event) /\ sending \in Seq(Event)
  BY DEF StreamTypeOK
<1>1. CASE ReadLine
  BY <1>1, CarryingReadLine
<1>2. CASE EndOfBody \/ ReadFails
  BY <1>2, CarryingEnds
<1>3. CASE Send
  <2>1. taken' \o channel' \o sending' = taken \o channel \o sending
    <3>1. taken' = taken /\ channel' = channel \o sending /\ sending' = <<>>
      BY <1>3 DEF Send
    <3>2. taken \o (channel \o sending) \o <<>> = taken \o channel \o sending
      BY <1>0, SendMoves
    <3>3. QED
      BY <3>1, <3>2
  <2>2. QED
    BY <1>3, <2>1, CarryingMoves DEF Send
<1>4. CASE Close
  BY <1>4, CarryingMoves DEF Close
<1>5. CASE Take
  <2>1. taken' \o channel' \o sending' = taken \o channel \o sending
    BY <1>0, <1>5, TakeMoves DEF Take
  <2>2. QED
    BY <1>5, <2>1, CarryingMoves DEF Take
<1>6. CASE RangeEnds
  BY <1>6, CarryingMoves DEF RangeEnds
<1>7. CASE Cancel
  BY <1>7, CarryingMoves DEF Cancel
<1>8. CASE UNCHANGED streamVars
  BY <1>8, CarryingMoves DEF streamVars
<1>9. QED
  BY <1>1, <1>2, <1>3, <1>4, <1>5, <1>6, <1>7, <1>8 DEF StreamNext

\* The inductive invariant of parseSSE and ParseImageSSE: their types, among them
\* that the channel keeps its size, and what they have carried.
THEOREM StreamInvariant == StreamSpec => [](StreamTypeOK /\ Carrying)
<1>1. StreamInit => StreamTypeOK /\ Carrying
  BY StreamTypeInit, CarryingInit
<1>2. StreamTypeOK /\ Carrying /\ [StreamNext]_streamVars => (StreamTypeOK /\ Carrying)'
  BY StreamTypeStep, CarryingStep
<1>3. QED
  BY <1>1, <1>2, PTL DEF StreamSpec

\* Nothing is lost, doubled or reordered between the body and the consumer.
THEOREM StreamConveys == StreamSpec => []Conveyed
<1>1. Carrying => Conveyed
  BY DEF Carrying
<1>2. QED
  BY <1>1, StreamInvariant, PTL

\* The new references of an event are those it carries and that were not known, in
\* the order in which each is first carried.
LEMMA NewRefsSeen ==
  ASSUME NEW q, NEW e \in Event
  PROVE  /\ \A m \in 1..Len(NewRefs(q, e)) :
              /\ Nth(NewAt(q, e), m) \in NewAt(q, e)
              /\ NewRefs(q, e)[m] = e[Nth(NewAt(q, e), m)]
         /\ \A m, l \in 1..Len(NewRefs(q, e)) :
              m < l => Nth(NewAt(q, e), m) < Nth(NewAt(q, e), l)
         /\ \A i \in 1..Len(e) : e[i] \in Payloads \ Range(q) =>
              \E m \in 1..Len(NewRefs(q, e)) : NewRefs(q, e)[m] = e[i]
         /\ \A i \in NewAt(q, e) : \A j \in 1..Len(e) : e[j] = e[i] => i <= j
<1>. DEFINE A == NewAt(q, e)
            N == NewRefs(q, e)
<1>1. /\ Len(e) \in Nat /\ A \subseteq 1..Len(e)
      /\ A \in SUBSET Nat /\ IsFiniteSet(A)
      /\ Len(e) + 1 \in Nat /\ \A i \in A : i < Len(e) + 1
  BY NewAtPositions, Positions
<1>2. Len(N) = Cardinality(A) /\ N = [k \in 1..Cardinality(A) |-> e[Nth(A, k)]]
  BY NewRefsType DEF NewRefs, Pick
<1>. HIDE DEF N
<1>3. \A m \in 1..Len(N) : Nth(A, m) \in A /\ N[m] = e[Nth(A, m)]
  <2>. HIDE DEF A
  <2>1. QED
    BY <1>1, <1>2, NthMember
<1>4. \A m, l \in 1..Len(N) : m < l => Nth(A, m) < Nth(A, l)
  <2>. HIDE DEF A
  <2>1. QED
    BY <1>1, <1>2, NthGrows
<1>5. ASSUME NEW i \in 1..Len(e), e[i] \in Payloads \ Range(q)
      PROVE  \E m \in 1..Len(N) : N[m] = e[i]
  <2>. DEFINE T == {j \in 1..Len(e) : e[j] = e[i]}
  <2>1. PICK j \in T : \A k \in T : j <= k
    <3>1. T \in SUBSET Nat /\ T # {}
      OBVIOUS
    <3>. HIDE DEF T
    <3>2. QED
      BY <3>1, LeastExists
  <2>2. j \in 1..Len(e) /\ j \in Nat /\ e[j] = e[i]
    BY <2>1
  <2>3. \A k \in 1..(j - 1) : k \in 1..Len(e) /\ ~(j <= k)
    BY <1>1, <2>2
  <2>4. \A k \in 1..(j - 1) : e[k] # e[j]
    BY <2>1, <2>2, <2>3
  <2>5. j \in A
    BY <1>5, <2>2, <2>4 DEF NewAt
  <2>. DEFINE m == Cardinality(UpTo(A, j))
  <2>6. m \in 1..Cardinality(A) /\ Nth(A, m) = j
    <3>. HIDE DEF A
    <3>1. QED
      BY <1>1, <2>5, NthOfPlace
  <2>. HIDE DEF m, A
  <2>7. QED
    BY <1>2, <1>3, <2>2, <2>6
<1>6. ASSUME NEW i \in A, NEW j \in 1..Len(e), e[j] = e[i] PROVE i <= j
  <2>1. i \in Nat /\ j \in Nat /\ j >= 1 /\ \A k \in 1..(i - 1) : e[k] # e[i]
    BY <1>1 DEF NewAt
  <2>2. ~(j <= i - 1)
    BY <1>6, <2>1
  <2>3. QED
    BY <2>1, <2>2
<1>7. QED
  BY <1>3, <1>4, <1>5, <1>6 DEF N

\* An event that is taken is one more place to see references, after all others.
LEMMA SightedOld ==
  ASSUME StreamTypeOK, NEW p
  PROVE  \A a \in Sighted(p) : a[1] \in 1..Len(taken) /\ a[1] < Len(taken) + 1
<1>1. Len(taken) \in Nat
  BY DEF StreamTypeOK
<1>2. QED
  BY <1>1 DEF Sighted, Places

LEMMA SightedTake ==
  ASSUME StreamTypeOK, NEW e \in Event, taken' = Append(taken, e), NEW p
  PROVE  \A a : a \in Sighted(p)' <=>
            \/ a \in Sighted(p)
            \/ ~Stops(e) /\ \E k \in 1..Len(e) : a = <<Len(taken) + 1, k>> /\ e[k] = p
<1>. DEFINE n == Len(taken)
<1>1. /\ n \in Nat /\ Len(taken') = n + 1 /\ taken'[n + 1] = e
      /\ \A i \in 1..n : taken'[i] = taken[i]
      /\ 1..(n + 1) = (1..n) \cup {n + 1}
  BY DEF StreamTypeOK
<1>. HIDE DEF n
<1>2. ASSUME NEW a
      PROVE  a \in Places' <=>
               \/ a \in Places
               \/ ~Stops(e) /\ \E k \in 1..Len(e) : a = <<n + 1, k>>
  <2>1. a \in Places' <=>
          \E i \in 1..(n + 1) : ~Stops(taken'[i]) /\ \E k \in 1..Len(taken'[i]) : a = <<i, k>>
    BY <1>1 DEF Places
  <2>2. a \in Places <=>
          \E i \in 1..n : ~Stops(taken[i]) /\ \E k \in 1..Len(taken[i]) : a = <<i, k>>
    BY DEF Places, n
  <2>3. QED
    BY <1>1, <2>1, <2>2
<1>3. \A a \in Places : a[1] \in 1..n
  BY DEF Places, n
<1>4. ASSUME NEW a
      PROVE  a \in Sighted(p)' <=>
               \/ a \in Sighted(p)
               \/ ~Stops(e) /\ \E k \in 1..Len(e) : a = <<n + 1, k>> /\ e[k] = p
  <2>1. CASE a \in Places
    <3>1. a[1] # n + 1 /\ taken'[a[1]] = taken[a[1]]
      BY <1>1, <1>3, <2>1
    <3>2. \A k : a # <<n + 1, k>>
      BY <3>1
    <3>3. QED
      BY <1>2, <2>1, <3>1, <3>2 DEF Sighted
  <2>2. CASE a \notin Places
    BY <1>1, <1>2, <2>2 DEF Sighted
  <2>3. QED
    BY <2>1, <2>2
<1>5. QED
  BY <1>4 DEF n

\* The three parts of ResultIsPrefix.
Complete == Range(result) = {p \in Payloads : Sighted(p) # {}}
InOrder  == \A m, l \in 1..Len(result) : m < l =>
              \E a \in Sighted(result[m]) : \A b \in Sighted(result[l]) : Before(a, b)
Stopped  == \A i \in 1..Len(taken) :
              Stops(taken[i]) => i = Len(taken) /\ consumer = "returned"

\* What is sought stays as long as nothing is taken and the result stays.
LEMMA ResultKept ==
  ASSUME ResultIsPrefix, UNCHANGED <<taken, result>>,
         consumer' = consumer \/ consumer' = "returned"
  PROVE  ResultIsPrefix'
BY DEF ResultIsPrefix, Sighted, Places, Range

\* An end mark or an error adds nothing.
LEMMA ResultStop ==
  ASSUME StreamTypeOK, ResultIsPrefix, Take, Stops(Head(channel))
  PROVE  ResultIsPrefix'
<1>. DEFINE e == Head(channel)
            n == Len(taken)
<1>1. /\ e \in Event /\ taken' = Append(taken, e) /\ Stops(e)
      /\ result' = result /\ consumer = "ranging" /\ consumer' = "returned"
  BY DEF Take, StreamTypeOK
<1>. HIDE DEF e
<1>2. /\ n \in Nat /\ Len(taken') = n + 1 /\ \A i \in 1..n : taken'[i] = taken[i]
      /\ 1..(n + 1) = (1..n) \cup {n + 1}
  BY <1>1 DEF StreamTypeOK
<1>3. ASSUME NEW p PROVE Sighted(p)' = Sighted(p)
  <2>1. \A a : a \in Sighted(p)' <=> a \in Sighted(p)
    BY <1>1, SightedTake
  <2>2. QED
    BY <2>1
<1>4. Complete'
  BY <1>1, <1>3 DEF ResultIsPrefix, Complete
<1>5. InOrder'
  <2>1. ASSUME NEW p, NEW q PROVE
          (\E a \in Sighted(p)' : \A b \in Sighted(q)' : Before(a, b)) <=>
          (\E a \in Sighted(p) : \A b \in Sighted(q) : Before(a, b))
    BY <1>3
  <2>. SUFFICES ASSUME NEW m \in 1..Len(result'), NEW l \in 1..Len(result'), m < l,
                       NEW p, NEW q, p = result'[m], q = result'[l]
                PROVE  \E a \in Sighted(p)' : \A b \in Sighted(q)' : Before(a, b)
    BY DEF InOrder, Sighted
  <2>2. QED
    BY <1>1, <2>1 DEF ResultIsPrefix
<1>6. Stopped'
  BY <1>1, <1>2 DEF ResultIsPrefix, Stopped
<1>7. QED
  BY <1>4, <1>5, <1>6 DEF ResultIsPrefix, Complete, InOrder, Stopped

\* Any other event adds what was not known, behind what was.
LEMMA ResultGrows ==
  ASSUME StreamTypeOK, ResultIsPrefix, Take, ~Stops(Head(channel))
  PROVE  ResultIsPrefix'
<1>. DEFINE e == Head(channel)
            n == Len(taken)
            r == Len(result)
            N == NewRefs(result, e)
            A == NewAt(result, e)
<1>1. /\ e \in Event /\ taken' = Append(taken, e) /\ ~Stops(e)
      /\ result' = result \o N /\ consumer = "ranging" /\ consumer' = "ranging"
  BY DEF Take, StreamTypeOK
<1>. HIDE DEF e
<1>2. /\ n \in Nat /\ Len(taken') = n + 1 /\ taken'[n + 1] = e
      /\ \A i \in 1..n : taken'[i] = taken[i]
      /\ 1..(n + 1) = (1..n) \cup {n + 1}
  BY <1>1 DEF StreamTypeOK
<1>3. /\ result \in Seq(Payloads) /\ N \in Seq(Payloads) /\ r \in Nat /\ Len(N) \in Nat
      /\ Len(result') = r + Len(N)
      /\ \A m \in 1..r : result'[m] = result[m]
      /\ \A m \in 1..Len(N) : result'[r + m] = N[m]
  <2>1. result \in Seq(Payloads) /\ N \in Seq(Payloads)
    BY <1>1, NewRefsType DEF StreamTypeOK
  <2>. HIDE DEF N
  <2>2. QED
    BY <1>1, <2>1
<1>4. /\ A \subseteq 1..Len(e) /\ Len(e) \in Nat /\ \A i \in A : e[i] \in Payloads \ Range(result)
  BY <1>1, NewAtPositions
<1>5. /\ \A m \in 1..Len(N) : Nth(A, m) \in A /\ N[m] = e[Nth(A, m)]
      /\ \A m, l \in 1..Len(N) : m < l => Nth(A, m) < Nth(A, l)
      /\ \A i \in 1..Len(e) : e[i] \in Payloads \ Range(result) =>
           \E m \in 1..Len(N) : N[m] = e[i]
      /\ \A i \in A : \A j \in 1..Len(e) : e[j] = e[i] => i <= j
  BY <1>1, NewRefsSeen
<1>6. ASSUME NEW p, NEW a
      PROVE  a \in Sighted(p)' <=>
               a \in Sighted(p) \/ \E k \in 1..Len(e) : a = <<n + 1, k>> /\ e[k] = p
  BY <1>1, SightedTake
<1>7. \A p : \A a \in Sighted(p) : a[1] \in 1..n /\ a[1] < n + 1
  BY SightedOld
<1>8. Range(result) = {p \in Payloads : Sighted(p) # {}}
  BY DEF ResultIsPrefix
<1>. HIDE DEF n, r, N, A
<1>9. Range(result') = Range(result) \cup Range(N)
  <2>1. \A m \in 1..(r + Len(N)) : m \in 1..r \/ \E l \in 1..Len(N) : m = r + l
    <3>. SUFFICES ASSUME NEW m \in 1..(r + Len(N)), m \notin 1..r
                  PROVE  \E l \in 1..Len(N) : m = r + l
      OBVIOUS
    <3>1. m - r \in 1..Len(N) /\ m = r + (m - r)
      BY <1>3
    <3>2. QED
      BY <3>1
  <2>2. (\A m \in 1..r : m \in 1..(r + Len(N)))
        /\ \A l \in 1..Len(N) : r + l \in 1..(r + Len(N))
    BY <1>3
  <2>3. Range(result) = {result[m] : m \in 1..r} /\ Range(N) = {N[m] : m \in 1..Len(N)}
    BY <1>3 DEF Range, r
  <2>4. Range(result') = {result'[m] : m \in 1..(r + Len(N))}
    <3>1. result' \in Seq(Payloads)
      BY <1>1, <1>3
    <3>2. QED
      BY <1>3, <3>1 DEF Range
  <2>5. \A m \in 1..(r + Len(N)) : result'[m] \in Range(result) \cup Range(N)
    BY <1>3, <2>1, <2>3
  <2>6. \A p \in Range(result) \cup Range(N) : \E m \in 1..(r + Len(N)) : result'[m] = p
    BY <1>3, <2>2, <2>3
  <2>7. QED
    BY <2>4, <2>5, <2>6
<1>10. Complete'
  <2>1. ASSUME NEW p \in Range(N) PROVE p \in Payloads /\ Sighted(p)' # {}
    <3>1. PICK m \in 1..Len(N) : p = N[m]
      BY <1>3 DEF Range
    <3>2. Nth(A, m) \in 1..Len(e) /\ p = e[Nth(A, m)] /\ p \in Payloads
      BY <1>4, <1>5, <3>1
    <3>3. <<n + 1, Nth(A, m)>> \in Sighted(p)'
      BY <1>6, <3>2
    <3>4. QED
      BY <3>2, <3>3
  <2>2. ASSUME NEW p \in Payloads, Sighted(p)' # {}, p \notin Range(result)
        PROVE  p \in Range(N)
    <3>1. PICK k \in 1..Len(e) : e[k] = p
      BY <1>6, <1>8, <2>2
    <3>2. PICK m \in 1..Len(N) : N[m] = p
      BY <1>5, <2>2, <3>1
    <3>3. QED
      BY <1>3, <3>2 DEF Range
  <2>3. \A p \in Range(result) : p \in Payloads /\ Sighted(p)' # {}
    BY <1>6, <1>8
  <2>4. QED
    BY <1>9, <2>1, <2>2, <2>3 DEF Complete
<1>11. \A m \in 1..Len(N) : N[m] \in Payloads \ Range(result) /\ Sighted(N[m]) = {}
  BY <1>4, <1>5, <1>8
<1>12. InOrder'
  <2>. SUFFICES ASSUME NEW m \in 1..Len(result'), NEW l \in 1..Len(result'), m < l,
                       NEW p, NEW q, p = result'[m], q = result'[l]
                PROVE  \E a \in Sighted(p)' : \A b \in Sighted(q)' : Before(a, b)
    BY DEF InOrder, Sighted
  <2>1. CASE l \in 1..r
    <3>1. m \in 1..r /\ p = result[m] /\ q = result[l]
      BY <1>3, <2>1
    <3>2. PICK a \in Sighted(p) : \A b \in Sighted(q) : Before(a, b)
      BY <2>1, <3>1 DEF ResultIsPrefix, r
    <3>3. a \in Sighted(p)'
      BY <1>6
    <3>4. ASSUME NEW b \in Sighted(q)' PROVE Before(a, b)
      <4>1. CASE b \in Sighted(q)
        BY <3>2, <4>1
      <4>2. CASE b \notin Sighted(q)
        <5>1. b[1] = n + 1
          BY <1>6, <4>2
        <5>2. QED
          BY <1>7, <3>2, <5>1 DEF Before
      <4>3. QED
        BY <4>1, <4>2
    <3>5. QED
      BY <3>3, <3>4
  <2>2. CASE l \notin 1..r
    <3>. DEFINE k == l - r
    <3>1. k \in 1..Len(N) /\ l = r + k
      BY <1>3, <2>2
    <3>. HIDE DEF k
    <3>2. q = N[k] /\ Sighted(q) = {} /\ Nth(A, k) \in A /\ q = e[Nth(A, k)]
      BY <1>3, <1>5, <1>11, <3>1
    <3>3. \A b \in Sighted(q)' : \E j \in 1..Len(e) : b = <<n + 1, j>> /\ e[j] = q
      BY <1>6, <3>2
    <3>4. CASE m \in 1..r
      <4>1. p = result[m] /\ p \in Range(result)
        BY <1>3, <3>4 DEF Range, r
      <4>2. PICK a \in Sighted(p) : TRUE
        BY <1>8, <4>1
      <4>3. a \in Sighted(p)' /\ a[1] < n + 1
        BY <1>6, <1>7, <4>2
      <4>4. \A b \in Sighted(q)' : Before(a, b)
        BY <3>3, <4>3 DEF Before
      <4>5. QED
        BY <4>3, <4>4
    <3>5. CASE m \notin 1..r
      <4>. DEFINE h == m - r
      <4>1. h \in 1..Len(N) /\ m = r + h /\ h < k
        BY <1>3, <3>1, <3>5
      <4>. HIDE DEF h
      <4>2. /\ Nth(A, h) \in A /\ p = e[Nth(A, h)]
            /\ Nth(A, h) < Nth(A, k)
        BY <1>3, <1>5, <3>1, <4>1
      <4>3. Nth(A, h) \in 1..Len(e) /\ Nth(A, h) \in Nat /\ Nth(A, k) \in Nat
        <5>1. Nth(A, h) \in 1..Len(e) /\ Nth(A, k) \in 1..Len(e)
          BY <1>4, <3>2, <4>2
        <5>2. QED
          BY <1>4, <5>1
      <4>. DEFINE a == <<n + 1, Nth(A, h)>>
      <4>4. a \in Sighted(p)'
        BY <1>6, <4>2, <4>3
      <4>5. ASSUME NEW b \in Sighted(q)' PROVE Before(a, b)
        <5>1. PICK j \in 1..Len(e) : b = <<n + 1, j>> /\ e[j] = q
          BY <3>3
        <5>2. Nth(A, k) <= j
          BY <1>5, <3>2, <5>1
        <5>3. Nth(A, h) < j
          <6>1. j \in Nat
            BY <1>4
          <6>2. QED
            BY <4>2, <4>3, <5>2, <6>1
        <5>4. QED
          BY <5>1, <5>3 DEF Before
      <4>6. QED
        BY <4>4, <4>5
    <3>6. QED
      BY <3>4, <3>5
  <2>3. QED
    BY <2>1, <2>2
<1>13. Stopped'
  <2>1. \A i \in 1..n : ~Stops(taken[i])
    BY <1>1 DEF ResultIsPrefix, n
  <2>2. QED
    BY <1>1, <1>2, <2>1 DEF Stopped
<1>14. QED
  BY <1>10, <1>12, <1>13 DEF ResultIsPrefix, Complete, InOrder, Stopped

LEMMA ResultStep ==
  StreamTypeOK /\ ResultIsPrefix /\ [StreamNext]_streamVars => ResultIsPrefix'
<1>. SUFFICES ASSUME StreamTypeOK, ResultIsPrefix, [StreamNext]_streamVars
              PROVE  ResultIsPrefix'
  OBVIOUS
<1>1. CASE ReadLine \/ EndOfBody \/ ReadFails \/ Send \/ Close \/ Cancel \/ UNCHANGED streamVars
  <2>1. UNCHANGED <<taken, result, consumer>>
    BY <1>1 DEF ReadLine, EndOfBody, ReadFails, Send, Close, Cancel, streamVars
  <2>2. QED
    BY <2>1, ResultKept
<1>2. CASE Take
  BY <1>2, ResultStop, ResultGrows
<1>3. CASE RangeEnds
  BY <1>3, ResultKept DEF RangeEnds
<1>4. QED
  BY <1>1, <1>2, <1>3 DEF StreamNext

LEMMA ResultInit == StreamInit => ResultIsPrefix
<1>. SUFFICES ASSUME StreamInit PROVE ResultIsPrefix
  OBVIOUS
<1>1. taken = <<>> /\ result = <<>> /\ Len(<<>>) = 0 /\ 1..0 = {} /\ DOMAIN <<>> = {}
  BY DEF StreamInit
<1>2. Range(result) = {} /\ Places = {}
  BY <1>1 DEF Range, Places
<1>3. QED
  BY <1>1, <1>2 DEF ResultIsPrefix, Sighted

\* What ParseImageSSE reports is what the events before the end mark or an error
\* carry, each reference once, in the order of its first arrival.
THEOREM StreamResultIsPrefix == StreamSpec => []ResultIsPrefix
<1>1. StreamInit => ResultIsPrefix
  BY ResultInit
<1>2. StreamTypeOK /\ ResultIsPrefix /\ [StreamNext]_streamVars => ResultIsPrefix'
  BY ResultStep
<1>3. QED
  BY <1>1, <1>2, StreamInvariant, PTL DEF StreamSpec

=============================================================================
