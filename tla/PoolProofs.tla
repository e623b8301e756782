----------------------------- MODULE PoolProofs -----------------------------
(***************************************************************************)
(* Safety of the account pool for every set of jobs, objects and            *)
(* configurations, duplicate names and empty lists included.                *)
(*                                                                          *)
(* LeaseExclusive is kept by Reload because an object it allocates is one   *)
(* no lease refers to, and by Release because the lease points to the       *)
(* object itself; the rest of the invariant says which snapshots exist and  *)
(* that a time a job has read is not in the future.  The failure policy     *)
(* adds that no recorded failure is.                                        *)
(***************************************************************************)
EXTENDS Pool, FiniteSetTheorems, WellFoundedInduction, TLAPS

(* Least and greatest elements of sets of natural numbers.                  *)

\* A non-empty set of natural numbers has a least element; the code's scans
\* return the first match of a list.
LEMMA LeastExists ==
  ASSUME NEW T, T \subseteq Nat, T # {}
  PROVE  \E x \in T : \A y \in T : x <= y
<1> DEFINE R == {ss \in Nat \X Nat : ss[1] < ss[2]}
<1>1. IsWellFoundedOn(R, Nat)
  BY NatLessThanWellFounded DEF OpToRel
<1>2. PICK x \in T : \A y \in T : ~ (<<y, x>> \in R)
  <2> HIDE DEF R
  <2> QED BY <1>1, WFMin
<1>3. \A y \in T : x <= y
  <2> TAKE y \in T
  <2>1. x \in Nat /\ y \in Nat
    OBVIOUS
  <2>2. ~(y < x)
    BY <1>2, <2>1
  <2>3. QED BY <2>1, <2>2
<1>4. QED BY <1>3

\* A bounded one has a greatest; the code's maps keep the last entry of a name.
LEMMA GreatestExists ==
  ASSUME NEW n \in Nat, NEW T, T \subseteq 0..n, T # {}
  PROVE  \E x \in T : \A y \in T : y <= x
<1> DEFINE U == {n - x : x \in T}
<1>1. U \subseteq Nat
  <2> SUFFICES ASSUME NEW x \in T PROVE n - x \in Nat
    OBVIOUS
  <2> x \in 0..n
    OBVIOUS
  <2> QED OBVIOUS
<1>2. U # {}
  OBVIOUS
<1>3. PICK u \in U : \A v \in U : u <= v
  <2> HIDE DEF U
  <2> QED BY <1>1, <1>2, LeastExists
<1>4. PICK x \in T : u = n - x
  OBVIOUS
<1>5. \A y \in T : y <= x
  <2> TAKE y \in T
  <2>1. x \in 0..n /\ y \in 0..n
    OBVIOUS
  <2>2. n - x <= n - y
    BY <1>3, <1>4
  <2>3. QED BY <2>1, <2>2
<1>6. QED BY <1>5

-----------------------------------------------------------------------------

\* Every listed object has a snapshot, and so has every lease.
SnapshotsKnown ==
  /\ \A o \in Listed : snapshot[o] \in Account
  /\ \A j \in Jobs : pc[j] \in {"leased", "recording", "released"} =>
       lease[j] \in Objects /\ held[j] \in Account

\* A time that was read and is still to be used is not in the future.
ReadingsPast ==
  \A j \in Jobs : pc[j] \in {"looking", "recording"} => now[j] \in 1..clock

FailuresFinite == \A n \in Names : IsFiniteSet(failures[n])

IInv ==
  /\ TypeOK
  /\ LeaseExclusive
  /\ SnapshotsKnown
  /\ ReadingsPast
  /\ FailuresFinite

-----------------------------------------------------------------------------
(* Lemmas about the operators of the model.                                  *)

LEMMA AccountsTyped ==
  ASSUME TypeOK
  PROVE  /\ Len(accounts) \in Nat
         /\ \A i \in 1..Len(accounts) : accounts[i] \in Objects
         /\ Listed \subseteq Objects
BY DEF TypeOK, Listed

\* The first listed account of a name is an object of the list with that name.
LEMMA FirstOfListed ==
  ASSUME TypeOK, NEW n, IsListed(n)
  PROVE  FirstOf(n) \in Listed /\ snapshot[FirstOf(n)].name = n
<1> DEFINE found == {i \in 1..Len(accounts) : snapshot[accounts[i]].name = n}
<1>1. found \subseteq Nat /\ found # {}
  BY AccountsTyped DEF IsListed, Listed
<1>2. \E x \in found : \A y \in found : x <= y
  <2> HIDE DEF found
  <2> QED BY <1>1, LeastExists
<1>3. (CHOOSE i \in found : \A k \in found : i <= k) \in found
  <2> HIDE DEF found
  <2> QED BY <1>2
<1>4. QED BY <1>3 DEF FirstOf, Listed

\* The same for the object that the map of existing accounts keeps.
LEMMA ExistingListed ==
  ASSUME TypeOK, NEW n, IsListed(n)
  PROVE  Existing(n) \in Listed /\ snapshot[Existing(n)].name = n
<1> DEFINE found == {i \in 1..Len(accounts) : snapshot[accounts[i]].name = n}
<1>1. found \subseteq 0..Len(accounts) /\ found # {} /\ Len(accounts) \in Nat
  BY AccountsTyped DEF IsListed, Listed
<1>2. \E x \in found : \A y \in found : y <= x
  <2> HIDE DEF found
  <2> QED BY <1>1, GreatestExists
<1>3. (CHOOSE i \in found : \A k \in found : k <= i) \in found
  <2> HIDE DEF found
  <2> QED BY <1>2
<1>4. QED BY <1>3 DEF Existing, Listed

\* An object that is placed is placed at its last entry.
LEMMA LastEntryPlaced ==
  ASSUME NEW n \in Nat, NEW place \in [1..n -> Objects],
         NEW o \in Placed(place)
  PROVE  LastEntry(place, o) \in 1..n /\ place[LastEntry(place, o)] = o
<1> DEFINE at == {i \in 1..n : place[i] = o}
<1>1. at \subseteq 0..n /\ at # {}
  BY DEF Placed
<1>2. PICK x \in at : \A y \in at : y <= x
  <2> HIDE DEF at
  <2> QED BY <1>1, GreatestExists
<1>3. QED BY <1>2 DEF LastEntry

\* A scan stays inside the list.
LEMMA IndexInList ==
  ASSUME TypeOK, NEW i \in Offsets
  PROVE  /\ IndexAt(i) \in 0..(Len(accounts) - 1)
         /\ At(i) \in Listed /\ At(i) \in Objects
         /\ Len(accounts) > 0
<1>1. /\ Len(accounts) \in Nat /\ Len(accounts) > 0
      /\ i \in Nat /\ nextIndex \in Nat
  BY AccountsTyped DEF TypeOK, Offsets
<1>2. IndexAt(i) \in 0..(Len(accounts) - 1)
  BY <1>1 DEF IndexAt
<1>3. IndexAt(i) + 1 \in 1..Len(accounts)
  BY <1>1, <1>2
<1>4. QED BY <1>1, <1>2, <1>3, AccountsTyped DEF At, Listed

LEMMA RecordedFinite ==
  ASSUME TypeOK, FailuresFinite, NEW n \in Names, NEW at \in Nat
  PROVE  /\ IsFiniteSet(Recorded(n, at))
         /\ Recorded(n, at) \in SUBSET (Nat \X Nat)
         /\ IsFiniteSet(Recent(n, at))
         /\ Recent(n, at) \in SUBSET (Nat \X Nat)
<1>1. Recent(n, at) \subseteq failures[n] /\ failures[n] \subseteq Nat \X Nat
  BY DEF TypeOK, StoreTypeOK, Recent
<1>2. IsFiniteSet(Recent(n, at))
  BY <1>1, FS_Subset DEF FailuresFinite
<1> DEFINE same == {f \in Recent(n, at) : f[1] = at}
<1>3. IsFiniteSet(same)
  BY <1>2, FS_Subset
<1>4. Cardinality(same) \in Nat
  BY <1>3, FS_CardinalityType
<1>5. Recorded(n, at) = Recent(n, at) \cup {<<at, Cardinality(same)>>}
  BY DEF Recorded
<1>6. IsFiniteSet(Recorded(n, at))
  <2> HIDE DEF same
  <2> QED BY <1>2, <1>5, FS_AddElement
<1>7. QED BY <1>1, <1>2, <1>4, <1>5, <1>6

LEMMA CooldownsTyped ==
  ASSUME StoreTypeOK
  PROVE  /\ \A read : WithoutExpired(read) \in [Names -> Nat]
         /\ \A n : \A until \in Nat : MarkedCooldown(n, until) \in [Names -> Nat]
BY DEF StoreTypeOK, WithoutExpired, CooldownUntil, MarkedCooldown

-----------------------------------------------------------------------------
(* The initial states.                                                       *)

LEMMA InitInvariant == Init => IInv
<1> SUFFICES ASSUME Init PROVE IInv OBVIOUS
<1>a. PICK cfg \in Configs : \E place \in [1..Len(cfg) -> Objects] :
        /\ accounts = place
        /\ snapshot = [o \in Objects |-> IF o \in Placed(place)
                                         THEN cfg[LastEntry(place, o)]
                                         ELSE Nobody]
  BY DEF Init
<1>1. PICK place \in [1..Len(cfg) -> Objects] :
        /\ accounts = place
        /\ snapshot = [o \in Objects |-> IF o \in Placed(place)
                                         THEN cfg[LastEntry(place, o)]
                                         ELSE Nobody]
  BY <1>a
<1>2. cfg \in Seq(Account) /\ Len(cfg) \in Nat
  BY PoolAssumption
<1>3. accounts \in Seq(Objects) /\ Len(accounts) = Len(cfg)
  BY <1>1, <1>2
<1>4. Listed = Placed(place) /\ Placed(place) \subseteq Objects
  BY <1>1, <1>2, <1>3 DEF Listed, Placed
<1>5. \A o \in Placed(place) : snapshot[o] \in Account
  <2> SUFFICES ASSUME NEW o \in Placed(place) PROVE snapshot[o] \in Account
    OBVIOUS
  <2>1. LastEntry(place, o) \in 1..Len(cfg)
    BY <1>2, LastEntryPlaced
  <2>2. QED BY <1>1, <1>2, <1>4, <2>1
<1>6. snapshot \in [Objects -> Account \cup {Nobody}]
  <2>1. \A o \in Objects : snapshot[o] \in Account \cup {Nobody}
    BY <1>1, <1>5
  <2>2. QED BY <1>1, <2>1
<1>7. Working = {}
  BY DEF Init, Working
<1>8. StoreTypeOK /\ FailuresFinite
  BY FS_EmptySet DEF Init, StoreInit, StoreTypeOK, FailuresFinite
<1>9. TypeOK
  BY <1>3, <1>6, <1>8, PoolAssumption DEF Init, TypeOK, PCs
<1>10. LeaseExclusive
  BY <1>7 DEF Init, LeaseExclusive
<1>11. SnapshotsKnown /\ ReadingsPast
  BY <1>4, <1>5 DEF Init, SnapshotsKnown, ReadingsPast
<1>12. QED BY <1>8, <1>9, <1>10, <1>11 DEF IInv

-----------------------------------------------------------------------------
(* Steps of a job that change neither leases nor accounts.                   *)

\* A step that keeps the list, the objects and the leases keeps the invariant
\* if it keeps the types, the job's place and the readings right.
LEMMA LeasesUntouched ==
  ASSUME IInv, TypeOK', FailuresFinite', ReadingsPast',
         UNCHANGED <<list, snapshot, busy, lease, held>>,
         \A j \in Jobs :
           /\ pc'[j] \in {"leased", "recording"}
                <=> pc[j] \in {"leased", "recording"}
           /\ pc'[j] = "released" => pc[j] = "released"
  PROVE  IInv'
<1>1. Working' = Working /\ Listed' = Listed
  BY DEF Working, Listed, list
<1>2. LeaseExclusive'
  BY <1>1 DEF IInv, LeaseExclusive, Working
<1>3. SnapshotsKnown'
  BY <1>1 DEF IInv, SnapshotsKnown
<1>4. QED BY <1>2, <1>3 DEF IInv

LEMMA LookInvariant ==
  ASSUME IInv, NEW j \in Jobs, Look(j)
  PROVE  IInv'
<1> USE DEF Look, Goto, store, list, entries, bounds
<1>1. TypeOK /\ TypeOK'
  BY DEF IInv, TypeOK, StoreTypeOK, PCs
<1>2. FailuresFinite'
  BY DEF IInv, FailuresFinite
<1>3. ReadingsPast'
  BY <1>1 DEF IInv, ReadingsPast, TypeOK, StoreTypeOK
<1>4. QED BY <1>1, <1>2, <1>3, LeasesUntouched DEF TypeOK

LEMMA MissInvariant ==
  ASSUME IInv, NEW j \in Jobs, Miss(j)
  PROVE  IInv'
<1> USE DEF Miss, Goto, list, entries, bounds
<1>1. TypeOK
  BY DEF IInv
<1>2. cooldown' \in [Names -> Nat]
  BY <1>1, CooldownsTyped DEF TypeOK
<1>3. TypeOK'
  BY <1>1, <1>2 DEF TypeOK, StoreTypeOK, PCs
<1>4. FailuresFinite'
  BY DEF IInv, FailuresFinite
<1>5. ReadingsPast'
  BY <1>1 DEF IInv, ReadingsPast, TypeOK
<1>6. QED BY <1>1, <1>3, <1>4, <1>5, LeasesUntouched DEF TypeOK

LEMMA NoAccountsInvariant ==
  ASSUME IInv, NEW j \in Jobs, NoAccounts(j)
  PROVE  IInv'
<1> USE DEF NoAccounts, Goto, store, list, entries, bounds
<1>1. TypeOK /\ TypeOK'
  BY DEF IInv, TypeOK, StoreTypeOK, PCs
<1>2. FailuresFinite'
  BY DEF IInv, FailuresFinite
<1>3. ReadingsPast'
  BY <1>1 DEF IInv, ReadingsPast, TypeOK
<1>4. QED BY <1>1, <1>2, <1>3, LeasesUntouched DEF TypeOK

LEMMA GiveUpInvariant ==
  ASSUME IInv, NEW j \in Jobs, GiveUp(j)
  PROVE  IInv'
<1> USE DEF GiveUp, Goto, store, list, entries, bounds
<1>1. TypeOK /\ TypeOK'
  BY DEF IInv, TypeOK, StoreTypeOK, PCs
<1>2. FailuresFinite'
  BY DEF IInv, FailuresFinite
<1>3. ReadingsPast'
  BY <1>1 DEF IInv, ReadingsPast, TypeOK
<1>4. QED BY <1>1, <1>2, <1>3, LeasesUntouched DEF TypeOK

LEMMA MarkCooldownInvariant ==
  ASSUME IInv, NEW j \in Jobs, MarkCooldown(j)
  PROVE  IInv'
<1> USE DEF MarkCooldown, Report, list, entries, jobs, bounds
<1>1. TypeOK /\ clock + RateCooldown \in Nat
  BY PoolAssumption DEF IInv, TypeOK, StoreTypeOK
<1>2. cooldown' \in [Names -> Nat]
  BY <1>1, CooldownsTyped DEF TypeOK, StoreTypeOK
<1>3. TypeOK'
  BY <1>1, <1>2 DEF TypeOK, StoreTypeOK
<1>4. FailuresFinite' /\ ReadingsPast'
  BY DEF IInv, FailuresFinite, ReadingsPast
<1>5. QED BY <1>3, <1>4, LeasesUntouched

LEMMA MarkPersonaInvariant ==
  ASSUME IInv, NEW j \in Jobs, NEW p \in Personas, MarkPersona(j, p)
  PROVE  IInv'
<1> USE DEF MarkPersona, Report, list, entries, jobs, bounds
<1>1. TypeOK'
  <2>1. TypeOK
    BY DEF IInv
  <2>2. persona' \in [Names -> Personas \cup {NoPersona}]
    BY <2>1 DEF TypeOK, StoreTypeOK
  <2>3. StoreTypeOK'
    BY <2>1, <2>2 DEF TypeOK, StoreTypeOK
  <2>4. QED BY <2>1, <2>3 DEF TypeOK
<1>2. FailuresFinite' /\ ReadingsPast'
  BY DEF IInv, FailuresFinite, ReadingsPast
<1>3. QED BY <1>1, <1>2, LeasesUntouched

LEMMA MarkUnauthorizedInvariant ==
  ASSUME IInv, NEW j \in Jobs, MarkUnauthorized(j)
  PROVE  IInv'
<1> USE DEF MarkUnauthorized, Report, store, list, jobs, bounds
<1>1. TypeOK
  BY DEF IInv
<1>2. FirstOf(held[j].name) \in Objects
  BY <1>1, FirstOfListed, AccountsTyped
<1>3. TypeOK'
  BY <1>1, <1>2 DEF TypeOK, StoreTypeOK
<1>4. FailuresFinite' /\ ReadingsPast'
  BY DEF IInv, FailuresFinite, ReadingsPast
<1>5. QED BY <1>3, <1>4, LeasesUntouched

LEMMA RecordBeginInvariant ==
  ASSUME IInv, NEW j \in Jobs, RecordBegin(j)
  PROVE  IInv'
<1> USE DEF RecordBegin, Report, Goto, store, list, entries, bounds
<1>1. TypeOK /\ TypeOK'
  BY DEF IInv, TypeOK, StoreTypeOK, PCs
<1>2. FailuresFinite'
  BY DEF IInv, FailuresFinite
<1>3. ReadingsPast'
  BY <1>1 DEF IInv, ReadingsPast, TypeOK, StoreTypeOK
<1>4. QED BY <1>1, <1>2, <1>3, LeasesUntouched DEF TypeOK

LEMMA CountFailureTyped ==
  ASSUME IInv, NEW n \in Names, NEW at \in Nat, NEW q, NEW rec,
         CountFailure(n, at, q, rec)
  PROVE  /\ cooldown' \in [Names -> Nat]
         /\ failures' \in [Names -> SUBSET (Nat \X Nat)]
         /\ FailuresFinite'
<1>1. TypeOK /\ FailuresFinite /\ StoreTypeOK
  BY DEF IInv, TypeOK
<1>2. at + PolicyCooldown(q) \in Nat
  BY StoreAssumption DEF PolicyCooldown
<1>3. MarkedCooldown(n, at + PolicyCooldown(q)) \in [Names -> Nat]
  BY <1>1, <1>2, CooldownsTyped
<1>4. cooldown' \in [Names -> Nat]
  BY <1>1, <1>3 DEF CountFailure, StoreTypeOK
<1>5. IsFiniteSet(Recorded(n, at)) /\ Recorded(n, at) \in SUBSET (Nat \X Nat)
  BY <1>1, RecordedFinite
<1>6. \/ failures' = failures
      \/ failures' = [failures EXCEPT ![n] = Recorded(n, at)]
  BY DEF CountFailure
<1>7. failures' \in [Names -> SUBSET (Nat \X Nat)]
  BY <1>1, <1>5, <1>6 DEF StoreTypeOK
<1>8. FailuresFinite'
  BY <1>1, <1>5, <1>6 DEF FailuresFinite, StoreTypeOK
<1>9. QED BY <1>4, <1>7, <1>8

LEMMA RecordInvariant ==
  ASSUME IInv, NEW j \in Jobs, NEW p \in Personas \cup {NoPersona},
         RecordNoImageFailure(j, p)
  PROVE  IInv'
<1> USE DEF Goto, list, entries, bounds
<1>0. PICK q \in PolicyPersonas(held[j].name, p), rec \in Outcomes :
        RecordFailure(j, p, q, rec)
  BY DEF RecordNoImageFailure
<1> USE <1>0 DEF RecordFailure
<1>1. TypeOK
  BY DEF IInv
<1>2. now[j] \in Nat /\ held[j] \in Account
  BY <1>1 DEF IInv, SnapshotsKnown, TypeOK
<1>3. held[j].name \in Names
  BY <1>2 DEF Account
<1>4. /\ cooldown' \in [Names -> Nat]
      /\ failures' \in [Names -> SUBSET (Nat \X Nat)]
      /\ FailuresFinite'
  <2>1. CASE IsListed(held[j].name)
    BY <1>2, <1>3, <2>1, CountFailureTyped
  <2>2. CASE ~IsListed(held[j].name)
    BY <1>1, <2>2 DEF IInv, TypeOK, StoreTypeOK, FailuresFinite, store
  <2>3. QED BY <2>1, <2>2
<1>5. persona' \in [Names -> Personas \cup {NoPersona}]
  BY <1>1 DEF TypeOK, StoreTypeOK, store
<1>6. TypeOK'
  BY <1>1, <1>4, <1>5 DEF TypeOK, StoreTypeOK, PCs
<1>7. ReadingsPast'
  BY <1>1 DEF IInv, ReadingsPast, TypeOK
<1>8. QED BY <1>1, <1>4, <1>6, <1>7, LeasesUntouched DEF TypeOK

LEMMA StatesInvariant ==
  ASSUME IInv, States
  PROVE  IInv'
<1> USE DEF States, list, entries, jobs, bounds
<1>1. TypeOK /\ StoreTypeOK /\ FailuresFinite
  BY DEF IInv, TypeOK
<1>2. cooldown' \in [Names -> Nat]
  BY <1>1, CooldownsTyped
<1>3. \A n \in Names : /\ failures'[n] \in SUBSET (Nat \X Nat)
                       /\ IsFiniteSet(failures'[n])
  BY <1>1, RecordedFinite DEF StoreTypeOK, FailuresFinite
<1>4. failures' \in [Names -> SUBSET (Nat \X Nat)]
  BY <1>3
<1>5. TypeOK'
  BY <1>1, <1>2, <1>4 DEF TypeOK, StoreTypeOK
<1>6. FailuresFinite' /\ ReadingsPast'
  BY <1>3 DEF IInv, FailuresFinite, ReadingsPast
<1>7. QED BY <1>5, <1>6, LeasesUntouched

LEMMA TickInvariant ==
  ASSUME IInv, Tick
  PROVE  IInv'
<1> USE DEF Tick, store, list, entries, jobs, bounds
<1>1. TypeOK'
  BY DEF IInv, TypeOK, StoreTypeOK
<1>2. FailuresFinite'
  BY DEF IInv, FailuresFinite
<1>3. ReadingsPast'
  BY DEF IInv, ReadingsPast, TypeOK, StoreTypeOK
<1>4. QED BY <1>1, <1>2, <1>3, LeasesUntouched

LEMMA CtxDoneInvariant ==
  ASSUME IInv, NEW j \in Jobs, CtxDone(j)
  PROVE  IInv'
<1> USE DEF CtxDone, store, list, entries, bounds
<1>1. TypeOK'
  BY DEF IInv, TypeOK, StoreTypeOK
<1>2. FailuresFinite' /\ ReadingsPast'
  BY DEF IInv, FailuresFinite, ReadingsPast
<1>3. QED BY <1>1, <1>2, LeasesUntouched

-----------------------------------------------------------------------------
(* Steps that change leases or accounts.                                     *)

LEMMA GrantInvariant ==
  ASSUME IInv, NEW j \in Jobs, Grant(j)
  PROVE  IInv'
<1> USE DEF Grant, Goto, bounds
<1>1. TypeOK
  BY DEF IInv
<1>2. PICK errs \in ReadErrors, i \in Offsets :
        /\ Usable(j, i, errs)
        /\ busy' = busy \cup {At(i)}
        /\ nextIndex' = (IndexAt(i) + 1) % Len(accounts)
        /\ lease' = [lease EXCEPT ![j] = At(i)]
        /\ held' = [held EXCEPT ![j] = snapshot[At(i)]]
        /\ cooldown' = WithoutExpired(ReadUpTo(i, errs))
  OBVIOUS
<1>3. /\ At(i) \in Listed /\ At(i) \in Objects
      /\ IndexAt(i) \in 0..(Len(accounts) - 1)
      /\ Len(accounts) \in Nat /\ Len(accounts) > 0
  BY <1>1, IndexInList, AccountsTyped
<1>4. snapshot[At(i)] \in Account /\ At(i) \notin busy
  BY <1>2, <1>3 DEF IInv, SnapshotsKnown, Usable, OutOfService
<1>5. nextIndex' \in Nat /\ nextIndex' < Len(accounts)
  BY <1>2, <1>3
<1>6. cooldown' \in [Names -> Nat]
  BY <1>1, <1>2, CooldownsTyped DEF TypeOK
<1>7. TypeOK'
  BY <1>1, <1>2, <1>3, <1>4, <1>5, <1>6 DEF TypeOK, StoreTypeOK, PCs
<1>8. Working' = Working \cup {j} /\ j \notin Working
  BY <1>1 DEF Working, TypeOK
<1>9. LeaseExclusive'
  BY <1>1, <1>2, <1>4, <1>8 DEF IInv, LeaseExclusive, Working, TypeOK
<1>10. SnapshotsKnown'
  BY SMTT(30), <1>1, <1>2, <1>3, <1>4 DEF IInv, SnapshotsKnown, Listed, TypeOK
<1>11. ReadingsPast' /\ FailuresFinite'
  BY <1>1 DEF IInv, ReadingsPast, FailuresFinite, TypeOK
<1>12. QED BY <1>7, <1>9, <1>10, <1>11 DEF IInv

LEMMA ReleaseInvariant ==
  ASSUME IInv, NEW j \in Jobs, Release(j)
  PROVE  IInv'
<1> USE DEF Release, OnceDone, ReleasedObject, Goto, store, list, bounds
<1>1. TypeOK /\ lease[j] \in Objects
  BY DEF IInv, SnapshotsKnown
<1>2. TypeOK'
  BY <1>1 DEF TypeOK, StoreTypeOK, PCs
<1>3. Working' = Working \ {j}
  BY <1>1 DEF Working, TypeOK
<1>4. LeaseExclusive'
  BY <1>1, <1>3 DEF IInv, LeaseExclusive, Working, TypeOK
<1>5. SnapshotsKnown'
  BY <1>1 DEF IInv, SnapshotsKnown, Listed, TypeOK
<1>6. ReadingsPast' /\ FailuresFinite'
  BY <1>1 DEF IInv, ReadingsPast, FailuresFinite, TypeOK
<1>7. QED BY <1>2, <1>4, <1>5, <1>6 DEF IInv

LEMMA NewJobInvariant ==
  ASSUME IInv, NEW j \in Jobs, NewJob(j)
  PROVE  IInv'
<1> USE DEF NewJob, Goto, store, list, entries, bounds
<1>1. TypeOK
  BY DEF IInv
<1>2. TypeOK'
  BY <1>1 DEF TypeOK, StoreTypeOK, PCs
<1>3. Working' = Working /\ j \notin Working
  BY <1>1 DEF Working, TypeOK
<1>4. LeaseExclusive'
  BY <1>1, <1>3 DEF IInv, LeaseExclusive, Working, TypeOK
<1>5. SnapshotsKnown'
  BY <1>1 DEF IInv, SnapshotsKnown, Listed, TypeOK
<1>6. ReadingsPast' /\ FailuresFinite'
  BY <1>1 DEF IInv, ReadingsPast, FailuresFinite, TypeOK
<1>7. QED BY <1>2, <1>4, <1>5, <1>6 DEF IInv

LEMMA ReloadInvariant ==
  ASSUME IInv, NEW cfg \in Configs, NEW interval \in Intervals,
         Reload(cfg, interval)
  PROVE  IInv'
<1>1. PICK place \in Placements(cfg) :
        LET changed == AuthChanged(cfg, place)
            new     == Placed(place) \cap Fresh
        IN  /\ accounts' = place
            /\ snapshot' = [o \in Objects |-> IF o \in Placed(place)
                                              THEN cfg[LastEntry(place, o)]
                                              ELSE snapshot[o]]
            /\ busy' = busy \ new
            /\ disabled' = disabled \ (new \cup {place[i] : i \in changed})
            /\ lastUsedAt' = [o \in Objects |-> IF o \in new THEN 0
                                                             ELSE lastUsedAt[o]]
            /\ \E cleared \in SUBSET {cfg[i].name : i \in changed} :
                 Cleared(cleared)
  BY DEF Reload
<1>2. /\ TypeOK /\ cfg \in Seq(Account) /\ Len(cfg) \in Nat
      /\ place \in [1..Len(cfg) -> Objects]
      /\ interval \in Nat
  BY PoolAssumption DEF IInv, Placements
<1>3. accounts' \in Seq(Objects) /\ Len(accounts') = Len(cfg)
  BY <1>1, <1>2
<1>4. Listed' = Placed(place) /\ Placed(place) \subseteq Objects
  BY <1>1, <1>2, <1>3 DEF Listed, Placed
<1>5. \A o \in Placed(place) : cfg[LastEntry(place, o)] \in Account
  <2> SUFFICES ASSUME NEW o \in Placed(place)
               PROVE  cfg[LastEntry(place, o)] \in Account
    OBVIOUS
  <2>1. LastEntry(place, o) \in 1..Len(cfg)
    BY <1>2, LastEntryPlaced
  <2>2. QED BY <1>2, <2>1
<1>6. snapshot' \in [Objects -> Account \cup {Nobody}]
  <2>1. \A o \in Objects : snapshot'[o] \in Account \cup {Nobody}
    BY <1>1, <1>2, <1>5 DEF TypeOK
  <2>2. QED BY <1>1, <2>1
<1>7. /\ cooldown' \in [Names -> Nat]
      /\ persona' \in [Names -> Personas \cup {NoPersona}]
      /\ failures' \in [Names -> SUBSET (Nat \X Nat)]
      /\ FailuresFinite'
  BY <1>1, <1>2, FS_EmptySet
     DEF IInv, Cleared, TypeOK, StoreTypeOK, FailuresFinite
<1>8. /\ nextIndex' \in Nat
      /\ nextIndex' < Len(accounts') \/ nextIndex' = 0
  BY <1>2, <1>3 DEF Reload, NextIndexAfter, TypeOK
<1>9. busy' = busy
  <2>1. \A o \in busy : o \in Leased
    BY PoolAssumption
       DEF IInv, LeaseExclusive, Leased, Working, SnapshotsKnown
  <2>2. busy \cap Fresh = {}
    BY <2>1 DEF Fresh
  <2>3. QED BY <1>1, <2>2
<1>10. lastUsedAt' \in [Objects -> Nat]
  BY <1>1, <1>2 DEF TypeOK
<1>11. UNCHANGED <<clock, jobs, reports>> /\ reloads' \in Nat
       /\ minInterval' = interval
  BY <1>2 DEF Reload, TypeOK
<1>12. disabled' \subseteq Objects
  BY <1>1, <1>2 DEF TypeOK
<1>13. TypeOK'
  BY <1>2, <1>3, <1>6, <1>7, <1>8, <1>9, <1>10, <1>11, <1>12
     DEF TypeOK, StoreTypeOK, jobs
<1>14. LeaseExclusive'
  BY <1>9, <1>11 DEF IInv, LeaseExclusive, Working, jobs
<1>15. SnapshotsKnown'
  <2>1. \A o \in Listed' : snapshot'[o] \in Account
    BY <1>1, <1>4, <1>5
  <2>2. QED BY <1>11, <2>1 DEF IInv, SnapshotsKnown, jobs
<1>16. ReadingsPast'
  BY <1>11 DEF IInv, ReadingsPast, jobs
<1>17. QED BY <1>7, <1>13, <1>14, <1>15, <1>16 DEF IInv

-----------------------------------------------------------------------------

LEMMA StutterInvariant == IInv /\ UNCHANGED vars => IInv'
BY DEF vars, store, list, entries, jobs, bounds, IInv, TypeOK, StoreTypeOK,
       LeaseExclusive, SnapshotsKnown, ReadingsPast, FailuresFinite, Working,
       Listed

LEMMA JobStepInvariant ==
  ASSUME IInv, NEW j \in Jobs, JobStep(j)
  PROVE  IInv'
<1>1. CASE Look(j)
  BY <1>1, LookInvariant
<1>2. CASE Grant(j)
  BY <1>2, GrantInvariant
<1>3. CASE Miss(j)
  BY <1>3, MissInvariant
<1>4. CASE NoAccounts(j)
  BY <1>4, NoAccountsInvariant
<1>5. CASE GiveUp(j)
  BY <1>5, GiveUpInvariant
<1>6. CASE Release(j)
  BY <1>6, ReleaseInvariant
<1>7. CASE MarkCooldown(j)
  BY <1>7, MarkCooldownInvariant
<1>8. CASE \E p \in Personas : MarkPersona(j, p)
  BY <1>8, MarkPersonaInvariant
<1>9. CASE MarkUnauthorized(j)
  BY <1>9, MarkUnauthorizedInvariant
<1>10. CASE RecordBegin(j)
  BY <1>10, RecordBeginInvariant
<1>11. CASE \E p \in Personas \cup {NoPersona} : RecordNoImageFailure(j, p)
  BY <1>11, RecordInvariant
<1>12. CASE CtxDone(j)
  BY <1>12, CtxDoneInvariant
<1>13. CASE NewJob(j)
  BY <1>13, NewJobInvariant
<1>14. QED
  BY <1>1, <1>2, <1>3, <1>4, <1>5, <1>6, <1>7, <1>8, <1>9, <1>10, <1>11,
     <1>12, <1>13
     DEF JobStep

LEMMA NextInvariant == IInv /\ [Next]_vars => IInv'
BY JobStepInvariant, StatesInvariant, ReloadInvariant, TickInvariant,
   StutterInvariant
   DEF Next

\* The pool's invariant holds whatever jobs, reloads, marks and store failures do.
THEOREM PoolInvariant == Spec => []IInv
BY InitInvariant, NextInvariant, PTL DEF Spec

\* In every reachable state of every pool the variables have their types; the
\* round-robin index is inside the list.
THEOREM PoolTypeCorrect == Spec => []TypeOK
<1>1. IInv => TypeOK BY DEF IInv
<1>2. QED BY <1>1, PoolInvariant, PTL

\* An account object is busy exactly while one job holds an unreleased lease of
\* it, through every reload.
THEOREM PoolLeaseExclusive == Spec => []LeaseExclusive
<1>1. IInv => LeaseExclusive BY DEF IInv
<1>2. QED BY <1>1, PoolInvariant, PTL

-----------------------------------------------------------------------------

\* A scan that judged by an older time judged right: what was over then is over
\* when the lease is granted.
LEMMA GrantStep ==
  ASSUME IInv, NEW j \in Jobs, Grant(j)
  PROVE  LET o == lease'[j]
         IN  /\ o \in Listed \ disabled
             /\ clock >= cooldown[snapshot[o].name]
             /\ lastUsedAt[o] # 0 => clock - lastUsedAt[o] >= minInterval
<1>1. TypeOK
  BY DEF IInv
<1>2. PICK errs \in ReadErrors, i \in Offsets :
        Usable(j, i, errs) /\ lease' = [lease EXCEPT ![j] = At(i)]
  BY DEF Grant
<1>3. At(i) \in Listed /\ At(i) \in Objects /\ lease'[j] = At(i)
  BY <1>1, <1>2, IndexInList DEF TypeOK
<1>4. NameAt(i) = snapshot[At(i)].name /\ NameAt(i) \in Names
  BY <1>3 DEF IInv, SnapshotsKnown, NameAt, Account
<1>5. now[j] \in 1..clock /\ clock \in Nat
  BY <1>1 DEF IInv, ReadingsPast, Grant, TypeOK, StoreTypeOK
<1>6. clock >= cooldown[NameAt(i)]
  <2>1. cooldown[NameAt(i)] \in Nat
    BY <1>1, <1>4 DEF TypeOK, StoreTypeOK
  <2>2. ~CoolingDown(j, NameAt(i))
    BY <1>2 DEF Usable
  <2>3. QED BY <1>5, <2>1, <2>2 DEF CoolingDown, CooldownUntil
<1>7. lastUsedAt[At(i)] # 0 => clock - lastUsedAt[At(i)] >= minInterval
  <2>1. lastUsedAt[At(i)] \in Nat /\ minInterval \in Nat
    BY <1>1, <1>3 DEF TypeOK
  <2>2. ~TooSoon(j, At(i))
    BY <1>2 DEF Usable
  <2>3. QED BY <1>5, <2>1, <2>2 DEF TooSoon
<1>8. At(i) \notin disabled
  BY <1>2 DEF Usable, OutOfService
<1>9. QED BY <1>3, <1>4, <1>6, <1>7, <1>8

\* Only Grant turns a job that looks for an account into one that has a lease.
LEMMA OnlyGrantLeases ==
  ASSUME IInv, [Next]_vars, NEW j \in Jobs, pc[j] = "looking", pc'[j] = "leased"
  PROVE  Grant(j)
<1>1. pc \in [Jobs -> PCs]
  BY DEF IInv, TypeOK
<1>2. ~UNCHANGED pc
  BY <1>1
<1>3. PICK k \in Jobs : JobStep(k)
  BY <1>2 DEF Next, vars, jobs, States, Reload, Tick
<1>4. k = j
  BY <1>1, <1>2, <1>3
     DEF JobStep, Look, Grant, Miss, NoAccounts, GiveUp, Release, MarkCooldown,
         MarkPersona, MarkUnauthorized, RecordBegin, RecordNoImageFailure,
         RecordFailure, CtxDone, NewJob, Goto, jobs
<1>5. QED
  BY <1>1, <1>2, <1>3, <1>4
     DEF JobStep, Look, Grant, Miss, NoAccounts, GiveUp, Release, MarkCooldown,
         MarkPersona, MarkUnauthorized, RecordBegin, RecordNoImageFailure,
         RecordFailure, CtxDone, NewJob, Goto, jobs

\* An account is handed out only when it is listed, enabled, past its cooldown
\* and past min_interval at that very moment.
THEOREM PoolGrantHonoursMarks == Spec => GrantHonoursMarks
<1>1. IInv /\ [Next]_vars =>
        [\A j \in Jobs :
           pc[j] = "looking" /\ pc'[j] = "leased" =>
             LET o == lease'[j]
             IN  /\ o \in Listed \ disabled
                 /\ clock >= cooldown[snapshot[o].name]
                 /\ lastUsedAt[o] # 0 =>
                      clock - lastUsedAt[o] >= minInterval]_vars
  BY OnlyGrantLeases, GrantStep
<1>2. QED BY <1>1, PoolInvariant, PTL DEF Spec, GrantHonoursMarks

-----------------------------------------------------------------------------
(* Names, for configurations that do not use a name twice.                   *)

NoDuplicateNames ==
  \A cfg \in Configs : \A i, k \in 1..Len(cfg) :
    cfg[i].name = cfg[k].name => i = k

\* Listed objects differ in their names, and a lease keeps the name of its
\* object as long as that is listed.
NamesMatch ==
  /\ \A o, q \in Listed : snapshot[o].name = snapshot[q].name => o = q
  /\ \A j \in Working :
       lease[j] \in Listed => held[j].name = snapshot[lease[j]].name

LEMMA NamesSeparateLeases == IInv /\ NamesMatch => OneLeasePerListedName
BY DEF IInv, LeaseExclusive, NamesMatch, OneLeasePerListedName

LEMMA InitNames ==
  ASSUME NoDuplicateNames, Init
  PROVE  NamesMatch
<1>1. PICK cfg \in Configs : \E place \in [1..Len(cfg) -> Objects] :
        /\ \A i, k \in 1..Len(cfg) : place[i] = place[k] => i = k
        /\ accounts = place
        /\ snapshot = [o \in Objects |-> IF o \in Placed(place)
                                         THEN cfg[LastEntry(place, o)]
                                         ELSE Nobody]
  BY DEF Init
<1>2. PICK place \in [1..Len(cfg) -> Objects] :
        /\ accounts = place
        /\ snapshot = [o \in Objects |-> IF o \in Placed(place)
                                         THEN cfg[LastEntry(place, o)]
                                         ELSE Nobody]
  BY <1>1
<1>3. Len(cfg) \in Nat
  BY PoolAssumption
<1>4. Listed = Placed(place) /\ Placed(place) \subseteq Objects
  BY <1>2, <1>3 DEF Listed, Placed
<1>5. \A o \in Listed : /\ LastEntry(place, o) \in 1..Len(cfg)
                        /\ place[LastEntry(place, o)] = o
                        /\ snapshot[o] = cfg[LastEntry(place, o)]
  BY <1>2, <1>3, <1>4, LastEntryPlaced
<1>6. \A o, q \in Listed : snapshot[o].name = snapshot[q].name => o = q
  <2> SUFFICES ASSUME NEW o \in Listed, NEW q \in Listed,
                      snapshot[o].name = snapshot[q].name
               PROVE  o = q
    OBVIOUS
  <2>1. LastEntry(place, o) = LastEntry(place, q)
    BY <1>5 DEF NoDuplicateNames
  <2>2. QED BY <1>5, <2>1
<1>7. Working = {}
  BY DEF Init, Working
<1>8. QED BY <1>6, <1>7 DEF NamesMatch

LEMMA ReloadNames ==
  ASSUME NoDuplicateNames, IInv, NamesMatch, NEW cfg \in Configs,
         NEW interval \in Intervals, Reload(cfg, interval)
  PROVE  NamesMatch'
<1>1. PICK place \in Placements(cfg) :
        /\ accounts' = place
        /\ snapshot' = [o \in Objects |-> IF o \in Placed(place)
                                          THEN cfg[LastEntry(place, o)]
                                          ELSE snapshot[o]]
  BY DEF Reload
<1>2. /\ TypeOK /\ Len(cfg) \in Nat
      /\ place \in [1..Len(cfg) -> Objects]
      /\ UNCHANGED <<pc, lease, held>>
  BY PoolAssumption DEF IInv, Placements, Reload, jobs
<1>3. Listed' = Placed(place) /\ Placed(place) \subseteq Objects
  BY <1>1, <1>2 DEF Listed, Placed
<1>4. \A o \in Listed' : /\ LastEntry(place, o) \in 1..Len(cfg)
                         /\ place[LastEntry(place, o)] = o
                         /\ snapshot'[o] = cfg[LastEntry(place, o)]
  BY <1>1, <1>2, <1>3, LastEntryPlaced
<1>5. \A o, q \in Listed' : snapshot'[o].name = snapshot'[q].name => o = q
  <2> SUFFICES ASSUME NEW o \in Listed', NEW q \in Listed',
                      snapshot'[o].name = snapshot'[q].name
               PROVE  o = q
    OBVIOUS
  <2>1. LastEntry(place, o) = LastEntry(place, q)
    BY <1>4 DEF NoDuplicateNames
  <2>2. QED BY <1>4, <2>1
<1>6. \A j \in Working :
        lease[j] \in Listed' => held[j].name = snapshot'[lease[j]].name
  <2> SUFFICES ASSUME NEW j \in Working, lease[j] \in Listed'
               PROVE  held[j].name = snapshot'[lease[j]].name
    OBVIOUS
  <2> DEFINE o == lease[j]
             i == LastEntry(place, o)
  <2>1. i \in 1..Len(cfg) /\ place[i] = o /\ snapshot'[o] = cfg[i]
    BY <1>4
  <2>2. o \notin Fresh
    BY PoolAssumption
       DEF IInv, SnapshotsKnown, Working, Fresh, Leased
  <2>3. IsListed(cfg[i].name) /\ o = Existing(cfg[i].name)
    BY <2>1, <2>2 DEF Placements
  <2>4. o \in Listed /\ snapshot[o].name = cfg[i].name
    BY <1>2, <2>3, ExistingListed
  <2>5. QED BY <2>1, <2>4 DEF NamesMatch
<1>7. QED BY <1>2, <1>5, <1>6 DEF NamesMatch, Working

LEMMA GrantNames ==
  ASSUME IInv, NamesMatch, NEW j \in Jobs, Grant(j)
  PROVE  NamesMatch'
<1>1. TypeOK
  BY DEF IInv
<1>2. PICK i \in Offsets : /\ lease' = [lease EXCEPT ![j] = At(i)]
                           /\ held' = [held EXCEPT ![j] = snapshot[At(i)]]
  BY DEF Grant
<1>3. UNCHANGED <<accounts, snapshot>> /\ Working' = Working \cup {j}
  BY <1>1 DEF Grant, Goto, Working, TypeOK
<1>4. Listed' = Listed
  BY <1>3 DEF Listed
<1>5. \A k \in Working' :
        lease'[k] \in Listed => held'[k].name = snapshot[lease'[k]].name
  BY <1>1, <1>2, <1>3 DEF NamesMatch, TypeOK, Working
<1>6. QED BY <1>3, <1>4, <1>5 DEF NamesMatch

\* Every other step keeps the list and the snapshots, and gives no lease.
LEMMA OtherNames ==
  ASSUME NamesMatch, UNCHANGED <<accounts, snapshot>>,
         \A k \in Working' : /\ k \in Working
                             /\ lease'[k] = lease[k] /\ held'[k] = held[k]
  PROVE  NamesMatch'
<1>1. Listed' = Listed
  BY DEF Listed
<1>2. QED BY <1>1 DEF NamesMatch

LEMMA JobStepNames ==
  ASSUME IInv, NamesMatch, NEW j \in Jobs, JobStep(j)
  PROVE  NamesMatch'
<1>1. TypeOK
  BY DEF IInv
<1>2. CASE Grant(j)
  BY <1>2, GrantNames
<1>3. CASE NewJob(j)
  BY <1>1, <1>3, OtherNames DEF NewJob, Goto, list, entries, Working, TypeOK
<1>4. CASE Look(j) \/ Miss(j) \/ NoAccounts(j) \/ GiveUp(j) \/ Release(j)
  BY <1>1, <1>4, OtherNames
     DEF Look, Miss, NoAccounts, GiveUp, Release, Goto, list, entries, Working,
         TypeOK
<1>5. CASE \/ MarkCooldown(j)
           \/ \E p \in Personas : MarkPersona(j, p)
           \/ MarkUnauthorized(j)
           \/ CtxDone(j)
  BY <1>5, OtherNames
     DEF MarkCooldown, MarkPersona, MarkUnauthorized, CtxDone, list, entries,
         jobs, Working
<1>6. CASE \/ RecordBegin(j)
           \/ \E p \in Personas \cup {NoPersona} : RecordNoImageFailure(j, p)
  BY <1>1, <1>6, OtherNames
     DEF RecordBegin, RecordNoImageFailure, RecordFailure, Goto, list, entries,
         Working, TypeOK
<1>7. QED BY <1>2, <1>3, <1>4, <1>5, <1>6 DEF JobStep

LEMMA NextNames ==
  ASSUME NoDuplicateNames, IInv, NamesMatch, [Next]_vars
  PROVE  NamesMatch'
<1>1. CASE \E j \in Jobs : JobStep(j)
  BY <1>1, JobStepNames
<1>2. CASE States \/ Tick \/ UNCHANGED vars
  BY <1>2, OtherNames DEF States, Tick, vars, list, entries, jobs, Working
<1>3. CASE \E cfg \in Configs, interval \in Intervals : Reload(cfg, interval)
  BY <1>3, ReloadNames
<1>4. QED BY <1>1, <1>2, <1>3 DEF Next

\* If no configuration uses a name twice, two jobs work on one account name at
\* the same time only when a reload took the account out under one of them.
THEOREM PoolNames ==
  ASSUME NoDuplicateNames
  PROVE  Spec => []OneLeasePerListedName
<1>1. Init => NamesMatch
  BY InitNames
<1>2. IInv /\ NamesMatch /\ [Next]_vars => NamesMatch'
  BY NextNames
<1>3. QED BY <1>1, <1>2, PoolInvariant, NamesSeparateLeases, PTL DEF Spec

-----------------------------------------------------------------------------
(* Marks, for configurations that do not use a name twice.                    *)

\* An entry whose credentials changed got the listed object of its name, and that
\* object has the entry's credentials afterwards.
LEMMA ChangedEntry ==
  ASSUME NoDuplicateNames, IInv, NEW cfg \in Configs,
         NEW place \in Placements(cfg), NEW i \in AuthChanged(cfg, place)
  PROVE  /\ i \in 1..Len(cfg)
         /\ place[i] \in Listed /\ place[i] \in Placed(place)
         /\ snapshot[place[i]].name = cfg[i].name
         /\ LastEntry(place, place[i]) = i
         /\ snapshot[place[i]].cred # cfg[i].cred
<1>1. /\ TypeOK /\ Len(cfg) \in Nat
      /\ place \in [1..Len(cfg) -> Objects]
      /\ i \in 1..Len(cfg) /\ IsListed(cfg[i].name)
  BY PoolAssumption DEF IInv, Placements, AuthChanged
<1>2. place[i] = Existing(cfg[i].name)
  BY <1>1 DEF Placements
<1>3. place[i] \in Listed /\ snapshot[place[i]].name = cfg[i].name
  BY <1>1, <1>2, ExistingListed
<1>4. place[i] \in Placed(place)
  BY <1>1 DEF Placed
<1>5. ASSUME NEW k \in 1..Len(cfg), place[k] = place[i]
      PROVE  k = i
  <2>1. place[k] \notin Fresh
    BY <1>3, <1>5 DEF Fresh
  <2>2. IsListed(cfg[k].name) /\ place[k] = Existing(cfg[k].name)
    BY <1>1, <2>1 DEF Placements
  <2>3. snapshot[place[k]].name = cfg[k].name
    BY <1>1, <2>2, ExistingListed
  <2>4. QED BY <1>1, <1>3, <1>5, <2>3 DEF NoDuplicateNames
<1>6. LastEntry(place, place[i]) = i
  BY <1>1, <1>4, <1>5, LastEntryPlaced
<1>7. CredBefore(cfg, place, i) = snapshot[place[i]].cred
  <2>1. {k \in 1..(i - 1) : place[k] = place[i]} = {}
    BY <1>1, <1>5
  <2>2. QED BY <2>1 DEF CredBefore
<1>8. QED BY <1>1, <1>3, <1>4, <1>6, <1>7 DEF AuthChanged

\* What a reload does to marks.
LEMMA ReloadMarks ==
  ASSUME NoDuplicateNames, IInv, NEW cfg \in Configs, NEW interval \in Intervals,
         Reload(cfg, interval)
  PROVE  /\ \A o \in disabled \ disabled' :
              o \notin Listed \/ snapshot'[o].cred # snapshot[o].cred
         /\ \A n \in Names : cooldown'[n] < cooldown[n] =>
              \E o \in Listed \cap Listed' :
                /\ snapshot[o].name = n
                /\ snapshot'[o].cred # snapshot[o].cred
<1>1. PICK place \in Placements(cfg) :
        LET changed == AuthChanged(cfg, place)
            new     == Placed(place) \cap Fresh
        IN  /\ accounts' = place
            /\ snapshot' = [o \in Objects |-> IF o \in Placed(place)
                                              THEN cfg[LastEntry(place, o)]
                                              ELSE snapshot[o]]
            /\ disabled' = disabled \ (new \cup {place[i] : i \in changed})
            /\ \E cleared \in SUBSET {cfg[i].name : i \in changed} :
                 Cleared(cleared)
  BY DEF Reload
<1>2. /\ TypeOK /\ Len(cfg) \in Nat
      /\ place \in [1..Len(cfg) -> Objects]
  BY PoolAssumption DEF IInv, Placements
<1>3. Listed' = Placed(place) /\ Placed(place) \subseteq Objects
  BY <1>1, <1>2 DEF Listed, Placed
<1>4. \A i \in AuthChanged(cfg, place) :
        /\ place[i] \in Listed \cap Listed'
        /\ snapshot[place[i]].name = cfg[i].name
        /\ snapshot'[place[i]].cred # snapshot[place[i]].cred
  BY <1>1, <1>3, ChangedEntry
<1>5. \A o \in disabled \ disabled' :
        o \notin Listed \/ snapshot'[o].cred # snapshot[o].cred
  BY <1>1, <1>4 DEF Fresh
<1>6. ASSUME NEW n \in Names, cooldown'[n] < cooldown[n]
      PROVE  \E i \in AuthChanged(cfg, place) : cfg[i].name = n
  <2>1. cooldown[n] \in Nat
    BY <1>2 DEF TypeOK, StoreTypeOK
  <2>2. QED BY <1>1, <1>6, <2>1 DEF Cleared
<1>7. QED BY <1>4, <1>5, <1>6

\* Reading and marking keep a cooldown that still runs.
LEMMA StoreKeepsCooldown ==
  ASSUME StoreTypeOK, NEW n \in Names, clock < cooldown[n]
  PROVE  /\ \A read : ~(WithoutExpired(read)[n] < cooldown[n])
         /\ \A m : \A until \in Nat : ~(MarkedCooldown(m, until)[n] < cooldown[n])
BY DEF StoreTypeOK, WithoutExpired, CooldownUntil, MarkedCooldown

\* A step of a job enables no account and shortens no cooldown that still runs.
LEMMA JobStepMarks ==
  ASSUME IInv, NEW j \in Jobs, JobStep(j)
  PROVE  /\ disabled \subseteq disabled'
         /\ \A n \in Names : clock < cooldown[n] => ~(cooldown'[n] < cooldown[n])
<1>1. TypeOK /\ StoreTypeOK /\ \A n \in Names : cooldown[n] \in Nat
  BY DEF IInv, TypeOK, StoreTypeOK
<1>2. CASE UNCHANGED <<cooldown, disabled>>
  BY <1>1, <1>2
<1>3. CASE Grant(j) \/ Miss(j)
  <2>1. (\E read : cooldown' = WithoutExpired(read)) /\ UNCHANGED disabled
    BY <1>3 DEF Grant, Miss, entries
  <2>2. QED BY <1>1, <2>1, StoreKeepsCooldown
<1>4. CASE MarkCooldown(j)
  <2>1. clock + RateCooldown \in Nat
    BY <1>1, PoolAssumption DEF StoreTypeOK
  <2>2. QED BY <1>1, <1>4, <2>1, StoreKeepsCooldown DEF MarkCooldown, entries
<1>5. CASE MarkUnauthorized(j)
  BY <1>1, <1>5 DEF MarkUnauthorized, store
<1>6. CASE \E p \in Personas \cup {NoPersona} : RecordNoImageFailure(j, p)
  <2>1. PICK p \in Personas \cup {NoPersona} : RecordNoImageFailure(j, p)
    BY <1>6
  <2>2. PICK q \in PolicyPersonas(held[j].name, p), rec \in Outcomes :
          RecordFailure(j, p, q, rec)
    BY <2>1 DEF RecordNoImageFailure
  <2>3. now[j] + PolicyCooldown(q) \in Nat
    BY <1>1, StoreAssumption DEF TypeOK, PolicyCooldown
  <2>4. \/ UNCHANGED cooldown
        \/ cooldown' = MarkedCooldown(held[j].name, now[j] + PolicyCooldown(q))
    BY <2>2 DEF RecordFailure, CountFailure, store
  <2>5. UNCHANGED disabled
    BY <2>2 DEF RecordFailure, entries
  <2>6. QED BY <1>1, <2>3, <2>4, <2>5, StoreKeepsCooldown
<1>7. QED
  BY <1>2, <1>3, <1>4, <1>5, <1>6
     DEF JobStep, Look, NoAccounts, GiveUp, Release, MarkPersona, RecordBegin,
         CtxDone, NewJob, store, entries

\* The same for every step but a reload.
LEMMA OtherMarks ==
  ASSUME IInv, [Next]_vars,
         ~\E cfg \in Configs, interval \in Intervals : Reload(cfg, interval)
  PROVE  /\ disabled \subseteq disabled'
         /\ \A n \in Names : clock < cooldown[n] => ~(cooldown'[n] < cooldown[n])
<1>1. StoreTypeOK /\ \A n \in Names : cooldown[n] \in Nat
  BY DEF IInv, TypeOK, StoreTypeOK
<1>2. CASE \E j \in Jobs : JobStep(j)
  BY <1>2, JobStepMarks
<1>3. CASE States
  <2>1. (\E read : cooldown' = WithoutExpired(read)) /\ UNCHANGED disabled
    BY <1>3 DEF States, entries
  <2>2. QED BY <1>1, <2>1, StoreKeepsCooldown
<1>4. CASE Tick \/ UNCHANGED vars
  BY <1>1, <1>4 DEF Tick, vars, store, entries
<1>5. QED BY <1>2, <1>3, <1>4 DEF Next

\* Only a reload that changes credentials shortens a cooldown that still runs.
LEMMA ShortenedCooldown ==
  ASSUME NoDuplicateNames, IInv, [Next]_vars, NEW n \in Names,
         cooldown'[n] < cooldown[n], clock < cooldown[n]
  PROVE  \E o \in Listed \cap Listed' :
           /\ snapshot[o].name = n
           /\ snapshot'[o].cred # snapshot[o].cred
<1>1. PICK cfg \in Configs, interval \in Intervals : Reload(cfg, interval)
  BY OtherMarks
<1>2. QED BY <1>1, ReloadMarks

\* A cooldown that still runs is shortened by new credentials of its account only:
\* no mark and no lazy deletion does it, whatever reloads fall in between.
THEOREM PoolCooldownKept ==
  ASSUME NoDuplicateNames
  PROVE  Spec => CooldownKept
<1>1. IInv /\ [Next]_vars =>
        [\A n \in Names :
           cooldown'[n] < cooldown[n] /\ clock < cooldown[n] =>
             \E o \in Listed \cap Listed' :
               /\ snapshot[o].name = n
               /\ snapshot'[o].cred # snapshot[o].cred]_vars
  BY ShortenedCooldown
<1>2. QED BY <1>1, PoolInvariant, PTL DEF Spec, CooldownKept

\* An account that answered 401 stays out of service until a reload brings other
\* credentials for it.
THEOREM PoolDisabledUntilNewCredentials ==
  ASSUME NoDuplicateNames
  PROVE  Spec => DisabledUntilNewCredentials
<1>1. ASSUME IInv, [Next]_vars, NEW o \in disabled \ disabled'
      PROVE  /\ reloads' = reloads + 1
             /\ o \notin Listed \/ snapshot'[o].cred # snapshot[o].cred
  <2>1. PICK cfg \in Configs, interval \in Intervals : Reload(cfg, interval)
    BY <1>1, OtherMarks
  <2>2. reloads' = reloads + 1
    BY <2>1 DEF Reload
  <2>3. QED BY <1>1, <2>1, <2>2, ReloadMarks
<1>2. IInv /\ [Next]_vars =>
        [\A o \in disabled \ disabled' :
           /\ reloads' = reloads + 1
           /\ \/ o \notin Listed
              \/ snapshot'[o].cred # snapshot[o].cred]_vars
  BY <1>1
<1>3. QED BY <1>2, PoolInvariant, PTL DEF Spec, DisabledUntilNewCredentials

-----------------------------------------------------------------------------
(* The no-image policy.  Another job may record a later failure between the   *)
(* moment a job reads the time and the moment it takes the mutex: what the    *)
(* policy counts is in the window because no recorded time is in the future.  *)

\* No recorded failure is later than the clock.
RecordsPast == \A n \in Names : \A f \in failures[n] : f[1] <= clock

PolicyInv == IInv /\ RecordsPast

\* The one record that recording adds, and the times of those it keeps.
LEMMA RecordedMembers ==
  ASSUME NEW n \in Names, NEW at \in Nat
  PROVE  /\ \A f \in Recorded(n, at) : f \in failures[n] \/ f[1] = at
         /\ \A f \in Recorded(n, at) : f[1] > at - Window \/ f[1] = at
         /\ Recorded(n, at) # {}
<1> DEFINE k == Cardinality({f \in Recent(n, at) : f[1] = at})
<1>1. Recorded(n, at) = Recent(n, at) \cup {<<at, k>>}
  BY DEF Recorded
<1>2. <<at, k>>[1] = at
  OBVIOUS
<1>3. \A f \in Recent(n, at) : f \in failures[n] /\ f[1] > at - Window
  BY DEF Recent
<1> HIDE DEF k
<1>4. \A f \in Recorded(n, at) : f \in Recent(n, at) \/ f[1] = at
  BY <1>1, <1>2
<1>5. QED BY <1>1, <1>3, <1>4

\* What a recorded failure does to the store.
LEMMA CountedFailure ==
  ASSUME IInv, NEW j \in Jobs, NEW p \in Personas \cup {NoPersona},
         RecordNoImageFailure(j, p)
  PROVE  /\ UNCHANGED clock
         /\ \/ UNCHANGED store
            \/ /\ held[j].name \in Names /\ now[j] \in 1..clock
               /\ \E q \in PolicyPersonas(held[j].name, p), rec \in Outcomes :
                    RecordFailure(j, p, q, rec) /\ IsListed(held[j].name)
<1>1. PICK q \in PolicyPersonas(held[j].name, p), rec \in Outcomes :
        RecordFailure(j, p, q, rec)
  BY DEF RecordNoImageFailure
<1>2. held[j] \in Account /\ now[j] \in 1..clock
  BY <1>1 DEF RecordFailure, IInv, SnapshotsKnown, ReadingsPast
<1>3. held[j].name \in Names
  BY <1>2 DEF Account
<1>4. QED BY <1>1, <1>2, <1>3 DEF RecordFailure

\* A failure is recorded by RecordNoImageFailure alone: every other step only
\* drops records.
LEMMA RecordsDropped ==
  ASSUME TypeOK, [Next]_vars,
         ~\E j \in Jobs : \E p \in Personas \cup {NoPersona} :
            RecordNoImageFailure(j, p)
  PROVE  \A n \in Names : failures'[n] \subseteq failures[n]
<1>1. CASE States
  BY <1>1 DEF States, Recent
<1>2. CASE \E cfg \in Configs, interval \in Intervals : Reload(cfg, interval)
  BY <1>2 DEF Reload, Cleared
<1>3. CASE \E j \in Jobs : JobStep(j)
  <2>1. UNCHANGED failures
    BY <1>3 DEF JobStep, Look, Grant, Miss, NoAccounts, GiveUp, Release,
                MarkCooldown, MarkPersona, MarkUnauthorized, RecordBegin, CtxDone,
                NewJob, store
  <2>2. QED BY <2>1
<1>4. CASE Tick \/ UNCHANGED vars
  BY <1>4 DEF Tick, vars, store
<1>5. QED BY <1>1, <1>2, <1>3, <1>4 DEF Next

LEMMA RecordsPastKept == PolicyInv /\ [Next]_vars => PolicyInv'
<1> SUFFICES ASSUME PolicyInv, [Next]_vars PROVE PolicyInv'
  OBVIOUS
<1>1. IInv' /\ TypeOK /\ TypeOK' /\ clock \in Nat /\ clock' \in Nat
  BY NextInvariant DEF PolicyInv, IInv, TypeOK, StoreTypeOK
<1>2. clock <= clock'
  BY <1>1 DEF Next, JobStep, Look, Grant, Miss, NoAccounts, GiveUp, Release,
              MarkCooldown, MarkPersona, MarkUnauthorized, RecordBegin, CtxDone,
              NewJob, RecordNoImageFailure, RecordFailure, States, Reload, Tick,
              vars
<1>3. CASE \E j \in Jobs : \E p \in Personas \cup {NoPersona} :
             RecordNoImageFailure(j, p)
  <2>1. PICK j \in Jobs : \E p \in Personas \cup {NoPersona} :
               RecordNoImageFailure(j, p)
    BY <1>3
  <2>2. PICK p \in Personas \cup {NoPersona} : RecordNoImageFailure(j, p)
    BY <2>1
  <2>3. CASE UNCHANGED store
    BY <1>1, <2>2, <2>3, CountedFailure DEF PolicyInv, RecordsPast, store
  <2>4. CASE ~ UNCHANGED store
    <3> DEFINE n == held[j].name
    <3>1. n \in Names /\ now[j] \in 1..clock /\ UNCHANGED clock
      BY <2>2, <2>4, CountedFailure DEF PolicyInv
    <3>2. PICK q, rec : CountFailure(n, now[j], q, rec)
      BY <2>2, <2>4, CountedFailure DEF PolicyInv, RecordFailure
    <3>3. \/ failures' = failures
          \/ failures' = [failures EXCEPT ![n] = Recorded(n, now[j])]
      BY <3>2 DEF CountFailure
    <3>4. \A f \in Recorded(n, now[j]) : f \in failures[n] \/ f[1] = now[j]
      BY <3>1, RecordedMembers
    <3>5. \A m \in Names : \A f \in failures'[m] : f[1] <= clock
      <4>1. \A f \in Recorded(n, now[j]) : f[1] <= clock
        BY <3>1, <3>4 DEF PolicyInv, RecordsPast
      <4>2. \A m \in Names : failures'[m] \subseteq failures[m]
                             \/ failures'[m] = Recorded(n, now[j])
        BY <1>1, <3>3 DEF TypeOK, StoreTypeOK
      <4>3. QED BY <4>1, <4>2 DEF PolicyInv, RecordsPast
    <3>6. QED BY <1>1, <3>1, <3>5 DEF PolicyInv, RecordsPast
  <2>5. QED BY <2>3, <2>4
<1>4. CASE ~\E j \in Jobs : \E p \in Personas \cup {NoPersona} :
              RecordNoImageFailure(j, p)
  <2>1. \A n \in Names : failures'[n] \subseteq failures[n]
    BY <1>1, <1>4, RecordsDropped
  <2>2. \A n \in Names : \A f \in failures'[n] : f[1] \in Nat /\ f[1] <= clock
    BY <1>1, <2>1 DEF PolicyInv, RecordsPast, TypeOK, StoreTypeOK
  <2>3. QED BY <1>1, <1>2, <2>2 DEF PolicyInv, RecordsPast
<1>5. QED BY <1>3, <1>4

\* The policy of a persona that is known is the one the failure is counted under.
LEMMA PersonaDecides ==
  ASSUME IInv, ~StoreMayFail, NEW j \in Jobs,
         NEW p \in Personas \cup {NoPersona},
         NEW q \in PolicyPersonas(held[j].name, p), NEW rec \in Outcomes,
         RecordFailure(j, p, q, rec), IsListed(held[j].name),
         held[j].name \in Names
  PROVE  persona'[held[j].name] = q /\ rec = "ok"
<1>1. Outcomes = {"ok"} /\ rec = "ok" /\ Applied("ok")
  BY DEF Outcomes, Applied
<1>2. persona \in [Names -> Personas \cup {NoPersona}]
  BY DEF IInv, TypeOK, StoreTypeOK
<1>3. persona' = IF p # NoPersona THEN [persona EXCEPT ![held[j].name] = p]
                                  ELSE persona
  BY <1>1 DEF RecordFailure
<1>4. QED BY <1>1, <1>2, <1>3 DEF PolicyPersonas

LEMMA PolicyStep ==
  ASSUME ~StoreMayFail, FreeThreshold = 1, PolicyInv, [Next]_vars,
         NEW m \in Names, NEW f \in failures'[m] \ failures[m]
  PROVE  /\ cooldown'[m] > cooldown[m] /\ persona'[m] = Paid =>
              Cardinality({g \in failures'[m] :
                f[1] - Window < g[1] /\ g[1] <= clock}) >= PaidThreshold
         /\ persona'[m] # Paid => cooldown'[m] >= f[1] + FreeCooldown
<1>0. /\ IInv /\ TypeOK /\ FailuresFinite /\ cooldown \in [Names -> Nat]
      /\ failures \in [Names -> SUBSET (Nat \X Nat)] /\ clock \in Nat
  BY DEF PolicyInv, IInv, TypeOK, StoreTypeOK
<1>1. PICK j \in Jobs : \E p \in Personas \cup {NoPersona} :
             RecordNoImageFailure(j, p)
  BY <1>0, RecordsDropped
<1>2. PICK p \in Personas \cup {NoPersona} : RecordNoImageFailure(j, p)
  BY <1>1
<1> DEFINE n  == held[j].name
           at == now[j]
<1>3. ~UNCHANGED store
  BY DEF store
<1>4. n \in Names /\ at \in 1..clock
  BY <1>0, <1>2, <1>3, CountedFailure
<1>a. \E q \in PolicyPersonas(n, p), rec \in Outcomes :
        RecordFailure(j, p, q, rec) /\ IsListed(n)
  BY <1>0, <1>2, <1>3, CountedFailure
<1>5. PICK q \in PolicyPersonas(n, p), rec \in Outcomes :
        RecordFailure(j, p, q, rec) /\ IsListed(n)
  BY <1>a
<1>6. persona'[n] = q /\ rec = "ok"
  BY <1>0, <1>4, <1>5, PersonaDecides
<1>b. CountFailure(n, at, q, "ok")
  BY <1>5, <1>6 DEF RecordFailure
<1>7. /\ failures' = [failures EXCEPT ![n] = Recorded(n, at)]
      /\ cooldown' = IF Cardinality(Recorded(n, at)) >= Threshold(q)
                     THEN MarkedCooldown(n, at + PolicyCooldown(q))
                     ELSE cooldown
  BY <1>b DEF CountFailure, CooldownApplied, Applied, Outcomes
<1>8. m = n /\ failures'[n] = Recorded(n, at) /\ f \in Recorded(n, at) \ failures[n]
  BY <1>0, <1>4, <1>7
<1>9. f[1] = at
  BY <1>4, <1>8, RecordedMembers
<1>10. ASSUME cooldown'[n] > cooldown[n], q = Paid
       PROVE  Cardinality({g \in failures'[n] :
                f[1] - Window < g[1] /\ g[1] <= clock}) >= PaidThreshold
  <2>1. Cardinality(Recorded(n, at)) >= PaidThreshold
    BY <1>0, <1>4, <1>7, <1>10 DEF Threshold
  <2>2. Recorded(n, at) \in SUBSET (Nat \X Nat)
    BY <1>0, <1>4, RecordedFinite
  <2>3. \A g \in Recorded(n, at) : at - Window < g[1] /\ g[1] <= clock
    <3> SUFFICES ASSUME NEW g \in Recorded(n, at)
                 PROVE  at - Window < g[1] /\ g[1] <= clock
      OBVIOUS
    <3>1. g[1] \in Nat
      BY <2>2
    <3>2. g \in failures[n] \/ g[1] = at
      BY <1>4, RecordedMembers
    <3>3. g[1] > at - Window \/ g[1] = at
      BY <1>4, RecordedMembers
    <3>4. Window \in Nat \ {0}
      BY StoreAssumption
    <3>5. g[1] <= clock
      BY <1>0, <1>4, <3>1, <3>2 DEF PolicyInv, RecordsPast
    <3>6. QED BY <1>0, <1>4, <3>1, <3>3, <3>4, <3>5
  <2>4. {g \in failures'[n] : f[1] - Window < g[1] /\ g[1] <= clock} = Recorded(n, at)
    BY <1>8, <1>9, <2>3
  <2>5. QED BY <2>1, <2>4
<1>11. ASSUME q # Paid
       PROVE  cooldown'[n] >= f[1] + FreeCooldown
  <2>1. IsFiniteSet(Recorded(n, at)) /\ Recorded(n, at) # {}
    <3>1. at \in Nat
      BY <1>0, <1>4
    <3>2. IsFiniteSet(Recorded(n, at))
      BY <1>0, <1>4, <3>1, RecordedFinite
    <3>3. Recorded(n, at) # {}
      BY <1>4, <3>1, RecordedMembers
    <3>4. QED BY <3>2, <3>3
  <2>2. Cardinality(Recorded(n, at)) >= 1
    BY <2>1, FS_CardinalityType, FS_EmptySet
  <2>3. cooldown' = MarkedCooldown(n, at + FreeCooldown)
    BY <1>7, <1>11, <2>2 DEF Threshold, PolicyCooldown
  <2>4. FreeCooldown \in Nat
    BY StoreAssumption
  <2>5. QED BY <1>0, <1>4, <1>9, <2>3, <2>4 DEF MarkedCooldown
<1>12. QED BY <1>6, <1>8, <1>10, <1>11

\* With a store that answers and the free threshold of the code, which is one, a
\* paid account is cooled only after PaidThreshold failures within the window and
\* any other after every failure, whichever jobs and reloads run in between.
THEOREM PoolFailurePolicy ==
  ASSUME ~StoreMayFail, FreeThreshold = 1
  PROVE  Spec => FailurePolicy
<1>1. PolicyInv /\ [Next]_vars =>
        [\A n \in Names : \A f \in failures'[n] \ failures[n] :
           /\ cooldown'[n] > cooldown[n] /\ persona'[n] = Paid =>
                Cardinality({g \in failures'[n] :
                  f[1] - Window < g[1] /\ g[1] <= clock}) >= PaidThreshold
           /\ persona'[n] # Paid => cooldown'[n] >= f[1] + FreeCooldown]_vars
  BY PolicyStep
<1>2. Init => PolicyInv
  BY InitInvariant DEF PolicyInv, RecordsPast, Init, StoreInit
<1>3. QED
  BY <1>1, <1>2, RecordsPastKept, PTL DEF Spec, FailurePolicy

=============================================================================
