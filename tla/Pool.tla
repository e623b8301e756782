-------------------------------- MODULE Pool --------------------------------
(***************************************************************************)
(* The account pool of internal/pool/pool.go: Acquire's round-robin scan   *)
(* with its backoff loop, the leases, hot reload of the account list, and  *)
(* the marks a job leaves on an account.                                   *)
(*                                                                         *)
(* The pool's entries are pointers: an account taken out by a reload lives *)
(* on in the leases that still refer to it, and an account of the same     *)
(* name added later is another object.  Objects is the set of addresses;   *)
(* one nobody refers to may be allocated again.                            *)
(*                                                                         *)
(* A member of Jobs is a goroutine of runner.Run: it acquires an account,  *)
(* reports what happened to it by NAME while it holds the lease, and       *)
(* releases.                                                               *)
(***************************************************************************)
EXTENDS StateStore, Sequences

CONSTANTS Jobs, Objects,
          Creds,        \* what Reload compares: token, ids, proxy, cookies
          Configs,      \* lists of enabled accounts
          Intervals,    \* values of server.min_interval
          RateCooldown, \* server.cooldown_429
          Nobody,       \* no account object
          MaxTime, MaxReloads, MaxReports  \* bounds of the exploration

\* What a configuration says of an account; an object's snapshot.
Account == [name : Names, cred : Creds]

ASSUME PoolAssumption ==
  /\ IsFiniteSet(Objects) /\ IsFiniteSet(Jobs)
  /\ Nobody \notin Objects
  /\ Configs \subseteq Seq(Account)
  /\ Intervals \subseteq Nat
  /\ RateCooldown \in Nat
  /\ MaxTime \in Nat /\ MaxReloads \in Nat /\ MaxReports \in Nat

VARIABLES
  accounts,     \* p.accounts: the list of entries
  minInterval,  \* p.minInterval
  nextIndex,    \* p.nextIndex, counted from 0
  snapshot,     \* an object's snapshot
  busy,         \* objects with busy = TRUE
  disabled,     \* objects with disabled = TRUE
  lastUsedAt,   \* an object's lastUsedAt; 0: never
  pc,           \* where each job is
  now,          \* the time a job read before it took the mutex
  ctxDone,      \* jobs whose context is done
  lease,        \* the account object of a job's Lease, or Nobody
  held,         \* the snapshot copied into the job's Lease
  reloads, reports  \* reloads, and reports of jobs, counted for the bounds

list    == <<accounts, minInterval, nextIndex>>
entries == <<snapshot, busy, disabled, lastUsedAt>>
jobs    == <<pc, now, ctxDone, lease, held>>
bounds  == <<reloads, reports>>
vars    == <<clock, store, list, entries, jobs, bounds>>

\* "idle"     not in the pool
\* "looking"  read the time, about to take the mutex and scan
\* "sleeping" in the select on its context and the backoff timer
\* "leased"   has a Lease
\* "recording" RecordNoImageFailure read the time, the mutex is not yet taken
\* "released" released its Lease, which it still refers to
\* "failed"   Acquire returned an error
PCs == {"idle", "looking", "sleeping", "leased", "recording", "released",
        "failed"}

Working == {j \in Jobs : pc[j] \in {"leased", "recording"}}

Goto(j, l) == pc' = [pc EXCEPT ![j] = l]

\* Accounts in the list, and objects nothing refers to.
Listed == {accounts[i] : i \in 1..Len(accounts)}
Leased == {lease[j] : j \in Jobs} \ {Nobody}
Fresh  == Objects \ (Listed \cup Leased)

-----------------------------------------------------------------------------

\* The object placed at the last entry that names it gets that entry's snapshot.
LastEntry(place, o) ==
  CHOOSE i \in DOMAIN place :
    place[i] = o /\ \A k \in DOMAIN place : place[k] = o => k <= i

Placed(place) == {place[i] : i \in DOMAIN place}

\* NewWithStore: one new object for each entry of the configuration.
Init ==
  /\ StoreInit
  /\ \E cfg \in Configs : \E place \in [1..Len(cfg) -> Objects] :
       /\ \A i, k \in 1..Len(cfg) : place[i] = place[k] => i = k
       /\ accounts = place
       /\ snapshot = [o \in Objects |-> IF o \in Placed(place)
                                        THEN cfg[LastEntry(place, o)]
                                        ELSE Nobody]
  /\ minInterval \in Intervals
  /\ nextIndex = 0
  /\ busy = {}
  /\ disabled = {}
  /\ lastUsedAt = [o \in Objects |-> 0]
  /\ pc = [j \in Jobs |-> "idle"]
  /\ now = [j \in Jobs |-> 0]
  /\ ctxDone = {}
  /\ lease = [j \in Jobs |-> Nobody]
  /\ held = [j \in Jobs |-> Nobody]
  /\ reloads = 0
  /\ reports = 0

-----------------------------------------------------------------------------
(* Acquire                                                                   *)

\* The head of the loop: read the time; the first round or after the backoff.
Look(j) ==
  /\ pc[j] \in {"idle", "sleeping"}
  /\ now' = [now EXCEPT ![j] = clock]
  /\ Goto(j, "looking")
  /\ UNCHANGED <<clock, store, list, entries, ctxDone, lease, held, bounds>>

Offsets == 0..(Len(accounts) - 1)
IndexAt(i) == (nextIndex + i) % Len(accounts)
At(i) == accounts[IndexAt(i) + 1]
NameAt(i) == snapshot[At(i)].name

\* Mutant: a leased account is not skipped.
OutOfServiceDisabled(o) == o \in disabled

OutOfService(o) == o \in disabled \cup busy

\* Mutant: cooldowns are not looked at.
CoolingDownNever(j, n) == FALSE

CoolingDown(j, n) ==
  CooldownUntil(n) # 0 /\ now[j] < CooldownUntil(n)

\* Mutant: the interval is compared off by one.
TooSoonOffByOne(j, o) ==
  lastUsedAt[o] # 0 /\ now[j] - lastUsedAt[o] + 1 < minInterval

TooSoon(j, o) ==
  lastUsedAt[o] # 0 /\ now[j] - lastUsedAt[o] < minInterval

\* Offsets at which the store's read fails; such an account is skipped.
ReadErrors == IF StoreMayFail THEN SUBSET Offsets ELSE {{}}

Usable(j, i, errs) ==
  /\ ~OutOfService(At(i))
  /\ i \notin errs
  /\ ~CoolingDown(j, NameAt(i))
  /\ ~TooSoon(j, At(i))

\* The scan reads the cooldown of every account in service up to the last one it
\* looks at.
ReadUpTo(last, errs) ==
  {NameAt(i) : i \in {k \in Offsets :
     k <= last /\ ~OutOfService(At(k)) /\ k \notin errs}}

Grant(j) ==
  /\ pc[j] = "looking"
  /\ \E errs \in ReadErrors, i \in Offsets :
       /\ Usable(j, i, errs)
       /\ \A k \in Offsets : k < i => ~Usable(j, k, errs)
       /\ busy' = busy \cup {At(i)}
       /\ nextIndex' = (IndexAt(i) + 1) % Len(accounts)
       /\ lease' = [lease EXCEPT ![j] = At(i)]
       /\ held' = [held EXCEPT ![j] = snapshot[At(i)]]
       /\ cooldown' = WithoutExpired(ReadUpTo(i, errs))
  /\ now' = [now EXCEPT ![j] = 0]
  /\ Goto(j, "leased")
  /\ UNCHANGED <<clock, persona, failures, accounts, minInterval, snapshot,
                 disabled, lastUsedAt, ctxDone, bounds>>

\* No account is usable: to the select.  Nothing looked at the context so far.
Miss(j) ==
  /\ pc[j] = "looking"
  /\ accounts # <<>>
  /\ \E errs \in ReadErrors :
       /\ \A i \in Offsets : ~Usable(j, i, errs)
       /\ cooldown' = WithoutExpired(ReadUpTo(Len(accounts), errs))
  /\ now' = [now EXCEPT ![j] = 0]
  /\ Goto(j, "sleeping")
  /\ UNCHANGED <<clock, persona, failures, list, entries, ctxDone, lease, held,
                 bounds>>

NoAccounts(j) ==
  /\ pc[j] = "looking"
  /\ accounts = <<>>
  /\ now' = [now EXCEPT ![j] = 0]
  /\ Goto(j, "failed")
  /\ UNCHANGED <<clock, store, list, entries, ctxDone, lease, held, bounds>>

\* The select takes ctx.Done: ErrNoAvailable or ctx.Err().
GiveUp(j) ==
  /\ pc[j] = "sleeping"
  /\ j \in ctxDone
  /\ Goto(j, "failed")
  /\ UNCHANGED <<clock, store, list, entries, now, ctxDone, lease, held, bounds>>

-----------------------------------------------------------------------------
(* Leases and marks                                                          *)

\* Marks look an account up by the name in the lease's snapshot.
IsListed(n) == \E o \in Listed : snapshot[o].name = n

FirstOf(n) ==
  LET found == {i \in 1..Len(accounts) : snapshot[accounts[i]].name = n}
  IN  accounts[CHOOSE i \in found : \A k \in found : i <= k]

\* Lease.Release acts once.
OnceDone(j) == pc[j] = "released"

\* Mutant: Release looks the account up by its name.
ReleasedByName(j) ==
  IF IsListed(held[j].name) THEN FirstOf(held[j].name) ELSE lease[j]

\* It acts on the object the lease points to, in the list or not.
ReleasedObject(j) == lease[j]

Release(j) ==
  /\ pc[j] \in {"leased", "released"}
  /\ IF OnceDone(j)
     THEN UNCHANGED <<busy, lastUsedAt>>
     ELSE /\ busy' = busy \ {ReleasedObject(j)}
          /\ lastUsedAt' = [lastUsedAt EXCEPT ![ReleasedObject(j)] = clock]
  /\ Goto(j, "released")
  /\ UNCHANGED <<clock, store, list, snapshot, disabled, now, ctxDone, lease,
                 held, bounds>>

\* One more report of a job to the pool.
Report == reports < MaxReports /\ reports' = reports + 1

MarkCooldown(j) ==
  /\ pc[j] = "leased"
  /\ Report
  /\ RateCooldown > 0
  /\ IsListed(held[j].name)
  /\ \E o \in Outcomes :
       cooldown' = IF Applied(o)
                   THEN MarkedCooldown(held[j].name, clock + RateCooldown)
                   ELSE cooldown
  /\ UNCHANGED <<clock, persona, failures, list, entries, jobs, reloads>>

MarkPersona(j, p) ==
  /\ pc[j] = "leased"
  /\ Report
  /\ p # NoPersona
  /\ IsListed(held[j].name)
  /\ \E o \in Outcomes :
       persona' = IF Applied(o) THEN [persona EXCEPT ![held[j].name] = p]
                                ELSE persona
  /\ UNCHANGED <<clock, cooldown, failures, list, entries, jobs, reloads>>

\* The first account of the name is disabled, whatever credentials it has now.
MarkUnauthorized(j) ==
  /\ pc[j] = "leased"
  /\ Report
  /\ IsListed(held[j].name)
  /\ disabled' = disabled \cup {FirstOf(held[j].name)}
  /\ UNCHANGED <<clock, store, list, snapshot, busy, lastUsedAt, jobs, reloads>>

\* RecordNoImageFailure reads the time before it takes the mutex.
RecordBegin(j) ==
  /\ pc[j] = "leased"
  /\ Report
  /\ now' = [now EXCEPT ![j] = clock]
  /\ Goto(j, "recording")
  /\ UNCHANGED <<clock, store, list, entries, ctxDone, lease, held, reloads>>

\* The persona that decides the policy: the one reported, else the stored one,
\* else (nothing stored, or the read failed) none.
PolicyPersonas(n, p) ==
  IF p # NoPersona THEN {p}
  ELSE IF StoreMayFail THEN {persona[n], NoPersona} ELSE {persona[n]}

\* Enough failures in the window, and the store could count them.
CooldownApplied(n, at, q, rec) ==
  rec = "ok" /\ Cardinality(Recorded(n, at)) >= Threshold(q)

\* Record the failure; an error ends the handler before the cooldown.  The
\* cooldown counts from the time that was read.
CountFailure(n, at, q, rec) ==
  \E mark \in Outcomes :
    /\ failures' = IF Applied(rec)
                   THEN [failures EXCEPT ![n] = Recorded(n, at)] ELSE failures
    /\ cooldown' = IF CooldownApplied(n, at, q, rec) /\ Applied(mark)
                   THEN MarkedCooldown(n, at + PolicyCooldown(q))
                   ELSE cooldown

\* The failure of persona p is recorded under the policy of persona q.
RecordFailure(j, p, q, rec) ==
  /\ pc[j] = "recording"
  /\ IF IsListed(held[j].name)
     THEN /\ \E o \in Outcomes :
               persona' = IF p # NoPersona /\ Applied(o)
                          THEN [persona EXCEPT ![held[j].name] = p]
                          ELSE persona
          /\ CountFailure(held[j].name, now[j], q, rec)
     ELSE UNCHANGED store
  /\ now' = [now EXCEPT ![j] = 0]
  /\ Goto(j, "leased")
  /\ UNCHANGED <<clock, list, entries, ctxDone, lease, held, bounds>>

RecordNoImageFailure(j, p) ==
  /\ pc[j] = "recording"
  /\ \E q \in PolicyPersonas(held[j].name, p), rec \in Outcomes :
       RecordFailure(j, p, q, rec)

\* States, for the health endpoint and the queue's size: it reads every listed
\* account's cooldown and failures, which drops what has expired.
States ==
  /\ cooldown' = WithoutExpired({snapshot[o].name : o \in Listed})
  /\ failures' = [n \in Names |-> IF IsListed(n) THEN Recent(n, clock)
                                                 ELSE failures[n]]
  /\ UNCHANGED <<clock, persona, list, entries, jobs, bounds>>

-----------------------------------------------------------------------------
(* Reload                                                                    *)

\* The map of existing objects by name: the last one of a name wins.
Existing(n) ==
  LET found == {i \in 1..Len(accounts) : snapshot[accounts[i]].name = n}
  IN  accounts[CHOOSE i \in found : \A k \in found : k <= i]

\* Where the entries of a configuration go: the existing object of the name, or
\* an object of their own.
Placements(cfg) ==
  {place \in [1..Len(cfg) -> Objects] :
     \A i \in 1..Len(cfg) :
       IF IsListed(cfg[i].name)
       THEN place[i] = Existing(cfg[i].name)
       ELSE /\ place[i] \in Fresh
            /\ \A k \in 1..Len(cfg) : place[k] = place[i] => k = i}

\* The credentials an existing object has when the loop reaches entry i.
CredBefore(cfg, place, i) ==
  LET earlier == {k \in 1..(i - 1) : place[k] = place[i]}
  IN  IF earlier = {} THEN snapshot[place[i]].cred
      ELSE cfg[CHOOSE k \in earlier : \A m \in earlier : m <= k].cred

\* Mutant: every kept account counts as changed.
AuthChangedAlways(cfg, place) == {i \in 1..Len(cfg) : IsListed(cfg[i].name)}

AuthChanged(cfg, place) ==
  {i \in 1..Len(cfg) : /\ IsListed(cfg[i].name)
                       /\ CredBefore(cfg, place, i) # cfg[i].cred}

\* Mutant: the round-robin index is not reset.
NextIndexKept(n) == IF n = 0 THEN 0 ELSE nextIndex

\* The round-robin index starts over when the new list is too short for it.
NextIndexAfter(n) == IF n = 0 \/ nextIndex >= n THEN 0 ELSE nextIndex

Reload(cfg, interval) ==
  /\ reloads < MaxReloads
  /\ reloads' = reloads + 1
  /\ \E place \in Placements(cfg) :
       LET changed == AuthChanged(cfg, place)
           new     == Placed(place) \cap Fresh
       IN  /\ accounts' = place
           /\ snapshot' = [o \in Objects |-> IF o \in Placed(place)
                                             THEN cfg[LastEntry(place, o)]
                                             ELSE snapshot[o]]
           /\ busy' = busy \ new
           /\ disabled' = disabled \ (new \cup {place[i] : i \in changed})
           /\ lastUsedAt' = [o \in Objects |-> IF o \in new THEN 0
                                                            ELSE lastUsedAt[o]]
           /\ \E cleared \in SUBSET {cfg[i].name : i \in changed} :
                /\ ~StoreMayFail => cleared = {cfg[i].name : i \in changed}
                /\ Cleared(cleared)
  /\ minInterval' = interval
  /\ nextIndex' = NextIndexAfter(Len(cfg))
  /\ UNCHANGED <<clock, jobs, reports>>

-----------------------------------------------------------------------------
(* The environment                                                           *)

Tick ==
  /\ clock < MaxTime
  /\ clock' = clock + 1
  /\ UNCHANGED <<store, list, entries, jobs, bounds>>

CtxDone(j) ==
  /\ pc[j] \in {"looking", "sleeping"}
  /\ j \notin ctxDone
  /\ ctxDone' = ctxDone \cup {j}
  /\ UNCHANGED <<clock, store, list, entries, pc, now, lease, held, bounds>>

\* The goroutine drops its Lease and a new job begins.
NewJob(j) ==
  /\ pc[j] \in {"released", "failed"}
  /\ lease' = [lease EXCEPT ![j] = Nobody]
  /\ held' = [held EXCEPT ![j] = Nobody]
  /\ ctxDone' = ctxDone \ {j}
  /\ Goto(j, "idle")
  /\ UNCHANGED <<clock, store, list, entries, now, bounds>>

JobStep(j) ==
  \/ Look(j)
  \/ Grant(j)
  \/ Miss(j)
  \/ NoAccounts(j)
  \/ GiveUp(j)
  \/ Release(j)
  \/ MarkCooldown(j)
  \/ \E p \in Personas : MarkPersona(j, p)
  \/ MarkUnauthorized(j)
  \/ RecordBegin(j)
  \/ \E p \in Personas \cup {NoPersona} : RecordNoImageFailure(j, p)
  \/ CtxDone(j)
  \/ NewJob(j)

Next ==
  \/ \E j \in Jobs : JobStep(j)
  \/ States
  \/ \E cfg \in Configs, interval \in Intervals : Reload(cfg, interval)
  \/ Tick

Spec == Init /\ [][Next]_vars

-----------------------------------------------------------------------------

TypeOK ==
  /\ StoreTypeOK
  /\ accounts \in Seq(Objects)
  /\ minInterval \in Nat
  /\ nextIndex \in Nat
  /\ nextIndex < Len(accounts) \/ nextIndex = 0
  /\ snapshot \in [Objects -> Account \cup {Nobody}]
  /\ busy \subseteq Objects
  /\ disabled \subseteq Objects
  /\ lastUsedAt \in [Objects -> Nat]
  /\ pc \in [Jobs -> PCs]
  /\ now \in [Jobs -> Nat]
  /\ ctxDone \subseteq Jobs
  /\ lease \in [Jobs -> Objects \cup {Nobody}]
  /\ held \in [Jobs -> Account \cup {Nobody}]
  /\ reloads \in Nat /\ reports \in Nat

\* An account object is busy exactly while one job holds an unreleased lease of
\* it: never shared by two jobs, never stuck busy after a release or a reload.
LeaseExclusive ==
  /\ busy = {lease[j] : j \in Working}
  /\ \A j, k \in Working : lease[j] = lease[k] => j = k

\* Two jobs work on one account NAME at the same time only if a reload took the
\* account out of the list under one of them (or the list has the name twice).
OneLeasePerListedName ==
  \A j, k \in Working :
    j # k /\ lease[j] \in Listed /\ lease[k] \in Listed
      => held[j].name # held[k].name

\* An account is handed out only when it is really usable at that moment, although
\* Acquire judges it by a time read before it waited for the mutex: listed, not
\* disabled, its cooldown over, and min_interval passed since its last release.
GrantHonoursMarks ==
  [][\A j \in Jobs :
       pc[j] = "looking" /\ pc'[j] = "leased" =>
         LET o == lease'[j]
         IN  /\ o \in Listed \ disabled
             /\ clock >= cooldown[snapshot[o].name]
             /\ lastUsedAt[o] # 0 => clock - lastUsedAt[o] >= minInterval]_vars

\* A cooldown that still runs is never shortened: not by another mark, not by the
\* lazy deletion of expired ones; only new credentials end it early.
CooldownKept ==
  [][\A n \in Names :
       cooldown'[n] < cooldown[n] /\ clock < cooldown[n] =>
         \E o \in Listed \cap Listed' :
           /\ snapshot[o].name = n
           /\ snapshot'[o].cred # snapshot[o].cred]_vars

\* A disabled account comes back only through a reload that changes what it is
\* logged in with, or as a new object of a list that did not have its name.
DisabledUntilNewCredentials ==
  [][\A o \in disabled \ disabled' :
       /\ reloads' = reloads + 1
       /\ \/ o \notin Listed
          \/ snapshot'[o].cred # snapshot[o].cred]_vars

\* A paid account is cooled for missing images only after PaidThreshold failures,
\* none of them a Window older than the one that is recorded (which happened when
\* RecordNoImageFailure read the time: another job may have recorded a later one
\* while it waited for the mutex), any other account after every failure that was
\* recorded.
FailurePolicy ==
  [][\A n \in Names : \A f \in failures'[n] \ failures[n] :
       /\ cooldown'[n] > cooldown[n] /\ persona'[n] = Paid =>
            Cardinality({g \in failures'[n] :
              f[1] - Window < g[1] /\ g[1] <= clock}) >= PaidThreshold
       /\ persona'[n] # Paid => cooldown'[n] >= f[1] + FreeCooldown]_vars

=============================================================================
