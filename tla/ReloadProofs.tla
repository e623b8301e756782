----------------------------- MODULE ReloadProofs -----------------------------
(***************************************************************************)
(* Proofs about the hot reload, for any requests, edits and configurations *)
(* and any interleaving of them.                                           *)
(*                                                                         *)
(* That the parts agree is not inductive: it is broken by every reload and *)
(* mended at its end.  The invariant says how far the holder of the lock   *)
(* has come, which parts have its configuration by then, and that all      *)
(* others still have the one of the runtime state.                         *)
(***************************************************************************)
EXTENDS Reload, FiniteSetTheorems, TLAPS

Inside == {"load", "save", "pool", "runner", "blobs", "state", "restat"}

\* A configuration that Load may return.
Good(c) ==
  /\ c \in Configs
  /\ c.accounts > 0
  /\ c.queue > 0
  /\ c.ids
  /\ c.wellFormed

\* Inside means to hold reloadMu.
LockHeld == \A r \in Requests : pc[r] \in Inside <=> lock = r

AppliedGood == \A p \in Parts : Good(applied[p])

LoadedGood ==
  \A r \in Requests : pc[r] \in Inside \ {"load"} => Good(loaded[r])

\* The parts that the holder of the lock, if there is one, has already reached.
Reached(l) ==
  CASE l = "runner" -> {"pool"}
    [] l = "blobs"  -> {"pool", "runner"}
    [] l = "state"  -> {"pool", "runner", "blobs"}
    [] l = "restat" -> Parts
    [] OTHER        -> {}

Others == \A p \in Parts :
  applied[p] # applied["state"] =>
    \E r \in Requests : lock = r /\ p \in Reached(pc[r])

Ours == \A r \in Requests, p \in Parts :
  p \in Reached(pc[r]) => applied[p] = loaded[r]

\* The gate in force always has the size of the configuration in force, also while
\* a reload has given the pool another one.
GateFits ==
  gates[gate] = [limit |-> applied["state"].accounts,
                 max   |-> applied["state"].queue]

\* Versions only grow, from the runtime state over what is being loaded to the
\* file.
Versions ==
  /\ file # NoFile => applied["state"].ver <= file.ver
  /\ file # NoFile => file.ver <= edits
  /\ applied["state"].ver <= edits
  /\ \A r \in Requests : pc[r] \in Inside \ {"load"} =>
       /\ applied["state"].ver <= loaded[r].ver
       /\ loaded[r].ver <= edits
       /\ file # NoFile => loaded[r].ver <= file.ver

\* What a request saw is not newer than what is in force.
Seen ==
  \A r \in Requests : \A k \in 1..3 : views[r][k] <= applied["state"].ver

\* No queue serves more requests than it has slots.
SlotsKept ==
  \A g \in 1..Len(gates) : Cardinality(ServedBy(g)) <= gates[g].limit

IInv ==
  /\ TypeOK
  /\ LockHeld
  /\ AppliedGood
  /\ LoadedGood
  /\ Others
  /\ Ours
  /\ GateFits
  /\ Versions
  /\ Seen
  /\ ViewsInOrder
  /\ SlotsKept

-----------------------------------------------------------------------------
(* What Load returns, and who holds the lock                                 *)

\* A configuration that passes validate is good once loaded, and keeps its
\* version.
LEMMA LoadIsGood ==
  ASSUME NEW c \in Configs, validate(c)
  PROVE  /\ Load(c) \in Configs
         /\ Good(Load(c))
         /\ Load(c).ver = c.ver
<1>1. applyDefaults(c) \in Configs /\ applyDefaults(c).queue > 0
  BY ReloadAssumption DEF applyDefaults, Configs
<1>2. applyDefaults(c).accounts = c.accounts /\ applyDefaults(c).ver = c.ver
      /\ applyDefaults(c).wellFormed = c.wellFormed
  BY DEF applyDefaults, Configs
<1>3. QED
  BY <1>1, <1>2 DEF Load, ensureStableIDs, validate, Good, Configs

\* A configuration whose write broke off keeps its version.
LEMMA CutOffType ==
  ASSUME NEW c \in Configs, NEW d \in CutOff(c)
  PROVE  d \in Configs /\ d.ver = c.ver
BY DEF CutOff, Configs

\* One request is inside at a time, and nobody is while the lock is free.
LEMMA Alone ==
  ASSUME TypeOK, LockHeld, NEW r \in Requests, pc[r] \in Inside
  PROVE  /\ lock = r
         /\ lock \notin {Nobody, "boot"}
         /\ \A q \in Requests : q # r => pc[q] \notin Inside
BY ReloadAssumption DEF LockHeld, Nobody

\* What may write the disk, and what may write the state of the server.
LEMMA DiskSteps ==
  [Next]_vars => \/ UNCHANGED disk
                 \/ Edit \/ Remove \/ Tick
                 \/ \E r \in Requests : Save(r) \/ SaveFails(r)
BY DEF Next, RequestStep, vars, Boot, Arrive, Unchanged, Changed, LoadFails, LoadFile,
       Reject, Apply, Publish, Restat, withAuth, Handle, Serve, Done

ServerWrite(r) ==
  \/ Changed(r)
  \/ LoadFails(r)
  \/ SaveFails(r)
  \/ \E p \in DOMAIN NextPart : Apply(r, p)
  \/ Publish(r)
  \/ Restat(r)

LEMMA ServerSteps ==
  [Next]_vars => \/ UNCHANGED server
                 \/ Boot
                 \/ \E r \in Requests : ServerWrite(r)
BY DEF Next, RequestStep, vars, Arrive, Unchanged, LoadFile, Save, withAuth, Handle,
       Serve, Done, Edit, Remove, Tick, server, ServerWrite

LEMMA RequestSteps ==
  [Next]_vars => UNCHANGED request \/ \E r \in Requests : RequestStep(r)
BY DEF Next, vars, Boot, Edit, Remove, Tick

-----------------------------------------------------------------------------
(* Types                                                                     *)

DiskType ==
  /\ clock \in 1..MaxTime
  /\ file \in Configs \cup {NoFile}
  /\ mtime \in 1..MaxTime
  /\ edits \in 0..MaxEdits
  /\ during \in {"quiet", "boot", "reload"}
  /\ coarse \in BOOLEAN

ServerType ==
  /\ known \in 0..MaxTime
  /\ applied \in [Parts -> Configs]
  /\ gates \in Seq([limit : Nat \ {0}, max : Nat \ {0}])
  /\ gate \in 1..Len(gates)
  /\ lock \in Requests \cup {Nobody, "boot"}

RequestType ==
  /\ pc \in [Requests -> PCs]
  /\ seen \in [Requests -> 0..MaxTime]
  /\ loaded \in [Requests -> Configs]
  /\ slot \in [Requests -> 0..Len(gates)]
  /\ views \in [Requests -> [1..3 -> 0..MaxEdits]]

LEMMA TypeInit == Init => TypeOK
<1>. SUFFICES ASSUME Init PROVE TypeOK
  OBVIOUS
<1>1. PICK c \in Written : validate(c) /\ file = Load(Numbered(c, 0))
  BY DEF Init
<1>2. Numbered(c, 0) \in Configs /\ validate(Numbered(c, 0))
  BY <1>1, ReloadAssumption DEF Numbered, Configs, validate
<1>3. Good(file) /\ file \in Configs
  BY <1>1, <1>2, LoadIsGood
<1>4. Capacity(file.accounts, file) \in [limit : Nat \ {0}, max : Nat \ {0}]
  BY <1>3 DEF Capacity, Good, Configs
<1>5. QED
  <2>1. DiskType
    <3>1. /\ clock = 1 /\ mtime = 1 /\ edits = 0 /\ coarse = FALSE
          /\ during = "quiet"
      BY DEF Init
    <3>2. 1 \in 1..MaxTime /\ 0 \in 0..MaxEdits
      BY ReloadAssumption
    <3>3. QED
      BY <1>3, <3>1, <3>2 DEF DiskType
  <2>2. ServerType
    BY <1>3, <1>4, ReloadAssumption DEF Init, ServerType
  <2>3. RequestType
    BY <1>3, ReloadAssumption DEF Init, RequestType, PCs
  <2>4. QED
    BY <2>1, <2>2, <2>3 DEF TypeOK, DiskType, ServerType, RequestType

LEMMA DiskTypeStep == TypeOK /\ LoadedGood /\ [Next]_vars => DiskType'
<1>. SUFFICES ASSUME TypeOK, LoadedGood, [Next]_vars PROVE DiskType'
  OBVIOUS
<1>1. CASE UNCHANGED disk
  BY <1>1 DEF TypeOK, DiskType, disk
<1>2. CASE Edit
  <2>1. PICK c \in Written : file' = Numbered(c, edits + 1)
    BY <1>2 DEF Edit
  <2>2. file' \in Configs
    <3>1. edits + 1 \in Nat
      BY ReloadAssumption DEF TypeOK
    <3>2. c \in Configs
      BY ReloadAssumption
    <3>3. QED
      BY <2>1, <3>1, <3>2 DEF Numbered, Configs
  <2>3. QED
    BY <1>2, <2>2, ReloadAssumption DEF Edit, TypeOK, DiskType
<1>3. CASE Remove
  BY <1>3, ReloadAssumption DEF Remove, TypeOK, DiskType
<1>4. CASE Tick
  BY <1>4, ReloadAssumption DEF Tick, TypeOK, DiskType
<1>5. ASSUME NEW r \in Requests, Save(r) \/ SaveFails(r) PROVE DiskType'
  <2>1. file' \in Configs \cup {NoFile}
    BY <1>5, CutOffType DEF Save, SaveFails, TypeOK
  <2>2. UNCHANGED <<clock, edits, during, coarse>> /\ mtime' \in {clock, mtime}
    BY <1>5 DEF Save, SaveFails
  <2>3. QED
    BY <2>1, <2>2 DEF TypeOK, DiskType
<1>6. QED
  BY <1>1, <1>2, <1>3, <1>4, <1>5, DiskSteps

\* Publish makes a gate with at least one slot and one place in its line.
LEMMA PublishedGates ==
  ASSUME TypeOK, AppliedGood, LoadedGood, NEW r \in Requests, Publish(r)
  PROVE  /\ gates' \in Seq([limit : Nat \ {0}, max : Nat \ {0}])
         /\ gate' \in 1..Len(gates')
         /\ Len(gates') >= Len(gates)
         /\ \A g \in 1..Len(gates) : gates'[g] = gates[g]
         /\ gates'[gate'] = [limit |-> applied["pool"].accounts,
                             max   |-> loaded[r].queue]
<1>. DEFINE q == Capacity(applied["pool"].accounts, loaded[r])
<1>1. Good(applied["pool"]) /\ Good(loaded[r])
  BY DEF AppliedGood, LoadedGood, Parts, Publish, Inside
<1>2. q = [limit |-> applied["pool"].accounts, max |-> loaded[r].queue]
  BY <1>1 DEF Capacity, Good, Configs
<1>3. q \in [limit : Nat \ {0}, max : Nat \ {0}]
  BY <1>1, <1>2 DEF Good, Configs
<1>4. \/ gates[gate] = q /\ UNCHANGED <<gates, gate>>
      \/ gates' = Append(gates, q) /\ gate' = Len(gates) + 1
  BY DEF Publish, SameGate
<1>5. gates \in Seq([limit : Nat \ {0}, max : Nat \ {0}]) /\ gate \in 1..Len(gates)
  BY DEF TypeOK
<1>. HIDE DEF q
<1>6. CASE UNCHANGED <<gates, gate>> /\ gates[gate] = q
  BY <1>2, <1>5, <1>6
<1>7. CASE gates' = Append(gates, q) /\ gate' = Len(gates) + 1
  <2>. DEFINE G == [limit : Nat \ {0}, max : Nat \ {0}]
  <2>1. gates \in Seq(G) /\ q \in G
    BY <1>3, <1>5
  <2>. HIDE DEF G
  <2>2. gates' \in Seq(G) /\ Len(gates') = Len(gates) + 1 /\ Len(gates) \in Nat
    BY <1>7, <2>1
  <2>3. /\ \A g \in 1..Len(gates) : gates'[g] = gates[g]
        /\ gates'[Len(gates) + 1] = q
    BY <1>7, <2>1
  <2>4. QED
    BY <1>2, <1>7, <2>2, <2>3 DEF G
<1>8. QED
  BY <1>4, <1>6, <1>7

LEMMA ServerTypeStep ==
  TypeOK /\ AppliedGood /\ LoadedGood /\ [Next]_vars => ServerType' /\ Len(gates) <= Len(gates')
<1>. SUFFICES ASSUME TypeOK, AppliedGood, LoadedGood, [Next]_vars
              PROVE  ServerType' /\ Len(gates) <= Len(gates')
  OBVIOUS
<1>0. ServerType
  BY DEF TypeOK, ServerType
<1>1. CASE UNCHANGED server
  BY <1>0, <1>1 DEF ServerType, server
<1>2. CASE Boot
  BY <1>0, <1>2 DEF Boot, TypeOK, ServerType
<1>3. ASSUME NEW r \in Requests, ServerWrite(r)
      PROVE  ServerType' /\ Len(gates) <= Len(gates')
  <2>1. CASE Changed(r)
    BY <1>0, <2>1 DEF Changed, ServerType
  <2>2. CASE LoadFails(r) \/ SaveFails(r)
    BY <1>0, <2>2 DEF LoadFails, SaveFails, Reject, ServerType
  <2>3. ASSUME NEW p \in DOMAIN NextPart, Apply(r, p)
        PROVE  ServerType' /\ Len(gates) <= Len(gates')
    <3>1. p \in Parts /\ loaded[r] \in Configs
      BY DEF NextPart, Parts, TypeOK
    <3>2. QED
      BY <1>0, <2>3, <3>1 DEF Apply, ServerType
  <2>4. CASE Publish(r)
    <3>1. applied' \in [Parts -> Configs] /\ UNCHANGED <<known, lock>>
      BY <2>4 DEF Publish, TypeOK, Parts
    <3>2. QED
      BY <1>0, <2>4, <3>1, PublishedGates DEF ServerType
  <2>5. CASE Restat(r)
    <3>1. seen[r] \in 0..MaxTime /\ mtime \in 0..MaxTime
      BY DEF TypeOK
    <3>2. QED
      BY <1>0, <2>5, <3>1 DEF Restat, FoundTime, ServerType
  <2>6. QED
    BY <1>3, <2>1, <2>2, <2>3, <2>4, <2>5 DEF ServerWrite
<1>4. QED
  BY <1>1, <1>2, <1>3, ServerSteps

LEMMA RequestTypeStep ==
  TypeOK /\ AppliedGood /\ Versions /\ Len(gates) <= Len(gates') /\ ServerType'
    /\ [Next]_vars => RequestType'
<1>. SUFFICES ASSUME TypeOK, AppliedGood, Versions,
                     Len(gates) <= Len(gates'), ServerType', [Next]_vars
              PROVE  RequestType'
  OBVIOUS
<1>0. RequestType /\ Len(gates) \in Nat /\ Len(gates') \in Nat
  <2>1. RequestType
    BY DEF TypeOK, RequestType
  <2>2. gates \in Seq([limit : Nat \ {0}, max : Nat \ {0}])
    BY DEF TypeOK
  <2>3. gates' \in Seq([limit : Nat \ {0}, max : Nat \ {0}])
    BY DEF ServerType
  <2>4. QED
    BY <2>1, <2>2, <2>3
<1>1. CASE UNCHANGED request
  BY <1>0, <1>1 DEF RequestType, request
<1>2. ASSUME NEW r \in Requests, RequestStep(r) PROVE RequestType'
  <2>0. slot' \in [Requests -> 0..Len(gates)] => slot' \in [Requests -> 0..Len(gates')]
    BY <1>0
  <2>a. applied["state"].ver \in 0..MaxEdits
    <3>1. applied["state"].ver \in Nat
      BY DEF AppliedGood, Good, Parts, Configs
    <3>2. edits \in 0..MaxEdits /\ applied["state"].ver <= edits
      BY DEF TypeOK, Versions
    <3>3. QED
      BY <3>1, <3>2, ReloadAssumption
  <2>b. ASSUME NEW k \in 1..3, View(r, k)
        PROVE  views' \in [Requests -> [1..3 -> 0..MaxEdits]]
    BY <1>0, <2>a, <2>b DEF View, RequestType
  <2>c. mtime \in 0..MaxTime /\ gate \in 0..Len(gates)
    BY <1>0 DEF TypeOK
  <2>1. CASE Arrive(r)
    <3>1. View(r, 1)
      BY <2>1 DEF Arrive
    <3>2. views' \in [Requests -> [1..3 -> 0..MaxEdits]]
      BY <2>b, <3>1
    <3>3. QED
      BY <1>0, <2>0, <2>c, <2>1, <3>2 DEF Arrive, Goto, RequestType, PCs
  <2>2. CASE Unchanged(r)
    BY <1>0, <2>0, <2>2 DEF Unchanged, Goto, RequestType, PCs
  <2>3. CASE Changed(r)
    BY <1>0, <2>0, <2>c, <2>3 DEF Changed, Goto, RequestType, PCs
  <2>4. CASE LoadFails(r)
    BY <1>0, <2>0, <2>4 DEF LoadFails, Reject, Goto, RequestType, PCs
  <2>5. CASE LoadFile(r)
    <3>1. Load(file) \in Configs
      BY <2>5, LoadIsGood DEF TypeOK, LoadFile, Loadable
    <3>2. QED
      BY <1>0, <2>0, <2>5, <3>1 DEF LoadFile, Goto, RequestType, PCs
  <2>6. CASE Save(r)
    BY <1>0, <2>0, <2>6 DEF Save, Goto, RequestType, PCs
  <2>7. CASE SaveFails(r)
    BY <1>0, <2>0, <2>7 DEF SaveFails, Reject, Goto, RequestType, PCs
  <2>8. ASSUME NEW p \in DOMAIN NextPart, Apply(r, p) PROVE RequestType'
    BY <1>0, <2>0, <2>8 DEF Apply, NextPart, Goto, RequestType, PCs
  <2>9. CASE Publish(r)
    BY <1>0, <2>0, <2>9 DEF Publish, Goto, RequestType, PCs
  <2>10. CASE Restat(r)
    BY <1>0, <2>0, <2>10 DEF Restat, Goto, RequestType, PCs
  <2>11. CASE withAuth(r)
    <3>1. View(r, 2)
      BY <2>11 DEF withAuth
    <3>2. views' \in [Requests -> [1..3 -> 0..MaxEdits]]
      BY <2>b, <3>1
    <3>3. QED
      BY <1>0, <2>0, <2>c, <2>11, <3>2 DEF withAuth, Goto, RequestType, PCs
  <2>12. CASE Handle(r)
    <3>1. View(r, 3)
      BY <2>12 DEF Handle
    <3>2. views' \in [Requests -> [1..3 -> 0..MaxEdits]]
      BY <2>b, <3>1
    <3>3. QED
      BY <1>0, <2>0, <2>c, <2>12, <3>2 DEF Handle, Goto, RequestType, PCs
  <2>13. CASE Serve(r)
    BY <1>0, <2>0, <2>13 DEF Serve, Goto, RequestType, PCs
  <2>14. CASE Done(r)
    BY <1>0, <2>0, <2>14 DEF Done, Goto, RequestType, PCs
  <2>15. QED
    BY <1>2, <2>1, <2>2, <2>3, <2>4, <2>5, <2>6, <2>7,
       <2>8, <2>9, <2>10, <2>11, <2>12, <2>13, <2>14 DEF RequestStep
<1>3. QED
  BY <1>1, <1>2, RequestSteps

LEMMA TypeStep ==
  TypeOK /\ LoadedGood /\ AppliedGood /\ Versions /\ [Next]_vars => TypeOK'
BY DiskTypeStep, ServerTypeStep, RequestTypeStep
   DEF TypeOK, DiskType, ServerType, RequestType

-----------------------------------------------------------------------------
(* The lock, and what is loaded and applied                                  *)

LEMMA LockStep == TypeOK /\ LockHeld /\ [Next]_vars => LockHeld'
<1>. SUFFICES ASSUME TypeOK, LockHeld, [Next]_vars PROVE LockHeld'
  OBVIOUS
<1>0. /\ pc \in [Requests -> PCs]
      /\ \A r \in Requests : r # Nobody /\ r # "boot"
  BY ReloadAssumption DEF TypeOK, Nobody
<1>1. CASE Boot
  BY <1>0, <1>1 DEF Boot, request, LockHeld
<1>2. CASE Edit \/ Remove \/ Tick \/ UNCHANGED vars
  BY <1>2 DEF Edit, Remove, Tick, vars, server, request, LockHeld
<1>3. ASSUME NEW r \in Requests, RequestStep(r) PROVE LockHeld'
  <2>1. CASE Changed(r)
    BY <1>0, <2>1 DEF Changed, MayLock, Quiet, Goto, LockHeld, Inside
  <2>2. CASE LoadFails(r) \/ SaveFails(r) \/ Restat(r)
    BY <1>0, <2>2 DEF LoadFails, SaveFails, Restat, Reject, Goto, LockHeld, Inside
  <2>3. CASE LoadFile(r) \/ Save(r) \/ Publish(r)
    BY <1>0, <2>3 DEF LoadFile, Save, Publish, Goto, LockHeld, Inside, server
  <2>4. ASSUME NEW p \in DOMAIN NextPart, Apply(r, p) PROVE LockHeld'
    BY <1>0, <2>4 DEF Apply, NextPart, Goto, LockHeld, Inside
  <2>5. CASE Arrive(r) \/ Unchanged(r)
    BY <1>0, <2>5 DEF Arrive, Unchanged, Goto, LockHeld, Inside, server
  <2>6. CASE withAuth(r) \/ Handle(r)
    BY <1>0, <2>6 DEF withAuth, Handle, Goto, LockHeld, Inside, server
  <2>7. CASE Serve(r) \/ Done(r)
    BY <1>0, <2>7 DEF Serve, Done, Goto, LockHeld, Inside, server
  <2>8. QED
    BY <1>3, <2>1, <2>2, <2>3, <2>4, <2>5, <2>6, <2>7 DEF RequestStep
<1>4. QED
  BY <1>1, <1>2, <1>3 DEF Next

\* A step of one request moves no other and leaves what they have loaded alone.
LEMMA OwnStep ==
  ASSUME TypeOK, NEW r \in Requests, RequestStep(r)
  PROVE  \A q \in Requests \ {r} : pc'[q] = pc[q] /\ loaded'[q] = loaded[q]
<1>0. pc \in [Requests -> PCs] /\ loaded \in [Requests -> Configs]
  BY DEF TypeOK
<1>1. loaded' = loaded \/ LoadFile(r)
  BY DEF RequestStep, Arrive, Unchanged, Changed, LoadFails, Save, SaveFails, Reject,
         Apply, Publish, Restat, withAuth, Handle, Serve, Done
<1>2. \E l : Goto(r, l)
  BY DEF RequestStep, Arrive, Unchanged, Changed, LoadFails, LoadFile, Save, SaveFails,
         Reject, Apply, Publish, Restat, withAuth, Handle, Serve, Done
<1>3. QED
  BY <1>0, <1>1, <1>2 DEF Goto, LoadFile

LEMMA LoadedStep == TypeOK /\ LoadedGood /\ [Next]_vars => LoadedGood'
<1>. SUFFICES ASSUME TypeOK, LoadedGood, [Next]_vars PROVE LoadedGood'
  OBVIOUS
<1>0. pc \in [Requests -> PCs] /\ loaded \in [Requests -> Configs]
  BY DEF TypeOK
<1>1. CASE UNCHANGED request
  BY <1>1 DEF request, LoadedGood
<1>2. ASSUME NEW r \in Requests, RequestStep(r) PROVE LoadedGood'
  <2>1. CASE LoadFile(r)
    <3>1. Good(Load(file))
      BY <2>1, LoadIsGood DEF LoadFile, Loadable, TypeOK
    <3>2. Good(loaded'[r])
      BY <1>0, <2>1, <3>1 DEF LoadFile
    <3>3. QED
      BY <1>2, <3>2, OwnStep DEF LoadedGood
  <2>2. CASE ~LoadFile(r)
    <3>1. loaded' = loaded
      BY <1>2, <2>2 DEF RequestStep, Arrive, Unchanged, Changed, LoadFails, Save,
         SaveFails, Reject, Apply, Publish, Restat, withAuth, Handle, Serve, Done
    <3>2. pc'[r] \in Inside \ {"load"} => pc[r] \in Inside \ {"load"}
      BY <1>0, <1>2, <2>2 DEF RequestStep, Arrive, Unchanged, Changed, LoadFails, Save,
         SaveFails, Reject, Apply, NextPart, Publish, Restat, withAuth, Handle, Serve,
         Done, Goto, Inside
    <3>3. QED
      BY <1>2, <3>1, <3>2, OwnStep DEF LoadedGood
  <2>3. QED
    BY <2>1, <2>2
<1>3. QED
  BY <1>1, <1>2, RequestSteps

LEMMA AppliedStep ==
  TypeOK /\ AppliedGood /\ LoadedGood /\ [Next]_vars => AppliedGood'
<1>. SUFFICES ASSUME TypeOK, AppliedGood, LoadedGood, [Next]_vars PROVE AppliedGood'
  OBVIOUS
<1>0. applied \in [Parts -> Configs]
  BY DEF TypeOK
<1>1. CASE applied' = applied
  BY <1>1 DEF AppliedGood
<1>2. ASSUME NEW r \in Requests, NEW p \in DOMAIN NextPart, Apply(r, p)
      PROVE  AppliedGood'
  <2>1. p \in Parts /\ Good(loaded[r])
    BY <1>2 DEF Apply, NextPart, Parts, LoadedGood, Inside
  <2>2. QED
    BY <1>0, <1>2, <2>1 DEF Apply, AppliedGood
<1>3. ASSUME NEW r \in Requests, Publish(r) PROVE AppliedGood'
  <2>1. "state" \in Parts /\ Good(loaded[r])
    BY <1>3 DEF Publish, Parts, LoadedGood, Inside
  <2>2. QED
    BY <1>0, <1>3, <2>1 DEF Publish, AppliedGood
<1>4. QED
  BY <1>1, <1>2, <1>3, ServerSteps DEF server, ServerWrite, Boot, Changed, LoadFails,
     SaveFails, Reject, Restat

-----------------------------------------------------------------------------
(* How far a reload has come                                                 *)

LEMMA ReachedInside == \A l : Reached(l) # {} => l \in Inside \ {"load", "save", "pool"}
BY DEF Reached, Inside

LEMMA ReachedNext ==
  ASSUME NEW p \in DOMAIN NextPart
  PROVE  /\ p \in Parts /\ p # "state"
         /\ p \in Inside /\ NextPart[p] \in {"runner", "blobs", "state"}
         /\ Reached(NextPart[p]) = Reached(p) \cup {p}
BY DEF NextPart, Parts, Inside, Reached

\* A step that writes no part and neither takes nor gives back the lock, seen from
\* the request that holds it.
LEMMA QuietStep ==
  ASSUME TypeOK, LockHeld, NEW r \in Requests, RequestStep(r), ~ServerWrite(r)
  PROVE  /\ UNCHANGED server
         /\ \A q \in Requests : lock = q => /\ Reached(pc'[q]) = Reached(pc[q])
                                            /\ q = r => Reached(pc[q]) = {}
<1>0. pc \in [Requests -> PCs]
  BY DEF TypeOK
<1>1. \/ LoadFile(r) \/ Save(r)
      \/ Arrive(r) \/ Unchanged(r) \/ withAuth(r) \/ Handle(r) \/ Serve(r) \/ Done(r)
  BY DEF RequestStep, ServerWrite
<1>2. UNCHANGED server
  BY <1>1 DEF LoadFile, Save, Arrive, Unchanged, withAuth, Handle, Serve, Done, server
<1>3. CASE LoadFile(r) \/ Save(r)
  <2>1. Reached(pc'[r]) = {} /\ Reached(pc[r]) = {}
    BY <1>0, <1>3 DEF LoadFile, Save, Goto, Reached
  <2>2. QED
    BY <1>2, <2>1, OwnStep
<1>4. CASE ~(LoadFile(r) \/ Save(r))
  <2>1. pc[r] \notin Inside
    BY <1>1, <1>4 DEF Arrive, Unchanged, withAuth, Handle, Serve, Done, Inside
  <2>2. lock # r
    BY <2>1 DEF LockHeld
  <2>3. QED
    BY <1>2, <2>2, OwnStep
<1>5. QED
  BY <1>3, <1>4

LEMMA OthersStep == TypeOK /\ LockHeld /\ Others /\ Ours /\ [Next]_vars => Others'
<1>. SUFFICES ASSUME TypeOK, LockHeld, Others, Ours, [Next]_vars PROVE Others'
  OBVIOUS
<1>0. /\ applied \in [Parts -> Configs] /\ pc \in [Requests -> PCs]
      /\ \A r \in Requests : r # Nobody /\ r # "boot"
  BY ReloadAssumption DEF TypeOK, Nobody
<1>1. CASE Boot \/ Edit \/ Remove \/ Tick \/ UNCHANGED vars
  <2>1. UNCHANGED <<applied, pc>> /\ (lock' = lock \/ lock = "boot")
    BY <1>1 DEF Boot, Edit, Remove, Tick, vars, server, request
  <2>2. QED
    BY <1>0, <2>1 DEF Others
<1>2. ASSUME NEW r \in Requests, RequestStep(r) PROVE Others'
  <2>1. CASE ~ServerWrite(r)
    BY <1>2, <2>1, QuietStep DEF Others, server
  <2>2. CASE Changed(r)
    BY <1>0, <2>2 DEF Changed, MayLock, Quiet, Others
  <2>3. CASE LoadFails(r) \/ SaveFails(r)
    <3>1. pc[r] \in Inside /\ Reached(pc[r]) = {} /\ UNCHANGED applied
      BY <2>3 DEF LoadFails, SaveFails, Reject, Inside, Reached
    <3>2. \A p \in Parts : applied[p] = applied["state"]
      BY <3>1, Alone DEF Others
    <3>3. QED
      BY <3>1, <3>2 DEF Others
  <2>4. ASSUME NEW p \in DOMAIN NextPart, Apply(r, p) PROVE Others'
    <3>1. lock = r /\ lock' = r /\ Reached(pc'[r]) = Reached(pc[r]) \cup {p}
      BY <1>0, <2>4, ReachedNext, Alone DEF Apply, Goto
    <3>2. \A q \in Parts \ {p} : applied'[q] = applied[q]
      BY <1>0, <2>4 DEF Apply
    <3>3. applied'["state"] = applied["state"]
      BY <3>2, ReachedNext DEF Parts
    <3>4. QED
      BY <3>1, <3>2, <3>3 DEF Others
  <2>5. CASE Publish(r)
    <3>1. lock' = r /\ Reached(pc'[r]) = Parts
      BY <1>0, <2>5, Alone DEF Publish, Goto, Reached, Inside
    <3>2. QED
      BY <3>1 DEF Others
  <2>6. CASE Restat(r)
    <3>1. Reached(pc[r]) = Parts /\ UNCHANGED applied
      BY <2>6 DEF Restat, Reached
    <3>2. \A p \in Parts : applied[p] = applied["state"]
      BY <3>1 DEF Ours, Parts
    <3>3. QED
      BY <3>1, <3>2 DEF Others
  <2>7. QED
    BY <2>1, <2>2, <2>3, <2>4, <2>5, <2>6 DEF ServerWrite
<1>3. QED
  BY <1>1, <1>2 DEF Next

LEMMA OursStep == TypeOK /\ LockHeld /\ Ours /\ [Next]_vars => Ours'
<1>. SUFFICES ASSUME TypeOK, LockHeld, Ours, [Next]_vars PROVE Ours'
  OBVIOUS
<1>0. /\ applied \in [Parts -> Configs] /\ pc \in [Requests -> PCs]
  BY DEF TypeOK
<1>1. CASE Boot \/ Edit \/ Remove \/ Tick \/ UNCHANGED vars
  <2>1. UNCHANGED <<applied, pc, loaded>>
    BY <1>1 DEF Boot, Edit, Remove, Tick, vars, server, request
  <2>2. QED
    BY <2>1 DEF Ours
<1>2. ASSUME NEW r \in Requests, RequestStep(r) PROVE Ours'
  <2>0. SUFFICES ASSUME NEW p \in Parts, p \in Reached(pc'[r])
                 PROVE  applied'[p] = loaded'[r] /\ pc[r] \in Inside
    <3>1. ASSUME NEW q \in Requests \ {r}, NEW p \in Parts, p \in Reached(pc'[q])
          PROVE  applied'[p] = loaded'[q]
      <4>1. p \in Reached(pc[q]) /\ loaded'[q] = loaded[q]
        BY <1>2, <3>1, OwnStep
      <4>2. pc[q] \in Inside /\ pc[r] \notin Inside
        BY <4>1, ReachedInside, Alone
      <4>3. UNCHANGED applied
        BY <1>2, <4>2, ReachedNext DEF RequestStep, Arrive, Unchanged, Changed, LoadFails,
           LoadFile, Save, SaveFails, Reject, Apply, Publish, Restat, withAuth, Handle,
           Serve, Done, server, Inside
      <4>4. QED
        BY <3>1, <4>1, <4>3 DEF Ours
    <3>2. QED
      BY <2>0, <3>1 DEF Ours
  <2>1. CASE \E l \in DOMAIN NextPart : Apply(r, l)
    <3>1. PICK l \in DOMAIN NextPart : Apply(r, l)
      BY <2>1
    <3>2. Reached(pc'[r]) = Reached(pc[r]) \cup {l} /\ pc[r] \in Inside
      BY <1>0, <3>1, ReachedNext DEF Apply, Goto
    <3>3. applied' = [applied EXCEPT ![l] = loaded[r]] /\ loaded' = loaded
      BY <3>1 DEF Apply
    <3>4. QED
      BY <1>0, <2>0, <3>2, <3>3 DEF Ours
  <2>2. CASE Publish(r)
    <3>1. applied' = [applied EXCEPT !["state"] = loaded[r]] /\ loaded' = loaded
      BY <2>2 DEF Publish
    <3>2. p \in Reached(pc[r]) \/ p = "state"
      BY <2>2 DEF Publish, Reached, Parts
    <3>3. QED
      BY <1>0, <2>0, <2>2, <3>1, <3>2 DEF Ours, Publish, Inside
  <2>3. CASE ~Publish(r) /\ ~(\E l \in DOMAIN NextPart : Apply(r, l))
    <3>1. FALSE
      BY <1>0, <1>2, <2>0, <2>3, ReachedInside DEF RequestStep, Arrive, Unchanged,
         Changed, LoadFails, LoadFile, Save, SaveFails, Reject, Restat, withAuth, Handle,
         Serve, Done, Goto, Inside
    <3>2. QED
      BY <3>1
  <2>4. QED
    BY <2>1, <2>2, <2>3
<1>3. QED
  BY <1>1, <1>2 DEF Next

LEMMA GateStep ==
  TypeOK /\ AppliedGood /\ LoadedGood /\ Ours /\ GateFits /\ [Next]_vars => GateFits'
<1>. SUFFICES ASSUME TypeOK, AppliedGood, LoadedGood, Ours, GateFits, [Next]_vars
              PROVE  GateFits'
  OBVIOUS
<1>0. applied \in [Parts -> Configs]
  BY DEF TypeOK
<1>1. ASSUME NEW r \in Requests, Publish(r) PROVE GateFits'
  <2>1. gates'[gate'] = [limit |-> applied["pool"].accounts, max |-> loaded[r].queue]
    BY <1>1, PublishedGates
  <2>2. applied["pool"] = loaded[r]
    BY <1>1 DEF Publish, Ours, Reached, Parts
  <2>3. applied'["state"] = loaded[r]
    BY <1>0, <1>1 DEF Publish, Parts
  <2>4. QED
    BY <2>1, <2>2, <2>3 DEF GateFits
<1>2. ASSUME NEW r \in Requests, NEW p \in DOMAIN NextPart, Apply(r, p)
      PROVE  GateFits'
  <2>1. applied'["state"] = applied["state"] /\ UNCHANGED <<gates, gate>>
    BY <1>0, <1>2, ReachedNext DEF Apply, Parts
  <2>2. QED
    BY <2>1 DEF GateFits
<1>3. CASE UNCHANGED <<applied, gates, gate>>
  BY <1>3 DEF GateFits
<1>4. QED
  BY <1>1, <1>2, <1>3, ServerSteps DEF server, ServerWrite, Boot, Changed, LoadFails,
     SaveFails, Reject, Restat

-----------------------------------------------------------------------------
(* Versions                                                                  *)

LEMMA VersionTypes ==
  ASSUME TypeOK
  PROVE  /\ edits \in Nat
         /\ file # NoFile => file.ver \in Nat
         /\ applied["state"].ver \in Nat
         /\ \A r \in Requests : loaded[r].ver \in Nat
<1>1. edits \in Nat
  BY ReloadAssumption DEF TypeOK
<1>2. \A c \in Configs : c.ver \in Nat
  BY DEF Configs
<1>3. /\ file \in Configs \cup {NoFile}
      /\ applied["state"] \in Configs
      /\ \A r \in Requests : loaded[r] \in Configs
  BY DEF TypeOK, Parts
<1>4. QED
  BY <1>1, <1>2, <1>3

LEMMA VersionsStep ==
  TypeOK /\ LockHeld /\ Versions /\ [Next]_vars => Versions'
<1>. SUFFICES ASSUME TypeOK, LockHeld, Versions, [Next]_vars PROVE Versions'
  OBVIOUS
<1>0. /\ applied \in [Parts -> Configs] /\ pc \in [Requests -> PCs]
      /\ loaded \in [Requests -> Configs] /\ "state" \in Parts
  BY DEF TypeOK, Parts
<1>1. CASE Boot \/ Tick \/ UNCHANGED vars
  <2>1. UNCHANGED <<file, edits, applied, pc, loaded>>
    BY <1>1 DEF Boot, Tick, vars, disk, server, request
  <2>2. QED
    BY <2>1 DEF Versions
<1>2. CASE Edit
  <2>1. PICK c \in Written : file' = Numbered(c, edits + 1)
    BY <1>2 DEF Edit
  <2>2. file'.ver = edits + 1
    BY <2>1, ReloadAssumption DEF Numbered, Configs
  <2>3. edits' = edits + 1 /\ UNCHANGED <<applied, pc, loaded>>
    BY <1>2 DEF Edit, server, request
  <2>4. QED
    BY <2>2, <2>3, VersionTypes DEF Versions
<1>3. CASE Remove
  <2>1. file' = NoFile /\ edits' = edits + 1 /\ UNCHANGED <<applied, pc, loaded>>
    BY <1>3 DEF Remove, server, request
  <2>2. QED
    BY <2>1, VersionTypes DEF Versions
<1>4. ASSUME NEW r \in Requests, RequestStep(r) PROVE Versions'
  <2>1. CASE LoadFile(r)
    <3>1. /\ file # NoFile /\ UNCHANGED <<file, edits, applied>>
          /\ loaded'[r].ver = file.ver
      BY <1>0, <2>1, LoadIsGood DEF TypeOK, LoadFile, Loadable, disk, server
    <3>2. \A q \in Requests \ {r} : pc'[q] = pc[q] /\ loaded'[q] = loaded[q]
      BY <1>4, OwnStep
    <3>3. QED
      BY <3>1, <3>2, VersionTypes DEF Versions
  <2>2. CASE Save(r)
    <3>1. file' = loaded[r] /\ UNCHANGED <<edits, applied, loaded>>
      BY <2>2 DEF Save, server
    <3>2. pc[r] \in Inside \ {"load"} /\ \A q \in Requests \ {r} : pc'[q] \notin Inside
      BY <1>4, <2>2, Alone, OwnStep DEF Save, Inside
    <3>3. QED
      BY <3>1, <3>2, VersionTypes DEF Versions
  <2>3. CASE Publish(r)
    <3>1. applied'["state"] = loaded[r] /\ UNCHANGED <<file, edits, loaded>>
      BY <1>0, <2>3 DEF Publish, disk
    <3>2. pc[r] \in Inside \ {"load"} /\ \A q \in Requests \ {r} : pc'[q] \notin Inside
      BY <1>4, <2>3, Alone, OwnStep DEF Publish, Inside
    <3>3. QED
      BY <3>1, <3>2, VersionTypes DEF Versions
  <2>4. CASE ~LoadFile(r) /\ ~Save(r) /\ ~SaveFails(r) /\ ~Publish(r)
    <3>1. UNCHANGED <<file, edits, loaded>>
      BY <1>4, <2>4 DEF RequestStep, Arrive, Unchanged, Changed, LoadFails,
         Reject, Apply, Restat, withAuth, Handle, Serve, Done, disk
    <3>2. applied'["state"] = applied["state"]
      BY <1>0, <1>4, <2>4 DEF RequestStep, Arrive, Unchanged, Changed, LoadFails,
         Reject, Apply, NextPart, Restat, withAuth, Handle, Serve, Done, server
    <3>3. pc'[r] \in Inside \ {"load"} => pc[r] \in Inside \ {"load"}
      BY <1>0, <1>4, <2>4 DEF RequestStep, Arrive, Unchanged, Changed, LoadFails,
         Reject, Apply, NextPart, Restat, withAuth, Handle, Serve, Done, Goto, Inside
    <3>4. QED
      BY <1>4, <3>1, <3>2, <3>3, OwnStep DEF Versions
  <2>5. CASE SaveFails(r)
    <3>1. /\ pc[r] \in Inside \ {"load"} /\ pc'[r] \notin Inside
          /\ UNCHANGED <<edits, applied, loaded>>
      BY <1>0, <2>5 DEF SaveFails, Reject, Goto, Inside
    <3>2. file' = file \/ file'.ver = loaded[r].ver
      BY <1>0, <2>5, CutOffType DEF SaveFails
    <3>3. \A q \in Requests \ {r} : pc'[q] \notin Inside
      BY <1>4, <3>1, Alone, OwnStep
    <3>4. QED
      BY <3>1, <3>2, <3>3, VersionTypes DEF Versions
  <2>6. QED
    BY <2>1, <2>2, <2>3, <2>4, <2>5
<1>5. QED
  BY <1>1, <1>2, <1>3, <1>4 DEF Next

\* The configuration in force never goes back.
LEMMA ForceGrows ==
  TypeOK /\ Versions /\ [Next]_vars => applied["state"].ver <= applied'["state"].ver
<1>. SUFFICES ASSUME TypeOK, Versions, [Next]_vars
              PROVE  applied["state"].ver <= applied'["state"].ver
  OBVIOUS
<1>0. applied \in [Parts -> Configs] /\ "state" \in Parts
  BY DEF TypeOK, Parts
<1>1. CASE applied'["state"] = applied["state"]
  BY <1>1, VersionTypes
<1>2. ASSUME NEW r \in Requests, Publish(r)
      PROVE  applied["state"].ver <= applied'["state"].ver
  BY <1>0, <1>2 DEF Publish, Versions, Inside
<1>3. ASSUME NEW r \in Requests, NEW p \in DOMAIN NextPart, Apply(r, p)
      PROVE  applied'["state"] = applied["state"]
  BY <1>0, <1>3 DEF Apply, NextPart
<1>4. QED
  BY <1>1, <1>2, <1>3, ServerSteps DEF server, ServerWrite, Boot, Changed, LoadFails,
     SaveFails, Reject, Restat

\* What a step does to what the requests saw.
LEMMA ViewSteps ==
  [Next]_vars =>
    \/ UNCHANGED views
    \/ \E r \in Requests : View(r, 1) /\ pc[r] = "idle" /\ Goto(r, "arrived")
    \/ \E r \in Requests : View(r, 2) /\ pc[r] = "auth"
    \/ \E r \in Requests : View(r, 3) /\ pc[r] = "handler" /\ Goto(r, "queued")
BY RequestSteps DEF RequestStep, request, Arrive, Unchanged, Changed, LoadFails, LoadFile,
   Save, SaveFails, Reject, Apply, Publish, Restat, withAuth, Handle, Serve, Done

LEMMA SeenStep == TypeOK /\ TypeOK' /\ Versions /\ Seen /\ [Next]_vars => Seen'
<1>. SUFFICES ASSUME TypeOK, TypeOK', Versions, Seen, [Next]_vars,
                     NEW q \in Requests, NEW j \in 1..3
              PROVE  views'[q][j] <= applied'["state"].ver
  BY DEF Seen
<1>0. views \in [Requests -> [1..3 -> 0..MaxEdits]]
  BY DEF TypeOK
<1>1. views'[q][j] \in {views[q][j], applied["state"].ver}
  <2>1. CASE UNCHANGED views
    BY <2>1
  <2>2. ASSUME NEW r \in Requests, NEW k \in 1..3, View(r, k)
        PROVE  views'[q][j] \in {views[q][j], applied["state"].ver}
    BY <1>0, <2>2 DEF View
  <2>3. QED
    BY <2>1, <2>2, ViewSteps
<1>2. views[q][j] \in Nat /\ views[q][j] <= applied["state"].ver
  BY <1>0, ReloadAssumption DEF Seen
<1>3. applied["state"].ver <= applied'["state"].ver
  BY ForceGrows
<1>4. applied'["state"].ver \in Nat
  BY DEF TypeOK, Parts, Configs
<1>5. QED
  BY <1>1, <1>2, <1>3, <1>4, VersionTypes

LEMMA ViewsStep == TypeOK /\ Seen /\ ViewsInOrder /\ [Next]_vars => ViewsInOrder'
<1>. SUFFICES ASSUME TypeOK, Seen, ViewsInOrder, [Next]_vars PROVE ViewsInOrder'
  OBVIOUS
<1>0. /\ pc \in [Requests -> PCs]
      /\ views \in [Requests -> [1..3 -> 0..MaxEdits]]
  BY DEF TypeOK
<1>1. CASE UNCHANGED request
  BY <1>1 DEF request, ViewsInOrder
<1>2. ASSUME NEW r \in Requests, RequestStep(r) PROVE ViewsInOrder'
  <2>1. CASE withAuth(r)
    <3>1. /\ views' = [views EXCEPT ![r][2] = applied["state"].ver]
          /\ pc' = [pc EXCEPT ![r] = "handler"] \/ pc' = [pc EXCEPT ![r] = "done"]
      BY <2>1 DEF withAuth, View, Goto
    <3>2. /\ views'[r][1] = views[r][1] /\ views'[r][2] = applied["state"].ver
          /\ \A q \in Requests \ {r} : views'[q] = views[q] /\ pc'[q] = pc[q]
          /\ pc'[r] \in {"handler", "done"}
      BY <1>0, <3>1
    <3>3. views[r][1] <= applied["state"].ver
      BY DEF Seen
    <3>4. QED
      BY <3>2, <3>3 DEF ViewsInOrder
  <2>2. CASE Handle(r)
    <3>1. /\ views' = [views EXCEPT ![r][3] = applied["state"].ver]
          /\ pc' = [pc EXCEPT ![r] = "queued"] /\ pc[r] = "handler"
      BY <2>2 DEF Handle, View, Goto
    <3>2. /\ views'[r][1] = views[r][1] /\ views'[r][2] = views[r][2]
          /\ views'[r][3] = applied["state"].ver
          /\ \A q \in Requests \ {r} : views'[q] = views[q] /\ pc'[q] = pc[q]
      BY <1>0, <3>1
    <3>3. views[r][2] <= applied["state"].ver
      BY DEF Seen
    <3>4. QED
      BY <3>1, <3>2, <3>3 DEF ViewsInOrder
  <2>3. CASE Arrive(r)
    <3>1. /\ views' = [views EXCEPT ![r][1] = applied["state"].ver]
          /\ pc' = [pc EXCEPT ![r] = "arrived"]
      BY <2>3 DEF Arrive, View, Goto
    <3>2. /\ \A q \in Requests \ {r} : views'[q] = views[q] /\ pc'[q] = pc[q]
          /\ pc'[r] = "arrived"
      BY <1>0, <3>1
    <3>3. QED
      BY <3>2 DEF ViewsInOrder
  <2>4. CASE ~withAuth(r) /\ ~Handle(r) /\ ~Arrive(r)
    <3>1. views' = views
      BY <1>2, <2>4 DEF RequestStep, Unchanged, Changed, LoadFails, LoadFile, Save,
         SaveFails, Reject, Apply, Publish, Restat, Serve, Done
    <3>2. \A q \in Requests \ {r} : pc'[q] = pc[q]
      BY <1>2, OwnStep
    <3>3. pc'[r] \in {"queued", "serving", "handler"} =>
            pc'[r] = "serving" /\ pc[r] = "queued"
      BY <1>0, <1>2, <2>4 DEF RequestStep, Unchanged, Changed, LoadFails, LoadFile, Save,
         SaveFails, Reject, Apply, NextPart, Publish, Restat, Serve, Done, Goto
    <3>4. QED
      BY <3>1, <3>2, <3>3 DEF ViewsInOrder
  <2>5. QED
    BY <2>1, <2>2, <2>3, <2>4
<1>3. QED
  BY <1>1, <1>2, RequestSteps

-----------------------------------------------------------------------------
(* Slots                                                                     *)

LEMMA LimitType ==
  ASSUME NEW s \in Seq([limit : Nat \ {0}, max : Nat \ {0}]), NEW l \in 1..Len(s)
  PROVE  s[l].limit \in Nat \ {0}
<1>. DEFINE G == [limit : Nat \ {0}, max : Nat \ {0}]
<1>1. s[l] \in G
  <2>1. s \in Seq(G)
    OBVIOUS
  <2>. HIDE DEF G
  <2>2. QED
    BY <2>1
<1>2. QED
  BY <1>1

\* Nobody but the one who gets a slot joins those who are served.
LEMMA ServedSteps ==
  ASSUME TypeOK, [Next]_vars, ~(\E r \in Requests : Serve(r))
  PROVE  \A g : ServedBy(g)' \subseteq ServedBy(g)
<1>0. pc \in [Requests -> PCs] /\ slot \in [Requests -> 0..Len(gates)]
  BY DEF TypeOK
<1>1. CASE UNCHANGED request
  BY <1>1 DEF request, ServedBy
<1>2. ASSUME NEW r \in Requests, RequestStep(r)
      PROVE  \A g : ServedBy(g)' \subseteq ServedBy(g)
  <2>1. pc'[r] # "serving"
    BY <1>0, <1>2 DEF RequestStep, Arrive, Unchanged, Changed, LoadFails, LoadFile, Save,
       SaveFails, Reject, Apply, NextPart, Publish, Restat, withAuth, Handle, Done, Goto
  <2>2. \A q \in Requests \ {r} : pc'[q] = pc[q] /\ slot'[q] = slot[q]
    <3>1. UNCHANGED slot \/ Handle(r)
      BY <1>2 DEF RequestStep, Arrive, Unchanged, Changed, LoadFails, LoadFile, Save,
         SaveFails, Reject, Apply, Publish, Restat, withAuth, Done
    <3>2. QED
      BY <1>0, <1>2, <3>1, OwnStep DEF Handle
  <2>3. QED
    BY <2>1, <2>2 DEF ServedBy
<1>3. QED
  BY <1>1, <1>2, RequestSteps

\* Old gates stay as they are.
LEMMA GatesKept ==
  ASSUME TypeOK, AppliedGood, LoadedGood, [Next]_vars
  PROVE  \/ UNCHANGED gates
         \/ \E r \in Requests :
              /\ Publish(r)
              /\ gates' \in Seq([limit : Nat \ {0}, max : Nat \ {0}])
              /\ \A g \in 1..Len(gates) : gates'[g] = gates[g]
<1>1. UNCHANGED gates \/ \E r \in Requests : Publish(r)
  BY ServerSteps DEF server, ServerWrite, Boot, Changed, LoadFails, SaveFails, Reject,
     Apply, Restat
<1>2. QED
  BY <1>1, PublishedGates

LEMMA ServedFinite ==
  \A g : IsFiniteSet(ServedBy(g)) /\ Cardinality(ServedBy(g)) \in Nat
<1>. TAKE g
<1>1. ServedBy(g) \subseteq Requests /\ IsFiniteSet(Requests)
  BY ReloadAssumption DEF ServedBy
<1>2. QED
  BY <1>1, FS_Subset, FS_CardinalityType

LEMMA SlotsStep ==
  TypeOK /\ AppliedGood /\ LoadedGood /\ SlotsKept /\ [Next]_vars => SlotsKept'
<1>. SUFFICES ASSUME TypeOK, AppliedGood, LoadedGood, SlotsKept, [Next]_vars,
                     NEW g \in 1..Len(gates')
              PROVE  Cardinality(ServedBy(g)') <= gates'[g].limit
  BY DEF SlotsKept
<1>. DEFINE G == [limit : Nat \ {0}, max : Nat \ {0}]
<1>0. gates \in Seq(G) /\ pc \in [Requests -> PCs] /\ slot \in [Requests -> 0..Len(gates)]
  BY DEF TypeOK
<1>a. \A l \in 1..Len(gates) : gates[l].limit \in Nat \ {0}
  BY <1>0, LimitType
<1>. HIDE DEF G
<1>1. ASSUME NEW r \in Requests, Serve(r)
      PROVE  Cardinality(ServedBy(g)') <= gates'[g].limit
  <2>1. gates' = gates /\ slot' = slot /\ pc' = [pc EXCEPT ![r] = "serving"]
    BY <1>1 DEF Serve, server, Goto
  <2>2. CASE slot[r] = g
    <3>1. ServedBy(g)' = ServedBy(g) \cup {r}
      BY <1>0, <2>1, <2>2 DEF ServedBy
    <3>2. r \notin ServedBy(g)
      BY <1>1 DEF Serve, ServedBy
    <3>3. Cardinality(ServedBy(g) \cup {r}) = Cardinality(ServedBy(g)) + 1
      BY <3>2, ServedFinite, FS_AddElement
    <3>4. Cardinality(ServedBy(g)) < gates[g].limit
      BY <1>1, <2>2 DEF Serve
    <3>5. QED
      BY <1>a, <2>1, <3>1, <3>3, <3>4, ServedFinite
  <2>3. CASE slot[r] # g
    <3>1. ServedBy(g)' = ServedBy(g)
      BY <1>0, <2>1, <2>3 DEF ServedBy
    <3>2. QED
      BY <2>1, <3>1 DEF SlotsKept
  <2>4. QED
    BY <2>2, <2>3
<1>2. CASE ~(\E r \in Requests : Serve(r))
  <2>1. ServedBy(g)' \subseteq ServedBy(g)
    BY <1>2, ServedSteps
  <2>2. Cardinality(ServedBy(g)') <= Cardinality(ServedBy(g))
    BY <2>1, ServedFinite, FS_Subset
  <2>3. Cardinality(ServedBy(g)') \in Nat /\ Cardinality(ServedBy(g)) \in Nat
    BY <2>1, ServedFinite, FS_Subset, FS_CardinalityType
  <2>4. CASE g \in 1..Len(gates)
    <3>1. gates'[g] = gates[g]
      BY <2>4, GatesKept
    <3>2. QED
      BY <1>a, <2>2, <2>3, <2>4, <3>1 DEF SlotsKept
  <2>5. CASE g \notin 1..Len(gates)
    <3>1. gates' \in Seq(G)
      BY <1>0, GatesKept DEF G
    <3>2. gates'[g].limit \in Nat
      BY <3>1, LimitType DEF G
    <3>3. ServedBy(g) = {}
      BY <1>0, <2>5, <3>1 DEF ServedBy
    <3>4. Cardinality(ServedBy(g)) = 0
      BY <3>3, FS_EmptySet
    <3>5. QED
      BY <2>2, <2>3, <3>2, <3>4
  <2>6. QED
    BY <2>4, <2>5
<1>3. QED
  BY <1>1, <1>2

-----------------------------------------------------------------------------
(* The invariant and the properties                                          *)

LEMMA InvInit == Init => IInv
<1>. SUFFICES ASSUME Init PROVE IInv
  OBVIOUS
<1>1. TypeOK
  BY TypeInit
<1>2. PICK c \in Written : validate(c) /\ file = Load(Numbered(c, 0))
  BY DEF Init
<1>3. Numbered(c, 0) \in Configs /\ validate(Numbered(c, 0)) /\ Numbered(c, 0).ver = 0
  BY <1>2, ReloadAssumption DEF Numbered, Configs, validate
<1>4. Good(file) /\ file.ver = 0
  BY <1>2, <1>3, LoadIsGood
<1>5. /\ applied = [p \in Parts |-> file] /\ gates = <<Capacity(file.accounts, file)>>
      /\ gate = 1 /\ lock = "boot" /\ pc = [r \in Requests |-> "idle"] /\ edits = 0
      /\ views = [r \in Requests |-> <<0, 0, 0>>]
  BY DEF Init
<1>6. LockHeld /\ LoadedGood /\ Ours /\ ViewsInOrder
  BY <1>5, ReloadAssumption DEF LockHeld, LoadedGood, Ours, ViewsInOrder, Inside, Reached
<1>7. AppliedGood /\ Others
  BY <1>4, <1>5 DEF AppliedGood, Others, Parts
<1>8. GateFits
  BY <1>4, <1>5 DEF GateFits, Capacity, Good, Configs, Parts
<1>9. Versions /\ Seen
  BY <1>4, <1>5 DEF Versions, Seen, Parts, Inside
<1>10. SlotsKept
  <2>1. \A g : ServedBy(g) = {}
    BY <1>5 DEF ServedBy
  <2>2. \A g \in 1..Len(gates) : gates[g].limit \in Nat
    BY <1>1, LimitType DEF TypeOK
  <2>3. \A g : Cardinality(ServedBy(g)) = 0
    BY <2>1, FS_EmptySet
  <2>4. ASSUME NEW g \in 1..Len(gates) PROVE Cardinality(ServedBy(g)) <= gates[g].limit
    <3>1. gates[g].limit \in Nat /\ Cardinality(ServedBy(g)) = 0
      BY <2>2, <2>3
    <3>2. QED
      BY <3>1
  <2>5. QED
    BY <2>4 DEF SlotsKept
<1>11. QED
  BY <1>1, <1>6, <1>7, <1>8, <1>9, <1>10 DEF IInv

LEMMA InvStep == IInv /\ [Next]_vars => IInv'
<1>. SUFFICES ASSUME IInv, [Next]_vars PROVE IInv'
  OBVIOUS
<1>. USE DEF IInv
<1>1. TypeOK'
  BY TypeStep
<1>2. LockHeld' /\ LoadedGood' /\ AppliedGood'
  BY LockStep, LoadedStep, AppliedStep
<1>3. Others' /\ Ours' /\ GateFits'
  BY OthersStep, OursStep, GateStep
<1>4. Versions' /\ Seen' /\ ViewsInOrder'
  BY <1>1, VersionsStep, SeenStep, ViewsStep
<1>5. SlotsKept'
  BY SlotsStep
<1>6. QED
  BY <1>1, <1>2, <1>3, <1>4, <1>5

\* The inductive invariant holds in every state.
THEOREM ReloadInvariant == Spec => []IInv
BY InvInit, InvStep, PTL DEF Spec

\* Every state of the hot reload has its type.
THEOREM ReloadTypeCorrect == Spec => []TypeOK
<1>1. IInv => TypeOK
  BY DEF IInv
<1>2. QED
  BY <1>1, ReloadInvariant, PTL

\* Whenever no reload is under way, pool, runner, blob store and runtime state
\* work with one valid configuration and the queue has its size, for any number of
\* requests and edits.
THEOREM ReloadPartsAgree == Spec => []PartsAgree
<1>1. IInv => PartsAgree
  <2>. SUFFICES ASSUME IInv, lock \in {Nobody, "boot"}
                PROVE  /\ \A p \in Parts : applied[p] = applied["state"]
                       /\ applied["state"].accounts > 0
                       /\ applied["state"].ids /\ applied["state"].wellFormed
                       /\ gates[gate] = [limit |-> applied["pool"].accounts,
                                         max |-> applied["state"].queue]
    BY DEF PartsAgree
  <2>1. lock \notin Requests
    BY ReloadAssumption DEF Nobody
  <2>2. \A p \in Parts : applied[p] = applied["state"]
    BY <2>1 DEF IInv, Others
  <2>3. Good(applied["state"])
    BY DEF IInv, AppliedGood, Parts
  <2>4. gates[gate] = [limit |-> applied["pool"].accounts,
                       max |-> applied["state"].queue]
    BY <2>2 DEF IInv, GateFits, Parts
  <2>5. QED
    BY <2>2, <2>3, <2>4 DEF Good
<1>2. QED
  BY <1>1, ReloadInvariant, PTL

\* No request is authorized or served by a configuration older than one it met
\* before.
THEOREM ReloadViewsInOrder == Spec => []ViewsInOrder
<1>1. IInv => ViewsInOrder
  BY DEF IInv
<1>2. QED
  BY <1>1, ReloadInvariant, PTL

\* The queue in force never serves more requests than the pool has accounts, but
\* while a reload has given the pool its accounts and not yet stored the runtime
\* state: then no more than there were accounts before.
THEOREM ReloadGateFits == Spec => []CurrentGateFits
<1>1. IInv => CurrentGateFits
  <2>. SUFFICES ASSUME IInv PROVE CurrentGateFits
    OBVIOUS
  <2>1. gate \in 1..Len(gates) /\ gates[gate].limit = applied["state"].accounts
    BY DEF IInv, TypeOK, GateFits
  <2>2. Cardinality(ServedBy(gate)) <= applied["state"].accounts
    BY <2>1 DEF IInv, SlotsKept
  <2>3. CASE applied["pool"] = applied["state"]
    BY <2>2, <2>3 DEF CurrentGateFits
  <2>4. CASE applied["pool"] # applied["state"]
    <3>1. PICK r \in Requests : lock = r /\ "pool" \in Reached(pc[r])
      BY <2>4 DEF IInv, Others, Parts
    <3>2. pc[r] # "restat"
      BY <2>4, <3>1 DEF IInv, Ours, Reached, Parts
    <3>3. pc[r] \in {"runner", "blobs", "state"}
      BY <3>1, <3>2 DEF Reached
    <3>4. QED
      BY <2>2, <3>1, <3>3 DEF CurrentGateFits
  <2>5. QED
    BY <2>3, <2>4
<1>2. QED
  BY <1>1, ReloadInvariant, PTL

-----------------------------------------------------------------------------
(* Edits are found.                                                          *)

\* Modification times only grow, and the server knows of none that is to come.
Times ==
  /\ mtime <= clock
  /\ known <= mtime
  /\ \A r \in Requests : pc[r] \in Inside => seen[r] <= mtime

\* The last edit came while no reload was under way and left a time of its own.
Noted == during = "quiet" /\ ~coarse

\* What a reload that found such an edit has in its hands at each of its places.
Reloading(r) ==
  /\ pc[r] \in Inside \ {"restat"} =>
       /\ mtime > known
       /\ file # NoFile => file.ver # applied["state"].ver
  /\ pc[r] \in Inside \ {"load"} /\ file # NoFile => file.ver = loaded[r].ver
  /\ pc[r] \in Inside \ {"load", "restat"} => loaded[r].ver # applied["state"].ver

LastEdit ==
  Noted =>
    /\ lock = "boot" /\ file # NoFile => file.ver = applied["state"].ver
    /\ Quiet /\ file # NoFile => (mtime > known <=> file.ver # applied["state"].ver)
    /\ \A r \in Requests : Reloading(r)

\* What the types say of times and versions.
LEMMA Numbers ==
  ASSUME TypeOK
  PROVE  /\ clock \in Int /\ mtime \in Int /\ known \in Int /\ edits \in Int
         /\ \A r \in Requests : seen[r] \in Int /\ loaded[r].ver \in Int
         /\ applied["state"].ver \in Int
         /\ file # NoFile => file.ver \in Int
<1>1. /\ clock \in Int /\ mtime \in Int /\ known \in Int /\ edits \in Int
      /\ \A r \in Requests : seen[r] \in Int
  BY DEF TypeOK
<1>2. \A c \in Configs : c.ver \in Int
  BY DEF Configs
<1>3. QED BY <1>1, <1>2 DEF TypeOK, Parts

LEMMA TimesStep == IInv /\ Times /\ [Next]_vars => Times'
<1> SUFFICES ASSUME IInv, Times, [Next]_vars PROVE Times' OBVIOUS
<1>0. TypeOK /\ LockHeld
  BY DEF IInv
<1>1. CASE UNCHANGED vars
  BY <1>1 DEF vars, disk, server, request, Times
<1>2. CASE Boot
  BY <1>0, <1>2, Numbers DEF Boot, disk, request, Times
<1>3. CASE Edit \/ Remove \/ Tick
  <2>1. UNCHANGED <<known, pc, seen>> /\ clock <= clock' /\ mtime <= mtime'
        /\ mtime' <= clock' /\ mtime' \in Int /\ clock' \in Int
    BY <1>0, <1>3, Numbers DEF Edit, Remove, Tick, server, request, Times
  <2>2. QED BY <1>0, <2>1, Numbers DEF Times
<1>4. ASSUME NEW r \in Requests, RequestStep(r) PROVE Times'
  <2>1. CASE Changed(r)
    BY <1>0, <2>1, Numbers DEF Changed, Goto, disk, Times, TypeOK
  <2>2. CASE Save(r)
    <3>1. UNCHANGED <<clock, known, seen>> /\ mtime' = clock
          /\ pc[r] \in Inside /\ pc' = [pc EXCEPT ![r] = "pool"]
      BY <2>2 DEF Save, Goto, server, Inside
    <3>2. \A q \in Requests : pc'[q] \in Inside => pc[q] \in Inside
      BY <1>0, <3>1 DEF TypeOK
    <3>3. QED BY <1>0, <3>1, <3>2, Numbers DEF Times
  <2>3. CASE Restat(r)
    <3>1. UNCHANGED <<clock, mtime, seen>> /\ known' \in {mtime, seen[r]}
          /\ pc[r] \in Inside /\ pc' = [pc EXCEPT ![r] = "auth"]
      BY <2>3 DEF Restat, FoundTime, Goto, disk, Inside
    <3>2. \A q \in Requests : pc'[q] \in Inside => pc[q] \in Inside
      BY <1>0, <3>1 DEF TypeOK, Inside
    <3>3. QED BY <1>0, <3>1, <3>2, Numbers DEF Times
  <2>4. CASE SaveFails(r)
    <3>1. UNCHANGED <<clock, known, seen>> /\ mtime' \in {clock, mtime}
          /\ pc' = [pc EXCEPT ![r] = "auth"]
      BY <2>4 DEF SaveFails, Reject, Goto
    <3>2. \A q \in Requests : pc'[q] \in Inside => pc[q] \in Inside
      BY <1>0, <3>1 DEF TypeOK, Inside
    <3>3. QED BY <1>0, <3>1, <3>2, Numbers DEF Times
  <2>5. ASSUME ~Changed(r), ~Save(r), ~SaveFails(r), ~Restat(r) PROVE Times'
    <3>1. UNCHANGED <<clock, mtime, known, seen>>
      BY <1>4, <2>5 DEF RequestStep, Arrive, Unchanged, LoadFails, LoadFile,
         Reject, Apply, Publish, withAuth, Handle, Serve, Done, disk, server
    <3>2. pc'[r] \in Inside => pc[r] \in Inside
      BY <1>0, <1>4, <2>5 DEF RequestStep, Arrive, Unchanged, LoadFails, LoadFile,
         Reject, Apply, Publish, withAuth, Handle, Serve, Done, Goto,
         TypeOK, Inside, NextPart
    <3>3. \A q \in Requests \ {r} : pc'[q] = pc[q]
      BY <1>0, <1>4, <2>5 DEF RequestStep, Arrive, Unchanged, LoadFails, LoadFile,
         Reject, Apply, Publish, withAuth, Handle, Serve, Done, Goto, TypeOK
    <3>4. QED BY <3>1, <3>2, <3>3 DEF Times
  <2>6. QED BY <2>1, <2>2, <2>3, <2>4, <2>5
<1>5. QED BY <1>1, <1>2, <1>3, <1>4 DEF Next

\* The steps of the server's start and of the user.
LEMMA LastEditOutside ==
  ASSUME IInv, Times, LastEdit, Boot \/ Edit \/ Remove \/ Tick
  PROVE  LastEdit'
<1>0. TypeOK /\ LockHeld /\ Versions
  BY DEF IInv
<1>1. UNCHANGED <<applied, pc, loaded>>
  BY DEF Boot, Edit, Remove, Tick, server, request
<1>2. CASE Boot
  <2>1. \A r \in Requests : pc[r] \notin Inside
    BY <1>0, <1>2, ReloadAssumption DEF Boot, LockHeld
  <2>2. file # NoFile => known' = mtime
    BY <1>2 DEF Boot
  <2>3. UNCHANGED <<file, mtime, during, coarse>> /\ lock = "boot" /\ lock' = Nobody
    BY <1>2 DEF Boot, disk
  <2>4. QED
    BY <1>0, <1>1, <2>1, <2>2, <2>3, Numbers DEF LastEdit, Noted, Reloading, Quiet, Nobody
<1>3. CASE Edit
  <2> SUFFICES ASSUME Noted' PROVE LastEdit'
    BY DEF LastEdit
  <2>1. /\ UNCHANGED <<known, lock>> /\ mtime' = clock /\ Quiet /\ clock > mtime
        /\ \E c \in Written : file' = Numbered(c, edits + 1)
    <3>1. UNCHANGED <<known, lock>> /\ mtime' = clock
          /\ \E c \in Written : file' = Numbered(c, edits + 1)
      BY <1>3 DEF Edit, server
    <3>2. Quiet
      BY <1>3 DEF Edit, Noted
    <3>3. coarse' = (clock <= mtime) /\ ~coarse'
      BY <1>3 DEF Edit, Noted
    <3>4. ~(clock <= mtime)
      BY <3>3, Zenon
    <3>5. clock > mtime
      BY <1>0, <3>4, Numbers
    <3>6. QED BY <3>1, <3>2, <3>5
  <2>2. file' # NoFile /\ file'.ver = edits + 1
    BY <2>1, ReloadAssumption DEF Numbered, Configs, NoFile
  <2>3. mtime' > known' /\ file'.ver # applied'["state"].ver
    BY <1>0, <1>1, <2>1, <2>2, Numbers DEF Times, Versions
  <2>4. \A r \in Requests : pc[r] \notin Inside
    BY <1>0, <2>1, ReloadAssumption DEF LockHeld, Quiet, Nobody
  <2>5. QED
    BY <1>1, <2>1, <2>3, <2>4 DEF LastEdit, Reloading, Quiet, Nobody
<1>4. CASE Remove
  <2>1. file' = NoFile /\ UNCHANGED <<mtime, known, lock, during, coarse>>
    BY <1>4 DEF Remove, server
  <2>2. QED BY <1>1, <2>1 DEF LastEdit, Noted, Reloading
<1>5. CASE Tick
  <2>1. UNCHANGED <<file, mtime, known, lock, during, coarse>>
    BY <1>5 DEF Tick, server
  <2>2. QED BY <1>1, <2>1 DEF LastEdit, Noted, Reloading, Quiet
<1>6. QED BY <1>2, <1>3, <1>4, <1>5

\* A step of a request that does not hold the lock, and does not take it.
LEMMA LastEditBystander ==
  ASSUME IInv, LastEdit, NEW r \in Requests, RequestStep(r),
         pc[r] \notin Inside, ~Changed(r)
  PROVE  LastEdit'
<1>0. TypeOK
  BY DEF IInv
<1>1. UNCHANGED <<disk, server, loaded>> /\ pc'[r] \notin Inside
      /\ \A q \in Requests \ {r} : pc'[q] = pc[q]
  BY <1>0 DEF RequestStep, Arrive, Unchanged, LoadFails, LoadFile, Save, SaveFails,
     Apply, Publish, Restat, withAuth, Handle, Serve, Done, Goto, TypeOK, Inside, NextPart
<1>2. \A q \in Requests : Reloading(q) => Reloading(q)'
  BY <1>1 DEF Reloading, disk, server
<1>3. QED BY <1>1, <1>2 DEF LastEdit, Noted, Quiet, disk, server

\* A step of the request that holds the lock, or takes it.
LEMMA LastEditHolder ==
  ASSUME IInv, IInv', Times, LastEdit, NEW r \in Requests, RequestStep(r),
         pc[r] \in Inside \/ Changed(r)
  PROVE  LastEdit'
<1> SUFFICES ASSUME Noted' PROVE LastEdit'
  BY DEF LastEdit
<1>0. TypeOK /\ LockHeld /\ TypeOK' /\ LockHeld' /\ Ours'
  BY DEF IInv
<1>1. UNCHANGED <<during, coarse>> /\ Noted
  BY DEF RequestStep, Arrive, Unchanged, Changed, LoadFails, LoadFile, Save, SaveFails,
     Reject, Apply, Publish, Restat, withAuth, Handle, Serve, Done, disk, Noted
<1>2. /\ Quiet /\ file # NoFile => (mtime > known <=> file.ver # applied["state"].ver)
      /\ Reloading(r)
  BY <1>1 DEF LastEdit
<1>3. \A q \in Requests \ {r} : pc[q] \notin Inside /\ pc'[q] = pc[q]
  <2>1. lock = r \/ Quiet
    BY <1>0 DEF LockHeld, Changed, MayLock
  <2>2. \A q \in Requests \ {r} : pc[q] \notin Inside
    BY <1>0, <2>1, ReloadAssumption DEF LockHeld, Quiet, Nobody
  <2>3. \A q \in Requests \ {r} : pc'[q] = pc[q]
    BY <1>0 DEF RequestStep, Arrive, Unchanged, Changed, LoadFails, LoadFile, Save,
       SaveFails, Reject, Apply, Publish, Restat, withAuth, Handle, Serve, Done, Goto,
       TypeOK
  <2>4. QED BY <2>2, <2>3
<1>4. \A q \in Requests \ {r} : Reloading(q)'
  BY <1>3 DEF Reloading
<1>5. ASSUME Reloading(r)', lock' = r PROVE LastEdit'
  BY <1>4, <1>5, ReloadAssumption DEF LastEdit, Quiet, Nobody
<1>6. ASSUME lock' = Nobody, pc'[r] \notin Inside,
             file' # NoFile => (mtime' > known' <=> file'.ver # applied'["state"].ver)
      PROVE  LastEdit'
  BY <1>4, <1>6, ReloadAssumption DEF LastEdit, Quiet, Nobody, Reloading
<1>7. CASE Changed(r)
  <2>1. Quiet /\ file # NoFile /\ mtime > known /\ lock' = r
        /\ UNCHANGED <<file, mtime, known, applied, loaded>> /\ pc'[r] = "load"
    BY <1>0, <1>7 DEF Changed, MayLock, Goto, disk, TypeOK
  <2>2. Reloading(r)'
    BY <1>2, <2>1 DEF Reloading
  <2>3. QED BY <1>5, <2>1, <2>2
<1>8. CASE LoadFails(r) \/ SaveFails(r)
  <2>1. /\ pc[r] \in {"load", "save"} /\ lock' = Nobody /\ pc'[r] = "auth"
        /\ UNCHANGED <<known, applied>>
    BY <1>0, <1>8 DEF LoadFails, SaveFails, Reject, Goto, TypeOK
  <2>2. CASE UNCHANGED <<file, mtime>>
    <3>1. file # NoFile => (mtime > known <=> file.ver # applied["state"].ver)
      BY <1>2, <2>1 DEF Reloading, Inside
    <3>2. QED BY <1>6, <2>1, <2>2, <3>1 DEF Inside
  <2>3. CASE SaveFails(r) /\ file' \in CutOff(loaded[r]) /\ mtime' = clock
    <3>1. file'.ver = loaded[r].ver
      BY <1>0, <2>3, CutOffType DEF TypeOK
    <3>2. pc[r] = "save" /\ mtime > known /\ loaded[r].ver # applied["state"].ver
      BY <1>2, <2>3 DEF SaveFails, Reloading, Inside
    <3>3. mtime' > known'
      BY <1>0, <2>1, <2>3, <3>2, Numbers DEF Times
    <3>4. QED BY <1>6, <2>1, <3>1, <3>2, <3>3 DEF Inside
  <2>4. QED BY <1>8, <2>2, <2>3 DEF LoadFails, SaveFails, disk
<1>9. ASSUME pc[r] \in Inside, ~LoadFails(r), ~SaveFails(r), ~Restat(r)
      PROVE  lock' = r
  <2>1. lock = r /\ UNCHANGED lock
    BY <1>0, <1>9 DEF LockHeld, RequestStep, Arrive, Unchanged, Changed, LoadFile, Save,
       Apply, Publish, withAuth, Handle, Serve, Done, server, Inside
  <2>2. QED BY <2>1
<1>10. CASE LoadFile(r)
  <2>1. /\ pc[r] = "load" /\ file # NoFile /\ pc'[r] \in {"save", "pool"} /\ lock' = r
        /\ UNCHANGED <<file, mtime, known, applied>> /\ loaded'[r] = Load(file)
        /\ validate(file) /\ file \in Configs
    BY <1>0, <1>9, <1>10 DEF LoadFile, Loadable, Goto, disk, server, TypeOK, Inside,
       LoadFails, SaveFails, Restat
  <2>2. loaded'[r].ver = file.ver
    BY <2>1, LoadIsGood
  <2>3. Reloading(r)'
    BY <1>2, <2>1, <2>2 DEF Reloading, Inside
  <2>4. QED BY <1>5, <2>1, <2>3
<1>11. CASE Save(r)
  <2>1. /\ pc[r] = "save" /\ pc'[r] = "pool" /\ lock' = r /\ file' = loaded[r]
        /\ mtime' = clock /\ UNCHANGED <<known, applied, loaded>>
    <3>1. /\ pc[r] = "save" /\ pc'[r] = "pool" /\ file' = loaded[r]
          /\ mtime' = clock /\ UNCHANGED <<known, applied, loaded>>
      BY <1>0, <1>11 DEF Save, Goto, server, TypeOK
    <3>2. lock' = r
      BY <1>0, <1>11, <3>1 DEF Save, server, LockHeld, Inside
    <3>3. QED BY <3>1, <3>2
  <2>2. mtime' > known'
    BY <1>0, <1>2, <2>1, Numbers DEF Reloading, Inside, Times
  <2>3. Reloading(r)'
    BY <1>2, <2>1, <2>2 DEF Reloading, Inside
  <2>4. QED BY <1>5, <2>1, <2>3
<1>12. CASE \E p \in DOMAIN NextPart : Apply(r, p)
  <2>1. /\ pc[r] \in {"pool", "runner", "blobs"} /\ pc'[r] \in {"runner", "blobs", "state"}
        /\ UNCHANGED <<file, mtime, known, loaded>>
        /\ applied'["state"] = applied["state"]
    <3>1. PICK p \in {"pool", "runner", "blobs"} : Apply(r, p)
      BY <1>12 DEF NextPart
    <3>2. pc[r] = p /\ UNCHANGED <<file, mtime, known, loaded>>
      BY <3>1 DEF Apply, disk
    <3>3. pc'[r] = NextPart[p]
      BY <1>0, <3>1 DEF Apply, Goto, TypeOK
    <3>4. NextPart[p] \in {"runner", "blobs", "state"}
      BY DEF NextPart
    <3>5. applied'["state"] = applied["state"]
      BY <1>0, <3>1 DEF Apply, TypeOK, Parts
    <3>6. QED BY <3>2, <3>3, <3>4, <3>5
  <2>2. lock' = r
    BY <1>9, <2>1 DEF Inside, LoadFails, SaveFails, Restat
  <2>3. Reloading(r)'
    BY <1>2, <2>1 DEF Reloading, Inside
  <2>4. QED BY <1>5, <2>2, <2>3
<1>13. CASE Publish(r)
  <2>1. /\ pc[r] = "state" /\ pc'[r] = "restat" /\ UNCHANGED <<file, mtime, loaded>>
    BY <1>0, <1>13 DEF Publish, Goto, disk, TypeOK
  <2>2. lock' = r
    BY <1>9, <2>1 DEF Inside, LoadFails, SaveFails, Restat
  <2>3. Reloading(r)'
    BY <1>2, <2>1 DEF Reloading, Inside
  <2>4. QED BY <1>5, <2>2, <2>3
<1>14. CASE Restat(r)
  <2>1. /\ pc[r] = "restat" /\ pc'[r] = "auth" /\ lock' = Nobody
        /\ UNCHANGED <<file, mtime, applied, loaded>>
        /\ file # NoFile => known' = mtime
    BY <1>0, <1>14 DEF Restat, FoundTime, Goto, disk, TypeOK
  <2>2. applied["state"] = loaded[r]
    BY <2>1 DEF IInv, Ours, Reached, Parts
  <2>3. file # NoFile => file.ver = applied["state"].ver
    BY <1>2, <2>1, <2>2 DEF Reloading, Inside
  <2>4. QED BY <1>0, <1>6, <2>1, <2>3, Numbers DEF Inside
<1>15. QED
  BY <1>7, <1>8, <1>10, <1>11, <1>12, <1>13, <1>14
     DEF RequestStep, Arrive, Unchanged, withAuth, Handle, Serve, Done, Inside

LEMMA LastEditStep == IInv /\ IInv' /\ Times /\ LastEdit /\ [Next]_vars => LastEdit'
<1> SUFFICES ASSUME IInv, IInv', Times, LastEdit, [Next]_vars PROVE LastEdit'
  OBVIOUS
<1>1. CASE UNCHANGED vars
  BY <1>1 DEF vars, disk, server, request, LastEdit, Noted, Reloading, Quiet
<1>2. CASE Boot \/ Edit \/ Remove \/ Tick
  BY <1>2, LastEditOutside
<1>3. ASSUME NEW r \in Requests, RequestStep(r) PROVE LastEdit'
  BY <1>3, LastEditBystander, LastEditHolder
<1>4. QED BY <1>1, <1>2, <1>3 DEF Next

\* An edit that comes while no reload is under way is found by the next request, and
\* nothing is taken for one: not the write of generated ids, nor what was applied.
THEOREM ReloadEditIsFound == Spec => []EditIsFound
<1>1. Init => Times /\ LastEdit
  <2> SUFFICES ASSUME Init PROVE Times /\ LastEdit OBVIOUS
  <2>1. /\ clock = 1 /\ mtime = 1 /\ known = 0 /\ lock = "boot"
        /\ applied["state"] = file
        /\ \A r \in Requests : pc[r] = "idle"
    BY DEF Init, Parts
  <2>2. QED BY <2>1 DEF Times, LastEdit, Reloading, Quiet, Nobody, Inside
<1>2. IInv /\ IInv' /\ Times /\ LastEdit /\ [Next]_vars => Times' /\ LastEdit'
  BY TimesStep, LastEditStep
<1>3. LastEdit => EditIsFound
  BY DEF LastEdit, Noted, EditIsFound
<1>4. QED BY <1>1, <1>2, <1>3, ReloadInvariant, PTL DEF Spec

=============================================================================
