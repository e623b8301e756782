-------------------------------- MODULE Reload --------------------------------
(***************************************************************************)
(* Hot reload of the configuration: reloadConfigIfChanged of               *)
(* internal/server/server.go with config.Load, run by every HTTP request   *)
(* before it is served, while others are served and the file is edited.    *)
(*                                                                         *)
(* A configuration is abstracted to what the reload tells apart; ver is    *)
(* the number of the edit that wrote it, kept when Load writes it back.    *)
(* The pool, the runner, the blob store and the runtime state each keep    *)
(* the configuration they were last given.  A gate is a generation of the  *)
(* image queue (module Gate), of which only the slots are kept here.       *)
(***************************************************************************)
EXTENDS Integers, Sequences, FiniteSets

CONSTANTS Requests,      \* HTTP requests
          Written,       \* configurations the user may write
          DefaultQueue,  \* applyDefaults' max_queue_size
          MaxEdits,      \* bound: edits of the file
          MaxTime        \* bound: the clock of the file system

Configs == [ver : Nat, accounts : Nat, queue : Int, ids : BOOLEAN,
            wellFormed : BOOLEAN]

ASSUME ReloadAssumption ==
  /\ IsFiniteSet(Requests)
  /\ Requests \cap {"nobody", "boot"} = {}
  /\ Written \subseteq Configs
  /\ DefaultQueue \in Nat \ {0}
  /\ MaxEdits \in Nat
  /\ MaxTime \in Nat \ {0}

VARIABLES
  clock,    \* the file system's clock, which gives modification times
  file,     \* what the file says: a configuration with its ver, or NoFile
  mtime,    \* the file's modification time
  edits,    \* number of edits so far
  during,   \* history: when the last edit came: "quiet", "boot" or "reload"
  coarse,   \* history: the last edit left the modification time as it was
  known,    \* configModTime
  applied,  \* the configuration that each part of the server works with
  gates,    \* every image queue made so far: [limit, max]
  gate,     \* the one in the runtime state
  lock,     \* who holds reloadMu
  pc,       \* where each request is
  seen,     \* the modification time a reload found first
  loaded,   \* the configuration a reload has loaded
  slot,     \* the gate whose slot a request holds, or 0
  views     \* history: versions in force at arrival, at withAuth, when served

disk    == <<clock, file, mtime, edits, during, coarse>>
server  == <<known, applied, gates, gate, lock>>
request == <<pc, seen, loaded, slot, views>>
vars    == <<disk, server, request>>

NoFile  == [ver |-> -1]
Nobody  == "nobody"
Parts   == {"pool", "runner", "blobs", "state"}

\* "boot" is the server's start.  "idle" the request has not arrived,
\* "arrived" before reloadMu, "load" to "restat" inside it, "auth" before
\* withAuth, "handler" before the handler takes the runtime state, "queued" in
\* its gate, "serving" with a slot.
PCs == {"idle", "arrived", "load", "save", "pool", "runner", "blobs", "state",
        "restat", "auth", "handler", "queued", "serving", "done"}

Quiet == lock = Nobody

Numbered(c, v) == [c EXCEPT !.ver = v]

Goto(r, l) == pc' = [pc EXCEPT ![r] = l]
View(r, k) == views' = [views EXCEPT ![r][k] = applied["state"].ver]

-----------------------------------------------------------------------------
(* config.Load                                                               *)

\* applyDefaults, as far as it matters here.
applyDefaults(c) == [c EXCEPT !.queue = IF c.queue <= 0 THEN DefaultQueue ELSE c.queue]

\* validate, the decoding of the YAML and the durations; wellFormed stands for
\* everything but the accounts.
validate(c) == c.wellFormed /\ c.accounts > 0

\* ensureStableIDs.
ensureStableIDs(c) == [c EXCEPT !.ids = TRUE]

Load(c) == ensureStableIDs(applyDefaults(c))

-----------------------------------------------------------------------------
(* The start                                                                 *)

\* buildRuntimeState: one slot for each loaded account.
Capacity(accounts, c) ==
  [limit |-> IF accounts <= 0 THEN 1 ELSE accounts, max |-> c.queue]

\* main has loaded the file and New has been called with what it held.  The file
\* is looked at once more at the end of New.
Init ==
  \E c \in Written :
    /\ validate(c)
    /\ file = Load(Numbered(c, 0))
    /\ applied = [p \in Parts |-> file]
    /\ gates = <<Capacity(file.accounts, file)>>
    /\ clock = 1
    /\ mtime = 1
    /\ edits = 0
    /\ during = "quiet"
    /\ coarse = FALSE
    /\ known = 0
    /\ gate = 1
    /\ lock = "boot"
    /\ pc = [r \in Requests |-> "idle"]
    /\ seen = [r \in Requests |-> 0]
    /\ loaded = [r \in Requests |-> file]
    /\ slot = [r \in Requests |-> 0]
    /\ views = [r \in Requests |-> <<0, 0, 0>>]

\* The end of New; a file that cannot be read leaves the zero time.
Boot ==
  /\ lock = "boot"
  /\ known' = IF file # NoFile THEN mtime ELSE known
  /\ lock' = Nobody
  /\ UNCHANGED <<disk, applied, gates, gate, request>>

-----------------------------------------------------------------------------
(* reloadConfigIfChanged                                                     *)

Arrive(r) ==
  /\ pc[r] = "idle"
  /\ lock # "boot"
  /\ Goto(r, "arrived")
  /\ View(r, 1)
  /\ UNCHANGED <<disk, server, seen, loaded, slot>>

\* Mutant: reloadMu is not taken.
MayLockAlways == lock # "boot"

MayLock == Quiet

\* The first Stat finds nothing new, or no file: the lock is given back at once.
Unchanged(r) ==
  /\ pc[r] = "arrived"
  /\ MayLock
  /\ file = NoFile \/ mtime <= known
  /\ Goto(r, "auth")
  /\ UNCHANGED <<disk, server, seen, loaded, slot, views>>

Changed(r) ==
  /\ pc[r] = "arrived"
  /\ MayLock
  /\ file # NoFile
  /\ mtime > known
  /\ lock' = r
  /\ seen' = [seen EXCEPT ![r] = mtime]
  /\ Goto(r, "load")
  /\ UNCHANGED <<disk, known, applied, gates, gate, loaded, slot, views>>

\* Mutant: an early return keeps the lock.
RejectLocked(r) ==
  /\ Goto(r, "auth")
  /\ UNCHANGED <<server, seen, loaded, slot, views>>

\* An early return with the lock given back; nothing was applied.
Reject(r) ==
  /\ lock' = Nobody
  /\ Goto(r, "auth")
  /\ UNCHANGED <<known, applied, gates, gate, seen, loaded, slot, views>>

Loadable == file # NoFile /\ validate(file)

\* Load reads the file as it is now, which may be another version than the one
\* Stat saw, or none.
LoadFails(r) ==
  /\ pc[r] = "load"
  /\ ~Loadable
  /\ Reject(r)
  /\ UNCHANGED disk

LoadFile(r) ==
  /\ pc[r] = "load"
  /\ Loadable
  /\ loaded' = [loaded EXCEPT ![r] = Load(file)]
  /\ Goto(r, IF file.ids THEN "pool" ELSE "save")
  /\ UNCHANGED <<disk, server, seen, slot, views>>

\* Generated ids are written back, over whatever the file holds by now.
Save(r) ==
  /\ pc[r] = "save"
  /\ file' = loaded[r]
  /\ mtime' = clock
  /\ Goto(r, "pool")
  /\ UNCHANGED <<clock, edits, during, coarse, server, seen, loaded, slot, views>>

\* What is left of a configuration whose write broke off: an account list cut
\* short, an account without its ids, or a text that is no YAML.
CutOff(c) ==
  [ver : {c.ver}, accounts : 0..c.accounts, queue : {c.queue}, ids : BOOLEAN,
   wellFormed : BOOLEAN]

\* os.WriteFile empties the file before it writes: a write that fails leaves the
\* file alone only when the file could not be opened.
SaveFails(r) ==
  /\ pc[r] = "save"
  /\ Reject(r)
  /\ \/ UNCHANGED <<file, mtime>>
     \/ file' \in CutOff(loaded[r]) /\ mtime' = clock
  /\ UNCHANGED <<clock, edits, during, coarse>>

\* pool.Reload, runner.Update and blobStore.SetTTL, each under its own lock.
NextPart == [pool |-> "runner", runner |-> "blobs", blobs |-> "state"]

Apply(r, p) ==
  /\ pc[r] = p
  /\ applied' = [applied EXCEPT ![p] = loaded[r]]
  /\ Goto(r, NextPart[p])
  /\ UNCHANGED <<disk, known, gates, gate, lock, seen, loaded, slot, views>>

\* Mutant: the gate is kept whatever its size.
SameGateAlways(q) == q = q

\* The previous gate is kept when its size is still right.
SameGate(q) == gates[gate] = q

\* buildRuntimeState and Store; the limit is the number of accounts in the pool.
Publish(r) ==
  /\ pc[r] = "state"
  /\ LET q == Capacity(applied["pool"].accounts, loaded[r]) IN
       IF SameGate(q) THEN UNCHANGED <<gates, gate>>
       ELSE gates' = Append(gates, q) /\ gate' = Len(gates) + 1
  /\ applied' = [applied EXCEPT !["state"] = loaded[r]]
  /\ Goto(r, "restat")
  /\ UNCHANGED <<disk, known, lock, seen, loaded, slot, views>>

\* Mutant: the time of the first Stat is kept.
FoundTimeFirst(r) == seen[r]

\* The second Stat.
FoundTime(r) == IF file # NoFile THEN mtime ELSE seen[r]

Restat(r) ==
  /\ pc[r] = "restat"
  /\ known' = FoundTime(r)
  /\ lock' = Nobody
  /\ Goto(r, "auth")
  /\ UNCHANGED <<disk, applied, gates, gate, seen, loaded, slot, views>>

-----------------------------------------------------------------------------
(* The request itself takes the runtime state twice                          *)

withAuth(r) ==
  /\ pc[r] = "auth"
  /\ View(r, 2)
  /\ Goto(r, "handler") \/ Goto(r, "done")
  /\ UNCHANGED <<disk, server, seen, loaded, slot>>

\* An image request enters the line of the gate that is in force now, and stays
\* with that gate.
Handle(r) ==
  /\ pc[r] = "handler"
  /\ View(r, 3)
  /\ slot' = [slot EXCEPT ![r] = gate]
  /\ Goto(r, "queued")
  /\ UNCHANGED <<disk, server, seen, loaded>>

ServedBy(g) == {r \in Requests : pc[r] = "serving" /\ slot[r] = g}

Serve(r) ==
  /\ pc[r] = "queued"
  /\ Cardinality(ServedBy(slot[r])) < gates[slot[r]].limit
  /\ Goto(r, "serving")
  /\ UNCHANGED <<disk, server, seen, loaded, slot, views>>

\* The reply, also without a slot when the line is full or the wait is over.
Done(r) ==
  /\ pc[r] \in {"queued", "serving"}
  /\ Goto(r, "done")
  /\ UNCHANGED <<disk, server, seen, loaded, slot, views>>

-----------------------------------------------------------------------------
(* The user                                                                  *)

Edit ==
  /\ edits < MaxEdits
  /\ edits' = edits + 1
  /\ \E c \in Written : file' = Numbered(c, edits + 1)
  /\ mtime' = clock
  /\ during' = IF Quiet THEN "quiet" ELSE IF lock = "boot" THEN "boot" ELSE "reload"
  /\ coarse' = (clock <= mtime)
  /\ UNCHANGED <<clock, server, request>>

\* The file is away, as when an editor replaces it.
Remove ==
  /\ edits < MaxEdits
  /\ file # NoFile
  /\ file' = NoFile
  /\ edits' = edits + 1
  /\ UNCHANGED <<clock, mtime, during, coarse, server, request>>

Tick ==
  /\ clock < MaxTime
  /\ clock' = clock + 1
  /\ UNCHANGED <<file, mtime, edits, during, coarse, server, request>>

RequestStep(r) ==
  \/ Arrive(r)
  \/ Unchanged(r)
  \/ Changed(r)
  \/ LoadFails(r)
  \/ LoadFile(r)
  \/ Save(r)
  \/ SaveFails(r)
  \/ \E p \in DOMAIN NextPart : Apply(r, p)
  \/ Publish(r)
  \/ Restat(r)
  \/ withAuth(r)
  \/ Handle(r)
  \/ Serve(r)
  \/ Done(r)

Next == Boot \/ (\E r \in Requests : RequestStep(r)) \/ Edit \/ Remove \/ Tick

Spec == Init /\ [][Next]_vars

\* The server's steps go on; the user owes nothing.
FairSpec == Spec /\ WF_vars(Boot) /\ \A r \in Requests : WF_vars(RequestStep(r))

-----------------------------------------------------------------------------

TypeOK ==
  /\ clock \in 1..MaxTime
  /\ file \in Configs \cup {NoFile}
  /\ mtime \in 1..MaxTime
  /\ edits \in 0..MaxEdits
  /\ during \in {"quiet", "boot", "reload"}
  /\ coarse \in BOOLEAN
  /\ known \in 0..MaxTime
  /\ applied \in [Parts -> Configs]
  /\ gates \in Seq([limit : Nat \ {0}, max : Nat \ {0}])
  /\ gate \in 1..Len(gates)
  /\ lock \in Requests \cup {Nobody, "boot"}
  /\ pc \in [Requests -> PCs]
  /\ seen \in [Requests -> 0..MaxTime]
  /\ loaded \in [Requests -> Configs]
  /\ slot \in [Requests -> 0..Len(gates)]
  /\ views \in [Requests -> [1..3 -> 0..MaxEdits]]

\* Whenever no reload is under way, the pool, the runner, the blob store and the
\* runtime state work with one and the same configuration, which is complete and
\* valid, and the image queue has its size: a rejected file changes nothing, and
\* two requests that find a new file do not mix it.
PartsAgree ==
  lock \in {Nobody, "boot"} =>
    /\ \A p \in Parts : applied[p] = applied["state"]
    /\ applied["state"].accounts > 0
    /\ applied["state"].ids /\ applied["state"].wellFormed
    /\ gates[gate] = [limit |-> applied["pool"].accounts,
                      max |-> applied["state"].queue]

\* No request sees the configuration go back: what it is authorized by is not
\* older than what was in force when it arrived, and what it is served by is not
\* older than that, however the reloads of other requests fall in between.
ViewsInOrder ==
  \A r \in Requests :
    /\ pc[r] \in {"handler", "queued", "serving"} => views[r][1] <= views[r][2]
    /\ pc[r] \in {"queued", "serving"} => views[r][2] <= views[r][3]

Found == file.ver = applied["state"].ver \/ mtime > known

\* What README.md says of every edit of a running server: the next request finds
\* it by the file's modification time, also when it came during a reload.
EveryEditIsFound ==
  Quiet /\ file # NoFile /\ ~coarse /\ during # "boot" => Found

\* An edit made while no reload was under way is found by the next request, and
\* nothing else is: the server does not take its own write of the generated ids for
\* an edit, nor load again what it has applied.
EditIsFound ==
  Quiet /\ file # NoFile /\ ~coarse /\ during = "quiet" =>
    (mtime > known <=> file.ver # applied["state"].ver)

\* README.md sizes the image slots by the number of loaded accounts.  Whatever is
\* reloaded, the requests admitted by the queue in force never outnumber the
\* accounts in the pool, but for one case: while a reload has shrunk the pool and
\* not yet stored the runtime state, they fit the accounts that were loaded before.
CurrentGateFits ==
  LET served == Cardinality(ServedBy(gate)) IN
    \/ served <= applied["pool"].accounts
    \/ /\ served <= applied["state"].accounts
       /\ \E r \in Requests : lock = r /\ pc[r] \in {"runner", "blobs", "state"}

\* Every request that arrived is answered or waits for a slot, and reloadMu is free
\* again and again: nobody blocks the server by leaving a reload.
RequestsPass ==
  \A r \in Requests : pc[r] = "arrived" ~> pc[r] = "done"

=============================================================================
