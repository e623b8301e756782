------------------------------ MODULE BlobStore ------------------------------
(***************************************************************************)
(* The in-memory store behind /v1/blobs/ of internal/server/server.go:     *)
(* image bytes under a random id, kept until their time is over.  There is *)
(* no timer; each call first collects what has expired.  Every action is   *)
(* one critical section of b.mu.  The bytes are left out.                  *)
(***************************************************************************)
EXTENDS Integers, FiniteSets

CONSTANTS Ids,      \* the random ids that Put may draw, each once
          TTLs,     \* values of blob_ttl; any duration that parses
          MaxTime   \* bound: the clock

ASSUME BlobAssumption ==
  /\ IsFiniteSet(Ids)
  /\ TTLs \subseteq Int
  /\ MaxTime \in Nat

VARIABLES
  now,    \* the clock
  ttl,    \* b.ttl
  items,  \* b.items: ExpiresAt of each id
  drawn,  \* the ids that were drawn
  got     \* the last answer of Get

vars == <<now, ttl, items, drawn, got>>

Kept == DOMAIN items

Init ==
  /\ now = 0
  /\ ttl \in TTLs
  /\ items = [i \in {} |-> 0]
  /\ drawn = {}
  /\ got = <<>>

\* now.After(item.ExpiresAt): the moment itself is still in time.
Expired(i) == now > items[i]

gc == [i \in {j \in Kept : ~Expired(j)} |-> items[i]]

\* 128 random bits: an id is never drawn twice.
Put(i) ==
  /\ i \notin drawn
  /\ drawn' = drawn \cup {i}
  /\ items' = [j \in DOMAIN gc \cup {i} |-> IF j = i THEN now + ttl ELSE items[j]]
  /\ UNCHANGED <<now, ttl, got>>

\* Mutant: the expiry of all items follows the new ttl.
SetTTLForAll(d) ==
  /\ ttl' = d
  /\ items' = [i \in DOMAIN gc |-> now + d]
  /\ UNCHANGED <<now, drawn, got>>

\* The items that are there keep their ExpiresAt.
SetTTL(d) ==
  /\ ttl' = d
  /\ items' = gc
  /\ UNCHANGED <<now, drawn, got>>

\* handleBlob: 404 for an id that is not there, also for one never drawn.
Get(i) ==
  /\ items' = gc
  /\ got' = <<i, i \in DOMAIN gc>>
  /\ UNCHANGED <<now, ttl, drawn>>

Tick ==
  /\ now < MaxTime
  /\ now' = now + 1
  /\ UNCHANGED <<ttl, items, drawn, got>>

Next ==
  \/ Tick
  \/ \E d \in TTLs : SetTTL(d)
  \/ \E i \in Ids : Put(i) \/ Get(i)

Spec == Init /\ [][Next]_vars

-----------------------------------------------------------------------------

TypeOK ==
  /\ now \in 0..MaxTime
  /\ ttl \in TTLs
  /\ Kept \subseteq drawn
  /\ drawn \subseteq Ids
  /\ \A i \in Kept : items[i] \in Int

\* The blobs a client can still get.
Available == {i \in Kept : ~Expired(i)}

\* Collecting late cannot be seen: to its clients the store is one from which
\* a blob disappears by itself exactly when its own time to live is over, whatever
\* blob_ttl has been set to since.
Prompt == INSTANCE PromptCache WITH
  until <- [i \in Available |-> items[i]]

LazyIsPrompt == Prompt!Spec

=============================================================================
