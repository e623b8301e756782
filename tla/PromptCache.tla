----------------------------- MODULE PromptCache -----------------------------
(***************************************************************************)
(* What the image URLs promise: a blob is there from its Put until its     *)
(* time to live, as it was then, has passed, and gone from that moment.    *)
(***************************************************************************)
EXTENDS Integers

CONSTANTS Ids, TTLs

VARIABLES
  now,    \* the clock
  ttl,    \* the time to live of the next Put
  until,  \* for the blobs that are there: the last moment they are
  got     \* the last answer of Get: the id, and whether it was there

vars == <<now, ttl, until, got>>

There == DOMAIN until

Init ==
  /\ now = 0
  /\ ttl \in TTLs
  /\ until = [i \in {} |-> 0]
  /\ got = <<>>

Put(i) ==
  /\ i \notin There
  /\ until' = [j \in {k \in There \cup {i} : k # i \/ ttl >= 0} |->
                 IF j = i THEN now + ttl ELSE until[j]]
  /\ UNCHANGED <<now, ttl, got>>

Get(i) ==
  /\ got' = <<i, i \in There>>
  /\ UNCHANGED <<now, ttl, until>>

SetTTL ==
  /\ ttl' \in TTLs
  /\ UNCHANGED <<now, until, got>>

\* Time passes, and blobs are gone by themselves.
Tick ==
  /\ now' = now + 1
  /\ until' = [i \in {j \in There : until[j] >= now + 1} |-> until[i]]
  /\ UNCHANGED <<ttl, got>>

Next == SetTTL \/ Tick \/ \E i \in Ids : Put(i) \/ Get(i)

Spec == Init /\ [][Next]_vars

=============================================================================
