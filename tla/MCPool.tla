------------------------------- MODULE MCPool -------------------------------
(* A small instance of Pool for TLC.                                          *)
EXTENDS Pool, TLC

CONSTANTS a, b, oldCred, newCred, j1, j2, o1, o2, o3

Acc(n, c) == [name |-> n, cred |-> c]

\* Two accounts, one of them alone with new credentials, and none.
Lists == {<<Acc(a, oldCred), Acc(b, oldCred)>>, <<Acc(a, newCred)>>, <<>>}

Symm == Permutations(Objects) \cup Permutations(Jobs)

\* The fields of an object nothing refers to are garbage: they are set again
\* when the object is allocated.
Live == Listed \cup Leased
View == <<clock, store, list, [o \in Live |-> <<snapshot[o], lastUsedAt[o]>>],
          busy, disabled \cap Live, jobs, bounds>>

\* Bound: one report meets two accounts and two reloads, two reports meet on one
\* account of a list that stays.
Bounded == reports = 2 => reloads = 0 /\ Len(accounts) = 1

=============================================================================
