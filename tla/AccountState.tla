----------------------------- MODULE AccountState -----------------------------
(***************************************************************************)
(* The account state as the pool relies on it: every call of a StateStore  *)
(* is one step.  A call that fails is a step or nothing at all.            *)
(***************************************************************************)
EXTENDS StateStore

MarkCooldown(n) ==
  /\ cooldown' = MarkedCooldown(n, cooldown'[n])
  /\ UNCHANGED <<clock, persona, failures>>

ReadCooldown(n) ==
  /\ cooldown' = WithoutExpired({n})
  /\ UNCHANGED <<clock, persona, failures>>

ClearAccount(n) == Cleared({n}) /\ UNCHANGED clock

\* A new record, and what is in the window that ends with it.
RecordFailure(n) ==
  /\ \E f \in failures'[n] :
       /\ f \notin failures[n]
       /\ failures' = [failures EXCEPT ![n] = Recent(n, f[1]) \cup {f}]
  /\ UNCHANGED <<clock, cooldown, persona>>

CountFailures(n) ==
  /\ \E at \in 0..clock : failures' = [failures EXCEPT ![n] = Recent(n, at)]
  /\ UNCHANGED <<clock, cooldown, persona>>

Passes == clock' = clock + 1 /\ UNCHANGED store

StoreNext ==
  \/ Passes
  \/ \E n \in Names :
       \/ MarkCooldown(n)
       \/ ReadCooldown(n)
       \/ ClearAccount(n)
       \/ RecordFailure(n)
       \/ CountFailures(n)

StoreSpec == StoreInit /\ [][StoreNext]_<<clock, store>>

=============================================================================
