----------------------------- MODULE StateStore -----------------------------
(***************************************************************************)
(* The state a sidecar keeps per account name outside the pool: internal/  *)
(* pool/state_store.go.  The pool calls every operation while it holds its *)
(* own mutex, so one operation is one step of the pool's handler; for      *)
(* Redis this is so while a single sidecar uses the key prefix.            *)
(*                                                                         *)
(* Time is a clock of whole ticks; 0 is Go's zero time.  A record of a     *)
(* failure is a pair of its time and a number that tells records of the    *)
(* same instant apart (Redis: the member's uuid; memory: the list's own    *)
(* entries).                                                               *)
(***************************************************************************)
EXTENDS Integers, FiniteSets

CONSTANTS Names,          \* account names
          Personas,       \* non-empty personas the upstream reports
          Paid,           \* the persona of paid accounts
          Window,         \* noImageFailureWindow
          FreeThreshold,  \* freeNoImageThreshold
          FreeCooldown,   \* freeNoImageCooldown
          PaidThreshold,  \* paidNoImageThreshold
          PaidCooldown,   \* paidNoImageCooldown
          StoreMayFail    \* Redis: an operation may return an error

NoPersona == ""

ASSUME StoreAssumption ==
  /\ NoPersona \notin Personas \cup {Paid}
  /\ Window \in Nat \ {0}
  /\ FreeThreshold \in Nat \ {0} /\ PaidThreshold \in Nat \ {0}
  /\ FreeCooldown \in Nat \ {0} /\ PaidCooldown \in Nat \ {0}
  /\ StoreMayFail \in BOOLEAN

VARIABLES
  clock,      \* time.Now()
  cooldown,   \* cooldown_until of each name; 0: none
  persona,    \* persona of each name; NoPersona: none
  failures    \* the recorded no-image failures of each name

store == <<cooldown, persona, failures>>

StoreInit ==
  /\ clock = 1
  /\ cooldown = [n \in Names |-> 0]
  /\ persona = [n \in Names |-> NoPersona]
  /\ failures = [n \in Names |-> {}]

StoreTypeOK ==
  /\ clock \in Nat \ {0}
  /\ cooldown \in [Names -> Nat]
  /\ persona \in [Names -> Personas \cup {NoPersona}]
  /\ failures \in [Names -> SUBSET (Nat \X Nat)]

\* An operation either took effect and returned nil, took effect although its
\* answer was lost, or did not take effect; the last two return an error.
Outcomes == IF StoreMayFail THEN {"ok", "lost", "failed"} ELSE {"ok"}
Applied(o) == o # "failed"

\* CooldownUntil: an expired cooldown is none; reading it deletes it.
CooldownUntil(n) == IF cooldown[n] <= clock THEN 0 ELSE cooldown[n]

WithoutExpired(read) ==
  [n \in Names |-> IF n \in read THEN CooldownUntil(n) ELSE cooldown[n]]

\* Mutant: the new end replaces the stored one.
MarkedCooldownLast(n, until) == [cooldown EXCEPT ![n] = until]

\* MarkCooldown: the later of the stored and the new end is kept.
MarkedCooldown(n, until) ==
  [cooldown EXCEPT ![n] = IF until > @ THEN until ELSE @]

\* ClearAccount: a name's cooldown, persona and failures are deleted.
Cleared(cleared) ==
  /\ cooldown' = [n \in Names |-> IF n \in cleared THEN 0 ELSE cooldown[n]]
  /\ persona' =
       [n \in Names |-> IF n \in cleared THEN NoPersona ELSE persona[n]]
  /\ failures' = [n \in Names |-> IF n \in cleared THEN {} ELSE failures[n]]

\* Mutant: old failures are never dropped.
RecentAll(n, at) == failures[n]

\* The failures of the window that ends at the given time.
Recent(n, at) == {f \in failures[n] : f[1] > at - Window}

\* RecordNoImageFailure: drop what is older than the window, add the new one.
Recorded(n, at) ==
  LET recent == Recent(n, at)
  IN  recent \cup {<<at, Cardinality({f \in recent : f[1] = at})>>}

\* noImagePolicy: only a paid persona gets the paid limits, an unknown one is
\* treated as free.
Threshold(p) == IF p = Paid THEN PaidThreshold ELSE FreeThreshold
PolicyCooldown(p) == IF p = Paid THEN PaidCooldown ELSE FreeCooldown

=============================================================================
