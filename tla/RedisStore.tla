------------------------------ MODULE RedisStore ------------------------------
(***************************************************************************)
(* RedisStateStore of internal/pool/state_store.go, used by any number of  *)
(* sidecars with one key prefix.  A call is a sequence of Redis commands;  *)
(* Redis executes each command, or a MULTI block, as one step, but between *)
(* two of them anything may happen.                                        *)
(*                                                                         *)
(* A pool holds its mutex during a call, so a sidecar has one call at a    *)
(* time.  An answer may be lost, and then the call goes on without it.     *)
(* With Late, a command may moreover be executed once more, or after its   *)
(* call is over: the client library resends what was not answered, and a   *)
(* connection that was given up may still deliver.                         *)
(*                                                                         *)
(* All clocks agree.  Persona and SetPersona are one command each and have *)
(* no key in common with the others: they are left out here.               *)
(***************************************************************************)
EXTENDS Integers, FiniteSets

CONSTANTS Sidecars,
          Names,      \* account names
          Cooldowns,  \* how long the marks are for
          Window,     \* noImageFailureWindow
          Late,       \* may a command be executed late?
          MaxTime,    \* bound: the clock
          MaxCalls,   \* bound: the calls of all sidecars
          MaxLate     \* bound: the late commands

ASSUME RedisAssumption ==
  /\ Cooldowns \subseteq Nat \ {0}
  /\ Window \in Nat \ {0}
  /\ Late \in BOOLEAN

VARIABLES
  clock,     \* time.Now() of every sidecar, and the time of Redis
  cooldown,  \* key cooldown_until of each name; 0: there is none
  failures,  \* sorted set no_image_failures of each name: score and member
  op,        \* the call of each sidecar, with the command it waits for
  late,      \* commands that Redis may still execute although no call waits
  begun,     \* the calls that were begun
  stale,     \* history: the last step executed a Set or Del decided before
             \* the key was last written
  acked      \* history: failures whose call returned without an error

vars == <<clock, cooldown, failures, op, late, begun, stale, acked>>

Idle == [call |-> "none", step |-> "idle", name |-> "", until |-> 0, at |-> 0,
         id |-> 0, fresh |-> TRUE]

FirstStep ==
  [CooldownUntil        |-> "get",
   MarkCooldown         |-> "get",
   RecordNoImageFailure |-> "record",
   NoImageFailureCount  |-> "count",
   ClearAccount         |-> "clear"]

Init ==
  /\ clock = 1
  /\ cooldown = [n \in Names |-> 0]
  /\ failures = [n \in Names |-> {}]
  /\ op = [s \in Sidecars |-> Idle]
  /\ late = {}
  /\ begun = 0
  /\ stale = FALSE
  /\ acked = [n \in Names |-> {}]

-----------------------------------------------------------------------------
(* Redis                                                                     *)

\* Mutant: every time the block is sent its member gets a uuid of its own.
MemberPerSend(c) == <<c.at, c.id, Cardinality(failures[c.name])>>

\* The member carries a uuid, made once for the call.
Member(c) == <<c.at, c.id>>

Recent(n, at) == {f \in failures[n] : f[1] > at - Window}

CooldownAfter(c) ==
  CASE c.step = "set"            -> c.until
    [] c.step \in {"del", "clear"} -> 0
    [] OTHER                     -> cooldown[c.name]

FailuresAfter(c) ==
  CASE c.step = "record" -> Recent(c.name, c.at) \cup {Member(c)}
    [] c.step = "count"  -> Recent(c.name, c.at)
    [] c.step = "clear"  -> {}
    [] OTHER             -> failures[c.name]

\* The execution of a command; what other calls and late commands have read of
\* a key that it changes is outdated then.
Execute(c) ==
  /\ cooldown' = [cooldown EXCEPT ![c.name] = CooldownAfter(c)]
  /\ failures' = [failures EXCEPT ![c.name] = FailuresAfter(c)]
  /\ stale' = (c.step \in {"set", "del"} /\ ~c.fresh)

Outdated(c, d) ==
  IF d # Idle /\ d.name = c.name /\ CooldownAfter(c) # cooldown[c.name]
  THEN [d EXCEPT !.fresh = FALSE] ELSE d

\* Every key has a time to live that ends no earlier than what it holds.
Expire(n) ==
  /\ \/ /\ cooldown[n] \in 1..clock
        /\ cooldown' = [cooldown EXCEPT ![n] = 0]
        /\ UNCHANGED failures
     \/ /\ failures[n] # {} /\ Recent(n, clock) = {}
        /\ failures' = [failures EXCEPT ![n] = {}]
        /\ UNCHANGED cooldown
  /\ stale' = FALSE
  /\ UNCHANGED <<clock, op, late, begun, acked>>

-----------------------------------------------------------------------------
(* The calls                                                                 *)

Begin(s) ==
  /\ op[s] = Idle
  /\ begun < MaxCalls
  /\ \E call \in DOMAIN FirstStep, n \in Names, d \in Cooldowns :
       op' = [op EXCEPT ![s] =
         [call  |-> call, step |-> FirstStep[call], name |-> n,
          until |-> IF call = "MarkCooldown" THEN clock + d ELSE 0,
          at    |-> clock, id |-> begun, fresh |-> TRUE]]
  /\ begun' = begun + 1
  /\ stale' = FALSE
  /\ UNCHANGED <<clock, cooldown, failures, late, acked>>

\* Mutant: MarkCooldown sets its time whatever is there.
AfterReadAny(c, existing) ==
  IF c.call = "MarkCooldown" /\ c.until > clock THEN [c EXCEPT !.step = "set"] ELSE Idle

\* MarkCooldown goes on with a Set unless a later time is there or its own is over.
AfterRead(c, existing) ==
  IF c.call = "MarkCooldown" /\ existing <= c.until /\ c.until > clock
  THEN [c EXCEPT !.step = "set"] ELSE Idle

\* What a call does with the answer to its command; an expired time is deleted.
AfterAnswer(c) ==
  CASE c.step = "get" /\ cooldown[c.name] \in 1..clock ->
         [c EXCEPT !.step = "del", !.fresh = TRUE]
    [] c.step = "get" /\ cooldown[c.name] \notin 1..clock ->
         AfterRead([c EXCEPT !.fresh = TRUE], cooldown[c.name])
    [] c.step = "del" -> AfterRead(c, 0)
    [] OTHER          -> Idle

\* The error of a Del is ignored, any other ends the call.
AfterError(c) == IF c.step = "del" THEN AfterRead(c, 0) ELSE Idle

\* A copy of a command that writes may be left on its way.
MayStay(c, L) ==
  \/ late' = L
  \/ /\ Late /\ c.step # "get" /\ Cardinality(L) < MaxLate
     /\ late' = L \cup {[c EXCEPT !.call = "none"]}

\* Redis executes the command of a call, whose answer arrives or is lost.
Executed(s) ==
  /\ op[s] # Idle
  /\ LET c    == op[s]
         rest == [t \in Sidecars |-> Outdated(c, op[t])]
     IN  /\ Execute(c)
         /\ MayStay(c, {Outdated(c, d) : d \in late})
         /\ \/ /\ op' = [rest EXCEPT ![s] = AfterAnswer(c)]
               /\ acked' = [acked EXCEPT ![c.name] =
                    CASE c.step = "record" -> @ \cup {<<c.at, c.id>>}
                      [] c.step = "clear"  -> {}
                      [] OTHER             -> @]
            \/ /\ op' = [rest EXCEPT ![s] = AfterError(c)]
               /\ acked' = [acked EXCEPT ![c.name] =
                    IF c.step = "clear" THEN {} ELSE @]
  /\ UNCHANGED <<clock, begun>>

\* The command is not executed, not while the call waits.
NotExecuted(s) ==
  /\ op[s] # Idle
  /\ op' = [op EXCEPT ![s] = AfterError(op[s])]
  /\ MayStay(op[s], late)
  /\ stale' = FALSE
  /\ UNCHANGED <<clock, cooldown, failures, begun, acked>>

ExecutedLate(c) ==
  /\ c \in late
  /\ Execute(c)
  /\ op' = [t \in Sidecars |-> Outdated(c, op[t])]
  /\ late' = {c} \cup {Outdated(c, d) : d \in late \ {c}}
  /\ acked' = [acked EXCEPT ![c.name] = IF c.step = "clear" THEN {} ELSE @]
  /\ UNCHANGED <<clock, begun>>

Tick ==
  /\ clock < MaxTime
  /\ clock' = clock + 1
  /\ stale' = FALSE
  /\ UNCHANGED <<cooldown, failures, op, late, begun, acked>>

Next ==
  \/ \E s \in Sidecars : Begin(s) \/ Executed(s) \/ NotExecuted(s)
  \/ \E c \in late : ExecutedLate(c)
  \/ \E n \in Names : Expire(n)
  \/ Tick

Spec == Init /\ [][Next]_vars

-----------------------------------------------------------------------------

Atomic == INSTANCE AccountState WITH
  persona <- [n \in Names |-> ""],
  Personas <- {"paid"}, Paid <- "paid", StoreMayFail <- TRUE,
  FreeThreshold <- 1, FreeCooldown <- 1, PaidThreshold <- 1, PaidCooldown <- 1

\* Whoever shares the store and whatever is lost, sent twice or late: a step is one
\* that the pool's view of its store allows, a mark never shortens a cooldown and
\* a read only drops an expired one, except where a Set or a Del is executed that
\* was decided before another command wrote the key.  MarkCooldown and
\* CooldownUntil read first and write later; that gap is the whole exception.
FreshIsAtomic ==
  Atomic!StoreInit /\ [][~stale' => [Atomic!StoreNext]_<<clock, cooldown, failures>>]_vars

\* A failure counts at most once although its block may be executed twice, and one
\* whose call returned without an error counts until it is out of the window or
\* the account is cleared, whichever sidecars record and count meanwhile.
FailuresCountedOnce ==
  \A n \in Names :
    /\ \A f, g \in failures[n] : f[2] = g[2] => f = g
    /\ \A f \in acked[n] :
         f[1] > clock - Window => \E g \in failures[n] : g[2] = f[2]

=============================================================================
