------------------------------ MODULE RedisProofs -----------------------------
(***************************************************************************)
(* What module RedisStore promises, for any number of sidecars, accounts   *)
(* and calls: every command executed on a fresh reading is a step of the   *)
(* abstract store, failures are counted once, and with one sidecar and no  *)
(* late commands the whole store is the abstract one.                      *)
(***************************************************************************)
EXTENDS RedisStore, TLAPS

Steps == {"get", "del", "set", "record", "count", "clear"}

Commands == [call : {"none"} \cup DOMAIN FirstStep, step : Steps, name : Names,
             until : Nat, at : Nat, id : Nat, fresh : BOOLEAN]

TypeOK ==
  /\ clock \in Nat \ {0}
  /\ cooldown \in [Names -> Nat]
  /\ failures \in [Names -> SUBSET (Nat \X Nat)]
  /\ op \in [Sidecars -> {Idle} \cup Commands]
  /\ late \subseteq Commands
  /\ begun \in Nat
  /\ acked \in [Names -> SUBSET (Nat \X Nat)]

\* The commands that may still be executed.
Pending == late \cup {op[s] : s \in {t \in Sidecars : op[t] # Idle}}

\* A write that was decided on a fresh reading is still right.
Right(c) ==
  /\ c.at <= clock
  /\ c.fresh /\ c.step = "set" => cooldown[c.name] <= c.until
  /\ c.fresh /\ c.step = "del" => cooldown[c.name] <= clock

AllRight == \A c \in Pending : Right(c)

\* Every record that is kept, promised or on its way.
Members ==
  (UNION {failures[n] \cup acked[n] : n \in Names}) \cup {Member(c) : c \in Pending}

IdsDiffer ==
  \A f, g \in Members : f[2] < begun /\ (f[2] = g[2] => f = g)

AckedKept ==
  \A n \in Names : \A f \in acked[n] : f[1] > clock - Window => f \in failures[n]

IInv == TypeOK /\ AllRight /\ IdsDiffer /\ AckedKept

-----------------------------------------------------------------------------

LEMMA IdleNoCommand == Idle \notin Commands
  BY DEF Idle, Commands, Steps

LEMMA CommandType ==
  ASSUME TypeOK, NEW s \in Sidecars, op[s] # Idle
  PROVE  op[s] \in Commands /\ op[s] \in Pending
  BY DEF TypeOK, Pending

LEMMA PendingType == TypeOK => Pending \subseteq Commands
  BY DEF TypeOK, Pending

\* What a command leaves behind has the right type.
LEMMA ExecuteType ==
  ASSUME TypeOK, NEW c \in Commands, Execute(c)
  PROVE  /\ cooldown' \in [Names -> Nat]
         /\ failures' \in [Names -> SUBSET (Nat \X Nat)]
<1>1. CooldownAfter(c) \in Nat
  BY DEF CooldownAfter, TypeOK, Commands
<1>2. FailuresAfter(c) \in SUBSET (Nat \X Nat)
  <2>1. Member(c) \in Nat \X Nat /\ Recent(c.name, c.at) \subseteq Nat \X Nat
    BY DEF Member, Recent, TypeOK, Commands
  <2>2. failures[c.name] \subseteq Nat \X Nat
    BY DEF TypeOK, Commands
  <2> QED BY <2>1, <2>2 DEF FailuresAfter
<1> QED BY <1>1, <1>2 DEF Execute, TypeOK

LEMMA OutdatedType ==
  ASSUME NEW c, NEW d \in Commands
  PROVE  /\ Outdated(c, d) \in Commands
         /\ Member(Outdated(c, d)) = Member(d)
  BY DEF Outdated, Commands, Member

LEMMA OutdatedIdle ==
  ASSUME NEW c PROVE Outdated(c, Idle) = Idle
  BY DEF Outdated

\* Whoever is outdated is still that command; one that stays fresh has its reading.
LEMMA OutdatedRight ==
  ASSUME TypeOK, NEW c \in Commands, Execute(c), clock' = clock,
         NEW d \in Commands, Right(d), NEW e, e = Outdated(c, d)
  PROVE  Right(e)'
<1>1. /\ e.at = d.at /\ e.until = d.until /\ e.step = d.step /\ e.name = d.name
      /\ e.fresh => d.fresh
      /\ e.fresh => d.name # c.name \/ CooldownAfter(c) = cooldown[c.name]
  BY IdleNoCommand DEF Outdated, Commands
<1>2. e.fresh => cooldown'[e.name] = cooldown[e.name]
  BY <1>1 DEF Execute, TypeOK, Commands
<1> QED BY <1>1, <1>2 DEF Right

-----------------------------------------------------------------------------
(* Which commands are pending after a step, and what they carry.             *)

\* The answer to a call's own command, or its loss, leads to a command whose
\* reading is right.
LEMMA AfterReadRight ==
  ASSUME TypeOK, NEW c \in Commands, c.at <= clock, NEW e, NEW x \in Nat,
         e = AfterRead(c, x), e # Idle, c.fresh => x = cooldown'[c.name],
         cooldown' \in [Names -> Nat], clock' = clock
  PROVE  e \in Commands /\ Member(e) = Member(c) /\ Right(e)'
<1>1. e = [c EXCEPT !.step = "set"] /\ x <= c.until
  BY DEF AfterRead
<1>2. /\ e \in Commands /\ e.at = c.at /\ e.id = c.id /\ e.name = c.name
      /\ e.step = "set" /\ e.until = c.until /\ e.fresh = c.fresh
  BY <1>1 DEF Commands, Steps
<1> QED BY <1>1, <1>2 DEF Right, Member

LEMMA AfterAnswerRight ==
  ASSUME TypeOK, NEW c \in Commands, Execute(c), clock' = clock, Right(c),
         NEW e, e = AfterAnswer(c), e # Idle
  PROVE  e \in Commands /\ Member(e) = Member(c) /\ Right(e)'
<1>1. cooldown' \in [Names -> Nat] /\ cooldown \in [Names -> Nat] /\ clock \in Nat
  BY ExecuteType DEF TypeOK
<1>2. c.name \in Names /\ c.at <= clock
  BY DEF Commands, Right
<1>3. CASE c.step = "get" /\ cooldown[c.name] \in 1..clock
  <2>1. cooldown'[c.name] = cooldown[c.name]
    BY <1>1, <1>2, <1>3 DEF Execute, CooldownAfter
  <2>2. e = [c EXCEPT !.step = "del", !.fresh = TRUE]
    BY <1>3 DEF AfterAnswer
  <2>3. /\ e \in Commands /\ e.at = c.at /\ e.id = c.id /\ e.name = c.name
        /\ e.step = "del"
    BY <2>2 DEF Commands, Steps
  <2> QED BY <1>1, <1>2, <1>3, <2>1, <2>3 DEF Right, Member
<1>4. CASE c.step = "get" /\ cooldown[c.name] \notin 1..clock
  <2> DEFINE d == [c EXCEPT !.fresh = TRUE]
  <2>1. cooldown'[c.name] = cooldown[c.name]
    BY <1>1, <1>2, <1>4 DEF Execute, CooldownAfter
  <2>2. e = AfterRead(d, cooldown[c.name])
    BY <1>4 DEF AfterAnswer
  <2>3. d \in Commands /\ d.at = c.at /\ d.id = c.id /\ d.name = c.name
    BY DEF Commands
  <2>4. cooldown[c.name] \in Nat /\ d.at <= clock
    BY <1>1, <1>2, <2>3
  <2>5. d.fresh => cooldown[c.name] = cooldown'[d.name]
    BY <2>1, <2>3
  <2> HIDE DEF d
  <2>6. e \in Commands /\ Member(e) = Member(d) /\ Right(e)'
    BY <1>1, <2>2, <2>3, <2>4, <2>5, AfterReadRight
  <2> QED BY <2>3, <2>6 DEF Member
<1>5. CASE c.step = "del"
  <2>1. cooldown'[c.name] = 0
    BY <1>1, <1>2, <1>5 DEF Execute, CooldownAfter
  <2>2. e = AfterRead(c, 0)
    BY <1>5 DEF AfterAnswer
  <2> QED BY <1>1, <1>2, <2>1, <2>2, AfterReadRight
<1>6. CASE c.step \notin {"get", "del"}
  BY <1>6 DEF AfterAnswer
<1> QED BY <1>3, <1>4, <1>5, <1>6

LEMMA AfterErrorRight ==
  ASSUME TypeOK, NEW c \in Commands, clock' = clock, Right(c),
         cooldown' \in [Names -> Nat],
         cooldown'[c.name] = cooldown[c.name] \/ cooldown'[c.name] = 0,
         NEW e, e = AfterError(c), e # Idle
  PROVE  e \in Commands /\ Member(e) = Member(c) /\ Right(e)'
<1>1. c.step = "del" /\ e = AfterRead(c, 0)
  BY DEF AfterError
<1>2. e = [c EXCEPT !.step = "set"] /\ c.until > clock
  BY <1>1 DEF AfterRead
<1>3. /\ e \in Commands /\ e.at = c.at /\ e.id = c.id /\ e.name = c.name
      /\ e.step = "set" /\ e.until = c.until /\ e.fresh = c.fresh
  BY <1>2 DEF Commands, Steps
<1>4. c.until \in Nat /\ cooldown[c.name] \in Nat /\ clock \in Nat
  BY DEF Commands, TypeOK
<1> QED BY <1>1, <1>2, <1>3, <1>4 DEF Right, Member

\* A copy of a command left on its way.
LEMMA CopyRight ==
  ASSUME NEW c \in Commands, NEW e, e = [c EXCEPT !.call = "none"]
  PROVE  /\ e \in Commands /\ Member(e) = Member(c)
         /\ Right(c) => Right(e)
         /\ Right(c)' => Right(e)'
  BY DEF Commands, Member, Right

\* A step that begins no call: every pending command comes from a pending one,
\* with the same member, and is right.
Follows(d) ==
  d \in Commands /\ (\E c \in Pending : Member(d) = Member(c)) /\ Right(d)'

LEMMA LateCopies ==
  ASSUME TypeOK, NEW c \in Commands, NEW L, MayStay(c, L)
  PROVE  \A d \in late' : d \in L \/ d = [c EXCEPT !.call = "none"]
  BY DEF MayStay

\* A command that was executed is right if it is executed again.
LEMMA AgainRight ==
  ASSUME TypeOK, NEW c \in Commands, Execute(c), clock' = clock, Right(c)
  PROVE  Right(c)'
<1>1. cooldown'[c.name] = CooldownAfter(c)
  BY DEF Execute, TypeOK, Commands
<1>2. c.until \in Nat /\ clock \in Nat
  BY DEF Commands, TypeOK
<1>3. c.step = "set" => CooldownAfter(c) = c.until
  BY DEF CooldownAfter
<1>4. c.step = "del" => CooldownAfter(c) = 0
  BY DEF CooldownAfter
<1> QED BY <1>1, <1>2, <1>3, <1>4 DEF Right

LEMMA ExecutedFollows ==
  ASSUME IInv, NEW s \in Sidecars, Executed(s)
  PROVE  \A d \in Pending' : Follows(d)
<1>1. op[s] \in Commands /\ op[s] \in Pending
  BY CommandType DEF Executed, IInv
<1>2. PICK c \in Commands : c = op[s]
  BY <1>1
<1>3. /\ TypeOK /\ c \in Pending /\ Right(c) /\ Execute(c) /\ clock' = clock
      /\ cooldown' \in [Names -> Nat]
  BY <1>1, <1>2, ExecuteType DEF Executed, IInv, AllRight
<1>4. ASSUME NEW d \in Pending, NEW e, e = Outdated(c, d) PROVE Follows(e)
  <2>1. d \in Commands /\ Right(d)
    BY <1>3, PendingType DEF IInv, AllRight
  <2> QED BY <1>3, <1>4, <2>1, OutdatedType, OutdatedRight DEF Follows
<1>5. ASSUME NEW d, d = [c EXCEPT !.call = "none"] PROVE Follows(d)
  BY <1>3, <1>5, AgainRight, CopyRight DEF Follows
<1>6. ASSUME NEW d \in late' PROVE Follows(d)
  <2>1. MayStay(c, {Outdated(c, x) : x \in late})
    BY <1>2 DEF Executed
  <2>2. d \in {Outdated(c, x) : x \in late} \/ d = [c EXCEPT !.call = "none"]
    BY <1>3, <2>1, LateCopies
  <2> QED BY <1>4, <1>5, <2>2 DEF Pending
<1>7. ASSUME NEW d, d = AfterAnswer(c) \/ d = AfterError(c), d # Idle PROVE Follows(d)
  <2>1. CASE d = AfterAnswer(c)
    BY <1>3, <1>7, <2>1, AfterAnswerRight DEF Follows
  <2>2. CASE d = AfterError(c)
    <3>1. c.step = "del"
      BY <1>7, <2>2 DEF AfterError
    <3>2. cooldown'[c.name] = 0
      BY <1>3, <3>1 DEF Execute, CooldownAfter, TypeOK, Commands
    <3> QED BY <1>3, <1>7, <2>2, <3>2, AfterErrorRight DEF Follows
  <2> QED BY <1>7, <2>1, <2>2
<1>8. ASSUME NEW t \in Sidecars, NEW d, d = op'[t], d # Idle PROVE Follows(d)
  <2> DEFINE rest == [u \in Sidecars |-> Outdated(c, op[u])]
  <2>1. op' = [rest EXCEPT ![s] = AfterAnswer(c)] \/ op' = [rest EXCEPT ![s] = AfterError(c)]
    BY <1>2 DEF Executed
  <2>2. CASE t = s
    BY <1>7, <1>8, <2>1, <2>2
  <2>3. CASE t # s
    <3>1. op'[t] = Outdated(c, op[t])
      BY <2>1, <2>3
    <3>2. op[t] # Idle
      BY <1>8, <3>1, OutdatedIdle
    <3> QED BY <1>4, <1>8, <3>1, <3>2 DEF Pending
  <2> QED BY <2>2, <2>3
<1> QED BY <1>6, <1>8 DEF Pending

LEMMA NotExecutedFollows ==
  ASSUME IInv, NEW s \in Sidecars, NotExecuted(s)
  PROVE  \A d \in Pending' : Follows(d)
<1>1. op[s] \in Commands /\ op[s] \in Pending
  BY CommandType DEF NotExecuted, IInv
<1>2. PICK c \in Commands : c = op[s]
  BY <1>1
<1>3. /\ TypeOK /\ c \in Pending /\ Right(c) /\ clock' = clock /\ cooldown' = cooldown
      /\ cooldown' \in [Names -> Nat]
  BY <1>1, <1>2 DEF NotExecuted, IInv, AllRight, TypeOK
<1>4. ASSUME NEW d \in Pending PROVE Follows(d)
  BY <1>3, PendingType DEF IInv, AllRight, Follows, Right
<1>5. ASSUME NEW d, d = [c EXCEPT !.call = "none"] PROVE Follows(d)
  <2>1. d \in Commands /\ Member(d) = Member(c) /\ Right(d)
    BY <1>3, <1>5, CopyRight
  <2> QED BY <1>3, <2>1 DEF Follows, Right
<1>6. ASSUME NEW d \in late' PROVE Follows(d)
  <2>1. MayStay(c, late)
    BY <1>2 DEF NotExecuted
  <2>2. d \in late \/ d = [c EXCEPT !.call = "none"]
    BY <1>3, <2>1, LateCopies
  <2> QED BY <1>4, <1>5, <2>2 DEF Pending
<1>7. ASSUME NEW t \in Sidecars, NEW d, d = op'[t], d # Idle PROVE Follows(d)
  <2>1. op' = [op EXCEPT ![s] = AfterError(c)] /\ op \in [Sidecars -> {Idle} \cup Commands]
    BY <1>2, <1>3 DEF NotExecuted, TypeOK
  <2>2. CASE t = s
    <3>1. op'[t] = AfterError(c) /\ cooldown'[c.name] = cooldown[c.name]
      BY <1>3, <2>1, <2>2
    <3> QED BY <1>3, <1>7, <3>1, AfterErrorRight DEF Follows
  <2>3. CASE t # s
    BY <1>4, <1>7, <2>1, <2>3 DEF Pending
  <2> QED BY <2>2, <2>3
<1> QED BY <1>6, <1>7 DEF Pending

LEMMA LateFollows ==
  ASSUME IInv, NEW c \in late, ExecutedLate(c)
  PROVE  \A d \in Pending' : Follows(d)
<1>1. /\ TypeOK /\ c \in Pending /\ c \in Commands /\ Right(c) /\ Execute(c)
      /\ clock' = clock
  BY PendingType DEF ExecutedLate, IInv, AllRight, Pending
<1>2. ASSUME NEW d \in Pending, NEW e, e = Outdated(c, d) PROVE Follows(e)
  <2>1. d \in Commands /\ Right(d)
    BY <1>1, PendingType DEF IInv, AllRight
  <2> QED BY <1>1, <1>2, <2>1, OutdatedType, OutdatedRight DEF Follows
<1>3. Follows(c)
  BY <1>1, AgainRight DEF Follows
<1>4. ASSUME NEW d \in late' PROVE Follows(d)
  BY <1>2, <1>3 DEF ExecutedLate, Pending
<1>5. ASSUME NEW t \in Sidecars, NEW d, d = op'[t], d # Idle PROVE Follows(d)
  <2>1. op'[t] = Outdated(c, op[t])
    BY DEF ExecutedLate
  <2>2. op[t] # Idle
    BY <1>5, <2>1, OutdatedIdle
  <2> QED BY <1>2, <1>5, <2>1, <2>2 DEF Pending
<1> QED BY <1>4, <1>5 DEF Pending

-----------------------------------------------------------------------------
(* The invariant                                                             *)

\* A command's step leaves records of the command's own member, or fewer.
LEMMA ExecuteMembers ==
  ASSUME TypeOK, NEW c \in Commands, Execute(c), NEW n \in Names
  PROVE  failures'[n] \subseteq failures[n] \cup {Member(c)}
<1>1. failures'[n] = IF n = c.name THEN FailuresAfter(c) ELSE failures[n]
  BY DEF Execute, TypeOK
<1>2. FailuresAfter(c) \subseteq failures[c.name] \cup {Member(c)}
  BY DEF FailuresAfter, Recent
<1> QED BY <1>1, <1>2

\* Steps that begin no call keep the members apart.
LEMMA MembersStay ==
  ASSUME IInv, begun' = begun,
         \A d \in Pending' : Follows(d),
         \A n \in Names : failures'[n] \cup acked'[n] \subseteq Members
  PROVE  IdsDiffer'
<1>1. ASSUME NEW f \in Members' PROVE f \in Members
  <2>1. CASE \E n \in Names : f \in failures'[n] \cup acked'[n]
    BY <2>1
  <2>2. CASE \E d \in Pending' : f = Member(d)
    BY <2>2 DEF Follows, Members, Member
  <2> QED BY <1>1, <2>1, <2>2 DEF Members, Member
<1> QED BY <1>1 DEF IdsDiffer, IInv

\* What an executed command does to what is promised.
LEMMA ExecuteKeeps ==
  ASSUME IInv, NEW c \in Pending, Execute(c), clock' = clock,
         acked' \in {[acked EXCEPT ![c.name] =
                        CASE c.step = "record" -> @ \cup {<<c.at, c.id>>}
                          [] c.step = "clear"  -> {}
                          [] OTHER             -> @],
                     [acked EXCEPT ![c.name] = IF c.step = "clear" THEN {} ELSE @]}
  PROVE  /\ acked' \in [Names -> SUBSET (Nat \X Nat)]
         /\ AckedKept'
         /\ \A n \in Names : failures'[n] \cup acked'[n] \subseteq Members
<1>1. TypeOK /\ c \in Commands /\ Right(c)
  BY PendingType DEF IInv, AllRight
<1>2. c.name \in Names /\ c.at \in Nat /\ c.id \in Nat /\ c.at <= clock /\ clock \in Nat
  BY <1>1 DEF Commands, Right, TypeOK
<1> DEFINE n == c.name
<1>3. failures'[n] = FailuresAfter(c)
      /\ \A m \in Names \ {n} : failures'[m] = failures[m]
  BY <1>1, <1>2 DEF Execute, TypeOK
<1>4. \A m \in Names \ {n} : acked'[m] = acked[m]
  BY <1>1 DEF TypeOK
<1>5. /\ c.step = "clear" => acked'[n] = {}
      /\ c.step = "record" => acked'[n] \subseteq acked[n] \cup {<<c.at, c.id>>}
      /\ c.step \notin {"clear", "record"} => acked'[n] = acked[n]
  BY <1>1, <1>2 DEF TypeOK
<1>6. acked' \in [Names -> SUBSET (Nat \X Nat)]
  <2>1. acked'[n] \subseteq Nat \X Nat
    BY <1>1, <1>2, <1>5 DEF TypeOK
  <2> QED BY <1>1, <2>1 DEF TypeOK
<1>7. AckedKept'
  <2> SUFFICES ASSUME NEW m \in Names, NEW f \in acked'[m], f[1] > clock - Window
              PROVE  f \in failures'[m]
    BY DEF AckedKept
  <2>1. CASE m # n
    BY <1>3, <1>4, <2>1 DEF IInv, AckedKept
  <2>2. CASE m = n
    <3>1. f[1] \in Nat
      BY <1>6
    <3>2. f \in acked[n] => f \in failures[n] /\ f \in Recent(n, c.at)
      BY <1>2, <3>1, RedisAssumption DEF IInv, AckedKept, Recent
    <3>3. CASE c.step = "clear"
      BY <1>5, <2>2, <3>3
    <3>4. CASE c.step = "record"
      BY <1>3, <1>5, <2>2, <3>2, <3>4 DEF FailuresAfter, Member
    <3>5. CASE c.step \notin {"clear", "record"}
      BY <1>3, <1>5, <2>2, <3>2, <3>5 DEF FailuresAfter
    <3> QED BY <3>3, <3>4, <3>5
  <2> QED BY <2>1, <2>2
<1>8. ASSUME NEW m \in Names PROVE failures'[m] \cup acked'[m] \subseteq Members
  <2>1. Member(c) \in Members /\ failures[m] \cup acked[m] \subseteq Members
    BY DEF Members
  <2>2. failures'[m] \subseteq failures[m] \cup {Member(c)}
    BY <1>1, ExecuteMembers
  <2>3. acked'[m] \subseteq acked[m] \cup {Member(c)}
    BY <1>4, <1>5 DEF Member
  <2> QED BY <2>1, <2>2, <2>3
<1> QED BY <1>6, <1>7, <1>8

\* The three steps that execute a command or give one up keep the invariant.
LEMMA StepKeeps ==
  ASSUME IInv, clock' = clock, begun' = begun,
         op' = [t \in Sidecars |-> op'[t]],
         cooldown' \in [Names -> Nat],
         failures' \in [Names -> SUBSET (Nat \X Nat)],
         acked' \in [Names -> SUBSET (Nat \X Nat)],
         \A d \in Pending' : Follows(d),
         AckedKept',
         \A n \in Names : failures'[n] \cup acked'[n] \subseteq Members
  PROVE  IInv'
<1>1. \A d \in Pending' : d \in Commands
  BY DEF Follows
<1>2. late' \subseteq Commands
  BY <1>1 DEF Pending
<1>3. \A t \in Sidecars : op'[t] \in {Idle} \cup Commands
  BY <1>1 DEF Pending
<1>4. TypeOK'
  BY <1>2, <1>3 DEF TypeOK, IInv
<1>5. AllRight'
  BY DEF AllRight, Follows
<1>6. IdsDiffer'
  BY MembersStay
<1> QED BY <1>4, <1>5, <1>6 DEF IInv

LEMMA BeginKeeps ==
  ASSUME IInv, NEW s \in Sidecars, Begin(s)
  PROVE  IInv'
<1>1. PICK call \in DOMAIN FirstStep, n \in Names, d \in Cooldowns :
        op' = [op EXCEPT ![s] =
          [call  |-> call, step |-> FirstStep[call], name |-> n,
           until |-> IF call = "MarkCooldown" THEN clock + d ELSE 0,
           at    |-> clock, id |-> begun, fresh |-> TRUE]]
  BY DEF Begin
<1>2. PICK e : e = [call  |-> call, step |-> FirstStep[call], name |-> n,
           until |-> IF call = "MarkCooldown" THEN clock + d ELSE 0,
           at    |-> clock, id |-> begun, fresh |-> TRUE]
  OBVIOUS
<1>3. /\ TypeOK /\ begun' = begun + 1 /\ late' = late
      /\ clock' = clock /\ cooldown' = cooldown /\ failures' = failures /\ acked' = acked
  BY DEF Begin, IInv
<1>4. FirstStep[call] \in Steps \ {"set", "del"}
  BY DEF FirstStep, Steps
<1>5. e.step \notin {"set", "del"} /\ e.at = clock /\ Member(e) = <<clock, begun>>
  BY <1>2, <1>4 DEF Member
<1>6. e \in Commands
  <2>1. d \in Nat /\ clock \in Nat /\ begun \in Nat
    BY <1>3, RedisAssumption DEF TypeOK
  <2> QED BY <1>2, <1>4, <2>1 DEF Commands
<1>7. \A x \in Pending' : x \in Pending \/ x = e
  BY <1>1, <1>2, <1>3 DEF Pending, TypeOK
<1>8. TypeOK'
  BY <1>1, <1>2, <1>3, <1>6 DEF TypeOK
<1>9. AllRight'
  <2> SUFFICES ASSUME NEW x \in Pending' PROVE Right(x)'
    BY DEF AllRight
  <2>1. CASE x \in Pending
    BY <1>3, <2>1 DEF IInv, AllRight, Right
  <2>2. CASE x = e
    BY <1>3, <1>5, <2>2 DEF Right, TypeOK
  <2> QED BY <1>7, <2>1, <2>2
<1>10. IdsDiffer'
  <2>1. ASSUME NEW f \in Members' PROVE f \in Members \/ f = <<clock, begun>>
    <3>1. CASE \E m \in Names : f \in failures'[m] \cup acked'[m]
      BY <1>3, <3>1 DEF Members
    <3>2. CASE \E x \in Pending' : f = Member(x)
      BY <1>5, <1>7, <3>2 DEF Members
    <3> QED BY <2>1, <3>1, <3>2 DEF Members, Member
  <2>2. \A f \in Members : f[2] < begun /\ f[2] \in Int
    <3>1. Pending \subseteq Commands
      BY <1>3, PendingType
    <3>2. \A x \in Pending : Member(x)[2] \in Int
      BY <3>1 DEF Member, Commands
    <3>3. \A m \in Names : \A f \in failures[m] \cup acked[m] : f[2] \in Int
      BY <1>3 DEF TypeOK
    <3> QED BY <3>2, <3>3 DEF IInv, IdsDiffer, Members
  <2>3. begun \in Nat
    BY <1>3 DEF TypeOK
  <2> QED BY <1>3, <2>1, <2>2, <2>3 DEF IInv, IdsDiffer
<1>11. AckedKept'
  BY <1>3 DEF IInv, AckedKept
<1> QED BY <1>8, <1>9, <1>10, <1>11 DEF IInv

LEMMA ExpireKeeps ==
  ASSUME IInv, NEW n \in Names, Expire(n)
  PROVE  IInv'
<1>1. /\ TypeOK /\ begun' = begun /\ late' = late /\ op' = op
      /\ clock' = clock /\ acked' = acked
  BY DEF Expire, IInv
<1>2. \A m \in Names : cooldown'[m] = cooldown[m] \/ cooldown'[m] = 0
  BY <1>1 DEF Expire, TypeOK
<1>3. cooldown' \in [Names -> Nat] /\ failures' \in [Names -> SUBSET (Nat \X Nat)]
  <2>1. CASE cooldown' = [cooldown EXCEPT ![n] = 0] /\ failures' = failures
    BY <1>1, <2>1 DEF TypeOK
  <2>2. CASE failures' = [failures EXCEPT ![n] = {}] /\ cooldown' = cooldown
    BY <1>1, <2>2 DEF TypeOK
  <2> QED BY <2>1, <2>2 DEF Expire
<1>4. \A m \in Names : failures'[m] = failures[m] \/ (failures'[m] = {} /\ Recent(m, clock) = {})
  <2>1. CASE failures' = failures
    BY <2>1
  <2>2. CASE failures' = [failures EXCEPT ![n] = {}] /\ Recent(n, clock) = {}
    BY <1>1, <2>2 DEF TypeOK
  <2> QED BY <2>1, <2>2 DEF Expire
<1>5. ASSUME NEW d \in Pending' PROVE Follows(d)
  <2>1. d \in Pending /\ d \in Commands /\ Right(d)
    BY <1>1, <1>5, PendingType DEF Pending, IInv, AllRight
  <2>2. /\ cooldown'[d.name] = cooldown[d.name] \/ cooldown'[d.name] = 0
        /\ d.until \in Nat /\ clock \in Nat
    BY <1>1, <1>2, <2>1 DEF Commands, TypeOK
  <2> QED BY <1>1, <2>1, <2>2 DEF Follows, Right
<1>6. AckedKept'
  BY <1>1, <1>4 DEF IInv, AckedKept, Recent
<1>7. \A m \in Names : failures'[m] \cup acked'[m] \subseteq Members
  BY <1>1, <1>4 DEF Members
<1> QED BY <1>1, <1>3, <1>5, <1>6, <1>7, StepKeeps DEF TypeOK

LEMMA TickKeeps ==
  ASSUME IInv, Tick
  PROVE  IInv'
<1>1. /\ TypeOK /\ begun' = begun /\ late' = late /\ op' = op /\ clock' = clock + 1
      /\ acked' = acked /\ cooldown' = cooldown /\ failures' = failures
  BY DEF Tick, IInv
<1>2. TypeOK'
  BY <1>1 DEF TypeOK
<1>3. AllRight'
  <2> SUFFICES ASSUME NEW x \in Pending' PROVE Right(x)'
    BY DEF AllRight
  <2>1. x \in Commands /\ Right(x)
    BY <1>1, PendingType DEF Pending, IInv, AllRight
  <2>2. x.at \in Nat /\ clock \in Nat /\ cooldown[x.name] \in Nat
    BY <1>1, <2>1 DEF TypeOK, Commands
  <2> QED BY <1>1, <2>1, <2>2 DEF Right
<1>4. IdsDiffer'
  BY <1>1 DEF IInv, IdsDiffer, Members, Pending
<1>5. AckedKept'
  <2> SUFFICES ASSUME NEW n \in Names, NEW f \in acked'[n], f[1] > clock' - Window
              PROVE  f \in failures'[n]
    BY DEF AckedKept
  <2>1. f \in acked[n] /\ f[1] \in Nat /\ clock \in Nat
    BY <1>1 DEF TypeOK
  <2> QED BY <1>1, <2>1, RedisAssumption DEF IInv, AckedKept
<1> QED BY <1>2, <1>3, <1>4, <1>5 DEF IInv

\* The invariant holds always: types are kept, every pending write that is fresh
\* is still right, ids tell records apart, and acknowledged failures are kept.
THEOREM RedisInvariant == Spec => []IInv
<1>1. Init => IInv
  <2> SUFFICES ASSUME Init PROVE IInv
    OBVIOUS
  <2>1. Pending = {} /\ Members = {}
    BY DEF Init, Pending, Members
  <2>2. TypeOK
    BY DEF Init, TypeOK
  <2> QED BY <2>1, <2>2 DEF Init, IInv, AllRight, IdsDiffer, AckedKept
<1>2. IInv /\ [Next]_vars => IInv'
  <2> SUFFICES ASSUME IInv, [Next]_vars PROVE IInv'
    OBVIOUS
  <2>1. CASE \E s \in Sidecars : Begin(s)
    BY <2>1, BeginKeeps
  <2>2. ASSUME NEW s \in Sidecars, Executed(s) PROVE IInv'
    <3>1. PICK c \in Pending : c = op[s]
      BY <2>2, CommandType DEF Executed, IInv
    <3>2. Execute(c) /\ clock' = clock /\ begun' = begun
      BY <2>2, <3>1 DEF Executed
    <3>3. acked' \in {[acked EXCEPT ![c.name] =
                        CASE c.step = "record" -> @ \cup {<<c.at, c.id>>}
                          [] c.step = "clear"  -> {}
                          [] OTHER             -> @],
                     [acked EXCEPT ![c.name] = IF c.step = "clear" THEN {} ELSE @]}
      BY <2>2, <3>1 DEF Executed
    <3>4. c \in Commands /\ TypeOK
      BY PendingType DEF IInv
    <3>5. op' = [t \in Sidecars |-> op'[t]]
      BY <2>2 DEF Executed
    <3> QED BY <2>2, <3>2, <3>3, <3>4, <3>5, ExecutedFollows, ExecuteType, ExecuteKeeps,
               StepKeeps
  <2>3. ASSUME NEW s \in Sidecars, NotExecuted(s) PROVE IInv'
    <3>1. /\ clock' = clock /\ begun' = begun /\ cooldown' = cooldown
          /\ failures' = failures /\ acked' = acked
      BY <2>3 DEF NotExecuted
    <3>2. op' = [t \in Sidecars |-> op'[t]]
      BY <2>3 DEF NotExecuted, IInv, TypeOK
    <3>3. AckedKept' /\ \A n \in Names : failures'[n] \cup acked'[n] \subseteq Members
      BY <3>1 DEF IInv, AckedKept, Members
    <3> QED BY <2>3, <3>1, <3>2, <3>3, NotExecutedFollows, StepKeeps DEF IInv, TypeOK
  <2>4. ASSUME NEW c \in late, ExecutedLate(c) PROVE IInv'
    <3>1. c \in Pending /\ c \in Commands /\ TypeOK
      BY PendingType DEF IInv, Pending
    <3>2. Execute(c) /\ clock' = clock /\ begun' = begun
      BY <2>4 DEF ExecutedLate
    <3>3. acked' \in {[acked EXCEPT ![c.name] =
                        CASE c.step = "record" -> @ \cup {<<c.at, c.id>>}
                          [] c.step = "clear"  -> {}
                          [] OTHER             -> @],
                     [acked EXCEPT ![c.name] = IF c.step = "clear" THEN {} ELSE @]}
      BY <2>4 DEF ExecutedLate
    <3>4. op' = [t \in Sidecars |-> op'[t]]
      BY <2>4 DEF ExecutedLate
    <3> QED BY <2>4, <3>1, <3>2, <3>3, <3>4, LateFollows, ExecuteType, ExecuteKeeps,
               StepKeeps
  <2>5. CASE \E n \in Names : Expire(n)
    BY <2>5, ExpireKeeps
  <2>6. CASE Tick
    BY <2>6, TickKeeps
  <2>7. CASE UNCHANGED vars
    BY <2>7 DEF vars, IInv, TypeOK, AllRight, Right, IdsDiffer, AckedKept, Members,
                Pending
  <2> QED BY <2>1, <2>2, <2>3, <2>4, <2>5, <2>6, <2>7 DEF Next
<1> QED BY <1>1, <1>2, PTL DEF Spec

-----------------------------------------------------------------------------
(* What follows                                                              *)

\* FailuresCountedOnce for every instance: no failure counts twice and none that
\* was acknowledged is lost while it is in the window.
THEOREM RedisFailuresCountedOnce == Spec => []FailuresCountedOnce
<1>1. IInv => FailuresCountedOnce
  <2> SUFFICES ASSUME IInv, NEW n \in Names
              PROVE  /\ \A f, g \in failures[n] : f[2] = g[2] => f = g
                     /\ \A f \in acked[n] : f[1] > clock - Window =>
                          \E g \in failures[n] : g[2] = f[2]
    BY DEF FailuresCountedOnce
  <2>1. failures[n] \subseteq Members
    BY DEF Members
  <2> QED BY <2>1 DEF IInv, IdsDiffer, AckedKept
<1> QED BY <1>1, RedisInvariant, PTL

\* The execution of one command, as a step of the abstract store.
LEMMA ExecuteIsAtomic ==
  ASSUME IInv, NEW c \in Commands, Execute(c), Right(c), clock' = clock, ~stale'
  PROVE  [Atomic!StoreNext]_<<clock, cooldown, failures>>
<1>1. /\ c.name \in Names /\ c.at \in 0..clock /\ c.step \in Steps
      /\ c.step \in {"set", "del"} => c.fresh
      /\ c.until \in Nat /\ c.at \in Nat
  <2>1. c.name \in Names /\ c.step \in Steps /\ c.until \in Nat /\ c.at \in Nat
    BY DEF Commands
  <2>2. c.step \in {"set", "del"} => c.fresh
    BY Zenon DEF Execute
  <2> QED BY <2>1, <2>2 DEF Right, IInv, TypeOK
<1> DEFINE n == c.name
<1>2. /\ cooldown' = [cooldown EXCEPT ![n] = CooldownAfter(c)]
      /\ failures' = [failures EXCEPT ![n] = FailuresAfter(c)]
      /\ cooldown \in [Names -> Nat] /\ failures \in [Names -> SUBSET (Nat \X Nat)]
  BY DEF Execute, IInv, TypeOK
<1>3. CASE c.step = "get"
  <2>1. cooldown' = cooldown /\ failures' = failures
    BY <1>1, <1>2, <1>3 DEF CooldownAfter, FailuresAfter
  <2> QED BY <2>1
<1>4. CASE c.step = "set"
  <2>1. cooldown'[n] = c.until /\ cooldown[n] <= c.until /\ failures' = failures
    BY <1>1, <1>2, <1>4 DEF CooldownAfter, FailuresAfter, Right
  <2>2. cooldown' = [cooldown EXCEPT ![n] = IF cooldown'[n] > @ THEN cooldown'[n] ELSE @]
    <3>1. (IF cooldown'[n] > cooldown[n] THEN cooldown'[n] ELSE cooldown[n]) = c.until
      BY <1>1, <1>2, <2>1
    <3>2. cooldown' = [cooldown EXCEPT ![n] = c.until]
      BY <1>2, <1>4 DEF CooldownAfter
    <3> QED BY <3>1, <3>2
  <2>3. Atomic!MarkCooldown(n)
    BY <2>1, <2>2 DEF Atomic!MarkCooldown, Atomic!MarkedCooldown
  <2> QED BY <1>1, <2>3 DEF Atomic!StoreNext
<1>5. CASE c.step = "del"
  <2>1. cooldown'[n] = 0 /\ cooldown[n] <= clock /\ failures' = failures
    BY <1>1, <1>2, <1>5 DEF CooldownAfter, FailuresAfter, Right
  <2>2. cooldown' = [m \in Names |-> IF m \in {n}
                       THEN (IF cooldown[m] <= clock THEN 0 ELSE cooldown[m])
                       ELSE cooldown[m]]
    BY <1>1, <1>2, <2>1
  <2>3. Atomic!ReadCooldown(n)
    BY <2>1, <2>2 DEF Atomic!ReadCooldown, Atomic!WithoutExpired, Atomic!CooldownUntil
  <2> QED BY <1>1, <2>3 DEF Atomic!StoreNext
<1>6. CASE c.step = "clear"
  <2>1. /\ cooldown' = [m \in Names |-> IF m \in {n} THEN 0 ELSE cooldown[m]]
        /\ failures' = [m \in Names |-> IF m \in {n} THEN {} ELSE failures[m]]
    BY <1>1, <1>2, <1>6 DEF CooldownAfter, FailuresAfter
  <2>2. Atomic!ClearAccount(n)
    BY <2>1 DEF Atomic!ClearAccount, Atomic!Cleared, Atomic!NoPersona
  <2> QED BY <1>1, <2>2 DEF Atomic!StoreNext
<1>7. CASE c.step = "record"
  <2> DEFINE f == <<c.at, c.id>>
  <2>1. cooldown' = cooldown
        /\ failures' = [failures EXCEPT ![n] = Recent(n, c.at) \cup {f}]
    BY <1>1, <1>2, <1>7 DEF CooldownAfter, FailuresAfter, Member
  <2>2. CASE f \notin failures[n]
    <3>1. f \in failures'[n] /\ f[1] = c.at
      BY <1>1, <1>2, <2>1
    <3>2. Atomic!RecordFailure(n)
      BY <2>1, <2>2, <3>1 DEF Atomic!RecordFailure, Atomic!Recent, Recent
    <3> QED BY <1>1, <3>2 DEF Atomic!StoreNext
  <2>3. CASE f \in failures[n]
    <3>1. f \in Recent(n, c.at)
      BY <1>1, <2>3, RedisAssumption DEF Recent
    <3>2. failures' = [failures EXCEPT ![n] = Recent(n, c.at)]
      BY <2>1, <3>1
    <3>3. Atomic!CountFailures(n)
      BY <1>1, <2>1, <3>2 DEF Atomic!CountFailures, Atomic!Recent, Recent
    <3> QED BY <1>1, <3>3 DEF Atomic!StoreNext
  <2> QED BY <2>2, <2>3
<1>8. CASE c.step = "count"
  <2>1. cooldown' = cooldown /\ failures' = [failures EXCEPT ![n] = Recent(n, c.at)]
    BY <1>1, <1>2, <1>8 DEF CooldownAfter, FailuresAfter
  <2>2. Atomic!CountFailures(n)
    BY <1>1, <2>1 DEF Atomic!CountFailures, Atomic!Recent, Recent
  <2> QED BY <1>1, <2>2 DEF Atomic!StoreNext
<1> QED BY <1>1, <1>3, <1>4, <1>5, <1>6, <1>7, <1>8 DEF Steps

LEMMA ExpireIsAtomic ==
  ASSUME IInv, NEW n \in Names, Expire(n)
  PROVE  Atomic!StoreNext
<1>1. /\ cooldown \in [Names -> Nat] /\ failures \in [Names -> SUBSET (Nat \X Nat)]
      /\ clock \in Nat /\ clock' = clock
  BY DEF Expire, IInv, TypeOK
<1>2. CASE cooldown[n] \in 1..clock /\ cooldown' = [cooldown EXCEPT ![n] = 0]
           /\ failures' = failures
  <2>1. cooldown' = [m \in Names |-> IF m \in {n}
                       THEN (IF cooldown[m] <= clock THEN 0 ELSE cooldown[m])
                       ELSE cooldown[m]]
    <3>1. cooldown[n] <= clock
      BY <1>1, <1>2
    <3>2. \A m \in Names : cooldown'[m] = IF m = n THEN 0 ELSE cooldown[m]
      BY <1>1, <1>2
    <3>3. cooldown' = [m \in Names |-> cooldown'[m]]
      BY <1>1, <1>2
    <3> QED BY <3>1, <3>2, <3>3
  <2>2. Atomic!ReadCooldown(n)
    BY <1>1, <1>2, <2>1
       DEF Atomic!ReadCooldown, Atomic!WithoutExpired, Atomic!CooldownUntil
  <2> QED BY <2>2 DEF Atomic!StoreNext
<1>3. CASE Recent(n, clock) = {} /\ failures' = [failures EXCEPT ![n] = {}]
           /\ cooldown' = cooldown
  <2>1. failures' = [failures EXCEPT ![n] = Recent(n, clock)] /\ clock \in 0..clock
    BY <1>1, <1>3
  <2>2. Atomic!CountFailures(n)
    BY <1>1, <1>3, <2>1 DEF Atomic!CountFailures, Atomic!Recent, Recent
  <2> QED BY <2>2 DEF Atomic!StoreNext
<1> QED BY <1>2, <1>3 DEF Expire

LEMMA StepIsAtomic ==
  ASSUME IInv, Next, ~stale'
  PROVE  [Atomic!StoreNext]_<<clock, cooldown, failures>>
<1>1. CASE \E s \in Sidecars : Begin(s) \/ NotExecuted(s)
  BY <1>1 DEF Begin, NotExecuted
<1>2. ASSUME NEW s \in Sidecars, Executed(s)
      PROVE  [Atomic!StoreNext]_<<clock, cooldown, failures>>
  <2>1. PICK c \in Pending : c = op[s]
    BY <1>2, CommandType DEF Executed, IInv
  <2>2. c \in Commands /\ Right(c)
    BY PendingType DEF IInv, AllRight
  <2>3. Execute(c) /\ clock' = clock
    BY <1>2, <2>1 DEF Executed
  <2> QED BY <2>2, <2>3, ExecuteIsAtomic
<1>3. ASSUME NEW c \in late, ExecutedLate(c)
      PROVE  [Atomic!StoreNext]_<<clock, cooldown, failures>>
  <2>1. c \in Commands /\ Right(c) /\ Execute(c) /\ clock' = clock
    BY <1>3, PendingType DEF IInv, AllRight, Pending, ExecutedLate
  <2> QED BY <2>1, ExecuteIsAtomic
<1>4. CASE \E n \in Names : Expire(n)
  BY <1>4, ExpireIsAtomic
<1>5. CASE Tick
  BY <1>5 DEF Tick, Atomic!StoreNext, Atomic!Passes, Atomic!store
<1> QED BY <1>1, <1>2, <1>3, <1>4, <1>5 DEF Next

LEMMA InitIsAtomic == Init => Atomic!StoreInit
  BY DEF Init, Atomic!StoreInit, Atomic!NoPersona

\* FreshIsAtomic for every instance: every step is one of the abstract store,
\* except the execution of a write decided on an outdated reading.
THEOREM RedisFreshIsAtomic == Spec => FreshIsAtomic
<1>1. IInv /\ [Next]_vars => [~stale' => [Atomic!StoreNext]_<<clock, cooldown, failures>>]_vars
  BY StepIsAtomic DEF vars
<1> QED BY <1>1, InitIsAtomic, RedisInvariant, PTL DEF Spec, FreshIsAtomic

\* With one sidecar and no late command every reading is fresh when it is used.
AllFresh ==
  /\ \A s \in Sidecars : op[s].fresh
  /\ late = {}
  /\ ~stale

LEMMA ReadKeepsFresh ==
  ASSUME NEW c \in Commands, c.fresh, NEW x
  PROVE  AfterRead(c, x).fresh
  BY DEF AfterRead, Idle, Commands

LEMMA AnswerKeepsFresh ==
  ASSUME NEW c \in Commands, c.fresh
  PROVE  AfterAnswer(c).fresh /\ AfterError(c).fresh
<1>1. AfterRead(c, 0).fresh
  BY ReadKeepsFresh
<1>2. AfterError(c).fresh
  BY <1>1 DEF AfterError, Idle
<1>3. CASE c.step = "get" /\ cooldown[c.name] \in 1..clock
  <2>1. AfterAnswer(c) = [c EXCEPT !.step = "del", !.fresh = TRUE]
    BY <1>3 DEF AfterAnswer
  <2> QED BY <1>2, <2>1 DEF Commands
<1>4. CASE c.step = "get" /\ cooldown[c.name] \notin 1..clock
  <2> DEFINE d == [c EXCEPT !.fresh = TRUE]
  <2>1. AfterAnswer(c) = AfterRead(d, cooldown[c.name])
    BY <1>4 DEF AfterAnswer
  <2>2. d \in Commands /\ d.fresh
    BY DEF Commands
  <2> QED BY <1>2, <2>1, <2>2, ReadKeepsFresh
<1>5. CASE c.step = "del"
  BY <1>1, <1>2, <1>5 DEF AfterAnswer
<1>6. CASE c.step \notin {"get", "del"}
  BY <1>2, <1>6 DEF AfterAnswer, Idle
<1> QED BY <1>3, <1>4, <1>5, <1>6

LEMMA FreshStep ==
  ASSUME ~Late, \A s, t \in Sidecars : s = t, IInv, AllFresh, [Next]_vars
  PROVE  AllFresh'
<1>1. TypeOK
  BY DEF IInv
<1>2. ASSUME NEW s \in Sidecars, Begin(s) PROVE AllFresh'
  BY <1>1, <1>2 DEF Begin, AllFresh, TypeOK
<1>3. ASSUME NEW s \in Sidecars, Executed(s) PROVE AllFresh'
  <2>1. PICK c \in Commands : c = op[s]
    BY <1>1, <1>3, CommandType DEF Executed
  <2>2. c.fresh /\ late = {}
    BY <2>1 DEF AllFresh
  <2>3. AfterAnswer(c).fresh /\ AfterError(c).fresh
    BY <2>2, AnswerKeepsFresh
  <2>4. op'[s] \in {AfterAnswer(c), AfterError(c)}
    BY <1>3, <2>1 DEF Executed
  <2>5. late' = {}
    BY <1>3, <2>2 DEF Executed, MayStay
  <2>6. ~stale'
    <3>1. stale' = (c.step \in {"set", "del"} /\ ~c.fresh)
      BY <1>3, <2>1 DEF Executed, Execute
    <3> QED BY Zenon, <2>2, <3>1
  <2> QED BY <2>3, <2>4, <2>5, <2>6 DEF AllFresh
<1>4. ASSUME NEW s \in Sidecars, NotExecuted(s) PROVE AllFresh'
  <2>1. PICK c \in Commands : c = op[s]
    BY <1>1, <1>4, CommandType DEF NotExecuted
  <2>2. c.fresh /\ AfterError(c).fresh
    BY <2>1, AnswerKeepsFresh DEF AllFresh
  <2>3. op'[s] = AfterError(c) /\ late' = {} /\ ~stale'
    BY <1>1, <1>4, <2>1 DEF NotExecuted, MayStay, TypeOK, AllFresh
  <2> QED BY <2>2, <2>3 DEF AllFresh
<1>5. CASE \E n \in Names : Expire(n)
  BY <1>5 DEF Expire, AllFresh
<1>6. CASE Tick
  BY <1>6 DEF Tick, AllFresh
<1>7. CASE UNCHANGED vars
  BY <1>7 DEF vars, AllFresh
<1>8. \A c \in late : FALSE
  BY DEF AllFresh
<1> QED BY <1>2, <1>3, <1>4, <1>5, <1>6, <1>7, <1>8 DEF Next

\* A Redis that one sidecar uses, and that executes no command late, is the
\* abstract store: the pool may take each call as one step.
THEOREM RedisAloneIsAtomic ==
  ASSUME ~Late, \A s, t \in Sidecars : s = t
  PROVE  Spec => Atomic!StoreSpec
<1>1. Init => AllFresh
  <2>1. Init => ~stale
    BY Zenon DEF Init
  <2>2. Init => late = {}
    BY Zenon DEF Init
  <2>3. Idle.fresh
    BY DEF Idle
  <2>4. Init => \A s \in Sidecars : op[s] = Idle
    BY DEF Init
  <2>5. ASSUME Init, NEW s \in Sidecars PROVE op[s].fresh
    <3>1. op[s] = Idle
      BY <2>4, <2>5
    <3> QED BY <3>1, <2>3, Zenon
  <2> QED BY <2>1, <2>2, <2>5, Zenon DEF AllFresh
<1>2. IInv /\ AllFresh /\ [Next]_vars => AllFresh'
  BY FreshStep
<1>3. AllFresh' => ~stale'
  BY DEF AllFresh
<1>4. IInv /\ [Next]_vars /\ ~stale' => [Atomic!StoreNext]_<<clock, Atomic!store>>
  BY StepIsAtomic DEF vars, Atomic!store
<1> QED BY <1>1, <1>2, <1>3, <1>4, InitIsAtomic, RedisInvariant, PTL
        DEF Spec, Atomic!StoreSpec

=============================================================================
