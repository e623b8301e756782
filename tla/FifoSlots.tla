----------------------------- MODULE FifoSlots ------------------------------
(***************************************************************************)
(* What a queue gate promises its users, without its data structures: a    *)
(* fixed number of slots, and a line of clients each of which knows the    *)
(* clients that stand ahead of it.  A slot goes to a newcomer only when    *)
(* nobody waits, and otherwise to the client with nobody ahead.            *)
(***************************************************************************)
EXTENDS Naturals, FiniteSets

CONSTANTS Clients, Slots

VARIABLES
  holding,   \* clients that own a slot
  ahead      \* for each client in line, the clients ahead of it

line == DOMAIN ahead

Init == holding = {} /\ ahead = [c \in {} |-> {}]

\* A client takes a free slot at once.
Enter(c) ==
  /\ c \in Clients \ (holding \cup line)
  /\ line = {}
  /\ Cardinality(holding) < Slots
  /\ holding' = holding \cup {c}
  /\ UNCHANGED ahead

\* A client joins the end of the line, which it does only when all slots are
\* taken.
Join(c) ==
  /\ c \in Clients \ (holding \cup line)
  /\ Cardinality(holding) = Slots
  /\ ahead' = [d \in line \cup {c} |-> IF d = c THEN line ELSE ahead[d]]
  /\ UNCHANGED holding

Without(c) == [d \in line \ {c} |-> ahead[d] \ {c}]

\* A client gives up its place in line.
Leave(c) ==
  /\ c \in line
  /\ ahead' = Without(c)
  /\ UNCHANGED holding

\* A holder gives up its slot and nobody waits for it.
Free(c) ==
  /\ c \in holding
  /\ line = {}
  /\ holding' = holding \ {c}
  /\ UNCHANGED ahead

\* A holder gives up its slot and the head of the line takes it over.
Pass(c, d) ==
  /\ c \in holding
  /\ d \in line
  /\ ahead[d] = {}
  /\ holding' = (holding \ {c}) \cup {d}
  /\ ahead' = Without(d)

Next ==
  \E c \in Clients :
    \/ Enter(c)
    \/ Join(c)
    \/ Leave(c)
    \/ Free(c)
    \/ \E d \in Clients : Pass(c, d)

Spec == Init /\ [][Next]_<<holding, ahead>>

=============================================================================
