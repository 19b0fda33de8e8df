------------------------------ MODULE TaskFifo ------------------------------
(***************************************************************************)
(* The bounded first-in first-out queue that a ring buffer is meant to be. *)
(***************************************************************************)
EXTENDS Naturals, Sequences

CONSTANTS
  Consumers,  \* threads that take tasks out
  Items,      \* the tasks
  None,       \* no task (nullptr)
  Bound       \* the most tasks the queue may hold

VARIABLES
  q,      \* the stored tasks, oldest first
  taken   \* taken[c]: the task consumer c has removed and not yet returned

fifoVars == <<q, taken>>

Init ==
  /\ q = << >>
  /\ taken = [c \in Consumers |-> None]

Put(x) ==
  /\ Len(q) < Bound
  /\ q' = Append(q, x)
  /\ UNCHANGED taken

Take(c) ==
  /\ q # << >>
  /\ taken[c] = None
  /\ q' = Tail(q)
  /\ taken' = [taken EXCEPT ![c] = Head(q)]

Return(c) ==
  /\ taken[c] # None
  /\ taken' = [taken EXCEPT ![c] = None]
  /\ UNCHANGED q

Next ==
  \/ \E x \in Items : Put(x)
  \/ \E c \in Consumers : Take(c)
  \/ \E c \in Consumers : Return(c)

Spec == Init /\ [][Next]_fifoVars

=============================================================================
