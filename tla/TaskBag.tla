------------------------------ MODULE TaskBag ------------------------------
(***************************************************************************)
(* What a queue of tasks promises whatever the threads do: it is a         *)
(* multiset.  A task comes out only if it went in, and once for each time  *)
(* it went in.  Nothing is said about order, nor about being able to reach *)
(* every task that is stored.                                              *)
(***************************************************************************)
EXTENDS Naturals

CONSTANTS
  Consumers,  \* threads that take tasks out
  Items,      \* the tasks
  None,       \* no task (nullptr)
  CanDrop     \* whether somebody may empty the queue (clear())

VARIABLES
  pool,   \* pool[x]: how many copies of x are stored
  taken   \* taken[c]: the task consumer c has removed and not yet returned

bagVars == <<pool, taken>>

Init ==
  /\ pool = [x \in Items |-> 0]
  /\ taken = [c \in Consumers |-> None]

Put(x) ==
  /\ UNCHANGED taken
  /\ pool' = [pool EXCEPT ![x] = @ + 1]

Take(c, x) ==
  /\ taken[c] = None
  /\ taken' = [taken EXCEPT ![c] = x]
  /\ pool[x] > 0
  /\ pool' = [pool EXCEPT ![x] = @ - 1]

Return(c) ==
  /\ taken[c] # None
  /\ taken' = [taken EXCEPT ![c] = None]
  /\ UNCHANGED pool

Drop(x) ==
  /\ CanDrop
  /\ pool[x] > 0
  /\ pool' = [pool EXCEPT ![x] = @ - 1]
  /\ UNCHANGED taken

Next ==
  \/ \E x \in Items : Put(x)
  \/ \E c \in Consumers, x \in Items : Take(c, x)
  \/ \E c \in Consumers : Return(c)
  \/ \E x \in Items : Drop(x)

Spec == Init /\ [][Next]_bagVars

=============================================================================
