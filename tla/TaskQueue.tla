----------------------------- MODULE TaskQueue -----------------------------
(***************************************************************************)
(* LockFreeTaskQueue (task_queue.hpp): a ring of atomic slots with a head  *)
(* and a tail index.  Every atomic access of the code is one step here, so *)
(* the threads interleave exactly where the processor may interleave them. *)
(* The accesses are modelled as sequentially consistent.                   *)
(*                                                                         *)
(* The batch and the waiting operations only repeat try_enqueue and        *)
(* try_dequeue; a thread of this model may call them in any order.         *)
(***************************************************************************)
EXTENDS Integers, Sequences, FiniteSets

CONSTANTS
  Producers,  \* threads that call try_enqueue
  Consumers,  \* threads that call try_dequeue
  Clearers,   \* threads that call clear
  Items,      \* the Task* that are enqueued
  None,       \* nullptr
  Capacity,   \* number of slots
  WeakCas     \* TRUE: compare_exchange_weak may fail for no reason

\* The constructor throws unless the capacity is a power of two.  It lets 0 pass, but a
\* ring without slots has no behaviour to model: its mask is 2^64 - 1, and the first
\* try_enqueue accesses a slot that does not exist.
ASSUME CapacityAssumption ==
  /\ Capacity \in Nat \ {0}
  /\ \E k \in 0 .. Capacity : Capacity = 2 ^ k

ASSUME ItemsAssumption == None \notin Items

ASSUME WeakCasAssumption == WeakCas \in BOOLEAN

Threads == Producers \cup Consumers \cup Clearers

Slots == 0 .. (Capacity - 1)

EnqSteps == {"enq_load_tail", "enq_cas", "enq_publish"}
DeqSteps == {"deq_load_tail", "deq_load_slot", "deq_cas", "deq_advance"}
ClearSteps == {"clear_load_tail", "clear_slot", "clear_tail"}

VARIABLES
  buffer,  \* buffer_[i]
  head,    \* head_
  tail,    \* tail_
  pc,      \* pc[t]: the next access of thread t, "idle" outside the queue
  lhead,   \* lhead[t]: t's local copy of head
  ltail,   \* ltail[t]: t's local copy of tail
  ltask    \* ltask[t]: the task t is enqueuing, or the one it loaded

shared == <<buffer, head, tail>>
locals == <<pc, lhead, ltail, ltask>>
vars == <<shared, locals>>

TypeOK ==
  /\ buffer \in [Slots -> Items \cup {None}]
  /\ head \in Slots
  /\ tail \in Slots
  /\ pc \in [Threads -> {"idle"} \cup EnqSteps \cup DeqSteps \cup ClearSteps]
  /\ lhead \in [Threads -> Slots]
  /\ ltail \in [Threads -> Slots]
  /\ ltask \in [Threads -> Items \cup {None}]

\* (i + 1) & mask_
Wrap(i) == IF i + 1 = Capacity THEN 0 ELSE i + 1

\* size() for given loads of head and tail
Size(h, t) == IF t >= h THEN t - h ELSE (Capacity - h) + t

Init ==
  /\ buffer = [i \in Slots |-> None]
  /\ head = 0
  /\ tail = 0
  /\ pc = [t \in Threads |-> "idle"]
  /\ lhead = [t \in Threads |-> 0]
  /\ ltail = [t \in Threads |-> 0]
  /\ ltask = [t \in Threads |-> None]

Goto(t, step) == pc' = [pc EXCEPT ![t] = step]

\* The locals go out of scope.
ReturnFrom(t) ==
  /\ Goto(t, "idle")
  /\ lhead' = [lhead EXCEPT ![t] = 0]
  /\ ltail' = [ltail EXCEPT ![t] = 0]
  /\ ltask' = [ltask EXCEPT ![t] = None]

-----------------------------------------------------------------------------
(* try_enqueue(task)                                                       *)

EnqLoadHead(p, task) ==
  /\ pc[p] = "idle"
  /\ lhead' = [lhead EXCEPT ![p] = head]
  /\ ltask' = [ltask EXCEPT ![p] = task]
  /\ Goto(p, "enq_load_tail")
  /\ UNCHANGED <<shared, ltail>>

\* Mutant: the full ring is not noticed.
EnqLoadTailUnchecked(p) ==
  /\ pc[p] = "enq_load_tail"
  /\ ltail' = [ltail EXCEPT ![p] = tail]
  /\ Goto(p, "enq_cas")
  /\ UNCHANGED <<shared, lhead, ltask>>

EnqLoadTail(p) ==
  /\ pc[p] = "enq_load_tail"
  /\ \/ /\ Wrap(tail) # lhead[p]
        /\ ltail' = [ltail EXCEPT ![p] = tail]
        /\ Goto(p, "enq_cas")
        /\ UNCHANGED <<lhead, ltask>>
     \/ /\ Wrap(tail) = lhead[p]   \* full
        /\ ReturnFrom(p)
  /\ UNCHANGED shared

EnqClaim(p) ==
  /\ pc[p] = "enq_cas"
  /\ buffer[ltail[p]] = None
  /\ buffer' = [buffer EXCEPT ![ltail[p]] = ltask[p]]
  /\ Goto(p, "enq_publish")
  /\ UNCHANGED <<head, tail, lhead, ltail, ltask>>

EnqFail(p) ==
  /\ pc[p] = "enq_cas"
  /\ buffer[ltail[p]] # None \/ WeakCas
  /\ ReturnFrom(p)
  /\ UNCHANGED shared

EnqPublish(p) ==
  /\ pc[p] = "enq_publish"
  /\ tail' = Wrap(ltail[p])
  /\ ReturnFrom(p)
  /\ UNCHANGED <<buffer, head>>

-----------------------------------------------------------------------------
(* try_dequeue()                                                           *)

DeqLoadHead(c) ==
  /\ pc[c] = "idle"
  /\ lhead' = [lhead EXCEPT ![c] = head]
  /\ Goto(c, "deq_load_tail")
  /\ UNCHANGED <<shared, ltail, ltask>>

DeqLoadTail(c) ==
  /\ pc[c] = "deq_load_tail"
  /\ \/ /\ lhead[c] # tail
        /\ Goto(c, "deq_load_slot")
        /\ UNCHANGED <<lhead, ltail, ltask>>
     \/ /\ lhead[c] = tail         \* empty
        /\ ReturnFrom(c)
  /\ UNCHANGED shared

DeqLoadSlot(c) ==
  /\ pc[c] = "deq_load_slot"
  /\ \/ /\ buffer[lhead[c]] # None
        /\ ltask' = [ltask EXCEPT ![c] = buffer[lhead[c]]]
        /\ Goto(c, "deq_cas")
        /\ UNCHANGED <<lhead, ltail>>
     \/ /\ buffer[lhead[c]] = None
        /\ ReturnFrom(c)
  /\ UNCHANGED shared

\* Mutant: a plain store in place of the compare-and-swap.
DeqClaimBlindly(c) ==
  /\ pc[c] = "deq_cas"
  /\ buffer' = [buffer EXCEPT ![lhead[c]] = None]
  /\ Goto(c, "deq_advance")
  /\ UNCHANGED <<head, tail, lhead, ltail, ltask>>

DeqClaim(c) ==
  /\ pc[c] = "deq_cas"
  /\ buffer[lhead[c]] = ltask[c]
  /\ buffer' = [buffer EXCEPT ![lhead[c]] = None]
  /\ Goto(c, "deq_advance")
  /\ UNCHANGED <<head, tail, lhead, ltail, ltask>>

DeqFail(c) ==
  /\ pc[c] = "deq_cas"
  /\ buffer[lhead[c]] # ltask[c] \/ WeakCas
  /\ ReturnFrom(c)
  /\ UNCHANGED shared

DeqAdvance(c) ==
  /\ pc[c] = "deq_advance"
  /\ head' = Wrap(lhead[c])
  /\ ReturnFrom(c)
  /\ UNCHANGED <<buffer, tail>>

-----------------------------------------------------------------------------
(* clear()                                                                 *)

ClearLoadHead(k) ==
  /\ pc[k] = "idle"
  /\ lhead' = [lhead EXCEPT ![k] = head]
  /\ Goto(k, "clear_load_tail")
  /\ UNCHANGED <<shared, ltail, ltask>>

ClearLoadTail(k) ==
  /\ pc[k] = "clear_load_tail"
  /\ ltail' = [ltail EXCEPT ![k] = tail]
  /\ Goto(k, "clear_slot")
  /\ UNCHANGED <<shared, lhead, ltask>>

ClearSlot(k) ==
  /\ pc[k] = "clear_slot"
  /\ lhead[k] # ltail[k]
  /\ buffer' = [buffer EXCEPT ![lhead[k]] = None]
  /\ lhead' = [lhead EXCEPT ![k] = Wrap(lhead[k])]
  /\ UNCHANGED <<head, tail, pc, ltail, ltask>>

ClearStoreHead(k) ==
  /\ pc[k] = "clear_slot"
  /\ lhead[k] = ltail[k]
  /\ head' = 0
  /\ Goto(k, "clear_tail")
  /\ UNCHANGED <<buffer, tail, lhead, ltail, ltask>>

ClearStoreTail(k) ==
  /\ pc[k] = "clear_tail"
  /\ tail' = 0
  /\ ReturnFrom(k)
  /\ UNCHANGED <<buffer, head>>

-----------------------------------------------------------------------------
\* What a producer does once it is inside a call
EnqStep(p) == EnqLoadTail(p) \/ EnqClaim(p) \/ EnqFail(p) \/ EnqPublish(p)

DeqStep(c) ==
  \/ DeqLoadHead(c) \/ DeqLoadTail(c) \/ DeqLoadSlot(c)
  \/ DeqClaim(c) \/ DeqFail(c) \/ DeqAdvance(c)

ClearStep(k) ==
  \/ ClearLoadHead(k) \/ ClearLoadTail(k) \/ ClearSlot(k)
  \/ ClearStoreHead(k) \/ ClearStoreTail(k)

Next ==
  \/ \E p \in Producers : (\E task \in Items : EnqLoadHead(p, task)) \/ EnqStep(p)
  \/ \E c \in Consumers : DeqStep(c)
  \/ \E k \in Clearers : ClearStep(k)

Spec == Init /\ [][Next]_vars

\* Consumers keep polling, as the pool's workers do while work is pending,
\* and a thread inside a call is scheduled until it returns.
FairSpec ==
  /\ Spec
  /\ \A p \in Producers : WF_vars(EnqStep(p))
  /\ \A c \in Consumers : WF_vars(DeqStep(c))

-----------------------------------------------------------------------------
(* Properties                                                              *)

\* Slot i is inside the window that the indices delimit.
InWindow(i, h, t) == IF h <= t THEN h <= i /\ i < t ELSE h <= i \/ i < t

\* What consumer c has claimed and not yet returned
Claimed(c) == IF pc[c] = "deq_advance" THEN ltask[c] ELSE None

Taken == [c \in Consumers |-> Claimed(c)]

\* The queue as a multiset: a task is in it from the producer's successful
\* compare-and-swap to the consumer's.
Stored(x) == {i \in Slots : buffer[i] = x}

Bag == INSTANCE TaskBag WITH
  pool <- [x \in Items |-> Cardinality(Stored(x))],
  taken <- Taken,
  CanDrop <- Clearers # {}

\* Whatever the number of producers, consumers and clearing threads, no task
\* comes out of try_dequeue that did not go in through try_enqueue, none comes
\* out twice, and a call that returns false or nullptr changed nothing.
BagSpec == Bag!Spec

\* The tasks between the indices, oldest first.  A claimed slot that the
\* consumer has not yet stepped over is no longer in the queue.
WindowStart ==
  IF \E c \in Consumers : pc[c] = "deq_advance" THEN Wrap(head) ELSE head

Window ==
  [n \in 1 .. Size(WindowStart, tail) |->
     buffer[IF WindowStart + n - 1 < Capacity
              THEN WindowStart + n - 1
              ELSE WindowStart + n - 1 - Capacity]]

Fifo == INSTANCE TaskFifo WITH
  q <- Window,
  taken <- Taken,
  Bound <- Capacity - 1

\* With one producer and one consumer the ring is a first-in first-out queue of
\* capacity - 1 tasks: try_enqueue takes effect when it stores tail_,
\* try_dequeue when its compare-and-swap succeeds.
FifoSpec == Fifo!Spec

Quiescent == \A t \in Threads : pc[t] = "idle"

\* When no call is in progress a slot holds a task exactly when it lies
\* between head_ and tail_: no task is out of the consumers' reach, and no
\* empty slot makes try_dequeue believe that the queue is empty.
NoTaskStranded ==
  Quiescent => \A i \in Slots : buffer[i] # None <=> InWindow(i, head, tail)

\* With one producer and one consumer neither compare-and-swap can lose: the
\* slot a producer was promised stays empty, the task a consumer has seen stays
\* where it is.  try_enqueue fails only on a full ring and try_dequeue only on
\* an empty one.
ClaimsCannotLose ==
  \A t \in Threads :
    /\ pc[t] = "enq_cas" => buffer[ltail[t]] = None
    /\ pc[t] = "deq_cas" => buffer[lhead[t]] = ltask[t]

\* With one producer and one consumer that keeps polling, every task that was
\* stored in a slot is taken out of it.
EverySlotDrains == \A i \in Slots : buffer[i] # None ~> buffer[i] = None

=============================================================================
