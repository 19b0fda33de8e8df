-------------------------- MODULE TaskQueueProofs --------------------------
(***************************************************************************)
(* Proofs about LockFreeTaskQueue, for any capacity and any tasks.         *)
(* First, with any threads: the types, and that the ring implements the    *)
(* multiset TaskBag.  Then, with one producer and one consumer: that no    *)
(* task is stranded, and that it is a queue, TaskFifo.                     *)
(***************************************************************************)
EXTENDS TaskQueue, FiniteSetTheorems, TLAPS

LEMMA WrapInSlots == \A i \in Slots : Wrap(i) \in Slots
BY CapacityAssumption DEF Slots, Wrap

LEMMA ZeroInSlots == 0 \in Slots
BY CapacityAssumption DEF Slots

\* A thread that has something to put, or has seen something to take, holds a
\* task.
HoldsTask ==
  \A t \in Threads :
    pc[t] \in EnqSteps \cup {"deq_cas", "deq_advance"} => ltask[t] \in Items

TypeInv == TypeOK /\ HoldsTask

USE DEF shared, locals, vars, EnqSteps, DeqSteps, ClearSteps

LEMMA TypeInit == Init => TypeInv
BY ZeroInSlots DEF Init, TypeInv, TypeOK, HoldsTask

LEMMA TypeStep == TypeInv /\ [Next]_vars => TypeInv'
<1> SUFFICES ASSUME TypeInv, [Next]_vars PROVE TypeInv'
  OBVIOUS
<1> USE WrapInSlots, ZeroInSlots DEF TypeInv, TypeOK, HoldsTask, Goto, ReturnFrom
<1>1. ASSUME NEW p \in Producers, NEW x \in Items, EnqLoadHead(p, x) PROVE TypeInv'
  BY <1>1 DEF EnqLoadHead, Threads
<1>2. ASSUME NEW p \in Producers, EnqStep(p) PROVE TypeInv'
  <2> p \in Threads
    BY DEF Threads
  <2>1. CASE EnqLoadTail(p)
    BY <2>1 DEF EnqLoadTail
  <2>2. CASE EnqClaim(p)
    BY <2>2 DEF EnqClaim
  <2>3. CASE EnqFail(p)
    BY <2>3 DEF EnqFail
  <2>4. CASE EnqPublish(p)
    BY <2>4 DEF EnqPublish
  <2> QED
    BY <1>2, <2>1, <2>2, <2>3, <2>4 DEF EnqStep
<1>3. ASSUME NEW c \in Consumers, DeqStep(c) PROVE TypeInv'
  <2> c \in Threads
    BY DEF Threads
  <2>1. CASE DeqLoadHead(c)
    BY <2>1 DEF DeqLoadHead
  <2>2. CASE DeqLoadTail(c)
    BY <2>2 DEF DeqLoadTail
  <2>3. CASE DeqLoadSlot(c)
    BY <2>3 DEF DeqLoadSlot
  <2>4. CASE DeqClaim(c)
    BY <2>4 DEF DeqClaim
  <2>5. CASE DeqFail(c)
    BY <2>5 DEF DeqFail
  <2>6. CASE DeqAdvance(c)
    BY <2>6 DEF DeqAdvance
  <2> QED
    BY <1>3, <2>1, <2>2, <2>3, <2>4, <2>5, <2>6 DEF DeqStep
<1>4. ASSUME NEW k \in Clearers, ClearStep(k) PROVE TypeInv'
  <2> k \in Threads
    BY DEF Threads
  <2>1. CASE ClearLoadHead(k)
    BY <2>1 DEF ClearLoadHead
  <2>2. CASE ClearLoadTail(k)
    BY <2>2 DEF ClearLoadTail
  <2>3. CASE ClearSlot(k)
    BY <2>3 DEF ClearSlot
  <2>4. CASE ClearStoreHead(k)
    BY <2>4 DEF ClearStoreHead
  <2>5. CASE ClearStoreTail(k)
    BY <2>5 DEF ClearStoreTail
  <2> QED
    BY <1>4, <2>1, <2>2, <2>3, <2>4, <2>5 DEF ClearStep
<1>5. CASE UNCHANGED vars
  BY <1>5
<1> QED
  BY <1>1, <1>2, <1>3, <1>4, <1>5 DEF Next

LEMMA TypeInvariant == Spec => []TypeInv
BY TypeInit, TypeStep, PTL DEF Spec

\* The indices and the threads' copies of them stay inside the ring, and slots
\* hold tasks or nullptr, whatever the threads do (try_enqueue, try_dequeue and
\* clear).
THEOREM TypeCorrect == Spec => []TypeOK
BY TypeInvariant, PTL DEF TypeInv

-----------------------------------------------------------------------------
(* The multiset                                                            *)

Count(b, x) == Cardinality({i \in Slots : b[i] = x})

LEMMA SlotsFinite == IsFiniteSet(Slots)
BY CapacityAssumption, FS_Interval DEF Slots

LEMMA CountIsNat == ASSUME NEW b, NEW x PROVE Count(b, x) \in Nat
<1> {i \in Slots : b[i] = x} \in SUBSET Slots
  OBVIOUS
<1> QED
  BY SlotsFinite, FS_Subset, FS_CardinalityType DEF Count

\* Storing a task in an empty slot adds one copy of it and nothing else.
LEMMA CountPut ==
  ASSUME NEW b \in [Slots -> Items \cup {None}], NEW i \in Slots, b[i] = None,
         NEW x \in Items, NEW y \in Items
  PROVE  Count([b EXCEPT ![i] = x], y) = IF y = x THEN Count(b, y) + 1 ELSE Count(b, y)
<1> DEFINE Before == {j \in Slots : b[j] = y}
           After == {j \in Slots : [b EXCEPT ![i] = x][j] = y}
<1>1. IsFiniteSet(Before) /\ i \notin Before
  BY SlotsFinite, FS_Subset, ItemsAssumption, Before \in SUBSET Slots
<1>2. After = IF y = x THEN Before \cup {i} ELSE Before
  BY ItemsAssumption
<1> HIDE DEF Before, After
<1>3. Cardinality(Before \cup {i}) = Cardinality(Before) + 1
  BY <1>1, FS_AddElement
<1> QED
  BY <1>2, <1>3 DEF Count, Before, After

\* Emptying a slot takes away one copy of the task it holds and nothing else.
LEMMA CountTake ==
  ASSUME NEW b \in [Slots -> Items \cup {None}], NEW i \in Slots,
         NEW x \in Items, b[i] = x, NEW y \in Items
  PROVE  /\ Count([b EXCEPT ![i] = None], y) =
              IF y = x THEN Count(b, y) - 1 ELSE Count(b, y)
         /\ Count(b, x) > 0
<1> DEFINE Before == {j \in Slots : b[j] = y}
           After == {j \in Slots : [b EXCEPT ![i] = None][j] = y}
           Copies == {j \in Slots : b[j] = x}
<1>1. IsFiniteSet(Before) /\ IsFiniteSet(Copies) /\ i \in Copies
  BY SlotsFinite, FS_Subset, Before \in SUBSET Slots, Copies \in SUBSET Slots
<1>2. After = IF y = x THEN Before \ {i} ELSE Before
  BY ItemsAssumption
<1>3. y = x => i \in Before
  OBVIOUS
<1> HIDE DEF Before, After, Copies
<1>4. y = x => Cardinality(Before \ {i}) = Cardinality(Before) - 1
  BY <1>1, <1>3, FS_RemoveElement
<1>5. Cardinality(Copies) \in Nat /\ Cardinality(Copies) # 0
  BY <1>1, FS_EmptySet, FS_CardinalityType
<1>6. /\ Count(b, y) = Cardinality(Before)
      /\ Count(b, x) = Cardinality(Copies)
      /\ Count([b EXCEPT ![i] = None], y) = Cardinality(After)
  BY DEF Count, Before, After, Copies
<1> QED
  BY <1>2, <1>4, <1>5, <1>6

LEMMA BagInit == Init => Bag!Init
<1> SUFFICES ASSUME Init PROVE Bag!Init
  OBVIOUS
<1>1. ASSUME NEW x \in Items PROVE Cardinality(Stored(x)) = 0
  <2> Stored(x) = {}
    BY ItemsAssumption DEF Init, Stored
  <2> QED
    BY FS_EmptySet
<1>2. Taken = [c \in Consumers |-> None]
  BY DEF Init, Taken, Claimed, Threads
<1> QED
  BY <1>1, <1>2 DEF Bag!Init

\* A step that changes neither the slots nor what the consumers have claimed is
\* no step of the multiset.
LEMMA BagStutter ==
  ASSUME buffer' = buffer,
         \A c \in Consumers : Claimed(c)' = Claimed(c)
  PROVE  [Bag!Next]_Bag!bagVars
BY DEF Bag!bagVars, Taken, Stored

LEMMA BagPut ==
  ASSUME TypeInv, NEW p \in Producers, EnqClaim(p)
  PROVE  Bag!Put(ltask[p])
<1> DEFINE x == ltask[p]
           i == ltail[p]
<1>1. /\ p \in Threads
      /\ i \in Slots
      /\ x \in Items
      /\ buffer[i] = None
      /\ buffer' = [buffer EXCEPT ![i] = x]
      /\ buffer \in [Slots -> Items \cup {None}]
  <2>1. p \in Threads
    BY DEF Threads
  <2>2. buffer \in [Slots -> Items \cup {None}] /\ i \in Slots
    BY <2>1 DEF TypeInv, TypeOK
  <2>3. x \in Items
    BY <2>1 DEF EnqClaim, TypeInv, HoldsTask
  <2> QED
    BY <2>1, <2>2, <2>3 DEF EnqClaim
<1> HIDE DEF x, i
<1>2. \A y \in Items : Count(buffer', y) = IF y = x THEN Count(buffer, y) + 1 ELSE Count(buffer, y)
  <2> SUFFICES ASSUME NEW y \in Items
               PROVE  Count(buffer', y) = IF y = x THEN Count(buffer, y) + 1 ELSE Count(buffer, y)
    OBVIOUS
  <2>0. buffer \in [Slots -> Items \cup {None}] /\ i \in Slots /\ buffer[i] = None /\ x \in Items
    BY <1>1
  <2>1. Count([buffer EXCEPT ![i] = x], y)
          = IF y = x THEN Count(buffer, y) + 1 ELSE Count(buffer, y)
    BY ONLY <2>0, y \in Items, CountPut, ZenonT(60)
  <2> QED
    BY <1>1, <2>1
<1>3. [y \in Items |-> Cardinality(Stored(y))]'
        = [[y \in Items |-> Cardinality(Stored(y))] EXCEPT ![x] = @ + 1]
  BY <1>1, <1>2 DEF Count, Stored
<1>4. Taken' = Taken
  BY DEF EnqClaim, Goto, TypeInv, TypeOK, Taken, Claimed, Threads
<1> QED
  BY <1>3, <1>4 DEF Bag!Put, x

LEMMA BagTake ==
  ASSUME TypeInv, NEW c \in Consumers, DeqClaim(c)
  PROVE  Bag!Take(c, ltask[c])
<1> DEFINE x == ltask[c]
           i == lhead[c]
<1>1. /\ c \in Threads
      /\ i \in Slots
      /\ x \in Items
      /\ buffer[i] = x
      /\ buffer' = [buffer EXCEPT ![i] = None]
      /\ buffer \in [Slots -> Items \cup {None}]
  BY DEF DeqClaim, TypeInv, TypeOK, HoldsTask, Threads
<1>2. Taken[c] = None /\ Taken' = [Taken EXCEPT ![c] = x]
  BY <1>1 DEF DeqClaim, Goto, TypeInv, TypeOK, Taken, Claimed, Threads
<1> HIDE DEF x, i
<1>3. /\ \A y \in Items : Count(buffer', y) = IF y = x THEN Count(buffer, y) - 1 ELSE Count(buffer, y)
      /\ Count(buffer, x) > 0
  BY <1>1, CountTake, ZenonT(60)
<1>4. [y \in Items |-> Cardinality(Stored(y))]'
        = [[y \in Items |-> Cardinality(Stored(y))] EXCEPT ![x] = @ - 1]
  BY <1>1, <1>3 DEF Count, Stored
<1>5. [y \in Items |-> Cardinality(Stored(y))][x] > 0
  BY <1>1, <1>3 DEF Count, Stored
<1> QED
  BY <1>2, <1>4, <1>5 DEF Bag!Take, x

\* clear() empties its slots one by one; an empty slot stays as it is.
LEMMA BagDrop ==
  ASSUME TypeInv, NEW k \in Clearers, ClearSlot(k), buffer[lhead[k]] # None
  PROVE  Bag!Drop(buffer[lhead[k]])
<1> DEFINE x == buffer[lhead[k]]
           i == lhead[k]
<1>1. /\ i \in Slots
      /\ x \in Items
      /\ buffer[i] = x
      /\ buffer' = [buffer EXCEPT ![i] = None]
      /\ buffer \in [Slots -> Items \cup {None}]
  BY DEF ClearSlot, TypeInv, TypeOK, Threads
<1>2. Taken' = Taken
  BY DEF ClearSlot, TypeInv, TypeOK, Taken, Claimed, Threads
<1> HIDE DEF x, i
<1>3. /\ \A y \in Items : Count(buffer', y) = IF y = x THEN Count(buffer, y) - 1 ELSE Count(buffer, y)
      /\ Count(buffer, x) > 0
  BY <1>1, CountTake, ZenonT(60)
<1>4. [y \in Items |-> Cardinality(Stored(y))]'
        = [[y \in Items |-> Cardinality(Stored(y))] EXCEPT ![x] = @ - 1]
  BY <1>1, <1>3 DEF Count, Stored
<1>5. [y \in Items |-> Cardinality(Stored(y))][x] > 0
  BY <1>1, <1>3 DEF Count, Stored
<1> QED
  BY <1>2, <1>4, <1>5 DEF Bag!Drop, x

LEMMA BagReturn ==
  ASSUME TypeInv, NEW c \in Consumers, DeqAdvance(c)
  PROVE  Bag!Return(c)
<1>1. c \in Threads /\ pc[c] = "deq_advance" /\ ltask[c] \in Items
  BY DEF DeqAdvance, TypeInv, TypeOK, HoldsTask, Threads
<1>2. Taken[c] # None /\ Taken' = [Taken EXCEPT ![c] = None]
  BY <1>1, ItemsAssumption
     DEF DeqAdvance, ReturnFrom, Goto, TypeInv, TypeOK, Taken, Claimed, Threads
<1>3. buffer' = buffer
  BY DEF DeqAdvance
<1> QED
  BY <1>2, <1>3 DEF Bag!Return, Stored

LEMMA BagStep == TypeInv /\ [Next]_vars => [Bag!Next]_Bag!bagVars
<1> SUFFICES ASSUME TypeInv, [Next]_vars PROVE [Bag!Next]_Bag!bagVars
  OBVIOUS
<1>1. ASSUME NEW p \in Producers, NEW x \in Items, EnqLoadHead(p, x)
      PROVE  [Bag!Next]_Bag!bagVars
  BY <1>1, BagStutter DEF EnqLoadHead, Goto, TypeInv, TypeOK, Claimed, Threads
<1>2. ASSUME NEW p \in Producers, EnqStep(p) PROVE [Bag!Next]_Bag!bagVars
  <2>1. CASE EnqClaim(p)
    <3> ltask[p] \in Items
      BY <2>1 DEF EnqClaim, TypeInv, HoldsTask, Threads
    <3> QED
      BY <2>1, BagPut DEF Bag!Next
  <2>2. CASE EnqLoadTail(p) \/ EnqFail(p) \/ EnqPublish(p)
    BY <2>2, BagStutter
       DEF EnqLoadTail, EnqFail, EnqPublish, ReturnFrom, Goto, TypeInv, TypeOK, Claimed, Threads
  <2> QED
    BY <1>2, <2>1, <2>2 DEF EnqStep
<1>3. ASSUME NEW c \in Consumers, DeqStep(c) PROVE [Bag!Next]_Bag!bagVars
  <2>1. CASE DeqClaim(c)
    <3> ltask[c] \in Items
      BY <2>1 DEF DeqClaim, TypeInv, HoldsTask, Threads
    <3> QED
      BY <2>1, BagTake DEF Bag!Next
  <2>2. CASE DeqAdvance(c)
    BY <2>2, BagReturn DEF Bag!Next
  <2>3. CASE DeqLoadHead(c) \/ DeqLoadTail(c) \/ DeqLoadSlot(c) \/ DeqFail(c)
    BY <2>3, BagStutter
       DEF DeqLoadHead, DeqLoadTail, DeqLoadSlot, DeqFail, ReturnFrom, Goto,
           TypeInv, TypeOK, Claimed, Threads
  <2> QED
    BY <1>3, <2>1, <2>2, <2>3 DEF DeqStep
<1>4. ASSUME NEW k \in Clearers, ClearStep(k) PROVE [Bag!Next]_Bag!bagVars
  <2>1. CASE ClearSlot(k) /\ buffer[lhead[k]] # None
    <3> buffer[lhead[k]] \in Items
      BY <2>1 DEF TypeInv, TypeOK, Threads
    <3> QED
      BY <2>1, BagDrop DEF Bag!Next
  <2>2. CASE ClearSlot(k) /\ buffer[lhead[k]] = None
    BY <2>2, BagStutter DEF ClearSlot, TypeInv, TypeOK, Claimed, Threads
  <2>3. CASE ClearLoadHead(k) \/ ClearLoadTail(k) \/ ClearStoreHead(k) \/ ClearStoreTail(k)
    BY <2>3, BagStutter
       DEF ClearLoadHead, ClearLoadTail, ClearStoreHead, ClearStoreTail, ReturnFrom, Goto,
           TypeInv, TypeOK, Claimed, Threads
  <2> QED
    BY <1>4, <2>1, <2>2, <2>3 DEF ClearStep
<1>5. CASE UNCHANGED vars
  BY <1>5, BagStutter DEF Claimed
<1> QED
  BY <1>1, <1>2, <1>3, <1>4, <1>5 DEF Next

\* Whatever the number of producers, consumers and clearing threads and whatever
\* the capacity, the ring implements the multiset: no call of try_enqueue,
\* try_dequeue or clear invents, duplicates or silently drops a task.
THEOREM ImplementsBag == Spec => BagSpec
BY TypeInvariant, BagInit, BagStep, PTL DEF Spec, BagSpec, Bag!Spec

-----------------------------------------------------------------------------
(* One producer and one consumer.  The producer alone writes tail and      *)
(* fills slots, the consumer alone writes head and empties them; each      *)
(* relies on a copy of the other's index that may be old, and is safe      *)
(* because an old head only makes the ring look fuller, an old tail only   *)
(* emptier.                                                                *)

OneEach(p, c) ==
  /\ p # c
  /\ Producers = {p}
  /\ Consumers = {c}
  /\ Clearers = {}

\* The window of the slots that hold a task: a slot is emptied before head_ is
\* stored, and filled before tail_ is.
Start(c) == IF pc[c] = "deq_advance" THEN Wrap(head) ELSE head
End(p) == IF pc[p] = "enq_publish" THEN Wrap(tail) ELSE tail

SlotsMatchWindow(p, c) ==
  \A i \in Slots : buffer[i] # None <=> InWindow(i, Start(c), End(p))

\* The producer's copies: tail is its own, head may have moved towards tail.
ProducerKnows(p) ==
  /\ pc[p] \in EnqSteps => Size(head, tail) <= Size(lhead[p], tail)
  /\ pc[p] \in {"enq_cas", "enq_publish"} =>
       ltail[p] = tail /\ Wrap(tail) # lhead[p]
  /\ pc[p] = "enq_publish" => buffer[tail] = ltask[p]

\* The consumer's copies: head is its own, and once it has seen a task there the
\* ring stays non-empty.
ConsumerKnows(c) ==
  /\ pc[c] \in DeqSteps => lhead[c] = head
  /\ pc[c] \in {"deq_load_slot", "deq_cas", "deq_advance"} => head # tail
  /\ pc[c] = "deq_cas" => buffer[head] = ltask[c]

SpscInv(p, c) ==
  /\ TypeInv
  /\ pc[p] \in {"idle"} \cup EnqSteps
  /\ pc[c] \in {"idle"} \cup DeqSteps
  /\ SlotsMatchWindow(p, c)
  /\ ProducerKnows(p)
  /\ ConsumerKnows(c)

\* While the producer is past its test there are two free slots, so that its
\* slot is not the last one and is not next to the consumer's.
LEMMA RoomLeft ==
  ASSUME NEW p, NEW c, SpscInv(p, c), p \in Threads, c \in Threads,
         pc[p] \in {"enq_cas", "enq_publish"}
  PROVE  Wrap(tail) # head /\ Wrap(tail) # Start(c)
BY CapacityAssumption, SMTT(30)
   DEF SpscInv, ProducerKnows, ConsumerKnows, Start, TypeInv, TypeOK, Slots, Wrap, Size

LEMMA SpscInit ==
  ASSUME NEW p, NEW c, OneEach(p, c)
  PROVE  Init => SpscInv(p, c)
BY TypeInit, CapacityAssumption
   DEF Init, OneEach, SpscInv, SlotsMatchWindow, ProducerKnows, ConsumerKnows, Start, End,
       InWindow, Threads, Slots

LEMMA SpscStep ==
  ASSUME NEW p, NEW c, OneEach(p, c)
  PROVE  SpscInv(p, c) /\ [Next]_vars => SpscInv(p, c)'
<1> SUFFICES ASSUME SpscInv(p, c), [Next]_vars PROVE SpscInv(p, c)'
  OBVIOUS
<1> USE DEF Goto, ReturnFrom
<1>0. TypeInv' /\ p \in Threads /\ c \in Threads /\ p # c /\ TypeInv
  BY TypeStep DEF OneEach, Threads, SpscInv
<1> USE <1>0
<1>1. ASSUME NEW x \in Items, EnqLoadHead(p, x) PROVE SpscInv(p, c)'
  BY <1>1, CapacityAssumption
     DEF EnqLoadHead, SpscInv, SlotsMatchWindow, ProducerKnows, ConsumerKnows, Start, End,
         TypeInv, TypeOK, Slots, Size, InWindow
<1>2. CASE EnqLoadTail(p)
  BY <1>2
     DEF EnqLoadTail, SpscInv, SlotsMatchWindow, ProducerKnows, ConsumerKnows, Start, End,
         TypeInv, TypeOK
<1>3. CASE EnqClaim(p)
  <2>1. Wrap(tail) # head /\ Wrap(tail) # Start(c)
    BY <1>3, RoomLeft DEF EnqClaim
  <2>2. SlotsMatchWindow(p, c)'
    BY <1>3, <2>1, CapacityAssumption, ItemsAssumption
       DEF EnqClaim, SpscInv, SlotsMatchWindow, ProducerKnows, ConsumerKnows, Start, End,
           InWindow, TypeInv, TypeOK, HoldsTask, Slots, Wrap
  <2>3. ProducerKnows(p)'
    BY <1>3 DEF EnqClaim, SpscInv, ProducerKnows, TypeInv, TypeOK
  <2>4. ConsumerKnows(c)'
    BY <1>3, <2>1 DEF EnqClaim, SpscInv, ProducerKnows, ConsumerKnows, TypeInv, TypeOK
  <2> QED
    BY <1>3, <2>2, <2>3, <2>4 DEF EnqClaim, SpscInv, TypeInv, TypeOK
<1>4. CASE EnqFail(p)
  BY <1>4
     DEF EnqFail, SpscInv, SlotsMatchWindow, ProducerKnows, ConsumerKnows, Start, End,
         TypeInv, TypeOK
<1>5. CASE EnqPublish(p)
  <2>1. Wrap(tail) # head /\ Wrap(tail) # Start(c)
    BY <1>5, RoomLeft DEF EnqPublish
  <2>2. tail' = Wrap(tail)
    BY <1>5 DEF EnqPublish, SpscInv, ProducerKnows
  <2>3. SlotsMatchWindow(p, c)'
    BY <1>5, <2>2 DEF EnqPublish, SpscInv, SlotsMatchWindow, Start, End, TypeInv, TypeOK, InWindow
  <2>4. ConsumerKnows(c)'
    BY <1>5, <2>1, <2>2 DEF EnqPublish, SpscInv, ConsumerKnows, TypeInv, TypeOK
  <2> QED
    BY <1>5, <2>3, <2>4 DEF EnqPublish, SpscInv, ProducerKnows, TypeInv, TypeOK
<1>6. CASE DeqLoadHead(c)
  BY <1>6
     DEF DeqLoadHead, SpscInv, SlotsMatchWindow, ProducerKnows, ConsumerKnows, Start, End,
         TypeInv, TypeOK
<1>7. CASE DeqLoadTail(c)
  BY <1>7
     DEF DeqLoadTail, SpscInv, SlotsMatchWindow, ProducerKnows, ConsumerKnows, Start, End,
         TypeInv, TypeOK
<1>8. CASE DeqLoadSlot(c)
  BY <1>8
     DEF DeqLoadSlot, SpscInv, SlotsMatchWindow, ProducerKnows, ConsumerKnows, Start, End,
         TypeInv, TypeOK
<1>9. CASE DeqClaim(c)
  <2>1. /\ lhead[c] = head /\ head # tail
        /\ pc' = [pc EXCEPT ![c] = "deq_advance"]
        /\ buffer' = [buffer EXCEPT ![head] = None]
        /\ UNCHANGED <<head, tail, lhead, ltail, ltask>>
    BY <1>9 DEF DeqClaim, SpscInv, ConsumerKnows
  <2>2. pc[p] = "enq_publish" => Wrap(tail) # head
    BY RoomLeft
  <2>3. SlotsMatchWindow(p, c)'
    BY <1>9, <2>1, <2>2, CapacityAssumption
       DEF DeqClaim, SpscInv, SlotsMatchWindow, Start, End, InWindow, TypeInv, TypeOK, Slots, Wrap
  <2>4. ProducerKnows(p)'
    BY <2>1 DEF SpscInv, ProducerKnows, TypeInv, TypeOK
  <2>5. ConsumerKnows(c)'
    BY <2>1 DEF SpscInv, ConsumerKnows, TypeInv, TypeOK
  <2> QED
    BY <2>1, <2>3, <2>4, <2>5 DEF SpscInv, TypeInv, TypeOK
<1>10. CASE DeqFail(c)
  BY <1>10
     DEF DeqFail, SpscInv, SlotsMatchWindow, ProducerKnows, ConsumerKnows, Start, End,
         TypeInv, TypeOK
<1>11. CASE DeqAdvance(c)
  <2>1. /\ head' = Wrap(head) /\ head # tail
        /\ pc[c] = "deq_advance" /\ pc' = [pc EXCEPT ![c] = "idle"]
        /\ lhead' = [lhead EXCEPT ![c] = 0]
        /\ ltail' = [ltail EXCEPT ![c] = 0]
        /\ ltask' = [ltask EXCEPT ![c] = None]
        /\ UNCHANGED <<buffer, tail>>
    BY <1>11 DEF DeqAdvance, SpscInv, ConsumerKnows
  <2>2. SlotsMatchWindow(p, c)'
    BY <2>1 DEF SpscInv, SlotsMatchWindow, Start, End, TypeInv, TypeOK, InWindow
  <2>3. Size(Wrap(head), tail) <= Size(head, tail)
    BY <2>1, CapacityAssumption DEF TypeInv, TypeOK, Size, Wrap, Slots
  <2>4. pc[p] \in EnqSteps => Size(Wrap(head), tail) <= Size(lhead[p], tail)
    <3>1. /\ Size(Wrap(head), tail) \in Int
          /\ Size(head, tail) \in Int
          /\ Size(lhead[p], tail) \in Int
      <4>1. Wrap(head) \in Slots /\ head \in Slots /\ tail \in Slots /\ lhead[p] \in Slots
        BY WrapInSlots DEF TypeInv, TypeOK
      <4>2. Capacity \in Int /\ \A i \in Slots : i \in Int
        BY CapacityAssumption DEF Slots
      <4> QED
        BY <4>1, <4>2 DEF Size
    <3>2. pc[p] \in EnqSteps => Size(head, tail) <= Size(lhead[p], tail)
      BY DEF SpscInv, ProducerKnows
    <3> HIDE DEF Size
    <3> QED
      BY <2>3, <3>1, <3>2
  <2>5. ProducerKnows(p)'
    BY <2>1, <2>4 DEF SpscInv, ProducerKnows, TypeInv, TypeOK, Size
  <2> QED
    BY <2>1, <2>2, <2>5 DEF SpscInv, ConsumerKnows, TypeInv, TypeOK
<1>12. CASE UNCHANGED vars
  BY <1>12 DEF SpscInv, SlotsMatchWindow, ProducerKnows, ConsumerKnows, Start, End, InWindow
<1> QED
  BY <1>1, <1>2, <1>3, <1>4, <1>5, <1>6, <1>7, <1>8, <1>9, <1>10, <1>11, <1>12
     DEF Next, EnqStep, DeqStep, OneEach

LEMMA SpscInvariant ==
  ASSUME NEW p, NEW c, OneEach(p, c)
  PROVE  Spec => []SpscInv(p, c)
BY SpscInit, SpscStep, PTL DEF Spec

\* With one producer and one consumer, when no call of try_enqueue or
\* try_dequeue is in progress the slots between head_ and tail_ are exactly those
\* that hold a task: none is out of reach and none is missing.
THEOREM SpscStrandsNothing ==
  ASSUME NEW p, NEW c, OneEach(p, c)
  PROVE  Spec => []NoTaskStranded
<1>1. SpscInv(p, c) => NoTaskStranded
  BY DEF SpscInv, SlotsMatchWindow, Start, End, NoTaskStranded, Quiescent, OneEach, Threads
<1> QED
  BY <1>1, SpscInvariant, PTL

\* With one producer and one consumer no compare-and-swap of try_enqueue or
\* try_dequeue can lose to the other thread.
THEOREM SpscClaimsCannotLose ==
  ASSUME NEW p, NEW c, OneEach(p, c)
  PROVE  Spec => []ClaimsCannotLose
<1>1. SpscInv(p, c) => ClaimsCannotLose
  <2> SUFFICES ASSUME SpscInv(p, c) PROVE ClaimsCannotLose
    OBVIOUS
  <2>1. pc[p] = "enq_cas" => buffer[ltail[p]] = None
    BY CapacityAssumption, WrapInSlots
       DEF SpscInv, SlotsMatchWindow, ProducerKnows, Start, End, InWindow, TypeInv, TypeOK,
           OneEach, Threads, Slots
  <2>2. pc[c] = "deq_cas" => buffer[lhead[c]] = ltask[c]
    BY DEF SpscInv, ConsumerKnows
  <2> QED
    BY <2>1, <2>2 DEF SpscInv, ClaimsCannotLose, OneEach, Threads
<1> QED
  BY <1>1, SpscInvariant, PTL

-----------------------------------------------------------------------------
(* The first-in first-out queue                                            *)

\* The slot that is n-th from h, and the tasks from slot h up to slot t
At(h, n) == IF h + n - 1 < Capacity THEN h + n - 1 ELSE h + n - 1 - Capacity
Between(b, h, t) == [n \in 1 .. Size(h, t) |-> b[At(h, n)]]

Contents == Items \cup {None}

LEMMA SizeBounds ==
  \A h, t \in Slots : Size(h, t) \in Nat /\ Size(h, t) < Capacity
BY CapacityAssumption DEF Slots, Size

LEMMA AtInSlots ==
  \A h, t \in Slots : \A n \in 1 .. Size(h, t) :
    At(h, n) \in Slots /\ InWindow(At(h, n), h, t)
BY CapacityAssumption DEF Slots, Size, At, InWindow

LEMMA BetweenIsSeq ==
  ASSUME NEW b \in [Slots -> Contents], NEW h \in Slots, NEW t \in Slots
  PROVE  Between(b, h, t) \in Seq(Contents) /\ Len(Between(b, h, t)) = Size(h, t)
<1>1. Size(h, t) \in Nat
  BY SizeBounds
<1>2. \A n \in 1 .. Size(h, t) : b[At(h, n)] \in Contents
  BY AtInSlots
<1> QED
  BY <1>1, <1>2 DEF Between

\* A slot outside of the window may change.
LEMMA BetweenFrame ==
  ASSUME NEW b \in [Slots -> Contents], NEW h \in Slots, NEW t \in Slots,
         NEW i \in Slots, ~InWindow(i, h, t), NEW x
  PROVE  Between([b EXCEPT ![i] = x], h, t) = Between(b, h, t)
<1>1. \A n \in 1 .. Size(h, t) : [b EXCEPT ![i] = x][At(h, n)] = b[At(h, n)]
  BY AtInSlots
<1> QED
  BY <1>1 DEF Between

LEMMA BetweenAppend ==
  ASSUME NEW b \in [Slots -> Contents], NEW h \in Slots, NEW t \in Slots, Wrap(t) # h
  PROVE  /\ Between(b, h, Wrap(t)) = Append(Between(b, h, t), b[t])
         /\ Size(h, t) < Capacity - 1
<1>1. /\ Size(h, t) \in Nat
      /\ Size(h, Wrap(t)) = Size(h, t) + 1
      /\ Size(h, t) < Capacity - 1
      /\ At(h, Size(h, t) + 1) = t
  BY CapacityAssumption DEF Slots, Size, Wrap, At
<1>2. Between(b, h, t) \in Seq(Contents) /\ Len(Between(b, h, t)) = Size(h, t)
  BY BetweenIsSeq
<1>3. /\ Between(b, h, Wrap(t)) \in Seq(Contents)
      /\ Len(Between(b, h, Wrap(t))) = Size(h, t) + 1
  BY <1>1, BetweenIsSeq, WrapInSlots
<1>4. \A n \in 1 .. (Size(h, t) + 1) :
        Between(b, h, Wrap(t))[n] = Append(Between(b, h, t), b[t])[n]
  <2> TAKE n \in 1 .. (Size(h, t) + 1)
  <2>1. Between(b, h, Wrap(t))[n] = b[At(h, n)]
    BY <1>1 DEF Between
  <2>2. CASE n = Size(h, t) + 1
    <3>1. Append(Between(b, h, t), b[t])[Size(h, t) + 1] = b[t]
      BY <1>1, <1>2
    <3> QED
      BY <1>1, <2>1, <2>2, <3>1
  <2>3. CASE n \in 1 .. Size(h, t)
    <3>1. Append(Between(b, h, t), b[t])[n] = Between(b, h, t)[n]
      BY <1>2, <2>3
    <3>2. Between(b, h, t)[n] = b[At(h, n)]
      BY <2>3 DEF Between
    <3> QED
      BY <2>1, <3>1, <3>2
  <2>4. n = Size(h, t) + 1 \/ n \in 1 .. Size(h, t)
    BY <1>1
  <2> QED
    BY <2>2, <2>3, <2>4, Zenon
<1> QED
  BY <1>1, <1>2, <1>3, <1>4

LEMMA BetweenTail ==
  ASSUME NEW b \in [Slots -> Contents], NEW h \in Slots, NEW t \in Slots, h # t
  PROVE  /\ Between(b, h, t) # << >>
         /\ Head(Between(b, h, t)) = b[h]
         /\ Between(b, Wrap(h), t) = Tail(Between(b, h, t))
<1>1. /\ Size(h, t) \in Nat
      /\ Size(h, t) > 0
      /\ Size(Wrap(h), t) = Size(h, t) - 1
      /\ At(h, 1) = h
      /\ \A n \in 1 .. (Size(h, t) - 1) : At(Wrap(h), n) = At(h, n + 1)
  BY CapacityAssumption DEF Slots, Size, Wrap, At
<1>2. Between(b, h, t) \in Seq(Contents) /\ Len(Between(b, h, t)) = Size(h, t)
  BY BetweenIsSeq
<1>3. /\ Between(b, Wrap(h), t) \in Seq(Contents)
      /\ Len(Between(b, Wrap(h), t)) = Size(h, t) - 1
  BY <1>1, BetweenIsSeq, WrapInSlots
<1>4. Between(b, h, t)[1] = b[h]
  BY <1>1 DEF Between
<1>5. \A n \in 1 .. (Size(h, t) - 1) :
        Between(b, Wrap(h), t)[n] = Tail(Between(b, h, t))[n]
  <2> TAKE n \in 1 .. (Size(h, t) - 1)
  <2>1. Between(b, Wrap(h), t)[n] = b[At(h, n + 1)]
    BY <1>1 DEF Between
  <2>2. Between(b, h, t)[n + 1] = b[At(h, n + 1)]
    BY <1>1 DEF Between
  <2>3. Tail(Between(b, h, t))[n] = Between(b, h, t)[n + 1]
    BY <1>1, <1>2
  <2> QED
    BY <2>1, <2>2, <2>3
<1> QED
  BY <1>1, <1>2, <1>3, <1>4, <1>5

LEMMA WindowIsBetween ==
  ASSUME NEW p, NEW c, OneEach(p, c)
  PROVE  /\ Window = Between(buffer, Start(c), tail)
         /\ Window' = Between(buffer, Start(c), tail)'
<1>1. WindowStart = Start(c) /\ WindowStart' = Start(c)'
  BY DEF WindowStart, Start, OneEach
<1> QED
  BY <1>1 DEF Window, Between, At, Size

LEMMA FifoInit ==
  ASSUME NEW p, NEW c, OneEach(p, c)
  PROVE  Init => Fifo!Init
<1> SUFFICES ASSUME Init PROVE Fifo!Init
  OBVIOUS
<1>1. Taken = [x \in Consumers |-> None]
  BY DEF Init, Taken, Claimed, Threads
<1>2. /\ buffer \in [Slots -> Contents]
      /\ Start(c) = 0 /\ tail = 0 /\ 0 \in Slots
      /\ Size(0, 0) = 0
  BY ZeroInSlots DEF Init, Start, OneEach, Threads, Size, Contents
<1>3. Between(buffer, 0, 0) \in Seq(Contents) /\ Len(Between(buffer, 0, 0)) = 0
  BY <1>2, BetweenIsSeq
<1>4. Window = << >>
  BY <1>2, <1>3, WindowIsBetween
<1> QED
  BY <1>1, <1>4 DEF Fifo!Init

\* A step that leaves the indices, the tasks between them and the claims of the
\* consumer as they are is no step of the queue.
LEMMA FifoStutter ==
  ASSUME NEW p, NEW c, OneEach(p, c),
         Between(buffer, Start(c), tail)' = Between(buffer, Start(c), tail),
         Claimed(c)' = Claimed(c)
  PROVE  [Fifo!Next]_Fifo!fifoVars
<1>1. Window' = Window
  BY WindowIsBetween
<1>2. Taken' = Taken
  BY DEF Taken, OneEach
<1> QED
  BY <1>1, <1>2 DEF Fifo!fifoVars

\* try_enqueue fills a slot outside of the window
LEMMA FifoClaim ==
  ASSUME NEW p, NEW c, OneEach(p, c), SpscInv(p, c), EnqClaim(p)
  PROVE  [Fifo!Next]_Fifo!fifoVars
<1>1. /\ buffer \in [Slots -> Contents]
      /\ tail \in Slots
      /\ Start(c) \in Slots
      /\ buffer' = [buffer EXCEPT ![tail] = ltask[p]]
      /\ tail' = tail
  BY WrapInSlots
     DEF EnqClaim, SpscInv, ProducerKnows, Start, TypeInv, TypeOK, Contents, OneEach, Threads
<1>0. ~InWindow(tail, Start(c), tail)
  <2>1. tail \in Int /\ Start(c) \in Int
    BY <1>1, CapacityAssumption DEF Slots
  <2> QED
    BY <2>1 DEF InWindow
<1>2. Start(c)' = Start(c) /\ Claimed(c)' = Claimed(c)
  BY DEF EnqClaim, Goto, SpscInv, TypeInv, TypeOK, Start, Claimed, OneEach, Threads
<1>3. Between(buffer', Start(c), tail) = Between(buffer, Start(c), tail)
  <2>1. \A x : Between([buffer EXCEPT ![tail] = x], Start(c), tail)
                = Between(buffer, Start(c), tail)
    BY <1>0, <1>1, BetweenFrame
  <2> QED
    BY <1>1, <2>1
<1>4. Between(buffer, Start(c), tail)' = Between(buffer, Start(c), tail)
  BY <1>1, <1>2, <1>3 DEF Between, At, Size
<1> QED
  BY <1>2, <1>4, FifoStutter

\* and takes effect when it stores tail.
LEMMA FifoPut ==
  ASSUME NEW p, NEW c, OneEach(p, c), SpscInv(p, c), EnqPublish(p)
  PROVE  Fifo!Put(ltask[p])
<1>1. /\ buffer \in [Slots -> Contents]
      /\ tail \in Slots
      /\ Start(c) \in Slots
      /\ tail' = Wrap(tail)
      /\ buffer' = buffer
      /\ buffer[tail] = ltask[p]
  BY WrapInSlots
     DEF EnqPublish, SpscInv, ProducerKnows, Start, TypeInv, TypeOK, OneEach, Threads, Contents
<1>2. Start(c)' = Start(c) /\ Claimed(c)' = Claimed(c)
  BY DEF EnqPublish, ReturnFrom, Goto, SpscInv, TypeInv, TypeOK, Start, Claimed, OneEach, Threads
<1>3. Wrap(tail) # Start(c)
  BY RoomLeft DEF EnqPublish, OneEach, Threads
<1>4. /\ Between(buffer, Start(c), Wrap(tail)) = Append(Between(buffer, Start(c), tail), ltask[p])
      /\ Size(Start(c), tail) < Capacity - 1
  BY <1>1, <1>3, BetweenAppend
<1>5. Between(buffer, Start(c), tail)' = Between(buffer, Start(c), Wrap(tail))
  BY <1>1, <1>2 DEF Between, At, Size
<1>6. Window' = Append(Window, ltask[p])
  BY <1>4, <1>5, WindowIsBetween
<1>7. Len(Window) < Capacity - 1
  BY <1>1, <1>4, BetweenIsSeq, WindowIsBetween
<1>8. Taken' = Taken
  BY <1>2 DEF Taken, OneEach
<1> QED
  BY <1>6, <1>7, <1>8 DEF Fifo!Put

\* try_dequeue takes effect when its compare-and-swap succeeds,
LEMMA FifoTake ==
  ASSUME NEW p, NEW c, OneEach(p, c), SpscInv(p, c), DeqClaim(c)
  PROVE  Fifo!Take(c)
<1>1. /\ buffer \in [Slots -> Contents]
      /\ head \in Slots /\ tail \in Slots /\ head # tail
      /\ Start(c) = head
      /\ buffer' = [buffer EXCEPT ![head] = None]
      /\ buffer[head] = ltask[c]
      /\ head' = head /\ tail' = tail /\ ltask' = ltask
      /\ pc[c] = "deq_cas" /\ pc'[c] = "deq_advance"
  BY DEF DeqClaim, Goto, SpscInv, ConsumerKnows, Start, TypeInv, TypeOK, OneEach, Threads, Contents
<1>2. Start(c)' = Wrap(head) /\ Wrap(head) \in Slots
  BY <1>1, WrapInSlots DEF Start, Wrap
<1>3. ~InWindow(head, Wrap(head), tail)
  BY <1>1, CapacityAssumption DEF InWindow, Wrap, Slots
<1>4. Between(buffer', Wrap(head), tail) = Between(buffer, Wrap(head), tail)
  <2> DEFINE h == Wrap(head)
  <2>1. /\ buffer \in [Slots -> Contents]
        /\ h \in Slots /\ tail \in Slots /\ head \in Slots
        /\ ~InWindow(head, h, tail)
    BY <1>1, <1>2, <1>3
  <2> HIDE DEF h
  <2>2. \A x : Between([buffer EXCEPT ![head] = x], h, tail) = Between(buffer, h, tail)
    BY <2>1, BetweenFrame
  <2> QED
    BY <1>1, <2>2 DEF h
<1>5. /\ Between(buffer, head, tail) # << >>
      /\ Head(Between(buffer, head, tail)) = buffer[head]
      /\ Between(buffer, Wrap(head), tail) = Tail(Between(buffer, head, tail))
  BY <1>1, BetweenTail
<1>6. Between(buffer, Start(c), tail)' = Between(buffer', Wrap(head), tail)
  BY <1>1, <1>2 DEF Between, At, Size
<1>7. Window # << >> /\ Head(Window) = ltask[c] /\ Window' = Tail(Window)
  BY <1>1, <1>4, <1>5, <1>6, WindowIsBetween
<1>8. Taken[c] = None /\ Taken' = [Taken EXCEPT ![c] = ltask[c]]
  BY <1>1 DEF Taken, Claimed, OneEach
<1> QED
  BY <1>7, <1>8 DEF Fifo!Take

\* and returns when it has stored head_.
LEMMA FifoReturn ==
  ASSUME NEW p, NEW c, OneEach(p, c), SpscInv(p, c), DeqAdvance(c)
  PROVE  Fifo!Return(c)
<1>1. /\ Start(c)' = Start(c)
      /\ buffer' = buffer /\ tail' = tail
  BY DEF DeqAdvance, ReturnFrom, Goto, SpscInv, ConsumerKnows, Start, TypeInv, TypeOK,
         OneEach, Threads
<1>2. /\ ltask[c] \in Items /\ pc[c] = "deq_advance"
      /\ pc'[c] = "idle"
  BY DEF DeqAdvance, ReturnFrom, Goto, SpscInv, TypeInv, TypeOK, HoldsTask, OneEach, Threads
<1>3. Between(buffer, Start(c), tail)' = Between(buffer, Start(c), tail)
  BY <1>1 DEF Between, At, Size
<1>4. Window' = Window
  BY <1>3, WindowIsBetween
<1>5. Taken[c] # None /\ Taken' = [Taken EXCEPT ![c] = None]
  BY <1>2, ItemsAssumption DEF Taken, Claimed, OneEach
<1> QED
  BY <1>4, <1>5 DEF Fifo!Return

LEMMA FifoStep ==
  ASSUME NEW p, NEW c, OneEach(p, c)
  PROVE  SpscInv(p, c) /\ [Next]_vars => [Fifo!Next]_Fifo!fifoVars
<1> SUFFICES ASSUME SpscInv(p, c), [Next]_vars PROVE [Fifo!Next]_Fifo!fifoVars
  OBVIOUS
<1>0. p \in Threads /\ c \in Threads /\ c \in Consumers /\ TypeInv
  BY DEF OneEach, Threads, SpscInv
<1>1. ASSUME NEW x \in Items, EnqLoadHead(p, x) PROVE [Fifo!Next]_Fifo!fifoVars
  <2> Claimed(c)' = Claimed(c) /\ Between(buffer, Start(c), tail)' = Between(buffer, Start(c), tail)
    BY <1>0, <1>1 DEF EnqLoadHead, Goto, TypeInv, TypeOK, Claimed, OneEach, Between, Start, At, Size
  <2> QED
    BY FifoStutter
<1>2. CASE EnqLoadTail(p) \/ EnqFail(p)
  <2> Claimed(c)' = Claimed(c) /\ Between(buffer, Start(c), tail)' = Between(buffer, Start(c), tail)
    BY <1>0, <1>2 DEF EnqLoadTail, EnqFail, ReturnFrom, Goto, TypeInv, TypeOK, Claimed, OneEach,
                     Between, Start, At, Size
  <2> QED
    BY FifoStutter
<1>3. CASE EnqClaim(p)
  BY <1>3, FifoClaim
<1>4. CASE EnqPublish(p)
  <2> ltask[p] \in Items
    BY <1>0, <1>4 DEF EnqPublish, TypeInv, HoldsTask
  <2> QED
    BY <1>4, FifoPut DEF Fifo!Next
<1>5. CASE DeqLoadHead(c) \/ DeqLoadTail(c) \/ DeqLoadSlot(c) \/ DeqFail(c)
  <2> Claimed(c)' = Claimed(c) /\ Between(buffer, Start(c), tail)' = Between(buffer, Start(c), tail)
    BY <1>0, <1>5 DEF DeqLoadHead, DeqLoadTail, DeqLoadSlot, DeqFail, ReturnFrom, Goto, TypeInv, TypeOK,
                     Claimed, Between, Start, At, Size
  <2> QED
    BY FifoStutter
<1>6. CASE DeqClaim(c)
  BY <1>0, <1>6, FifoTake DEF Fifo!Next
<1>7. CASE DeqAdvance(c)
  BY <1>0, <1>7, FifoReturn DEF Fifo!Next
<1>8. CASE UNCHANGED vars
  <2> Claimed(c)' = Claimed(c) /\ Between(buffer, Start(c), tail)' = Between(buffer, Start(c), tail)
    BY <1>8 DEF Claimed, Between, Start, At, Size
  <2> QED
    BY FifoStutter
<1> QED
  BY <1>1, <1>2, <1>3, <1>4, <1>5, <1>6, <1>7, <1>8 DEF Next, EnqStep, DeqStep, OneEach

\* With one producer and one consumer the ring implements the bounded first-in
\* first-out queue of capacity - 1 tasks, for any capacity.
THEOREM SpscImplementsFifo ==
  ASSUME NEW p, NEW c, OneEach(p, c)
  PROVE  Spec => FifoSpec
BY SpscInvariant, FifoInit, FifoStep, PTL DEF Spec, FifoSpec, Fifo!Spec


=============================================================================
