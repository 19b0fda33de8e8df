------------------------ MODULE TaskSchedulerProofs ------------------------
(***************************************************************************)
(* What TaskScheduler's safety properties rest on, for any tasks, delays,  *)
(* intervals and horizon.  The vector's capacity plays no part: an entry   *)
(* that a dangling reference has been made into is still in the heap.      *)
(***************************************************************************)
EXTENDS TaskScheduler, TLAPS

\* The types the argument needs
TypeInv ==
  /\ now \in Nat
  /\ looked \in Nat
  /\ issued \subseteq Ids
  /\ scheduled_tasks \subseteq Entries
  /\ current \subseteq Entries
  /\ last \in [Ids -> Nat \cup {Never}]
  /\ previous \in [Ids -> Nat \cup {Never}]
  /\ cancelled \subseteq issued

\* The thread has an entry in its hands from LookDue to the end of the round.
CurrentInv ==
  /\ pc \in {"submit", "reschedule"} => \E e \in Entries : current = {e}
  /\ pc \in {"none", "loop", "look", "done"} => current = {}
  /\ pc \in {"empty_block", "empty_wait", "empty_woken"} => current = {}
  /\ pc \in {"timed_block", "timed_wait", "timed_woken"} => current = {}

\* Between stop's return and the next start there is no thread.
OwnerInv == owner = "idle" /\ ~running => pc = "none"

\* An id that has not been given out has left no trace.
FreshInv ==
  /\ \A e \in scheduled_tasks \cup current : e.id \in issued
  /\ \A id \in Ids \ issued : last[id] = Never /\ previous[id] = Never

\* A submission is in the past.
PastInv == \A id \in Ids : last[id] <= now

\* An entry in the heap is due no sooner than its interval after the submission
\* before the last one, and one that runs once has not been submitted.
HeapInv ==
  \A e \in scheduled_tasks :
    /\ last[e.id] # Never => Interval[e.id] > 0
    /\ previous[e.id] # Never => e.time >= previous[e.id] + Interval[e.id]

\* The entry in the thread's hands: before the submission it was due at the time the
\* thread read from the clock, which it did after the submission before; after it
\* that one is the submission before the last.
HandInv ==
  \A e \in current :
    /\ pc = "submit" =>
         /\ last[e.id] <= looked /\ looked <= now
         /\ last[e.id] # Never => Interval[e.id] > 0
         /\ previous[e.id] # Never => looked >= previous[e.id] + Interval[e.id]
    /\ pc = "reschedule" => Interval[e.id] > 0 /\ previous[e.id] <= looked

IInv ==
  /\ TypeInv /\ CurrentInv /\ OwnerInv /\ FreshInv
  /\ PastInv /\ HeapInv /\ HandInv
  /\ OnePlace /\ CancelIsFinal

\* The initial states satisfy the invariant.
LEMMA InitIInv == Init => IInv
  BY HorizonAssumption
  DEF Init, IInv, TypeInv, CurrentInv, OwnerInv, FreshInv, PastInv, HeapInv, HandInv, OnePlace,
      CancelIsFinal, Never

\* A client adds an entry with an id that is new: nothing else has it.
LEMMA AddKeepsIInv ==
  ASSUME IInv, NEW id \in Ids \ issued, NEW time \in Nat,
         issued' = issued \cup {id},
         scheduled_tasks' = scheduled_tasks \cup {[id |-> id, time |-> time]},
         pc' = Notified,
         UNCHANGED <<now, looked, current, last, previous, cancelled, running, owner>>
  PROVE  IInv'
<1> DEFINE entry == [id |-> id, time |-> time]
<1>0. /\ entry \in Entries /\ entry.id = id /\ entry.time = time
      /\ \A e \in scheduled_tasks \cup current : e.id # id
      /\ last[id] = Never /\ previous[id] = Never
  BY DEF IInv, FreshInv, Entries
<1>1. TypeInv'
  BY <1>0 DEF IInv, TypeInv
<1>2. CurrentInv' /\ OwnerInv'
  BY DEF IInv, CurrentInv, OwnerInv, Notified
<1>3. FreshInv'
  BY <1>0 DEF IInv, FreshInv
<1>4. PastInv' /\ HandInv'
  BY DEF IInv, PastInv, HandInv, Notified
<1>5. OnePlace'
  BY <1>0 DEF IInv, OnePlace
<1>6. CancelIsFinal'
  BY <1>0 DEF IInv, CancelIsFinal, TypeInv
<1>7. HeapInv'
  BY <1>0 DEF IInv, HeapInv
<1> QED
  BY <1>1, <1>2, <1>3, <1>4, <1>5, <1>6, <1>7 DEF IInv

\* The clients' calls preserve the invariant: cancel only takes entries away, and
\* it returns true for an id that is in the heap and therefore nowhere else.
LEMMA ClientIInv == IInv /\ ClientStep => IInv'
<1> SUFFICES ASSUME IInv, NEW id \in Ids,
                    \/ \E delay \in Delays : ScheduleAt(id, delay)
                    \/ SchedulePeriodic(id)
                    \/ Cancel(id)
             PROVE  IInv'
  BY DEF ClientStep
<1>1. ASSUME NEW delay \in Delays, ScheduleAt(id, delay) PROVE IInv'
  <2>1. now + delay \in Nat
    BY DelaysAssumption DEF IInv, TypeInv
  <2> QED
    BY <1>1, <2>1, AddKeepsIInv DEF ScheduleAt, Push, timeVars, flagVars
<1>2. CASE SchedulePeriodic(id)
  <2>1. now + Interval[id] \in Nat
    BY IntervalAssumption DEF IInv, TypeInv
  <2> QED
    BY <1>2, <2>1, AddKeepsIInv DEF SchedulePeriodic, Push, timeVars, flagVars
<1>3. CASE Cancel(id)
  <2> USE <1>3 DEF Cancel, timeVars, flagVars
  <2>1. TypeInv' /\ CurrentInv' /\ OwnerInv' /\ FreshInv' /\ PastInv' /\ HandInv'
    BY DEF IInv, TypeInv, CurrentInv, OwnerInv, FreshInv, PastInv, HandInv
  <2>2. OnePlace' /\ HeapInv'
    BY DEF IInv, OnePlace, HeapInv
  <2>3. CancelIsFinal'
    BY DEF IInv, OnePlace, CancelIsFinal
  <2> QED
    BY <2>1, <2>2, <2>3 DEF IInv
<1> QED
  BY <1>1, <1>2, <1>3

\* The steps of the thread, of its owner and of the clock preserve the invariant:
\* an entry is moved from the heap to the thread's hands, submitted, and dropped
\* or put back with a later time.
LEMMA ThreadIInv == IInv /\ (SchedulerStep \/ OwnerStep \/ Tick) => IInv'
<1> SUFFICES ASSUME IInv, SchedulerStep \/ OwnerStep \/ Tick PROVE IInv'
  OBVIOUS
<1>1. CASE \E e \in scheduled_tasks : LookDue(e)
  <2>1. PICK e \in scheduled_tasks : LookDue(e)
    BY <1>1
  <2> USE <2>1 DEF LookDue, heapVars, flagVars, historyVars
  <2>2. current = {} /\ current' = {e} /\ e \in Entries
    BY DEF IInv, CurrentInv, TypeInv
  <2>3. TypeInv' /\ CurrentInv' /\ OwnerInv' /\ FreshInv'
    BY <2>2 DEF IInv, TypeInv, CurrentInv, OwnerInv, FreshInv
  <2>4. PastInv' /\ HeapInv'
    BY <2>2 DEF IInv, PastInv, HeapInv
  <2>5. HandInv'
    <3>1. e.id \in Ids /\ looked' = now /\ now' = now /\ e.time \in Nat /\ e.time <= now
      BY <2>2 DEF Entries
    <3>2. last[e.id] <= now /\ (last[e.id] # Never => Interval[e.id] > 0)
      BY <3>1 DEF IInv, PastInv, HeapInv
    <3>3. previous[e.id] # Never => now >= previous[e.id] + Interval[e.id]
      <4>1. previous[e.id] # Never => e.time >= previous[e.id] + Interval[e.id]
        BY DEF IInv, HeapInv
      <4>2. previous[e.id] \in Nat \cup {Never} /\ Interval[e.id] \in Nat /\ now \in Nat
        BY <3>1, IntervalAssumption DEF IInv, TypeInv
      <4> QED
        BY <3>1, <4>1, <4>2
    <3> QED
      BY <2>2, <3>1, <3>2, <3>3 DEF HandInv, IInv, TypeInv
  <2>6. OnePlace' /\ CancelIsFinal'
    BY <2>2 DEF IInv, OnePlace, CancelIsFinal
  <2> QED
    BY <2>3, <2>4, <2>5, <2>6 DEF IInv
<1>2. CASE Submit
  <2>1. PICK e \in current :
          /\ last' = [last EXCEPT ![e.id] = now]
          /\ previous' = [previous EXCEPT ![e.id] = last[e.id]]
          /\ IF Interval[e.id] > 0
               THEN pc' = "reschedule" /\ UNCHANGED <<current, looked>>
               ELSE pc' = "loop" /\ current' = {} /\ looked' = 0
    BY <1>2 DEF Submit
  <2> USE <1>2, <2>1 DEF Submit, heapVars, flagVars
  <2>2. current = {e} /\ e \in Entries /\ e.id \in Ids /\ e.id \in issued
        /\ \A f \in scheduled_tasks : f.id # e.id
    BY DEF IInv, CurrentInv, TypeInv, FreshInv, OnePlace, Entries
  <2>3. TypeInv' /\ CurrentInv' /\ OwnerInv' /\ FreshInv'
    BY <2>2 DEF IInv, TypeInv, CurrentInv, OwnerInv, FreshInv
  <2>4. HandInv' /\ PastInv'
    BY <2>2 DEF IInv, HandInv, PastInv, TypeInv
  <2>5. OnePlace' /\ CancelIsFinal'
    BY <2>2 DEF IInv, OnePlace, CancelIsFinal
  <2>6. HeapInv'
    BY <2>2 DEF IInv, HeapInv, TypeInv, Entries
  <2> QED
    BY <2>3, <2>4, <2>5, <2>6 DEF IInv
<1>3. CASE Reschedule
  <2>1. PICK e \in current : Push(e.id, looked + Interval[e.id])
    BY <1>3 DEF Reschedule
  <2> USE <1>3, <2>1 DEF Reschedule, Push, flagVars
  <2> DEFINE entry == [id |-> e.id, time |-> looked + Interval[e.id]]
  <2>2. /\ current = {e} /\ e.id \in Ids /\ e.id \in issued /\ e.id \notin cancelled
        /\ \A f \in scheduled_tasks : f.id # e.id
        /\ Interval[e.id] > 0 /\ previous[e.id] <= looked
    BY DEF IInv, CurrentInv, TypeInv, FreshInv, OnePlace, Entries, CancelIsFinal, HandInv
  <2>3. entry \in Entries /\ entry.id = e.id /\ entry.time = looked + Interval[e.id]
    BY <2>2, IntervalAssumption DEF Entries, IInv, TypeInv
  <2>4. scheduled_tasks' = scheduled_tasks \cup {entry} /\ current' = {}
    OBVIOUS
  <2>5. TypeInv' /\ CurrentInv' /\ OwnerInv' /\ FreshInv' /\ PastInv' /\ HandInv'
    BY <2>2, <2>3, <2>4 DEF IInv, TypeInv, CurrentInv, OwnerInv, FreshInv, PastInv, HandInv
  <2>6. OnePlace' /\ CancelIsFinal'
    BY <2>2, <2>3, <2>4 DEF IInv, OnePlace, CancelIsFinal
  <2>7. HeapInv'
    BY <2>2, <2>3, <2>4, IntervalAssumption DEF IInv, HeapInv, TypeInv
  <2> QED
    BY <2>5, <2>6, <2>7 DEF IInv
<1>4. ASSUME \/ Loop \/ LookEmpty \/ (\E e \in scheduled_tasks : LookLater(e))
             \/ SubmitThrows \/ Block \/ EmptyWoken \/ Timeout \/ TimedWoken
      PROVE  IInv'
  <2>1. UNCHANGED <<now, looked, heapVars, current, historyVars>>
    BY <1>4 DEF Loop, LookEmpty, LookLater, SubmitThrows, Block, EmptyWoken, Timeout,
                TimedWoken, timeVars
  <2>2. pc' \notin {"submit", "reschedule"} /\ CurrentInv' /\ OwnerInv'
    BY <1>4, <2>1
    DEF IInv, CurrentInv, OwnerInv, flagVars, Loop, LookEmpty, LookLater, SubmitThrows, Block, HoldsMutex,
        EmptyWoken, Timeout, TimedWoken
  <2> QED
    BY <2>1, <2>2
    DEF IInv, TypeInv, FreshInv, PastInv, HeapInv, HandInv, OnePlace, CancelIsFinal,
        heapVars, historyVars
<1>5. ASSUME OwnerStep \/ Tick PROVE IInv'
  <2>1. UNCHANGED <<looked, heapVars, current, last, previous, cancelled>>
    BY <1>5 DEF OwnerStep, Start, Stop, StopNotify, Join, Tick, timeVars, historyVars
  <2>2. now' \in Nat /\ now <= now' /\ PastInv'
    BY <1>5 DEF OwnerStep, Start, Stop, StopNotify, Join, Tick, timeVars, IInv, TypeInv, PastInv,
           historyVars, Never
  <2>3. CurrentInv' /\ OwnerInv'
    BY <1>5, <2>1
    DEF OwnerStep, Start, Stop, StopNotify, Join, Tick, Notified, flagVars, IInv,
        CurrentInv, OwnerInv
  <2>4. pc' \in {"submit", "reschedule"} => pc' = pc
    BY <1>5 DEF OwnerStep, Start, Stop, StopNotify, Join, Tick, Notified
  <2>5. HandInv'
    BY <2>1, <2>2, <2>4 DEF HandInv, IInv, TypeInv
  <2> QED
    BY <2>1, <2>2, <2>3, <2>5
    DEF IInv, TypeInv, FreshInv, OnePlace, CancelIsFinal, HeapInv, heapVars
<1> QED
  BY <1>1, <1>2, <1>3, <1>4, <1>5 DEF SchedulerStep

\* The invariant holds in every reachable state.
THEOREM Invariance == Spec => []IInv
<1>1. IInv /\ [Next]_vars => IInv'
  <2>1. IInv /\ UNCHANGED vars => IInv'
    BY DEF vars, timeVars, heapVars, flagVars, historyVars, IInv, TypeInv, CurrentInv,
           OwnerInv, FreshInv, PastInv, HeapInv, HandInv, OnePlace, CancelIsFinal
  <2> QED
    BY <2>1, ClientIInv, ThreadIInv DEF Next
<1> QED
  BY <1>1, InitIInv, PTL DEF Spec

\* A scheduled task is in the heap once or in the thread's hands, never in both:
\* scheduler_loop pops before it lets go of the mutex.
THEOREM StaysInOnePlace == Spec => []OnePlace
  BY Invariance, PTL DEF IInv

\* A task that cancel has reported as cancelled is never submitted afterwards, for
\* any number of tasks and calls.
THEOREM CancelledForGood == Spec => []CancelIsFinal
  BY Invariance, PTL DEF IInv

\* One-time tasks run once, and no periodic task is submitted three times within its
\* interval, for all intervals and delays, wherever the clock goes on and however
\* long submit() blocks: what scheduler_loop adds the interval to was read from the
\* clock after the submission before.
THEOREM KeepsIntervals == Spec => NoBursts
<1> DEFINE Spaced ==
      Submit => \A e \in current :
        /\ last[e.id] # Never => Interval[e.id] > 0
        /\ previous[e.id] # Never => now >= previous[e.id] + Interval[e.id]
<1>1. IInv => Spaced
  <2> SUFFICES ASSUME IInv, Submit, NEW e \in current PROVE
        /\ last[e.id] # Never => Interval[e.id] > 0
        /\ previous[e.id] # Never => now >= previous[e.id] + Interval[e.id]
    OBVIOUS
  <2>1. e.id \in Ids /\ pc = "submit"
    BY DEF Submit, IInv, TypeInv, Entries
  <2>2. /\ previous[e.id] \in Nat \cup {Never} /\ Interval[e.id] \in Nat
        /\ now \in Nat /\ looked \in Nat
    BY <2>1, IntervalAssumption DEF IInv, TypeInv
  <2>3. /\ looked <= now /\ (last[e.id] # Never => Interval[e.id] > 0)
        /\ previous[e.id] # Never => looked >= previous[e.id] + Interval[e.id]
    BY <2>1 DEF IInv, HandInv
  <2> QED
    BY <2>2, <2>3
<1>2. NoBursts <=> [][Spaced]_vars
  BY DEF NoBursts
<1> QED
  BY <1>1, <1>2, Invariance, PTL

=============================================================================
