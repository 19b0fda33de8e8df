--------------------------- MODULE TaskScheduler ---------------------------
(***************************************************************************)
(* TaskScheduler (task_scheduler.hpp): a heap of tasks ordered by the time *)
(* they are due, filled by clients, and a thread that submits each of them *)
(* to a TaskExecutor when it is due and puts the periodic ones back.       *)
(*                                                                         *)
(* schedule_at, schedule_periodic and cancel do all they do under mutex_,  *)
(* so each is one action; the thread's round is cut where it does not hold *)
(* the mutex, and between its last test of running_ and its sleep, where   *)
(* stop(), which does not take the mutex, may come in.  Time is discrete.  *)
(***************************************************************************)
EXTENDS Integers, FiniteSets

CONSTANTS
  Ids,          \* the ids next_id_ gives out
  Interval,     \* the interval of each task, 0 for a task that runs once
  Delays,       \* how far ahead of the clock the one-time tasks are scheduled
  Horizon       \* bound: the last value of the clock

ASSUME IntervalAssumption == Interval \in [Ids -> Nat]
ASSUME DelaysAssumption == Delays \subseteq Nat
ASSUME HorizonAssumption == Horizon \in Nat

VARIABLES
  now,               \* steady_clock::now()
  issued,            \* the ids next_id_ has given out
  scheduled_tasks,   \* the heap: a set of entries [id, time]
  capacity,          \* of the vector that holds the heap
  running,           \* running_
  pc,                \* where the scheduler thread is
  current,           \* the entries the thread has popped and not done with
  looked,            \* the thread's local variable now, 0 when out of use
  deadline,          \* the time the thread's wait_until ends at, 0 likewise
  stale,             \* the vector next_task refers into has been freed
  owner              \* where the thread that calls start and stop is

\* Variables that only the properties read
VARIABLES
  last,        \* the clock when a task was last submitted, or Never
  previous,    \* the clock at the submission before that one, or Never
  cancelled,   \* ids for which cancel has returned true
  torn,        \* stale has been TRUE
  missed       \* stop's notification fell between the last test and the sleep

timeVars == <<now, looked, deadline>>
heapVars == <<issued, scheduled_tasks, capacity>>
flagVars == <<running, owner>>
historyVars == <<last, previous, cancelled, torn, missed>>
vars == <<timeVars, heapVars, pc, current, stale, flagVars, historyVars>>

Never == -1
Beyond == Horizon + 1   \* stands for any time after Horizon
Entries == [id : Ids, time : Nat]

Top(e) == e \in scheduled_tasks /\ \A f \in scheduled_tasks : e.time <= f.time

HoldsMutex == pc \in {"empty_block", "timed_block"}
UsesReference == pc \in {"timed_block", "timed_wait", "timed_woken"}

TypeOK ==
  /\ now \in 0 .. Horizon
  /\ issued \subseteq Ids
  /\ scheduled_tasks \subseteq Entries
  /\ capacity \in Nat
  /\ running \in BOOLEAN
  /\ pc \in {"none", "loop", "look", "submit", "reschedule", "empty_block",
             "empty_wait", "empty_woken", "timed_block", "timed_wait", "timed_woken",
             "done", "terminated"}
  /\ current \subseteq Entries
  /\ looked \in 0 .. Horizon
  /\ deadline \in Nat
  /\ stale \in BOOLEAN
  /\ owner \in {"idle", "notify", "join"}
  /\ last \in [Ids -> Nat \cup {Never}]
  /\ previous \in [Ids -> Nat \cup {Never}]
  /\ cancelled \subseteq Ids
  /\ torn \in BOOLEAN
  /\ missed \in BOOLEAN

Init ==
  /\ now = 0 /\ looked = 0 /\ deadline = 0
  /\ issued = {} /\ scheduled_tasks = {} /\ capacity = 0
  /\ running = FALSE /\ owner = "idle"
  /\ pc = "none" /\ current = {} /\ stale = FALSE
  /\ last = [i \in Ids |-> Never] /\ previous = last /\ cancelled = {}
  /\ torn = FALSE /\ missed = FALSE

-----------------------------------------------------------------------------
(* The heap and the condition variable                                     *)

\* The capacity of a vector of capacity c that has grown to n elements one by
\* one: it doubles.
Grown(c, n) ==
  IF n <= c THEN c
  ELSE LET doublings == {2 ^ k : k \in 0 .. n}
       IN  CHOOSE d \in doublings : d >= n /\ \A other \in doublings : other >= n => d <= other

\* The vector is replaced: a reference into it that is still in use dangles.
Replace == stale' = (stale \/ UsesReference) /\ torn' = (torn \/ UsesReference)

Push(id, time) ==
  LET heap == scheduled_tasks \cup {[id |-> id, time |-> time]}
  IN  /\ scheduled_tasks' = heap
      /\ capacity' = Grown(capacity, Cardinality(heap))
      /\ IF Cardinality(heap) > capacity THEN Replace ELSE UNCHANGED <<stale, torn>>

\* The scheduler thread is the only one that waits.
Notified ==
  IF pc = "empty_wait" THEN "empty_woken" ELSE IF pc = "timed_wait" THEN "timed_woken" ELSE pc

-----------------------------------------------------------------------------
(* Clients                                                                 *)


\* schedule_at and schedule_after
ScheduleAt(id, delay) ==
  /\ ~HoldsMutex
  /\ id \in Ids \ issued
  /\ Interval[id] = 0
  /\ issued' = issued \cup {id}
  /\ Push(id, now + delay)
  /\ pc' = Notified
  /\ UNCHANGED <<timeVars, flagVars, current, last, previous, cancelled, missed>>

SchedulePeriodic(id) ==
  /\ ~HoldsMutex
  /\ id \in Ids \ issued
  /\ Interval[id] > 0
  /\ issued' = issued \cup {id}
  /\ Push(id, now + Interval[id])
  /\ pc' = Notified
  /\ UNCHANGED <<timeVars, flagVars, current, last, previous, cancelled, missed>>

\* The heap is rebuilt without id, found or not, in a new vector.
Cancel(id) ==
  /\ ~HoldsMutex
  /\ id \in issued
  /\ scheduled_tasks' = {e \in scheduled_tasks : e.id # id}
  /\ capacity' = Grown(0, Cardinality(scheduled_tasks'))
  /\ Replace
  /\ cancelled' = IF \E e \in scheduled_tasks : e.id = id THEN cancelled \cup {id} ELSE cancelled
  /\ UNCHANGED <<timeVars, flagVars, issued, pc, current, last, previous, missed>>

-----------------------------------------------------------------------------
(* scheduler_loop                                                          *)

Loop ==
  /\ pc = "loop"
  /\ pc' = IF running THEN "look" ELSE "done"
  /\ UNCHANGED <<timeVars, heapVars, flagVars, current, stale, historyVars>>

\* Nothing to do: the first test of the first wait's predicate follows at once.
LookEmpty ==
  /\ pc = "look"
  /\ scheduled_tasks = {}
  /\ pc' = IF running THEN "empty_block" ELSE "loop"
  /\ UNCHANGED <<timeVars, heapVars, flagVars, current, stale, historyVars>>

\* Mutant: the entry is taken off the heap only when it is put back.
LookDueKeeping(e) ==
  /\ pc = "look"
  /\ Top(e)
  /\ e.time <= now
  /\ looked' = now
  /\ current' = {e}
  /\ pc' = "submit"
  /\ UNCHANGED <<now, deadline, heapVars, flagVars, stale, historyVars>>

\* The task that is due first is due now.
LookDue(e) ==
  /\ pc = "look"
  /\ Top(e)
  /\ e.time <= now
  /\ looked' = now
  /\ scheduled_tasks' = scheduled_tasks \ {e}
  /\ current' = {e}
  /\ pc' = "submit"
  /\ UNCHANGED <<now, deadline, issued, capacity, flagVars, stale, historyVars>>

\* It is due later: next_task stays a reference to the heap's first element, and
\* the first test of the second wait's predicate follows at once.
LookLater(e) ==
  /\ pc = "look"
  /\ Top(e)
  /\ e.time > now
  /\ IF running
       THEN pc' = "timed_block" /\ deadline' = e.time
       ELSE pc' = "loop" /\ UNCHANGED deadline
  /\ UNCHANGED <<now, looked, heapVars, flagVars, current, stale, historyVars>>

\* The executor's submit throws when its pool has been shut down by then, and
\* nothing catches the exception.
SubmitThrows ==
  /\ pc = "submit"
  /\ pc' = "terminated"
  /\ UNCHANGED <<timeVars, heapVars, flagVars, current, stale, historyVars>>

\* submit() has taken the task, perhaps after waiting for room: the clock may have
\* gone on since the thread read it.
Submit ==
  /\ pc = "submit"
  /\ \E e \in current :
       /\ last' = [last EXCEPT ![e.id] = now]
       /\ previous' = [previous EXCEPT ![e.id] = last[e.id]]
       /\ IF Interval[e.id] > 0
            THEN pc' = "reschedule" /\ UNCHANGED <<current, looked>>
            ELSE pc' = "loop" /\ current' = {} /\ looked' = 0
  /\ UNCHANGED <<now, deadline, heapVars, flagVars, stale, cancelled, torn, missed>>

\* Mutant: the next time is counted from the time the task was due.
RescheduleFromDue ==
  /\ pc = "reschedule"
  /\ \E e \in current : Push(e.id, e.time + Interval[e.id])
  /\ current' = {}
  /\ looked' = 0
  /\ pc' = "loop"
  /\ UNCHANGED <<now, deadline, flagVars, issued, last, previous, cancelled, missed>>

Reschedule ==
  /\ pc = "reschedule"
  /\ \E e \in current : Push(e.id, looked + Interval[e.id])
  /\ current' = {}
  /\ looked' = 0
  /\ pc' = "loop"
  /\ UNCHANGED <<now, deadline, flagVars, issued, last, previous, cancelled, missed>>

\* The sleep: mutex_ is free again.
Block ==
  /\ HoldsMutex
  /\ pc' = IF pc = "empty_block" THEN "empty_wait" ELSE "timed_wait"
  /\ UNCHANGED <<timeVars, heapVars, flagVars, current, stale, historyVars>>

\* Mutant: the predicate of the first wait does not look at running_.
EmptyWokenDeaf ==
  /\ pc = "empty_woken"
  /\ pc' = IF scheduled_tasks = {} THEN "empty_block" ELSE "loop"
  /\ UNCHANGED <<timeVars, heapVars, flagVars, current, stale, historyVars>>

EmptyWoken ==
  /\ pc = "empty_woken"
  /\ pc' = IF running /\ scheduled_tasks = {} THEN "empty_block" ELSE "loop"
  /\ UNCHANGED <<timeVars, heapVars, flagVars, current, stale, historyVars>>

Timeout ==
  /\ pc = "timed_wait"
  /\ now >= deadline
  /\ pc' = "timed_woken"
  /\ UNCHANGED <<timeVars, heapVars, flagVars, current, stale, historyVars>>

\* What a read of next_task.scheduled_time returns: anything when it dangles.
ReadTime == IF stale THEN 0 .. Beyond ELSE {e.time : e \in {f \in scheduled_tasks : Top(f)}}

\* wait_until compares the clock with the time again and takes an earlier clock
\* for a notification, after which it goes on waiting if the scheduler runs.
TimedWoken ==
  /\ pc = "timed_woken"
  /\ \/ /\ (\E time \in ReadTime : now >= time) \/ ~running
        /\ pc' = "loop"
        /\ stale' = FALSE
        /\ deadline' = 0
     \/ /\ \E time \in ReadTime : now < time
        /\ running
        /\ deadline' \in ReadTime
        /\ pc' = "timed_block"
        /\ UNCHANGED stale
  /\ UNCHANGED <<now, looked, heapVars, flagVars, current, historyVars>>

-----------------------------------------------------------------------------
(* start and stop, called by one thread; the clock                         *)

Start ==
  /\ owner = "idle"
  /\ ~running
  /\ running' = TRUE
  /\ pc' = "loop"
  /\ UNCHANGED <<timeVars, heapVars, current, stale, owner, historyVars>>

Stop ==
  /\ owner = "idle"
  /\ running
  /\ running' = FALSE
  /\ owner' = "notify"
  /\ UNCHANGED <<timeVars, heapVars, pc, current, stale, historyVars>>

\* notify_all, without the mutex
StopNotify ==
  /\ owner = "notify"
  /\ owner' = "join"
  /\ pc' = Notified
  /\ missed' = (missed \/ HoldsMutex)
  /\ UNCHANGED <<timeVars, heapVars, current, stale, running, last, previous, cancelled, torn>>

Join ==
  /\ owner = "join"
  /\ pc = "done"
  /\ pc' = "none"
  /\ owner' = "idle"
  /\ UNCHANGED <<timeVars, heapVars, current, stale, running, historyVars>>

Tick ==
  /\ now < Horizon
  /\ now' = now + 1
  /\ UNCHANGED <<looked, deadline, heapVars, pc, current, stale, flagVars, historyVars>>

-----------------------------------------------------------------------------
ClientStep ==
  \E id \in Ids :
    \/ \E delay \in Delays : ScheduleAt(id, delay)
    \/ SchedulePeriodic(id)
    \/ Cancel(id)

SchedulerStep ==
  \/ Loop \/ LookEmpty
  \/ \E e \in scheduled_tasks : LookDue(e) \/ LookLater(e)
  \/ SubmitThrows \/ Submit \/ Reschedule \/ Block \/ EmptyWoken \/ Timeout \/ TimedWoken

OwnerStep == Start \/ Stop \/ StopNotify \/ Join

Next == pc # "terminated" /\ (ClientStep \/ SchedulerStep \/ OwnerStep \/ Tick)

Spec == Init /\ [][Next]_vars

\* The thread runs, time passes, and a call of stop goes on.  Nobody has to
\* schedule, cancel, start or stop.
FairSpec ==
  /\ Spec
  /\ WF_vars(SchedulerStep)
  /\ WF_vars(Tick)
  /\ WF_vars(StopNotify \/ Join)

-----------------------------------------------------------------------------
(* Properties                                                              *)

\* A task is in one place: the heap has it once, or the thread has popped it, and
\* nobody finds it in both, though the thread lets go of the mutex to submit it
\* and takes it again to put it back.
OnePlace ==
  /\ \A e, f \in scheduled_tasks \cup current : e.id = f.id => e = f
  /\ scheduled_tasks \cap current = {}

\* When cancel has returned true the task is gone for good: the thread neither
\* has it in its hands nor puts it back.  (For a periodic task that is just being
\* submitted cancel returns false, and the task goes on.)
CancelIsFinal ==
  \A id \in cancelled : \A e \in scheduled_tasks \cup current : e.id # id

\* A task that runs once is submitted once.  A periodic one is never submitted three
\* times within its interval, however long the thread was held up, in submit() for
\* room in the pool as well as elsewhere: the rounds it has missed are not made up
\* for.  (Two submissions may be closer than the interval: the clock is read before
\* submit(), and the next round is counted from there.)
NoBursts ==
  [][Submit => \A e \in current :
       /\ last[e.id] # Never => Interval[e.id] > 0
       /\ previous[e.id] # Never => now >= previous[e.id] + Interval[e.id]]_vars

Awaited(id) == \E e \in scheduled_tasks : e.id = id /\ e.time <= Horizon


\* stop() returns, from wherever the thread is, the clock's reads through a
\* dangling reference included, unless its notification has come between the
\* thread's last test of running_ and its sleep.
StopReturnsUnlessMissed == (owner # "idle") ~> (owner = "idle" \/ pc = "terminated" \/ missed)

=============================================================================
