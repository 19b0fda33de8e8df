----------------------------- MODULE TaskGroup -----------------------------
(***************************************************************************)
(* TaskGroup (task_group.hpp): a list of task ids over an executor.  Every *)
(* method holds the group's mutex while it calls the executor: once for    *)
(* each member in cancel_all and get_stats, and in add until the executor  *)
(* has room for the task.                                                  *)
(*                                                                         *)
(* The executor is what the group can tell of it: tasks that wait for a    *)
(* worker in a queue of bounded room, and their status.  Its submit waits  *)
(* for room, and throws once the executor has been stopped; a task may     *)
(* itself call the group.  Retries and dependencies are left out, and so   *)
(* are the names, and wait(), which is the executor's                      *)
(* wait_for_completion().                                                  *)
(***************************************************************************)
EXTENDS Naturals, FiniteSets

CONSTANTS
  Members,     \* the ids the executor hands out, in this order
  Clients,     \* threads outside the executor
  Workers,     \* threads of the executor
  Calling,     \* tasks whose function calls the group
  Room,        \* tasks the executor's queues hold
  Free         \* no thread

VARIABLES
  task_ids,    \* task_ids_, as a set
  mutex,       \* the thread that holds mutex_, or Free
  call,        \* call[p]: where thread p is in a method of the group
  todo,        \* todo[p]: the members its loop has not come to
  state,       \* state[t]: the status of a task, or "new"
  stopped,     \* stopped[t]: the cancelled_ flag
  queue,       \* the tasks in the executor's queues
  down,        \* the executor's pool has been shut down
  work,        \* work[w]: where worker w is with its task
  held         \* held[w]: the task it has, as a set

executorVars == <<state, stopped, queue, down, work, held>>
taskGroupVars == <<task_ids, mutex, call, todo, executorVars>>

Threads == Clients \cup Workers
Wanting == {"want_add", "want_cancel", "want_stats"}

TaskGroupTypeOK ==
  /\ task_ids \subseteq Members /\ queue \subseteq Members
  /\ mutex \in Threads \cup {Free}
  /\ call \in [Threads -> {"out", "add", "adding", "cancel", "stats"} \cup Wanting]
  /\ todo \in [Threads -> SUBSET Members]
  /\ state \in [Members -> {"new", "Pending", "Running", "Completed", "Failed", "Cancelled"}]
  /\ stopped \in [Members -> BOOLEAN]
  /\ down \in BOOLEAN
  /\ work \in [Workers -> {"idle", "check", "begin", "running"}]
  /\ held \in [Workers -> SUBSET Members]

TaskGroupInit ==
  /\ task_ids = {} /\ queue = {}
  /\ mutex = Free /\ down = FALSE
  /\ call = [p \in Threads |-> "out"] /\ todo = [p \in Threads |-> {}]
  /\ state = [t \in Members |-> "new"] /\ stopped = [t \in Members |-> FALSE]
  /\ work = [w \in Workers |-> "idle"] /\ held = [w \in Workers |-> {}]

-----------------------------------------------------------------------------
(* The methods                                                             *)

Adding == {p \in Threads : call[p] \in {"want_add", "add", "adding"}}

\* A client calls at any time, a worker from within a task.  Adding ends with the
\* ids.
Call(p, method) ==
  /\ call[p] = "out"
  /\ p \in Workers => work[p] = "running" /\ held[p] \subseteq Calling
  /\ method = "want_add" => Cardinality(Adding) < Cardinality({t \in Members : state[t] = "new"})
  /\ call' = [call EXCEPT ![p] = method]
  /\ UNCHANGED <<task_ids, mutex, todo, executorVars>>

Lock(p) ==
  /\ call[p] \in Wanting /\ mutex = Free
  /\ mutex' = p
  /\ call' = [call EXCEPT ![p] = CASE @ = "want_add" -> "add"
                                   [] @ = "want_cancel" -> "cancel"
                                   [] @ = "want_stats" -> "stats"]
  /\ todo' = [todo EXCEPT ![p] = IF call[p] = "want_add" THEN {} ELSE task_ids]
  /\ UNCHANGED <<task_ids, executorVars>>

Return(p) ==
  /\ mutex' = Free
  /\ call' = [call EXCEPT ![p] = "out"]

\* add: the executor's submit throws when it has been stopped, and the mutex is
\* released by the guard; nothing is listed.
AddTest(p) ==
  /\ call[p] = "add"
  /\ IF down THEN Return(p) ELSE call' = [call EXCEPT ![p] = "adding"] /\ UNCHANGED mutex
  /\ UNCHANGED <<task_ids, todo, executorVars>>

\* It waits for room.  When the executor is stopped meanwhile the task is forgotten,
\* and listed all the same.
add(p) ==
  /\ call[p] = "adding"
  /\ Cardinality(queue) < Room \/ down
  /\ \E t \in Members :
       /\ state[t] = "new" /\ \A u \in Members : state[u] = "new" => t <= u
       /\ state' = [state EXCEPT ![t] = "Pending"]
       /\ queue' = IF Cardinality(queue) < Room THEN queue \cup {t} ELSE queue
       /\ task_ids' = task_ids \cup {t}
  /\ Return(p)
  /\ UNCHANGED <<todo, stopped, down, work, held>>

\* cancel_all, one executor_.cancel(): Task::cancel() stores the status whatever
\* the task is doing or has done.
CancelOne(p) ==
  \E t \in todo[p] :
    /\ call[p] = "cancel"
    /\ todo' = [todo EXCEPT ![p] = @ \ {t}]
    /\ stopped' = [stopped EXCEPT ![t] = TRUE]
    /\ state' = [state EXCEPT ![t] = IF stopped[t] THEN @ ELSE "Cancelled"]
    /\ UNCHANGED <<task_ids, mutex, call, queue, down, work, held>>

\* get_stats, one get_task_status()
StatsOne(p) ==
  \E t \in todo[p] :
    /\ call[p] = "stats"
    /\ todo' = [todo EXCEPT ![p] = @ \ {t}]
    /\ UNCHANGED <<task_ids, mutex, call, executorVars>>

\* The end of cancel_all, and of get_stats, which all_completed calls
LoopEnds(p) ==
  /\ call[p] \in {"cancel", "stats"} /\ todo[p] = {}
  /\ Return(p)
  /\ UNCHANGED <<task_ids, todo, executorVars>>

group_clear ==
  /\ mutex = Free /\ task_ids # {}
  /\ task_ids' = {}
  /\ UNCHANGED <<mutex, call, todo, executorVars>>

-----------------------------------------------------------------------------
(* The executor                                                            *)

\* Mutant: a cancelled task is left where it is.
TakeUncancelled(w) ==
  /\ work[w] = "idle"
  /\ \E t \in queue : ~stopped[t] /\ held' = [held EXCEPT ![w] = {t}] /\ queue' = queue \ {t}
  /\ work' = [work EXCEPT ![w] = "check"]
  /\ UNCHANGED <<task_ids, mutex, call, todo, state, stopped, down>>

Take(w) ==
  /\ work[w] = "idle"
  /\ \E t \in queue : held' = [held EXCEPT ![w] = {t}] /\ queue' = queue \ {t}
  /\ work' = [work EXCEPT ![w] = "check"]
  /\ UNCHANGED <<task_ids, mutex, call, todo, state, stopped, down>>

\* The test of cancelled_ and the store of the status it leads to are two steps.
Check(w) ==
  /\ work[w] = "check"
  /\ \E t \in held[w] :
       IF stopped[t]
         THEN /\ state' = [state EXCEPT ![t] = "Cancelled"]
              /\ work' = [work EXCEPT ![w] = "idle"] /\ held' = [held EXCEPT ![w] = {}]
         ELSE work' = [work EXCEPT ![w] = "begin"] /\ UNCHANGED <<state, held>>
  /\ UNCHANGED <<task_ids, mutex, call, todo, stopped, queue, down>>

Begin(w) ==
  /\ work[w] = "begin"
  /\ \E t \in held[w] : state' = [state EXCEPT ![t] = "Running"]
  /\ work' = [work EXCEPT ![w] = "running"]
  /\ UNCHANGED <<task_ids, mutex, call, todo, stopped, queue, down, held>>

End(w) ==
  /\ work[w] = "running" /\ call[w] = "out"
  /\ \E t \in held[w], outcome \in {"Completed", "Failed"} : state' = [state EXCEPT ![t] = outcome]
  /\ work' = [work EXCEPT ![w] = "idle"] /\ held' = [held EXCEPT ![w] = {}]
  /\ UNCHANGED <<task_ids, mutex, call, todo, stopped, queue, down>>

\* The executor is stopped; its workers finish what they have.
StopPool ==
  /\ ~down /\ down' = TRUE
  /\ UNCHANGED <<task_ids, mutex, call, todo, state, stopped, queue, work, held>>

-----------------------------------------------------------------------------
Holding(p) == AddTest(p) \/ add(p) \/ CancelOne(p) \/ StatsOne(p) \/ LoopEnds(p)
WorkerStep(w) == Take(w) \/ Check(w) \/ Begin(w) \/ End(w)

Working(w) == WorkerStep(w) /\ (down => work[w] # "idle")

TaskGroupNext ==
  \/ \E p \in Threads : \E method \in Wanting : Call(p, method)
  \/ \E p \in Threads : Lock(p) \/ Holding(p)
  \/ group_clear \/ StopPool
  \/ \E w \in Workers : WorkerStep(w)

\* The thread that has the mutex goes on, workers take what is queued as long as the
\* executor has not been stopped, and tasks that do not wait for the group return.
TaskGroupFairness ==
  /\ \A p \in Threads : WF_taskGroupVars(Holding(p))
  /\ \A w \in Workers : WF_taskGroupVars(Working(w))

TaskGroupSpec == TaskGroupInit /\ [][TaskGroupNext]_taskGroupVars /\ TaskGroupFairness

-----------------------------------------------------------------------------
(* Properties                                                              *)

\* Everyone waits for everyone: there is no room, and every worker waits for the
\* group's mutex or, holding it, for room.
Stuck ==
  /\ ~down
  /\ Cardinality(queue) = Room
  /\ \A w \in Workers : call[w] \in Wanting \cup {"add", "adding"}

\* Whoever has the group's mutex gives it back, although add() keeps it while it
\* waits for room, others cancel what is queued and somebody stops the executor, unless
\* every worker of a running executor is inside a task that calls the group.
GroupMutexReleased == mutex # Free ~> (mutex = Free \/ Stuck)

=============================================================================
