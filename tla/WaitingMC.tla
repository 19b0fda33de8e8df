----------------------------- MODULE WaitingMC -----------------------------
(***************************************************************************)
(* Three components in which a thread waits for other threads, checked     *)
(* together for liveness: the thread of a TaskScheduler, which sleeps on   *)
(* its condition variable, the workers of a ThreadPool, which sleep too,   *)
(* and the callers of a TaskGroup, which wait for its mutex and for room.  *)
(* They share no state; which one a behaviour is of is chosen in its       *)
(* initial state, and the others stay as they are.                         *)
(***************************************************************************)
EXTENDS TaskSchedulerMC

CONSTANTS
  NumThreads, Submitters, PoolTasks, None, LocalBound, GlobalBound, MayPause, MayShutdown,
  Members, Clients, GroupWorkers, Calling, Room, Free

VARIABLES
  part,
  pool_running, paused, next_worker, global, local, spc, stask, wpc, wtask, victim, waiting,
  pool_owner, late, pool_missed,
  task_ids, mutex, call, todo, state, stopped, queue, down, work, held

poolVars ==
  <<pool_running, paused, next_worker, global, local, spc, stask, wpc, wtask, victim, waiting,
    pool_owner, late, pool_missed>>
groupVars == <<task_ids, mutex, call, todo, state, stopped, queue, down, work, held>>
partsVars == <<part, vars, poolVars, groupVars>>

OneLevel == [t \in PoolTasks |-> 1]

Pool == INSTANCE ThreadPool WITH
  Tasks <- PoolTasks, Priority <- OneLevel,
  running <- pool_running, owner <- pool_owner, missed <- pool_missed
Group == INSTANCE TaskGroup WITH Workers <- GroupWorkers

PartsInit ==
  /\ part \in {"scheduler", "pool", "group"}
  /\ Init /\ Pool!Init /\ Group!TaskGroupInit

PartsNext ==
  /\ UNCHANGED part
  /\ \/ part = "scheduler" /\ Next /\ UNCHANGED <<poolVars, groupVars>>
     \/ part = "pool" /\ Pool!Next /\ UNCHANGED <<vars, groupVars>>
     \/ part = "group" /\ Group!TaskGroupNext /\ UNCHANGED <<vars, poolVars>>

\* The fairness of each component, which asks for nothing of a component that
\* the behaviour is not of.
SchedulerFairness ==
  /\ WF_vars(part = "scheduler" /\ SchedulerStep)
  /\ WF_vars(part = "scheduler" /\ Tick)
  /\ WF_vars(part = "scheduler" /\ (StopNotify \/ Join))
PoolFairness ==
  /\ \A w \in Pool!Workers : SF_poolVars(part = "pool" /\ Pool!WorkerStep(w))
  /\ \A s \in Submitters : WF_poolVars(part = "pool" /\ Pool!SubmitStep(s))
  /\ WF_poolVars(part = "pool" /\ (Pool!NotifyAll \/ Pool!Join))
GroupFairness ==
  /\ \A p \in Clients \cup GroupWorkers : WF_groupVars(part = "group" /\ Group!Holding(p))
  /\ \A w \in GroupWorkers : WF_groupVars(part = "group" /\ Group!Working(w))

PartsSpec ==
  /\ PartsInit
  /\ [][PartsNext]_partsVars
  /\ SchedulerFairness /\ PoolFairness /\ GroupFairness

\* A worker does not leave a running pool's queues alone for ever: the property of
\* ThreadPool.
QueuedTasksRun == Pool!QueuedTasksRun

\* shutdown() of a pool returns unless its notification is missed: the property of
\* ThreadPool.
ShutdownReturnsUnlessMissed == Pool!ShutdownReturnsUnlessMissed

\* The mutex of a group is given back unless everyone waits for everyone: the
\* property of TaskGroup.
GroupMutexReleased == Group!GroupMutexReleased

=============================================================================
