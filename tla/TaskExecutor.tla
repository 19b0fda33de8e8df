--------------------------- MODULE TaskExecutor ---------------------------
(***************************************************************************)
(* TaskExecutor (task_executor.hpp) over its DependencyGraph, its Tasks,   *)
(* its PerformanceMonitor and a thread pool.  The processes are            *)
(*   - a submitting thread for each task (submit_internal),                *)
(*   - the pool's workers, running a task and the lifecycle hooks,         *)
(*   - client threads that call cancel,                                    *)
(*   - the executor's scheduler thread,                                    *)
(*   - the owner, who calls start, stop and wait_for_completion.           *)
(* The pool's queues are one bag here, which ThreadPool.tla opens; its     *)
(* condition variable is as it is there: workers lock, test and sleep, and *)
(* a notification wakes those that sleep already and is lost otherwise.    *)
(***************************************************************************)
EXTENDS DependencyGraph, PerformanceMonitor

CONSTANTS
  NoTask,          \* what the local variables of an idle thread hold
  Workers,         \* the pool's threads
  Cancellers,      \* client threads that call cancel(id)
  Deps,            \* Deps[t]: the ids submitted as t's dependencies
  Outcomes,        \* Outcomes[t]: how t's function may end
  Async,           \* tasks submitted with submit_async
  ThrowingCallback,\* tasks whose user callback throws
  StartLast,       \* the owner calls start() only after every submission
  MayStop          \* the owner may call stop()

ASSUME NoTaskAssumption == NoTask \notin Tasks

ASSUME ThreadsAssumption == Workers \cap Cancellers = {}

ASSUME DepsAssumption == Deps \in [Tasks -> SUBSET Tasks]

ASSUME OutcomesAssumption == Outcomes \in [Tasks -> SUBSET {"return", "throw"}]

ASSUME SubmissionAssumption == Async \subseteq Tasks /\ ThrowingCallback \subseteq Tasks

\* A pool has finitely many threads, fewer than a counter can count, and a task
\* finitely many dependencies.
ASSUME SizesAssumption ==
  /\ IsFiniteSet(Workers) /\ Cardinality(Workers) <= CounterMax
  /\ \A t \in Tasks : IsFiniteSet(Deps[t])

ASSUME OwnerAssumption == StartLast \in BOOLEAN /\ MayStop \in BOOLEAN

Threads == Workers \cup Cancellers

VARIABLES
  spc,            \* spc[t]: progress of the submission of t
  sdeps,          \* sdeps[t]: dependencies the submission has yet to add
  pc,             \* pc[w]: what a worker or a cancelling thread does next
  task,           \* task[w]: the task it does it to
  todo,           \* todo[w]: dependents it has yet to notify
  queued,         \* queued[t]: how many times t is in the pool's queues
  pool_running,   \* ThreadPool::running_
  missed,         \* workers that sleep, or are about to, although there was a
                  \* notification since their last test (history, not in the code)
  scheduler,      \* progress of scheduler_loop
  visit,          \* tasks get_ready_tasks has yet to look at
  ready,          \* the ready tasks it has found
  scheduler_running,  \* scheduler_running_
  owner,          \* progress of the owner's stop()
  promise,        \* promise[t]: the std::promise of t's future
  registered,     \* the ids in task_promises_
  waited,         \* wait_for_completion has returned
  terminated      \* why std::terminate was called, if it was

submitVars == <<spc, sdeps>>
threadVars == <<pc, task, todo>>
poolVars == <<queued, pool_running, missed>>
schedulerVars == <<scheduler, visit, ready, scheduler_running>>
promiseVars == <<promise, registered>>
ownerVars == <<owner, waited>>
vars == <<taskVars, graph, metrics, submitVars, threadVars, poolVars,
          schedulerVars, promiseVars, ownerVars, terminated>>

NotifySteps == {"notify_dec", "notify_ready"}

\* Where a worker has no task: at the loop's test of running_, in its search, in
\* the three steps of its wait, or notifying another worker
Resting == {"loop", "find", "lock", "block", "wait", "signal", "exited"}

WorkerSteps ==
  {"execute", "begin", "running", "success", "callback", "fulfill", "failure",
   "can_retry", "reset", "remark", "fail_promise", "notify", "clear"}
    \cup NotifySteps \cup Resting

CancelSteps ==
  {"idle", "fail_promise", "record", "notify", "clear"} \cup NotifySteps

SubmitSteps ==
  {"new", "add_task", "add_dep", "load_count", "mark", "notify", "done", "threw"}

ExecutorTypeOK ==
  /\ spc \in [Tasks -> SubmitSteps]
  /\ sdeps \in [Tasks -> SUBSET Tasks]
  /\ pc \in [Threads -> WorkerSteps \cup CancelSteps]
  /\ task \in [Threads -> Tasks \cup {NoTask}]
  /\ todo \in [Threads -> Seq(Tasks)]
  /\ queued \in [Tasks -> Nat]
  /\ pool_running \in BOOLEAN
  /\ missed \subseteq Workers
  /\ scheduler \in {"off", "loop", "visit", "mark", "notify"}
  /\ visit \subseteq Tasks
  /\ ready \subseteq Tasks
  /\ scheduler_running \in BOOLEAN
  /\ owner \in {"idle", "join_scheduler", "notify_all", "join_workers"}
  /\ promise \in [Tasks -> {"none", "empty", "value", "exception"}]
  /\ registered \subseteq Tasks
  /\ waited \in BOOLEAN
  /\ terminated \in {"no", "retry", "promise", "scheduler"}

TypeOK == TaskTypeOK /\ GraphTypeOK /\ MonitorTypeOK /\ ExecutorTypeOK

Init ==
  /\ TaskInit
  /\ GraphInit
  /\ MonitorInit
  /\ spc = [t \in Tasks |-> "new"]
  /\ sdeps = Deps
  /\ pc = [w \in Threads |-> IF w \in Workers THEN "loop" ELSE "idle"]
  /\ task = [w \in Threads |-> NoTask]
  /\ todo = [w \in Threads |-> << >>]
  /\ queued = [t \in Tasks |-> 0]
  /\ pool_running = TRUE
  /\ missed = {}
  /\ scheduler = "off"
  /\ visit = {}
  /\ ready = {}
  /\ scheduler_running = FALSE
  /\ owner = "idle"
  /\ promise = [t \in Tasks |-> "none"]
  /\ registered = {}
  /\ waited = FALSE
  /\ terminated = "no"

\* DependencyGraph::mutex_ is held by a thread that notifies dependents or by
\* the scheduler thread inside get_ready_tasks.
GraphMutexFree ==
  /\ \A w \in Threads : pc[w] \notin NotifySteps
  /\ scheduler # "visit"

Goto(w, step) == pc' = [pc EXCEPT ![w] = step]

Enqueue(t) == queued' = [queued EXCEPT ![t] = @ + 1]

NothingQueued == \A t \in Tasks : queued[t] = 0

Asleep == {w \in Workers : pc[w] = "wait"}

\* Workers that have tested the predicate of their wait and do not wait yet: the
\* mutex they have does not keep a notification out.
AboutToSleep == {w \in Workers : pc[w] = "block"}

\* cv_.notify_one(), without the mutex, by a thread that goes on as in steps
notify_one(steps) ==
  IF Asleep = {}
    THEN pc' = steps /\ missed' = missed \cup AboutToSleep
    ELSE \E w \in Asleep : /\ pc' = [steps EXCEPT ![w] = "lock"]
                           /\ missed' = (missed \ {w}) \cup AboutToSleep

-----------------------------------------------------------------------------
(* submit_internal, for the task t                                         *)

\* The ids a client passes as dependencies are ids that submit returned.
SubmitBegin(t) ==
  /\ spc[t] = "new"
  /\ \A d \in Deps[t] : spc[d] = "done"
  /\ record_submission
  /\ promise' = [promise EXCEPT ![t] = IF t \in Async THEN "empty" ELSE "none"]
  /\ registered' = IF t \in Async THEN registered \cup {t} ELSE registered
  /\ spc' = [spc EXCEPT ![t] = "add_task"]
  /\ UNCHANGED <<taskVars, graph, sdeps, threadVars, poolVars, schedulerVars,
                 ownerVars, terminated>>

SubmitAddTask(t) ==
  /\ spc[t] = "add_task"
  /\ GraphMutexFree
  /\ add_task(t)
  /\ spc' = [spc EXCEPT ![t] = "add_dep"]
  /\ UNCHANGED <<metrics, sdeps, threadVars, poolVars, schedulerVars,
                 promiseVars, ownerVars, terminated>>

SubmitAddDependency(t, dependency) ==
  /\ spc[t] = "add_dep"
  /\ dependency \in sdeps[t]
  /\ GraphMutexFree
  /\ GraphAddDependency(t, dependency)
  /\ sdeps' = [sdeps EXCEPT ![t] = @ \ {dependency}]
  /\ UNCHANGED <<metrics, spc, threadVars, poolVars, schedulerVars, promiseVars,
                 ownerVars, terminated>>

\* is_ready() is called without the graph's mutex: it loads the status first,
\* the count next and the flag last, and the flag is only trusted by the
\* compare-and-swap that follows.
SubmitLoadStatus(t) ==
  /\ spc[t] = "add_dep"
  /\ sdeps[t] = {}
  /\ spc' = [spc EXCEPT ![t] =
               IF status[t] \in {"Pending", "Ready"} THEN "load_count" ELSE "done"]
  /\ UNCHANGED <<taskVars, graph, metrics, sdeps, threadVars, poolVars,
                 schedulerVars, promiseVars, ownerVars, terminated>>

SubmitLoadCount(t) ==
  /\ spc[t] = "load_count"
  /\ spc' = [spc EXCEPT ![t] =
               IF dependencies_count[t] = 0 THEN "mark" ELSE "done"]
  /\ UNCHANGED <<taskVars, graph, metrics, sdeps, threadVars, poolVars,
                 schedulerVars, promiseVars, ownerVars, terminated>>

SubmitToPool(t) ==
  /\ spc[t] = "mark"
  /\ try_mark_enqueued(t)
  /\ IF pool_running
       THEN Enqueue(t) /\ spc' = [spc EXCEPT ![t] = "notify"]
       ELSE UNCHANGED queued /\ spc' = [spc EXCEPT ![t] = "threw"]
  /\ UNCHANGED <<graph, metrics, sdeps, threadVars, pool_running, missed,
                 schedulerVars, promiseVars, ownerVars, terminated>>

SubmitNotify(t) ==
  /\ spc[t] = "notify"
  /\ notify_one(pc)
  /\ spc' = [spc EXCEPT ![t] = "done"]
  /\ UNCHANGED <<taskVars, graph, metrics, sdeps, task, todo, queued, pool_running,
                 schedulerVars, promiseVars, ownerVars, terminated>>

SubmitAlreadyMarked(t) ==
  /\ spc[t] = "mark"
  /\ enqueued[t]
  /\ spc' = [spc EXCEPT ![t] = "done"]
  /\ UNCHANGED <<taskVars, graph, metrics, sdeps, threadVars, poolVars,
                 schedulerVars, promiseVars, ownerVars, terminated>>

-----------------------------------------------------------------------------
(* The scheduler thread                                                    *)

SchedulerLock ==
  /\ scheduler = "loop"
  /\ scheduler_running
  /\ GraphMutexFree
  /\ scheduler' = "visit"
  /\ visit' = graph
  /\ UNCHANGED <<taskVars, graph, metrics, submitVars, threadVars, poolVars,
                 ready, scheduler_running, promiseVars, ownerVars, terminated>>

\* get_ready_tasks goes through the map in no particular order.
SchedulerVisit(t) ==
  /\ scheduler = "visit"
  /\ t \in visit
  /\ visit' = visit \ {t}
  /\ ready' = IF is_ready(t) THEN ready \cup {t} ELSE ready
  /\ UNCHANGED <<taskVars, graph, metrics, submitVars, threadVars, poolVars,
                 scheduler, scheduler_running, promiseVars, ownerVars, terminated>>

SchedulerUnlock ==
  /\ scheduler = "visit"
  /\ visit = {}
  /\ scheduler' = IF ready = {} THEN "loop" ELSE "mark"
  /\ UNCHANGED <<taskVars, graph, metrics, submitVars, threadVars, poolVars,
                 visit, ready, scheduler_running, promiseVars, ownerVars, terminated>>

AfterTask(tasks) == IF tasks = {} THEN "loop" ELSE "mark"

\* ThreadPool::submit throws when the pool is shut down; nothing catches it in
\* the scheduler thread.
SchedulerMark(t) ==
  /\ scheduler = "mark"
  /\ t \in ready
  /\ ready' = ready \ {t}
  /\ scheduler' = IF ~enqueued[t] /\ pool_running THEN "notify" ELSE AfterTask(ready')
  /\ IF enqueued[t]
       THEN UNCHANGED <<taskVars, queued, terminated>>
       ELSE /\ try_mark_enqueued(t)
            /\ IF pool_running
                 THEN Enqueue(t) /\ UNCHANGED terminated
                 ELSE UNCHANGED queued /\ terminated' = "scheduler"
  /\ UNCHANGED <<graph, metrics, submitVars, threadVars, pool_running, missed, visit,
                 scheduler_running, promiseVars, ownerVars>>

SchedulerNotify ==
  /\ scheduler = "notify"
  /\ notify_one(pc)
  /\ scheduler' = AfterTask(ready)
  /\ UNCHANGED <<taskVars, graph, metrics, submitVars, task, todo, queued, pool_running,
                 visit, ready, scheduler_running, promiseVars, ownerVars, terminated>>

SchedulerExit ==
  /\ scheduler = "loop"
  /\ ~scheduler_running
  /\ scheduler' = "off"
  /\ UNCHANGED <<taskVars, graph, metrics, submitVars, threadVars, poolVars,
                 visit, ready, scheduler_running, promiseVars, ownerVars, terminated>>

-----------------------------------------------------------------------------
(* A worker: ThreadPool::worker_loop, Task::execute and the hooks          *)

WorkerLoop(w) ==
  /\ pc[w] = "loop"
  /\ Goto(w, IF pool_running THEN "find" ELSE "exited")
  /\ UNCHANGED <<taskVars, graph, metrics, submitVars, task, todo, poolVars,
                 schedulerVars, promiseVars, ownerVars, terminated>>

\* Mutant: a worker takes a task that is not queued.
WorkerTakeAnything(w, t) ==
  /\ pc[w] = "find"
  /\ queued' = [queued EXCEPT ![t] = @ - 1]
  /\ record_start
  /\ task' = [task EXCEPT ![w] = t]
  /\ Goto(w, "execute")
  /\ UNCHANGED <<taskVars, graph, submitVars, todo, pool_running, missed, schedulerVars,
                 promiseVars, ownerVars, terminated>>

\* Mutant: the worker gives up the mark of the task it takes.
WorkerTakeClearing(w, t) ==
  /\ pc[w] = "find"
  /\ queued[t] > 0
  /\ queued' = [queued EXCEPT ![t] = @ - 1]
  /\ clear_enqueued_flag(t)
  /\ record_start
  /\ task' = [task EXCEPT ![w] = t]
  /\ Goto(w, "execute")
  /\ UNCHANGED <<graph, submitVars, todo, pool_running, missed, schedulerVars,
                 promiseVars, ownerVars, terminated>>

\* Dequeuing t, then the on_start hook
WorkerTake(w, t) ==
  /\ pc[w] = "find"
  /\ queued[t] > 0
  /\ queued' = [queued EXCEPT ![t] = @ - 1]
  /\ record_start
  /\ task' = [task EXCEPT ![w] = t]
  /\ Goto(w, "execute")
  /\ UNCHANGED <<taskVars, graph, submitVars, todo, pool_running, missed, schedulerVars,
                 promiseVars, ownerVars, terminated>>

WorkerFindNothing(w) ==
  /\ pc[w] = "find"
  /\ NothingQueued
  /\ Goto(w, "lock")
  /\ UNCHANGED <<taskVars, graph, metrics, submitVars, task, todo, poolVars,
                 schedulerVars, promiseVars, ownerVars, terminated>>

\* Mutant: the predicate does not look at running_.
WaitTestDeaf(w) ==
  /\ pc[w] = "lock"
  /\ AboutToSleep = {}
  /\ Goto(w, IF NothingQueued THEN "block" ELSE "loop")
  /\ missed' = missed \ {w}
  /\ UNCHANGED <<taskVars, graph, metrics, submitVars, task, todo, queued, pool_running,
                 schedulerVars, promiseVars, ownerVars, terminated>>

\* cv_.wait(lock, predicate): the mutex, which only waiting workers take, is
\* taken, or taken again after a notification, and the predicate is tested.
WaitTest(w) ==
  /\ pc[w] = "lock"
  /\ AboutToSleep = {}
  /\ Goto(w, IF pool_running /\ NothingQueued THEN "block" ELSE "loop")
  /\ missed' = missed \ {w}
  /\ UNCHANGED <<taskVars, graph, metrics, submitVars, task, todo, queued, pool_running,
                 schedulerVars, promiseVars, ownerVars, terminated>>

\* From here on a notification reaches w; before it was lost.
WaitBlock(w) ==
  /\ pc[w] = "block"
  /\ Goto(w, "wait")
  /\ UNCHANGED <<taskVars, graph, metrics, submitVars, task, todo, poolVars,
                 schedulerVars, promiseVars, ownerVars, terminated>>

\* Mutant: cancelled_ is not tested.
WorkerExecuteAnyway(w) ==
  /\ pc[w] = "execute"
  /\ Goto(w, "begin")
  /\ UNCHANGED <<taskVars, graph, metrics, submitVars, task, todo, poolVars,
                 schedulerVars, promiseVars, ownerVars, terminated>>

\* Task::execute tests cancelled_ once, before it stores Running.
WorkerExecute(w) ==
  /\ pc[w] = "execute"
  /\ IF cancelled[task[w]]
       THEN ExecuteCancelled(task[w]) /\ Goto(w, "failure")
       ELSE UNCHANGED taskVars /\ Goto(w, "begin")
  /\ UNCHANGED <<graph, metrics, submitVars, task, todo, poolVars, schedulerVars,
                 promiseVars, ownerVars, terminated>>

WorkerBegin(w) ==
  /\ pc[w] = "begin"
  /\ ExecuteBegin(task[w])
  /\ Goto(w, "running")
  /\ UNCHANGED <<graph, metrics, submitVars, task, todo, poolVars, schedulerVars,
                 promiseVars, ownerVars, terminated>>

WorkerEnd(w, outcome) ==
  /\ pc[w] = "running"
  /\ outcome \in Outcomes[task[w]]
  /\ ExecuteEnd(task[w], outcome)
  /\ Goto(w, IF outcome = "return" THEN "success" ELSE "failure")
  /\ UNCHANGED <<graph, metrics, submitVars, task, todo, poolVars, schedulerVars,
                 promiseVars, ownerVars, terminated>>

\* The on_success hook: the completion is counted, then the callback that
\* submit_internal installed runs: user callback, promise, graph, flag.
WorkerOnSuccess(w) ==
  /\ pc[w] = "success"
  /\ record_completion
  /\ Goto(w, "callback")
  /\ UNCHANGED <<taskVars, graph, submitVars, task, todo, poolVars, schedulerVars,
                 promiseVars, ownerVars, terminated>>

\* submit_async wraps the user's callback and sets the promise itself; a
\* promise that is set twice throws.
WorkerCallback(w) ==
  LET t == task[w]
      throws == t \in ThrowingCallback \/ (t \in Async /\ promise[t] # "empty")
  IN  /\ pc[w] = "callback"
      /\ Goto(w, IF throws THEN "failure" ELSE "fulfill")
      /\ promise' = [promise EXCEPT ![t] =
                       IF t \in Async /\ ~throws THEN "value" ELSE @]
      /\ UNCHANGED <<taskVars, graph, metrics, submitVars, task, todo, poolVars,
                     schedulerVars, registered, ownerVars, terminated>>

WorkerFulfillPromise(w) ==
  LET t == task[w]
  IN  /\ pc[w] = "fulfill"
      /\ registered' = registered \ {t}
      /\ promise' = [promise EXCEPT ![t] =
                       IF t \in registered /\ @ = "empty" THEN "value" ELSE @]
      /\ Goto(w, IF t \in registered /\ promise[t] # "empty" THEN "failure" ELSE "notify")
      /\ UNCHANGED <<taskVars, graph, metrics, submitVars, task, todo, poolVars,
                     schedulerVars, ownerVars, terminated>>

\* The on_failure hook, reached from anything that throws after on_start
WorkerOnFailure(w) ==
  /\ pc[w] = "failure"
  /\ record_failure
  /\ Goto(w, "can_retry")
  /\ UNCHANGED <<taskVars, graph, submitVars, task, todo, poolVars, schedulerVars,
                 promiseVars, ownerVars, terminated>>

\* handle_failure
WorkerCanRetry(w) ==
  /\ pc[w] = "can_retry"
  /\ IF can_retry(task[w])
       THEN record_retry /\ Goto(w, "reset")
       ELSE UNCHANGED metrics /\ Goto(w, "fail_promise")
  /\ UNCHANGED <<taskVars, graph, submitVars, task, todo, poolVars, schedulerVars,
                 promiseVars, ownerVars, terminated>>

WorkerReset(w) ==
  /\ pc[w] = "reset"
  /\ reset_for_retry(task[w])
  /\ Goto(w, "remark")
  /\ UNCHANGED <<graph, metrics, submitVars, task, todo, poolVars, schedulerVars,
                 promiseVars, ownerVars, terminated>>

BackToLoop(w) ==
  /\ Goto(w, IF w \in Workers THEN "loop" ELSE "idle")
  /\ task' = [task EXCEPT ![w] = NoTask]

\* Resubmission from inside the catch handler: if the pool is shut down submit
\* throws out of the thread.
WorkerResubmit(w) ==
  LET t == task[w]
  IN  /\ pc[w] = "remark"
      /\ task' = [task EXCEPT ![w] = NoTask]
      /\ Goto(w, IF ~enqueued[t] /\ pool_running THEN "signal" ELSE "loop")
      /\ IF enqueued[t]
           THEN UNCHANGED <<taskVars, queued, terminated>>
           ELSE /\ try_mark_enqueued(t)
                /\ IF pool_running
                     THEN Enqueue(t) /\ UNCHANGED terminated
                     ELSE UNCHANGED queued /\ terminated' = "retry"
      /\ UNCHANGED <<graph, metrics, submitVars, todo, pool_running, missed, schedulerVars,
                     promiseVars, ownerVars>>

WorkerNotify(w) ==
  /\ pc[w] = "signal"
  /\ notify_one([pc EXCEPT ![w] = "loop"])
  /\ UNCHANGED <<taskVars, graph, metrics, submitVars, task, todo, queued, pool_running,
                 schedulerVars, promiseVars, ownerVars, terminated>>

-----------------------------------------------------------------------------
(* cancel(id), by a client thread                                          *)

CancelTask(k, t) ==
  /\ pc[k] = "idle"
  /\ spc[t] = "done"
  /\ Cancel(t)
  /\ task' = [task EXCEPT ![k] = t]
  /\ Goto(k, "fail_promise")
  /\ UNCHANGED <<graph, metrics, submitVars, todo, poolVars, schedulerVars,
                 promiseVars, ownerVars, terminated>>

CancelRecord(k) ==
  /\ pc[k] = "record"
  /\ record_cancellation
  /\ Goto(k, "notify")
  /\ UNCHANGED <<taskVars, graph, submitVars, task, todo, poolVars, schedulerVars,
                 promiseVars, ownerVars, terminated>>

-----------------------------------------------------------------------------
(* What the end of a failed task and a cancellation share                  *)

\* Mutant: the promise is erased and not set.
FailPromiseErasing(w) ==
  /\ pc[w] = "fail_promise"
  /\ registered' = registered \ {task[w]}
  /\ Goto(w, IF w \in Workers THEN "notify" ELSE "record")
  /\ UNCHANGED <<taskVars, graph, metrics, submitVars, task, todo, poolVars,
                 schedulerVars, promise, ownerVars, terminated>>

\* Mutant: the promise is set and its entry kept.
FailPromiseKeeping(w) ==
  LET t == task[w]
      throws == t \in registered /\ promise[t] # "empty"
  IN  /\ pc[w] = "fail_promise"
      /\ promise' = [promise EXCEPT ![t] =
                       IF t \in registered /\ @ = "empty" THEN "exception" ELSE @]
      /\ IF throws
           THEN /\ BackToLoop(w)
                /\ terminated' = IF w \in Workers THEN "promise" ELSE terminated
           ELSE /\ Goto(w, IF w \in Workers THEN "notify" ELSE "record")
                /\ UNCHANGED <<task, terminated>>
      /\ UNCHANGED <<taskVars, graph, metrics, submitVars, todo, poolVars,
                     schedulerVars, registered, ownerVars>>

\* A promise that is already set throws: out of the catch handler in a worker,
\* to the caller in cancel.
FailPromise(w) ==
  LET t == task[w]
      throws == t \in registered /\ promise[t] # "empty"
  IN  /\ pc[w] = "fail_promise"
      /\ registered' = registered \ {t}
      /\ promise' = [promise EXCEPT ![t] =
                       IF t \in registered /\ @ = "empty" THEN "exception" ELSE @]
      /\ IF throws
           THEN /\ BackToLoop(w)
                /\ terminated' = IF w \in Workers THEN "promise" ELSE terminated
           ELSE /\ Goto(w, IF w \in Workers THEN "notify" ELSE "record")
                /\ UNCHANGED <<task, terminated>>
      /\ UNCHANGED <<taskVars, graph, metrics, submitVars, todo, poolVars,
                     schedulerVars, ownerVars>>

\* notify_task_completed
NotifyBegin(w) ==
  /\ pc[w] = "notify"
  /\ GraphMutexFree
  /\ todo' = [todo EXCEPT ![w] = DependentsOf(task[w])]
  /\ Goto(w, "notify_dec")
  /\ UNCHANGED <<taskVars, graph, metrics, submitVars, task, poolVars, schedulerVars,
                 promiseVars, ownerVars, terminated>>

NotifyNext(w) ==
  /\ pc[w] = "notify_dec"
  /\ todo[w] # << >>
  /\ NotifyDecrement(Head(todo[w]))
  /\ IF dependencies_count[Head(todo[w])] = 1
       THEN Goto(w, "notify_ready") /\ UNCHANGED todo
       ELSE todo' = [todo EXCEPT ![w] = Tail(@)] /\ UNCHANGED pc
  /\ UNCHANGED <<graph, metrics, submitVars, task, poolVars, schedulerVars,
                 promiseVars, ownerVars, terminated>>

NotifyStoreReady(w) ==
  /\ pc[w] = "notify_ready"
  /\ NotifyReady(Head(todo[w]))
  /\ todo' = [todo EXCEPT ![w] = Tail(@)]
  /\ Goto(w, "notify_dec")
  /\ UNCHANGED <<graph, metrics, submitVars, task, poolVars, schedulerVars,
                 promiseVars, ownerVars, terminated>>

NotifyEnd(w) ==
  /\ pc[w] = "notify_dec"
  /\ todo[w] = << >>
  /\ Goto(w, "clear")
  /\ UNCHANGED <<taskVars, graph, metrics, submitVars, task, todo, poolVars,
                 schedulerVars, promiseVars, ownerVars, terminated>>

ClearFlag(w) ==
  /\ pc[w] = "clear"
  /\ clear_enqueued_flag(task[w])
  /\ BackToLoop(w)
  /\ UNCHANGED <<graph, metrics, submitVars, todo, poolVars, schedulerVars,
                 promiseVars, ownerVars, terminated>>

-----------------------------------------------------------------------------
(* The owner: start, stop and wait_for_completion                          *)

AllSubmitted == \A t \in Tasks : spc[t] \in {"done", "threw"}

Start ==
  /\ owner = "idle"
  /\ ~scheduler_running
  /\ StartLast => AllSubmitted
  /\ scheduler_running' = TRUE
  /\ scheduler' = "loop"
  /\ UNCHANGED <<taskVars, graph, metrics, submitVars, threadVars, poolVars, visit,
                 ready, promiseVars, ownerVars, terminated>>

StopScheduler ==
  /\ MayStop
  /\ owner = "idle"
  /\ scheduler_running
  /\ scheduler_running' = FALSE
  /\ owner' = "join_scheduler"
  /\ UNCHANGED <<taskVars, graph, metrics, submitVars, threadVars, poolVars, scheduler,
                 visit, ready, promiseVars, waited, terminated>>

\* ThreadPool::shutdown, once the scheduler thread is joined or if there is none:
\* the store, then cv_.notify_all() without the mutex
StopPool ==
  /\ MayStop
  /\ \/ owner = "join_scheduler" /\ scheduler = "off"
     \/ owner = "idle" /\ ~scheduler_running
  /\ pool_running' = FALSE
  /\ owner' = "notify_all"
  /\ UNCHANGED <<taskVars, graph, metrics, submitVars, threadVars, queued, missed,
                 schedulerVars, promiseVars, waited, terminated>>

StopNotify ==
  /\ owner = "notify_all"
  /\ owner' = "join_workers"
  /\ pc' = [w \in Threads |-> IF w \in Asleep THEN "lock" ELSE pc[w]]
  /\ missed' = AboutToSleep
  /\ UNCHANGED <<taskVars, graph, metrics, submitVars, task, todo, queued, pool_running,
                 schedulerVars, promiseVars, waited, terminated>>

StopReturn ==
  /\ owner = "join_workers"
  /\ \A w \in Workers : pc[w] = "exited"
  /\ owner' = "idle"
  /\ UNCHANGED <<taskVars, graph, metrics, submitVars, threadVars, poolVars,
                 schedulerVars, promiseVars, waited, terminated>>

WaitReturns ==
  /\ ~waited
  /\ AllSubmitted
  /\ GraphMutexFree
  /\ all_completed
  /\ waited' = TRUE
  /\ UNCHANGED <<taskVars, graph, metrics, submitVars, threadVars, poolVars,
                 schedulerVars, promiseVars, owner, terminated>>

-----------------------------------------------------------------------------
SubmitStep(t) ==
  \/ SubmitAddTask(t)
  \/ \E d \in Tasks : SubmitAddDependency(t, d)
  \/ SubmitLoadStatus(t) \/ SubmitLoadCount(t)
  \/ SubmitToPool(t) \/ SubmitNotify(t) \/ SubmitAlreadyMarked(t)

SchedulerStep ==
  \/ SchedulerLock \/ SchedulerUnlock \/ SchedulerNotify \/ SchedulerExit
  \/ \E t \in Tasks : SchedulerVisit(t) \/ SchedulerMark(t)

NotifyStep(w) ==
  \/ FailPromise(w) \/ NotifyBegin(w) \/ NotifyNext(w) \/ NotifyStoreReady(w)
  \/ NotifyEnd(w) \/ ClearFlag(w)

WorkerStep(w) ==
  \/ WorkerLoop(w) \/ WorkerFindNothing(w) \/ WaitTest(w) \/ WaitBlock(w)
  \/ \E t \in Tasks : WorkerTake(w, t)
  \/ WorkerExecute(w) \/ WorkerBegin(w)
  \/ \E outcome \in {"return", "throw"} : WorkerEnd(w, outcome)
  \/ WorkerOnSuccess(w) \/ WorkerCallback(w) \/ WorkerFulfillPromise(w)
  \/ WorkerOnFailure(w) \/ WorkerCanRetry(w) \/ WorkerReset(w)
  \/ WorkerResubmit(w) \/ WorkerNotify(w)

OwnerStep ==
  Start \/ StopScheduler \/ StopPool \/ StopNotify \/ StopReturn \/ WaitReturns

Step ==
  \/ \E t \in Tasks : SubmitBegin(t) \/ SubmitStep(t)
  \/ SchedulerStep
  \/ \E w \in Workers : WorkerStep(w)
  \/ \E k \in Cancellers : CancelRecord(k) \/ \E t \in Tasks : CancelTask(k, t)
  \/ \E w \in Threads : NotifyStep(w)
  \/ OwnerStep

Next == terminated = "no" /\ Step

Spec == Init /\ [][Next]_vars

\* A started thread that can go on does.  Two waits are for a mutex that other
\* threads keep taking and releasing: the scheduler sleeps a millisecond
\* between two rounds, so a thread that wants the mutex gets it (SF).
Fairness ==
  /\ \A t \in Tasks : SF_vars(terminated = "no" /\ SubmitStep(t))
  /\ \A w \in Workers : WF_vars(terminated = "no" /\ WorkerStep(w))
  /\ \A w \in Threads : SF_vars(terminated = "no" /\ NotifyStep(w))
  /\ \A k \in Cancellers : WF_vars(terminated = "no" /\ CancelRecord(k))
  /\ SF_vars(terminated = "no" /\ SchedulerStep)
  /\ WF_vars(terminated = "no" /\ Start)
  /\ WF_vars(terminated = "no" /\ (StopPool \/ StopNotify \/ StopReturn))

FairSpec == Spec /\ Fairness

-----------------------------------------------------------------------------
(* Properties                                                              *)

\* No two workers are inside the same task's function at the same time, in
\* spite of retries, of cancellations that clear the flag of a queued task and
\* of the scheduler's stale list: the enqueued flag and the test of cancelled_
\* that opens execute() together see to it.
NoConcurrentRun ==
  \A v, w \in Workers :
    (pc[v] \in {"begin", "running"} /\ pc[w] \in {"begin", "running"}
       /\ task[v] = task[w]) => v = w

\* A worker holds a task from the queue to the clearing of the task's flag, but
\* for the step between reset_for_retry and the next mark.
Holding == WorkerSteps \ (Resting \cup {"remark"})

Holds(w, t) == pc[w] \in Holding /\ task[w] = t

\* t is not cancelled, or the thread that cancels it has yet to fail its promise.
Live(t) ==
  ~cancelled[t] \/ \E k \in Cancellers : pc[k] = "fail_promise" /\ task[k] = t

OneClaim(t) ==
  /\ queued[t] <= 1
  /\ queued[t] = 1 => enqueued[t] /\ \A w \in Workers : ~Holds(w, t)
  /\ \A w \in Workers : Holds(w, t) => enqueued[t]
  /\ \A v, w \in Workers : Holds(v, t) /\ Holds(w, t) => v = w

\* The enqueued flag does what it is for: until it is cancelled, a task is in the
\* pool's queues once or held by one worker, with its flag set, or neither, through
\* submission, the scheduler's rounds, failures, retries and throwing callbacks.
ClaimsExclusive == \A t \in Tasks : Live(t) => OneClaim(t)

\* What a failing execution finds in task_promises_ is an empty promise or no
\* entry, whoever fulfils, retries and cancels the task: a worker's fail_promise
\* never sets a promise that is set, which would terminate the program.  A promise
\* that is set has an entry only between the two set_value calls of a submit_async
\* that succeeds (the callback's own, and that of fulfill_promise, which throws);
\* there a concurrent cancel finds it, and its fail_promise throws to its caller.
EntriesPending ==
  /\ registered \subseteq Async
  /\ \A t \in registered :
       /\ Live(t)
       /\ promise[t] = "empty" \/ \E w \in Workers : pc[w] = "fulfill" /\ task[w] = t
  /\ \A w \in Workers :
       pc[w] = "fail_promise" /\ task[w] \in registered => promise[task[w]] = "empty"

\* Workers between the on_start hook and the record of the outcome
Executing ==
  {w \in Workers : pc[w] \in {"execute", "begin", "running", "success", "failure"}}

\* inflight_tasks is the number of tasks being executed (on_start adds one, one of
\* the two other hooks takes it away, retried and cancelled executions included),
\* and its peak never exceeds the number of workers.  This holds when no task is
\* submitted with submit_async and no user's callback throws: otherwise an
\* execution is recorded as completed and then as failed too.  It is so for each
\* submit_async that succeeds, whose promise the callback and fulfill_promise both
\* set.
InflightExact ==
  /\ metrics["inflight"] = Cardinality(Executing)
  /\ metrics["peak"] <= Cardinality(Workers)

\* The retries that the tasks were submitted with, each task's numbered from one
Retries == UNION {{t} \X (1 .. MaxRetries[t]) : t \in Tasks}

\* The retries granted by handle_failure, over all tasks and however often they
\* were enqueued, stay within what the tasks were submitted with.
RetriesWithinBudget == metrics["retried"] <= Cardinality(Retries)

\* A task's function runs only once all the tasks it was submitted to depend on
\* are in a terminal state.
DependencyOrder ==
  \A w \in Workers :
    pc[w] = "running" => \A d \in Deps[task[w]] : status[d] \in Terminal

\* A task that cannot be retried runs at most once.
ExactlyOnce == \A t \in Tasks : attempts[t] <= MaxRetries[t] + 1

\* Once wait_for_completion has returned every task stays in a terminal state:
\* nothing runs any more.
WaitSound == waited => \A t \in Tasks : status[t] \in Terminal

\* A worker went to sleep, or is about to, on a notification that it was sent
\* before it waited, and what it was to be told is still true.  The pool's mutex
\* does not prevent it; it is the way out of the four properties below.
Overslept == missed # {} /\ (~NothingQueued \/ ~pool_running)

\* While the executor is started, a submitted task whose dependency count is zero
\* ends up in a terminal state, unless the notification of it was lost.
ReadyTasksFinishUnlessMissed ==
  \A t \in Tasks :
    (spc[t] = "done" /\ dependencies_count[t] = 0 /\ scheduler_running)
      ~> (status[t] \in Terminal \/ ~scheduler_running \/ Overslept)

\* While the executor is started, and until it is stopped, a submitted task ends
\* up in a terminal state, unless a notification was lost.
SubmittedTasksFinishUnlessMissed ==
  \A t \in Tasks :
    (spc[t] = "done" /\ scheduler_running /\ pool_running)
      ~> (status[t] \in Terminal \/ ~scheduler_running \/ Overslept)

\* Until the executor is stopped, a future obtained from submit_async is resolved,
\* whatever the task's function and a concurrent cancel do, unless a notification
\* was lost.
FuturesResolveUnlessMissed ==
  \A t \in Async :
    spc[t] = "done"
      ~> (promise[t] \in {"value", "exception"} \/ ~pool_running \/ Overslept)

\* stop() returns, whatever is queued, executed or retried, or the program is
\* terminated: a worker that does not see the shutdown has missed its notification.
StopReturnsUnlessMissed ==
  owner # "idle" ~> (owner = "idle" \/ terminated # "no" \/ Overslept)

\* No exception leaves a thread of the executor as long as its pool runs: not
\* from a retry in a worker's catch handler, not from the scheduler thread, not
\* from a promise that is set twice.
TerminatesOnlyAfterStop == terminated # "no" => ~pool_running

=============================================================================
