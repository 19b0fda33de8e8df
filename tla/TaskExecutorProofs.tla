------------------------- MODULE TaskExecutorProofs -------------------------
(***************************************************************************)
(* Proofs about TaskExecutor, for any tasks, dependencies, retries,        *)
(* outcomes, workers and cancelling threads.                               *)
(***************************************************************************)
EXTENDS TaskExecutor, FiniteSetTheorems, TLAPS

USE DEF vars, taskVars, edgeVars, submitVars, threadVars, poolVars, schedulerVars,
        promiseVars, ownerVars, Resting

-----------------------------------------------------------------------------
(* Types                                                                   *)

\* Where a thread has nothing to do with a task, and where a cancelling thread
\* can be
Free == Resting \cup {"idle"}

CancelPc == {"idle", "fail_promise", "record", "notify", "notify_dec",
             "notify_ready", "clear"}

ThreadsInv ==
  /\ \A w \in Workers : pc[w] \in WorkerSteps
  /\ \A k \in Cancellers : pc[k] \in CancelPc
  /\ \A w \in Threads : pc[w] \notin Free => task[w] \in Tasks
  /\ \A w \in Threads : pc[w] = "notify_ready" => todo[w] # << >>

TypeInv == TypeOK /\ ThreadsInv

LEMMA WhoIsWho == /\ \A w \in Workers : w \in Threads /\ w \notin Cancellers
                  /\ \A k \in Cancellers : k \in Threads /\ k \notin Workers
BY ThreadsAssumption DEF Threads

LEMMA TypeInit == Init => TypeInv
<1> SUFFICES ASSUME Init PROVE TypeInv
  OBVIOUS
<1>1. TaskTypeOK /\ GraphTypeOK
  BY DEF Init, TaskInit, GraphInit, TaskTypeOK, GraphTypeOK, TaskStatus
<1>2. MonitorTypeOK
  BY CounterMaxAssumption DEF Init, MonitorInit, MonitorTypeOK
<1>3. ExecutorTypeOK
  <2>1. todo \in [Threads -> Seq(Tasks)] /\ pc \in [Threads -> WorkerSteps \cup CancelSteps]
    BY DEF Init, WorkerSteps, CancelSteps
  <2>2. sdeps \in [Tasks -> SUBSET Tasks] /\ spc \in [Tasks -> SubmitSteps]
    BY DepsAssumption DEF Init, SubmitSteps
  <2> QED
    BY <2>1, <2>2 DEF Init, ExecutorTypeOK
<1>4. ThreadsInv
  BY WhoIsWho DEF Init, ThreadsInv, WorkerSteps, CancelPc, Free
<1> QED
  BY <1>1, <1>2, <1>3, <1>4 DEF TypeInv, TypeOK

LEMMA MonitorTypes ==
  ASSUME MonitorTypeOK,
         \/ record_submission \/ record_start \/ record_completion
         \/ record_failure \/ record_retry \/ record_cancellation
         \/ UNCHANGED metrics
  PROVE  MonitorTypeOK'
<1>1. \A n \in 0 .. CounterMax : Inc(n) \in 0 .. CounterMax /\ Dec(n) \in 0 .. CounterMax
  BY CounterMaxAssumption DEF Inc, Dec
<1>2. \A k \in Counters : metrics[k] \in 0 .. CounterMax
  BY DEF MonitorTypeOK
<1>3. "submitted" \in Counters /\ "completed" \in Counters /\ "failed" \in Counters
      /\ "retried" \in Counters /\ "cancelled" \in Counters
      /\ "inflight" \in Counters /\ "peak" \in Counters
  BY DEF Counters
<1> QED
  BY <1>1, <1>2, <1>3
     DEF MonitorTypeOK, record_submission, record_start, record_completion, record_failure,
         record_retry, record_cancellation

\* What the searches, the waits and the notifications of the pool do: workers
\* without a task move about, and nothing else changes but the progress of the
\* thread that notifies.
RestMove ==
  /\ pc' \in [Threads -> WorkerSteps \cup CancelSteps]
  /\ \A v \in Threads :
       pc'[v] = pc[v] \/ (v \in Workers /\ pc[v] \in Resting /\ pc'[v] \in Resting)
  /\ missed' \subseteq Workers
  /\ UNCHANGED <<taskVars, graph, metrics, sdeps, task, todo, queued, pool_running,
                 visit, ready, scheduler_running, promiseVars, waited, terminated>>

LEMMA NotifyOne ==
  ASSUME TypeInv, NEW steps \in [Threads -> WorkerSteps \cup CancelSteps], notify_one(steps)
  PROVE  /\ pc' \in [Threads -> WorkerSteps \cup CancelSteps]
         /\ \A v \in Threads : pc'[v] = steps[v] \/ (v \in Asleep /\ pc'[v] = "lock")
         /\ missed' \subseteq Workers
<1>0. missed \subseteq Workers /\ AboutToSleep \subseteq Workers /\ Asleep \subseteq Threads
  BY DEF TypeInv, TypeOK, ExecutorTypeOK, AboutToSleep, Asleep, Threads
<1>1. CASE pc' = steps /\ missed' = missed \cup AboutToSleep
  BY <1>0, <1>1
<1>2. ASSUME NEW w \in Asleep, pc' = [steps EXCEPT ![w] = "lock"],
             missed' = (missed \ {w}) \cup AboutToSleep
      PROVE  /\ pc' \in [Threads -> WorkerSteps \cup CancelSteps]
             /\ \A v \in Threads : pc'[v] = steps[v] \/ (v \in Asleep /\ pc'[v] = "lock")
             /\ missed' \subseteq Workers
  <2>1. "lock" \in WorkerSteps
    BY DEF WorkerSteps
  <2> QED
    BY <1>0, <1>2, <2>1
<1> QED
  BY <1>1, <1>2 DEF notify_one

LEMMA RestSteps ==
  ASSUME TypeInv
  PROVE  /\ \A w \in Workers :
              WorkerLoop(w) \/ WorkerFindNothing(w) \/ WaitTest(w) \/ WaitBlock(w)
                \/ WorkerNotify(w)
              => RestMove /\ UNCHANGED <<spc, scheduler, owner>>
         /\ \A t \in Tasks : SubmitNotify(t) => RestMove /\ UNCHANGED <<scheduler, owner>>
         /\ SchedulerNotify => RestMove /\ UNCHANGED <<spc, owner>>
         /\ StopNotify => RestMove /\ UNCHANGED <<spc, scheduler>>
<1>0. pc \in [Threads -> WorkerSteps \cup CancelSteps] /\ missed \subseteq Workers
  BY DEF TypeInv, TypeOK, ExecutorTypeOK
<1>1. ASSUME NEW w \in Workers, NEW step \in Resting
      PROVE  /\ [pc EXCEPT ![w] = step] \in [Threads -> WorkerSteps \cup CancelSteps]
             /\ \A v \in Threads : v # w => [pc EXCEPT ![w] = step][v] = pc[v]
             /\ [pc EXCEPT ![w] = step][w] = step
  <2>1. step \in WorkerSteps /\ w \in Threads
    BY WhoIsWho DEF WorkerSteps
  <2> QED
    BY <1>0, <2>1
<1>2. ASSUME NEW w \in Workers,
             WorkerLoop(w) \/ WorkerFindNothing(w) \/ WaitTest(w) \/ WaitBlock(w)
      PROVE  RestMove /\ UNCHANGED <<spc, scheduler, owner>>
  <2>1. PICK step \in Resting : pc' = [pc EXCEPT ![w] = step]
    BY <1>2 DEF WorkerLoop, WorkerFindNothing, WaitTest, WaitBlock, Goto
  <2>2. pc[w] \in Resting /\ missed' \subseteq Workers
    BY <1>0, <1>2 DEF WorkerLoop, WorkerFindNothing, WaitTest, WaitBlock
  <2>3. UNCHANGED <<taskVars, graph, metrics, submitVars, task, todo, queued, pool_running,
                    schedulerVars, promiseVars, ownerVars, terminated>>
    BY <1>2 DEF WorkerLoop, WorkerFindNothing, WaitTest, WaitBlock
  <2> QED
    BY <1>1, <2>1, <2>2, <2>3 DEF RestMove
<1>3. ASSUME NEW w \in Workers, WorkerNotify(w)
      PROVE  RestMove /\ UNCHANGED <<spc, scheduler, owner>>
  <2> DEFINE steps == [pc EXCEPT ![w] = "loop"]
  <2>1. /\ steps \in [Threads -> WorkerSteps \cup CancelSteps]
        /\ \A v \in Threads : v # w => steps[v] = pc[v]
        /\ steps[w] = "loop"
    BY <1>1
  <2>2. notify_one(steps) /\ pc[w] = "signal"
    BY <1>3 DEF WorkerNotify
  <2> HIDE DEF steps
  <2>3. /\ pc' \in [Threads -> WorkerSteps \cup CancelSteps]
        /\ \A v \in Threads : pc'[v] = steps[v] \/ (v \in Asleep /\ pc'[v] = "lock")
        /\ missed' \subseteq Workers
    BY <2>1, <2>2, NotifyOne
  <2>4. UNCHANGED <<taskVars, graph, metrics, submitVars, task, todo, queued, pool_running,
                    schedulerVars, promiseVars, ownerVars, terminated>>
    BY <1>3 DEF WorkerNotify
  <2> QED
    BY <2>1, <2>2, <2>3, <2>4 DEF RestMove, Asleep
<1>4. notify_one(pc) =>
        /\ pc' \in [Threads -> WorkerSteps \cup CancelSteps]
        /\ missed' \subseteq Workers
        /\ \A v \in Threads :
             pc'[v] = pc[v] \/ (v \in Workers /\ pc[v] \in Resting /\ pc'[v] \in Resting)
  BY <1>0, NotifyOne DEF Asleep
<1>5. ASSUME NEW t \in Tasks, SubmitNotify(t) PROVE RestMove /\ UNCHANGED <<scheduler, owner>>
  BY <1>4, <1>5 DEF SubmitNotify, RestMove
<1>6. ASSUME SchedulerNotify PROVE RestMove /\ UNCHANGED <<spc, owner>>
  BY <1>4, <1>6 DEF SchedulerNotify, RestMove
<1>7. ASSUME StopNotify PROVE RestMove /\ UNCHANGED <<spc, scheduler>>
  <2>1. pc' = [v \in Threads |-> IF v \in Asleep THEN "lock" ELSE pc[v]]
    BY <1>7 DEF StopNotify
  <2>2. "lock" \in WorkerSteps /\ missed' \subseteq Workers
    BY <1>7 DEF WorkerSteps, StopNotify, AboutToSleep
  <2>3. pc' \in [Threads -> WorkerSteps \cup CancelSteps]
    BY <1>0, <2>1, <2>2
  <2>4. \A v \in Threads :
          pc'[v] = pc[v] \/ (v \in Workers /\ pc[v] \in Resting /\ pc'[v] \in Resting)
    BY <2>1 DEF Asleep
  <2>5. UNCHANGED <<taskVars, graph, metrics, submitVars, task, todo, queued, pool_running,
                    schedulerVars, promiseVars, waited, terminated>>
    BY <1>7 DEF StopNotify
  <2> QED
    BY <2>2, <2>3, <2>4, <2>5 DEF RestMove
<1> QED
  BY <1>2, <1>3, <1>5, <1>6, <1>7

LEMMA RestTypes ==
  ASSUME TypeInv, RestMove,
         spc' \in [Tasks -> SubmitSteps],
         scheduler' \in {"off", "loop", "visit", "mark", "notify"},
         owner' \in {"idle", "join_scheduler", "notify_all", "join_workers"}
  PROVE  TypeInv'
<1>1. TaskTypeOK' /\ GraphTypeOK' /\ MonitorTypeOK'
  BY DEF RestMove, TypeInv, TypeOK, TaskTypeOK, GraphTypeOK, MonitorTypeOK
<1>2. ExecutorTypeOK'
  BY DEF RestMove, TypeInv, TypeOK, ExecutorTypeOK
<1>3. ThreadsInv'
  <2>1. \A w \in Workers : pc'[w] \in WorkerSteps
    <3>1. \A w \in Workers : pc'[w] = pc[w] \/ pc'[w] \in Resting
      BY WhoIsWho DEF RestMove
    <3> QED
      BY <3>1 DEF TypeInv, ThreadsInv, WorkerSteps
  <2>2. \A k \in Cancellers : pc'[k] \in CancelPc
    BY WhoIsWho DEF RestMove, TypeInv, ThreadsInv
  <2>3. \A w \in Threads : pc'[w] \notin Free => task'[w] \in Tasks
    BY DEF RestMove, TypeInv, ThreadsInv, Free
  <2>4. \A w \in Threads : pc'[w] = "notify_ready" => todo'[w] # << >>
    BY DEF RestMove, TypeInv, ThreadsInv
  <2> QED
    BY <2>1, <2>2, <2>3, <2>4 DEF ThreadsInv
<1> QED
  BY <1>1, <1>2, <1>3 DEF TypeInv, TypeOK

LEMMA WorkerTypes ==
  ASSUME TypeInv, NEW w \in Workers, WorkerStep(w)
  PROVE  TypeInv'
<1>0. w \in Threads /\ w \notin Cancellers
  BY WhoIsWho
<1>1. CASE \/ WorkerLoop(w) \/ WorkerFindNothing(w) \/ WaitTest(w) \/ WaitBlock(w)
           \/ WorkerNotify(w)
  <2>1. RestMove /\ UNCHANGED <<spc, scheduler, owner>>
    BY <1>1, RestSteps
  <2>2. /\ spc' \in [Tasks -> SubmitSteps]
        /\ scheduler' \in {"off", "loop", "visit", "mark", "notify"}
        /\ owner' \in {"idle", "join_scheduler", "notify_all", "join_workers"}
    BY <2>1 DEF TypeInv, TypeOK, ExecutorTypeOK
  <2> QED
    BY <2>1, <2>2, RestTypes
<1>3. CASE WorkerExecute(w)
  <2>1. TaskTypeOK' /\ GraphTypeOK' /\ MonitorTypeOK'
    BY <1>0, <1>3, MonitorTypes
       DEF TypeInv, TypeOK, TaskTypeOK, GraphTypeOK, ThreadsInv, Free,
           TaskStatus, WorkerExecute, ExecuteCancelled, SetStatus
  <2>2. ExecutorTypeOK'
    <3>1. /\ pc' = [pc EXCEPT ![w] = IF cancelled[task[w]] THEN "failure" ELSE "begin"]
          /\ UNCHANGED <<submitVars, task, todo, poolVars, schedulerVars, promiseVars,
                         ownerVars, terminated>>
      BY <1>3 DEF WorkerExecute, Goto
    <3>2. pc' \in [Threads -> WorkerSteps \cup CancelSteps]
      BY <1>0, <3>1 DEF TypeInv, TypeOK, ExecutorTypeOK, NotifySteps, WorkerSteps
    <3> QED
      BY <3>1, <3>2
         DEF TypeInv, TypeOK, ExecutorTypeOK, submitVars, poolVars, schedulerVars, promiseVars,
             ownerVars
  <2>3. ThreadsInv'
    <3>1. PICK step \in {"failure", "begin"} : pc' = [pc EXCEPT ![w] = step]
      BY <1>0, <1>3 DEF WorkerExecute, Goto
    <3>2. task' = task /\ todo' = todo /\ pc[w] = "execute"
      BY <1>3 DEF WorkerExecute
    <3> QED
      BY <1>0, <3>1, <3>2
         DEF TypeInv, TypeOK, ExecutorTypeOK, ThreadsInv, WorkerSteps, CancelPc, Free
  <2> QED
    BY <2>1, <2>2, <2>3 DEF TypeInv, TypeOK
<1>4. CASE WorkerBegin(w)
  <2>1. TaskTypeOK' /\ GraphTypeOK' /\ MonitorTypeOK'
    <3>0. \A t \in Tasks : attempts[t] + 1 \in Nat
      BY DEF TypeInv, TypeOK, TaskTypeOK
    <3>1. attempts' \in [Tasks -> Nat]
      BY <1>4, <3>0 DEF TypeInv, TypeOK, TaskTypeOK, WorkerBegin, ExecuteBegin
    <3>2. status' \in [Tasks -> TaskStatus]
      BY <1>4 DEF TypeInv, TypeOK, TaskTypeOK, WorkerBegin, ExecuteBegin, SetStatus, TaskStatus
    <3> QED
      BY <1>4, <3>1, <3>2, MonitorTypes
         DEF TypeInv, TypeOK, TaskTypeOK, GraphTypeOK, WorkerBegin, ExecuteBegin
  <2>2. ExecutorTypeOK'
    BY <1>0, <1>4
       DEF TypeInv, TypeOK, TaskTypeOK, ExecutorTypeOK, ThreadsInv, Free,
           WorkerBegin, ExecuteBegin, SetStatus,
           Goto, BackToLoop, Enqueue, NotifySteps, WorkerSteps, CancelSteps, SubmitSteps
  <2>3. ThreadsInv'
    BY <1>0, <1>4
       DEF TypeInv, TypeOK, ExecutorTypeOK, ThreadsInv, WorkerBegin, Goto, BackToLoop,
           NotifySteps, WorkerSteps, CancelPc, Free
  <2> QED
    BY <2>1, <2>2, <2>3 DEF TypeInv, TypeOK
<1>5. CASE WorkerOnSuccess(w)
  <2>1. TaskTypeOK' /\ GraphTypeOK' /\ MonitorTypeOK'
    BY <1>0, <1>5, MonitorTypes
       DEF TypeInv, TypeOK, TaskTypeOK, GraphTypeOK, ThreadsInv, Free,
           TaskStatus, WorkerOnSuccess
  <2>2. ExecutorTypeOK'
    BY <1>0, <1>5
       DEF TypeInv, TypeOK, TaskTypeOK, ExecutorTypeOK, ThreadsInv, Free, WorkerOnSuccess,
           Goto, BackToLoop, Enqueue, NotifySteps, WorkerSteps, CancelSteps, SubmitSteps
  <2>3. ThreadsInv'
    BY <1>0, <1>5
       DEF TypeInv, TypeOK, ExecutorTypeOK, ThreadsInv, WorkerOnSuccess, Goto, BackToLoop,
           NotifySteps, WorkerSteps, CancelPc, Free
  <2> QED
    BY <2>1, <2>2, <2>3 DEF TypeInv, TypeOK
<1>6. CASE WorkerCallback(w)
  <2>1. TaskTypeOK' /\ GraphTypeOK' /\ MonitorTypeOK'
    BY <1>0, <1>6, MonitorTypes
       DEF TypeInv, TypeOK, TaskTypeOK, GraphTypeOK, ThreadsInv, Free,
           TaskStatus, WorkerCallback
  <2>2. ExecutorTypeOK'
    BY <1>0, <1>6
       DEF TypeInv, TypeOK, TaskTypeOK, ExecutorTypeOK, ThreadsInv, Free, WorkerCallback,
           Goto, BackToLoop, Enqueue, NotifySteps, WorkerSteps, CancelSteps, SubmitSteps
  <2>3. ThreadsInv'
    BY <1>0, <1>6
       DEF TypeInv, TypeOK, ExecutorTypeOK, ThreadsInv, WorkerCallback, Goto, BackToLoop,
           NotifySteps, WorkerSteps, CancelPc, Free
  <2> QED
    BY <2>1, <2>2, <2>3 DEF TypeInv, TypeOK
<1>7. CASE WorkerFulfillPromise(w)
  <2>1. TaskTypeOK' /\ GraphTypeOK' /\ MonitorTypeOK'
    BY <1>0, <1>7, MonitorTypes
       DEF TypeInv, TypeOK, TaskTypeOK, GraphTypeOK, ThreadsInv, Free,
           TaskStatus, WorkerFulfillPromise
  <2>2. ExecutorTypeOK'
    BY <1>0, <1>7, ZenonT(60)
       DEF TypeInv, TypeOK, TaskTypeOK, ExecutorTypeOK, ThreadsInv, Free,
           WorkerFulfillPromise,
           Goto, BackToLoop, Enqueue, NotifySteps, WorkerSteps, CancelSteps, SubmitSteps
  <2>3. ThreadsInv'
    BY <1>0, <1>7
       DEF TypeInv, TypeOK, ExecutorTypeOK, ThreadsInv, WorkerFulfillPromise,
           Goto, BackToLoop,
           NotifySteps, WorkerSteps, CancelPc, Free
  <2> QED
    BY <2>1, <2>2, <2>3 DEF TypeInv, TypeOK
<1>8. CASE WorkerOnFailure(w)
  <2>1. TaskTypeOK' /\ GraphTypeOK' /\ MonitorTypeOK'
    BY <1>0, <1>8, MonitorTypes
       DEF TypeInv, TypeOK, TaskTypeOK, GraphTypeOK, ThreadsInv, Free,
           TaskStatus, WorkerOnFailure
  <2>2. ExecutorTypeOK'
    BY <1>0, <1>8
       DEF TypeInv, TypeOK, TaskTypeOK, ExecutorTypeOK, ThreadsInv, Free, WorkerOnFailure,
           Goto, BackToLoop, Enqueue, NotifySteps, WorkerSteps, CancelSteps, SubmitSteps
  <2>3. ThreadsInv'
    BY <1>0, <1>8
       DEF TypeInv, TypeOK, ExecutorTypeOK, ThreadsInv, WorkerOnFailure, Goto, BackToLoop,
           NotifySteps, WorkerSteps, CancelPc, Free
  <2> QED
    BY <2>1, <2>2, <2>3 DEF TypeInv, TypeOK
<1>9. CASE WorkerCanRetry(w)
  <2>1. TaskTypeOK' /\ GraphTypeOK' /\ MonitorTypeOK'
    <3>1. UNCHANGED <<taskVars, graph>> /\ (record_retry \/ UNCHANGED metrics)
      BY <1>9 DEF WorkerCanRetry
    <3>2. MonitorTypeOK'
      BY <1>0, <3>1, MonitorTypes DEF TypeInv, TypeOK
    <3>3. TaskTypeOK' /\ GraphTypeOK'
      BY <1>0, <3>1 DEF TypeInv, TypeOK, TaskTypeOK, GraphTypeOK, Free, taskVars
    <3> QED
      BY <3>2, <3>3
  <2>2. ExecutorTypeOK'
    BY <1>0, <1>9, ZenonT(60)
       DEF TypeInv, TypeOK, TaskTypeOK, ExecutorTypeOK, ThreadsInv, Free, WorkerCanRetry,
           Goto, BackToLoop, Enqueue, NotifySteps, WorkerSteps, CancelSteps, SubmitSteps
  <2>3. ThreadsInv'
    <3>1. PICK step \in {"reset", "fail_promise"} : pc' = [pc EXCEPT ![w] = step]
      BY <1>0, <1>9 DEF WorkerCanRetry, Goto
    <3>2. task' = task /\ todo' = todo /\ pc[w] = "can_retry"
      BY <1>9 DEF WorkerCanRetry
    <3> QED
      BY <1>0, <3>1, <3>2
         DEF TypeInv, TypeOK, ExecutorTypeOK, ThreadsInv, WorkerSteps, CancelPc, Free
  <2> QED
    BY <2>1, <2>2, <2>3 DEF TypeInv, TypeOK
<1>10. CASE WorkerReset(w)
  <2>1. TaskTypeOK' /\ GraphTypeOK' /\ MonitorTypeOK'
    BY <1>0, <1>10, MonitorTypes
       DEF TypeInv, TypeOK, TaskTypeOK, GraphTypeOK, ThreadsInv, Free,
           TaskStatus, WorkerReset, reset_for_retry, SetStatus
  <2>2. ExecutorTypeOK'
    BY <1>0, <1>10
       DEF TypeInv, TypeOK, TaskTypeOK, ExecutorTypeOK, ThreadsInv, Free,
           WorkerReset, reset_for_retry, SetStatus,
           Goto, BackToLoop, Enqueue, NotifySteps, WorkerSteps, CancelSteps, SubmitSteps
  <2>3. ThreadsInv'
    BY <1>0, <1>10
       DEF TypeInv, TypeOK, ExecutorTypeOK, ThreadsInv, WorkerReset, Goto, BackToLoop,
           NotifySteps, WorkerSteps, CancelPc, Free
  <2> QED
    BY <2>1, <2>2, <2>3 DEF TypeInv, TypeOK
<1>11. CASE WorkerResubmit(w)
  <2>1. TaskTypeOK' /\ GraphTypeOK' /\ MonitorTypeOK'
    BY <1>0, <1>11, MonitorTypes
       DEF TypeInv, TypeOK, TaskTypeOK, GraphTypeOK, ThreadsInv, Free,
           TaskStatus, WorkerResubmit, try_mark_enqueued
  <2>2. ExecutorTypeOK'
    <3>0. \A t \in Tasks : queued[t] + 1 \in Nat
      BY DEF TypeInv, TypeOK, ExecutorTypeOK
    <3>3. queued' = queued \/ queued' = [queued EXCEPT ![task[w]] = @ + 1]
      BY <1>11 DEF WorkerResubmit, Enqueue
    <3>1. queued' \in [Tasks -> Nat]
      <4>1. queued \in [Tasks -> Nat] /\ task[w] \in Tasks
        BY <1>0, <1>11 DEF TypeInv, TypeOK, ExecutorTypeOK, ThreadsInv, Free, WorkerResubmit
      <4>2. CASE queued' = queued
        BY <4>1, <4>2
      <4>3. CASE queued' = [queued EXCEPT ![task[w]] = @ + 1]
        BY <3>0, <4>1, <4>3
      <4> QED
        BY <3>3, <4>2, <4>3
    <3>2. /\ pc' \in [Threads -> WorkerSteps \cup CancelSteps]
          /\ task' \in [Threads -> Tasks \cup {NoTask}]
      BY <1>0, <1>11
         DEF TypeInv, TypeOK, ExecutorTypeOK, WorkerResubmit, BackToLoop, Goto, WorkerSteps,
             CancelSteps, NotifySteps
    <3> QED
      BY <1>11, <3>1, <3>2 DEF TypeInv, TypeOK, ExecutorTypeOK, WorkerResubmit
  <2>3. ThreadsInv'
    BY <1>0, <1>11
       DEF TypeInv, TypeOK, ExecutorTypeOK, ThreadsInv, WorkerResubmit, Goto, BackToLoop,
           NotifySteps, WorkerSteps, CancelPc, Free
  <2> QED
    BY <2>1, <2>2, <2>3 DEF TypeInv, TypeOK
<1>12. ASSUME NEW t \in Tasks, WorkerTake(w, t) PROVE TypeInv'
  <2>1. TaskTypeOK' /\ GraphTypeOK' /\ MonitorTypeOK'
    BY <1>0, <1>12, MonitorTypes
       DEF TypeInv, TypeOK, TaskTypeOK, GraphTypeOK, ThreadsInv, Free,
           TaskStatus, WorkerTake
  <2>2. ExecutorTypeOK'
    <3>1. /\ pc' = [pc EXCEPT ![w] = "execute"] /\ task' = [task EXCEPT ![w] = t]
          /\ queued[t] > 0 /\ queued' = [queued EXCEPT ![t] = @ - 1]
          /\ UNCHANGED <<submitVars, todo, pool_running, missed, schedulerVars, promiseVars,
                         ownerVars, terminated>>
      BY <1>12 DEF WorkerTake, Goto
    <3>2. pc' \in [Threads -> WorkerSteps \cup CancelSteps]
      BY <1>0, <3>1 DEF TypeInv, TypeOK, ExecutorTypeOK, WorkerSteps
    <3>3. task' \in [Threads -> Tasks \cup {NoTask}]
      BY <1>0, <3>1 DEF TypeInv, TypeOK, ExecutorTypeOK
    <3>4. queued' \in [Tasks -> Nat]
      <4>1. queued \in [Tasks -> Nat] /\ queued[t] - 1 \in Nat
        BY <3>1 DEF TypeInv, TypeOK, ExecutorTypeOK
      <4> QED
        BY <3>1, <4>1
    <3> QED
      BY <3>1, <3>2, <3>3, <3>4 DEF TypeInv, TypeOK, ExecutorTypeOK
  <2>3. ThreadsInv'
    BY <1>0, <1>12
       DEF TypeInv, TypeOK, ExecutorTypeOK, ThreadsInv, WorkerTake, Goto, BackToLoop,
           NotifySteps, WorkerSteps, CancelPc, Free
  <2> QED
    BY <2>1, <2>2, <2>3 DEF TypeInv, TypeOK
<1>13. ASSUME NEW outcome, WorkerEnd(w, outcome) PROVE TypeInv'
  <2>1. TaskTypeOK' /\ GraphTypeOK' /\ MonitorTypeOK'
    BY <1>0, <1>13, MonitorTypes
       DEF TypeInv, TypeOK, TaskTypeOK, GraphTypeOK, ThreadsInv, Free,
           TaskStatus, WorkerEnd, ExecuteEnd, SetStatus
  <2>2. ExecutorTypeOK'
    BY <1>0, <1>13
       DEF TypeInv, TypeOK, TaskTypeOK, ExecutorTypeOK, ThreadsInv, Free,
           WorkerEnd, ExecuteEnd, SetStatus,
           Goto, BackToLoop, Enqueue, NotifySteps, WorkerSteps, CancelSteps, SubmitSteps
  <2>3. ThreadsInv'
    BY <1>0, <1>13
       DEF TypeInv, TypeOK, ExecutorTypeOK, ThreadsInv, WorkerEnd, Goto, BackToLoop,
           NotifySteps, WorkerSteps, CancelPc, Free
  <2> QED
    BY <2>1, <2>2, <2>3 DEF TypeInv, TypeOK
<1> QED
  BY <1>1, <1>3, <1>4, <1>5, <1>6, <1>7, <1>8, <1>9, <1>10, <1>11, <1>12, <1>13
     DEF WorkerStep

LEMMA NotifyTypes ==
  ASSUME TypeInv, NEW w \in Threads, NotifyStep(w)
  PROVE  TypeInv'
<1>1. CASE FailPromise(w)
  <2>0. UNCHANGED <<taskVars, graph, metrics, submitVars, todo, poolVars, schedulerVars, ownerVars>>
    BY <1>1 DEF FailPromise
  <2>1. TaskTypeOK' /\ GraphTypeOK' /\ MonitorTypeOK'
    BY <2>0 DEF TypeInv, TypeOK, TaskTypeOK, GraphTypeOK, MonitorTypeOK, taskVars
  <2>2. ExecutorTypeOK'
    <3>1. /\ pc' \in {[pc EXCEPT ![w] = step] : step \in {"loop", "idle", "notify", "record"}}
          /\ task' \in {task, [task EXCEPT ![w] = NoTask]}
      <4>1. CASE task[w] \in registered /\ promise[task[w]] # "empty"
        BY <1>1, <4>1 DEF FailPromise, Goto, BackToLoop
      <4>2. CASE ~(task[w] \in registered /\ promise[task[w]] # "empty")
        BY <1>1, <4>2 DEF FailPromise, Goto
      <4> QED
        BY <4>1, <4>2
    <3>2. pc' \in [Threads -> WorkerSteps \cup CancelSteps]
      <4>1. PICK step \in {"loop", "idle", "notify", "record"} : pc' = [pc EXCEPT ![w] = step]
        BY <3>1
      <4>2. step \in WorkerSteps \cup CancelSteps
        BY <4>1 DEF WorkerSteps, CancelSteps
      <4> QED
        BY <4>1, <4>2 DEF TypeInv, TypeOK, ExecutorTypeOK
    <3>3. task' \in [Threads -> Tasks \cup {NoTask}]
      BY <3>1 DEF TypeInv, TypeOK, ExecutorTypeOK
    <3>4. promise' \in [Tasks -> {"none", "empty", "value", "exception"}] /\ registered' \subseteq Tasks
      BY <1>1 DEF TypeInv, TypeOK, ExecutorTypeOK, FailPromise
    <3>5. terminated' \in {"no", "retry", "promise", "scheduler"}
      BY <1>1 DEF TypeInv, TypeOK, ExecutorTypeOK, FailPromise
    <3> QED
      BY <2>0, <3>2, <3>3, <3>4, <3>5
         DEF TypeInv, TypeOK, ExecutorTypeOK, submitVars, poolVars, schedulerVars, ownerVars
  <2>3. ThreadsInv'
    <3>1. CASE /\ pc' = [pc EXCEPT ![w] = IF w \in Workers THEN "loop" ELSE "idle"]
               /\ task' = [task EXCEPT ![w] = NoTask]
      BY WhoIsWho, <2>0, <3>1
         DEF TypeInv, TypeOK, ExecutorTypeOK, ThreadsInv, WorkerSteps, CancelPc, Free
    <3>2. CASE /\ pc' = [pc EXCEPT ![w] = IF w \in Workers THEN "notify" ELSE "record"]
               /\ task' = task
      BY WhoIsWho, <1>1, <2>0, <3>2
         DEF TypeInv, TypeOK, ExecutorTypeOK, ThreadsInv, WorkerSteps, CancelPc, Free, FailPromise
    <3> QED
      BY <1>1, <3>1, <3>2 DEF FailPromise, Goto, BackToLoop
  <2> QED
    BY <2>1, <2>2, <2>3 DEF TypeInv, TypeOK
<1>2. CASE NotifyBegin(w)
  <2>1. TaskTypeOK' /\ GraphTypeOK' /\ MonitorTypeOK'
    BY WhoIsWho, <1>2, MonitorTypes
       DEF TypeInv, TypeOK, TaskTypeOK, GraphTypeOK, ThreadsInv, Free,
           TaskStatus, NotifyBegin, DependentsOf
  <2>2. ExecutorTypeOK'
    <3>1. todo' \in [Threads -> Seq(Tasks)]
      <4>1. task[w] \in Tasks
        BY WhoIsWho, <1>2 DEF TypeInv, ThreadsInv, Free, NotifyBegin
      <4>2. DependentsOf(task[w]) \in Seq(Tasks)
        BY <4>1 DEF TypeInv, TypeOK, TaskTypeOK, DependentsOf
      <4> QED
        BY <1>2, <4>2 DEF TypeInv, TypeOK, ExecutorTypeOK, NotifyBegin
    <3>2. pc' \in [Threads -> WorkerSteps \cup CancelSteps]
      BY <1>2
         DEF TypeInv, TypeOK, ExecutorTypeOK, NotifyBegin, Goto, WorkerSteps, CancelSteps,
             NotifySteps
    <3> QED
      BY <1>2, <3>1, <3>2 DEF TypeInv, TypeOK, ExecutorTypeOK, NotifyBegin
  <2>3. ThreadsInv'
    BY WhoIsWho, <1>2
       DEF TypeInv, TypeOK, ExecutorTypeOK, ThreadsInv, NotifyBegin, Goto, BackToLoop,
           NotifySteps, WorkerSteps, CancelPc, Free
  <2> QED
    BY <2>1, <2>2, <2>3 DEF TypeInv, TypeOK
<1>3. CASE NotifyNext(w)
  <2>1. TaskTypeOK' /\ GraphTypeOK' /\ MonitorTypeOK'
    <3>1. Head(todo[w]) \in Tasks
      BY <1>3 DEF TypeInv, TypeOK, ExecutorTypeOK, NotifyNext
    <3>2. dependencies_count' \in [Tasks -> Int]
      BY <1>3, <3>1 DEF TypeInv, TypeOK, TaskTypeOK, NotifyNext, NotifyDecrement
    <3> QED
      BY <1>3, <3>2, MonitorTypes
         DEF TypeInv, TypeOK, TaskTypeOK, GraphTypeOK, NotifyNext, NotifyDecrement
  <2>2. ExecutorTypeOK'
    <3>1. todo' \in [Threads -> Seq(Tasks)]
      <4>1. todo[w] \in Seq(Tasks) /\ todo[w] # << >>
        BY <1>3 DEF TypeInv, TypeOK, ExecutorTypeOK, NotifyNext
      <4>2. Tail(todo[w]) \in Seq(Tasks)
        BY <4>1
      <4> QED
        BY <1>3, <4>2 DEF TypeInv, TypeOK, ExecutorTypeOK, NotifyNext
    <3>2. pc' \in [Threads -> WorkerSteps \cup CancelSteps]
      BY <1>3
         DEF TypeInv, TypeOK, ExecutorTypeOK, NotifyNext, Goto, WorkerSteps, CancelSteps,
             NotifySteps
    <3> QED
      BY <1>3, <3>1, <3>2 DEF TypeInv, TypeOK, ExecutorTypeOK, NotifyNext
  <2>3. ThreadsInv'
    BY WhoIsWho, <1>3
       DEF TypeInv, TypeOK, ExecutorTypeOK, ThreadsInv, NotifyNext, Goto, BackToLoop,
           NotifySteps, WorkerSteps, CancelPc, Free
  <2> QED
    BY <2>1, <2>2, <2>3 DEF TypeInv, TypeOK
<1>4. CASE NotifyStoreReady(w)
  <2>1. TaskTypeOK' /\ GraphTypeOK' /\ MonitorTypeOK'
    BY WhoIsWho, <1>4, MonitorTypes
       DEF TypeInv, TypeOK, TaskTypeOK, GraphTypeOK, ThreadsInv, Free,
           TaskStatus, NotifyStoreReady, NotifyReady, SetStatus
  <2>2. ExecutorTypeOK'
    <3>1. todo' \in [Threads -> Seq(Tasks)]
      <4>1. todo[w] \in Seq(Tasks) /\ todo[w] # << >>
        BY <1>4 DEF TypeInv, TypeOK, ExecutorTypeOK, ThreadsInv, NotifyStoreReady
      <4>2. Tail(todo[w]) \in Seq(Tasks)
        BY <4>1
      <4> QED
        BY <1>4, <4>2 DEF TypeInv, TypeOK, ExecutorTypeOK, NotifyStoreReady
    <3>2. pc' \in [Threads -> WorkerSteps \cup CancelSteps]
      BY <1>4
         DEF TypeInv, TypeOK, ExecutorTypeOK, NotifyStoreReady, Goto, WorkerSteps, CancelSteps,
             NotifySteps
    <3> QED
      BY <1>4, <3>1, <3>2 DEF TypeInv, TypeOK, ExecutorTypeOK, NotifyStoreReady
  <2>3. ThreadsInv'
    BY WhoIsWho, <1>4
       DEF TypeInv, TypeOK, ExecutorTypeOK, ThreadsInv, NotifyStoreReady, Goto,
           BackToLoop,
           NotifySteps, WorkerSteps, CancelPc, Free
  <2> QED
    BY <2>1, <2>2, <2>3 DEF TypeInv, TypeOK
<1>5. CASE NotifyEnd(w)
  <2>1. TaskTypeOK' /\ GraphTypeOK' /\ MonitorTypeOK'
    BY WhoIsWho, <1>5, MonitorTypes
       DEF TypeInv, TypeOK, TaskTypeOK, GraphTypeOK, ThreadsInv, Free,
           TaskStatus, NotifyEnd
  <2>2. ExecutorTypeOK'
    BY WhoIsWho, <1>5
       DEF TypeInv, TypeOK, TaskTypeOK, ExecutorTypeOK, ThreadsInv, Free, NotifyEnd,
           Goto, BackToLoop, Enqueue, NotifySteps, WorkerSteps, CancelSteps, SubmitSteps
  <2>3. ThreadsInv'
    BY WhoIsWho, <1>5
       DEF TypeInv, TypeOK, ExecutorTypeOK, ThreadsInv, NotifyEnd, Goto, BackToLoop,
           NotifySteps, WorkerSteps, CancelPc, Free
  <2> QED
    BY <2>1, <2>2, <2>3 DEF TypeInv, TypeOK
<1>6. CASE ClearFlag(w)
  <2>1. TaskTypeOK' /\ GraphTypeOK' /\ MonitorTypeOK'
    BY WhoIsWho, <1>6, MonitorTypes
       DEF TypeInv, TypeOK, TaskTypeOK, GraphTypeOK, ThreadsInv, Free,
           TaskStatus, ClearFlag, clear_enqueued_flag
  <2>2. ExecutorTypeOK'
    BY WhoIsWho, <1>6
       DEF TypeInv, TypeOK, TaskTypeOK, ExecutorTypeOK, ThreadsInv, Free,
           ClearFlag, clear_enqueued_flag,
           Goto, BackToLoop, Enqueue, NotifySteps, WorkerSteps, CancelSteps, SubmitSteps
  <2>3. ThreadsInv'
    BY WhoIsWho, <1>6
       DEF TypeInv, TypeOK, ExecutorTypeOK, ThreadsInv, ClearFlag, Goto, BackToLoop,
           NotifySteps, WorkerSteps, CancelPc, Free
  <2> QED
    BY <2>1, <2>2, <2>3 DEF TypeInv, TypeOK
<1> QED
  BY <1>1, <1>2, <1>3, <1>4, <1>5, <1>6
     DEF NotifyStep

LEMMA SubmitTypes ==
  ASSUME TypeInv, NEW t \in Tasks, SubmitBegin(t) \/ SubmitStep(t)
  PROVE  TypeInv'
<1>1. ~SubmitNotify(t) => MonitorTypeOK' /\ ThreadsInv'
  BY MonitorTypes
     DEF SubmitStep, SubmitBegin, SubmitAddTask, SubmitAddDependency, SubmitLoadStatus,
         SubmitLoadCount, SubmitToPool, SubmitAlreadyMarked, TypeInv, TypeOK, ThreadsInv
<1>2. CASE SubmitBegin(t)
  <2>1. TaskTypeOK' /\ GraphTypeOK'
    BY <1>2 DEF SubmitBegin, TypeInv, TypeOK, TaskTypeOK, GraphTypeOK
  <2>2. ExecutorTypeOK'
    BY <1>2 DEF SubmitBegin, TypeInv, TypeOK, ExecutorTypeOK, SubmitSteps
  <2>3. MonitorTypeOK' /\ ThreadsInv'
    BY <1>1, <1>2 DEF SubmitNotify, SubmitBegin
  <2> QED
    BY <2>1, <2>2, <2>3 DEF TypeInv, TypeOK
<1>3. CASE SubmitAddTask(t)
  BY <1>1, <1>3
     DEF SubmitNotify, SubmitAddTask, add_task, TypeInv, TypeOK, TaskTypeOK, GraphTypeOK, ExecutorTypeOK,
         SubmitSteps
<1>4. ASSUME NEW d \in Tasks, SubmitAddDependency(t, d) PROVE TypeInv'
  <2>1. \A u \in Tasks : dependencies_count[u] + 1 \in Int
    BY DEF TypeInv, TypeOK, TaskTypeOK
  <2>2. TaskTypeOK'
    <3>1. CASE UNCHANGED taskVars
      BY <3>1 DEF TypeInv, TypeOK, TaskTypeOK
    <3>2. CASE add_dependency(t, d)
      BY <2>1, <3>2, SMTT(30) DEF TypeInv, TypeOK, TaskTypeOK, add_dependency
    <3> QED
      BY <1>4, <3>1, <3>2 DEF SubmitAddDependency, GraphAddDependency
  <2>3. GraphTypeOK' /\ ExecutorTypeOK'
    BY <1>4
       DEF TypeInv, TypeOK, GraphTypeOK, ExecutorTypeOK, SubmitAddDependency,
           GraphAddDependency
  <2> QED
    BY <1>1, <1>4, <2>2, <2>3 DEF TypeInv, TypeOK, SubmitAddDependency, SubmitNotify
<1>5. CASE SubmitLoadStatus(t) \/ SubmitLoadCount(t) \/ SubmitAlreadyMarked(t)
  <2>1. PICK step \in {"load_count", "mark", "done"} : spc' = [spc EXCEPT ![t] = step]
    BY <1>5 DEF SubmitLoadStatus, SubmitLoadCount, SubmitAlreadyMarked
  <2>2. spc' \in [Tasks -> SubmitSteps]
    BY <2>1 DEF TypeInv, TypeOK, ExecutorTypeOK, SubmitSteps
  <2>3. UNCHANGED <<taskVars, graph, sdeps, threadVars, poolVars, schedulerVars, promiseVars,
                    ownerVars, terminated>>
    BY <1>5 DEF SubmitLoadStatus, SubmitLoadCount, SubmitAlreadyMarked
  <2>4. TaskTypeOK' /\ GraphTypeOK'
    BY <2>3 DEF TypeInv, TypeOK, TaskTypeOK, GraphTypeOK, taskVars
  <2>5. ExecutorTypeOK'
    BY <2>2, <2>3
       DEF TypeInv, TypeOK, ExecutorTypeOK, threadVars, poolVars, schedulerVars, promiseVars,
           ownerVars
  <2> QED
    BY <1>1, <1>5, <2>4, <2>5
       DEF TypeInv, TypeOK, SubmitLoadStatus, SubmitLoadCount, SubmitAlreadyMarked, SubmitNotify
<1>6. CASE SubmitToPool(t)
  <2>1. \A u \in Tasks : queued[u] + 1 \in Nat
    BY DEF TypeInv, TypeOK, ExecutorTypeOK
  <2>2. TaskTypeOK' /\ GraphTypeOK'
    BY <1>6 DEF TypeInv, TypeOK, TaskTypeOK, GraphTypeOK, SubmitToPool, try_mark_enqueued
  <2>3. CASE pool_running
    BY <1>1, <1>6, <2>1, <2>2, <2>3, ZenonT(60)
       DEF SubmitNotify, TypeInv, TypeOK, ExecutorTypeOK, SubmitToPool, Enqueue, SubmitSteps
  <2>4. CASE ~pool_running
    BY <1>1, <1>6, <2>2, <2>4
       DEF SubmitNotify, TypeInv, TypeOK, ExecutorTypeOK, SubmitToPool, SubmitSteps
  <2> QED
    BY <2>3, <2>4
<1>7. CASE SubmitNotify(t)
  <2>1. RestMove /\ UNCHANGED <<scheduler, owner>>
    BY <1>7, RestSteps
  <2>2. /\ spc' \in [Tasks -> SubmitSteps]
        /\ scheduler' \in {"off", "loop", "visit", "mark", "notify"}
        /\ owner' \in {"idle", "join_scheduler", "notify_all", "join_workers"}
    BY <1>7, <2>1 DEF TypeInv, TypeOK, ExecutorTypeOK, SubmitNotify, SubmitSteps
  <2> QED
    BY <2>1, <2>2, RestTypes
<1> QED
  BY <1>2, <1>3, <1>4, <1>5, <1>6, <1>7 DEF SubmitStep

LEMMA SchedulerTypes ==
  ASSUME TypeInv, SchedulerStep
  PROVE  TypeInv'
<1>1. ~SchedulerNotify => MonitorTypeOK' /\ ThreadsInv' /\ GraphTypeOK'
  BY MonitorTypes
     DEF SchedulerStep, SchedulerLock, SchedulerUnlock, SchedulerExit, SchedulerVisit,
         SchedulerMark, TypeInv, TypeOK, ThreadsInv, GraphTypeOK
<1>2. CASE SchedulerLock \/ SchedulerUnlock \/ SchedulerExit
  BY <1>1, <1>2
     DEF SchedulerLock, SchedulerUnlock, SchedulerExit, SchedulerNotify, TypeInv, TypeOK, TaskTypeOK,
         GraphTypeOK, ExecutorTypeOK
<1>3. ASSUME NEW t \in Tasks, SchedulerVisit(t) PROVE TypeInv'
  BY <1>1, <1>3 DEF SchedulerVisit, SchedulerNotify, TypeInv, TypeOK, TaskTypeOK, ExecutorTypeOK
<1>4. ASSUME NEW t \in Tasks, SchedulerMark(t) PROVE TypeInv'
  <2>1. \A u \in Tasks : queued[u] + 1 \in Nat
    BY DEF TypeInv, TypeOK, ExecutorTypeOK
  <2>2. TaskTypeOK'
    BY <1>4 DEF TypeInv, TypeOK, TaskTypeOK, SchedulerMark, try_mark_enqueued
  <2>3. queued' = queued \/ queued' = [queued EXCEPT ![t] = @ + 1]
    BY <1>4 DEF SchedulerMark, Enqueue
  <2>4. queued' \in [Tasks -> Nat]
    BY <2>1, <2>3 DEF TypeInv, TypeOK, ExecutorTypeOK
  <2>5. ExecutorTypeOK'
    BY <1>4, <2>4 DEF TypeInv, TypeOK, ExecutorTypeOK, SchedulerMark, AfterTask
  <2> QED
    BY <1>1, <1>4, <2>2, <2>5 DEF TypeInv, TypeOK, SchedulerMark, SchedulerNotify
<1>5. CASE SchedulerNotify
  <2>1. RestMove /\ UNCHANGED <<spc, owner>>
    BY <1>5, RestSteps
  <2>2. /\ spc' \in [Tasks -> SubmitSteps]
        /\ scheduler' \in {"off", "loop", "visit", "mark", "notify"}
        /\ owner' \in {"idle", "join_scheduler", "notify_all", "join_workers"}
    BY <1>5, <2>1 DEF TypeInv, TypeOK, ExecutorTypeOK, SchedulerNotify, AfterTask
  <2> QED
    BY <2>1, <2>2, RestTypes
<1> QED
  BY <1>2, <1>3, <1>4, <1>5 DEF SchedulerStep

LEMMA CancelTypes ==
  ASSUME TypeInv, NEW k \in Cancellers,
         CancelRecord(k) \/ \E t \in Tasks : CancelTask(k, t)
  PROVE  TypeInv'
<1>0. k \in Threads /\ k \notin Workers
  BY WhoIsWho
<1>1. CASE CancelRecord(k)
  <2>1. TaskTypeOK' /\ GraphTypeOK' /\ MonitorTypeOK'
    BY <1>1, MonitorTypes DEF TypeInv, TypeOK, TaskTypeOK, GraphTypeOK, CancelRecord
  <2>2. ExecutorTypeOK'
    BY <1>1
       DEF TypeInv, TypeOK, ExecutorTypeOK, CancelRecord, Goto, CancelSteps
  <2>3. ThreadsInv'
    BY <1>0, <1>1
       DEF TypeInv, TypeOK, ExecutorTypeOK, ThreadsInv, CancelRecord, Goto, CancelPc, Free
  <2> QED
    BY <2>1, <2>2, <2>3 DEF TypeInv, TypeOK
<1>2. ASSUME NEW t \in Tasks, CancelTask(k, t) PROVE TypeInv'
  <2>1. TaskTypeOK' /\ GraphTypeOK' /\ MonitorTypeOK'
    BY <1>2, MonitorTypes
       DEF TypeInv, TypeOK, TaskTypeOK, GraphTypeOK, CancelTask, Cancel, SetStatus, TaskStatus
  <2>2. ExecutorTypeOK'
    BY <1>2
       DEF TypeInv, TypeOK, ExecutorTypeOK, CancelTask, Goto, CancelSteps
  <2>3. ThreadsInv'
    BY <1>0, <1>2
       DEF TypeInv, TypeOK, ExecutorTypeOK, ThreadsInv, CancelTask, Goto, CancelPc, Free
  <2> QED
    BY <2>1, <2>2, <2>3 DEF TypeInv, TypeOK
<1> QED
  BY <1>1, <1>2

LEMMA OwnerTypes ==
  ASSUME TypeInv, OwnerStep
  PROVE  TypeInv'
<1>0. CASE StopNotify
  <2>1. RestMove /\ UNCHANGED <<spc, scheduler>>
    BY <1>0, RestSteps
  <2>2. /\ spc' \in [Tasks -> SubmitSteps]
        /\ scheduler' \in {"off", "loop", "visit", "mark", "notify"}
        /\ owner' \in {"idle", "join_scheduler", "notify_all", "join_workers"}
    BY <1>0, <2>1 DEF TypeInv, TypeOK, ExecutorTypeOK, StopNotify
  <2> QED
    BY <2>1, <2>2, RestTypes
<1> SUFFICES ASSUME Start \/ StopScheduler \/ StopPool \/ StopReturn \/ WaitReturns
             PROVE  TypeInv'
  BY <1>0 DEF OwnerStep
<1>1. UNCHANGED <<taskVars, graph, metrics, threadVars>>
  BY DEF Start, StopScheduler, StopPool, StopReturn, WaitReturns
<1>2. TaskTypeOK' /\ GraphTypeOK' /\ MonitorTypeOK' /\ ThreadsInv'
  BY <1>1
     DEF TypeInv, TypeOK, TaskTypeOK, GraphTypeOK, MonitorTypeOK, ThreadsInv, taskVars, threadVars
<1>3. ExecutorTypeOK'
  <2>1. UNCHANGED <<submitVars, queued, missed, promiseVars, visit, ready, terminated>>
    BY DEF Start, StopScheduler, StopPool, StopReturn, WaitReturns
  <2>2. /\ pool_running' \in {pool_running, FALSE}
        /\ scheduler' \in {scheduler, "loop"}
        /\ scheduler_running' \in {scheduler_running, TRUE, FALSE}
        /\ owner' \in {owner, "idle", "join_scheduler", "notify_all", "join_workers"}
        /\ waited' \in {waited, TRUE}
    BY DEF Start, StopScheduler, StopPool, StopReturn, WaitReturns
  <2>3. /\ pool_running' \in BOOLEAN /\ scheduler_running' \in BOOLEAN /\ waited' \in BOOLEAN
        /\ scheduler' \in {"off", "loop", "visit", "mark", "notify"}
        /\ owner' \in {"idle", "join_scheduler", "notify_all", "join_workers"}
    BY <2>2 DEF TypeInv, TypeOK, ExecutorTypeOK
  <2>4. /\ spc' \in [Tasks -> SubmitSteps] /\ sdeps' \in [Tasks -> SUBSET Tasks]
        /\ pc' \in [Threads -> WorkerSteps \cup CancelSteps]
        /\ task' \in [Threads -> Tasks \cup {NoTask}]
        /\ todo' \in [Threads -> Seq(Tasks)] /\ queued' \in [Tasks -> Nat]
        /\ missed' \subseteq Workers
    BY <1>1, <2>1 DEF TypeInv, TypeOK, ExecutorTypeOK
  <2>5. /\ visit' \subseteq Tasks /\ ready' \subseteq Tasks /\ registered' \subseteq Tasks
        /\ promise' \in [Tasks -> {"none", "empty", "value", "exception"}]
        /\ terminated' \in {"no", "retry", "promise", "scheduler"}
    BY <2>1 DEF TypeInv, TypeOK, ExecutorTypeOK
  <2> QED
    BY <2>3, <2>4, <2>5 DEF ExecutorTypeOK
<1> QED
  BY <1>2, <1>3 DEF TypeInv, TypeOK

LEMMA TypeStep == TypeInv /\ [Next]_vars => TypeInv'
<1> SUFFICES ASSUME TypeInv, [Next]_vars PROVE TypeInv'
  OBVIOUS
<1>1. CASE UNCHANGED vars
  BY <1>1 DEF TypeInv, TypeOK, TaskTypeOK, GraphTypeOK, MonitorTypeOK, ExecutorTypeOK, ThreadsInv
<1>2. CASE Step
  BY <1>2, SubmitTypes, SchedulerTypes, WorkerTypes, CancelTypes, NotifyTypes, OwnerTypes
     DEF Step
<1> QED
  BY <1>1, <1>2 DEF Next

LEMMA TypeInvariant == Spec => []TypeInv
BY TypeInit, TypeStep, PTL DEF Spec

\* Every field of the executor, of its tasks, of its graph and of its monitor
\* keeps its type, whatever its threads do: the lists of dependents hold tasks,
\* no list is read beyond its end, the counters stay in range.
THEOREM TypeCorrect == Spec => []TypeOK
BY TypeInvariant, PTL DEF TypeInv

-----------------------------------------------------------------------------
(* Claims, promises and termination                                        *)

\* cancel() goes past its first test once for each task, after its submission.
CancelInv ==
  /\ \A t \in Tasks : cancelled[t] => spc[t] = "done"
  /\ \A k \in Cancellers : pc[k] # "idle" => cancelled[task[k]]
  /\ \A j, k \in Cancellers :
       (pc[j] # "idle" /\ pc[k] # "idle" /\ task[j] = task[k]) => j = k

\* A registered promise is empty but in the worker that is about to erase its entry,
\* and its task is live.
EntriesLive ==
  /\ registered \subseteq Async
  /\ \A t \in registered :
       /\ Live(t)
       /\ promise[t] = "empty" \/ \E w \in Workers : pc[w] = "fulfill" /\ task[w] = t

SafeInv ==
  /\ TypeInv
  /\ ClaimsExclusive
  /\ CancelInv
  /\ NoConcurrentRun
  /\ EntriesLive
  /\ TerminatesOnlyAfterStop

\* What the invariant says of the types
LEMMA Kinds ==
  ASSUME TypeInv
  PROVE  /\ pc \in [Threads -> WorkerSteps \cup CancelSteps]
         /\ task \in [Threads -> Tasks \cup {NoTask}]
         /\ queued \in [Tasks -> Nat]
         /\ enqueued \in [Tasks -> BOOLEAN]
         /\ cancelled \in [Tasks -> BOOLEAN]
         /\ spc \in [Tasks -> SubmitSteps]
         /\ promise \in [Tasks -> {"none", "empty", "value", "exception"}]
         /\ registered \subseteq Tasks
         /\ \A k \in Cancellers : pc[k] \in CancelPc
         /\ \A w \in Workers : pc[w] \in WorkerSteps
         /\ \A w \in Threads : pc[w] \notin Free => task[w] \in Tasks
BY DEF TypeInv, TypeOK, ExecutorTypeOK, TaskTypeOK, ThreadsInv

LEMMA SafeInit == Init => SafeInv
<1> SUFFICES ASSUME Init PROVE SafeInv
  OBVIOUS
<1>1. \A w \in Workers : pc[w] = "loop"
  BY WhoIsWho DEF Init
<1>2. \A k \in Cancellers : pc[k] = "idle"
  BY WhoIsWho DEF Init
<1>3. ClaimsExclusive
  BY <1>1 DEF Init, ClaimsExclusive, OneClaim, Holds, Holding
<1>4. CancelInv
  BY <1>2 DEF Init, TaskInit, CancelInv
<1>5. NoConcurrentRun /\ EntriesLive /\ TerminatesOnlyAfterStop
  BY <1>1 DEF Init, NoConcurrentRun, EntriesLive, TerminatesOnlyAfterStop
<1> QED
  BY <1>3, <1>4, <1>5, TypeInit DEF SafeInv

\* Steps that change neither a claim nor a promise.
LEMMA SafeFrame ==
  ASSUME SafeInv, TypeInv',
         UNCHANGED <<enqueued, cancelled, queued, pc, task, promise, registered, terminated>>,
         \A t \in Tasks : spc[t] = "done" => spc'[t] = "done",
         pool_running' => pool_running
  PROVE  SafeInv'
BY DEF SafeInv, ClaimsExclusive, OneClaim, Holds, Live, CancelInv, NoConcurrentRun,
       EntriesLive, TerminatesOnlyAfterStop

\* Steps within a worker's handling of its task: it keeps its claim, and it enters
\* the function only if the task is not cancelled.
LEMMA SafeMove ==
  ASSUME SafeInv, TypeInv',
         NEW w \in Workers, NEW step \in Holding,
         pc[w] \in Holding, pc[w] # "fulfill",
         pc' = [pc EXCEPT ![w] = step],
         step \in {"begin", "running"} =>
           pc[w] \in {"begin", "running"} \/ ~cancelled[task[w]],
         UNCHANGED <<enqueued, cancelled, queued, task, promise, registered, spc,
                     terminated, pool_running>>
  PROVE  SafeInv'
<1>0. w \in Threads /\ w \notin Cancellers /\ task[w] \in Tasks
  BY WhoIsWho, Kinds DEF SafeInv, Holding, Free, WorkerSteps, NotifySteps
<1>1. \A v \in Workers, t \in Tasks : Holds(v, t)' <=> Holds(v, t)
  BY <1>0, Kinds, WhoIsWho DEF SafeInv, Holds
<1>2. \A k \in Cancellers : pc'[k] = pc[k]
  BY <1>0, Kinds, WhoIsWho DEF SafeInv
<1>3. \A t \in Tasks : Live(t)' <=> Live(t)
  BY <1>2 DEF Live
<1>4. ClaimsExclusive'
  BY <1>1, <1>3 DEF SafeInv, ClaimsExclusive, OneClaim
<1>5. CancelInv'
  BY <1>2 DEF SafeInv, CancelInv
<1>6. NoConcurrentRun'
  <2> SUFFICES ASSUME NEW u \in Workers, NEW v \in Workers,
                      pc'[u] \in {"begin", "running"}, pc'[v] \in {"begin", "running"},
                      task[u] = task[v], u # v
               PROVE  FALSE
    BY DEF NoConcurrentRun
  <2>1. ASSUME NEW x \in Workers, x # w PROVE pc'[x] = pc[x]
    BY <2>1, Kinds, WhoIsWho DEF SafeInv
  <2>2. CASE u # w /\ v # w
    BY <2>1, <2>2 DEF SafeInv, NoConcurrentRun
  <2>3. ASSUME NEW x \in Workers, x # w, pc[x] \in {"begin", "running"},
               task[x] = task[w], step \in {"begin", "running"}
        PROVE  FALSE
    <3>1. CASE pc[w] \in {"begin", "running"}
      BY <2>3, <3>1 DEF SafeInv, NoConcurrentRun
    <3>2. CASE ~cancelled[task[w]]
      <4>1. Holds(x, task[w]) /\ Holds(w, task[w])
        BY <2>3 DEF Holds, Holding, WorkerSteps, NotifySteps
      <4>2. OneClaim(task[w])
        BY <1>0, <3>2 DEF SafeInv, ClaimsExclusive, Live
      <4> QED
        BY <2>3, <4>1, <4>2 DEF OneClaim
    <3> QED
      BY <2>3, <3>1, <3>2
  <2>4. pc'[w] = step
    BY <1>0, Kinds DEF SafeInv
  <2> QED
    BY <2>1, <2>2, <2>3, <2>4
<1>7. EntriesLive'
  <2>1. \A v \in Workers : pc[v] = "fulfill" => pc'[v] = "fulfill"
    BY Kinds, WhoIsWho DEF SafeInv
  <2>2. registered \subseteq Tasks
    BY Kinds DEF SafeInv
  <2> QED
    BY <1>3, <2>1, <2>2 DEF SafeInv, EntriesLive
<1>8. TerminatesOnlyAfterStop'
  BY DEF SafeInv, TerminatesOnlyAfterStop
<1> QED
  BY <1>4, <1>5, <1>6, <1>7, <1>8 DEF SafeInv

\* Marking a task: nobody has a claim on it unless it is cancelled.
LEMMA SafeMark ==
  ASSUME SafeInv, TypeInv',
         NEW t \in Tasks, ~enqueued[t],
         enqueued' = [enqueued EXCEPT ![t] = TRUE],
         queued' = queued \/ queued' = [queued EXCEPT ![t] = @ + 1],
         UNCHANGED <<cancelled, promise, registered, pool_running>>,
         \A u \in Tasks : spc[u] = "done" => spc'[u] = "done",
         \A w \in Threads : \/ pc'[w] = pc[w] /\ task'[w] = task[w]
                            \/ /\ w \in Workers /\ pc[w] = "remark"
                               /\ pc'[w] \in {"loop", "signal"},
         terminated' = terminated \/ ~pool_running
  PROVE  SafeInv'
<1>1. \A v \in Workers, u \in Tasks : Holds(v, u)' <=> Holds(v, u)
  BY WhoIsWho DEF Holds, Holding
<1>2. \A k \in Cancellers : pc'[k] = pc[k] /\ task'[k] = task[k]
  BY WhoIsWho
<1>3. \A u \in Tasks : Live(u)' <=> Live(u)
  BY <1>2 DEF Live
<1>4. ClaimsExclusive'
  <2> SUFFICES ASSUME NEW u \in Tasks, Live(u) PROVE OneClaim(u)'
    BY <1>3 DEF ClaimsExclusive
  <2>1. OneClaim(u) /\ queued \in [Tasks -> Nat] /\ enqueued \in [Tasks -> BOOLEAN]
    BY Kinds DEF SafeInv, ClaimsExclusive
  <2>2. CASE u = t
    <3>1. queued[t] = 0 /\ \A v \in Workers : ~Holds(v, t)
      BY <2>1, <2>2 DEF OneClaim
    <3>2. queued'[t] <= 1 /\ enqueued'[t]
      BY <2>1, <3>1
    <3> QED
      BY <1>1, <2>2, <3>1, <3>2 DEF OneClaim
  <2>3. CASE u # t
    <3>1. queued'[u] = queued[u] /\ enqueued'[u] = enqueued[u]
      BY <2>1, <2>3
    <3> QED
      BY <1>1, <2>1, <3>1 DEF OneClaim
  <2> QED
    BY <2>2, <2>3
<1>5. CancelInv'
  BY <1>2 DEF SafeInv, CancelInv
<1>6. NoConcurrentRun'
  BY WhoIsWho DEF SafeInv, NoConcurrentRun
<1>7. EntriesLive'
  <2>1. \A v \in Workers : pc[v] = "fulfill" => pc'[v] = "fulfill" /\ task'[v] = task[v]
    BY WhoIsWho
  <2>2. registered \subseteq Tasks
    BY Kinds DEF SafeInv
  <2> QED
    BY <1>3, <2>1, <2>2 DEF SafeInv, EntriesLive
<1>8. TerminatesOnlyAfterStop'
  BY DEF SafeInv, TerminatesOnlyAfterStop
<1> QED
  BY <1>4, <1>5, <1>6, <1>7, <1>8 DEF SafeInv

\* A worker that clears the flag of its task gives up its claim.
LEMMA SafeRelease ==
  ASSUME SafeInv, TypeInv',
         NEW w \in Workers, NEW step \in {"remark", "loop"},
         pc[w] \in Holding, pc[w] # "fulfill",
         pc' = [pc EXCEPT ![w] = step],
         task' = task \/ task' = [task EXCEPT ![w] = NoTask],
         enqueued' = [enqueued EXCEPT ![task[w]] = FALSE],
         UNCHANGED <<cancelled, queued, promise, registered, spc, terminated, pool_running>>
  PROVE  SafeInv'
<1>0. w \in Threads /\ w \notin Cancellers /\ task[w] \in Tasks /\ pc'[w] = step
  BY WhoIsWho, Kinds DEF SafeInv, Holding, Free, WorkerSteps, NotifySteps
<1>1. \A v \in Threads : v # w => pc'[v] = pc[v] /\ task'[v] = task[v]
  BY Kinds DEF SafeInv
<1>2. \A v \in Workers, t \in Tasks : Holds(v, t)' <=> Holds(v, t) /\ v # w
  BY <1>0, <1>1, WhoIsWho DEF Holds, Holding
<1>3. \A t \in Tasks : Live(t)' <=> Live(t)
  BY <1>0, <1>1, WhoIsWho DEF Live
<1>4. ClaimsExclusive'
  <2> SUFFICES ASSUME NEW t \in Tasks, Live(t) PROVE OneClaim(t)'
    BY <1>3 DEF ClaimsExclusive
  <2>1. OneClaim(t) /\ queued \in [Tasks -> Nat] /\ enqueued \in [Tasks -> BOOLEAN]
    BY Kinds DEF SafeInv, ClaimsExclusive
  <2>2. CASE t = task[w]
    <3>1. Holds(w, t)
      BY <2>2 DEF Holds
    <3>2. queued[t] # 1 /\ \A v \in Workers : Holds(v, t) => v = w
      BY <2>1, <3>1 DEF OneClaim
    <3> QED
      BY <1>2, <2>1, <3>2 DEF OneClaim
  <2>3. CASE t # task[w]
    <3>1. enqueued'[t] = enqueued[t]
      BY <2>1, <2>3
    <3> QED
      BY <1>2, <2>1, <3>1 DEF OneClaim
  <2> QED
    BY <2>2, <2>3
<1>5. CancelInv'
  BY <1>0, <1>1, WhoIsWho DEF SafeInv, CancelInv
<1>6. NoConcurrentRun'
  BY <1>0, <1>1, WhoIsWho DEF SafeInv, NoConcurrentRun
<1>7. EntriesLive'
  <2>1. \A v \in Workers : pc[v] = "fulfill" => pc'[v] = "fulfill" /\ task'[v] = task[v]
    BY <1>1, WhoIsWho
  <2>2. registered \subseteq Tasks
    BY Kinds DEF SafeInv
  <2> QED
    BY <1>3, <2>1, <2>2 DEF SafeInv, EntriesLive
<1>8. TerminatesOnlyAfterStop'
  BY DEF SafeInv, TerminatesOnlyAfterStop
<1> QED
  BY <1>4, <1>5, <1>6, <1>7, <1>8 DEF SafeInv

\* The worker that has reset its task finds it marked again, by the scheduler.
LEMMA SafeResubmitMarked ==
  ASSUME SafeInv, TypeInv',
         NEW w \in Workers, pc[w] = "remark", pc'[w] = "loop",
         \A v \in Threads : v # w => pc'[v] = pc[v] /\ task'[v] = task[v],
         UNCHANGED <<enqueued, cancelled, queued, promise, registered, spc, terminated,
                     pool_running>>
  PROVE  SafeInv'
<1>0. w \in Threads /\ w \notin Cancellers
  BY WhoIsWho
<1>1. \A v \in Workers, u \in Tasks : Holds(v, u)' <=> Holds(v, u)
  BY <1>0, WhoIsWho DEF Holds, Holding
<1>2. \A k \in Cancellers : pc'[k] = pc[k] /\ task'[k] = task[k]
  BY <1>0, WhoIsWho
<1>3. \A u \in Tasks : Live(u)' <=> Live(u)
  BY <1>2 DEF Live
<1>4. ClaimsExclusive'
  BY <1>1, <1>3 DEF SafeInv, ClaimsExclusive, OneClaim
<1>5. CancelInv'
  BY <1>2 DEF SafeInv, CancelInv
<1>6. NoConcurrentRun'
  BY WhoIsWho DEF SafeInv, NoConcurrentRun
<1>7. EntriesLive'
  <2>1. \A v \in Workers : pc[v] = "fulfill" => pc'[v] = "fulfill" /\ task'[v] = task[v]
    BY WhoIsWho
  <2>2. registered \subseteq Tasks
    BY Kinds DEF SafeInv
  <2> QED
    BY <1>3, <2>1, <2>2 DEF SafeInv, EntriesLive
<1>8. TerminatesOnlyAfterStop'
  BY DEF SafeInv, TerminatesOnlyAfterStop
<1> QED
  BY <1>4, <1>5, <1>6, <1>7, <1>8 DEF SafeInv

\* Workers without a task
LEMMA SafeRest ==
  ASSUME SafeInv, TypeInv', RestMove,
         \A t \in Tasks : spc[t] = "done" => spc'[t] = "done"
  PROVE  SafeInv'
<1>1. /\ \A v \in Threads :
           pc'[v] = pc[v] \/ (v \in Workers /\ pc[v] \in Resting /\ pc'[v] \in Resting)
      /\ UNCHANGED <<task, enqueued, cancelled, queued, promise, registered, terminated,
                     pool_running>>
  BY DEF RestMove
<1>2. \A v \in Workers, t \in Tasks : Holds(v, t)' <=> Holds(v, t)
  BY <1>1, WhoIsWho DEF Holds, Holding
<1>3. \A k \in Cancellers : pc'[k] = pc[k]
  BY <1>1, WhoIsWho
<1>4. \A t \in Tasks : Live(t)' <=> Live(t)
  BY <1>1, <1>3 DEF Live
<1>5. ClaimsExclusive'
  BY <1>1, <1>2, <1>4 DEF SafeInv, ClaimsExclusive, OneClaim
<1>6. CancelInv'
  BY <1>1, <1>3 DEF SafeInv, CancelInv
<1>7. NoConcurrentRun'
  BY <1>1, WhoIsWho DEF SafeInv, NoConcurrentRun
<1>8. EntriesLive'
  <2>1. \A v \in Workers : pc[v] = "fulfill" => pc'[v] = "fulfill"
    BY <1>1, WhoIsWho
  <2>2. registered \subseteq Tasks
    BY Kinds DEF SafeInv
  <2> QED
    BY <1>1, <1>4, <2>1, <2>2 DEF SafeInv, EntriesLive
<1>9. TerminatesOnlyAfterStop'
  BY <1>1 DEF SafeInv, TerminatesOnlyAfterStop
<1> QED
  BY <1>5, <1>6, <1>7, <1>8, <1>9 DEF SafeInv

\* A worker that takes a task takes over the claim of the queue.
LEMMA SafeTake ==
  ASSUME SafeInv, TypeInv',
         NEW w \in Workers, NEW t \in Tasks, WorkerTake(w, t)
  PROVE  SafeInv'
<1>0. w \in Threads /\ w \notin Cancellers
  BY WhoIsWho
<1>1. /\ \A v \in Threads : v # w => pc'[v] = pc[v] /\ task'[v] = task[v]
      /\ pc[w] = "find" /\ pc'[w] = "execute" /\ task'[w] = t
      /\ queued[t] > 0 /\ queued' = [queued EXCEPT ![t] = @ - 1]
      /\ queued \in [Tasks -> Nat]
      /\ UNCHANGED <<enqueued, cancelled, promise, registered, spc, terminated, pool_running>>
  BY <1>0, Kinds DEF SafeInv, WorkerTake, Goto
<1>2. \A v \in Workers, u \in Tasks : Holds(v, u)' <=> Holds(v, u) \/ (v = w /\ u = t)
  <2>1. \A u \in Tasks : ~Holds(w, u) /\ (Holds(w, u)' <=> u = t)
    BY <1>1 DEF Holds, Holding, WorkerSteps, NotifySteps
  <2>2. ASSUME NEW v \in Workers, v # w PROVE \A u \in Tasks : Holds(v, u)' <=> Holds(v, u)
    BY <1>1, <2>2, WhoIsWho DEF Holds
  <2> QED
    BY <2>1, <2>2
<1>3. \A k \in Cancellers : pc'[k] = pc[k] /\ task'[k] = task[k]
  BY <1>0, <1>1, WhoIsWho
<1>4. \A u \in Tasks : Live(u)' <=> Live(u)
  BY <1>1, <1>3 DEF Live
<1>5. ClaimsExclusive'
  <2> SUFFICES ASSUME NEW u \in Tasks, Live(u) PROVE OneClaim(u)'
    BY <1>4 DEF ClaimsExclusive
  <2>1. OneClaim(u)
    BY DEF SafeInv, ClaimsExclusive
  <2>2. CASE u = t
    <3>1. queued[t] = 1 /\ enqueued[t] /\ \A v \in Workers : ~Holds(v, t)
      BY <1>1, <2>1, <2>2 DEF OneClaim
    <3>2. queued'[t] = 0
      BY <1>1, <3>1
    <3> QED
      BY <1>1, <1>2, <2>2, <3>1, <3>2 DEF OneClaim
  <2>3. CASE u # t
    <3>1. queued'[u] = queued[u]
      BY <1>1, <2>3
    <3> QED
      BY <1>1, <1>2, <2>1, <2>3, <3>1 DEF OneClaim
  <2> QED
    BY <2>2, <2>3
<1>6. CancelInv'
  BY <1>1, <1>3 DEF SafeInv, CancelInv
<1>7. NoConcurrentRun'
  BY <1>1, WhoIsWho DEF SafeInv, NoConcurrentRun
<1>8. EntriesLive'
  <2>1. \A v \in Workers : pc[v] = "fulfill" => pc'[v] = "fulfill" /\ task'[v] = task[v]
    BY <1>1, WhoIsWho
  <2>2. registered \subseteq Tasks
    BY Kinds DEF SafeInv
  <2> QED
    BY <1>1, <1>4, <2>1, <2>2 DEF SafeInv, EntriesLive
<1>9. TerminatesOnlyAfterStop'
  BY <1>1 DEF SafeInv, TerminatesOnlyAfterStop
<1> QED
  BY <1>5, <1>6, <1>7, <1>8, <1>9 DEF SafeInv

\* Steps of a worker that set a promise or erase its entry, at "callback",
\* "fulfill" and "fail_promise".  The worker keeps its claim.
LEMMA SafePromise ==
  ASSUME SafeInv, TypeInv',
         NEW w \in Workers, NEW step \in Holding \ {"begin", "running"},
         pc[w] \in Holding,
         pc' = [pc EXCEPT ![w] = step],
         registered' \subseteq registered,
         pc[w] = "fulfill" => task[w] \notin registered',
         \A t \in Tasks : promise'[t] = promise[t] \/ t \notin registered'
                           \/ (t = task[w] /\ step = "fulfill"),
         UNCHANGED <<enqueued, cancelled, queued, task, spc, terminated, pool_running>>
  PROVE  SafeInv'
<1>0. w \in Threads /\ w \notin Cancellers /\ task[w] \in Tasks /\ pc'[w] = step
  BY WhoIsWho, Kinds DEF SafeInv, Holding, Free, WorkerSteps, NotifySteps
<1>1. \A v \in Threads : v # w => pc'[v] = pc[v]
  BY Kinds DEF SafeInv
<1>2. \A v \in Workers, t \in Tasks : Holds(v, t)' <=> Holds(v, t)
  BY <1>0, <1>1, WhoIsWho DEF Holds
<1>3. \A k \in Cancellers : pc'[k] = pc[k]
  BY <1>0, <1>1, WhoIsWho
<1>4. \A t \in Tasks : Live(t)' <=> Live(t)
  BY <1>3 DEF Live
<1>5. ClaimsExclusive'
  BY <1>2, <1>4 DEF SafeInv, ClaimsExclusive, OneClaim
<1>6. CancelInv'
  BY <1>3 DEF SafeInv, CancelInv
<1>7. NoConcurrentRun'
  BY <1>0, <1>1, WhoIsWho DEF SafeInv, NoConcurrentRun
<1>8. EntriesLive'
  <2> SUFFICES ASSUME NEW t \in registered'
               PROVE  /\ Live(t)
                      /\ \/ promise'[t] = "empty"
                         \/ \E v \in Workers : pc'[v] = "fulfill" /\ task[v] = t
    <3>1. registered' \subseteq Async /\ registered' \subseteq Tasks
      BY Kinds DEF SafeInv, EntriesLive
    <3> QED
      BY <1>4, <3>1 DEF EntriesLive
  <2>1. /\ t \in registered /\ t \in Tasks /\ Live(t)
        /\ promise[t] = "empty" \/ \E v \in Workers : pc[v] = "fulfill" /\ task[v] = t
    BY Kinds DEF SafeInv, EntriesLive
  <2>2. CASE t = task[w] /\ step = "fulfill"
    BY <1>0, <2>1, <2>2
  <2>3. CASE promise'[t] = promise[t]
    <3>1. ASSUME NEW v \in Workers, pc[v] = "fulfill", task[v] = t
          PROVE  pc'[v] = "fulfill"
      <4>1. v # w
        BY <3>1
      <4> QED
        BY <1>1, <3>1, <4>1, WhoIsWho
    <3> QED
      BY <2>1, <2>3, <3>1
  <2> QED
    BY <2>1, <2>2, <2>3
<1>9. TerminatesOnlyAfterStop'
  BY DEF SafeInv, TerminatesOnlyAfterStop
<1> QED
  BY <1>5, <1>6, <1>7, <1>8, <1>9 DEF SafeInv

\* The worker whose task has failed for good finds its promise empty or its entry
\* gone: if the promise were set, another worker would hold the task.
LEMMA WorkerPromiseEmpty ==
  ASSUME SafeInv, NEW w \in Workers, pc[w] = "fail_promise", task[w] \in registered
  PROVE  promise[task[w]] = "empty"
<1> SUFFICES ASSUME NEW v \in Workers, pc[v] = "fulfill", task[v] = task[w] PROVE FALSE
  BY DEF SafeInv, EntriesLive
<1>1. Holds(v, task[w]) /\ Holds(w, task[w])
  BY DEF Holds, Holding, WorkerSteps, NotifySteps
<1>2. OneClaim(task[w])
  BY Kinds DEF SafeInv, EntriesLive, ClaimsExclusive
<1> QED
  BY <1>1, <1>2 DEF OneClaim

LEMMA SafeEntries == SafeInv => EntriesPending
BY WorkerPromiseEmpty DEF SafeInv, EntriesLive, EntriesPending

\* A canceller past its promise: the task it cancels is no longer live.
LEMMA SafeCancelMove ==
  ASSUME SafeInv, TypeInv',
         NEW k \in Cancellers, NEW step \in CancelPc \ {"fail_promise"},
         pc[k] \in CancelPc \ {"idle", "fail_promise"},
         pc' = [pc EXCEPT ![k] = step],
         \/ UNCHANGED <<task, enqueued>>
         \/ /\ step = "idle" /\ task' = [task EXCEPT ![k] = NoTask]
            /\ enqueued' = [enqueued EXCEPT ![task[k]] = FALSE],
         UNCHANGED <<cancelled, queued, promise, registered, spc, terminated, pool_running>>
  PROVE  SafeInv'
<1>0. k \in Threads /\ k \notin Workers /\ task[k] \in Tasks /\ pc'[k] = step
  BY WhoIsWho, Kinds DEF SafeInv, Free, CancelPc
<1>1. \A v \in Threads : v # k => pc'[v] = pc[v] /\ task'[v] = task[v]
  BY Kinds DEF SafeInv
<1>2. \A v \in Workers : pc'[v] = pc[v] /\ task'[v] = task[v]
  BY <1>0, <1>1, WhoIsWho
<1>3. \A t \in Tasks : Live(t)' <=> Live(t)
  BY <1>0, <1>1, WhoIsWho DEF Live
<1>4. ~Live(task[k])
  BY <1>0 DEF SafeInv, CancelInv, Live
<1>5. ClaimsExclusive'
  <2> SUFFICES ASSUME NEW t \in Tasks, Live(t) PROVE OneClaim(t)'
    BY <1>3 DEF ClaimsExclusive
  <2>1. OneClaim(t) /\ t # task[k]
    BY <1>4 DEF SafeInv, ClaimsExclusive
  <2>2. enqueued'[t] = enqueued[t]
    BY <2>1, Kinds DEF SafeInv
  <2> QED
    BY <1>2, <2>1, <2>2 DEF OneClaim, Holds
<1>6. CancelInv'
  <2>1. \A j \in Cancellers : pc'[j] # "idle" => pc[j] # "idle" /\ task'[j] = task[j]
    BY <1>0, <1>1, WhoIsWho
  <2> QED
    BY <2>1 DEF SafeInv, CancelInv
<1>7. NoConcurrentRun'
  BY <1>2 DEF SafeInv, NoConcurrentRun
<1>8. EntriesLive'
  <2>1. registered \subseteq Tasks
    BY Kinds DEF SafeInv
  <2> QED
    BY <1>2, <1>3, <2>1 DEF SafeInv, EntriesLive
<1>9. TerminatesOnlyAfterStop'
  BY DEF SafeInv, TerminatesOnlyAfterStop
<1> QED
  BY <1>5, <1>6, <1>7, <1>8, <1>9 DEF SafeInv

\* A canceller at its promise: afterwards the promise has no entry, and the task is
\* no longer live.
LEMMA SafeCancelPromise ==
  ASSUME SafeInv, TypeInv',
         NEW k \in Cancellers, FailPromise(k)
  PROVE  SafeInv'
<1>0. k \in Threads /\ k \notin Workers /\ pc[k] = "fail_promise" /\ task[k] \in Tasks
  BY WhoIsWho, Kinds DEF SafeInv, Free, FailPromise
<1>1. /\ registered' = registered \ {task[k]}
      /\ \A t \in Tasks : t # task[k] => promise'[t] = promise[t]
      /\ \A v \in Threads : v # k => pc'[v] = pc[v] /\ task'[v] = task[v]
      /\ \/ pc'[k] = "record" /\ task'[k] = task[k]
         \/ pc'[k] = "idle"
      /\ UNCHANGED <<enqueued, cancelled, queued, spc, terminated, pool_running>>
  BY <1>0, Kinds DEF SafeInv, FailPromise, BackToLoop, Goto
<1>2. \A v \in Workers : pc'[v] = pc[v] /\ task'[v] = task[v]
  BY <1>0, <1>1, WhoIsWho
<1>3. \A t \in Tasks : Live(t)' => Live(t)
  BY <1>0, <1>1, WhoIsWho DEF Live
<1>4. \A t \in Tasks : t # task[k] /\ Live(t) => Live(t)'
  <2> SUFFICES ASSUME NEW t \in Tasks, t # task[k], NEW j \in Cancellers,
                      pc[j] = "fail_promise", task[j] = t
               PROVE  pc'[j] = "fail_promise" /\ task'[j] = t
    BY <1>1 DEF Live
  <2> QED
    BY <1>1, WhoIsWho
<1>5. ClaimsExclusive'
  BY <1>1, <1>2, <1>3 DEF SafeInv, ClaimsExclusive, OneClaim, Holds
<1>6. CancelInv'
  <2>1. \A j \in Cancellers : pc'[j] # "idle" => pc[j] # "idle" /\ task'[j] = task[j]
    BY <1>0, <1>1, WhoIsWho
  <2> QED
    BY <1>1, <2>1 DEF SafeInv, CancelInv
<1>7. NoConcurrentRun'
  BY <1>2 DEF SafeInv, NoConcurrentRun
<1>8. EntriesLive'
  <2> SUFFICES ASSUME NEW t \in registered'
               PROVE  /\ t \in Async
                      /\ Live(t)'
                      /\ \/ promise'[t] = "empty"
                         \/ \E v \in Workers : pc'[v] = "fulfill" /\ task'[v] = t
    BY DEF EntriesLive
  <2>1. t \in registered /\ t \in Tasks /\ t # task[k] /\ promise'[t] = promise[t]
    BY <1>1, Kinds DEF SafeInv
  <2> QED
    BY <1>2, <1>4, <2>1 DEF SafeInv, EntriesLive
<1>9. TerminatesOnlyAfterStop'
  BY <1>1 DEF SafeInv, TerminatesOnlyAfterStop
<1> QED
  BY <1>5, <1>6, <1>7, <1>8, <1>9 DEF SafeInv

\* A client that cancels a submitted task.
LEMMA SafeCancelTask ==
  ASSUME SafeInv, TypeInv',
         NEW k \in Cancellers, NEW t \in Tasks, CancelTask(k, t)
  PROVE  SafeInv'
<1>0. k \in Threads /\ k \notin Workers
  BY WhoIsWho
<1>1. /\ pc[k] = "idle" /\ spc[t] = "done" /\ ~cancelled[t]
      /\ pc'[k] = "fail_promise" /\ task'[k] = t
      /\ \A v \in Threads : v # k => pc'[v] = pc[v] /\ task'[v] = task[v]
      /\ cancelled'[t] /\ \A u \in Tasks : u # t => cancelled'[u] = cancelled[u]
      /\ UNCHANGED <<enqueued, queued, promise, registered, spc, terminated, pool_running>>
  BY <1>0, Kinds DEF SafeInv, CancelTask, Cancel, Goto
<1>2. \A v \in Workers : pc'[v] = pc[v] /\ task'[v] = task[v]
  BY <1>0, <1>1, WhoIsWho
<1>3. \A u \in Tasks : Live(u)' <=> Live(u)
  <2>1. Live(t) /\ Live(t)'
    BY <1>1 DEF Live
  <2>2. ASSUME NEW u \in Tasks, u # t PROVE Live(u)' <=> Live(u)
    BY <1>0, <1>1, <2>2, WhoIsWho DEF Live
  <2> QED
    BY <2>1, <2>2
<1>4. ClaimsExclusive'
  BY <1>1, <1>2, <1>3 DEF SafeInv, ClaimsExclusive, OneClaim, Holds
<1>5. CancelInv'
  <2>1. \A u \in Tasks : cancelled'[u] => spc'[u] = "done"
    BY <1>1 DEF SafeInv, CancelInv
  <2>2. \A j \in Cancellers : pc'[j] # "idle" => cancelled'[task'[j]]
    <3> SUFFICES ASSUME NEW j \in Cancellers, pc'[j] # "idle", j # k PROVE cancelled'[task'[j]]
      BY <1>1
    <3>1. cancelled[task[j]] /\ task'[j] = task[j] /\ task[j] \in Tasks
      BY <1>1, WhoIsWho, Kinds DEF SafeInv, CancelInv, Free, CancelPc
    <3> QED
      BY <1>1, <3>1
  <2>3. \A j \in Cancellers : j # k /\ pc'[j] # "idle" => task'[j] # t
    BY <1>1, WhoIsWho DEF SafeInv, CancelInv
  <2>4. \A i, j \in Cancellers :
          (pc'[i] # "idle" /\ pc'[j] # "idle" /\ task'[i] = task'[j]) => i = j
    BY <1>1, <2>3, WhoIsWho DEF SafeInv, CancelInv
  <2> QED
    BY <2>1, <2>2, <2>4 DEF CancelInv
<1>6. NoConcurrentRun'
  BY <1>2 DEF SafeInv, NoConcurrentRun
<1>7. EntriesLive'
  <2>1. registered \subseteq Tasks
    BY Kinds DEF SafeInv
  <2> QED
    BY <1>1, <1>2, <1>3, <2>1 DEF SafeInv, EntriesLive
<1>8. TerminatesOnlyAfterStop'
  BY <1>1 DEF SafeInv, TerminatesOnlyAfterStop
<1> QED
  BY <1>4, <1>5, <1>6, <1>7, <1>8 DEF SafeInv

LEMMA SafeSubmit ==
  ASSUME SafeInv, TypeInv', NEW t \in Tasks, SubmitBegin(t) \/ SubmitStep(t)
  PROVE  SafeInv'
<1>1. CASE SubmitBegin(t)
  <2>1. /\ spc[t] = "new" /\ spc'[t] # "done"
        /\ \A u \in Tasks : u # t => spc'[u] = spc[u] /\ promise'[u] = promise[u]
        /\ IF t \in Async THEN promise'[t] = "empty" /\ registered' = registered \cup {t}
                          ELSE registered' = registered
        /\ UNCHANGED <<enqueued, cancelled, queued, pc, task, terminated, pool_running>>
    BY <1>1, Kinds DEF SafeInv, SubmitBegin
  <2>2. \A u \in Tasks : Live(u)' <=> Live(u)
    BY <2>1 DEF Live
  <2>3. Live(t)
    BY <2>1 DEF SafeInv, CancelInv, Live
  <2>4. ClaimsExclusive'
    BY <2>1, <2>2 DEF SafeInv, ClaimsExclusive, OneClaim, Holds
  <2>5. CancelInv'
    BY <2>1 DEF SafeInv, CancelInv
  <2>6. NoConcurrentRun' /\ TerminatesOnlyAfterStop'
    BY <2>1 DEF SafeInv, NoConcurrentRun, TerminatesOnlyAfterStop
  <2>7. EntriesLive'
    <3> SUFFICES ASSUME NEW u \in registered'
                 PROVE  /\ u \in Async
                        /\ Live(u)
                        /\ \/ promise'[u] = "empty"
                           \/ \E v \in Workers : pc'[v] = "fulfill" /\ task'[v] = u
      <4>1. registered' \subseteq Tasks
        BY <2>1, Kinds DEF SafeInv
      <4> QED
        BY <2>2, <4>1 DEF EntriesLive
    <3>1. CASE u = t
      BY <2>1, <2>3, <3>1 DEF SafeInv, EntriesLive
    <3>2. CASE u # t
      <4>1. u \in registered /\ u \in Tasks
        BY <2>1, <3>2, Kinds DEF SafeInv
      <4> QED
        BY <2>1, <3>2, <4>1 DEF SafeInv, EntriesLive
    <3> QED
      BY <3>1, <3>2
  <2> QED
    BY <2>4, <2>5, <2>6, <2>7 DEF SafeInv
<1>2. CASE SubmitAddTask(t)
  BY <1>2, SafeFrame, Kinds DEF SafeInv, SubmitAddTask, add_task
<1>3. ASSUME NEW d \in Tasks, SubmitAddDependency(t, d) PROVE SafeInv'
  <2>1. UNCHANGED <<enqueued, cancelled>>
    BY <1>3 DEF SubmitAddDependency, GraphAddDependency, add_dependency
  <2> QED
    BY <1>3, <2>1, SafeFrame DEF SubmitAddDependency
<1>4. CASE SubmitLoadStatus(t) \/ SubmitLoadCount(t) \/ SubmitAlreadyMarked(t)
  <2>1. spc[t] # "done" /\ \A u \in Tasks : u # t => spc'[u] = spc[u]
    BY <1>4, Kinds DEF SafeInv, SubmitLoadStatus, SubmitLoadCount, SubmitAlreadyMarked
  <2> QED
    BY <1>4, <2>1, SafeFrame DEF SubmitLoadStatus, SubmitLoadCount, SubmitAlreadyMarked
<1>5. CASE SubmitToPool(t)
  <2>1. spc[t] = "mark" /\ \A u \in Tasks : u # t => spc'[u] = spc[u]
    BY <1>5, Kinds DEF SafeInv, SubmitToPool
  <2>2. /\ ~enqueued[t] /\ enqueued' = [enqueued EXCEPT ![t] = TRUE]
        /\ queued' = queued \/ queued' = [queued EXCEPT ![t] = @ + 1]
        /\ UNCHANGED <<cancelled, promise, registered, pool_running, pc, task, terminated>>
    BY <1>5 DEF SubmitToPool, try_mark_enqueued, Enqueue
  <2> QED
    BY <2>1, <2>2, SafeMark
<1>6. CASE SubmitNotify(t)
  <2>1. \A u \in Tasks : spc[u] = "done" => spc'[u] = "done"
    BY <1>6, Kinds DEF SafeInv, SubmitNotify
  <2> QED
    BY <1>6, <2>1, RestSteps, SafeRest DEF SafeInv
<1> QED
  BY <1>1, <1>2, <1>3, <1>4, <1>5, <1>6 DEF SubmitStep

LEMMA SafeScheduler ==
  ASSUME SafeInv, TypeInv', SchedulerStep
  PROVE  SafeInv'
<1>1. CASE SchedulerLock \/ SchedulerUnlock \/ SchedulerExit
  BY <1>1, SafeFrame DEF SchedulerLock, SchedulerUnlock, SchedulerExit
<1>2. ASSUME NEW t \in Tasks, SchedulerVisit(t) PROVE SafeInv'
  BY <1>2, SafeFrame DEF SchedulerVisit
<1>3. ASSUME NEW t \in Tasks, SchedulerMark(t) PROVE SafeInv'
  <2>1. CASE enqueued[t]
    BY <1>3, <2>1, SafeFrame DEF SchedulerMark
  <2>2. CASE ~enqueued[t]
    <3>1. /\ enqueued' = [enqueued EXCEPT ![t] = TRUE]
          /\ queued' = queued \/ queued' = [queued EXCEPT ![t] = @ + 1]
          /\ UNCHANGED <<cancelled, promise, registered, pool_running, pc, task, spc>>
          /\ terminated' = terminated \/ ~pool_running
      BY <1>3, <2>2 DEF SchedulerMark, try_mark_enqueued, Enqueue
    <3> QED
      BY <2>2, <3>1, SafeMark
  <2> QED
    BY <2>1, <2>2
<1>4. CASE SchedulerNotify
  BY <1>4, RestSteps, SafeRest DEF SafeInv
<1> QED
  BY <1>1, <1>2, <1>3, <1>4 DEF SchedulerStep

LEMMA SafeWorker ==
  ASSUME SafeInv, TypeInv', NEW w \in Workers, WorkerStep(w)
  PROVE  SafeInv'
<1> USE DEF Holding, WorkerSteps, NotifySteps, Goto
<1>1. CASE \/ WorkerLoop(w) \/ WorkerFindNothing(w) \/ WaitTest(w) \/ WaitBlock(w)
           \/ WorkerNotify(w)
  BY <1>1, RestSteps, SafeRest DEF SafeInv
<1>2. ASSUME NEW t \in Tasks, WorkerTake(w, t) PROVE SafeInv'
  BY <1>2, SafeTake
<1>3. CASE WorkerExecute(w)
  <2>1. CASE cancelled[task[w]]
    BY <1>3, <2>1, SafeMove DEF WorkerExecute, ExecuteCancelled
  <2>2. CASE ~cancelled[task[w]]
    BY <1>3, <2>2, SafeMove DEF WorkerExecute
  <2> QED
    BY <2>1, <2>2
<1>4. CASE WorkerBegin(w)
  BY <1>4, SafeMove DEF WorkerBegin, ExecuteBegin
<1>5. ASSUME NEW outcome, WorkerEnd(w, outcome) PROVE SafeInv'
  BY <1>5, SafeMove DEF WorkerEnd, ExecuteEnd
<1>6. CASE WorkerOnSuccess(w) \/ WorkerOnFailure(w)
  BY <1>6, SafeMove DEF WorkerOnSuccess, WorkerOnFailure
<1>7. CASE WorkerCanRetry(w)
  BY <1>7, SafeMove DEF WorkerCanRetry
<1>8. CASE WorkerCallback(w)
  <2>1. PICK step \in {"failure", "fulfill"} :
          /\ pc' = [pc EXCEPT ![w] = step]
          /\ \A t \in Tasks : promise'[t] = promise[t] \/ (t = task[w] /\ step = "fulfill")
    <3> DEFINE throws == \/ task[w] \in ThrowingCallback
                         \/ task[w] \in Async /\ promise[task[w]] # "empty"
    <3>1. promise \in [Tasks -> {"none", "empty", "value", "exception"}]
      BY Kinds DEF SafeInv
    <3>2. /\ pc' = [pc EXCEPT ![w] = IF throws THEN "failure" ELSE "fulfill"]
          /\ promise' = [promise EXCEPT ![task[w]] =
                            IF task[w] \in Async /\ ~throws THEN "value" ELSE @]
      BY <1>8 DEF WorkerCallback, Goto
    <3> HIDE DEF throws
    <3>3. CASE throws
      BY <3>1, <3>2, <3>3
    <3>4. CASE ~throws
      BY <3>1, <3>2, <3>4
    <3> QED
      BY <3>3, <3>4
  <2>2. /\ pc[w] = "callback"
        /\ UNCHANGED <<enqueued, cancelled, queued, task, spc, terminated, pool_running, registered>>
    BY <1>8 DEF WorkerCallback
  <2>3. pc[w] \in Holding /\ step \in Holding \ {"begin", "running"}
    BY <2>1, <2>2 DEF Holding, WorkerSteps
  <2> QED
    BY <2>1, <2>2, <2>3, SafePromise
<1>9. CASE WorkerFulfillPromise(w)
  <2>1. PICK step \in {"failure", "notify"} : pc' = [pc EXCEPT ![w] = step]
    BY <1>9 DEF WorkerFulfillPromise
  <2>2. /\ registered' = registered \ {task[w]} /\ pc[w] = "fulfill"
        /\ \A t \in Tasks : promise'[t] = promise[t] \/ t \notin registered'
        /\ UNCHANGED <<enqueued, cancelled, queued, task, spc, terminated, pool_running>>
    BY <1>9, Kinds DEF SafeInv, WorkerFulfillPromise
  <2> QED
    BY <2>1, <2>2, SafePromise
<1>10. CASE WorkerReset(w)
  BY <1>10, SafeRelease DEF WorkerReset, reset_for_retry
<1>11. CASE WorkerResubmit(w)
  <2>0. /\ w \in Threads /\ task[w] \in Tasks /\ pc[w] = "remark"
        /\ pc'[w] \in {"loop", "signal"} /\ (enqueued[task[w]] => pc'[w] = "loop")
        /\ \A v \in Threads : v # w => pc'[v] = pc[v] /\ task'[v] = task[v]
    BY <1>11, WhoIsWho, Kinds DEF SafeInv, WorkerResubmit, Free
  <2>1. CASE ~enqueued[task[w]]
    <3>1. /\ enqueued' = [enqueued EXCEPT ![task[w]] = TRUE]
          /\ queued' = queued \/ queued' = [queued EXCEPT ![task[w]] = @ + 1]
          /\ UNCHANGED <<cancelled, promise, registered, pool_running, spc>>
          /\ terminated' = terminated \/ ~pool_running
      BY <1>11, <2>1 DEF WorkerResubmit, try_mark_enqueued, Enqueue
    <3> QED
      BY <2>0, <2>1, <3>1, SafeMark
  <2>2. CASE enqueued[task[w]]
    BY <1>11, <2>0, <2>2, SafeResubmitMarked DEF WorkerResubmit
  <2> QED
    BY <2>1, <2>2
<1> QED
  BY <1>1, <1>2, <1>3, <1>4, <1>5, <1>6, <1>7, <1>8, <1>9, <1>10, <1>11 DEF WorkerStep

LEMMA SafeNotify ==
  ASSUME SafeInv, TypeInv', NEW w \in Threads, NotifyStep(w)
  PROVE  SafeInv'
<1>1. CASE w \in Workers
  <2> USE <1>1 DEF Holding, WorkerSteps, NotifySteps, Goto
  <2>1. CASE FailPromise(w)
    <3>1. ~(task[w] \in registered /\ promise[task[w]] # "empty")
      BY <2>1, WorkerPromiseEmpty DEF FailPromise
    <3>2. /\ pc' = [pc EXCEPT ![w] = "notify"] /\ pc[w] = "fail_promise"
          /\ registered' = registered \ {task[w]}
          /\ \A t \in Tasks : promise'[t] = promise[t] \/ t \notin registered'
          /\ UNCHANGED <<enqueued, cancelled, queued, task, spc, terminated, pool_running>>
      BY <2>1, <3>1, Kinds DEF SafeInv, FailPromise
    <3> QED
      BY <3>2, SafePromise
  <2>2. CASE NotifyBegin(w)
    BY <2>2, SafeMove DEF NotifyBegin
  <2>3. CASE NotifyNext(w)
    <3>1. CASE UNCHANGED pc
      BY <2>3, <3>1, SafeFrame DEF NotifyNext, NotifyDecrement
    <3>2. CASE pc' = [pc EXCEPT ![w] = "notify_ready"]
      BY <2>3, <3>2, SafeMove DEF NotifyNext, NotifyDecrement
    <3> QED
      BY <2>3, <3>1, <3>2 DEF NotifyNext
  <2>4. CASE NotifyStoreReady(w)
    BY <2>4, SafeMove DEF NotifyStoreReady, NotifyReady
  <2>5. CASE NotifyEnd(w)
    BY <2>5, SafeMove DEF NotifyEnd
  <2>6. CASE ClearFlag(w)
    BY <2>6, SafeRelease DEF ClearFlag, clear_enqueued_flag, BackToLoop
  <2> QED
    BY <2>1, <2>2, <2>3, <2>4, <2>5, <2>6 DEF NotifyStep
<1>2. CASE w \in Cancellers
  <2> USE <1>2 DEF CancelPc, NotifySteps, Goto
  <2>1. CASE FailPromise(w)
    BY <2>1, SafeCancelPromise
  <2>2. CASE NotifyBegin(w)
    BY <2>2, SafeCancelMove DEF NotifyBegin
  <2>3. CASE NotifyNext(w)
    <3>1. CASE UNCHANGED pc
      BY <2>3, <3>1, SafeFrame DEF NotifyNext, NotifyDecrement
    <3>2. CASE pc' = [pc EXCEPT ![w] = "notify_ready"]
      BY <2>3, <3>2, SafeCancelMove DEF NotifyNext, NotifyDecrement
    <3> QED
      BY <2>3, <3>1, <3>2 DEF NotifyNext
  <2>4. CASE NotifyStoreReady(w)
    BY <2>4, SafeCancelMove DEF NotifyStoreReady, NotifyReady
  <2>5. CASE NotifyEnd(w)
    BY <2>5, SafeCancelMove DEF NotifyEnd
  <2>6. CASE ClearFlag(w)
    BY <2>6, WhoIsWho, SafeCancelMove DEF ClearFlag, clear_enqueued_flag, BackToLoop
  <2> QED
    BY <2>1, <2>2, <2>3, <2>4, <2>5, <2>6 DEF NotifyStep
<1> QED
  BY <1>1, <1>2 DEF Threads

LEMMA SafeStep == SafeInv /\ [Next]_vars => SafeInv'
<1> SUFFICES ASSUME SafeInv, [Next]_vars PROVE SafeInv'
  OBVIOUS
<1>0. TypeInv'
  BY TypeStep DEF SafeInv
<1>1. CASE UNCHANGED vars
  BY <1>0, <1>1, SafeFrame
<1>2. ASSUME NEW k \in Cancellers, CancelRecord(k) PROVE SafeInv'
  BY <1>0, <1>2, SafeCancelMove DEF CancelRecord, Goto, CancelPc
<1>3. ASSUME NEW k \in Cancellers, NEW t \in Tasks, CancelTask(k, t) PROVE SafeInv'
  BY <1>0, <1>3, SafeCancelTask
<1>4. CASE OwnerStep
  <2>1. CASE Start \/ StopScheduler \/ StopPool \/ StopReturn \/ WaitReturns
    BY <1>0, <2>1, SafeFrame DEF Start, StopScheduler, StopPool, StopReturn, WaitReturns
  <2>2. CASE StopNotify
    BY <1>0, <2>2, RestSteps, SafeRest DEF SafeInv
  <2> QED
    BY <1>4, <2>1, <2>2 DEF OwnerStep
<1>5. CASE Step
  BY <1>0, <1>2, <1>3, <1>4, <1>5, SafeSubmit, SafeScheduler, SafeWorker, SafeNotify DEF Step
<1> QED
  BY <1>1, <1>5 DEF Next

LEMMA SafeInvariant == Spec => []SafeInv
BY SafeInit, SafeStep, PTL DEF Spec

\* Until it is cancelled a task has one claim at most: one place in the queues or
\* one worker, and then its enqueued flag is set.
THEOREM OneClaimEach == Spec => []ClaimsExclusive
BY SafeInvariant, PTL DEF SafeInv

\* No two workers run the same task's function at the same time, whatever is
\* submitted, retried or cancelled and whenever the scheduler thread looks.
THEOREM NeverConcurrent == Spec => []NoConcurrentRun
BY SafeInvariant, PTL DEF SafeInv

\* A worker whose task has failed for good finds its promise empty or its entry
\* gone, so that its fail_promise does not throw; a set promise has an entry only
\* while a worker is between the two set_value calls of a submit_async that
\* succeeded, and the entry's task is not yet given up by a cancel.
THEOREM WorkersFindPromiseEmpty == Spec => []EntriesPending
BY SafeInvariant, SafeEntries, PTL

\* The program is not terminated by an exception that leaves a thread of the
\* executor as long as the pool has not been shut down.
THEOREM NoTerminateWhileRunning == Spec => []TerminatesOnlyAfterStop
BY SafeInvariant, PTL DEF SafeInv

=============================================================================
