-------------------------- MODULE TaskOrderProofs --------------------------
(***************************************************************************)
(* Proofs about the order in which TaskExecutor runs its tasks, and about  *)
(* how many of them it runs.                                               *)
(***************************************************************************)
EXTENDS TaskExecutorProofs

USE DEF vars, taskVars, edgeVars, submitVars, threadVars, poolVars, schedulerVars,
        promiseVars, ownerVars, Resting

-----------------------------------------------------------------------------
(* The tasks in flight                                                     *)

ExecutingSteps == {"execute", "begin", "running", "success", "failure"}

\* No callback throws: no user's, and none that submit_async wraps, which all do
\* when the task succeeds, as the promise is set a second time.
QuietCallbacks == ThrowingCallback = {} /\ Async = {}

LEMMA ExecutingFinite ==
  /\ IsFiniteSet(Executing) /\ Cardinality(Executing) \in Nat
  /\ Cardinality(Executing) <= Cardinality(Workers)
  /\ Cardinality(Workers) \in Nat
<1>1. Executing \subseteq Workers
  BY DEF Executing
<1> QED
  BY <1>1, SizesAssumption, FS_Subset, FS_CardinalityType

\* Steps of one thread that stays on its side of the two hooks
LEMMA InflightStay ==
  ASSUME TypeInv, InflightExact, NEW w \in Threads, NEW step,
         pc' = [pc EXCEPT ![w] = step],
         w \in Workers => (pc[w] \in ExecutingSteps <=> step \in ExecutingSteps),
         metrics'["inflight"] = metrics["inflight"], metrics'["peak"] = metrics["peak"]
  PROVE  InflightExact'
<1>1. \A v \in Workers : pc'[v] \in ExecutingSteps <=> pc[v] \in ExecutingSteps
  BY WhoIsWho, Kinds
<1>2. Executing' = Executing
  BY <1>1 DEF Executing, ExecutingSteps
<1> QED
  BY <1>2 DEF InflightExact

LEMMA InflightFrame ==
  ASSUME InflightExact, UNCHANGED pc, metrics'["inflight"] = metrics["inflight"],
         metrics'["peak"] = metrics["peak"]
  PROVE  InflightExact'
BY DEF InflightExact, Executing

\* Workers without a task are not executing.
LEMMA InflightRest ==
  ASSUME InflightExact, RestMove
  PROVE  InflightExact'
<1>1. \A v \in Workers : pc'[v] \in ExecutingSteps <=> pc[v] \in ExecutingSteps
  BY WhoIsWho DEF RestMove, ExecutingSteps
<1>2. Executing' = Executing
  BY <1>1 DEF Executing, ExecutingSteps
<1> QED
  BY <1>2 DEF InflightExact, RestMove

LEMMA InflightEnter ==
  ASSUME TypeInv, InflightExact, NEW w \in Workers, pc[w] = "find", record_start,
         pc' = [pc EXCEPT ![w] = "execute"]
  PROVE  InflightExact'
<1>1. Executing' = Executing \cup {w} /\ w \notin Executing
  BY WhoIsWho, Kinds DEF Executing
<1>2. Cardinality(Executing') = Cardinality(Executing) + 1
  BY <1>1, ExecutingFinite, FS_AddElement
<1>3. Executing' \subseteq Workers
  BY <1>1 DEF Executing
<1>4. Cardinality(Executing') <= Cardinality(Workers)
  BY <1>3, SizesAssumption, FS_Subset
<1>5. metrics["inflight"] + 1 <= Cardinality(Workers) /\ metrics["inflight"] + 1 <= CounterMax
  BY <1>2, <1>4, ExecutingFinite, SizesAssumption, CounterMaxAssumption DEF InflightExact
<1>6. Inc(metrics["inflight"]) = metrics["inflight"] + 1
  BY <1>5, ExecutingFinite, CounterMaxAssumption DEF Inc, InflightExact
<1> DEFINE inflight == metrics["inflight"] + 1
           peak == IF inflight > metrics["peak"] THEN inflight ELSE metrics["peak"]
<1>7. metrics'["inflight"] = inflight /\ metrics'["peak"] = peak
  <2>1. metrics' = [metrics EXCEPT !["inflight"] = inflight, !["peak"] = peak]
    BY <1>6 DEF record_start
  <2>2. "inflight" \in DOMAIN metrics /\ "peak" \in DOMAIN metrics
    BY DEF TypeInv, TypeOK, MonitorTypeOK, Counters
  <2> QED
    BY <2>1, <2>2
<1>8. peak <= Cardinality(Workers)
  BY <1>5 DEF InflightExact
<1> QED
  BY <1>2, <1>7, <1>8 DEF InflightExact

LEMMA InflightLeave ==
  ASSUME TypeInv, InflightExact, NEW w \in Workers, NEW step \in {"callback", "can_retry"},
         pc[w] \in {"success", "failure"},
         pc' = [pc EXCEPT ![w] = step],
         metrics'["inflight"] = Dec(metrics["inflight"]), metrics'["peak"] = metrics["peak"]
  PROVE  InflightExact'
<1>1. Executing' = Executing \ {w} /\ w \in Executing
  BY WhoIsWho, Kinds DEF Executing, ExecutingSteps
<1>2. Cardinality(Executing') = Cardinality(Executing) - 1
  BY <1>1, ExecutingFinite, FS_RemoveElement
<1>3. Cardinality(Executing) # 0
  BY <1>1, ExecutingFinite, FS_EmptySet
<1>4. Dec(metrics["inflight"]) = Cardinality(Executing) - 1
  BY <1>3, ExecutingFinite DEF Dec, InflightExact
<1> QED
  BY <1>2, <1>4 DEF InflightExact

\* What the other records do not touch
LEMMA OtherCounters ==
  ASSUME TypeInv
  PROVE  /\ record_submission \/ record_retry \/ record_cancellation =>
              metrics'["inflight"] = metrics["inflight"] /\ metrics'["peak"] = metrics["peak"]
         /\ record_completion \/ record_failure =>
              metrics'["inflight"] = Dec(metrics["inflight"]) /\ metrics'["peak"] = metrics["peak"]
<1>1. DOMAIN metrics = Counters
  BY DEF TypeInv, TypeOK, MonitorTypeOK
<1> QED
  BY <1>1 DEF Counters, record_submission, record_retry, record_cancellation, record_completion,
              record_failure

LEMMA InflightWorker ==
  ASSUME SafeInv, InflightExact, QuietCallbacks, NEW w \in Workers, WorkerStep(w)
  PROVE  InflightExact'
<1> USE WhoIsWho DEF Goto, ExecutingSteps
<1>0. TypeInv /\ w \in Threads
  BY DEF SafeInv
<1>1. CASE \/ WorkerLoop(w) \/ WorkerFindNothing(w) \/ WaitTest(w) \/ WaitBlock(w)
           \/ WorkerNotify(w)
  BY <1>0, <1>1, RestSteps, InflightRest
<1>3. ASSUME NEW t \in Tasks, WorkerTake(w, t) PROVE InflightExact'
  BY <1>0, <1>3, InflightEnter DEF WorkerTake
<1>4. CASE WorkerExecute(w)
  <2>1. PICK step \in {"failure", "begin"} : pc' = [pc EXCEPT ![w] = step]
    BY <1>4 DEF WorkerExecute
  <2> QED
    BY <1>0, <1>4, <2>1, InflightStay DEF WorkerExecute
<1>5. CASE WorkerBegin(w)
  BY <1>0, <1>5, InflightStay DEF WorkerBegin
<1>6. ASSUME NEW outcome, WorkerEnd(w, outcome) PROVE InflightExact'
  <2>1. PICK step \in {"failure", "success"} : pc' = [pc EXCEPT ![w] = step]
    BY <1>6 DEF WorkerEnd
  <2> QED
    BY <1>0, <1>6, <2>1, InflightStay DEF WorkerEnd
<1>7. CASE WorkerOnSuccess(w)
  <2>1. pc[w] = "success" /\ pc' = [pc EXCEPT ![w] = "callback"]
    BY <1>7 DEF WorkerOnSuccess
  <2>2. /\ metrics'["inflight"] = Dec(metrics["inflight"])
        /\ metrics'["peak"] = metrics["peak"]
    BY <1>0, <1>7, OtherCounters DEF WorkerOnSuccess
  <2> QED
    BY <1>0, <2>1, <2>2, InflightLeave
<1>8. CASE WorkerCallback(w)
  <2>1. pc' = [pc EXCEPT ![w] = "fulfill"]
    BY <1>8 DEF WorkerCallback, QuietCallbacks
  <2> QED
    BY <1>0, <1>8, <2>1, InflightStay DEF WorkerCallback
<1>9. CASE WorkerFulfillPromise(w)
  <2>1. task[w] \notin registered
    BY DEF SafeInv, EntriesLive, QuietCallbacks
  <2>2. pc' = [pc EXCEPT ![w] = "notify"]
    BY <1>9, <2>1 DEF WorkerFulfillPromise
  <2> QED
    BY <1>0, <1>9, <2>2, InflightStay DEF WorkerFulfillPromise
<1>10. CASE WorkerOnFailure(w)
  <2>1. pc[w] = "failure" /\ pc' = [pc EXCEPT ![w] = "can_retry"]
    BY <1>10 DEF WorkerOnFailure
  <2>2. /\ metrics'["inflight"] = Dec(metrics["inflight"])
        /\ metrics'["peak"] = metrics["peak"]
    BY <1>0, <1>10, OtherCounters DEF WorkerOnFailure
  <2> QED
    BY <1>0, <2>1, <2>2, InflightLeave
<1>11. CASE WorkerCanRetry(w)
  <2>1. PICK step \in {"reset", "fail_promise"} : pc' = [pc EXCEPT ![w] = step]
    BY <1>11 DEF WorkerCanRetry
  <2>2. metrics'["inflight"] = metrics["inflight"] /\ metrics'["peak"] = metrics["peak"]
    BY <1>0, <1>11, OtherCounters DEF WorkerCanRetry
  <2> QED
    BY <1>0, <1>11, <2>1, <2>2, InflightStay DEF WorkerCanRetry
<1>12. CASE WorkerReset(w)
  BY <1>0, <1>12, InflightStay DEF WorkerReset
<1>13. CASE WorkerResubmit(w)
  <2>1. PICK step \in {"loop", "signal"} : pc' = [pc EXCEPT ![w] = step]
    BY <1>13 DEF WorkerResubmit
  <2> QED
    BY <1>0, <1>13, <2>1, InflightStay DEF WorkerResubmit
<1> QED
  BY <1>1, <1>3, <1>4, <1>5, <1>6, <1>7, <1>8, <1>9, <1>10, <1>11, <1>12, <1>13
     DEF WorkerStep

LEMMA InflightNotify ==
  ASSUME SafeInv, InflightExact, NEW w \in Threads, NotifyStep(w)
  PROVE  InflightExact'
<1> USE DEF Goto, BackToLoop, ExecutingSteps
<1>0. TypeInv
  BY DEF SafeInv
<1>1. CASE FailPromise(w)
  <2>1. PICK step \in {"loop", "idle", "notify", "record"} : pc' = [pc EXCEPT ![w] = step]
    BY <1>1 DEF FailPromise
  <2> QED
    BY <1>0, <1>1, <2>1, InflightStay DEF FailPromise
<1>2. CASE NotifyBegin(w)
  BY <1>0, <1>2, InflightStay DEF NotifyBegin
<1>3. CASE NotifyNext(w)
  <2>1. CASE pc' = pc
    BY <1>3, <2>1, InflightFrame DEF NotifyNext
  <2>2. CASE pc' = [pc EXCEPT ![w] = "notify_ready"]
    BY <1>0, <1>3, <2>2, InflightStay DEF NotifyNext
  <2> QED
    BY <1>3, <2>1, <2>2 DEF NotifyNext
<1>4. CASE NotifyStoreReady(w)
  BY <1>0, <1>4, InflightStay DEF NotifyStoreReady
<1>5. CASE NotifyEnd(w)
  BY <1>0, <1>5, InflightStay DEF NotifyEnd
<1>6. CASE ClearFlag(w)
  <2>1. PICK step \in {"loop", "idle"} : pc' = [pc EXCEPT ![w] = step]
    BY <1>6 DEF ClearFlag
  <2> QED
    BY <1>0, <1>6, <2>1, InflightStay DEF ClearFlag
<1> QED
  BY <1>1, <1>2, <1>3, <1>4, <1>5, <1>6 DEF NotifyStep

LEMMA InflightStep ==
  SafeInv /\ InflightExact /\ QuietCallbacks /\ [Next]_vars => InflightExact'
<1> SUFFICES ASSUME SafeInv, InflightExact, QuietCallbacks, [Next]_vars PROVE InflightExact'
  OBVIOUS
<1>0. TypeInv
  BY DEF SafeInv
<1>1. CASE UNCHANGED vars
  BY <1>1, InflightFrame
<1>5. CASE (\E t \in Tasks : SubmitNotify(t)) \/ SchedulerNotify \/ StopNotify
  BY <1>0, <1>5, RestSteps, InflightRest
<1>2. ASSUME NEW t \in Tasks, SubmitBegin(t) \/ SubmitStep(t), ~SubmitNotify(t)
      PROVE  InflightExact'
  <2>1. metrics'["inflight"] = metrics["inflight"] /\ metrics'["peak"] = metrics["peak"] /\ pc' = pc
    BY <1>0, <1>2, OtherCounters
       DEF SubmitBegin, SubmitStep, SubmitAddTask, SubmitAddDependency, SubmitLoadStatus,
           SubmitLoadCount, SubmitToPool, SubmitAlreadyMarked
  <2> QED
    BY <2>1, InflightFrame
<1>3. CASE (SchedulerStep /\ ~SchedulerNotify) \/ (OwnerStep /\ ~StopNotify)
  <2>1. metrics' = metrics /\ pc' = pc
    BY <1>3
       DEF SchedulerStep, SchedulerLock, SchedulerUnlock, SchedulerExit, SchedulerVisit,
           SchedulerMark, OwnerStep, Start, StopScheduler, StopPool, StopReturn, WaitReturns
  <2> QED
    BY <2>1, InflightFrame
<1>4. ASSUME NEW k \in Cancellers, CancelRecord(k) \/ \E t \in Tasks : CancelTask(k, t)
      PROVE  InflightExact'
  <2>1. metrics'["inflight"] = metrics["inflight"] /\ metrics'["peak"] = metrics["peak"]
    BY <1>0, <1>4, OtherCounters DEF CancelRecord, CancelTask
  <2>2. PICK step \in {"notify", "fail_promise"} : pc' = [pc EXCEPT ![k] = step]
    BY <1>4 DEF CancelRecord, CancelTask, Goto
  <2> QED
    BY <1>0, <2>1, <2>2, WhoIsWho, InflightStay
<1> QED
  BY <1>1, <1>2, <1>3, <1>4, <1>5, InflightWorker, InflightNotify DEF Next, Step

\* Without submit_async and without a user's callback that throws, inflight_tasks
\* counts the tasks being executed, retries, failures and cancelled executions
\* included, and its peak never exceeds the number of workers, for any number of
\* threads and tasks.
THEOREM InflightCounted == ASSUME QuietCallbacks PROVE Spec => []InflightExact
<1>1. Init => InflightExact
  <2> SUFFICES ASSUME Init PROVE InflightExact
    OBVIOUS
  <2>1. Executing = {}
    BY WhoIsWho DEF Init, Executing
  <2>2. metrics["inflight"] = 0 /\ metrics["peak"] = 0
    BY DEF Init, MonitorInit, Counters
  <2> QED
    BY <2>1, <2>2, ExecutingFinite, FS_EmptySet DEF InflightExact
<1>2. SafeInv /\ InflightExact /\ [Next]_vars => InflightExact'
  BY InflightStep
<1> QED
  BY <1>1, <1>2, SafeInvariant, PTL DEF Spec

-----------------------------------------------------------------------------
(* The retries granted                                                     *)

\* Where a worker is between the count of an attempt and the question whether to
\* try again
AttemptSteps == {"running", "success", "callback", "fulfill", "failure", "can_retry"}

\* The retries that have been granted or will not be: those before the task's last
\* attempt, and that of the last attempt itself if nobody is going to ask for it.
Spent ==
  {r \in Retries :
     \/ r[2] < attempts[r[1]]
     \/ /\ r[2] = attempts[r[1]]
        /\ cancelled[r[1]] \/ \A w \in Workers : pc[w] \in AttemptSteps => task[w] # r[1]}

\* A worker asks for a retry after an attempt only; each answer spends a retry of
\* its own.
RetryInv ==
  /\ \A w \in Workers :
       pc[w] \in AttemptSteps => attempts[task[w]] > 0 \/ cancelled[task[w]]
  /\ metrics["retried"] <= Cardinality(Spent)

LEMMA RetriesAre == \A r : r \in Retries <=> \E t \in Tasks : \E n \in 1 .. MaxRetries[t] : r = <<t, n>>
BY DEF Retries

LEMMA RetriesFinite ==
  ASSUME IsFiniteSet(Tasks)
  PROVE  IsFiniteSet(Retries)
<1> DEFINE own(t) == {t} \X (1 .. MaxRetries[t])
           f == [t \in Tasks |-> own(t)]
           sets == {own(t) : t \in Tasks}
<1>1. f \in Surjection(Tasks, sets)
  BY DEF Surjection
<1>2. IsFiniteSet(sets)
  BY <1>1, FS_Surjection
<1>3. ASSUME NEW t \in Tasks PROVE IsFiniteSet(own(t))
  <2>1. MaxRetries[t] \in Int
    BY MaxRetriesAssumption
  <2>2. \A m \in Int : IsFiniteSet(1 .. m)
    BY FS_Interval
  <2>3. IsFiniteSet({t}) /\ IsFiniteSet(1 .. MaxRetries[t])
    BY <2>1, <2>2, FS_Singleton
  <2> QED
    BY <2>3, FS_Product
<1>4. \A S \in sets : IsFiniteSet(S)
  BY <1>3
<1>5. IsFiniteSet(UNION sets)
  <2> HIDE DEF sets
  <2> QED
    BY <1>2, <1>4, FS_UNION
<1> QED
  BY <1>5 DEF Retries

LEMMA SpentFinite ==
  ASSUME IsFiniteSet(Tasks)
  PROVE  /\ IsFiniteSet(Spent) /\ IsFiniteSet(Spent') /\ Cardinality(Spent) \in Nat
         /\ Cardinality(Spent) <= Cardinality(Retries)
<1>1. Spent \subseteq Retries /\ Spent' \subseteq Retries
  BY DEF Spent
<1> QED
  BY <1>1, RetriesFinite, FS_Subset, FS_CardinalityType

\* A step spends nothing back: attempts are counted up, a cancelled task stays so,
\* and a worker gets to ask only after a new attempt or for a cancelled task.
LEMMA SpentKept ==
  ASSUME TypeInv, TypeInv',
         \A t \in Tasks : attempts'[t] >= attempts[t] /\ (cancelled[t] => cancelled'[t]),
         \A w \in Workers : pc'[w] \in AttemptSteps =>
           \/ pc[w] \in AttemptSteps /\ task'[w] = task[w]
           \/ cancelled'[task'[w]]
           \/ attempts'[task'[w]] > attempts[task'[w]]
  PROVE  Spent \subseteq Spent'
<1> SUFFICES ASSUME NEW r \in Spent PROVE r \in Spent'
  OBVIOUS
<1>1. PICK t \in Tasks, n \in Nat : r = <<t, n>> /\ r \in Retries
  BY RetriesAre, MaxRetriesAssumption DEF Spent
<1>2. /\ attempts[t] \in Nat /\ attempts'[t] \in Nat
      /\ attempts'[t] >= attempts[t] /\ (cancelled[t] => cancelled'[t])
  BY DEF TypeInv, TypeOK, TaskTypeOK
<1>3. CASE n < attempts[t] \/ n < attempts'[t]
  BY <1>1, <1>2, <1>3 DEF Spent
<1>4. CASE ~(n < attempts[t]) /\ ~(n < attempts'[t])
  <2>1. n = attempts[t] /\ attempts'[t] = n
    BY <1>1, <1>2, <1>4 DEF Spent
  <2>2. cancelled[t] \/ \A w \in Workers : pc[w] \in AttemptSteps => task[w] # t
    BY <1>1, <1>4 DEF Spent
  <2>3. cancelled'[t] \/ \A w \in Workers : pc'[w] \in AttemptSteps => task'[w] # t
    BY <1>2, <2>1, <2>2
  <2> QED
    BY <1>1, <2>1, <2>3 DEF Spent
<1> QED
  BY <1>3, <1>4

\* Steps that grant nothing
LEMMA RetryKept ==
  ASSUME IsFiniteSet(Tasks), TypeInv, TypeInv', RetryInv,
         metrics'["retried"] = metrics["retried"],
         \A t \in Tasks : attempts'[t] >= attempts[t] /\ (cancelled[t] => cancelled'[t]),
         \A w \in Workers : pc'[w] \in AttemptSteps =>
           \/ pc[w] \in AttemptSteps /\ task'[w] = task[w]
           \/ cancelled'[task'[w]]
           \/ attempts'[task'[w]] > attempts[task'[w]]
  PROVE  RetryInv'
<1>1. Cardinality(Spent) <= Cardinality(Spent') /\ Cardinality(Spent') \in Nat
  BY SpentKept, SpentFinite, FS_Subset, FS_CardinalityType
<1>2. metrics'["retried"] <= Cardinality(Spent')
  BY <1>1, SpentFinite DEF RetryInv, TypeInv, TypeOK, MonitorTypeOK, Counters
<1>3. ASSUME NEW w \in Workers, pc'[w] \in AttemptSteps
      PROVE  attempts'[task'[w]] > 0 \/ cancelled'[task'[w]]
  <2>1. task'[w] \in Tasks
    BY <1>3, WhoIsWho DEF TypeInv, ThreadsInv, Free, AttemptSteps
  <2>2. /\ attempts[task'[w]] \in Nat /\ attempts'[task'[w]] \in Nat
        /\ attempts'[task'[w]] >= attempts[task'[w]]
        /\ cancelled[task'[w]] => cancelled'[task'[w]]
    BY <2>1 DEF TypeInv, TypeOK, TaskTypeOK
  <2>3. CASE pc[w] \in AttemptSteps /\ task'[w] = task[w]
    <3>1. attempts[task'[w]] > 0 \/ cancelled[task'[w]]
      BY <2>3 DEF RetryInv
    <3> QED
      BY <2>2, <3>1
  <2>4. CASE attempts'[task'[w]] > attempts[task'[w]]
    BY <2>2, <2>4
  <2> QED
    BY <1>3, <2>3, <2>4
<1> QED
  BY <1>2, <1>3 DEF RetryInv

\* Steps of one thread that stays before an attempt's end or goes on to another task
LEMMA RetryMove ==
  ASSUME IsFiniteSet(Tasks), TypeInv, TypeInv', RetryInv, NEW w \in Threads,
         \A v \in Threads : v # w => pc'[v] = pc[v] /\ task'[v] = task[v],
         pc'[w] \in AttemptSteps => pc[w] \in AttemptSteps \/ cancelled[task[w]],
         pc'[w] \in AttemptSteps => task'[w] = task[w],
         metrics'["retried"] = metrics["retried"], UNCHANGED attempts,
         \A t \in Tasks : cancelled[t] => cancelled'[t]
  PROVE  RetryInv'
<1>1. \A t \in Tasks : attempts'[t] >= attempts[t]
  BY DEF TypeInv, TypeOK, TaskTypeOK
<1>2. ASSUME NEW v \in Workers, pc'[v] \in AttemptSteps
      PROVE  (pc[v] \in AttemptSteps /\ task'[v] = task[v]) \/ cancelled'[task'[v]]
  <2>1. task'[v] \in Tasks
    BY <1>2, WhoIsWho DEF TypeInv, ThreadsInv, Free, AttemptSteps
  <2> QED
    BY <1>2, <2>1, WhoIsWho
<1> QED
  BY <1>1, <1>2, RetryKept

\* What the other records do not touch
LEMMA RetriedKept ==
  ASSUME TypeInv,
         \/ record_submission \/ record_start \/ record_completion
         \/ record_failure \/ record_cancellation \/ UNCHANGED metrics
  PROVE  metrics'["retried"] = metrics["retried"]
<1>1. DOMAIN metrics = Counters
  BY DEF TypeInv, TypeOK, MonitorTypeOK
<1> QED
  BY <1>1 DEF Counters, record_submission, record_start, record_completion, record_failure,
              record_cancellation

\* Workers without a task are not asking.
LEMMA RetryRest ==
  ASSUME IsFiniteSet(Tasks), TypeInv, TypeInv', RetryInv, RestMove
  PROVE  RetryInv'
<1>1. \A t \in Tasks : attempts'[t] >= attempts[t]
  BY DEF RestMove, TypeInv, TypeOK, TaskTypeOK
<1>2. \A v \in Workers : pc'[v] \in AttemptSteps => pc[v] \in AttemptSteps
  BY WhoIsWho DEF RestMove, AttemptSteps
<1> QED
  BY <1>1, <1>2, RetryKept DEF RestMove

\* A retry that is granted is the one of the last attempt, which was not spent: no
\* other worker holds the task.
LEMMA RetryGranted ==
  ASSUME IsFiniteSet(Tasks), SafeInv, TypeInv', RetryInv, NEW w \in Workers,
         WorkerCanRetry(w), can_retry(task[w])
  PROVE  RetryInv'
<1> DEFINE t == task[w]
           r == <<t, attempts[t]>>
<1>0. TypeInv /\ w \in Threads /\ w \notin Cancellers
  BY WhoIsWho DEF SafeInv
<1>1. /\ pc[w] = "can_retry" /\ pc' = [pc EXCEPT ![w] = "reset"] /\ t \in Tasks
      /\ UNCHANGED <<task, attempts, cancelled>>
      /\ record_retry
  BY <1>0 DEF WorkerCanRetry, Goto, TypeInv, ThreadsInv, Free
<1>2. \A v \in Threads : pc'[v] = IF v = w THEN "reset" ELSE pc[v]
  BY <1>0, <1>1, Kinds
<1>3. ~cancelled[t] /\ attempts[t] \in Nat /\ attempts[t] > 0 /\ attempts[t] <= MaxRetries[t]
  <2>1. ~cancelled[t] /\ attempts[t] \in Nat /\ MaxRetries[t] \in Nat
    BY <1>0, <1>1, MaxRetriesAssumption DEF can_retry, TypeInv, TypeOK, TaskTypeOK
  <2>2. attempts[t] > 0
    BY <1>1, <2>1 DEF RetryInv, AttemptSteps
  <2> QED
    BY <2>1, <2>2 DEF can_retry
<1>4. r \in Retries /\ r \notin Spent
  <2>1. r \in Retries
    BY <1>1, <1>3, RetriesAre, MaxRetriesAssumption
  <2>2. r[1] = t /\ r[2] = attempts[t]
    OBVIOUS
  <2> QED
    BY <1>1, <1>3, <2>1, <2>2 DEF Spent, AttemptSteps
<1>5. r \in Spent'
  <2>1. ASSUME NEW v \in Workers, pc'[v] \in AttemptSteps PROVE task[v] # t
    <3>1. v \in Threads /\ v # w /\ pc[v] = pc'[v]
      BY <1>2, <2>1, WhoIsWho DEF AttemptSteps
    <3>2. OneClaim(t)
      BY <1>1, <1>3 DEF SafeInv, ClaimsExclusive, Live
    <3>3. Holds(w, t) /\ (task[v] = t => Holds(v, t))
      BY <1>1, <2>1, <3>1 DEF Holds, Holding, WorkerSteps, AttemptSteps
    <3> QED
      BY <3>1, <3>2, <3>3 DEF OneClaim
  <2>2. \A v \in Workers : pc'[v] \in AttemptSteps => task'[v] # t
    BY <1>1, <2>1
  <2>3. r[1] = t /\ r[2] = attempts'[t]
    BY <1>1
  <2> HIDE DEF r, t
  <2> QED
    BY <1>4, <2>2, <2>3 DEF Spent
<1>6. Spent \subseteq Spent'
  <2>1. \A u \in Tasks : attempts'[u] >= attempts[u]
    BY <1>0, <1>1 DEF TypeInv, TypeOK, TaskTypeOK
  <2>2. \A v \in Workers : pc'[v] \in AttemptSteps => pc[v] \in AttemptSteps
    BY <1>2, WhoIsWho DEF AttemptSteps
  <2> QED
    BY <1>0, <1>1, <2>1, <2>2, SpentKept
<1>7. Cardinality(Spent') >= Cardinality(Spent) + 1
  <2> DEFINE more == Spent \cup {r}
  <2>1. Cardinality(more) = Cardinality(Spent) + 1
    BY <1>4, SpentFinite, FS_AddElement
  <2>2. more \subseteq Spent'
    BY <1>5, <1>6
  <2> HIDE DEF more
  <2>3. Cardinality(more) <= Cardinality(Spent')
    BY <2>2, SpentFinite, FS_Subset
  <2> QED
    BY <2>1, <2>3
<1>8. metrics'["retried"] \in Nat /\ metrics'["retried"] <= metrics["retried"] + 1
  BY <1>0, <1>1, CounterMaxAssumption
     DEF record_retry, Inc, TypeInv, TypeOK, MonitorTypeOK, Counters
<1>9. metrics'["retried"] <= Cardinality(Spent')
  <2>1. /\ metrics["retried"] \in Nat /\ metrics["retried"] <= Cardinality(Spent)
        /\ Cardinality(Spent) \in Nat /\ Cardinality(Spent') \in Nat
    BY <1>0, SpentFinite, FS_CardinalityType
       DEF RetryInv, TypeInv, TypeOK, MonitorTypeOK, Counters
  <2> QED
    BY <1>7, <1>8, <2>1
<1>10. \A v \in Workers :
         pc'[v] \in AttemptSteps => attempts'[task'[v]] > 0 \/ cancelled'[task'[v]]
  BY <1>1, <1>2, WhoIsWho DEF RetryInv, AttemptSteps
<1> QED
  BY <1>9, <1>10 DEF RetryInv


LEMMA RetryWorker ==
  ASSUME IsFiniteSet(Tasks), SafeInv, TypeInv', RetryInv, NEW w \in Workers, WorkerStep(w)
  PROVE  RetryInv'
<1> USE WhoIsWho DEF Goto, AttemptSteps
<1>0. TypeInv /\ w \in Threads /\ DOMAIN pc = Threads /\ DOMAIN task = Threads
  BY Kinds DEF SafeInv
<1>1. CASE \/ WorkerLoop(w) \/ WorkerFindNothing(w) \/ WaitTest(w) \/ WaitBlock(w)
           \/ WorkerNotify(w)
  BY <1>0, <1>1, RestSteps, RetryRest
<1>2. ASSUME NEW t \in Tasks, WorkerTake(w, t) PROVE RetryInv'
  BY <1>0, <1>2, RetryMove, RetriedKept DEF WorkerTake
<1>3. CASE WorkerExecute(w)
  <2>1. /\ pc'[w] \in AttemptSteps => cancelled[task[w]]
        /\ \A v \in Threads : v # w => pc'[v] = pc[v]
        /\ UNCHANGED <<task, attempts, cancelled, metrics>>
    BY <1>0, <1>3 DEF WorkerExecute, ExecuteCancelled
  <2> QED
    BY <1>0, <2>1, RetryMove, RetriedKept
<1>4. CASE WorkerBegin(w)
  <2>1. /\ task[w] \in Tasks /\ attempts' = [attempts EXCEPT ![task[w]] = @ + 1]
        /\ \A v \in Threads : v # w => pc'[v] = pc[v]
        /\ UNCHANGED <<task, cancelled, metrics>>
    BY <1>0, <1>4 DEF WorkerBegin, ExecuteBegin, TypeInv, ThreadsInv, Free
  <2>2. attempts \in [Tasks -> Nat]
    BY <1>0 DEF TypeInv, TypeOK, TaskTypeOK
  <2>3. (\A t \in Tasks : attempts'[t] >= attempts[t]) /\ attempts'[task[w]] > attempts[task[w]]
    BY <2>1, <2>2
  <2>4. \A v \in Workers : pc'[v] \in AttemptSteps =>
          \/ pc[v] \in AttemptSteps /\ task'[v] = task[v]
          \/ attempts'[task'[v]] > attempts[task'[v]]
    BY <2>1, <2>3
  <2> HIDE DEF AttemptSteps
  <2> QED
    BY <1>0, <2>1, <2>3, <2>4, RetryKept, RetriedKept
<1>5. ASSUME NEW outcome, WorkerEnd(w, outcome) PROVE RetryInv'
  BY <1>0, <1>5, RetryMove, RetriedKept DEF WorkerEnd, ExecuteEnd
<1>6. CASE WorkerOnSuccess(w) \/ WorkerOnFailure(w)
  BY <1>0, <1>6, RetryMove, RetriedKept DEF WorkerOnSuccess, WorkerOnFailure
<1>7. CASE WorkerCallback(w)
  BY <1>0, <1>7, RetryMove, RetriedKept DEF WorkerCallback
<1>8. CASE WorkerFulfillPromise(w)
  BY <1>0, <1>8, RetryMove, RetriedKept DEF WorkerFulfillPromise
<1>9. CASE WorkerCanRetry(w)
  <2>1. CASE can_retry(task[w])
    BY <1>9, <2>1, RetryGranted
  <2>2. CASE ~can_retry(task[w])
    BY <1>0, <1>9, <2>2, RetryMove, RetriedKept DEF WorkerCanRetry
  <2> QED
    BY <2>1, <2>2
<1>10. CASE WorkerReset(w)
  BY <1>0, <1>10, RetryMove, RetriedKept DEF WorkerReset, reset_for_retry
<1>11. CASE WorkerResubmit(w)
  BY <1>0, <1>11, RetryMove, RetriedKept DEF WorkerResubmit, try_mark_enqueued
<1> QED
  BY <1>1, <1>2, <1>3, <1>4, <1>5, <1>6, <1>7, <1>8, <1>9, <1>10, <1>11 DEF WorkerStep

LEMMA RetryStep ==
  IsFiniteSet(Tasks) /\ SafeInv /\ RetryInv /\ [Next]_vars => RetryInv'
<1> SUFFICES ASSUME IsFiniteSet(Tasks), SafeInv, RetryInv, [Next]_vars PROVE RetryInv'
  OBVIOUS
<1> USE WhoIsWho DEF Goto, AttemptSteps
<1>0. TypeInv /\ TypeInv' /\ DOMAIN pc = Threads /\ DOMAIN task = Threads
  BY TypeStep, Kinds DEF SafeInv
<1>1. ASSUME UNCHANGED <<pc, task, attempts>>, metrics'["retried"] = metrics["retried"],
             \A t \in Tasks : cancelled[t] => cancelled'[t]
      PROVE  RetryInv'
  <2>1. \A t \in Tasks : attempts'[t] >= attempts[t]
    BY <1>0, <1>1 DEF TypeInv, TypeOK, TaskTypeOK
  <2> QED
    BY <1>0, <1>1, <2>1, RetryKept
<1>7. CASE (\E t \in Tasks : SubmitNotify(t)) \/ SchedulerNotify \/ StopNotify
  BY <1>0, <1>7, RestSteps, RetryRest
<1>2. ASSUME NEW t \in Tasks, SubmitBegin(t) \/ SubmitStep(t), ~SubmitNotify(t) PROVE RetryInv'
  <2>1. /\ UNCHANGED <<pc, task, attempts, cancelled>>
        /\ record_submission \/ UNCHANGED metrics
    BY <1>2
       DEF SubmitBegin, SubmitStep, SubmitAddTask, SubmitAddDependency, SubmitLoadStatus,
           SubmitLoadCount, SubmitToPool, SubmitAlreadyMarked, add_task, GraphAddDependency,
           add_dependency, try_mark_enqueued
  <2> QED
    BY <1>0, <1>1, <2>1, RetriedKept
<1>3. CASE (SchedulerStep /\ ~SchedulerNotify) \/ (OwnerStep /\ ~StopNotify) \/ UNCHANGED vars
  <2>1. UNCHANGED <<pc, task, attempts, cancelled, metrics>>
    BY <1>3
       DEF SchedulerStep, SchedulerLock, SchedulerUnlock, SchedulerExit, SchedulerVisit,
           SchedulerMark, try_mark_enqueued,
           OwnerStep, Start, StopScheduler, StopPool, StopReturn, WaitReturns
  <2> QED
    BY <1>1, <2>1
<1>4. ASSUME NEW k \in Cancellers, CancelRecord(k) PROVE RetryInv'
  BY <1>0, <1>4, RetryMove, RetriedKept DEF CancelRecord
<1>5. ASSUME NEW k \in Cancellers, NEW t \in Tasks, CancelTask(k, t) PROVE RetryInv'
  <2>1. /\ \A u \in Tasks : cancelled[u] => cancelled'[u]
        /\ UNCHANGED <<attempts, metrics>>
        /\ pc' = [pc EXCEPT ![k] = "fail_promise"] /\ task' = [task EXCEPT ![k] = t]
    BY <1>0, <1>5, Kinds DEF CancelTask, Cancel
  <2> QED
    BY <1>0, <2>1, RetryMove, RetriedKept
<1>6. ASSUME NEW w \in Threads, NotifyStep(w) PROVE RetryInv'
  <2>1. /\ pc'[w] \notin AttemptSteps
        /\ \A v \in Threads : v # w => pc'[v] = pc[v] /\ task'[v] = task[v]
        /\ UNCHANGED <<attempts, cancelled, metrics>>
    BY <1>0, <1>6
       DEF NotifyStep, FailPromise, NotifyBegin, NotifyNext, NotifyStoreReady, NotifyEnd,
           ClearFlag, BackToLoop, NotifyDecrement, NotifyReady, clear_enqueued_flag
  <2> QED
    BY <1>0, <2>1, RetryMove, RetriedKept
<1> QED
  BY <1>0, <1>2, <1>3, <1>4, <1>5, <1>6, <1>7, RetryWorker DEF Next, Step

\* The retries granted are no more than those the tasks were submitted with, whoever
\* runs, fails, cancels and resubmits them, for any number of threads and of finitely
\* many tasks: two workers never ask for the retry of the same attempt.
THEOREM RetriesBounded == ASSUME IsFiniteSet(Tasks) PROVE Spec => []RetriesWithinBudget
<1>1. Init => RetryInv
  <2> SUFFICES ASSUME Init PROVE RetryInv
    OBVIOUS
  <2>1. \A w \in Workers : pc[w] = "loop"
    BY WhoIsWho DEF Init
  <2>2. metrics["retried"] = 0
    BY DEF Init, MonitorInit, Counters
  <2> QED
    BY <2>1, <2>2, SpentFinite DEF RetryInv, AttemptSteps
<1>2. SafeInv /\ RetryInv /\ [Next]_vars => RetryInv'
  BY RetryStep
<1>3. SafeInv /\ RetryInv => RetriesWithinBudget
  <2> SUFFICES ASSUME SafeInv, RetryInv PROVE RetriesWithinBudget
    OBVIOUS
  <2>1. metrics["retried"] \in Nat /\ Cardinality(Retries) \in Nat
    BY RetriesFinite, FS_CardinalityType
       DEF SafeInv, TypeInv, TypeOK, MonitorTypeOK, Counters
  <2> QED
    BY <2>1, SpentFinite DEF RetryInv, RetriesWithinBudget
<1> QED
  BY <1>1, <1>2, <1>3, SafeInvariant, PTL DEF Spec


-----------------------------------------------------------------------------
(* One worker, no retries                                                  *)

\* The executor as the order of its tasks needs it: one worker, nobody who cancels,
\* a start that comes after the submissions, no retries.  With a second worker a
\* task may run between the decrement and the Ready store of its notification, and
\* again after it; with a start before the submissions the scheduler's list may be
\* stale, or a task enqueued before its edges are there.
Serial ==
  /\ \A v, w \in Workers : v = w
  /\ Cancellers = {}
  /\ StartLast
  /\ \A t \in Tasks : MaxRetries[t] = 0

Unstarted == {"Pending", "Ready"}

BeforeRun == {"execute", "begin"}
AfterRun == {"success", "callback", "fulfill", "failure", "can_retry", "fail_promise",
             "notify", "notify_dec", "notify_ready", "clear"}

Elems(s) == {s[i] : i \in 1 .. Len(s)}

Distinct(s) == \A i, j \in 1 .. Len(s) : s[i] = s[j] => i = j

\* The dependents a worker in notify_task_completed has yet to decrement
Left(w) == IF pc[w] = "notify_ready" THEN Tail(todo[w]) ELSE todo[w]

\* A worker will decrement t's count for d.
WillNotify(w, d, t) ==
  /\ task[w] = d
  /\ \/ pc[w] \in Holding \ {"notify_dec", "notify_ready", "clear"}
     \/ pc[w] \in NotifySteps /\ t \in Elems(Left(w))

\* d has not ended, or its dependent t has yet to hear of it.
Unfinished(d, t) == status[d] \notin Terminal \/ \E w \in Workers : WillNotify(w, d, t)

\* The dependencies t has been given and that may still be subtracted from its count
Open(t) == {d \in Deps[t] \ sdeps[t] : Unfinished(d, t)}

\* Somebody has seen that t is ready.
Chosen(t) == enqueued[t] \/ status[t] \notin Unstarted \/ t \in ready \/ spc[t] = "mark"

RunInv ==
  /\ \A t \in Tasks : ~cancelled[t]
  /\ \A t \in Tasks : attempts[t] = IF status[t] \in Unstarted THEN 0 ELSE 1
  /\ \A t \in Tasks : queued[t] > 0 => status[t] \in Unstarted
  /\ \A w \in Workers :
       /\ pc[w] \in BeforeRun => status[task[w]] \in Unstarted
       /\ pc[w] = "running" => status[task[w]] = "Running"
       /\ pc[w] \in AfterRun => status[task[w]] \in Terminal
       /\ pc[w] \notin {"reset", "remark"}

SubmitInv ==
  /\ \A t \in Tasks :
       /\ sdeps[t] \subseteq Deps[t]
       /\ spc[t] \notin {"new", "add_task"} => t \in graph
       /\ spc[t] \notin {"new", "add_task", "add_dep"} => sdeps[t] = {}
       /\ spc[t] # "new" => \A d \in Deps[t] : spc[d] = "done"
       /\ spc[t] = "mark" => ~enqueued[t] /\ status[t] \in Unstarted
       /\ Chosen(t) => spc[t] \in {"mark", "notify", "done", "threw"}
  /\ scheduler # "off" \/ scheduler_running => AllSubmitted
  /\ waited => AllSubmitted

ListInv ==
  /\ \A t \in ready : ~enqueued[t] /\ status[t] \in Unstarted
  /\ scheduler \in {"off", "loop"} => ready = {}
  /\ scheduler_running \/ scheduler = "off" \/ owner = "join_scheduler"
  /\ owner = "join_scheduler" => ~scheduler_running

CountInv ==
  \A t \in Tasks :
    /\ dependencies_count[t] >= Cardinality(Open(t))
    /\ Chosen(t) => dependencies_count[t] = 0

EdgeInv ==
  /\ \A d \in Tasks :
       /\ Distinct(dependents[d])
       /\ \A t \in Elems(dependents[d]) : d \in Deps[t] \ sdeps[t]
  /\ \A w \in Workers : pc[w] \in NotifySteps =>
       /\ Distinct(todo[w])
       /\ \A t \in Elems(todo[w]) : task[w] \in Deps[t] \ sdeps[t]
  /\ \A w \in Workers : pc[w] = "notify_ready" => status[Head(todo[w])] \in Unstarted

OrderInv ==
  SafeInv /\ RunInv /\ SubmitInv /\ ListInv /\ CountInv /\ EdgeInv /\ WaitSound

\* What the invariant says of the types
LEMMA OrderKinds ==
  ASSUME OrderInv
  PROVE  /\ status \in [Tasks -> TaskStatus]
         /\ attempts \in [Tasks -> Nat]
         /\ dependencies_count \in [Tasks -> Int]
         /\ dependents \in [Tasks -> Seq(Tasks)]
         /\ sdeps \in [Tasks -> SUBSET Tasks]
         /\ todo \in [Threads -> Seq(Tasks)]
         /\ graph \subseteq Tasks /\ ready \subseteq Tasks /\ visit \subseteq Tasks
         /\ \A w \in Threads : pc[w] = "notify_ready" => todo[w] # << >>
         /\ \A t \in Tasks : Deps[t] \subseteq Tasks
BY DepsAssumption
   DEF OrderInv, SafeInv, TypeInv, TypeOK, TaskTypeOK, GraphTypeOK, ExecutorTypeOK, ThreadsInv

\* Nobody cancels, so every task has one claim at most.
LEMMA OrderClaims ==
  ASSUME OrderInv
  PROVE  \A t \in Tasks : OneClaim(t)
BY DEF OrderInv, SafeInv, RunInv, ClaimsExclusive, Live

LEMMA HeldTask ==
  ASSUME OrderInv, NEW w \in Workers, pc[w] \in Holding
  PROVE  task[w] \in Tasks /\ enqueued[task[w]] /\ queued[task[w]] = 0
<1>1. task[w] \in Tasks /\ Holds(w, task[w])
  BY WhoIsWho, Kinds DEF OrderInv, SafeInv, Holds, Holding, WorkerSteps, NotifySteps, Free
<1>2. queued[task[w]] \in Nat
  BY <1>1, Kinds DEF OrderInv, SafeInv
<1> QED
  BY <1>1, <1>2, OrderClaims DEF OneClaim

LEMMA OpenFinite ==
  ASSUME NEW t \in Tasks
  PROVE  IsFiniteSet(Open(t)) /\ Cardinality(Open(t)) \in Nat
<1>1. Open(t) \subseteq Deps[t]
  BY DEF Open
<1> QED
  BY <1>1, SizesAssumption, FS_Subset, FS_CardinalityType

\* The task somebody has chosen to run waits for nothing, and will not.
LEMMA ChosenWaitsForNothing ==
  ASSUME OrderInv, NEW t \in Tasks, Chosen(t), NEW d \in Deps[t]
  PROVE  ~Unfinished(d, t)
<1>1. Cardinality(Open(t)) = 0
  BY OpenFinite DEF OrderInv, CountInv
<1>2. Open(t) = {}
  BY <1>1, OpenFinite, FS_EmptySet
<1>3. sdeps[t] = {}
  BY DEF OrderInv, SubmitInv
<1> QED
  BY <1>2, <1>3 DEF Open

LEMMA CountFrame ==
  ASSUME OrderInv, sdeps' = sdeps, dependencies_count' = dependencies_count,
         \A t \in Tasks : \A d \in Deps[t] : Unfinished(d, t)' => Unfinished(d, t),
         \A t \in Tasks : Chosen(t)' => dependencies_count[t] = 0
  PROVE  CountInv'
<1> SUFFICES ASSUME NEW t \in Tasks
             PROVE  /\ dependencies_count'[t] >= Cardinality(Open(t)')
                    /\ Chosen(t)' => dependencies_count'[t] = 0
  BY DEF CountInv
<1>1. Open(t)' \subseteq Open(t)
  BY DEF Open
<1>2. Cardinality(Open(t)') <= Cardinality(Open(t)) /\ Cardinality(Open(t)') \in Nat
  BY <1>1, OpenFinite, FS_Subset, FS_CardinalityType
<1> QED
  BY <1>2, OpenFinite, OrderKinds DEF OrderInv, CountInv

-----------------------------------------------------------------------------
(* Submissions, the scheduler and the owner                                *)

\* Steps of other threads than the worker
LEMMA OrderOutside ==
  ASSUME OrderInv,
         UNCHANGED <<pc, task, todo, status, attempts, cancelled, sdeps, dependents,
                     dependencies_count>>,
         \A t \in Tasks : queued'[t] > 0 => queued[t] > 0 \/ status[t] \in Unstarted,
         \A t \in Tasks : Chosen(t)' => dependencies_count[t] = 0
  PROVE  RunInv' /\ CountInv' /\ EdgeInv'
<1>1. RunInv'
  BY DEF OrderInv, RunInv
<1>2. CountInv'
  <2>1. \A t \in Tasks : \A d \in Deps[t] : Unfinished(d, t)' => Unfinished(d, t)
    BY DEF Unfinished, WillNotify, Left
  <2> QED
    BY <2>1, CountFrame
<1>3. EdgeInv'
  BY DEF OrderInv, EdgeInv
<1> QED
  BY <1>1, <1>2, <1>3

\* Workers without a task, and a thread that has notified one
LEMMA OrderRest ==
  ASSUME OrderInv, RestMove, UNCHANGED <<scheduler, owner, spc>>
                  \/ (\E t \in Tasks : SubmitNotify(t)) \/ SchedulerNotify \/ StopNotify
  PROVE  RunInv' /\ SubmitInv' /\ ListInv' /\ CountInv' /\ EdgeInv' /\ WaitSound'
<1> USE WhoIsWho DEF NotifySteps, WorkerSteps, Holding, BeforeRun, AfterRun
<1>0. /\ \A v \in Workers :
           pc'[v] = pc[v] \/ (pc[v] \in Resting /\ pc'[v] \in Resting)
      /\ UNCHANGED <<taskVars, graph, sdeps, task, todo, queued, ready, scheduler_running, waited>>
  BY DEF RestMove
<1>1. spc \in [Tasks -> SubmitSteps]
  BY Kinds DEF OrderInv, SafeInv
<1>2. \/ UNCHANGED <<scheduler, owner, spc>>
      \/ \E t \in Tasks : /\ spc[t] = "notify" /\ spc' = [spc EXCEPT ![t] = "done"]
                          /\ UNCHANGED <<scheduler, owner>>
      \/ scheduler = "notify" /\ scheduler' = AfterTask(ready) /\ UNCHANGED <<spc, owner>>
      \/ owner = "notify_all" /\ owner' = "join_workers" /\ UNCHANGED <<spc, scheduler>>
  BY DEF SubmitNotify, SchedulerNotify, StopNotify
<1>3. /\ \A t \in Tasks : spc'[t] = spc[t] \/ (spc[t] = "notify" /\ spc'[t] = "done")
      /\ scheduler' = scheduler \/ (scheduler = "notify" /\ scheduler' = AfterTask(ready))
      /\ owner' = owner \/ (owner = "notify_all" /\ owner' = "join_workers")
  BY <1>1, <1>2
<1>4. \A t \in Tasks : Chosen(t)' <=> Chosen(t)
  BY <1>0, <1>3 DEF Chosen
<1>5. RunInv'
  BY <1>0 DEF OrderInv, RunInv
<1>6. SubmitInv'
  <2>1. AllSubmitted => AllSubmitted'
    BY <1>3 DEF AllSubmitted
  <2>2. scheduler' # "off" => scheduler # "off"
    BY <1>3
  <2>3. \A t \in Tasks : Deps[t] \subseteq Tasks
    BY OrderKinds
  <2>4. ASSUME NEW t \in Tasks, \A d \in Deps[t] : spc[d] = "done"
        PROVE  \A d \in Deps[t] : spc'[d] = "done"
    BY <1>3, <2>3, <2>4
  <2> QED
    BY <1>0, <1>3, <1>4, <2>1, <2>2, <2>4 DEF OrderInv, SubmitInv
<1>7. ListInv'
  BY <1>0, <1>3 DEF OrderInv, ListInv, AfterTask
<1>8. CountInv'
  <2>1. \A v \in Workers, t \in Tasks, d \in Tasks : WillNotify(v, d, t)' => WillNotify(v, d, t)
    BY <1>0 DEF WillNotify, Left
  <2>2. \A t \in Tasks : \A d \in Deps[t] : Unfinished(d, t)' => Unfinished(d, t)
    BY <1>0, <2>1, OrderKinds DEF Unfinished
  <2> QED
    BY <1>0, <1>4, <2>2, CountFrame DEF OrderInv, CountInv
<1>9. EdgeInv'
  BY <1>0 DEF OrderInv, EdgeInv
<1>10. WaitSound'
  BY <1>0 DEF OrderInv, WaitSound
<1> QED
  BY <1>5, <1>6, <1>7, <1>8, <1>9, <1>10

\* As long as a task is being submitted the scheduler thread does not run.
LEMMA Submitting ==
  ASSUME OrderInv, NEW t \in Tasks, spc[t] \notin {"done", "threw"}
  PROVE  scheduler = "off" /\ ~scheduler_running /\ ~waited /\ ready = {}
BY DEF OrderInv, SubmitInv, ListInv, AllSubmitted

\* A submission that goes on, without a new edge
LEMMA SubmitMove ==
  ASSUME OrderInv, NEW t \in Tasks, NEW step \in SubmitSteps,
         spc[t] \notin {"done", "threw"}, step # "new",
         spc' = [spc EXCEPT ![t] = step],
         UNCHANGED <<pc, task, todo, status, attempts, cancelled, sdeps, dependents,
                     dependencies_count, scheduler, scheduler_running, ready, owner, waited>>,
         graph \subseteq graph',
         step \notin {"new", "add_task"} => t \in graph',
         step \notin {"new", "add_task", "add_dep"} => sdeps[t] = {},
         \A d \in Deps[t] : spc[d] = "done",
         step = "mark" => /\ ~enqueued[t] /\ status[t] \in Unstarted
                          /\ dependencies_count[t] = 0,
         Chosen(t) => step \in {"mark", "notify", "done", "threw"},
         \/ UNCHANGED <<enqueued, queued>>
         \/ /\ spc[t] = "mark" /\ step # "mark"
            /\ enqueued' = [enqueued EXCEPT ![t] = TRUE]
            /\ queued' \in {queued, [queued EXCEPT ![t] = @ + 1]}
  PROVE  RunInv' /\ SubmitInv' /\ ListInv' /\ CountInv' /\ EdgeInv' /\ WaitSound'
<1>0. spc \in [Tasks -> SubmitSteps] /\ enqueued \in [Tasks -> BOOLEAN] /\ queued \in [Tasks -> Nat]
  BY Kinds DEF OrderInv, SafeInv
<1>1. scheduler = "off" /\ ~scheduler_running /\ ~waited /\ ready = {}
  BY Submitting
<1>2. \A u \in Tasks \ {t} : spc'[u] = spc[u] /\ enqueued'[u] = enqueued[u] /\ queued'[u] = queued[u]
  BY <1>0
<1>3. spc'[t] = step
  BY <1>0
<1>4. enqueued'[t] => enqueued[t] \/ spc[t] = "mark"
  BY <1>0
<1>5. \A u \in Tasks : Chosen(u)' => Chosen(u) \/ (u = t /\ step = "mark")
  BY <1>2, <1>3, <1>4 DEF Chosen
<1>6. RunInv' /\ CountInv' /\ EdgeInv'
  <2>1. \A u \in Tasks : queued'[u] > 0 => queued[u] > 0 \/ status[u] \in Unstarted
    BY <1>2 DEF OrderInv, SubmitInv
  <2>2. \A u \in Tasks : Chosen(u)' => dependencies_count[u] = 0
    BY <1>5 DEF OrderInv, CountInv
  <2> QED
    BY <2>1, <2>2, OrderOutside
<1>7. SubmitInv'
  <2> SUFFICES ASSUME NEW u \in Tasks
               PROVE  /\ sdeps[u] \subseteq Deps[u]
                      /\ spc'[u] \notin {"new", "add_task"} => u \in graph'
                      /\ spc'[u] \notin {"new", "add_task", "add_dep"} => sdeps[u] = {}
                      /\ spc'[u] # "new" => \A d \in Deps[u] : spc'[d] = "done"
                      /\ spc'[u] = "mark" => ~enqueued'[u] /\ status[u] \in Unstarted
                      /\ Chosen(u)' => spc'[u] \in {"mark", "notify", "done", "threw"}
    BY <1>1 DEF SubmitInv
  <2>0. /\ sdeps[u] \subseteq Deps[u]
        /\ spc[u] \notin {"new", "add_task"} => u \in graph
        /\ spc[u] \notin {"new", "add_task", "add_dep"} => sdeps[u] = {}
        /\ spc[u] # "new" => \A d \in Deps[u] : spc[d] = "done"
        /\ spc[u] = "mark" => ~enqueued[u] /\ status[u] \in Unstarted
        /\ Chosen(u) => spc[u] \in {"mark", "notify", "done", "threw"}
    BY DEF OrderInv, SubmitInv
  <2>1. \A d \in Deps[u] : spc[d] = "done" => spc'[d] = "done"
    BY <1>2, OrderKinds
  <2>2. CASE u = t
    <3>1. step = "mark" => ~enqueued'[t]
      OBVIOUS
    <3> QED
      BY <1>3, <1>5, <2>0, <2>1, <2>2, <3>1
  <2>3. CASE u # t
    BY <1>2, <1>5, <2>0, <2>1, <2>3
  <2> QED
    BY <2>2, <2>3
<1>8. ListInv' /\ WaitSound'
  BY <1>1 DEF OrderInv, ListInv, WaitSound
<1> QED
  BY <1>6, <1>7, <1>8

LEMMA SubmitAddEdge ==
  ASSUME OrderInv, NEW t \in Tasks, NEW d \in Tasks, SubmitAddDependency(t, d)
  PROVE  RunInv' /\ SubmitInv' /\ ListInv' /\ CountInv' /\ EdgeInv' /\ WaitSound'
<1>0. /\ spc \in [Tasks -> SubmitSteps]
      /\ spc[t] = "add_dep" /\ d \in sdeps[t] /\ sdeps[t] \subseteq Deps[t]
      /\ \A w \in Workers : pc[w] \notin NotifySteps
      /\ sdeps' = [sdeps EXCEPT ![t] = @ \ {d}]
      /\ UNCHANGED <<spc, pc, task, todo, status, attempts, cancelled, enqueued, queued, graph,
                     scheduler, scheduler_running, ready, owner, waited>>
  BY Kinds, WhoIsWho
     DEF OrderInv, SafeInv, SubmitInv, SubmitAddDependency, GraphMutexFree, GraphAddDependency,
         add_dependency
<1>1. scheduler = "off" /\ ~scheduler_running /\ ~waited /\ ready = {} /\ ~Chosen(t)
  BY <1>0, Submitting DEF OrderInv, SubmitInv
<1>2. add_dependency(t, d)
  <2>1. t \in graph /\ d \in graph
    BY <1>0 DEF OrderInv, SubmitInv
  <2> QED
    BY <2>1 DEF SubmitAddDependency, GraphAddDependency
<1>3. /\ dependencies_count' = [dependencies_count EXCEPT ![t] = @ + 1]
      /\ dependents' = [dependents EXCEPT ![d] = Append(@, t)]
  BY <1>2 DEF add_dependency
<1>4. RunInv' /\ ListInv' /\ WaitSound'
  BY <1>0, <1>1 DEF OrderInv, RunInv, ListInv, WaitSound
<1>5. \A u \in Tasks : (Chosen(u)' <=> Chosen(u)) /\ sdeps'[u] \subseteq sdeps[u]
  BY <1>0, OrderKinds DEF Chosen
<1>6. SubmitInv'
  <2>1. AllSubmitted' <=> AllSubmitted
    BY <1>0 DEF AllSubmitted
  <2> QED
    BY <1>0, <1>5, <2>1 DEF OrderInv, SubmitInv
<1>7. CountInv'
  <2> SUFFICES ASSUME NEW u \in Tasks
               PROVE  /\ dependencies_count'[u] >= Cardinality(Open(u)')
                      /\ Chosen(u)' => dependencies_count'[u] = 0
    BY DEF CountInv
  <2>0. /\ dependencies_count[u] >= Cardinality(Open(u))
        /\ Chosen(u) => dependencies_count[u] = 0
        /\ dependencies_count[u] \in Int
    BY OrderKinds DEF OrderInv, CountInv
  <2>1. \A e \in Deps[u] : Unfinished(e, u)' <=> Unfinished(e, u)
    BY <1>0 DEF Unfinished, WillNotify, Left
  <2>2. CASE u = t
    <3>1. Open(t)' \subseteq Open(t) \cup {d}
      BY <1>0, <2>1, <2>2, OrderKinds DEF Open
    <3>2. /\ IsFiniteSet(Open(t) \cup {d})
          /\ Cardinality(Open(t) \cup {d}) <= Cardinality(Open(t)) + 1
      <4>1. IsFiniteSet(Open(t)) /\ Cardinality(Open(t)) \in Nat
        BY OpenFinite
      <4> HIDE DEF Open
      <4>2. /\ IsFiniteSet(Open(t) \cup {d})
            /\ Cardinality(Open(t) \cup {d}) =
                 IF d \in Open(t) THEN Cardinality(Open(t)) ELSE Cardinality(Open(t)) + 1
        BY <4>1, FS_AddElement
      <4> QED
        BY <4>1, <4>2
    <3>3. Cardinality(Open(t)') <= Cardinality(Open(t)) + 1
      <4>1. Cardinality(Open(t)') <= Cardinality(Open(t) \cup {d})
        BY <3>1, <3>2, FS_Subset
      <4>2. Cardinality(Open(t)') \in Nat /\ Cardinality(Open(t) \cup {d}) \in Nat
        BY <3>1, <3>2, FS_Subset, FS_CardinalityType
      <4> QED
        BY <3>2, <4>1, <4>2, OpenFinite
    <3>4. dependencies_count'[t] = dependencies_count[t] + 1
      BY <1>3, OrderKinds
    <3>5. Cardinality(Open(t)') \in Nat
      BY <3>1, <3>2, FS_Subset, FS_CardinalityType
    <3> QED
      BY <1>1, <1>5, <2>0, <2>2, <3>3, <3>4, <3>5, OpenFinite
  <2>3. CASE u # t
    <3>1. Open(u)' = Open(u)
      BY <1>0, <2>1, <2>3, OrderKinds DEF Open
    <3> QED
      BY <1>3, <1>5, <2>0, <2>3, <3>1, OrderKinds
  <2> QED
    BY <2>2, <2>3
<1>8. EdgeInv'
  <2>1. ASSUME NEW e \in Tasks
        PROVE  /\ Distinct(dependents'[e])
               /\ \A u \in Elems(dependents'[e]) : e \in Deps[u] \ sdeps'[u]
    <3>0. /\ dependents[e] \in Seq(Tasks) /\ Distinct(dependents[e])
          /\ \A u \in Elems(dependents[e]) : u \in Tasks /\ e \in Deps[u] \ sdeps[u]
      <4>1. dependents[e] \in Seq(Tasks)
        BY OrderKinds
      <4>2. Elems(dependents[e]) \subseteq Tasks
        BY <4>1 DEF Elems
      <4> QED
        BY <4>1, <4>2 DEF OrderInv, EdgeInv
    <3>1. CASE e = d
      <4>1. dependents'[e] = Append(dependents[e], t)
        BY <1>3, <3>1, OrderKinds
      <4>2. t \notin Elems(dependents[e])
        BY <1>0, <3>0, <3>1
      <4>3. Elems(dependents'[e]) = Elems(dependents[e]) \cup {t}
        BY <3>0, <4>1 DEF Elems
      <4>4. Distinct(dependents'[e])
        BY <3>0, <4>1, <4>2 DEF Elems, Distinct
      <4> QED
        BY <1>0, <1>5, <3>0, <3>1, <4>3, <4>4, OrderKinds
    <3>2. CASE e # d
      <4>1. dependents'[e] = dependents[e]
        BY <1>3, <3>2, OrderKinds
      <4> QED
        BY <1>5, <3>0, <4>1
    <3> QED
      BY <3>1, <3>2
  <2>2. \A w \in Workers : pc'[w] \notin NotifySteps /\ pc'[w] # "notify_ready"
    BY <1>0 DEF NotifySteps
  <2> QED
    BY <2>1, <2>2 DEF EdgeInv
<1> QED
  BY <1>4, <1>6, <1>7, <1>8

LEMMA OrderSubmit ==
  ASSUME OrderInv, NEW t \in Tasks, SubmitBegin(t) \/ SubmitStep(t)
  PROVE  RunInv' /\ SubmitInv' /\ ListInv' /\ CountInv' /\ EdgeInv' /\ WaitSound'
<1> USE DEF SubmitSteps
<1>0. /\ enqueued \in [Tasks -> BOOLEAN] /\ queued \in [Tasks -> Nat]
      /\ spc[t] \notin {"new", "add_task"} => t \in graph
      /\ spc[t] \notin {"new", "add_task", "add_dep"} => sdeps[t] = {}
      /\ spc[t] # "new" => \A d \in Deps[t] : spc[d] = "done"
      /\ spc[t] = "mark" => ~enqueued[t] /\ status[t] \in Unstarted
      /\ Chosen(t) => spc[t] \in {"mark", "notify", "done", "threw"}
  BY Kinds DEF OrderInv, SafeInv, SubmitInv
<1>1. CASE SubmitBegin(t)
  BY <1>0, <1>1, SubmitMove DEF SubmitBegin
<1>2. CASE SubmitAddTask(t)
  BY <1>0, <1>2, SubmitMove DEF SubmitAddTask, add_task
<1>3. CASE SubmitLoadStatus(t)
  <2>1. PICK step \in {"load_count", "done"} : spc' = [spc EXCEPT ![t] = step]
    BY <1>3 DEF SubmitLoadStatus
  <2> QED
    BY <1>0, <1>3, <2>1, SubmitMove DEF SubmitLoadStatus
<1>4. CASE SubmitLoadCount(t)
  <2>1. ~enqueued[t] /\ status[t] \in Unstarted
    BY <1>0, <1>4 DEF SubmitLoadCount, Chosen
  <2>2. CASE dependencies_count[t] = 0
    <3>1. spc' = [spc EXCEPT ![t] = "mark"]
      BY <1>4, <2>2 DEF SubmitLoadCount
    <3> QED
      BY <1>0, <1>4, <2>1, <2>2, <3>1, SubmitMove DEF SubmitLoadCount
  <2>3. CASE dependencies_count[t] # 0
    <3>1. spc' = [spc EXCEPT ![t] = "done"]
      BY <1>4, <2>3 DEF SubmitLoadCount
    <3> QED
      BY <1>0, <1>4, <3>1, SubmitMove DEF SubmitLoadCount
  <2> QED
    BY <2>2, <2>3
<1>5. CASE SubmitToPool(t)
  <2>1. PICK step \in {"notify", "threw"} : spc' = [spc EXCEPT ![t] = step]
    BY <1>5 DEF SubmitToPool
  <2>2. queued' \in {queued, [queued EXCEPT ![t] = @ + 1]}
    BY <1>5 DEF SubmitToPool, Enqueue
  <2> QED
    BY <1>0, <1>5, <2>1, <2>2, SubmitMove DEF SubmitToPool, try_mark_enqueued
<1>6. CASE SubmitAlreadyMarked(t)
  BY <1>0, <1>6 DEF SubmitAlreadyMarked
<1>7. CASE SubmitNotify(t)
  BY <1>7, RestSteps, OrderRest DEF OrderInv, SafeInv
<1> QED
  BY <1>1, <1>2, <1>3, <1>4, <1>5, <1>6, <1>7, SubmitAddEdge DEF SubmitStep

LEMMA OrderScheduler ==
  ASSUME OrderInv, SchedulerStep
  PROVE  RunInv' /\ SubmitInv' /\ ListInv' /\ CountInv' /\ EdgeInv' /\ WaitSound'
<1>9. CASE SchedulerNotify
  BY <1>9, RestSteps, OrderRest DEF OrderInv, SafeInv
<1> SUFFICES ASSUME ~SchedulerNotify
             PROVE  RunInv' /\ SubmitInv' /\ ListInv' /\ CountInv' /\ EdgeInv' /\ WaitSound'
  BY <1>9
<1>0. /\ enqueued \in [Tasks -> BOOLEAN] /\ queued \in [Tasks -> Nat]
      /\ spc \in [Tasks -> SubmitSteps]
      /\ UNCHANGED <<pc, task, todo, status, attempts, cancelled, sdeps, dependents,
                     dependencies_count, spc, graph, scheduler_running, owner, waited>>
  BY Kinds
     DEF OrderInv, SafeInv, SchedulerStep, SchedulerLock, SchedulerUnlock, SchedulerExit,
         SchedulerVisit, SchedulerMark, try_mark_enqueued
<1>1. scheduler # "off" /\ AllSubmitted
  BY DEF OrderInv, SubmitInv, SchedulerStep, SchedulerLock, SchedulerUnlock, SchedulerExit,
         SchedulerVisit, SchedulerMark
<1>2. \A t \in Tasks : spc[t] \in {"done", "threw"}
  BY <1>1 DEF AllSubmitted
<1>3. AllSubmitted'
  BY <1>0, <1>1 DEF AllSubmitted
<1>4. WaitSound'
  BY <1>0 DEF OrderInv, WaitSound
<1>5. ASSUME \A t \in Tasks : Chosen(t)' => Chosen(t) \/ is_ready(t),
             \A t \in Tasks : queued'[t] > 0 => queued[t] > 0 \/ status[t] \in Unstarted
      PROVE  RunInv' /\ SubmitInv' /\ CountInv' /\ EdgeInv'
  <2>1. \A t \in Tasks : Chosen(t)' => dependencies_count[t] = 0
    BY <1>5 DEF OrderInv, CountInv, is_ready
  <2>2. RunInv' /\ CountInv' /\ EdgeInv'
    BY <1>0, <1>5, <2>1, OrderOutside
  <2>3. SubmitInv'
    BY <1>0, <1>2, <1>3 DEF OrderInv, SubmitInv
  <2> QED
    BY <2>2, <2>3
<1>6. CASE SchedulerLock \/ SchedulerUnlock \/ SchedulerExit
  <2>1. UNCHANGED <<enqueued, queued, ready>>
    BY <1>6 DEF SchedulerLock, SchedulerUnlock, SchedulerExit
  <2>2. \A t \in Tasks : Chosen(t)' <=> Chosen(t)
    BY <1>0, <2>1 DEF Chosen
  <2>3. ListInv'
    BY <1>0, <1>6, <2>1 DEF OrderInv, ListInv, SchedulerLock, SchedulerUnlock, SchedulerExit
  <2> QED
    BY <1>4, <1>5, <2>1, <2>2, <2>3
<1>7. ASSUME NEW t \in Tasks, SchedulerVisit(t)
      PROVE  RunInv' /\ SubmitInv' /\ ListInv' /\ CountInv' /\ EdgeInv'
  <2>1. /\ UNCHANGED <<enqueued, queued, scheduler>> /\ scheduler = "visit"
        /\ \A u \in ready' : u \in ready \/ (u = t /\ is_ready(t))
    BY <1>7 DEF SchedulerVisit
  <2>2. \A u \in Tasks : Chosen(u)' => Chosen(u) \/ is_ready(u)
    BY <1>0, <2>1 DEF Chosen
  <2>3. ListInv'
    BY <1>0, <2>1 DEF OrderInv, ListInv, is_ready, Unstarted
  <2> QED
    BY <1>5, <2>1, <2>2, <2>3
<1>8. ASSUME NEW t \in Tasks, SchedulerMark(t)
      PROVE  RunInv' /\ SubmitInv' /\ ListInv' /\ CountInv' /\ EdgeInv'
  <2>1. /\ scheduler = "mark" /\ t \in ready /\ ~enqueued[t] /\ status[t] \in Unstarted
        /\ ready' = ready \ {t} /\ scheduler' \in {"notify", AfterTask(ready')}
    BY <1>8 DEF SchedulerMark, OrderInv, ListInv
  <2>2. /\ enqueued' = [enqueued EXCEPT ![t] = TRUE]
        /\ queued' \in {queued, [queued EXCEPT ![t] = @ + 1]}
    BY <1>8, <2>1 DEF SchedulerMark, try_mark_enqueued, Enqueue
  <2>3. \A u \in Tasks : Chosen(u)' => Chosen(u)
    BY <1>0, <2>1, <2>2 DEF Chosen
  <2>4. \A u \in Tasks : queued'[u] > 0 => queued[u] > 0 \/ status[u] \in Unstarted
    BY <1>0, <2>1, <2>2
  <2>5. ListInv'
    BY <1>0, <2>1, <2>2 DEF OrderInv, ListInv, AfterTask
  <2> QED
    BY <1>5, <2>3, <2>4, <2>5
<1> QED
  BY <1>4, <1>6, <1>7, <1>8 DEF SchedulerStep

LEMMA OrderOwner ==
  ASSUME OrderInv, StartLast, OwnerStep
  PROVE  RunInv' /\ SubmitInv' /\ ListInv' /\ CountInv' /\ EdgeInv' /\ WaitSound'
<1>7. CASE StopNotify
  BY <1>7, RestSteps, OrderRest DEF OrderInv, SafeInv
<1> SUFFICES ASSUME Start \/ StopScheduler \/ StopPool \/ StopReturn \/ WaitReturns
             PROVE  RunInv' /\ SubmitInv' /\ ListInv' /\ CountInv' /\ EdgeInv' /\ WaitSound'
  BY <1>7 DEF OwnerStep
<1>0. UNCHANGED <<pc, task, todo, status, attempts, cancelled, enqueued, queued, sdeps, dependents,
                  dependencies_count, spc, graph, ready>>
  BY DEF Start, StopScheduler, StopPool, StopReturn, WaitReturns
<1>1. \A t \in Tasks : Chosen(t)' <=> Chosen(t)
  BY <1>0 DEF Chosen
<1>2. AllSubmitted' <=> AllSubmitted
  BY <1>0 DEF AllSubmitted
<1>3. RunInv' /\ CountInv' /\ EdgeInv'
  BY <1>0, <1>1, OrderOutside DEF OrderInv, CountInv
<1>4. SubmitInv'
  BY <1>0, <1>1, <1>2
     DEF OrderInv, SubmitInv, Start, StopScheduler, StopPool, StopReturn, WaitReturns
<1>5. ListInv'
  BY <1>0 DEF OrderInv, ListInv, Start, StopScheduler, StopPool, StopReturn, WaitReturns
<1>6. WaitSound'
  <2>1. CASE WaitReturns
    <3>1. \A t \in Tasks : t \in graph
      BY <2>1 DEF OrderInv, SubmitInv, WaitReturns, AllSubmitted
    <3> QED
      BY <1>0, <2>1, <3>1 DEF WaitSound, WaitReturns, all_completed
  <2>2. CASE waited' = waited
    BY <1>0, <2>2 DEF OrderInv, WaitSound
  <2> QED
    BY <2>1, <2>2 DEF Start, StopScheduler, StopPool, StopReturn
<1> QED
  BY <1>3, <1>4, <1>5, <1>6

-----------------------------------------------------------------------------
(* The worker                                                              *)

\* What the steps of a worker leave alone
Inside == UNCHANGED <<spc, sdeps, graph, scheduler, scheduler_running, ready, owner, waited>>

\* A worker's step changes the status of a marked task, or makes a waiting one
\* ready; nothing else of what submissions and the scheduler know.
LEMMA StepInside ==
  ASSUME OrderInv, Inside,
         \A t \in Tasks : enqueued'[t] => enqueued[t],
         \A t \in Tasks : \/ status'[t] = status[t]
                          \/ /\ status[t] \notin Terminal
                             /\ enqueued[t] \/ {status[t], status'[t]} \subseteq Unstarted
  PROVE  /\ SubmitInv' /\ ListInv' /\ WaitSound'
         /\ \A t \in Tasks : Chosen(t)' => Chosen(t)
<1> USE DEF Inside
<1>1. \A t \in Tasks : Chosen(t)' => Chosen(t)
  BY DEF Chosen
<1>2. \A t \in ready : t \in Tasks
  BY OrderKinds
<1>3. ListInv'
  BY <1>2 DEF OrderInv, ListInv
<1>4. AllSubmitted' <=> AllSubmitted
  BY DEF AllSubmitted
<1>5. SubmitInv'
  BY <1>1, <1>4 DEF OrderInv, SubmitInv
<1>6. WaitSound'
  BY DEF OrderInv, WaitSound
<1> QED
  BY <1>1, <1>3, <1>5, <1>6

\* Steps of a worker that run nothing and notify nobody
LEMMA WorkerMove ==
  ASSUME OrderInv, Inside, NEW w \in Workers, NEW step \in WorkerSteps,
         pc' = [pc EXCEPT ![w] = step],
         UNCHANGED <<task, todo, status, cancelled, enqueued, attempts, dependents,
                     dependencies_count, queued>>,
         \/ pc[w] = "execute" /\ step = "begin"
         \/ /\ pc[w] \in AfterRun /\ step \in AfterRun
            /\ pc[w] \notin NotifySteps \cup {"clear"} /\ step \notin NotifySteps \cup {"clear"}
  PROVE  RunInv' /\ SubmitInv' /\ ListInv' /\ CountInv' /\ EdgeInv' /\ WaitSound'
<1> USE WhoIsWho DEF Inside, NotifySteps, WorkerSteps, Holding, Free, BeforeRun, AfterRun
<1>0. pc \in [Threads -> WorkerSteps \cup CancelSteps] /\ w \in Threads
  BY Kinds DEF OrderInv, SafeInv
<1>1. pc'[w] = step /\ \A v \in Workers \ {w} : pc'[v] = pc[v]
  BY <1>0
<1>2. SubmitInv' /\ ListInv' /\ WaitSound' /\ \A t \in Tasks : Chosen(t)' => Chosen(t)
  BY StepInside
<1>3. RunInv'
  <2>1. ASSUME NEW v \in Workers
        PROVE  /\ pc'[v] \in BeforeRun => status[task[v]] \in Unstarted
               /\ pc'[v] = "running" => status[task[v]] = "Running"
               /\ pc'[v] \in AfterRun => status[task[v]] \in Terminal
               /\ pc'[v] \notin {"reset", "remark"}
    <3>1. CASE v = w
      BY <1>1, <3>1 DEF OrderInv, RunInv
    <3>2. CASE v # w
      BY <1>1, <3>2 DEF OrderInv, RunInv
    <3> QED
      BY <3>1, <3>2
  <2> QED
    BY <2>1 DEF OrderInv, RunInv
<1>4. CountInv'
  <2>1. \A v \in Workers, t \in Tasks, d \in Tasks : WillNotify(v, d, t)' => WillNotify(v, d, t)
    BY <1>1 DEF WillNotify, Left
  <2>2. \A t \in Tasks : \A d \in Deps[t] : Unfinished(d, t)' => Unfinished(d, t)
    BY <2>1, OrderKinds DEF Unfinished
  <2> QED
    BY <1>2, <2>2, CountFrame DEF OrderInv, CountInv
<1>5. EdgeInv'
  BY <1>1 DEF OrderInv, EdgeInv
<1> QED
  BY <1>2, <1>3, <1>4, <1>5

LEMMA OrderTake ==
  ASSUME OrderInv, NEW w \in Workers, NEW t \in Tasks, WorkerTake(w, t)
  PROVE  RunInv' /\ SubmitInv' /\ ListInv' /\ CountInv' /\ EdgeInv' /\ WaitSound'
<1> USE WhoIsWho DEF NotifySteps, WorkerSteps, Holding, BeforeRun, AfterRun
<1>0. /\ pc \in [Threads -> WorkerSteps \cup CancelSteps] /\ w \in Threads
      /\ task \in [Threads -> Tasks \cup {NoTask}] /\ queued \in [Tasks -> Nat]
      /\ queued[t] > 0 /\ queued' = [queued EXCEPT ![t] = @ - 1]
      /\ pc' = [pc EXCEPT ![w] = "execute"] /\ task' = [task EXCEPT ![w] = t]
      /\ UNCHANGED <<todo, status, cancelled, enqueued, attempts, dependents, dependencies_count>>
      /\ Inside
  BY Kinds DEF OrderInv, SafeInv, WorkerTake, Goto, Inside
<1>1. /\ pc'[w] = "execute" /\ task'[w] = t
      /\ \A v \in Workers \ {w} : pc'[v] = pc[v] /\ task'[v] = task[v]
      /\ \A u \in Tasks : queued'[u] > 0 => queued[u] > 0
  BY <1>0
<1>2. SubmitInv' /\ ListInv' /\ WaitSound' /\ \A u \in Tasks : Chosen(u)' => Chosen(u)
  BY <1>0, StepInside DEF Inside
<1>3. status[t] \in Unstarted
  BY <1>0 DEF OrderInv, RunInv
<1>4. RunInv'
  <2>1. ASSUME NEW v \in Workers
        PROVE  /\ pc'[v] \in BeforeRun => status[task'[v]] \in Unstarted
               /\ pc'[v] = "running" => status[task'[v]] = "Running"
               /\ pc'[v] \in AfterRun => status[task'[v]] \in Terminal
               /\ pc'[v] \notin {"reset", "remark"}
    <3>1. CASE v = w
      BY <1>1, <1>3, <3>1
    <3>2. CASE v # w
      BY <1>1, <3>2 DEF OrderInv, RunInv
    <3> QED
      BY <3>1, <3>2
  <2> QED
    BY <1>0, <1>1, <2>1 DEF OrderInv, RunInv
<1>5. CountInv'
  <2>1. status[t] \notin Terminal
    BY <1>3 DEF Unstarted, Terminal
  <2>2. \A v \in Workers, u \in Tasks, d \in Tasks :
          WillNotify(v, d, u)' => WillNotify(v, d, u) \/ d = t
    BY <1>0, <1>1 DEF WillNotify, Left
  <2>3. \A u \in Tasks : \A d \in Deps[u] : Unfinished(d, u)' => Unfinished(d, u)
    BY <1>0, <2>1, <2>2, OrderKinds DEF Unfinished
  <2> QED
    BY <1>0, <1>2, <2>3, CountFrame DEF OrderInv, CountInv, Inside
<1>6. EdgeInv'
  BY <1>0, <1>1 DEF OrderInv, EdgeInv, Inside
<1> QED
  BY <1>2, <1>4, <1>5, <1>6

\* The only worker enters its task's function, or leaves it.
LEMMA OrderRun ==
  ASSUME OrderInv, Serial, NEW w \in Workers,
         WorkerBegin(w) \/ \E outcome \in {"return", "throw"} : WorkerEnd(w, outcome)
  PROVE  RunInv' /\ SubmitInv' /\ ListInv' /\ CountInv' /\ EdgeInv' /\ WaitSound'
<1> DEFINE t == task[w]
<1> USE WhoIsWho
        DEF NotifySteps, WorkerSteps, Holding, BeforeRun, AfterRun, Unstarted, Terminal
<1>0. /\ pc \in [Threads -> WorkerSteps \cup CancelSteps] /\ w \in Threads
      /\ status \in [Tasks -> TaskStatus] /\ attempts \in [Tasks -> Nat]
      /\ \A v \in Workers : v = w
  BY Kinds, OrderKinds DEF OrderInv, SafeInv, Serial
<1>1. /\ UNCHANGED <<task, todo, cancelled, enqueued, dependents, dependencies_count, queued>>
      /\ Inside
      /\ pc[w] \in {"begin", "running"}
  BY DEF WorkerBegin, WorkerEnd, ExecuteBegin, ExecuteEnd, Inside
<1>2. t \in Tasks /\ enqueued[t] /\ queued[t] = 0
  BY <1>1, HeldTask
<1>3. PICK s \in TaskStatus, step \in {"running", "success", "failure"} :
        /\ status' = [status EXCEPT ![t] = s] /\ pc' = [pc EXCEPT ![w] = step]
        /\ \/ /\ pc[w] = "begin" /\ s = "Running" /\ step = "running"
              /\ attempts' = [attempts EXCEPT ![t] = @ + 1]
           \/ /\ pc[w] = "running" /\ s \in {"Completed", "Failed"} /\ step # "running"
              /\ attempts' = attempts
  <2>1. CASE WorkerBegin(w)
    BY <2>1 DEF WorkerBegin, ExecuteBegin, SetStatus, Goto, TaskStatus
  <2>2. ASSUME NEW outcome \in {"return", "throw"}, WorkerEnd(w, outcome)
        PROVE  \E s \in {"Completed", "Failed"}, step \in {"success", "failure"} :
                 /\ status' = [status EXCEPT ![t] = s] /\ pc' = [pc EXCEPT ![w] = step]
                 /\ pc[w] = "running" /\ attempts' = attempts
    BY <2>2 DEF WorkerEnd, ExecuteEnd, SetStatus, Goto
  <2>3. {"Completed", "Failed"} \subseteq TaskStatus
    BY DEF TaskStatus
  <2> QED
    BY <2>1, <2>2, <2>3
<1>4. status[t] \notin Terminal /\ status[t] \in TaskStatus
  BY <1>0, <1>1, <1>2 DEF OrderInv, RunInv
<1>5. /\ pc'[w] = step /\ status'[t] = s
      /\ \A u \in Tasks : u # t => status'[u] = status[u] /\ attempts'[u] = attempts[u]
  BY <1>0, <1>2, <1>3
<1>6. SubmitInv' /\ ListInv' /\ WaitSound' /\ \A u \in Tasks : Chosen(u)' => Chosen(u)
  <2>1. \A u \in Tasks : status'[u] = status[u] \/ (status[u] \notin Terminal /\ enqueued[u])
    BY <1>2, <1>4, <1>5
  <2> QED
    BY <1>1, <2>1, StepInside DEF Inside
<1>7. RunInv'
  <2>1. attempts'[t] = IF status'[t] \in Unstarted THEN 0 ELSE 1
    <3>1. attempts[t] = IF status[t] \in Unstarted THEN 0 ELSE 1
      BY <1>2 DEF OrderInv, RunInv
    <3>2. CASE pc[w] = "begin"
      <4>1. status[t] \in Unstarted
        BY <3>2 DEF OrderInv, RunInv
      <4> QED
        BY <1>0, <1>2, <1>3, <1>5, <3>1, <3>2, <4>1
    <3>3. CASE pc[w] = "running"
      <4>1. status[t] = "Running"
        BY <3>3 DEF OrderInv, RunInv
      <4> QED
        BY <1>2, <1>3, <1>5, <3>1, <3>3, <4>1
    <3> QED
      BY <1>1, <3>2, <3>3
  <2>2. \A u \in Tasks : attempts'[u] = IF status'[u] \in Unstarted THEN 0 ELSE 1
    BY <1>5, <2>1 DEF OrderInv, RunInv
  <2>3. \A u \in Tasks : queued'[u] > 0 => status'[u] \in Unstarted
    BY <1>1, <1>2, <1>5 DEF OrderInv, RunInv
  <2>4. /\ pc'[w] \notin BeforeRun
        /\ pc'[w] = "running" => status'[t] = "Running"
        /\ pc'[w] \in AfterRun => status'[t] \in Terminal
        /\ pc'[w] \notin {"reset", "remark"}
    BY <1>3, <1>5
  <2> QED
    BY <1>0, <1>1, <2>2, <2>3, <2>4 DEF OrderInv, RunInv
<1>8. CountInv'
  <2>1. ASSUME NEW u \in Tasks, NEW d \in Tasks, Unfinished(d, u)' PROVE Unfinished(d, u)
    <3>1. CASE d = t
      BY <1>4, <3>1 DEF Unfinished
    <3>2. CASE d # t
      BY <1>0, <1>1, <1>5, <2>1, <3>2 DEF Unfinished, WillNotify
    <3> QED
      BY <3>1, <3>2
  <2>2. \A u \in Tasks : \A d \in Deps[u] : Unfinished(d, u)' => Unfinished(d, u)
    BY <2>1, OrderKinds
  <2> QED
    BY <1>1, <1>6, <2>2, CountFrame DEF OrderInv, CountInv, Inside
<1>9. EdgeInv'
  BY <1>0, <1>1, <1>3, <1>5 DEF OrderInv, EdgeInv, Inside
<1> QED
  BY <1>6, <1>7, <1>8, <1>9

LEMMA OrderWorker ==
  ASSUME OrderInv, Serial, NEW w \in Workers, WorkerStep(w)
  PROVE  RunInv' /\ SubmitInv' /\ ListInv' /\ CountInv' /\ EdgeInv' /\ WaitSound'
<1> USE DEF Goto, Inside, WorkerSteps, Free, AfterRun, NotifySteps, BeforeRun
<1>0. /\ \A t \in Tasks : ~cancelled[t] /\ MaxRetries[t] = 0 /\ attempts[t] \in {0, 1}
      /\ pc[w] \in Holding => task[w] \in Tasks
      /\ pc[w] \notin {"reset", "remark"}
  BY HeldTask DEF OrderInv, RunInv, Serial
<1>1. CASE \/ WorkerLoop(w) \/ WorkerFindNothing(w) \/ WaitTest(w) \/ WaitBlock(w)
           \/ WorkerNotify(w)
  BY <1>1, RestSteps, OrderRest DEF OrderInv, SafeInv
<1>3. CASE WorkerExecute(w)
  <2>1. ~cancelled[task[w]]
    BY <1>0, <1>3 DEF WorkerExecute, Holding
  <2> QED
    BY <1>3, <2>1, WorkerMove DEF WorkerExecute
<1>4. CASE WorkerOnSuccess(w)
  BY <1>4, WorkerMove DEF WorkerOnSuccess
<1>5. CASE WorkerCallback(w)
  <2>1. PICK step \in {"failure", "fulfill"} : pc' = [pc EXCEPT ![w] = step]
    BY <1>5 DEF WorkerCallback
  <2> QED
    BY <1>5, <2>1, WorkerMove DEF WorkerCallback
<1>6. CASE WorkerFulfillPromise(w)
  <2>1. PICK step \in {"failure", "notify"} : pc' = [pc EXCEPT ![w] = step]
    BY <1>6 DEF WorkerFulfillPromise
  <2> QED
    BY <1>6, <2>1, WorkerMove DEF WorkerFulfillPromise
<1>7. CASE WorkerOnFailure(w)
  BY <1>7, WorkerMove DEF WorkerOnFailure
<1>8. CASE WorkerCanRetry(w)
  <2>1. ~can_retry(task[w])
    BY <1>0, <1>8 DEF WorkerCanRetry, Holding, can_retry
  <2> QED
    BY <1>8, <2>1, WorkerMove DEF WorkerCanRetry
<1>9. CASE WorkerReset(w) \/ WorkerResubmit(w)
  BY <1>0, <1>9 DEF WorkerReset, WorkerResubmit
<1> QED
  BY <1>1, <1>3, <1>4, <1>5, <1>6, <1>7, <1>8, <1>9, OrderTake, OrderRun DEF WorkerStep

-----------------------------------------------------------------------------
(* The notification of the dependents                                      *)

LEMMA TailOfDistinct ==
  ASSUME NEW s \in Seq(Tasks), s # << >>, Distinct(s)
  PROVE  /\ Tail(s) \in Seq(Tasks) /\ Head(s) \in Tasks /\ Head(s) \in Elems(s)
         /\ Distinct(Tail(s)) /\ Head(s) \notin Elems(Tail(s))
         /\ Elems(Tail(s)) \subseteq Elems(s)
<1>1. /\ Tail(s) \in Seq(Tasks) /\ Len(Tail(s)) = Len(s) - 1 /\ Len(s) \in Nat \ {0}
      /\ Head(s) = s[1] /\ \A i \in 1 .. Len(s) - 1 : Tail(s)[i] = s[i + 1]
  OBVIOUS
<1>2. Head(s) \in Tasks /\ Head(s) \in Elems(s)
  BY <1>1 DEF Elems
<1>3. ASSUME NEW i \in 1 .. Len(Tail(s))
      PROVE  /\ i + 1 \in 1 .. Len(s) /\ Tail(s)[i] = s[i + 1] /\ i + 1 # 1
             /\ Tail(s)[i] # s[1]
  BY <1>1 DEF Distinct
<1>4. Head(s) \notin Elems(Tail(s)) /\ Elems(Tail(s)) \subseteq Elems(s)
  BY <1>1, <1>3 DEF Elems
<1>5. Distinct(Tail(s))
  <2> SUFFICES ASSUME NEW i \in 1 .. Len(Tail(s)), NEW j \in 1 .. Len(Tail(s)),
                      Tail(s)[i] = Tail(s)[j]
               PROVE  i = j
    BY DEF Distinct
  <2>1. i + 1 = j + 1
    BY <1>3 DEF Distinct
  <2> QED
    BY <1>1, <2>1
<1> QED
  BY <1>1, <1>2, <1>4, <1>5

\* The steps of a notification that write neither a status nor a count
LEMMA NotifyMove ==
  ASSUME OrderInv, Serial, Inside, NEW w \in Workers,
         NEW step \in {"notify_dec", "clear", "loop"},
         pc[w] \in {"notify", "notify_dec", "clear"},
         pc' = [pc EXCEPT ![w] = step],
         step # "loop" => task' = task,
         UNCHANGED <<status, cancelled, attempts, dependents, dependencies_count, queued>>,
         \A t \in Tasks : enqueued'[t] => enqueued[t],
         step = "notify_dec" =>
           /\ pc[w] = "notify" /\ Distinct(todo'[w])
           /\ \A t \in Elems(todo'[w]) : task[w] \in Deps[t] \ sdeps[t]
  PROVE  RunInv' /\ SubmitInv' /\ ListInv' /\ CountInv' /\ EdgeInv' /\ WaitSound'
<1> USE WhoIsWho DEF NotifySteps, WorkerSteps, Holding, BeforeRun, AfterRun
<1>0. /\ pc \in [Threads -> WorkerSteps \cup CancelSteps] /\ w \in Threads
      /\ \A v \in Workers : v = w
  BY Kinds DEF OrderInv, SafeInv, Serial
<1>1. pc'[w] = step
  BY <1>0
<1>2. SubmitInv' /\ ListInv' /\ WaitSound' /\ \A t \in Tasks : Chosen(t)' => Chosen(t)
  BY StepInside DEF Inside
<1>3. RunInv'
  BY <1>0, <1>1 DEF OrderInv, RunInv
<1>4. CountInv'
  <2>1. \A t \in Tasks, d \in Tasks : WillNotify(w, d, t)' => WillNotify(w, d, t)
    BY <1>1 DEF WillNotify, Left
  <2>2. \A t \in Tasks : \A d \in Deps[t] : Unfinished(d, t)' => Unfinished(d, t)
    BY <1>0, <2>1, OrderKinds DEF Unfinished
  <2> QED
    BY <1>2, <2>2, CountFrame DEF OrderInv, CountInv, Inside
<1>5. EdgeInv'
  BY <1>0, <1>1 DEF OrderInv, EdgeInv, Inside
<1> QED
  BY <1>2, <1>3, <1>4, <1>5

\* The next dependent has a dependency that has not been subtracted: its count is
\* not zero and nobody has chosen it.
LEMMA NextDependent ==
  ASSUME OrderInv, NEW w \in Workers, pc[w] = "notify_dec", todo[w] # << >>
  PROVE  /\ todo[w] \in Seq(Tasks) /\ Distinct(todo[w]) /\ Head(todo[w]) \in Tasks
         /\ task[w] \in Open(Head(todo[w]))
         /\ ~Chosen(Head(todo[w]))
<1> DEFINE u == Head(todo[w])
<1>1. todo[w] \in Seq(Tasks) /\ Distinct(todo[w])
  BY WhoIsWho, OrderKinds DEF OrderInv, EdgeInv, NotifySteps
<1>2. u \in Tasks /\ u \in Elems(todo[w])
  BY <1>1, TailOfDistinct
<1>3. task[w] \in Deps[u] \ sdeps[u]
  BY <1>2 DEF OrderInv, EdgeInv, NotifySteps
<1>4. WillNotify(w, task[w], u)
  BY <1>2 DEF WillNotify, Left, NotifySteps
<1>5. Unfinished(task[w], u)
  BY <1>4 DEF Unfinished
<1> QED
  BY <1>1, <1>2, <1>3, <1>5, ChosenWaitsForNothing DEF Open

LEMMA OrderDecrement ==
  ASSUME OrderInv, Serial, NEW w \in Workers, NotifyNext(w)
  PROVE  RunInv' /\ SubmitInv' /\ ListInv' /\ CountInv' /\ EdgeInv' /\ WaitSound'
<1> DEFINE u == Head(todo[w])
           d0 == task[w]
<1> USE WhoIsWho DEF NotifySteps, WorkerSteps, Holding, BeforeRun, AfterRun
<1>0. /\ pc \in [Threads -> WorkerSteps \cup CancelSteps] /\ w \in Threads
      /\ todo \in [Threads -> Seq(Tasks)] /\ dependencies_count \in [Tasks -> Int]
      /\ \A v \in Workers : v = w
  BY Kinds, OrderKinds DEF OrderInv, SafeInv, Serial
<1>1. /\ pc[w] = "notify_dec" /\ todo[w] # << >>
      /\ dependencies_count' = [dependencies_count EXCEPT ![u] = @ - 1]
      /\ UNCHANGED <<task, status, cancelled, enqueued, attempts, dependents, queued>>
      /\ Inside
      /\ \/ pc' = [pc EXCEPT ![w] = "notify_ready"] /\ todo' = todo
         \/ pc' = pc /\ todo' = [todo EXCEPT ![w] = Tail(@)]
  BY DEF NotifyNext, NotifyDecrement, Goto, Inside
<1>2. /\ todo[w] \in Seq(Tasks) /\ Distinct(todo[w]) /\ u \in Tasks
      /\ d0 \in Open(u) /\ ~Chosen(u)
  BY <1>1, NextDependent
<1>3. /\ Tail(todo[w]) \in Seq(Tasks) /\ Distinct(Tail(todo[w]))
      /\ u \notin Elems(Tail(todo[w])) /\ Elems(Tail(todo[w])) \subseteq Elems(todo[w])
  BY <1>1, <1>2, TailOfDistinct
<1>4. Left(w) = todo[w] /\ Left(w)' = Tail(todo[w])
      /\ pc'[w] \in NotifySteps
      /\ (pc'[w] = "notify_ready" => todo'[w] = todo[w])
      /\ (pc'[w] # "notify_ready" => todo'[w] = Tail(todo[w]))
  BY <1>0, <1>1 DEF Left
<1>5. SubmitInv' /\ ListInv' /\ WaitSound' /\ \A t \in Tasks : Chosen(t)' => Chosen(t)
  BY <1>1, StepInside DEF Inside
<1>6. RunInv'
  BY <1>0, <1>1, <1>4 DEF OrderInv, RunInv
<1>7. EdgeInv'
  <2>1. \A t \in Elems(todo'[w]) : t \in Elems(todo[w])
    BY <1>3, <1>4
  <2>2. Distinct(todo'[w])
    BY <1>2, <1>3, <1>4
  <2>3. \A t \in Elems(todo'[w]) : task[w] \in Deps[t] \ sdeps[t]
    BY <1>1, <2>1 DEF OrderInv, EdgeInv
  <2>4. status[u] \in Unstarted
    BY <1>2 DEF Chosen
  <2> QED
    BY <1>0, <1>1, <1>4, <2>2, <2>3, <2>4 DEF OrderInv, EdgeInv, Inside
<1>8. CountInv'
  <2>1. ASSUME NEW t \in Tasks, NEW d \in Tasks, Unfinished(d, t)'
        PROVE  Unfinished(d, t) /\ ~(t = u /\ d = d0)
    <3>1. status[d0] \in Terminal
      BY <1>1 DEF OrderInv, RunInv
    <3>2. WillNotify(w, d, t)' => WillNotify(w, d, t) /\ t # u
      BY <1>1, <1>3, <1>4 DEF WillNotify
    <3> QED
      BY <1>0, <1>1, <2>1, <3>1, <3>2 DEF Unfinished
  <2> SUFFICES ASSUME NEW t \in Tasks
               PROVE  /\ dependencies_count'[t] >= Cardinality(Open(t)')
                      /\ Chosen(t)' => dependencies_count'[t] = 0
    BY DEF CountInv
  <2>2. /\ dependencies_count[t] >= Cardinality(Open(t)) /\ dependencies_count[t] \in Int
        /\ Chosen(t) => dependencies_count[t] = 0
    BY OrderKinds DEF OrderInv, CountInv
  <2>3. CASE t = u
    <3>1. Open(t)' \subseteq Open(t) \ {d0}
      BY <1>1, <2>1, <2>3, OrderKinds DEF Open, Inside
    <3>2. /\ IsFiniteSet(Open(t) \ {d0})
          /\ Cardinality(Open(t) \ {d0}) = Cardinality(Open(t)) - 1
      BY <1>2, <2>3, OpenFinite, FS_RemoveElement
    <3>3. /\ Cardinality(Open(t)') <= Cardinality(Open(t) \ {d0})
          /\ Cardinality(Open(t)') \in Nat
      BY <3>1, <3>2, FS_Subset, FS_CardinalityType
    <3>4. dependencies_count'[t] = dependencies_count[t] - 1
      BY <1>0, <1>1, <2>3
    <3> QED
      BY <1>2, <1>5, <2>2, <2>3, <3>2, <3>3, <3>4, OpenFinite
  <2>4. CASE t # u
    <3>1. Open(t)' \subseteq Open(t)
      BY <1>1, <2>1, OrderKinds DEF Open, Inside
    <3>2. Cardinality(Open(t)') <= Cardinality(Open(t)) /\ Cardinality(Open(t)') \in Nat
      BY <3>1, OpenFinite, FS_Subset, FS_CardinalityType
    <3>3. dependencies_count'[t] = dependencies_count[t]
      BY <1>0, <1>1, <2>4
    <3> QED
      BY <1>5, <2>2, <3>2, <3>3, OpenFinite
  <2> QED
    BY <2>3, <2>4
<1> QED
  BY <1>5, <1>6, <1>7, <1>8

LEMMA OrderStoreReady ==
  ASSUME OrderInv, Serial, NEW w \in Workers, NotifyStoreReady(w)
  PROVE  RunInv' /\ SubmitInv' /\ ListInv' /\ CountInv' /\ EdgeInv' /\ WaitSound'
<1> DEFINE u == Head(todo[w])
<1> USE WhoIsWho
        DEF NotifySteps, WorkerSteps, Holding, BeforeRun, AfterRun, Unstarted, Terminal
<1>0. /\ pc \in [Threads -> WorkerSteps \cup CancelSteps] /\ w \in Threads
      /\ todo \in [Threads -> Seq(Tasks)] /\ status \in [Tasks -> TaskStatus]
      /\ \A v \in Workers : v = w
  BY Kinds, OrderKinds DEF OrderInv, SafeInv, Serial
<1>1. /\ pc[w] = "notify_ready"
      /\ status' = [status EXCEPT ![u] = "Ready"]
      /\ pc' = [pc EXCEPT ![w] = "notify_dec"] /\ todo' = [todo EXCEPT ![w] = Tail(@)]
      /\ UNCHANGED <<task, cancelled, enqueued, attempts, dependents, dependencies_count, queued>>
      /\ Inside
  BY DEF NotifyStoreReady, NotifyReady, SetStatus, Goto, Inside
<1>2. todo[w] \in Seq(Tasks) /\ todo[w] # << >> /\ Distinct(todo[w])
  BY <1>0, <1>1, OrderKinds DEF OrderInv, EdgeInv
<1>3. /\ Tail(todo[w]) \in Seq(Tasks) /\ Distinct(Tail(todo[w])) /\ u \in Tasks
      /\ Elems(Tail(todo[w])) \subseteq Elems(todo[w])
  BY <1>2, TailOfDistinct
<1>4. status[u] \in Unstarted
  BY <1>1 DEF OrderInv, EdgeInv
<1>5. /\ pc'[w] = "notify_dec" /\ todo'[w] = Tail(todo[w])
      /\ status'[u] = "Ready" /\ \A t \in Tasks \ {u} : status'[t] = status[t]
  BY <1>0, <1>1, <1>3
<1>6. SubmitInv' /\ ListInv' /\ WaitSound' /\ \A t \in Tasks : Chosen(t)' => Chosen(t)
  <2>1. \A t \in Tasks : \/ status'[t] = status[t]
                         \/ status[t] \notin Terminal /\ {status[t], status'[t]} \subseteq Unstarted
    BY <1>3, <1>4, <1>5
  <2> QED
    BY <1>1, <2>1, StepInside DEF Inside
<1>7. RunInv'
  <2>1. \A t \in Tasks : status'[t] \in Unstarted <=> status[t] \in Unstarted
    BY <1>3, <1>4, <1>5
  <2>2. status'[task[w]] \in Terminal
    <3>1. status[task[w]] \in Terminal /\ task[w] \in Tasks
      BY <1>1, HeldTask DEF OrderInv, RunInv
    <3> QED
      BY <1>4, <1>5, <3>1
  <2> QED
    BY <1>0, <1>1, <1>5, <2>1, <2>2 DEF OrderInv, RunInv
<1>8. CountInv'
  <2>1. Left(w)' = Left(w)
    BY <1>1, <1>5 DEF Left
  <2>2. \A t \in Tasks, d \in Tasks : Unfinished(d, t)' => Unfinished(d, t)
    BY <1>0, <1>1, <1>3, <1>4, <1>5, <2>1 DEF Unfinished, WillNotify
  <2>3. \A t \in Tasks : \A d \in Deps[t] : Unfinished(d, t)' => Unfinished(d, t)
    BY <2>2, OrderKinds
  <2> QED
    BY <1>1, <1>6, <2>3, CountFrame DEF OrderInv, CountInv, Inside
<1>9. EdgeInv'
  <2>1. \A t \in Elems(todo'[w]) : task[w] \in Deps[t] \ sdeps[t]
    BY <1>1, <1>3, <1>5 DEF OrderInv, EdgeInv
  <2> QED
    BY <1>0, <1>1, <1>3, <1>5, <2>1 DEF OrderInv, EdgeInv, Inside
<1> QED
  BY <1>6, <1>7, <1>8, <1>9

LEMMA OrderNotify ==
  ASSUME OrderInv, Serial, NEW w \in Workers, NotifyStep(w)
  PROVE  RunInv' /\ SubmitInv' /\ ListInv' /\ CountInv' /\ EdgeInv' /\ WaitSound'
<1> USE WhoIsWho DEF Goto, Inside
<1>0. pc \in [Threads -> WorkerSteps \cup CancelSteps] /\ task \in [Threads -> Tasks \cup {NoTask}]
  BY Kinds DEF OrderInv, SafeInv
<1>1. CASE FailPromise(w)
  <2>1. ~(task[w] \in registered /\ promise[task[w]] # "empty")
    BY <1>1, WorkerPromiseEmpty DEF OrderInv, FailPromise
  <2>2. pc' = [pc EXCEPT ![w] = "notify"] /\ task' = task
    BY <1>1, <2>1 DEF FailPromise
  <2> QED
    BY <1>1, <2>2, WorkerMove DEF FailPromise, WorkerSteps, AfterRun, NotifySteps
<1>2. CASE NotifyBegin(w)
  <2>1. task[w] \in Tasks /\ todo'[w] = DependentsOf(task[w])
    BY <1>2, HeldTask, OrderKinds DEF NotifyBegin, Holding, WorkerSteps
  <2>2. /\ Distinct(todo'[w])
        /\ \A t \in Elems(todo'[w]) : task[w] \in Deps[t] \ sdeps[t]
    <3>1. CASE task[w] \in graph
      BY <2>1, <3>1 DEF OrderInv, EdgeInv, DependentsOf
    <3>2. CASE task[w] \notin graph
      BY <2>1, <3>2 DEF DependentsOf, Distinct, Elems
    <3> QED
      BY <3>1, <3>2
  <2> QED
    BY <1>2, <2>2, NotifyMove DEF NotifyBegin
<1>3. CASE NotifyEnd(w)
  BY <1>3, NotifyMove DEF NotifyEnd
<1>4. CASE ClearFlag(w)
  <2>1. pc' = [pc EXCEPT ![w] = "loop"]
    BY <1>4 DEF ClearFlag, BackToLoop
  <2>2. \A t \in Tasks : enqueued'[t] => enqueued[t]
    BY <1>4, Kinds DEF ClearFlag, clear_enqueued_flag, OrderInv, SafeInv
  <2> QED
    BY <1>4, <2>1, <2>2, NotifyMove DEF ClearFlag, clear_enqueued_flag
<1> QED
  BY <1>1, <1>2, <1>3, <1>4, OrderDecrement, OrderStoreReady DEF NotifyStep

-----------------------------------------------------------------------------
(* The theorems                                                            *)

LEMMA OrderInit == Init => OrderInv
<1> SUFFICES ASSUME Init PROVE OrderInv
  OBVIOUS
<1>1. \A w \in Workers : pc[w] = "loop"
  BY WhoIsWho DEF Init
<1>2. RunInv
  BY <1>1 DEF Init, TaskInit, RunInv, Unstarted, BeforeRun, AfterRun
<1>3. /\ \A t \in Tasks : ~Chosen(t) /\ dependents[t] = << >> /\ dependencies_count[t] = 0
      /\ sdeps = Deps /\ scheduler = "off" /\ ~scheduler_running /\ ready = {} /\ ~waited
      /\ owner = "idle"
  BY DEF Init, TaskInit, Chosen, Unstarted
<1>4. SubmitInv
  BY <1>3 DEF Init, TaskInit, SubmitInv
<1>5. ListInv /\ WaitSound
  BY <1>3 DEF ListInv, WaitSound
<1>6. CountInv
  <2>1. \A t \in Tasks : Open(t) = {}
    BY <1>3 DEF Open
  <2>2. \A t \in Tasks : Cardinality(Open(t)) = 0
    BY <2>1, FS_EmptySet
  <2> QED
    BY <1>3, <2>2 DEF CountInv
<1>7. EdgeInv
  BY <1>1, <1>3 DEF EdgeInv, Distinct, Elems, NotifySteps
<1> QED
  BY <1>2, <1>4, <1>5, <1>6, <1>7, SafeInit DEF OrderInv

LEMMA OrderStep == OrderInv /\ Serial /\ [Next]_vars => OrderInv'
<1> SUFFICES ASSUME OrderInv, Serial, [Next]_vars PROVE OrderInv'
  OBVIOUS
<1>0. SafeInv'
  BY SafeStep DEF OrderInv
<1>1. CASE UNCHANGED vars
  <2>1. \A t \in Tasks : Chosen(t)' => Chosen(t)
    BY <1>1 DEF Chosen
  <2>2. RunInv' /\ CountInv' /\ EdgeInv'
    BY <1>1, <2>1, OrderOutside DEF OrderInv, CountInv
  <2>3. SubmitInv' /\ ListInv' /\ WaitSound'
    BY <1>1, StepInside DEF Inside
  <2> QED
    BY <1>0, <2>2, <2>3 DEF OrderInv
<1>2. CASE Step
  <2>1. Threads = Workers /\ Cancellers = {} /\ StartLast
    BY DEF Serial, Threads
  <2>2. RunInv' /\ SubmitInv' /\ ListInv' /\ CountInv' /\ EdgeInv' /\ WaitSound'
    BY <1>2, <2>1, OrderSubmit, OrderScheduler, OrderWorker, OrderNotify, OrderOwner DEF Step
  <2> QED
    BY <1>0, <2>2 DEF OrderInv
<1> QED
  BY <1>1, <1>2 DEF Next

LEMMA OrderInvariant == ASSUME Serial PROVE Spec => []OrderInv
<1>1. OrderInv /\ [Next]_vars => OrderInv'
  BY OrderStep
<1> QED
  BY <1>1, OrderInit, PTL DEF Spec

\* With one worker, no retries, no cancellations and start() called last, a task's
\* function runs only once every task it was submitted to depend on has ended,
\* whatever the tasks, their dependencies and their outcomes are.
THEOREM DependenciesFirst == ASSUME Serial PROVE Spec => []DependencyOrder
<1>1. OrderInv => DependencyOrder
  <2> SUFFICES ASSUME OrderInv, NEW w \in Workers, pc[w] = "running", NEW d \in Deps[task[w]]
               PROVE  status[d] \in Terminal
    BY DEF DependencyOrder
  <2>1. task[w] \in Tasks /\ Chosen(task[w])
    BY HeldTask DEF Holding, WorkerSteps, Chosen
  <2> QED
    BY <2>1, ChosenWaitsForNothing DEF Unfinished
<1> QED
  BY <1>1, OrderInvariant, PTL

\* Such an executor runs every task's function at most once, whatever the tasks,
\* their dependencies and their outcomes are: what is enqueued by its submission,
\* made ready by a notification and found by the scheduler is one execution.
THEOREM RunsOnce == ASSUME Serial PROVE Spec => []ExactlyOnce
<1>1. OrderInv => ExactlyOnce
  BY MaxRetriesAssumption DEF OrderInv, RunInv, ExactlyOnce
<1> QED
  BY <1>1, OrderInvariant, PTL

\* And once its wait_for_completion has returned every task is in a terminal state
\* and stays there.
THEOREM WaitMeansDone == ASSUME Serial PROVE Spec => []WaitSound
<1>1. OrderInv => WaitSound
  BY DEF OrderInv
<1> QED
  BY <1>1, OrderInvariant, PTL

=============================================================================
