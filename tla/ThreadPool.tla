---------------------------- MODULE ThreadPool ----------------------------
(***************************************************************************)
(* ThreadPool and PriorityQueueSet (thread_pool.hpp): the work-stealing    *)
(* worker loop, submission, pause and resume, shutdown, and the one        *)
(* condition variable that the workers sleep on.  Each queue is the        *)
(* first-in first-out queue of TaskFifo; running a task is one step.       *)
(*                                                                         *)
(* The condition variable is modelled by what the standard guarantees:     *)
(* a waiting thread gives up the mutex and starts to wait in one step, a   *)
(* notification wakes threads that already wait and is lost otherwise.     *)
(***************************************************************************)
EXTENDS Integers, Sequences, FiniteSets

CONSTANTS
  NumThreads,    \* num_threads_
  Submitters,    \* threads that call submit or try_submit
  Tasks,         \* the tasks
  None,          \* nullptr
  Priority,      \* Priority[t]: the priority t is submitted with
  LocalBound,    \* tasks a local queue of one priority holds (511)
  GlobalBound,   \* the same for the global queue (2047)
  MayPause,      \* the owner may call pause() and resume()
  MayShutdown    \* the owner may call shutdown()

\* try_submit_to_local divides by num_threads_.  The constructor accepts 0, which is
\* also what hardware_concurrency(), its default, returns when it does not know: the
\* first submission to such a pool is a division by zero, and it has no other behaviour.
ASSUME NumThreadsAssumption == NumThreads \in Nat \ {0}

ASSUME PriorityAssumption == Priority \in [Tasks -> 0 .. 3]

ASSUME BoundAssumption == LocalBound \in Nat \ {0} /\ GlobalBound \in Nat \ {0}

ASSUME NoneAssumption == None \notin Tasks

Workers == 0 .. (NumThreads - 1)

Priorities == 0 .. 3

VARIABLES
  running,      \* running_
  paused,       \* paused_
  next_worker,  \* next_worker_ % num_threads_
  global,       \* global_queue_, one queue for each priority
  local,        \* local_queues_
  spc,          \* spc[s]: progress of submitter s
  stask,        \* stask[s]: the task it submits
  wpc,          \* wpc[w]: progress of worker w
  wtask,        \* wtask[w]: the task it has dequeued
  victim,       \* victim[w]: the queue it tries to steal from next
  waiting,      \* workers asleep on cv_
  owner,        \* progress of pause, resume and shutdown
  late,         \* late[w]: tasks w has dequeued since the pool was paused or
                \* shut down, whichever came last (history, not in the code)
  missed        \* workers that sleep, or are about to, although there was a
                \* notification since their last test (history)

flagVars == <<running, paused>>
queueVars == <<next_worker, global, local>>
submitVars == <<spc, stask>>
workerVars == <<wpc, wtask, victim, waiting>>
historyVars == <<late, missed>>
vars == <<flagVars, queueVars, submitVars, workerVars, owner, historyVars>>

\* A PriorityQueueSet
Levels == [Priorities -> Seq(Tasks)]
Empty == [p \in Priorities |-> << >>]

WorkerSteps ==
  {"loop", "check_paused", "local", "global", "steal", "execute", "exited",
   "pause_lock", "pause_pred", "pause_block", "pause_wait",
   "idle_lock", "idle_pred", "idle_block", "idle_wait"}

SubmitSteps ==
  {"idle", "submit_local", "submit_global", "try_local", "try_global", "notify"}

TypeOK ==
  /\ running \in BOOLEAN
  /\ paused \in BOOLEAN
  /\ next_worker \in Workers
  /\ global \in Levels
  /\ local \in [Workers -> Levels]
  /\ spc \in [Submitters -> SubmitSteps]
  /\ stask \in [Submitters -> Tasks \cup {None}]
  /\ wpc \in [Workers -> WorkerSteps]
  /\ wtask \in [Workers -> Tasks \cup {None}]
  /\ victim \in [Workers -> 0 .. NumThreads]
  /\ waiting \subseteq Workers
  /\ owner \in {"idle", "resume_notify", "shutdown_notify", "join"}
  /\ late \in [Workers -> 0 .. 2]
  /\ missed \subseteq Workers

Init ==
  /\ running = TRUE
  /\ paused = FALSE
  /\ next_worker = 0
  /\ global = Empty
  /\ local = [w \in Workers |-> Empty]
  /\ spc = [s \in Submitters |-> "idle"]
  /\ stask = [s \in Submitters |-> None]
  /\ wpc = [w \in Workers |-> "loop"]
  /\ wtask = [w \in Workers |-> None]
  /\ victim = [w \in Workers |-> 0]
  /\ waiting = {}
  /\ owner = "idle"
  /\ late = [w \in Workers |-> 0]
  /\ missed = {}

\* PriorityQueueSet: enqueue by priority, dequeue from the highest level that
\* has a task.
Push(levels, t) == [levels EXCEPT ![Priority[t]] = Append(@, t)]

HasTask(levels) == \E p \in Priorities : levels[p] # << >>

Highest(levels) ==
  CHOOSE p \in Priorities :
    levels[p] # << >> /\ \A q \in Priorities : levels[q] # << >> => q <= p

Pop(levels) == [levels EXCEPT ![Highest(levels)] = Tail(@)]

First(levels) == Head(levels[Highest(levels)])

-----------------------------------------------------------------------------
(* submit and try_submit                                                   *)

SGoto(s, step) == spc' = [spc EXCEPT ![s] = step]

SReturn(s) ==
  /\ SGoto(s, "idle")
  /\ stask' = [stask EXCEPT ![s] = None]

\* The callers submit a task again only when the pool has done with it.
InPool(t) ==
  \/ \E s \in Submitters : stask[s] = t
  \/ \E w \in Workers : wtask[w] = t
  \/ \E i \in 1 .. Len(global[Priority[t]]) : global[Priority[t]][i] = t
  \/ \E w \in Workers : \E i \in 1 .. Len(local[w][Priority[t]]) :
       local[w][Priority[t]][i] = t

\* Both calls refuse the task when the pool is shut down: submit throws,
\* try_submit returns false.
SubmitBegin(s, t) ==
  /\ spc[s] = "idle"
  /\ ~InPool(t)
  /\ running
  /\ stask' = [stask EXCEPT ![s] = t]
  /\ \E step \in {"submit_local", "try_local"} : SGoto(s, step)
  /\ UNCHANGED <<flagVars, queueVars, workerVars, owner, historyVars>>

\* Round robin over the local queues
SubmitLocal(s) ==
  LET t == stask[s]
      fits == Len(local[next_worker][Priority[t]]) < LocalBound
  IN  /\ spc[s] \in {"submit_local", "try_local"}
      /\ next_worker' = (next_worker + 1) % NumThreads
      /\ local' = IF fits THEN [local EXCEPT ![next_worker] = Push(@, t)] ELSE local
      /\ SGoto(s, IF fits THEN "notify"
                  ELSE IF spc[s] = "submit_local" THEN "submit_global" ELSE "try_global")
      /\ UNCHANGED <<flagVars, global, stask, workerVars, owner, historyVars>>

SubmitGlobal(s) ==
  /\ spc[s] \in {"submit_global", "try_global"}
  /\ Len(global[Priority[stask[s]]]) < GlobalBound
  /\ global' = Push(global, stask[s])
  /\ SGoto(s, "notify")
  /\ UNCHANGED <<flagVars, next_worker, local, stask, workerVars, owner, historyVars>>

\* submit retries for as long as the pool runs, and then forgets the task.
SubmitDrop(s) ==
  /\ spc[s] = "submit_global"
  /\ Len(global[Priority[stask[s]]]) >= GlobalBound
  /\ ~running
  /\ SGoto(s, "notify")
  /\ UNCHANGED <<flagVars, queueVars, stask, workerVars, owner, historyVars>>

TrySubmitFail(s) ==
  /\ spc[s] = "try_global"
  /\ Len(global[Priority[stask[s]]]) >= GlobalBound
  /\ SReturn(s)
  /\ UNCHANGED <<flagVars, queueVars, workerVars, owner, historyVars>>

\* A notification may come when a worker has tested its predicate and has not
\* gone to sleep: the mutex does not exclude it.
AboutToSleep == {w \in Workers : wpc[w] \in {"pause_block", "idle_block"}}

\* cv_.notify_one(), without the mutex
SubmitNotify(s) ==
  /\ spc[s] = "notify"
  /\ IF waiting = {}
       THEN UNCHANGED waiting
       ELSE \E w \in waiting : waiting' = waiting \ {w}
  /\ missed' = (missed \cap waiting') \cup AboutToSleep
  /\ SReturn(s)
  /\ UNCHANGED <<flagVars, queueVars, wpc, wtask, victim, owner, late>>

-----------------------------------------------------------------------------
(* worker_loop                                                             *)

WGoto(w, step) == wpc' = [wpc EXCEPT ![w] = step]

WorkerLoop(w) ==
  /\ wpc[w] = "loop"
  /\ WGoto(w, IF running THEN "check_paused" ELSE "exited")
  /\ UNCHANGED <<flagVars, queueVars, submitVars, wtask, victim, waiting, owner, historyVars>>

WorkerCheckPaused(w) ==
  /\ wpc[w] = "check_paused"
  /\ WGoto(w, IF paused THEN "pause_lock" ELSE "local")
  /\ UNCHANGED <<flagVars, queueVars, submitVars, wtask, victim, waiting, owner, historyVars>>

\* w leaves with the task it dequeued.
Dequeued(w, t) ==
  /\ wtask' = [wtask EXCEPT ![w] = t]
  /\ late' = [late EXCEPT ![w] = IF (paused \/ ~running) /\ @ < 2 THEN @ + 1 ELSE @]
  /\ UNCHANGED missed
  /\ WGoto(w, "execute")

WorkerLocal(w) ==
  /\ wpc[w] = "local"
  /\ IF HasTask(local[w])
       THEN /\ Dequeued(w, First(local[w]))
            /\ local' = [local EXCEPT ![w] = Pop(@)]
       ELSE /\ WGoto(w, "global")
            /\ UNCHANGED <<local, wtask, historyVars>>
  /\ UNCHANGED <<flagVars, next_worker, global, submitVars, victim, waiting, owner>>

WorkerGlobal(w) ==
  /\ wpc[w] = "global"
  /\ IF HasTask(global)
       THEN /\ Dequeued(w, First(global))
            /\ global' = Pop(global)
       ELSE /\ WGoto(w, "steal")
            /\ UNCHANGED <<global, wtask, historyVars>>
  /\ UNCHANGED <<flagVars, next_worker, local, submitVars, victim, waiting, owner>>

\* Mutant: the stolen task stays in its queue.
WorkerStealCopying(w) ==
  LET i == victim[w]
      finds == i < NumThreads /\ i # w /\ HasTask(local[i])
  IN  /\ wpc[w] = "steal"
      /\ IF finds
           THEN /\ Dequeued(w, First(local[i]))
                /\ victim' = [victim EXCEPT ![w] = 0]
           ELSE /\ victim' = [victim EXCEPT ![w] = IF i < NumThreads THEN i + 1 ELSE 0]
                /\ WGoto(w, IF i < NumThreads THEN "steal" ELSE "idle_lock")
                /\ UNCHANGED <<wtask, historyVars>>
      /\ UNCHANGED <<flagVars, queueVars, submitVars, waiting, owner>>

\* The other queues in order
WorkerSteal(w) ==
  LET i == victim[w]
      finds == i < NumThreads /\ i # w /\ HasTask(local[i])
  IN  /\ wpc[w] = "steal"
      /\ IF finds
           THEN /\ Dequeued(w, First(local[i]))
                /\ local' = [local EXCEPT ![i] = Pop(@)]
                /\ victim' = [victim EXCEPT ![w] = 0]
           ELSE /\ victim' = [victim EXCEPT ![w] = IF i < NumThreads THEN i + 1 ELSE 0]
                /\ WGoto(w, IF i < NumThreads THEN "steal" ELSE "idle_lock")
                /\ UNCHANGED <<local, wtask, historyVars>>
      /\ UNCHANGED <<flagVars, next_worker, global, submitVars, waiting, owner>>

\* Mutant: after a task the worker looks for the next one at once.
WorkerExecuteOn(w) ==
  /\ wpc[w] = "execute"
  /\ wtask' = [wtask EXCEPT ![w] = None]
  /\ WGoto(w, "local")
  /\ UNCHANGED <<flagVars, queueVars, submitVars, victim, waiting, owner, historyVars>>

\* The hooks and the task run; whatever they throw is caught.
WorkerExecute(w) ==
  /\ wpc[w] = "execute"
  /\ wtask' = [wtask EXCEPT ![w] = None]
  /\ WGoto(w, "loop")
  /\ UNCHANGED <<flagVars, queueVars, submitVars, victim, waiting, owner, historyVars>>

\* has_pending_work_locked
PendingWork == HasTask(global) \/ \E w \in Workers : HasTask(local[w])

MutexFree ==
  \A w \in Workers :
    wpc[w] \notin {"pause_pred", "pause_block", "idle_pred", "idle_block"}

\* cv_.wait(lock, predicate), for the wait of a paused worker ("pause") and for
\* the wait of a worker without work ("idle"): lock, test, sleep, lock again.
WaitLock(w) ==
  /\ \/ wpc[w] = "pause_lock" /\ WGoto(w, "pause_pred")
     \/ wpc[w] = "idle_lock" /\ WGoto(w, "idle_pred")
     \/ wpc[w] = "pause_wait" /\ w \notin waiting /\ WGoto(w, "pause_pred")
     \/ wpc[w] = "idle_wait" /\ w \notin waiting /\ WGoto(w, "idle_pred")
  /\ MutexFree
  /\ UNCHANGED <<flagVars, queueVars, submitVars, wtask, victim, waiting, owner, historyVars>>

\* Mutants: an idle worker looks at its own queue only; a paused one forgets shutdown().
WaitTestLocal(w) ==
  /\ \/ /\ wpc[w] = "pause_pred"
        /\ WGoto(w, IF ~paused \/ ~running THEN "local" ELSE "pause_block")
     \/ /\ wpc[w] = "idle_pred"
        /\ WGoto(w, IF ~running \/ HasTask(local[w]) THEN "loop" ELSE "idle_block")
  /\ UNCHANGED <<flagVars, queueVars, submitVars, wtask, victim, waiting, owner, historyVars>>
WaitTestPaused(w) ==
  /\ \/ wpc[w] = "pause_pred" /\ WGoto(w, IF ~paused THEN "local" ELSE "pause_block")
     \/ /\ wpc[w] = "idle_pred"
        /\ WGoto(w, IF ~running \/ PendingWork THEN "loop" ELSE "idle_block")
  /\ UNCHANGED <<flagVars, queueVars, submitVars, wtask, victim, waiting, owner, historyVars>>

WaitTest(w) ==
  /\ \/ /\ wpc[w] = "pause_pred"
        /\ WGoto(w, IF ~paused \/ ~running THEN "local" ELSE "pause_block")
     \/ /\ wpc[w] = "idle_pred"
        /\ WGoto(w, IF ~running \/ PendingWork THEN "loop" ELSE "idle_block")
  /\ UNCHANGED <<flagVars, queueVars, submitVars, wtask, victim, waiting, owner, historyVars>>

WaitBlock(w) ==
  /\ \/ wpc[w] = "pause_block" /\ WGoto(w, "pause_wait")
     \/ wpc[w] = "idle_block" /\ WGoto(w, "idle_wait")
  /\ waiting' = waiting \cup {w}
  /\ UNCHANGED <<flagVars, queueVars, submitVars, wtask, victim, owner, historyVars>>

-----------------------------------------------------------------------------
(* pause, resume, shutdown: a store, then cv_.notify_all() without the mutex *)

Pause ==
  /\ MayPause
  /\ owner = "idle"
  /\ paused' = TRUE
  /\ UNCHANGED <<running, queueVars, submitVars, workerVars, owner, historyVars>>

Resume ==
  /\ MayPause
  /\ owner = "idle"
  /\ paused' = FALSE
  /\ owner' = "resume_notify"
  /\ late' = IF running THEN [w \in Workers |-> 0] ELSE late
  /\ UNCHANGED <<running, queueVars, submitVars, workerVars, missed>>

Shutdown ==
  /\ MayShutdown
  /\ owner = "idle"
  /\ running' = FALSE
  /\ owner' = "shutdown_notify"
  /\ late' = IF running THEN [w \in Workers |-> 0] ELSE late
  /\ UNCHANGED <<paused, queueVars, submitVars, workerVars, missed>>

NotifyAll ==
  /\ owner \in {"resume_notify", "shutdown_notify"}
  /\ waiting' = {}
  /\ owner' = IF owner = "shutdown_notify" THEN "join" ELSE "idle"
  /\ missed' = AboutToSleep
  /\ UNCHANGED <<flagVars, queueVars, submitVars, wpc, wtask, victim, late>>

Join ==
  /\ owner = "join"
  /\ \A w \in Workers : wpc[w] = "exited"
  /\ owner' = "idle"
  /\ UNCHANGED <<flagVars, queueVars, submitVars, workerVars, historyVars>>

-----------------------------------------------------------------------------
WorkerStep(w) ==
  \/ WorkerLoop(w) \/ WorkerCheckPaused(w)
  \/ WorkerLocal(w) \/ WorkerGlobal(w) \/ WorkerSteal(w) \/ WorkerExecute(w)
  \/ WaitLock(w) \/ WaitTest(w) \/ WaitBlock(w)

SubmitStep(s) ==
  \/ SubmitLocal(s) \/ SubmitGlobal(s) \/ SubmitDrop(s) \/ TrySubmitFail(s)
  \/ SubmitNotify(s)

Next ==
  \/ \E s \in Submitters : (\E t \in Tasks : SubmitBegin(s, t)) \/ SubmitStep(s)
  \/ \E w \in Workers : WorkerStep(w)
  \/ Pause \/ Resume \/ Shutdown \/ NotifyAll \/ Join

Spec == Init /\ [][Next]_vars

\* Every thread that can go on does; mutex_ is taken and released again and
\* again by the workers, and each of them gets it in the end (SF).  Nobody has
\* to submit, pause, resume or shut down.
FairSpec ==
  /\ Spec
  /\ \A w \in Workers : SF_vars(WorkerStep(w))
  /\ \A s \in Submitters : WF_vars(SubmitStep(s))
  /\ WF_vars(NotifyAll \/ Join)

-----------------------------------------------------------------------------
(* Properties                                                              *)

\* The queue of a worker, or the global one
Queue(q) == IF q = NumThreads THEN global ELSE local[q]

\* A queue and a position in one of its levels, none of which is longer than the bounds
Places == (0 .. NumThreads) \X (1 .. LocalBound + GlobalBound)

\* The places at which t is queued
Stored(t) ==
  {x \in Places :
     LET level == Queue(x[1])[Priority[t]] IN x[2] \in DOMAIN level /\ level[x[2]] = t}

Bag == INSTANCE TaskBag WITH
  Consumers <- Workers,
  Items <- Tasks,
  pool <- [t \in Tasks |-> Cardinality(Stored(t))],
  taken <- wtask,
  CanDrop <- FALSE

\* However the workers pop their own queue, the global one and each other's, a
\* task is dequeued once for each time it was enqueued, and none leaves the pool
\* in any other way, shutdown included.
BagSpec == Bag!Spec

\* After pause() or shutdown() has stored its flag a worker dequeues at most one
\* more task before resume(): the flags are tested once in each round.  (A
\* worker that is asleep because of a pause dequeues one when the pool is shut
\* down, so the two may add up.)
StopsPromptly == \A w \in Workers : (paused \/ ~running) => late[w] <= 1

\* There is work and nobody works.
Idling == PendingWork /\ running /\ ~paused /\ \A w \in Workers : wtask[w] = None

\* A running pool that is not paused does not leave its queues alone for ever,
\* although a notification may be lost: while one worker is about to sleep the
\* others hear it, or look for work again by themselves.  (A pool of one worker
\* has no others, and sleeps on the task.)
QueuedTasksRun == Idling ~> ~Idling

\* shutdown() returns, whatever is queued and whoever is paused or asleep, unless
\* its notification has fallen between a worker's test and its sleep.
ShutdownReturnsUnlessMissed == owner = "join" ~> (owner # "join" \/ missed # {})

=============================================================================
