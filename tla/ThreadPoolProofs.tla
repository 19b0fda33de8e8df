-------------------------- MODULE ThreadPoolProofs --------------------------
(***************************************************************************)
(* Proofs about the ThreadPool, for any threads, tasks, priorities and     *)
(* sizes of its queues: the types, how promptly the workers heed pause()   *)
(* and shutdown(), and that the queues together are the multiset TaskBag.  *)
(***************************************************************************)
EXTENDS ThreadPool, FiniteSetTheorems, TLAPS

\* A PriorityQueueSet of that size, each task at the level of its priority
LevelsOK(levels, bound) ==
  /\ levels \in Levels
  /\ \A p \in Priorities : Len(levels[p]) <= bound
  /\ \A p \in Priorities : \A i \in DOMAIN levels[p] : Priority[levels[p][i]] = p

QueueInv ==
  /\ LevelsOK(global, GlobalBound)
  /\ local \in [Workers -> Levels] /\ \A w \in Workers : LevelsOK(local[w], LocalBound)

\* Who holds a task: a submission under way, a worker that is to execute it.
HoldInv ==
  /\ \A s \in Submitters : spc[s] # "idle" => stask[s] \in Tasks
  /\ \A w \in Workers : wtask[w] # None <=> wpc[w] = "execute"

\* A worker that has dequeued since the flag was stored is on its way to the test
\* of the flag, or has made it; a pause still lets it come to the wait.
LateInv ==
  \A w \in Workers :
    /\ late[w] <= 1
    /\ running /\ ~paused => late[w] = 0
    /\ late[w] = 1 =>
         \/ wpc[w] \in {"execute", "loop", "exited"}
         \/ running /\ wpc[w] \in {"check_paused", "pause_lock", "pause_pred", "pause_block", "pause_wait"}

IInv == TypeOK /\ QueueInv /\ HoldInv /\ LateInv

-----------------------------------------------------------------------------
(* The queues                                                              *)

LEMMA WorkersArithmetic ==
  /\ 0 \in Workers
  /\ \A w \in Workers : w # NumThreads /\ w \in 0 .. NumThreads /\ (w + 1) % NumThreads \in Workers
  /\ \A q \in 0 .. NumThreads : q < NumThreads <=> q \in Workers
  BY NumThreadsAssumption DEF Workers

\* A task is put at the end of the level of its priority.
LEMMA PushLevels ==
  ASSUME NEW bound \in Nat, NEW levels, LevelsOK(levels, bound), NEW t \in Tasks,
         Len(levels[Priority[t]]) < bound
  PROVE  LevelsOK(Push(levels, t), bound)
<1> DEFINE p == Priority[t]
           new == Append(levels[p], t)
<1>1. p \in Priorities /\ levels \in [Priorities -> Seq(Tasks)]
  BY PriorityAssumption DEF LevelsOK, Levels, Priorities
<1>2. levels[p] \in Seq(Tasks) /\ Len(levels[p]) < bound
  BY <1>1
<1>3. /\ new \in Seq(Tasks) /\ Len(new) <= bound
      /\ \A i \in DOMAIN new : (i \in DOMAIN levels[p] /\ new[i] = levels[p][i]) \/ new[i] = t
  BY <1>2
<1>4. Push(levels, t) = [levels EXCEPT ![p] = new]
  BY DEF Push
<1> HIDE DEF new, p
<1>5. /\ Push(levels, t) \in [Priorities -> Seq(Tasks)]
      /\ \A q \in Priorities : Push(levels, t)[q] = IF q = p THEN new ELSE levels[q]
  BY <1>1, <1>3, <1>4
<1>6. \A i \in DOMAIN new : Priority[new[i]] = p
  BY <1>1, <1>3 DEF LevelsOK, p
<1> QED
  BY <1>3, <1>5, <1>6 DEF LevelsOK, Levels

LEMMA HighestLevel ==
  ASSUME NEW levels, HasTask(levels)
  PROVE  Highest(levels) \in Priorities /\ levels[Highest(levels)] # << >>
<1> DEFINE top(p) == levels[p] # << >> /\ \A q \in Priorities : levels[q] # << >> => q <= p
<1>1. \E p \in Priorities : top(p)
  <2>1. CASE levels[3] # << >>
    BY <2>1 DEF Priorities
  <2>2. CASE levels[3] = << >> /\ levels[2] # << >>
    BY <2>2 DEF Priorities
  <2>3. CASE levels[3] = << >> /\ levels[2] = << >> /\ levels[1] # << >>
    BY <2>3 DEF Priorities
  <2>4. CASE levels[3] = << >> /\ levels[2] = << >> /\ levels[1] = << >>
    BY <2>4 DEF Priorities, HasTask
  <2> QED
    BY <2>1, <2>2, <2>3, <2>4
<1>2. Highest(levels) = CHOOSE p \in Priorities : top(p)
  BY DEF Highest
<1> HIDE DEF top
<1>3. Highest(levels) \in Priorities /\ top(Highest(levels))
  BY <1>1, <1>2
<1> QED
  BY <1>3 DEF top

\* The first task of the highest level goes, and the others of the level move up.
LEMMA PopLevels ==
  ASSUME NEW bound \in Nat, NEW levels, LevelsOK(levels, bound), HasTask(levels)
  PROVE  LET p == Highest(levels)
         IN  /\ LevelsOK(Pop(levels), bound)
             /\ First(levels) \in Tasks /\ Priority[First(levels)] = p /\ p \in Priorities
             /\ levels[p] # << >> /\ First(levels) = levels[p][1]
             /\ \A q \in Priorities : Pop(levels)[q] = IF q = p THEN Tail(levels[p]) ELSE levels[q]
<1> DEFINE p == Highest(levels)
           new == Tail(levels[p])
<1>1. p \in Priorities /\ levels[p] # << >> /\ levels \in [Priorities -> Seq(Tasks)]
  BY HighestLevel DEF LevelsOK, Levels
<1>2. Pop(levels) = [levels EXCEPT ![p] = new] /\ First(levels) = Head(levels[p])
  BY DEF Pop, First
<1>3. levels[p] \in Seq(Tasks) /\ Len(levels[p]) <= bound
  BY <1>1 DEF LevelsOK
<1> HIDE DEF p
<1>4. /\ new \in Seq(Tasks) /\ Len(new) <= bound
      /\ \A i \in DOMAIN new : i + 1 \in DOMAIN levels[p] /\ new[i] = levels[p][i + 1]
      /\ 1 \in DOMAIN levels[p] /\ Head(levels[p]) = levels[p][1] /\ levels[p][1] \in Tasks
  BY <1>1, <1>3
<1> HIDE DEF new
<1>5. /\ Pop(levels) \in [Priorities -> Seq(Tasks)]
      /\ \A q \in Priorities : Pop(levels)[q] = IF q = p THEN new ELSE levels[q]
  BY <1>1, <1>2, <1>4
<1>6. \A i \in DOMAIN new : Priority[new[i]] = p
  BY <1>1, <1>4 DEF LevelsOK
<1>7. LevelsOK(Pop(levels), bound)
  BY <1>4, <1>5, <1>6 DEF LevelsOK, Levels
<1>8. Priority[First(levels)] = p
  BY <1>1, <1>2, <1>4 DEF LevelsOK
<1> QED
  BY <1>1, <1>2, <1>4, <1>5, <1>7, <1>8 DEF p, new

-----------------------------------------------------------------------------
(* The invariant is inductive                                              *)

LEMMA InitInv == Init => IInv
<1> SUFFICES ASSUME Init PROVE IInv
  OBVIOUS
<1> USE DEF Init
<1>1. Empty \in Levels /\ \A p \in Priorities : Empty[p] = << >>
  BY DEF Empty, Levels
<1>2. TypeOK
  <2>1. /\ next_worker \in Workers /\ victim \in [Workers -> 0 .. NumThreads]
        /\ late \in [Workers -> 0 .. 2]
    BY WorkersArithmetic, NumThreadsAssumption
  <2>2. /\ global \in Levels /\ local \in [Workers -> Levels]
    BY <1>1
  <2>3. /\ spc \in [Submitters -> SubmitSteps] /\ wpc \in [Workers -> WorkerSteps]
    BY DEF SubmitSteps, WorkerSteps
  <2>4. /\ stask \in [Submitters -> Tasks \cup {None}] /\ wtask \in [Workers -> Tasks \cup {None}]
    OBVIOUS
  <2>5. running \in BOOLEAN /\ paused \in BOOLEAN
    OBVIOUS
  <2> QED
    BY <2>1, <2>2, <2>3, <2>4, <2>5 DEF TypeOK
<1>3. QueueInv
  BY <1>1, BoundAssumption DEF QueueInv, LevelsOK
<1>4. HoldInv /\ LateInv
  BY DEF HoldInv, LateInv
<1> QED
  BY <1>2, <1>3, <1>4 DEF IInv

\* What a step of a submitter, or of the owner, leaves of the workers' part
LEMMA LateKept ==
  ASSUME IInv, UNCHANGED <<flagVars, wpc, late>>
  PROVE  LateInv'
  BY DEF IInv, LateInv, flagVars

LEMMA SubmitInv ==
  ASSUME IInv, NEW s \in Submitters, (\E t \in Tasks : SubmitBegin(s, t)) \/ SubmitStep(s)
  PROVE  IInv'
<1> USE DEF flagVars, queueVars, workerVars, historyVars, SGoto, SReturn
<1>1. ASSUME NEW t \in Tasks, SubmitBegin(s, t) PROVE IInv'
  <2>1. TypeOK'
    BY <1>1 DEF SubmitBegin, IInv, TypeOK, SubmitSteps
  <2>2. QueueInv' /\ HoldInv'
    BY <1>1 DEF SubmitBegin, IInv, QueueInv, HoldInv, TypeOK
  <2> QED
    BY <1>1, <2>1, <2>2, LateKept DEF SubmitBegin, IInv
<1>2. CASE SubmitLocal(s)
  <2> DEFINE t == stask[s]
             w == next_worker
             fits == Len(local[w][Priority[t]]) < LocalBound
             levels == Push(local[w], t)
  <2>1. /\ t \in Tasks /\ w \in Workers /\ (w + 1) % NumThreads \in Workers
        /\ next_worker' = (w + 1) % NumThreads
        /\ local' = (IF fits THEN [local EXCEPT ![w] = levels] ELSE local)
        /\ \E step \in {"notify", "submit_global", "try_global"} : spc' = [spc EXCEPT ![s] = step]
        /\ UNCHANGED <<flagVars, global, stask, workerVars, owner, historyVars>>
    BY <1>2, WorkersArithmetic DEF SubmitLocal, IInv, TypeOK, HoldInv
  <2>2. fits => LevelsOK(levels, LocalBound)
    BY <2>1, PushLevels, BoundAssumption DEF IInv, QueueInv
  <2> HIDE DEF t, w, fits, levels
  <2>3. QueueInv'
    <3>1. CASE fits
      BY <2>1, <2>2, <3>1 DEF IInv, QueueInv, LevelsOK
    <3>2. CASE ~fits
      BY <2>1, <3>2 DEF IInv, QueueInv
    <3> QED
      BY <3>1, <3>2
  <2>4. TypeOK'
    <3>1. local' \in [Workers -> Levels]
      BY <2>3 DEF QueueInv
    <3>2. spc' \in [Submitters -> SubmitSteps]
      BY <2>1 DEF IInv, TypeOK, SubmitSteps
    <3> QED
      BY <2>1, <3>1, <3>2 DEF IInv, TypeOK
  <2>5. HoldInv'
    <3>1. \A r \in Submitters : spc'[r] # "idle" => spc[r] # "idle" \/ r = s
      BY <2>1 DEF IInv, TypeOK
    <3> QED
      BY <2>1, <3>1 DEF IInv, HoldInv, t
  <2> QED
    BY <2>1, <2>3, <2>4, <2>5, LateKept DEF IInv
<1>3. CASE SubmitGlobal(s)
  <2> DEFINE t == stask[s]
             levels == Push(global, t)
  <2>1. /\ t \in Tasks /\ Len(global[Priority[t]]) < GlobalBound /\ global' = levels
        /\ spc' = [spc EXCEPT ![s] = "notify"]
        /\ UNCHANGED <<flagVars, next_worker, local, stask, workerVars, owner, historyVars>>
    BY <1>3 DEF SubmitGlobal, IInv, HoldInv
  <2>2. LevelsOK(levels, GlobalBound)
    BY <2>1, PushLevels, BoundAssumption DEF IInv, QueueInv
  <2> HIDE DEF t, levels
  <2>3. QueueInv'
    BY <2>1, <2>2 DEF IInv, QueueInv
  <2>4. TypeOK'
    BY <2>1, <2>2 DEF IInv, TypeOK, SubmitSteps, LevelsOK
  <2>5. HoldInv'
    BY <2>1 DEF IInv, HoldInv, TypeOK, t
  <2> QED
    BY <2>1, <2>3, <2>4, <2>5, LateKept DEF IInv
<1>4. CASE SubmitDrop(s)
  <2>1. TypeOK'
    BY <1>4 DEF SubmitDrop, IInv, TypeOK, SubmitSteps
  <2>2. QueueInv' /\ HoldInv'
    BY <1>4 DEF SubmitDrop, IInv, QueueInv, HoldInv, TypeOK
  <2> QED
    BY <1>4, <2>1, <2>2, LateKept DEF SubmitDrop, IInv
<1>5. CASE TrySubmitFail(s)
  <2>1. TypeOK'
    BY <1>5 DEF TrySubmitFail, IInv, TypeOK, SubmitSteps
  <2>2. QueueInv' /\ HoldInv'
    BY <1>5 DEF TrySubmitFail, IInv, QueueInv, HoldInv, TypeOK
  <2> QED
    BY <1>5, <2>1, <2>2, LateKept DEF TrySubmitFail, IInv
<1>6. CASE SubmitNotify(s)
  <2>1. waiting' \subseteq waiting /\ missed' \subseteq Workers
    BY <1>6 DEF SubmitNotify, AboutToSleep, IInv, TypeOK
  <2>2. TypeOK'
    BY <1>6, <2>1 DEF SubmitNotify, IInv, TypeOK, SubmitSteps
  <2>3. QueueInv' /\ HoldInv'
    BY <1>6 DEF SubmitNotify, IInv, QueueInv, HoldInv, TypeOK
  <2> QED
    BY <1>6, <2>2, <2>3, LateKept DEF SubmitNotify, IInv
<1> QED
  BY <1>1, <1>2, <1>3, <1>4, <1>5, <1>6 DEF SubmitStep

\* pause, resume, shutdown and join
LEMMA OwnerInv ==
  ASSUME IInv, Pause \/ Resume \/ Shutdown \/ NotifyAll \/ Join
  PROVE  IInv'
<1> USE DEF flagVars, queueVars, submitVars, workerVars, historyVars
<1>1. TypeOK'
  <2>1. CASE Pause \/ Join
    BY <2>1 DEF IInv, TypeOK, Pause, Join
  <2>2. CASE Resume
    <3>1. late' \in [Workers -> 0 .. 2]
      <4>1. CASE running
        BY <2>2, <4>1 DEF Resume
      <4>2. CASE ~running
        BY <2>2, <4>2 DEF Resume, IInv, TypeOK
      <4> QED
        BY <4>1, <4>2
    <3> QED
      BY <2>2, <3>1 DEF IInv, TypeOK, Resume
  <2>3. CASE Shutdown
    <3>1. late' \in [Workers -> 0 .. 2]
      <4>1. CASE running
        BY <2>3, <4>1 DEF Shutdown
      <4>2. CASE ~running
        BY <2>3, <4>2 DEF Shutdown, IInv, TypeOK
      <4> QED
        BY <4>1, <4>2
    <3> QED
      BY <2>3, <3>1 DEF IInv, TypeOK, Shutdown
  <2>4. CASE NotifyAll
    BY <2>4 DEF IInv, TypeOK, NotifyAll, AboutToSleep
  <2> QED
    BY <2>1, <2>2, <2>3, <2>4
<1>2. QueueInv' /\ HoldInv'
  BY DEF IInv, QueueInv, HoldInv, Pause, Resume, Shutdown, NotifyAll, Join
<1>3. LateInv'
  <2>1. CASE Pause
    BY <2>1 DEF IInv, TypeOK, LateInv, Pause
  <2>2. CASE Resume
    BY <2>2 DEF IInv, TypeOK, LateInv, Resume
  <2>3. CASE Shutdown
    BY <2>3 DEF IInv, TypeOK, LateInv, Shutdown
  <2>4. CASE NotifyAll \/ Join
    BY <2>4 DEF IInv, LateInv, NotifyAll, Join
  <2> QED
    BY <2>1, <2>2, <2>3, <2>4
<1> QED
  BY <1>1, <1>2, <1>3 DEF IInv

\* A worker dequeues: the late ones were on their way to the test, and are not here.
LEMMA DequeuedLate ==
  ASSUME IInv, NEW w \in Workers, NEW t \in Tasks, Dequeued(w, t), UNCHANGED flagVars,
         wpc[w] \in {"local", "global", "steal"}
  PROVE  /\ LateInv'
         /\ late' \in [Workers -> 0 .. 2]
         /\ wpc' \in [Workers -> WorkerSteps] /\ wtask' \in [Workers -> Tasks \cup {None}]
         /\ \A v \in Workers : wtask'[v] # None <=> wpc'[v] = "execute"
<1>1. /\ late \in [Workers -> 0 .. 2] /\ wpc \in [Workers -> WorkerSteps]
      /\ wtask \in [Workers -> Tasks \cup {None}]
  BY DEF IInv, TypeOK
<1>2. late[w] = 0
  BY <1>1 DEF IInv, LateInv
<1>3. /\ wpc' = [wpc EXCEPT ![w] = "execute"] /\ wtask' = [wtask EXCEPT ![w] = t]
      /\ running' = running /\ paused' = paused
  BY DEF Dequeued, WGoto, flagVars
<1>4. late' = [late EXCEPT ![w] = IF paused \/ ~running THEN 1 ELSE 0]
  BY <1>1, <1>2 DEF Dequeued
<1>5. LateInv'
  BY <1>1, <1>3, <1>4 DEF IInv, LateInv
<1>6. wpc' \in [Workers -> WorkerSteps] /\ wtask' \in [Workers -> Tasks \cup {None}]
  BY <1>1, <1>3 DEF WorkerSteps
<1>7. late' \in [Workers -> 0 .. 2]
  BY <1>1, <1>4
<1>8. \A v \in Workers : wtask'[v] # None <=> wpc'[v] = "execute"
  BY <1>1, <1>3, NoneAssumption DEF IInv, HoldInv
<1> QED
  BY <1>5, <1>6, <1>7, <1>8

\* A worker goes on without a task.
LEMMA WorkerMoves ==
  ASSUME IInv, NEW w \in Workers, wpc[w] # "execute",
         NEW step \in WorkerSteps \ {"execute"}, wpc' = [wpc EXCEPT ![w] = step],
         UNCHANGED <<flagVars, queueVars, submitVars, wtask, owner, historyVars>>,
         victim' \in [Workers -> 0 .. NumThreads], waiting' \subseteq Workers,
         late[w] = 1 => \/ step \in {"loop", "exited"}
                        \/ running /\ step \in {"check_paused", "pause_lock", "pause_pred", "pause_block", "pause_wait"}
  PROVE  IInv'
<1> USE DEF flagVars, queueVars, submitVars, historyVars
<1>1. TypeOK'
  BY DEF IInv, TypeOK
<1>2. QueueInv'
  BY DEF IInv, QueueInv
<1>3. HoldInv'
  BY DEF IInv, TypeOK, HoldInv
<1>4. LateInv'
  BY DEF IInv, TypeOK, LateInv
<1> QED
  BY <1>1, <1>2, <1>3, <1>4 DEF IInv

\* What a search of w's that finds a task takes from which queue
LEMMA TakeInv ==
  ASSUME IInv, NEW w \in Workers, wpc[w] \in {"local", "global", "steal"},
         NEW t \in Tasks, Dequeued(w, t),
         QueueInv', UNCHANGED <<flagVars, next_worker, submitVars, waiting, owner>>,
         victim' \in [Workers -> 0 .. NumThreads]
  PROVE  IInv'
<1> USE DEF flagVars, submitVars
<1>1. missed' = missed
  BY DEF Dequeued
<1>2. global' \in Levels /\ local' \in [Workers -> Levels]
  BY DEF QueueInv, LevelsOK
<1>3. TypeOK'
  BY <1>1, <1>2, DequeuedLate DEF IInv, TypeOK
<1>4. HoldInv'
  BY DequeuedLate DEF IInv, HoldInv
<1> QED
  BY <1>3, <1>4, DequeuedLate DEF IInv

LEMMA WorkerInv ==
  ASSUME IInv, NEW w \in Workers, WorkerStep(w)
  PROVE  IInv'
<1> USE DEF flagVars, queueVars, submitVars, historyVars
<1>1. /\ \A v \in Workers : LevelsOK(local[v], LocalBound)
      /\ local \in [Workers -> Levels] /\ LevelsOK(global, GlobalBound)
      /\ victim \in [Workers -> 0 .. NumThreads] /\ waiting \subseteq Workers
  BY DEF IInv, QueueInv, TypeOK
<1>2. CASE WorkerLoop(w)
  <2>1. PICK step \in {"check_paused", "exited"} : wpc' = [wpc EXCEPT ![w] = step] /\ (step = "check_paused" => running)
    BY <1>2 DEF WorkerLoop, WGoto
  <2> QED
    BY <1>1, <1>2, <2>1, WorkerMoves DEF WorkerLoop, WorkerSteps
<1>3. CASE WorkerCheckPaused(w)
  <2>1. PICK step \in {"pause_lock", "local"} : wpc' = [wpc EXCEPT ![w] = step] /\ (step = "local" => ~paused)
    BY <1>3 DEF WorkerCheckPaused, WGoto
  <2>2. late[w] = 1 => running /\ step = "pause_lock"
    BY <1>3, <2>1 DEF WorkerCheckPaused, IInv, LateInv
  <2> QED
    BY <1>1, <1>3, <2>1, <2>2, WorkerMoves DEF WorkerCheckPaused, WorkerSteps
<1>4. CASE WorkerLocal(w)
  <2>1. CASE HasTask(local[w])
    <3> DEFINE t == First(local[w])
               levels == Pop(local[w])
    <3>1. t \in Tasks /\ LevelsOK(levels, LocalBound)
      BY <1>1, <2>1, PopLevels, BoundAssumption
    <3>2. Dequeued(w, t) /\ local' = [local EXCEPT ![w] = levels]
      BY <1>4, <2>1 DEF WorkerLocal
    <3> HIDE DEF t, levels
    <3>3. QueueInv'
      BY <1>1, <1>4, <3>1, <3>2 DEF WorkerLocal, QueueInv, LevelsOK
    <3> QED
      BY <1>1, <1>4, <3>1, <3>2, <3>3, TakeInv DEF WorkerLocal
  <2>2. CASE ~HasTask(local[w])
    <3>1. wpc' = [wpc EXCEPT ![w] = "global"]
      BY <1>4, <2>2 DEF WorkerLocal, WGoto
    <3> QED
      BY <1>1, <1>4, <2>2, <3>1, WorkerMoves DEF WorkerLocal, WorkerSteps, IInv, LateInv
  <2> QED
    BY <2>1, <2>2
<1>5. CASE WorkerGlobal(w)
  <2>1. CASE HasTask(global)
    <3> DEFINE t == First(global)
               levels == Pop(global)
    <3>1. t \in Tasks /\ LevelsOK(levels, GlobalBound)
      BY <1>1, <2>1, PopLevels, BoundAssumption
    <3>2. Dequeued(w, t) /\ global' = levels
      BY <1>5, <2>1 DEF WorkerGlobal
    <3> HIDE DEF t, levels
    <3>3. QueueInv'
      BY <1>1, <1>5, <3>1, <3>2 DEF WorkerGlobal, QueueInv
    <3> QED
      BY <1>1, <1>5, <3>1, <3>2, <3>3, TakeInv DEF WorkerGlobal
  <2>2. CASE ~HasTask(global)
    <3>1. wpc' = [wpc EXCEPT ![w] = "steal"]
      BY <1>5, <2>2 DEF WorkerGlobal, WGoto
    <3> QED
      BY <1>1, <1>5, <2>2, <3>1, WorkerMoves DEF WorkerGlobal, WorkerSteps, IInv, LateInv
  <2> QED
    BY <2>1, <2>2
<1>6. CASE WorkerSteal(w)
  <2> DEFINE i == victim[w]
             finds == i < NumThreads /\ i # w /\ HasTask(local[i])
  <2>1. CASE finds
    <3> DEFINE t == First(local[i])
               levels == Pop(local[i])
    <3>1. i \in Workers
      BY <1>1, <2>1, WorkersArithmetic
    <3>2. t \in Tasks /\ LevelsOK(levels, LocalBound)
      BY <1>1, <2>1, <3>1, PopLevels, BoundAssumption
    <3>3. /\ Dequeued(w, t) /\ local' = [local EXCEPT ![i] = levels]
          /\ victim' = [victim EXCEPT ![w] = 0]
      BY <1>6, <2>1 DEF WorkerSteal
    <3> HIDE DEF t, levels
    <3>4. QueueInv'
      BY <1>1, <1>6, <3>1, <3>2, <3>3 DEF WorkerSteal, QueueInv, LevelsOK
    <3>5. victim' \in [Workers -> 0 .. NumThreads]
      BY <1>1, <3>3, NumThreadsAssumption
    <3> QED
      BY <1>6, <3>2, <3>3, <3>4, <3>5, TakeInv DEF WorkerSteal
  <2>2. CASE ~finds
    <3>1. PICK step \in {"steal", "idle_lock"} : wpc' = [wpc EXCEPT ![w] = step]
      BY <1>6, <2>2 DEF WorkerSteal, WGoto
    <3>2. victim' = [victim EXCEPT ![w] = IF i < NumThreads THEN i + 1 ELSE 0]
      BY <1>6, <2>2 DEF WorkerSteal
    <3>3. (IF i < NumThreads THEN i + 1 ELSE 0) \in 0 .. NumThreads
      BY <1>1, NumThreadsAssumption
    <3>4. victim' \in [Workers -> 0 .. NumThreads]
      BY <1>1, <3>2, <3>3
    <3> QED
      BY <1>1, <1>6, <2>2, <3>1, <3>4, WorkerMoves DEF WorkerSteal, WorkerSteps, IInv, LateInv
  <2> QED
    BY <2>1, <2>2
<1>7. CASE WorkerExecute(w)
  <2>1. /\ wpc' = [wpc EXCEPT ![w] = "loop"] /\ wtask' = [wtask EXCEPT ![w] = None]
        /\ UNCHANGED <<flagVars, queueVars, submitVars, victim, waiting, owner, historyVars>>
    BY <1>7 DEF WorkerExecute, WGoto
  <2>2. TypeOK'
    BY <2>1 DEF IInv, TypeOK, WorkerSteps
  <2>3. QueueInv' /\ HoldInv'
    BY <2>1 DEF IInv, TypeOK, QueueInv, HoldInv
  <2>4. LateInv'
    BY <2>1 DEF IInv, TypeOK, LateInv
  <2> QED
    BY <2>2, <2>3, <2>4 DEF IInv
<1>8. CASE WaitLock(w)
  <2>1. PICK step \in {"pause_pred", "idle_pred"} :
          /\ wpc' = [wpc EXCEPT ![w] = step]
          /\ wpc[w] \in (IF step = "pause_pred" THEN {"pause_lock", "pause_wait"} ELSE {"idle_lock", "idle_wait"})
    BY <1>8 DEF WaitLock, WGoto
  <2>2. late[w] = 1 => running /\ step = "pause_pred"
    BY <2>1 DEF IInv, LateInv
  <2> QED
    BY <1>1, <1>8, <2>1, <2>2, WorkerMoves DEF WaitLock, WorkerSteps
<1>9. CASE WaitTest(w)
  <2>1. PICK step \in {"local", "pause_block", "loop", "idle_block"} :
          /\ wpc' = [wpc EXCEPT ![w] = step]
          /\ wpc[w] = "pause_pred" => step = IF ~paused \/ ~running THEN "local" ELSE "pause_block"
          /\ wpc[w] # "pause_pred" => wpc[w] = "idle_pred"
    BY <1>9 DEF WaitTest, WGoto
  <2>2. late[w] = 1 => running /\ step = "pause_block"
    BY <2>1 DEF IInv, LateInv
  <2> QED
    BY <1>1, <1>9, <2>1, <2>2, WorkerMoves DEF WaitTest, WorkerSteps
<1>10. CASE WaitBlock(w)
  <2>1. PICK step \in {"pause_wait", "idle_wait"} :
          /\ wpc' = [wpc EXCEPT ![w] = step]
          /\ wpc[w] = IF step = "pause_wait" THEN "pause_block" ELSE "idle_block"
    BY <1>10 DEF WaitBlock, WGoto
  <2>2. late[w] = 1 => running /\ step = "pause_wait"
    BY <2>1 DEF IInv, LateInv
  <2> QED
    BY <1>1, <1>10, <2>1, <2>2, WorkerMoves DEF WaitBlock, WorkerSteps
<1> QED
  BY <1>2, <1>3, <1>4, <1>5, <1>6, <1>7, <1>8, <1>9, <1>10 DEF WorkerStep

LEMMA StepInv == IInv /\ [Next]_vars => IInv'
<1> SUFFICES ASSUME IInv, [Next]_vars PROVE IInv'
  OBVIOUS
<1>1. CASE UNCHANGED vars
  <2> USE DEF vars, flagVars, queueVars, submitVars, workerVars, historyVars
  <2>1. TypeOK' /\ QueueInv'
    BY <1>1 DEF IInv, TypeOK, QueueInv
  <2>2. HoldInv' /\ LateInv'
    BY <1>1 DEF IInv, HoldInv, LateInv
  <2> QED
    BY <2>1, <2>2 DEF IInv
<1>2. ASSUME NEW s \in Submitters, (\E t \in Tasks : SubmitBegin(s, t)) \/ SubmitStep(s)
      PROVE  IInv'
  BY <1>2, SubmitInv
<1>3. ASSUME NEW w \in Workers, WorkerStep(w) PROVE IInv'
  BY <1>3, WorkerInv
<1> QED
  BY <1>1, <1>2, <1>3, OwnerInv DEF Next

\* The queues keep their sizes and levels, holders their tasks, and late workers
\* their way to the test, whatever the threads do.
THEOREM InvariantHolds == Spec => []IInv
  BY InitInv, StepInv, PTL DEF Spec

\* Every variable of the pool keeps its type, next_worker_ and the steal positions
\* included, for any number of workers.
THEOREM TypeCorrect == Spec => []TypeOK
<1>1. IInv => TypeOK
  BY DEF IInv
<1> QED
  BY <1>1, InvariantHolds, PTL

\* worker_loop tests the flags once in each round: after pause() or shutdown() a
\* worker dequeues at most one more task.
THEOREM PoolStopsPromptly == Spec => []StopsPromptly
<1>1. IInv => StopsPromptly
  BY DEF IInv, LateInv, StopsPromptly
<1> QED
  BY <1>1, InvariantHolds, PTL

-----------------------------------------------------------------------------
(* The queues together are a multiset                                      *)

\* The queues, as the places name them
LEMMA QueueLevels ==
  ASSUME IInv, NEW q \in 0 .. NumThreads
  PROVE  /\ LevelsOK(Queue(q), LocalBound + GlobalBound)
         /\ q # NumThreads => q \in Workers
<1>1. CASE q = NumThreads
  <2>1. LevelsOK(global, GlobalBound) /\ Queue(q) = global
    BY <1>1 DEF IInv, QueueInv, Queue
  <2>2. \A p \in Priorities : global[p] \in Seq(Tasks)
    BY <2>1 DEF LevelsOK, Levels
  <2>3. \A p \in Priorities : Len(global[p]) <= LocalBound + GlobalBound
    BY <2>1, <2>2, BoundAssumption DEF LevelsOK
  <2> QED
    BY <1>1, <2>1, <2>3 DEF LevelsOK
<1>2. CASE q # NumThreads
  <2>1. q \in Workers
    BY <1>2, NumThreadsAssumption DEF Workers
  <2>2. LevelsOK(local[q], LocalBound) /\ Queue(q) = local[q]
    BY <1>2, <2>1 DEF IInv, QueueInv, Queue
  <2>3. \A p \in Priorities : local[q][p] \in Seq(Tasks)
    BY <2>2 DEF LevelsOK, Levels
  <2>4. \A p \in Priorities : Len(local[q][p]) <= LocalBound + GlobalBound
    BY <2>2, <2>3, BoundAssumption DEF LevelsOK
  <2> QED
    BY <2>1, <2>2, <2>4 DEF LevelsOK
<1> QED
  BY <1>1, <1>2

\* The places of a task are where the levels say it is.
PlacesInv ==
  \A u \in Tasks :
    /\ Stored(u) \subseteq Places
    /\ \A q \in 0 .. NumThreads : \A i :
         <<q, i>> \in Stored(u) <=>
           i \in DOMAIN Queue(q)[Priority[u]] /\ Queue(q)[Priority[u]][i] = u

LEMMA StoredPlaces == IInv => PlacesInv
<1> SUFFICES ASSUME IInv, NEW u \in Tasks
             PROVE  /\ Stored(u) \subseteq Places
                    /\ \A q \in 0 .. NumThreads : \A i :
                         <<q, i>> \in Stored(u) <=>
                           i \in DOMAIN Queue(q)[Priority[u]] /\ Queue(q)[Priority[u]][i] = u
  BY DEF PlacesInv
<1>1. Stored(u) \subseteq Places
  BY DEF Stored
<1>2. ASSUME NEW q \in 0 .. NumThreads, NEW i
      PROVE  <<q, i>> \in Stored(u) <=>
               i \in DOMAIN Queue(q)[Priority[u]] /\ Queue(q)[Priority[u]][i] = u
  <2> DEFINE level == Queue(q)[Priority[u]]
  <2>1. Priority[u] \in Priorities
    BY PriorityAssumption DEF Priorities
  <2>2. level \in Seq(Tasks) /\ Len(level) <= LocalBound + GlobalBound
    BY <2>1, QueueLevels DEF LevelsOK, Levels
  <2>3. LocalBound + GlobalBound \in Nat
    BY BoundAssumption
  <2> HIDE DEF level
  <2>4. i \in DOMAIN level => i \in 1 .. LocalBound + GlobalBound
    BY <2>2, <2>3
  <2>5. i \in DOMAIN level => <<q, i>> \in Places
    BY <2>4 DEF Places
  <2>6. <<q, i>> \in Stored(u) <=> <<q, i>> \in Places /\ i \in DOMAIN level /\ level[i] = u
    BY DEF Stored, level
  <2> QED
    BY <2>5, <2>6 DEF level
<1> QED
  BY <1>1, <1>2

LEMMA StoredFinite ==
  ASSUME NEW u
  PROVE  IsFiniteSet(Stored(u)) /\ IsFiniteSet(Stored(u)')
<1>1. IsFiniteSet(0 .. NumThreads) /\ IsFiniteSet(1 .. LocalBound + GlobalBound)
  <2>1. NumThreads \in Int /\ LocalBound + GlobalBound \in Int
    BY NumThreadsAssumption, BoundAssumption
  <2> QED
    BY <2>1, FS_Interval
<1>2. IsFiniteSet(Places)
  BY <1>1, FS_Product DEF Places
<1>3. Stored(u) \in SUBSET Places /\ Stored(u)' \in SUBSET Places
  BY DEF Stored
<1> QED
  BY <1>2, <1>3, FS_Subset

\* A submission adds one place to those of its task.
LEMMA PushStored ==
  ASSUME IInv, IInv', NEW q \in 0 .. NumThreads, NEW t \in Tasks, NEW u \in Tasks,
         Queue(q)' = Push(Queue(q), t),
         \A r \in 0 .. NumThreads : r # q => Queue(r)' = Queue(r)
  PROVE  Cardinality(Stored(u)') = IF u = t THEN Cardinality(Stored(u)) + 1 ELSE Cardinality(Stored(u))
<1>0. PlacesInv /\ PlacesInv'
  BY StoredPlaces, PTL
<1> DEFINE p == Priority[t]
           level == Queue(q)[p]
           n == Len(level) + 1
<1>1. p \in Priorities /\ Priority[u] \in Priorities
  BY PriorityAssumption DEF Priorities
<1>2. level \in Seq(Tasks) /\ Queue(q) \in [Priorities -> Seq(Tasks)]
  BY <1>1, QueueLevels DEF LevelsOK, Levels
<1>3. /\ Queue(q)'[p] = Append(level, t)
      /\ \A o \in Priorities : o # p => Queue(q)'[o] = Queue(q)[o]
  BY <1>1, <1>2 DEF Push
<1> HIDE DEF level
<1>4. /\ DOMAIN Append(level, t) = DOMAIN level \cup {n} /\ n \notin DOMAIN level
      /\ \A i \in DOMAIN level : Append(level, t)[i] = level[i]
      /\ Append(level, t)[n] = t
  BY <1>2
<1> HIDE DEF n
<1>5. \A r \in 0 .. NumThreads : \A i :
        <<r, i>> \in Stored(u)' <=> <<r, i>> \in Stored(u) \/ (u = t /\ r = q /\ i = n)
  <2> SUFFICES ASSUME NEW r \in 0 .. NumThreads, NEW i
               PROVE  <<r, i>> \in Stored(u)' <=> <<r, i>> \in Stored(u) \/ (u = t /\ r = q /\ i = n)
    OBVIOUS
  <2>1. /\ <<r, i>> \in Stored(u) <=>
             i \in DOMAIN Queue(r)[Priority[u]] /\ Queue(r)[Priority[u]][i] = u
        /\ <<r, i>> \in Stored(u)' <=>
             i \in DOMAIN Queue(r)'[Priority[u]] /\ Queue(r)'[Priority[u]][i] = u
    BY <1>0 DEF PlacesInv
  <2>2. CASE r # q
    BY <2>1, <2>2
  <2>3. CASE r = q /\ Priority[u] # p
    BY <1>1, <1>3, <2>1, <2>3
  <2>4. CASE r = q /\ Priority[u] = p
    <3>1. Queue(r)'[Priority[u]] = Append(level, t) /\ Queue(r)[Priority[u]] = level
      BY <1>3, <2>4 DEF level
    <3> QED
      BY <1>4, <2>1, <2>4, <3>1
  <2> QED
    BY <2>2, <2>3, <2>4
<1>6. \A x : x \in Stored(u) \/ x \in Stored(u)' => \E r \in 0 .. NumThreads, i \in Nat : x = <<r, i>>
  BY DEF Stored, Places
<1>7. CASE u # t
  <2>1. Stored(u)' = Stored(u)
    BY <1>5, <1>6, <1>7
  <2> QED
    BY <1>7, <2>1
<1>8. CASE u = t
  <2>1. Stored(u)' = Stored(u) \cup {<<q, n>>}
    BY <1>5, <1>6, <1>8
  <2>2. <<q, n>> \notin Stored(u)
    BY <1>0, <1>4, <1>8 DEF level, PlacesInv
  <2> QED
    BY <1>8, <2>1, <2>2, StoredFinite, FS_AddElement
<1> QED
  BY <1>7, <1>8

\* A task that is dequeued loses its first place in the queue; the places behind it
\* move up by one.
LEMMA PopStored ==
  ASSUME IInv, IInv', NEW q \in 0 .. NumThreads, HasTask(Queue(q)), NEW u \in Tasks,
         Queue(q)' = Pop(Queue(q)),
         \A r \in 0 .. NumThreads : r # q => Queue(r)' = Queue(r)
  PROVE  LET t == First(Queue(q))
         IN  /\ Cardinality(Stored(t)) > 0
             /\ Cardinality(Stored(u)') = IF u = t THEN Cardinality(Stored(u)) - 1 ELSE Cardinality(Stored(u))
<1> DEFINE t == First(Queue(q))
           p == Highest(Queue(q))
           level == Queue(q)[p]
           n == Len(level)
           Before == Stored(u)
           After == Stored(u)'
<1>1. PlacesInv /\ PlacesInv'
  BY StoredPlaces, PTL
<1>2. LevelsOK(Queue(q), LocalBound + GlobalBound) /\ LocalBound + GlobalBound \in Nat
  BY QueueLevels, BoundAssumption
<1>3. /\ t \in Tasks /\ Priority[t] = p /\ p \in Priorities /\ level # << >> /\ t = level[1]
      /\ \A o \in Priorities : Queue(q)'[o] = IF o = p THEN Tail(level) ELSE Queue(q)[o]
  BY <1>2, PopLevels
<1>4. Priority[u] \in Priorities /\ level \in Seq(Tasks)
  BY <1>2, <1>3, PriorityAssumption DEF LevelsOK, Levels, Priorities
<1> HIDE DEF t, p, level
<1>5. /\ n \in Nat \ {0} /\ DOMAIN level = 1 .. n
      /\ DOMAIN Tail(level) = 1 .. n - 1 /\ \A i \in 1 .. n - 1 : Tail(level)[i] = level[i + 1]
  BY <1>3, <1>4
<1> HIDE DEF n
<1>6. /\ \A r \in 0 .. NumThreads : \A i :
           <<r, i>> \in Before <=> i \in DOMAIN Queue(r)[Priority[u]] /\ Queue(r)[Priority[u]][i] = u
      /\ \A r \in 0 .. NumThreads : \A i :
           <<r, i>> \in After <=> i \in DOMAIN Queue(r)'[Priority[u]] /\ Queue(r)'[Priority[u]][i] = u
  BY <1>1 DEF PlacesInv
<1>7. \A x : x \in Before \/ x \in After =>
        \E r \in 0 .. NumThreads, i \in 1 .. LocalBound + GlobalBound : x = <<r, i>>
  BY DEF Stored, Places
<1>8. IsFiniteSet(Before) /\ IsFiniteSet(After) /\ IsFiniteSet(Stored(t))
  BY StoredFinite
<1>9. Cardinality(Stored(t)) > 0
  <2>1. <<q, 1>> \in Stored(t)
    BY <1>1, <1>3, <1>5 DEF PlacesInv, level
  <2>2. Cardinality(Stored(t)) \in Nat /\ Cardinality(Stored(t)) # 0
    BY <1>8, <2>1, FS_CardinalityType, FS_EmptySet
  <2> QED
    BY <2>2
<1> HIDE DEF Before, After
<1>10. Cardinality(After) = IF u = t THEN Cardinality(Before) - 1 ELSE Cardinality(Before)
  <2>1. CASE Priority[u] # p
    <3>1. \A r \in 0 .. NumThreads : Queue(r)'[Priority[u]] = Queue(r)[Priority[u]]
      BY <1>3, <1>4, <2>1
    <3>2. After = Before
      BY <1>6, <1>7, <3>1
    <3>3. u # t
      BY <1>3, <2>1
    <3> QED
      BY <3>2, <3>3
  <2>2. CASE Priority[u] = p
    <3> DEFINE Rest == Before \ {<<q, 1>>}
               up == [x \in After |-> IF x[1] = q THEN <<q, x[2] + 1>> ELSE x]
    <3>1. /\ \A i : <<q, i>> \in Before <=> i \in 1 .. n /\ level[i] = u
          /\ \A i : <<q, i>> \in After <=> i \in 1 .. n - 1 /\ level[i + 1] = u
          /\ \A r \in 0 .. NumThreads : r # q => \A i : <<r, i>> \in After <=> <<r, i>> \in Before
      <4>1. Queue(q)[Priority[u]] = level /\ Queue(q)'[Priority[u]] = Tail(level)
        BY <1>3, <2>2 DEF level
      <4>2. \A i : <<q, i>> \in Before <=> i \in 1 .. n /\ level[i] = u
        BY <1>5, <1>6, <4>1
      <4>3. \A i : <<q, i>> \in After <=> i \in 1 .. n - 1 /\ level[i + 1] = u
        BY <1>5, <1>6, <4>1
      <4> QED
        BY <1>6, <4>2, <4>3
    <3>2. \A r, i : <<r, i>> \in After => up[<<r, i>>] = IF r = q THEN <<q, i + 1>> ELSE <<r, i>>
      OBVIOUS
    <3>3. ASSUME NEW x \in After PROVE up[x] \in Rest
      <4>1. PICK r \in 0 .. NumThreads, i \in 1 .. LocalBound + GlobalBound : x = <<r, i>>
        BY <1>7
      <4>2. CASE r = q
        <5>1. i \in 1 .. n - 1 /\ level[i + 1] = u
          BY <3>1, <4>1, <4>2
        <5>2. i + 1 \in 1 .. n /\ i + 1 # 1
          BY <1>5, <5>1
        <5>3. <<q, i + 1>> \in Before /\ <<q, i + 1>> # <<q, 1>>
          BY <3>1, <5>1, <5>2
        <5> QED
          BY <3>2, <4>1, <4>2, <5>3
      <4>3. CASE r # q
        BY <3>1, <3>2, <4>1, <4>3
      <4> QED
        BY <4>2, <4>3
    <3>4. ASSUME NEW x \in After, NEW y \in After, up[x] = up[y] PROVE x = y
      <4>1. PICK r \in 0 .. NumThreads, i \in 1 .. LocalBound + GlobalBound : x = <<r, i>>
        BY <1>7
      <4>2. PICK s \in 0 .. NumThreads, j \in 1 .. LocalBound + GlobalBound : y = <<s, j>>
        BY <1>7
      <4>3. i \in Int /\ j \in Int
        BY <1>2
      <4>4. /\ up[x] = IF r = q THEN <<q, i + 1>> ELSE <<r, i>>
            /\ up[y] = IF s = q THEN <<q, j + 1>> ELSE <<s, j>>
        BY <3>2, <4>1, <4>2
      <4> HIDE DEF up
      <4> QED
        BY <3>4, <4>1, <4>2, <4>3, <4>4
    <3>5. ASSUME NEW y \in Rest PROVE \E x \in After : up[x] = y
      <4>1. PICK r \in 0 .. NumThreads, j \in 1 .. LocalBound + GlobalBound : y = <<r, j>>
        BY <1>7
      <4>2. CASE r = q
        <5>1. j \in 1 .. n /\ level[j] = u /\ j # 1
          BY <3>1, <4>1, <4>2
        <5>2. j - 1 \in 1 .. n - 1 /\ (j - 1) + 1 = j
          BY <1>5, <5>1
        <5>3. <<q, j - 1>> \in After
          BY <3>1, <5>1, <5>2
        <5>4. up[<<q, j - 1>>] = <<q, j>>
          BY <3>2, <5>2, <5>3
        <5> QED
          BY <4>1, <4>2, <5>3, <5>4
      <4>3. CASE r # q
        <5>1. y \in After
          BY <3>1, <4>1, <4>3
        <5>2. up[y] = y
          BY <3>2, <4>1, <4>3, <5>1
        <5> QED
          BY <5>1, <5>2
      <4> QED
        BY <4>2, <4>3
    <3>6. up \in Bijection(After, Rest)
      <4>1. up \in [After -> Rest]
        BY <3>3
      <4>2. DOMAIN up = After
        OBVIOUS
      <4> HIDE DEF up
      <4> QED
        BY <3>4, <3>5, <4>1, <4>2 DEF Bijection, Injection, Surjection, IsInjective
    <3>7. Cardinality(Rest) = Cardinality(After)
      <4> HIDE DEF Rest, up
      <4>1. ExistsBijection(After, Rest)
        BY <3>6 DEF ExistsBijection
      <4> QED
        BY <1>8, <4>1, FS_Bijection
    <3>8. Cardinality(Rest) = IF <<q, 1>> \in Before THEN Cardinality(Before) - 1 ELSE Cardinality(Before)
      BY <1>8, FS_RemoveElement
    <3>9. <<q, 1>> \in Before <=> u = t
      BY <1>3, <1>5, <3>1
    <3> QED
      BY <3>7, <3>8, <3>9
  <2> QED
    BY <2>1, <2>2
<1> QED
  BY <1>9, <1>10 DEF t, Before, After

LEMMA PushIsPut ==
  ASSUME IInv, IInv', NEW q \in 0 .. NumThreads, NEW t \in Tasks, UNCHANGED wtask,
         Queue(q)' = Push(Queue(q), t),
         \A r \in 0 .. NumThreads : r # q => Queue(r)' = Queue(r)
  PROVE  Bag!Put(t)
<1> DEFINE pool == [u \in Tasks |-> Cardinality(Stored(u))]
<1>1. \A u \in Tasks :
        Cardinality(Stored(u)') = IF u = t THEN Cardinality(Stored(u)) + 1 ELSE Cardinality(Stored(u))
  BY PushStored
<1>2. pool' = [pool EXCEPT ![t] = @ + 1]
  BY <1>1
<1> QED
  BY <1>2 DEF Bag!Put

LEMMA PopIsTake ==
  ASSUME IInv, IInv', NEW w \in Workers, NEW q \in 0 .. NumThreads, HasTask(Queue(q)),
         wpc[w] # "execute", wtask' = [wtask EXCEPT ![w] = First(Queue(q))],
         Queue(q)' = Pop(Queue(q)),
         \A r \in 0 .. NumThreads : r # q => Queue(r)' = Queue(r)
  PROVE  \E x \in Tasks : Bag!Take(w, x)
<1> DEFINE t == First(Queue(q))
           pool == [u \in Tasks |-> Cardinality(Stored(u))]
<1>1. t \in Tasks
  <2>1. LevelsOK(Queue(q), LocalBound + GlobalBound) /\ LocalBound + GlobalBound \in Nat
    BY QueueLevels, BoundAssumption
  <2> QED
    BY <2>1, PopLevels
<1>2. Cardinality(Stored(t)) > 0
  BY <1>1, PopStored
<1>3. \A u \in Tasks :
        Cardinality(Stored(u)') = IF u = t THEN Cardinality(Stored(u)) - 1 ELSE Cardinality(Stored(u))
  BY PopStored
<1>4. wtask[w] = None
  BY DEF IInv, HoldInv
<1> HIDE DEF t
<1>5. pool' = [pool EXCEPT ![t] = @ - 1] /\ pool[t] > 0
  BY <1>1, <1>2, <1>3
<1>6. Bag!Take(w, t)
  BY <1>4, <1>5 DEF Bag!Take, t
<1> QED
  BY <1>1, <1>6

\* A step that leaves the queues alone leaves the multiset alone.
LEMMA QueuesKept ==
  ASSUME UNCHANGED <<global, local>>
  PROVE  UNCHANGED [u \in Tasks |-> Cardinality(Stored(u))]
  BY DEF Stored, Queue

LEMMA StepRefinesBag == IInv /\ IInv' /\ [Next]_vars => [Bag!Next]_(Bag!bagVars)
<1> SUFFICES ASSUME IInv, IInv', [Next]_vars PROVE Bag!Next \/ UNCHANGED Bag!bagVars
  OBVIOUS
<1> USE DEF vars, flagVars, queueVars, submitVars, workerVars, historyVars
<1>1. ASSUME UNCHANGED <<global, local, wtask>> PROVE UNCHANGED Bag!bagVars
  BY <1>1, QueuesKept DEF Bag!bagVars
<1>2. \A q \in 0 .. NumThreads : q # NumThreads => q \in Workers
  BY QueueLevels
<1>3. ASSUME NEW s \in Submitters, SubmitLocal(s) PROVE Bag!Next \/ UNCHANGED Bag!bagVars
  <2>0. PICK t \in Tasks, q \in Workers : t = stask[s] /\ q = next_worker
    BY <1>3 DEF SubmitLocal, IInv, TypeOK, HoldInv
  <2> DEFINE fits == Len(local[q][Priority[t]]) < LocalBound
  <2>1. CASE fits
    <3>1. local' = [local EXCEPT ![q] = Push(@, t)] /\ UNCHANGED <<global, wtask>>
      BY <1>3, <2>0, <2>1 DEF SubmitLocal
    <3>2. q \in 0 .. NumThreads /\ q # NumThreads
      BY <3>1, WorkersArithmetic
    <3>3. local \in [Workers -> Levels]
      BY DEF IInv, TypeOK
    <3>4. Queue(q)' = Push(Queue(q), t)
      BY <3>1, <3>2, <3>3 DEF Queue
    <3>5. \A r \in 0 .. NumThreads : r # q => Queue(r)' = Queue(r)
      BY <1>2, <3>1, <3>3 DEF Queue
    <3> QED
      BY <3>1, <3>2, <3>4, <3>5, PushIsPut DEF Bag!Next
  <2>2. CASE ~fits
    BY <1>1, <1>3, <2>0, <2>2 DEF SubmitLocal
  <2> QED
    BY <2>1, <2>2
<1>4. ASSUME NEW s \in Submitters, SubmitGlobal(s) PROVE Bag!Next
  <2>1. /\ global' = Push(global, stask[s]) /\ stask[s] \in Tasks /\ UNCHANGED <<local, wtask>>
    BY <1>4 DEF SubmitGlobal, IInv, HoldInv
  <2>2. NumThreads \in 0 .. NumThreads
    BY NumThreadsAssumption
  <2>3. Queue(NumThreads)' = Push(Queue(NumThreads), stask[s])
    BY <2>1 DEF Queue
  <2>4. \A r \in 0 .. NumThreads : r # NumThreads => Queue(r)' = Queue(r)
    BY <2>1 DEF Queue
  <2> QED
    BY <2>1, <2>2, <2>3, <2>4, PushIsPut DEF Bag!Next
<1>5. ASSUME NEW w \in Workers, NEW q \in Workers, HasTask(local[q]), wpc[w] # "execute",
             Dequeued(w, First(local[q])), local' = [local EXCEPT ![q] = Pop(@)], UNCHANGED global
      PROVE  Bag!Next
  <2>1. q \in 0 .. NumThreads /\ q # NumThreads /\ local \in [Workers -> Levels]
    BY WorkersArithmetic DEF IInv, TypeOK
  <2>2. Queue(q) = local[q] /\ Queue(q)' = Pop(Queue(q))
    BY <1>5, <2>1 DEF Queue
  <2>3. \A r \in 0 .. NumThreads : r # q => Queue(r)' = Queue(r)
    BY <1>2, <1>5, <2>1 DEF Queue
  <2>4. wtask' = [wtask EXCEPT ![w] = First(Queue(q))]
    BY <1>5, <2>2 DEF Dequeued
  <2>5. HasTask(Queue(q))
    BY <1>5, <2>2
  <2> QED
    BY <1>5, <2>1, <2>2, <2>3, <2>4, <2>5, PopIsTake DEF Bag!Next
<1>6. ASSUME NEW w \in Workers, WorkerLocal(w) PROVE Bag!Next \/ UNCHANGED Bag!bagVars
  <2>1. CASE HasTask(local[w])
    BY <1>5, <1>6, <2>1 DEF WorkerLocal
  <2>2. CASE ~HasTask(local[w])
    BY <1>1, <1>6, <2>2 DEF WorkerLocal
  <2> QED
    BY <2>1, <2>2
<1>7. ASSUME NEW w \in Workers, WorkerGlobal(w) PROVE Bag!Next \/ UNCHANGED Bag!bagVars
  <2>1. CASE HasTask(global)
    <3>1. /\ Dequeued(w, First(global)) /\ global' = Pop(global) /\ UNCHANGED local
          /\ wpc[w] # "execute"
      BY <1>7, <2>1 DEF WorkerGlobal
    <3>2. NumThreads \in 0 .. NumThreads /\ Queue(NumThreads) = global /\ Queue(NumThreads)' = global'
      BY NumThreadsAssumption DEF Queue
    <3>3. \A r \in 0 .. NumThreads : r # NumThreads => Queue(r)' = Queue(r)
      BY <3>1 DEF Queue
    <3>4. wtask' = [wtask EXCEPT ![w] = First(Queue(NumThreads))]
      BY <3>1, <3>2 DEF Dequeued
    <3>5. HasTask(Queue(NumThreads)) /\ Queue(NumThreads)' = Pop(Queue(NumThreads))
      BY <2>1, <3>1, <3>2
    <3> QED
      BY <3>1, <3>2, <3>3, <3>4, <3>5, PopIsTake DEF Bag!Next
  <2>2. CASE ~HasTask(global)
    BY <1>1, <1>7, <2>2 DEF WorkerGlobal
  <2> QED
    BY <2>1, <2>2
<1>8. ASSUME NEW w \in Workers, WorkerSteal(w) PROVE Bag!Next \/ UNCHANGED Bag!bagVars
  <2> DEFINE i == victim[w]
             finds == i < NumThreads /\ i # w /\ HasTask(local[i])
  <2>1. CASE finds
    <3>1. i \in Workers
      BY <2>1, WorkersArithmetic DEF IInv, TypeOK
    <3> QED
      BY <1>5, <1>8, <2>1, <3>1 DEF WorkerSteal
  <2>2. CASE ~finds
    BY <1>1, <1>8, <2>2 DEF WorkerSteal
  <2> QED
    BY <2>1, <2>2
<1>9. ASSUME NEW w \in Workers, WorkerExecute(w) PROVE Bag!Next
  <2>1. wtask[w] # None /\ wtask' = [wtask EXCEPT ![w] = None] /\ UNCHANGED <<global, local>>
    BY <1>9 DEF WorkerExecute, IInv, HoldInv
  <2>2. Bag!Return(w)
    BY <2>1, QueuesKept DEF Bag!Return
  <2> QED
    BY <2>2 DEF Bag!Next
<1>10. ASSUME NEW s \in Submitters,
              \/ \E t \in Tasks : SubmitBegin(s, t)
              \/ SubmitDrop(s) \/ TrySubmitFail(s) \/ SubmitNotify(s)
       PROVE  UNCHANGED Bag!bagVars
  BY <1>1, <1>10 DEF SubmitBegin, SubmitDrop, TrySubmitFail, SubmitNotify
<1>11. ASSUME NEW w \in Workers,
              \/ WorkerLoop(w) \/ WorkerCheckPaused(w)
              \/ WaitLock(w) \/ WaitTest(w) \/ WaitBlock(w)
       PROVE  UNCHANGED Bag!bagVars
  BY <1>1, <1>11 DEF WorkerLoop, WorkerCheckPaused, WaitLock, WaitTest, WaitBlock
<1>12. CASE Pause \/ Resume \/ Shutdown \/ NotifyAll \/ Join
  BY <1>1, <1>12 DEF Pause, Resume, Shutdown, NotifyAll, Join
<1>13. CASE UNCHANGED vars
  BY <1>1, <1>13
<1> QED
  BY <1>3, <1>4, <1>6, <1>7, <1>8, <1>9, <1>10, <1>11, <1>12, <1>13
     DEF Next, SubmitStep, WorkerStep

LEMMA InitRefinesBag == Init => Bag!Init
<1> SUFFICES ASSUME Init PROVE Bag!Init
  OBVIOUS
<1>1. ASSUME NEW u \in Tasks PROVE Cardinality(Stored(u)) = 0
  <2>1. PlacesInv
    BY InitInv, StoredPlaces
  <2>2. \A q \in 0 .. NumThreads : Queue(q)[Priority[u]] = << >>
    BY PriorityAssumption, NumThreadsAssumption DEF Init, Queue, Empty, Priorities, Workers
  <2>3. \A q \in 0 .. NumThreads : \A i : <<q, i>> \notin Stored(u)
    <3>1. \A q \in 0 .. NumThreads : \A i : i \notin DOMAIN Queue(q)[Priority[u]]
      BY <2>2
    <3> QED
      BY <2>1, <3>1 DEF PlacesInv
  <2>4. \A x \in Stored(u) : \E q \in 0 .. NumThreads, i \in 1 .. LocalBound + GlobalBound : x = <<q, i>>
    BY DEF Stored, Places
  <2>5. Stored(u) = {}
    BY <2>3, <2>4
  <2> QED
    BY <2>5, FS_EmptySet
<1> QED
  BY <1>1 DEF Bag!Init, Init

\* However workers pop their own queue, the global one and each other's, each step
\* puts one task into the pool's queues, takes one, gives one back or does nothing
\* to them: the priority levels and the stealing lose and double nothing.
THEOREM ImplementsBag == Spec => BagSpec
<1>1. Init /\ [][Next]_vars /\ []IInv => Bag!Init /\ [][Bag!Next]_(Bag!bagVars)
  BY InitRefinesBag, StepRefinesBag, PTL
<1> QED
  BY <1>1, InvariantHolds, PTL DEF Spec, BagSpec, Bag!Spec

=============================================================================
