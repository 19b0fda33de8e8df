--------------------------- MODULE MonitorThreads ---------------------------
(***************************************************************************)
(* PerformanceMonitor (performance_monitor.hpp) seen from the threads that *)
(* record: every fetch_add, fetch_sub, load, store and compare-and-swap is *)
(* a step.  PerformanceMonitor.tla takes each record_* as one step; the    *)
(* property CountersAtomic says that this is sound, as long as nobody      *)
(* calls reset().                                                          *)
(*                                                                         *)
(* record_submission, record_retry and record_cancellation are a single    *)
(* fetch_add already, and are left out with the accumulated times.         *)
(***************************************************************************)
EXTENDS Naturals, Sequences, FiniteSets, FiniteSetsExt

CONSTANTS
  Recorders,    \* threads
  Times,        \* execution times
  MaxRounds,    \* MaxRounds[r] bounds the tasks thread r records
  CounterMax    \* UINT64_MAX in the code

ASSUME TimesAssumption == Times \subseteq 0 .. CounterMax - 1

\* A counter has room for every thread.
ASSUME RecordersAssumption ==
  CounterMax \in Nat \ {0} /\ IsFiniteSet(Recorders) /\ Cardinality(Recorders) <= CounterMax

VARIABLES
  counters,    \* metrics_
  rpc, mine, seen,   \* per thread: next step, the value it offers, its expected
  rounds,      \* history: tasks begun by a thread
  resetting,   \* the next store of reset(), 0 when it is not called
  resets,      \* history: calls of reset()
  torn,        \* history: a reset() overlapped a task or a record
  highest,     \* history: the most tasks in flight since the last reset()
  times        \* history: the execution times recorded since then

threadLocals == <<rpc, mine, seen, rounds>>
resetVars == <<resetting, resets, torn>>
monitorVars == <<counters, threadLocals, resetVars, highest, times>>

Fields == {"completed", "failed", "max", "min", "inflight", "peak"}

StartSteps == {"peak_load", "peak_cas"}
ExtremaSteps == {"max_load", "max_cas", "min_load", "min_cas"}

MonitorThreadsTypeOK ==
  /\ counters \in [Fields -> 0 .. CounterMax]
  /\ rpc \in [Recorders -> {"idle", "running", "completed", "failed"} \cup StartSteps \cup ExtremaSteps]
  /\ mine \in [Recorders -> 0 .. CounterMax] /\ seen \in [Recorders -> 0 .. CounterMax]
  /\ \A r \in Recorders : rounds[r] \in 0 .. MaxRounds[r]
  /\ resetting \in 0 .. Cardinality(Fields) /\ resets \in {0, 1} /\ torn \in BOOLEAN
  /\ highest \in 0 .. CounterMax /\ times \subseteq Times

MonitorThreadsInit ==
  /\ counters = [f \in Fields |-> IF f = "min" THEN CounterMax ELSE 0]
  /\ rpc = [r \in Recorders |-> "idle"]
  /\ mine = [r \in Recorders |-> 0] /\ seen = [r \in Recorders |-> 0]
  /\ rounds = [r \in Recorders |-> 0]
  /\ resetting = 0 /\ resets = 0 /\ torn = FALSE
  /\ highest = 0 /\ times = {}

\* The values between the start of an operation and its last store
Pending(steps) == {mine[r] : r \in {q \in Recorders : rpc[q] \in steps}}

\* The counters with every operation under way counted as done, or not at all.
Count(step) == Cardinality({r \in Recorders : rpc[r] = step})
Before(counter, n) ==   \* n calls of fetch_add(1) ago
  IF n <= counter THEN counter - n ELSE counter + CounterMax + 1 - n
Linearized ==
  [submitted |-> 0, retried |-> 0, cancelled |-> 0,
   completed |-> Before(counters["completed"], Count("completed")),
   failed |-> Before(counters["failed"], Count("failed")),
   inflight |-> counters["inflight"],
   peak |-> Max({counters["peak"]} \cup Pending(StartSteps))]

Atomic == INSTANCE PerformanceMonitor WITH metrics <- Linearized

-----------------------------------------------------------------------------
(* The recording threads                                                   *)

Step(r, from, to) == rpc[r] = from /\ rpc' = [rpc EXCEPT ![r] = to]

\* A record that begins while reset() stores is torn.
Tear == torn' = (torn \/ resetting # 0) /\ UNCHANGED <<resetting, resets>>

StartAdd(r) ==
  LET inflight == Atomic!Inc(counters["inflight"])
  IN  /\ Step(r, "idle", "peak_load")
      /\ rounds[r] < MaxRounds[r]
      /\ rounds' = [rounds EXCEPT ![r] = @ + 1]
      /\ counters' = [counters EXCEPT !["inflight"] = inflight]
      /\ mine' = [mine EXCEPT ![r] = inflight]
      /\ highest' = IF inflight > highest THEN inflight ELSE highest
      /\ Tear
      /\ UNCHANGED <<seen, times>>

\* The locals of a loop that ends, and of a call that returns
Drop(r, next) ==
  /\ seen' = [seen EXCEPT ![r] = 0]
  /\ mine' = [mine EXCEPT ![r] = IF next \in {"idle", "running"} THEN 0 ELSE @]
  /\ UNCHANGED <<rounds, resetVars, highest>>

\* A loop that raises or lowers a field to mine[r]: its load,
LoadField(r, field, load, cas) ==
  /\ Step(r, load, cas)
  /\ seen' = [seen EXCEPT ![r] = counters[field]]
  /\ UNCHANGED <<counters, mine, rounds, resetVars, highest, times>>

\* Mutant: the value is stored whatever others have stored since the load.
SwapBlindly(r, field, cas, next) ==
  /\ Step(r, cas, next)
  /\ counters' = [counters EXCEPT ![field] = mine[r]]
  /\ Drop(r, next)

\* its compare-and-swap when it succeeds,
Swap(r, field, cas, next) ==
  /\ Step(r, cas, next)
  /\ counters[field] = seen[r]
  /\ counters' = [counters EXCEPT ![field] = mine[r]]
  /\ Drop(r, next)

\* when it fails, be it spuriously,
SwapFails(r, field, cas) ==
  /\ Step(r, cas, cas)
  /\ seen' = [seen EXCEPT ![r] = counters[field]]
  /\ UNCHANGED <<counters, mine, rounds, resetVars, highest, times>>

\* and its end when the field needs no change.
NoSwap(r, cas, next) ==
  /\ Step(r, cas, next)
  /\ UNCHANGED counters
  /\ Drop(r, next)

RaisePeak(r) ==
  \/ LoadField(r, "peak", "peak_load", "peak_cas")
  \/ /\ UNCHANGED times
     /\ IF mine[r] > seen[r]
          THEN Swap(r, "peak", "peak_cas", "running")
          ELSE NoSwap(r, "peak_cas", "running")
  \/ mine[r] > seen[r] /\ SwapFails(r, "peak", "peak_cas")

\* record_completion, once the time has been added
CompletedAdd(r, time) ==
  /\ Step(r, "running", "completed")
  /\ counters' = [counters EXCEPT !["completed"] = Atomic!Inc(@)]
  /\ mine' = [mine EXCEPT ![r] = time]
  /\ UNCHANGED <<seen, rounds, resetVars, highest, times>>

FailedAdd(r) ==
  /\ Step(r, "running", "failed")
  /\ counters' = [counters EXCEPT !["failed"] = Atomic!Inc(@)]
  /\ UNCHANGED <<mine, seen, rounds, resetVars, highest, times>>

InflightSub(r) ==
  /\ Step(r, "completed", "max_load") \/ Step(r, "failed", "idle")
  /\ counters' = [counters EXCEPT !["inflight"] = Atomic!Dec(@)]
  /\ UNCHANGED <<mine, seen, rounds, resetVars, highest, times>>

\* update_extrema
Recorded(r) == times' = times \cup {mine[r]}

update_extrema(r) ==
  \/ LoadField(r, "max", "max_load", "max_cas")
  \/ /\ UNCHANGED times
     /\ IF mine[r] > seen[r]
          THEN Swap(r, "max", "max_cas", "min_load")
          ELSE NoSwap(r, "max_cas", "min_load")
  \/ mine[r] > seen[r] /\ SwapFails(r, "max", "max_cas")
  \/ LoadField(r, "min", "min_load", "min_cas")
  \/ /\ Recorded(r)
     /\ IF mine[r] < seen[r]
          THEN Swap(r, "min", "min_cas", "idle")
          ELSE NoSwap(r, "min_cas", "idle")
  \/ mine[r] < seen[r] /\ SwapFails(r, "min", "min_cas")

-----------------------------------------------------------------------------
(* reset()                                                                 *)

ResetOrder == <<"completed", "failed", "max", "min", "inflight", "peak">>

\* The histories start again.
ResetBegin ==
  /\ resetting = 0 /\ resets = 0
  /\ resetting' = 1 /\ resets' = 1
  /\ torn' = \E r \in Recorders : rpc[r] # "idle"
  /\ highest' = 0 /\ times' = {}
  /\ UNCHANGED <<counters, threadLocals>>

\* Mutant: the peak is kept, because it is "of the process".
ResetStoreKeepingPeak ==
  /\ resetting # 0
  /\ counters' = [counters EXCEPT ![ResetOrder[resetting]] =
       CASE ResetOrder[resetting] = "min" -> CounterMax
         [] ResetOrder[resetting] = "peak" -> @
         [] OTHER -> 0]
  /\ resetting' = (resetting + 1) % (Len(ResetOrder) + 1)
  /\ UNCHANGED <<threadLocals, resets, torn, highest, times>>

ResetStore ==
  /\ resetting # 0
  /\ counters' = [counters EXCEPT ![ResetOrder[resetting]] =
                    IF ResetOrder[resetting] = "min" THEN CounterMax ELSE 0]
  /\ resetting' = (resetting + 1) % (Len(ResetOrder) + 1)
  /\ UNCHANGED <<threadLocals, resets, torn, highest, times>>

MonitorThreadsNext ==
  \/ \E r \in Recorders :
       \/ StartAdd(r) \/ RaisePeak(r) \/ FailedAdd(r) \/ InflightSub(r) \/ update_extrema(r)
       \/ \E time \in Times : CompletedAdd(r, time)
  \/ ResetBegin \/ ResetStore

MonitorThreadsSpec == MonitorThreadsInit /\ [][MonitorThreadsNext]_monitorVars

-----------------------------------------------------------------------------
(* Properties                                                              *)

\* Whatever the threads' accesses interleave to, the counters change as if each
\* record_start, record_completion and record_failure were one step: what the
\* model of the executor takes them for.
CountersAtomic ==
  /\ Atomic!MonitorInit
  /\ [][resets' = 0 =>
          Atomic!record_start \/ Atomic!record_completion \/ Atomic!record_failure]_Linearized

\* The in-flight counter is the number of tasks between their first and their last
\* access to it, unless reset() overlapped one of them.
InFlight == {r \in Recorders : rpc[r] \in StartSteps \cup {"running", "completed", "failed"}}
InflightCounts == ~torn => counters["inflight"] = Cardinality(InFlight)

\* The peak, with the values still being offered, is the highest number of tasks
\* ever in flight since reset(), unless reset() overlapped a task: then the
\* counter goes below zero and the peak may be 2^64 - 1.
PeakExact ==
  ~torn /\ resetting = 0 => Linearized.peak = highest

\* The extrema miss no recorded time and show none that was not recorded, under
\* the same condition.
ExtremaExact ==
  ~torn /\ resetting = 0 =>
    /\ \A time \in times : counters["min"] <= time /\ time <= counters["max"]
    /\ counters["max"] \in times \cup Pending(ExtremaSteps) \cup {0}
    /\ counters["min"] \in times \cup Pending(ExtremaSteps) \cup {CounterMax}

\* Load, peak and extrema are exact, which the compare-and-swap loops and the order
\* in which reset() stores have to achieve without a lock.
MonitorExact == InflightCounts /\ PeakExact /\ ExtremaExact

=============================================================================
