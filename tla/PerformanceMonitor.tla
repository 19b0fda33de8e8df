------------------------ MODULE PerformanceMonitor ------------------------
(***************************************************************************)
(* PerformanceMonitor (performance_monitor.hpp): the counters, updated by  *)
(* one operation at a time.  They are unsigned and wrap around.  The       *)
(* accumulated times are left out.                                         *)
(***************************************************************************)
EXTENDS Naturals

CONSTANT CounterMax   \* the largest value of a counter, 2^64 - 1 in the code

ASSUME CounterMaxAssumption == CounterMax \in Nat \ {0}

VARIABLE metrics

Counters == {"submitted", "completed", "failed", "retried", "cancelled",
             "inflight", "peak"}

MonitorTypeOK == metrics \in [Counters -> 0 .. CounterMax]

MonitorInit == metrics = [k \in Counters |-> 0]

\* fetch_add(1) and fetch_sub(1)
Inc(n) == IF n = CounterMax THEN 0 ELSE n + 1
Dec(n) == IF n = 0 THEN CounterMax ELSE n - 1

record_submission == metrics' = [metrics EXCEPT !["submitted"] = Inc(@)]

record_start ==
  LET inflight == Inc(metrics["inflight"])
      peak == IF inflight > metrics["peak"] THEN inflight ELSE metrics["peak"]
  IN  metrics' = [metrics EXCEPT !["inflight"] = inflight, !["peak"] = peak]

record_completion ==
  metrics' = [metrics EXCEPT !["completed"] = Inc(@), !["inflight"] = Dec(@)]

\* Mutant: a failed task stays in flight.
RecordFailureInFlight == metrics' = [metrics EXCEPT !["failed"] = Inc(@)]

record_failure ==
  metrics' = [metrics EXCEPT !["failed"] = Inc(@), !["inflight"] = Dec(@)]

record_retry == metrics' = [metrics EXCEPT !["retried"] = Inc(@)]

record_cancellation == metrics' = [metrics EXCEPT !["cancelled"] = Inc(@)]

=============================================================================
