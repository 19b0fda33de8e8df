---------------------------- MODULE ComponentsMC ----------------------------
(***************************************************************************)
(* The components of the library that share no state with each other or    *)
(* with the executor's model, checked together.  A behaviour is one of     *)
(* their behaviours: which one is chosen in the initial state, and the     *)
(* others stay as they are.  What they would do at the same time could not *)
(* be told from what they do one by one; they have the clock in common,    *)
(* which they only read.                                                   *)
(***************************************************************************)
EXTENDS TaskGraph, MonitorThreads, RateLimiter, TaskResultCache

VARIABLE part

Parts == {"graph", "monitor", "limiter", "cache"}

Init ==
  /\ part \in Parts
  /\ TaskGraphInit /\ MonitorThreadsInit /\ ClockInit /\ LimiterInit /\ CacheInit

PartNext(p) ==
  /\ p = "graph" => TaskGraphNext
  /\ p # "graph" => UNCHANGED graphTestVars
  /\ p = "monitor" => MonitorThreadsNext
  /\ p # "monitor" => UNCHANGED monitorVars
  /\ p = "limiter" => LimiterNext
  /\ p # "limiter" => UNCHANGED limiterVars
  /\ p = "cache" => CacheNext
  /\ p # "cache" => UNCHANGED cacheVars
  /\ p \notin {"limiter", "cache"} => UNCHANGED now

Next == PartNext(part) /\ UNCHANGED part

vars == <<part, graphTestVars, monitorVars, limiterVars, cacheVars, now>>

Spec == Init /\ [][Next]_vars

\* Every variable of every component has its type: the starting point of proofs
\* about them.
TypeOK ==
  /\ TaskGraphTypeOK /\ MonitorThreadsTypeOK /\ ClockTypeOK /\ LimiterTypeOK /\ CacheTypeOK

-----------------------------------------------------------------------------
(* Values of the constants                                                 *)

NoRetries == [t \in Tasks |-> 0]

\* The tasks of the graph are interchangeable.
TaskSymmetry == Permutations(Tasks)

TwoAndOne == [r \in Recorders |-> IF r = 1 THEN 2 ELSE 1]

Limit(max, interval, amount) ==
  [max_tokens |-> max, refill_interval |-> interval, token_refill_amount |-> amount]

\* Slow, with one token at a time
SlowLimit == Limit(2, 3, 1)

\* More tokens in an interval than the bucket holds, as in the examples; a bucket
\* that is always empty; and two at a time
SomeLimits == {Limit(1, 2, 2), Limit(0, 1, 1), Limit(2, 2, 2)}

=============================================================================
