------------------------------- MODULE Task -------------------------------
(***************************************************************************)
(* Task (task.hpp): the atomic fields every part of the engine shares, and *)
(* the methods that read and write them.  The fields are functions of the  *)
(* task, so that no method needs the others' permission: the code guards   *)
(* them by nothing but their own atomicity.                                *)
(*                                                                         *)
(* Times, names, metadata, categories and results are left out.  A missed  *)
(* deadline and an exceeded timeout end an execution as a throwing         *)
(* function does, and are the outcome "throw".                             *)
(***************************************************************************)
EXTENDS Integers, Sequences, FiniteSets

CONSTANTS
  Tasks,       \* the task ids
  MaxRetries   \* MaxRetries[t]: options_.max_retries

ASSUME MaxRetriesAssumption == MaxRetries \in [Tasks -> Nat]

VARIABLES
  status,              \* status_
  cancelled,           \* cancelled_
  enqueued,            \* enqueued_
  attempts,            \* attempts_
  dependencies,        \* dependencies_
  dependents,          \* dependents_
  dependencies_count   \* dependencies_count_, a signed counter

edgeVars == <<dependencies, dependents, dependencies_count>>
taskVars == <<status, cancelled, enqueued, attempts, edgeVars>>

TaskStatus == {"Pending", "Ready", "Running", "Completed", "Failed", "Cancelled"}

Terminal == {"Completed", "Failed", "Cancelled"}

TaskTypeOK ==
  /\ status \in [Tasks -> TaskStatus]
  /\ cancelled \in [Tasks -> BOOLEAN]
  /\ enqueued \in [Tasks -> BOOLEAN]
  /\ attempts \in [Tasks -> Nat]
  /\ dependencies \in [Tasks -> Seq(Tasks)]
  /\ dependents \in [Tasks -> Seq(Tasks)]
  /\ dependencies_count \in [Tasks -> Int]

TaskInit ==
  /\ status = [t \in Tasks |-> "Pending"]
  /\ cancelled = [t \in Tasks |-> FALSE]
  /\ enqueued = [t \in Tasks |-> FALSE]
  /\ attempts = [t \in Tasks |-> 0]
  /\ dependencies = [t \in Tasks |-> << >>]
  /\ dependents = [t \in Tasks |-> << >>]
  /\ dependencies_count = [t \in Tasks |-> 0]

SetStatus(t, s) == status' = [status EXCEPT ![t] = s]

\* execute(), a cancelled task: the status is stored and the caller sees a throw.
ExecuteCancelled(t) ==
  /\ cancelled[t]
  /\ SetStatus(t, "Cancelled")
  /\ UNCHANGED <<cancelled, enqueued, attempts, edgeVars>>

\* execute(), up to the call of func_
ExecuteBegin(t) ==
  /\ SetStatus(t, "Running")
  /\ attempts' = [attempts EXCEPT ![t] = @ + 1]
  /\ UNCHANGED <<cancelled, enqueued, edgeVars>>

\* execute(), from the end of func_
ExecuteEnd(t, outcome) ==
  /\ SetStatus(t, IF outcome = "return" THEN "Completed" ELSE "Failed")
  /\ UNCHANGED <<cancelled, enqueued, attempts, edgeVars>>

add_dependency(t, dependency) ==
  /\ dependencies' = [dependencies EXCEPT ![t] = Append(@, dependency)]
  /\ dependents' = [dependents EXCEPT ![dependency] = Append(@, t)]
  /\ dependencies_count' = [dependencies_count EXCEPT ![t] = @ + 1]
  /\ UNCHANGED <<status, cancelled, enqueued, attempts>>

\* notify_dependency_completed() is a decrement and, when it reached zero, a
\* store that comes later.
NotifyDecrement(t) ==
  /\ dependencies_count' = [dependencies_count EXCEPT ![t] = @ - 1]
  /\ UNCHANGED <<status, cancelled, enqueued, attempts, dependencies, dependents>>

NotifyReady(t) ==
  /\ SetStatus(t, "Ready")
  /\ UNCHANGED <<cancelled, enqueued, attempts, edgeVars>>

\* Mutants of is_ready: the count, a finished task or the state Ready forgotten.
IsReadyWithoutCount(t) == status[t] \in {"Pending", "Ready"} /\ ~enqueued[t]
IsReadyWithoutStatus(t) == dependencies_count[t] = 0 /\ ~enqueued[t]
IsReadyOnlyPending(t) == dependencies_count[t] = 0 /\ status[t] = "Pending" /\ ~enqueued[t]

is_ready(t) ==
  /\ dependencies_count[t] = 0
  /\ status[t] \in {"Pending", "Ready"}
  /\ ~enqueued[t]

\* try_mark_enqueued() when it returns true
try_mark_enqueued(t) ==
  /\ ~enqueued[t]
  /\ enqueued' = [enqueued EXCEPT ![t] = TRUE]
  /\ UNCHANGED <<status, cancelled, attempts, edgeVars>>

clear_enqueued_flag(t) ==
  /\ enqueued' = [enqueued EXCEPT ![t] = FALSE]
  /\ UNCHANGED <<status, cancelled, attempts, edgeVars>>

\* Mutant: attempts are compared instead of retries.
CanRetryOnceMore(t) ==
  LET retries_used == IF attempts[t] > 0 THEN attempts[t] - 1 ELSE 0
  IN  ~cancelled[t] /\ retries_used <= MaxRetries[t]

can_retry(t) ==
  LET retries_used == IF attempts[t] > 0 THEN attempts[t] - 1 ELSE 0
  IN  ~cancelled[t] /\ retries_used < MaxRetries[t]

\* cancel() when it returns true
Cancel(t) ==
  /\ ~cancelled[t]
  /\ cancelled' = [cancelled EXCEPT ![t] = TRUE]
  /\ SetStatus(t, "Cancelled")
  /\ UNCHANGED <<enqueued, attempts, edgeVars>>

\* Mutant: the flag stays set.
ResetKeepingFlag(t) ==
  /\ SetStatus(t, "Pending")
  /\ UNCHANGED <<cancelled, enqueued, attempts, edgeVars>>

reset_for_retry(t) ==
  /\ SetStatus(t, "Pending")
  /\ enqueued' = [enqueued EXCEPT ![t] = FALSE]
  /\ UNCHANGED <<cancelled, attempts, edgeVars>>

=============================================================================
