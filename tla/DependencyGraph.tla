-------------------------- MODULE DependencyGraph --------------------------
(***************************************************************************)
(* DependencyGraph (dependency_graph.hpp): the map of tasks and the        *)
(* operations the executor calls.  Each of them holds mutex_ from its      *)
(* first to its last step; the module that composes them keeps two of them *)
(* from overlapping.  The task fields they read and write can nevertheless *)
(* be changed at the same time by threads that do not take the mutex.      *)
(***************************************************************************)
EXTENDS Task

VARIABLE graph   \* the ids in tasks_

GraphTypeOK == graph \subseteq Tasks

GraphInit == graph = {}

add_task(t) ==
  /\ graph' = graph \cup {t}
  /\ UNCHANGED taskVars

\* Unknown ids are ignored.
GraphAddDependency(t, dependency) ==
  /\ IF {t, dependency} \subseteq graph
       THEN add_dependency(t, dependency)
       ELSE UNCHANGED taskVars
  /\ UNCHANGED graph

\* The dependents notify_task_completed(t) goes through
DependentsOf(t) == IF t \in graph THEN dependents[t] ELSE << >>

\* Mutant: a task that waits to be run again counts as completed.
NothingRuns == \A t \in graph : status[t] # "Running"

all_completed == \A t \in graph : status[t] \in Terminal

=============================================================================
