----------------------------- MODULE TaskGraph -----------------------------
(***************************************************************************)
(* A DependencyGraph used by itself, as the regression program does: one   *)
(* thread edits it, one runs what get_ready_tasks() returns and reports    *)
(* each completion, one asks has_cycles().  Every operation holds mutex_   *)
(* for its whole duration and is one step; executing a task takes no       *)
(* mutex, and has_cycles() takes it twice.                                 *)
(*                                                                         *)
(* An id is added once: every Task object is new.                          *)
(***************************************************************************)
EXTENDS DependencyGraph, SequencesExt

CONSTANT MaxEdges   \* bounds the calls of add_dependency

VARIABLES
  batch,     \* what the runner has left of the last get_ready_tasks()
  current,   \* the task the runner executes or is about to report, as a set
  asked,     \* has_cycles() between its critical sections: the order's length
  added,     \* history: the ids added so far
  edges,     \* history: calls of add_dependency
  reported,  \* history: the tasks reported as completed
  spoilt,    \* history: tasks whose count no longer says what they wait for
  askedOf    \* history: the size of the graph then, and was there a cycle?

editVars == <<added, edges>>
runVars == <<batch, current, reported>>
askVars == <<asked, askedOf>>
graphTestVars == <<taskVars, graph, editVars, runVars, askVars, spoilt>>

NotAsked == Cardinality(Tasks) + 1
OfNothing == [size |-> 0, cyclic |-> FALSE]

TaskGraphTypeOK ==
  /\ TaskTypeOK /\ GraphTypeOK
  /\ batch \subseteq Tasks /\ current \subseteq Tasks /\ added \subseteq Tasks
  /\ reported \subseteq Tasks /\ spoilt \subseteq Tasks
  /\ asked \in 0 .. NotAsked
  /\ edges \in 0 .. MaxEdges
  /\ askedOf \in [size : 0 .. Cardinality(Tasks), cyclic : BOOLEAN]

TaskGraphInit ==
  /\ TaskInit /\ GraphInit
  /\ batch = {} /\ current = {} /\ added = {} /\ reported = {} /\ spoilt = {}
  /\ asked = NotAsked /\ askedOf = OfNothing
  /\ edges = 0

\* A set of tasks each of which waits for another one of the set
IsCycle(S) == S # {} /\ \A t \in S : Range(dependencies[t]) \cap S # {}
Cyclic == \E S \in SUBSET graph : IsCycle(S)

-----------------------------------------------------------------------------
(* The editing thread                                                      *)

AddTask(t) ==
  /\ t \notin added
  /\ add_task(t)
  /\ added' = added \cup {t}
  /\ UNCHANGED <<edges, runVars, askVars, spoilt>>

AddDependency(t, dependency) ==
  /\ edges < MaxEdges
  /\ GraphAddDependency(t, dependency)
  /\ edges' = edges + 1
  /\ UNCHANGED <<added, runVars, askVars, spoilt>>

\* How often a list of edges holds t
Copies(t, s) == Cardinality({i \in DOMAIN s : s[i] = t})

\* std::remove and erase: what is not t moves up, in its order.
Erase(s, t) ==
  LET kept == {i \in DOMAIN s : s[i] # t}
      place == [i \in kept |-> Cardinality({j \in kept : j <= i})]
  IN  [n \in 1 .. Cardinality(kept) |-> s[CHOOSE i \in kept : place[i] = n]]

\* Mutants of remove_task: the edges are detached at one end only.
RemoveTaskLeavingDependents(t) ==
  /\ t \in graph
  /\ graph' = graph \ {t}
  /\ dependencies' = [u \in Tasks |->
       IF u # t /\ u \in Range(dependents[t]) THEN Erase(dependencies[u], t) ELSE dependencies[u]]
  /\ dependencies_count' = [u \in Tasks |->
       IF u = t THEN dependencies_count[u]
       ELSE dependencies_count[u] - Copies(u, dependents[t])]
  /\ UNCHANGED <<status, cancelled, enqueued, attempts, dependents>>

\* A task that depends on itself is gone from its own dependents_ before they
\* are visited.
remove_task(t) ==
  /\ t \in graph
  /\ graph' = graph \ {t}
  /\ dependents' = [u \in Tasks |->
       IF u \in Range(dependencies[t]) THEN Erase(dependents[u], t) ELSE dependents[u]]
  /\ dependencies' = [u \in Tasks |->
       IF u # t /\ u \in Range(dependents[t]) THEN Erase(dependencies[u], t) ELSE dependencies[u]]
  /\ dependencies_count' = [u \in Tasks |->
       IF u = t THEN dependencies_count[u]
       ELSE dependencies_count[u] - Copies(u, dependents[t])]
  /\ UNCHANGED <<status, cancelled, enqueued, attempts>>

\* What a reported task took off the counts is taken off a second time.
RemoveTask(t) ==
  /\ remove_task(t)
  /\ spoilt' = IF t \in reported THEN spoilt \cup Range(dependents[t]) ELSE spoilt
  /\ UNCHANGED <<editVars, runVars, askVars>>

clear ==
  /\ graph # {}
  /\ graph' = {}
  /\ UNCHANGED <<taskVars, editVars, runVars, askVars, spoilt>>

-----------------------------------------------------------------------------
(* The running thread                                                      *)

get_ready_tasks ==
  /\ batch = {} /\ current = {}
  /\ batch' = {t \in graph : is_ready(t)}
  /\ batch' # {}
  /\ UNCHANGED <<taskVars, graph, editVars, current, askVars, reported, spoilt>>

Execute(t) ==
  /\ t \in batch /\ current = {}
  /\ ExecuteBegin(t)
  /\ batch' = batch \ {t}
  /\ current' = {t}
  /\ UNCHANGED <<graph, editVars, reported, askVars, spoilt>>

ExecuteReturns(t) ==
  /\ t \in current /\ status[t] = "Running"
  /\ ExecuteEnd(t, "return")
  /\ UNCHANGED <<graph, editVars, runVars, askVars, spoilt>>

\* Every dependent is counted down once per edge, and is Ready if its count
\* passes zero on the way.  A task that got a dependency when it was handed out
\* already becomes Ready again, is reported twice and spoils its dependents.
notify_task_completed(t) ==
  LET copies(u) == Copies(u, DependentsOf(t))
  IN  /\ t \in current /\ status[t] # "Running"
      /\ dependencies_count' = [u \in Tasks |-> dependencies_count[u] - copies(u)]
      /\ status' = [u \in Tasks |->
                      IF dependencies_count[u] \in 1 .. copies(u) THEN "Ready" ELSE status[u]]
      /\ current' = {}
      /\ reported' = reported \cup {t}
      /\ spoilt' = IF t \in reported THEN spoilt \cup Range(DependentsOf(t)) ELSE spoilt
      /\ UNCHANGED <<cancelled, enqueued, attempts, dependencies, dependents, graph, editVars,
                     batch, askVars>>

-----------------------------------------------------------------------------
(* topological_order() and has_cycles()                                    *)

\* Mutant: tasks are put out with their first dependency.
VisitEagerly(s, u) ==
  IF u \in Range(s.order) \cup Range(s.ready) THEN s ELSE [s EXCEPT !.ready = Append(@, u)]

\* One turn of the inner loop: a dependent loses a dependency.
Visit(s, u) ==
  LET degree == [s.degree EXCEPT ![u] = @ - 1]
  IN  [s EXCEPT !.degree = degree, !.ready = IF degree[u] = 0 THEN Append(@, u) ELSE @]

\* One turn of the outer loop: the first ready task is put out, and then its
\* dependents are visited.
PutOut(s) == [s EXCEPT !.ready = Tail(@), !.order = Append(@, Head(s.ready))]

Pop(s) ==
  LET list == dependents[Head(s.ready)]
      visited[n \in 0 .. Len(list)] ==
        IF n = 0 THEN PutOut(s) ELSE Visit(visited[n - 1], list[n])
  IN  visited[Len(list)]

Turn(s) == IF s.ready = << >> THEN s ELSE Pop(s)

\* What is counted before the loop.  The tasks without dependencies come out of a
\* hash table in any order.
Counted(sources) ==
  [ready |-> sources, order |-> << >>,
   degree |-> [t \in Tasks |-> IF t \in graph THEN Len(dependencies[t]) ELSE 0]]

\* Every turn puts out a task of the graph, so there are no more than those.
topological_order(sources) ==
  LET after[n \in 0 .. Cardinality(graph)] ==
        IF n = 0 THEN Counted(sources) ELSE Turn(after[n - 1])
  IN  after[Cardinality(graph)].order

Sources == {t \in graph : dependencies[t] = << >>}
Orders == {topological_order(sources) : sources \in SetToSeqs(Sources)}

HasCyclesBegin ==
  /\ asked = NotAsked
  /\ \E order \in Orders : asked' = Len(order)
  /\ askedOf' = [size |-> Cardinality(graph), cyclic |-> Cyclic]
  /\ UNCHANGED <<taskVars, graph, editVars, runVars, spoilt>>

has_cycles == asked # Cardinality(graph)

HasCyclesEnd ==
  /\ asked # NotAsked
  /\ asked' = NotAsked /\ askedOf' = OfNothing
  /\ UNCHANGED <<taskVars, graph, editVars, runVars, spoilt>>

TaskGraphNext ==
  \/ \E t \in Tasks : AddTask(t) \/ RemoveTask(t)
  \/ \E t, dependency \in Tasks : AddDependency(t, dependency)
  \/ clear
  \/ get_ready_tasks
  \/ \E t \in Tasks : Execute(t) \/ ExecuteReturns(t) \/ notify_task_completed(t)
  \/ HasCyclesBegin \/ HasCyclesEnd

TaskGraphSpec == TaskGraphInit /\ [][TaskGraphNext]_graphTestVars

-----------------------------------------------------------------------------
(* Properties                                                              *)

\* The two ends of every edge agree, and no task of the graph has an edge to one
\* that was removed, whose object may be gone: what remove_task is for.
EdgesMirror ==
  \A t, u \in graph :
    /\ Copies(u, dependencies[t]) = Copies(t, dependents[u])
    /\ Range(dependencies[t]) \cup Range(dependents[t]) \subseteq graph

\* get_ready_tasks hands out no task whose dependencies have not all been
\* reported, unless its count was spoilt: by removing a dependency that had been
\* reported, or by one that was reported twice.
ReadyMeansDone ==
  \A t \in graph \ spoilt : is_ready(t) => Range(dependencies[t]) \subseteq reported

\* Whatever order the tasks without dependencies come in, topological_order puts
\* every task after its dependencies, each of them once, and leaves out exactly
\* the tasks that are on a cycle or behind one.
TopologicalOrderSound ==
  \A order \in Orders :
    /\ \A i \in DOMAIN order : \A u \in Range(dependencies[order[i]]) :
         \E j \in 1 .. i - 1 : order[j] = u
    /\ IsInjective(order)
    /\ graph # Range(order) => IsCycle(graph \ Range(order))

\* has_cycles() answers for the moment it made the order, whatever was edited
\* since, unless that changed the number of tasks.
HasCyclesSound ==
  asked # NotAsked /\ Cardinality(graph) = askedOf.size => (has_cycles <=> askedOf.cyclic)

\* The order is right, and so is what has_cycles() concludes from it.
OrdersSound == TopologicalOrderSound /\ HasCyclesSound

=============================================================================
