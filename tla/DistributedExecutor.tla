------------------------ MODULE DistributedExecutor ------------------------
(***************************************************************************)
(* DistributedExecutor (distributed_executor.hpp): a registry of nodes     *)
(* under nodes_mutex_, a local TaskExecutor, and a transport that submits  *)
(* to the executors attached to the nodes.  Client threads submit,         *)
(* broadcast and wait; others change the registry, the policy and the      *)
(* metrics at any time.                                                    *)
(*                                                                         *)
(* A TaskExecutor is here the set of tasks it has yet to finish; its       *)
(* submit throws once it has been stopped.  The nodes are objects: submit  *)
(* keeps a pointer to one after it has released the mutex, and the object  *)
(* may have been destroyed by then.                                        *)
(***************************************************************************)
EXTENDS Integers, Sequences, FiniteSets

CONSTANTS
  Submitters,    \* threads that submit and broadcast
  Waiters,       \* threads that call wait_for_completion
  Tasks,         \* the tasks, each submitted at most once
  Names,         \* address and port of the remote nodes
  Local,         \* the local executor
  Nobody,        \* no thread, no node
  Capacity,      \* the capacity given to add_node
  Policies,      \* the policies set_policy chooses from
  CallsBack,     \* nodes whose tasks call the distributed executor themselves
  Stoppable,     \* bound: the executors that are stopped
  MaxObjects,    \* bound: nodes created
  MaxLoad        \* bound: load reported by update_node_metrics

Callers == Submitters \cup Waiters

ASSUME NamesAssumption == Local \notin Names
ASSUME NobodyAssumption == Nobody \notin Callers \cup Tasks
ASSUME BoundsAssumption == Capacity \in Nat /\ MaxObjects \in Nat \ {0} /\ MaxLoad \in Nat
ASSUME PoliciesAssumption ==
  Policies \subseteq {"LocalFirst", "LeastLoaded", "RoundRobin", "Broadcast"}

Executors == Names \cup {Local}
Objects == 1 .. MaxObjects

VARIABLES
  nodes,       \* nodes_, in order: pointers to node objects
  node,        \* node[o]: the fields of the node objects created so far, blank once destroyed
  mutex,       \* who holds nodes_mutex_ for longer than a step
  policy,      \* policy_
  transport,   \* remote_submitter_ has been set
  cursor,      \* round_robin_cursor_
  pc,          \* what each caller does next
  arg,         \* the task it submits
  ptr,         \* the node select_node has returned to it
  index,       \* its position in a loop over nodes_
  accepting,   \* accepting[e]: the executor has not been stopped
  accepted,    \* accepted[t]: the executors that have taken t
  pending,     \* pending[e]: the tasks in e's graph that have not finished
  crashed      \* a destroyed node has been used, and the program has crashed

\* Variables that only the properties read
VARIABLES
  passed,      \* passed[o]: round-robin choices that went past o, which could have been
               \* chosen, since it last was, less one round for each remove_node since
  owed         \* owed[c]: the executors and tasks c's wait_for_completion has to wait for

registryVars == <<nodes, node, passed>>
policyVars == <<policy, transport, cursor>>
callVars == <<pc, arg, ptr, index>>
executorVars == <<accepting, accepted, pending>>
vars == <<registryVars, mutex, policyVars, callVars, executorVars, crashed, owed>>

NodeInfo == [name : Names, capacity : Nat, load : Nat, reachable : BOOLEAN, attached : BOOLEAN]

CallSteps ==
  {"idle", "select", "use", "local", "broadcast_local", "broadcast_alone", "broadcast_lock",
   "broadcast_node", "broadcast_done", "wait_local", "wait_lock", "wait_node", "wait_done"}

Registered == {nodes[i] : i \in DOMAIN nodes}
Created == DOMAIN node

TypeOK ==
  /\ nodes \in Seq(Created)
  /\ Created \subseteq Objects
  /\ \A o \in Created : node[o] \in NodeInfo
  /\ mutex \in Callers \cup {Nobody}
  /\ policy \in Policies \cup {"LocalFirst"}
  /\ transport \in BOOLEAN
  /\ cursor \in 0 .. MaxObjects - 1
  /\ pc \in [Callers -> CallSteps]
  /\ arg \in [Callers -> Tasks \cup {Nobody}]
  /\ \A c \in Callers : ptr[c] \in Created \cup {Nobody}
  /\ index \in [Callers -> 1 .. MaxObjects + 1]
  /\ accepting \in [Executors -> BOOLEAN]
  /\ accepted \in [Tasks -> SUBSET Executors]
  /\ pending \in [Executors -> SUBSET Tasks]
  /\ crashed \in BOOLEAN

Init ==
  /\ nodes = << >>
  /\ node = << >>
  /\ mutex = Nobody
  /\ policy = "LocalFirst"
  /\ transport = FALSE
  /\ cursor = 0
  /\ pc = [c \in Callers |-> "idle"]
  /\ arg = [c \in Callers |-> Nobody]
  /\ ptr = [c \in Callers |-> Nobody]
  /\ index = [c \in Callers |-> 1]
  /\ accepting = [e \in Executors |-> TRUE]
  /\ accepted = [t \in Tasks |-> {}]
  /\ pending = [e \in Executors |-> {}]
  /\ crashed = FALSE
  /\ passed = [o \in Objects |-> 0]
  /\ owed = [c \in Callers |-> {}]

MutexFree == mutex = Nobody

-----------------------------------------------------------------------------
(* The registry and the settings                                           *)

\* The first node of that name, as find_node_unlocked and the loops find it
Found(name) ==
  {nodes[i] : i \in {j \in DOMAIN nodes :
     /\ node[nodes[j]].name = name
     /\ \A k \in 1 .. j - 1 : node[nodes[k]].name # name}}

\* Eligible for the round robin and for the least loaded policy
Eligible(o) == node[o].reachable /\ node[o].load < node[o].capacity

Fresh(name, capacity, attached) ==
  [name |-> name, capacity |-> capacity, load |-> 0, reachable |-> TRUE, attached |-> attached]

NewNode(name, capacity, attached) ==
  /\ Len(node) < MaxObjects
  /\ nodes' = Append(nodes, Len(node) + 1)
  /\ node' = Append(node, Fresh(name, capacity, attached))
  /\ UNCHANGED passed

add_node(name) ==
  /\ MutexFree
  /\ NewNode(name, Capacity, FALSE)
  /\ UNCHANGED <<mutex, policyVars, callVars, executorVars, crashed, owed>>

\* The positions of nodes_ that std::remove_if keeps
Kept(name) == {i \in DOMAIN nodes : node[nodes[i]].name # name}

\* Every node of that name is destroyed, and what its fields held is forgotten; the
\* others keep their order.  The cursor stays, and the nodes move under it.
remove_node(name) ==
  /\ MutexFree
  /\ Found(name) # {}
  /\ \E keep \in [1 .. Cardinality(Kept(name)) -> Kept(name)] :
       /\ \A i, j \in DOMAIN keep : i < j => keep[i] < keep[j]
       /\ nodes' = [i \in DOMAIN keep |-> nodes[keep[i]]]
  /\ node' = [o \in Created |-> IF node[o].name = name THEN Fresh(name, 0, FALSE) ELSE node[o]]
  /\ passed' = [o \in Objects |-> IF o \in Registered THEN passed[o] - Len(nodes) ELSE 0]
  /\ owed' = [c \in Callers |-> {duty \in owed[c] : duty[1] # name}]
  /\ UNCHANGED <<mutex, policyVars, callVars, executorVars, crashed>>

\* An unknown node is added, with the number of tasks its executor has queued and
\* in flight for its capacity, but at least one; a task that is just being handed to
\* a worker is counted in neither.
attach_in_memory_executor(name) ==
  /\ MutexFree
  /\ IF Found(name) = {}
       THEN \E n \in 0 .. Cardinality(pending[name]) :
              NewNode(name, IF n = 0 THEN 1 ELSE n, TRUE)
       ELSE /\ \E o \in Found(name) : node' = [node EXCEPT ![o].attached = TRUE]
            /\ UNCHANGED <<nodes, passed>>
  /\ UNCHANGED <<mutex, policyVars, callVars, executorVars, crashed, owed>>

update_node_metrics(name, inflight) ==
  /\ MutexFree
  /\ \E o \in Found(name) :
       /\ node' = [node EXCEPT ![o].load = inflight]
       /\ passed' = [passed EXCEPT ![o] = IF Eligible(o)' THEN @ ELSE 0]
  /\ UNCHANGED <<nodes, mutex, policyVars, callVars, executorVars, crashed, owed>>

\* Nothing makes the node reachable again.
mark_node_unreachable(name) ==
  /\ MutexFree
  /\ \E o \in Found(name) :
       /\ node' = [node EXCEPT ![o].reachable = FALSE]
       /\ passed' = [passed EXCEPT ![o] = 0]
  /\ UNCHANGED <<nodes, mutex, policyVars, callVars, executorVars, crashed, owed>>

set_policy(p) ==
  /\ policy' = p
  /\ UNCHANGED <<registryVars, mutex, transport, cursor, callVars, executorVars, crashed, owed>>

\* remote_submitter_ is not synchronised: it is set while no call is under way.
enable_in_memory_transport ==
  /\ ~transport
  /\ \A c \in Callers : pc[c] = "idle"
  /\ transport' = TRUE
  /\ UNCHANGED <<registryVars, mutex, policy, cursor, callVars, executorVars, crashed, owed>>

-----------------------------------------------------------------------------
(* submit                                                                  *)

Goto(c, step) == pc' = [pc EXCEPT ![c] = step]

\* The call returns, or an exception leaves it; its local variables are gone.
Return(c) ==
  /\ Goto(c, "idle")
  /\ arg' = [arg EXCEPT ![c] = Nobody]
  /\ ptr' = [ptr EXCEPT ![c] = Nobody]
  /\ index' = [index EXCEPT ![c] = 1]

\* TaskExecutor::submit throws when the executor has been stopped, but by then the
\* task is in its graph, where it never finishes.
SubmitTo(e, t) ==
  /\ pending' = [pending EXCEPT ![e] = @ \cup {t}]
  /\ accepted' = IF accepting[e] THEN [accepted EXCEPT ![t] = @ \cup {e}] ELSE accepted
  /\ UNCHANGED accepting

\* submit under another policy than Broadcast, or broadcast
SubmitBegin(c, t) ==
  /\ pc[c] = "idle"
  /\ accepted[t] = {}
  /\ \A e \in Executors : t \notin pending[e]
  /\ \A d \in Callers : arg[d] # t
  /\ arg' = [arg EXCEPT ![c] = t]
  /\ \/ policy # "Broadcast" /\ Goto(c, "select")
     \/ Goto(c, "broadcast_local")
  /\ UNCHANGED <<registryVars, mutex, policyVars, ptr, index, executorVars, crashed, owed>>

FirstReachable ==
  {nodes[i] : i \in {j \in DOMAIN nodes :
     /\ node[nodes[j]].reachable
     /\ \A k \in 1 .. j - 1 : ~node[nodes[k]].reachable}}

\* The first of the eligible nodes with the smallest load
LeastLoaded ==
  {nodes[i] : i \in {j \in DOMAIN nodes :
     /\ Eligible(nodes[j])
     /\ \A k \in DOMAIN nodes :
          Eligible(nodes[k]) => \/ node[nodes[j]].load < node[nodes[k]].load
                                \/ node[nodes[j]].load = node[nodes[k]].load /\ j <= k}}

\* How far after the cursor the position i is, going round
Distance(i) == (i - 1 + Len(nodes) - (cursor % Len(nodes))) % Len(nodes)

\* The position of the first eligible node from the cursor on
NextInTurn ==
  {i \in DOMAIN nodes :
     /\ Eligible(nodes[i])
     /\ \A k \in DOMAIN nodes : Eligible(nodes[k]) => Distance(i) <= Distance(k)}

\* The node at position i is chosen, and the cursor moves to next.
Choose(c, i, next) ==
  /\ ptr' = [ptr EXCEPT ![c] = nodes[i]]
  /\ cursor' = next
  /\ passed' = [o \in Objects |->
       IF o \in Registered \ {nodes[i]} /\ Eligible(o) THEN passed[o] + 1 ELSE 0]
  /\ Goto(c, "use")

\* Mutant: the cursor stays on the node that is chosen.
SelectRoundRobinAgain(c) ==
  policy = "RoundRobin" /\ \E i \in NextInTurn : Choose(c, i, i - 1)

SelectRoundRobin(c) ==
  policy = "RoundRobin" /\ \E i \in NextInTurn : Choose(c, i, i % Len(nodes))

SelectByState(c) ==
  /\ \E o \in IF policy = "LeastLoaded" THEN LeastLoaded
               ELSE IF policy = "LocalFirst" THEN FirstReachable ELSE {} :
       ptr' = [ptr EXCEPT ![c] = o]
  /\ Goto(c, "use")
  /\ UNCHANGED <<cursor, passed>>

\* No node qualifies; policy_ is read again, and may have become Broadcast.
SelectNone(c) ==
  /\ CASE policy = "LeastLoaded" -> LeastLoaded = {}
       [] policy = "RoundRobin"  -> NextInTurn = {}
       [] policy = "LocalFirst"  -> FirstReachable = {}
       [] OTHER                  -> TRUE
  /\ Goto(c, "local")
  /\ UNCHANGED <<ptr, cursor, passed>>

\* select_node
Select(c) ==
  /\ pc[c] = "select"
  /\ MutexFree
  /\ SelectRoundRobin(c) \/ SelectByState(c) \/ SelectNone(c)
  /\ UNCHANGED <<nodes, node, mutex, policy, transport, arg, index, executorVars, crashed, owed>>

\* local_executor_->submit
SubmitLocal(c) ==
  /\ pc[c] = "local"
  /\ SubmitTo(Local, arg[c])
  /\ Return(c)
  /\ UNCHANGED <<registryVars, mutex, policyVars, crashed, owed>>

\* The transport: it throws when no executor is attached to the node.
Transmit(c, o) ==
  IF node[o].attached THEN SubmitTo(node[o].name, arg[c]) ELSE UNCHANGED executorVars

UseNode(c) ==
  /\ pc[c] = "use"
  /\ ptr[c] \in Registered
  /\ IF transport /\ node[ptr[c]].reachable
       THEN Transmit(c, ptr[c]) /\ Return(c)
       ELSE Goto(c, "local") /\ UNCHANGED <<executorVars, arg, ptr, index>>
  /\ UNCHANGED <<registryVars, mutex, policyVars, crashed, owed>>

\* The node has been destroyed since it was selected.  Whatever is left of it is
\* read: it looks unreachable, or its executor is found there or not, or the
\* program crashes.
UseDestroyed(c) ==
  /\ pc[c] = "use"
  /\ ptr[c] \notin Registered
  /\ \/ Goto(c, "local") /\ UNCHANGED <<executorVars, arg, ptr, index, crashed>>
     \/ /\ transport
        /\ \/ SubmitTo(node[ptr[c]].name, arg[c]) /\ Return(c) /\ UNCHANGED crashed
           \/ Return(c) /\ UNCHANGED <<executorVars, crashed>>
           \/ crashed' = TRUE /\ UNCHANGED <<executorVars, callVars>>
  /\ UNCHANGED <<registryVars, mutex, policyVars, owed>>

-----------------------------------------------------------------------------
(* broadcast                                                               *)

\* Without a transport the nodes are left out.
BroadcastLocal(c) ==
  /\ pc[c] = "broadcast_local"
  /\ SubmitTo(Local, arg[c])
  /\ IF accepting[Local]
       THEN /\ Goto(c, IF transport THEN "broadcast_lock" ELSE "broadcast_alone")
            /\ UNCHANGED <<arg, ptr, index>>
       ELSE Return(c)
  /\ UNCHANGED <<registryVars, mutex, policyVars, crashed, owed>>

\* broadcast returns one id.
BroadcastAlone(c) ==
  /\ pc[c] = "broadcast_alone"
  /\ Return(c)
  /\ UNCHANGED <<registryVars, mutex, policyVars, executorVars, crashed, owed>>

\* nodes_mutex_ is taken for a loop over the nodes.
Lock(c, lock, loop) ==
  /\ pc[c] = lock
  /\ MutexFree
  /\ mutex' = c
  /\ Goto(c, loop)
  /\ UNCHANGED <<registryVars, policyVars, arg, ptr, index, executorVars, crashed, owed>>

\* The loop is over.
LoopEnds(c, loop, done) ==
  /\ pc[c] = loop
  /\ index[c] > Len(nodes)
  /\ Goto(c, done)
  /\ UNCHANGED <<registryVars, mutex, policyVars, arg, ptr, index, executorVars, crashed, owed>>

\* It is at a node.
AtNode(c, loop) == pc[c] = loop /\ index[c] <= Len(nodes)

\* It goes on to the next node.
NextNode(c) ==
  /\ index' = [index EXCEPT ![c] = @ + 1]
  /\ UNCHANGED <<registryVars, mutex, policyVars, pc, arg, ptr, executorVars, crashed, owed>>

\* Mutant: the loop is left at the first unreachable node.
BroadcastSkipsRest(c) ==
  /\ AtNode(c, "broadcast_node") /\ ~node[nodes[index[c]]].reachable
  /\ Goto(c, "broadcast_done")
  /\ UNCHANGED <<registryVars, mutex, policyVars, arg, ptr, index, executorVars, crashed, owed>>

BroadcastSkips(c) ==
  AtNode(c, "broadcast_node") /\ ~node[nodes[index[c]]].reachable /\ NextNode(c)

\* When the submission throws, the nodes before this one have the task and the
\* others do not get it; holder is who has the mutex when the exception has left.
BroadcastTo(c, o, holder) ==
  /\ node[o].reachable
  /\ Transmit(c, o)
  /\ IF node[o].attached /\ accepting[node[o].name]
       THEN index' = [index EXCEPT ![c] = @ + 1] /\ UNCHANGED <<pc, arg, ptr, mutex>>
       ELSE Return(c) /\ mutex' = holder
  /\ UNCHANGED <<registryVars, policyVars, crashed, owed>>

\* Mutant: the exception does not release the mutex.
BroadcastNodeKeepingMutex(c) == AtNode(c, "broadcast_node") /\ BroadcastTo(c, nodes[index[c]], c)

BroadcastNode(c) == AtNode(c, "broadcast_node") /\ BroadcastTo(c, nodes[index[c]], Nobody)

\* The end of broadcast or of wait_for_completion: the mutex is released.
Unlock(c) ==
  /\ pc[c] \in {"broadcast_done", "wait_done"}
  /\ mutex' = Nobody
  /\ Return(c)
  /\ owed' = [owed EXCEPT ![c] = {}]
  /\ UNCHANGED <<registryVars, policyVars, executorVars, crashed>>

-----------------------------------------------------------------------------
(* wait_for_completion                                                     *)

\* What a wait that begins now has to wait for
Due ==
  {duty \in Executors \X Tasks :
     /\ duty[2] \in pending[duty[1]]
     /\ \/ duty[1] = Local
        \/ \E o \in Registered : node[o].name = duty[1] /\ node[o].attached}

WaitBegin(c) ==
  /\ pc[c] = "idle"
  /\ Goto(c, "wait_local")
  /\ owed' = [owed EXCEPT ![c] = Due]
  /\ UNCHANGED <<registryVars, mutex, policyVars, arg, ptr, index, executorVars, crashed>>

\* The wait for the local executor, without the mutex
WaitLocal(c) ==
  /\ pc[c] = "wait_local"
  /\ pending[Local] = {}
  /\ Goto(c, "wait_lock")
  /\ UNCHANGED <<registryVars, mutex, policyVars, arg, ptr, index, executorVars, crashed, owed>>

\* Mutant: unreachable nodes are not waited for.
WaitNodeReachable(c) ==
  /\ AtNode(c, "wait_node")
  /\ LET info == node[nodes[index[c]]]
     IN  info.attached /\ info.reachable => pending[info.name] = {}
  /\ NextNode(c)

\* The wait for a node's executor, with the mutex
WaitNode(c) ==
  /\ AtNode(c, "wait_node")
  /\ LET info == node[nodes[index[c]]] IN info.attached => pending[info.name] = {}
  /\ NextNode(c)

-----------------------------------------------------------------------------
(* The executors                                                           *)

\* A task that calls the distributed executor needs nodes_mutex_ to finish.
Finish(e, t) ==
  /\ t \in pending[e]
  /\ e \in accepted[t]
  /\ e \in CallsBack => MutexFree
  /\ pending' = [pending EXCEPT ![e] = @ \ {t}]
  /\ UNCHANGED <<registryVars, mutex, policyVars, callVars, accepting, accepted, crashed, owed>>

\* stop for the local executor, its owner for that of a node; a task that has been
\* started by then still finishes.
stop(e) ==
  /\ accepting[e]
  /\ accepting' = [accepting EXCEPT ![e] = FALSE]
  /\ UNCHANGED <<registryVars, mutex, policyVars, callVars, accepted, pending, crashed, owed>>

-----------------------------------------------------------------------------
AdminStep ==
  \/ \E name \in Names :
       \/ add_node(name) \/ remove_node(name) \/ attach_in_memory_executor(name)
       \/ mark_node_unreachable(name)
       \/ \E load \in 0 .. MaxLoad : update_node_metrics(name, load)
  \/ \E p \in Policies : set_policy(p)
  \/ enable_in_memory_transport
  \/ \E e \in Stoppable : stop(e)

\* The steps of a call after its first
CallStep(c) ==
  \/ Select(c) \/ SubmitLocal(c) \/ UseNode(c) \/ UseDestroyed(c)
  \/ BroadcastLocal(c) \/ BroadcastAlone(c) \/ BroadcastSkips(c) \/ BroadcastNode(c)
  \/ Lock(c, "broadcast_lock", "broadcast_node") \/ LoopEnds(c, "broadcast_node", "broadcast_done")
  \/ WaitLocal(c) \/ WaitNode(c)
  \/ Lock(c, "wait_lock", "wait_node") \/ LoopEnds(c, "wait_node", "wait_done")
  \/ Unlock(c)

Next ==
  /\ ~crashed
  /\ \/ AdminStep
     \/ \E c \in Submitters, t \in Tasks : SubmitBegin(c, t)
     \/ \E c \in Waiters : WaitBegin(c)
     \/ \E c \in Callers : CallStep(c)
     \/ \E e \in Executors, t \in Tasks : Finish(e, t)

Spec == Init /\ [][Next]_vars

\* Calls go on, and executors that have not been stopped finish their tasks: there
\* are finitely many, and each is finished once.  Nobody has to change the registry, to submit or to wait.
Fairness ==
  /\ \A c \in Callers : WF_vars(~crashed /\ CallStep(c))
  /\ WF_vars(~crashed /\ \E e \in Executors, t \in Tasks : accepting[e] /\ Finish(e, t))

FairSpec == Spec /\ Fairness

-----------------------------------------------------------------------------
(* Properties                                                              *)

\* The round robin is fair: however nodes are added, fill up, drain, become
\* unreachable and the policy changes, between two choices of a node that could have
\* been chosen all along there is at most one choice for each of the others.  Only a
\* removal, which leaves the cursor where it is and moves the nodes, may cost a node
\* further choices, and no more than one round.
NobodyPassedOver == \A o \in Registered : passed[o] < Len(nodes)

\* A broadcast that returns ids has given the task to the local executor and, when a
\* transport is set, to every node that is reachable at that moment, whoever changes
\* the registry, stops executors or broadcasts meanwhile.  Without a transport it
\* returns the local id alone and says nothing of the nodes.
BroadcastReachesAll ==
  \A c \in Callers : pc[c] \in {"broadcast_alone", "broadcast_done"} =>
    /\ Local \in accepted[arg[c]]
    /\ transport =>
         \A o \in Registered : node[o].reachable => node[o].name \in accepted[arg[c]]

\* When wait_for_completion is about to return, every task that was unfinished when
\* it was called, on the local executor or on a node that has not been removed since,
\* has finished, though the call looks at one executor after the other.
WaitSound ==
  \A c \in Callers : pc[c] = "wait_done" =>
    \A duty \in owed[c] : duty[2] \notin pending[duty[1]]

\* A node's executor whose unfinished task needs what its waiter has: the mutex, or
\* workers that have been stopped
Stuck ==
  \E o \in Registered :
    /\ node[o].attached
    /\ pending[node[o].name] # {}
    /\ node[o].name \in CallsBack \/ ~accepting[node[o].name]

\* nodes_mutex_ is given back by every loop over the nodes, broadcast's and the one
\* that waits for the nodes' executors, unless such an executor has been stopped with
\* a task unfinished, or a task there itself calls the distributed executor: then the
\* two wait for each other, and every other caller for them.
MutexReleasedUnlessStuck == ~MutexFree ~> (MutexFree \/ Stuck \/ crashed)

=============================================================================
