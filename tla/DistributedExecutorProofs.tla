--------------------- MODULE DistributedExecutorProofs ---------------------
(***************************************************************************)
(* What the DistributedExecutor's safety rests on, for any callers, tasks, *)
(* nodes and bounds: who may be where with nodes_mutex_, what has become   *)
(* of a task its caller still holds, and how far the round robin is from   *)
(* each node.                                                              *)
(***************************************************************************)
EXTENDS DistributedExecutor, FiniteSetTheorems, TLAPS

\* The types, and that a registry lists no object twice.
TypeInv ==
  /\ node \in Seq(NodeInfo) /\ Len(node) <= MaxObjects
  /\ nodes \in Seq(1 .. Len(node)) /\ Len(nodes) <= Len(node)
  /\ \A i, j \in DOMAIN nodes : nodes[i] = nodes[j] => i = j
  /\ mutex \in Callers \cup {Nobody}
  /\ policy \in Policies \cup {"LocalFirst"}
  /\ transport \in BOOLEAN
  /\ cursor \in 0 .. MaxObjects - 1
  /\ pc \in [Callers -> CallSteps]
  /\ arg \in [Callers -> Tasks \cup {Nobody}]
  /\ ptr \in [Callers -> (1 .. Len(node)) \cup {Nobody}]
  /\ index \in [Callers -> 1 .. Len(nodes) + 1]
  /\ accepting \in [Executors -> BOOLEAN]
  /\ accepted \in [Tasks -> SUBSET Executors]
  /\ pending \in [Executors -> SUBSET Tasks]
  /\ \A e \in Executors : IsFiniteSet(pending[e])
  /\ crashed \in BOOLEAN
  /\ passed \in [Objects -> Int]
  /\ owed \in [Callers -> SUBSET (Executors \X Tasks)]

LoopSteps == {"broadcast_node", "broadcast_done", "wait_node", "wait_done"}
WaitSteps == {"wait_local", "wait_lock", "wait_node", "wait_done"}

\* Where a call is, and what it has with it there.
CallInv ==
  /\ \A c \in Callers :
       /\ pc[c] \in LoopSteps <=> mutex = c
       /\ pc[c] \notin LoopSteps => index[c] = 1
       /\ pc[c] = "use" => ptr[c] \in 1 .. Len(node)
       /\ arg[c] = Nobody <=> pc[c] \in {"idle"} \cup WaitSteps
  /\ \A c, d \in Callers : arg[c] = arg[d] /\ arg[c] # Nobody => c = d

\* The task of a call that has not submitted it yet is nowhere.
FreshInv ==
  \A c \in Callers :
    pc[c] \in {"select", "use", "local", "broadcast_local"} =>
      /\ accepted[arg[c]] = {}
      /\ \A e \in Executors : arg[c] \notin pending[e]

\* The nodes a broadcast has gone past have the task, or were unreachable.
BroadcastInv ==
  \A c \in Callers :
    /\ pc[c] \in {"broadcast_alone", "broadcast_lock", "broadcast_node", "broadcast_done"} =>
         Local \in accepted[arg[c]]
    /\ pc[c] = "broadcast_alone" => ~transport
    /\ pc[c] = "broadcast_node" =>
         \A i \in DOMAIN nodes :
           i < index[c] /\ node[nodes[i]].reachable => node[nodes[i]].name \in accepted[arg[c]]
    /\ pc[c] = "broadcast_done" =>
         \A i \in DOMAIN nodes :
           node[nodes[i]].reachable => node[nodes[i]].name \in accepted[arg[c]]

\* What a wait has to wait for was submitted before, is on an executor the wait
\* will look at, and has finished when it has looked.
DutyInv(c, e, t) ==
  /\ pc[c] \in WaitSteps
  /\ t \in pending[e] \/ e \in accepted[t]
  /\ \/ e = Local
     \/ \E i \in DOMAIN nodes : node[nodes[i]].name = e /\ node[nodes[i]].attached
  /\ e = Local /\ pc[c] # "wait_local" => t \notin pending[e]
  /\ pc[c] = "wait_node" =>
       \A i \in DOMAIN nodes :
         i < index[c] /\ node[nodes[i]].attached /\ node[nodes[i]].name = e => t \notin pending[e]
  /\ pc[c] = "wait_done" => t \notin pending[e]

WaitInv == \A c \in Callers : \A e \in Executors, t \in Tasks : <<e, t>> \in owed[c] => DutyInv(c, e, t)

\* The choices that went past a node and those that may still do so before its turn
\* are fewer than the nodes, once the cursor is at a node.  A removal may have left it
\* beyond the last one, or moved the nodes; until the node is passed over again it
\* has no more choices behind it than the removals have taken off.
InTurn(i) ==
  \/ passed[nodes[i]] <= 0
  \/ cursor < Len(nodes) /\ passed[nodes[i]] + Distance(i) < Len(nodes)

TurnInv ==
  /\ \A o \in Objects : o > Len(node) => passed[o] <= 0
  /\ \A i \in DOMAIN nodes : InTurn(i)

IInv == TypeInv /\ CallInv /\ FreshInv /\ BroadcastInv /\ WaitInv /\ TurnInv

-----------------------------------------------------------------------------
(* The round robin's arithmetic                                            *)

\* A number below twice n, modulo n.
LEMMA ModWrap ==
  ASSUME NEW n \in Nat \ {0}, NEW x \in 0 .. 2 * n - 1
  PROVE  x % n = IF x < n THEN x ELSE x - n
  OBVIOUS

LEMMA ModRange ==
  ASSUME NEW n \in Nat \ {0}, NEW x \in Nat
  PROVE  x % n \in 0 .. n - 1
  OBVIOUS

\* How far position i is from position k + 1, going round n positions.
LEMMA RoundValue ==
  ASSUME NEW n \in Nat \ {0}, NEW k \in 0 .. n - 1, NEW i \in 1 .. n
  PROVE  /\ (i - 1 + n - k) % n = IF k <= i - 1 THEN i - 1 - k ELSE i - 1 + n - k
         /\ (i - 1 + n - k) % n \in 0 .. n - 1
<1> DEFINE x == i - 1 + n - k
<1>1. x \in 0 .. 2 * n - 1 /\ (x < n <=> k > i - 1) /\ x - n = i - 1 - k
  OBVIOUS
<1>2. x \in 0 .. 2 * n - 1 /\ x \in Nat
  BY <1>1
<1>3. x % n \in 0 .. n - 1
  BY <1>2, ModRange
<1>4. x % n = IF x < n THEN x ELSE x - n
  <2> HIDE DEF x
  <2> QED  BY <1>2, ModWrap
<1>5. x % n = IF k <= i - 1 THEN i - 1 - k ELSE i - 1 + n - k
  <2>1. CASE k <= i - 1
    <3>1. ~(x < n)  BY <1>1, <2>1
    <3> QED  BY <1>1, <1>4, <2>1, <3>1
  <2>2. CASE ~(k <= i - 1)
    <3>1. x < n  BY <1>1, <2>2
    <3> QED  BY <1>4, <2>2, <3>1
  <2> QED  BY <2>1, <2>2
<1> QED
  BY <1>3, <1>5

\* A position that is further from k + 1 than i is that much nearer to i + 1.
LEMMA RoundStep ==
  ASSUME NEW n \in Nat \ {0}, NEW k \in 0 .. n - 1, NEW i \in 1 .. n, NEW j \in 1 .. n
  PROVE  LET m  == IF i < n THEN i ELSE 0
             di == IF k <= i - 1 THEN i - 1 - k ELSE i - 1 + n - k
             dj == IF k <= j - 1 THEN j - 1 - k ELSE j - 1 + n - k
         IN  di < dj =>
               (IF m <= j - 1 THEN j - 1 - m ELSE j - 1 + n - m) = dj - di - 1
<1>1. CASE i < n /\ k <= i - 1
  BY <1>1
<1>2. CASE i < n /\ ~(k <= i - 1)
  BY <1>2
<1>3. CASE i = n
  BY <1>3
<1> QED
  BY <1>1, <1>2, <1>3

\* How far a position is from the one the cursor is at.
LEMMA DistanceValue ==
  ASSUME nodes \in Seq(1 .. Len(node)), cursor \in Nat, NEW i \in DOMAIN nodes
  PROVE  LET n == Len(nodes)
             k == cursor % n
         IN  /\ n \in Nat \ {0} /\ i \in 1 .. n /\ k \in 0 .. n - 1
             /\ Distance(i) = IF k <= i - 1 THEN i - 1 - k ELSE i - 1 + n - k
             /\ Distance(i) \in 0 .. n - 1
<1> DEFINE n == Len(nodes)
           k == cursor % n
<1>1. n \in Nat \ {0} /\ i \in 1 .. n
  OBVIOUS
<1>2. Distance(i) = (i - 1 + n - k) % n
  BY DEF Distance
<1> HIDE DEF n
<1>3. k \in 0 .. n - 1
  BY <1>1, ModRange
<1> HIDE DEF k
<1>4. /\ Distance(i) = IF k <= i - 1 THEN i - 1 - k ELSE i - 1 + n - k
      /\ Distance(i) \in 0 .. n - 1
  BY <1>1, <1>2, <1>3, RoundValue
<1> QED
  BY <1>1, <1>3, <1>4 DEF n, k

\* When the cursor has moved past the chosen position i, every position that was
\* further away is nearer by the distance of i and one more, and i is last.
LEMMA DistanceAfterChoice ==
  ASSUME nodes \in Seq(1 .. Len(node)), cursor \in Nat, UNCHANGED nodes,
         NEW i \in DOMAIN nodes, NEW j \in DOMAIN nodes,
         cursor' = i % Len(nodes)
  PROVE  /\ Distance(j)' \in 0 .. Len(nodes) - 1
         /\ Distance(i) < Distance(j) => Distance(j)' = Distance(j) - Distance(i) - 1
         /\ Distance(i) = Distance(j) => i = j
<1> DEFINE n == Len(nodes)
           k == cursor % n
           m == i % n
<1>1. /\ n \in Nat \ {0} /\ i \in 1 .. n /\ j \in 1 .. n
      /\ k \in 0 .. n - 1
      /\ Distance(i) = IF k <= i - 1 THEN i - 1 - k ELSE i - 1 + n - k
      /\ Distance(j) = IF k <= j - 1 THEN j - 1 - k ELSE j - 1 + n - k
  BY DistanceValue
<1>2. Distance(j)' = (j - 1 + n - (m % n)) % n
  BY DEF Distance
<1>3. Len(nodes) = n
  OBVIOUS
<1> HIDE DEF n, k
<1>4. m = IF i < n THEN i ELSE 0
  <2>1. i \in 0 .. 2 * n - 1
    BY <1>1, SMTT(30)
  <2>2. i % n = IF i < n THEN i ELSE i - n
    BY <1>1, <2>1, ModWrap
  <2> QED
    BY <1>1, <2>2, SMTT(30)
<1> HIDE DEF m
<1>5. m \in 0 .. n - 1
  BY <1>1, <1>4, SMTT(30)
<1>6. m % n = m
  <2>1. m \in 0 .. 2 * n - 1 /\ m < n
    BY <1>1, <1>5
  <2> QED
    BY <1>1, <2>1, ModWrap
<1>7. /\ Distance(j)' = IF m <= j - 1 THEN j - 1 - m ELSE j - 1 + n - m
      /\ Distance(j)' \in 0 .. n - 1
  BY <1>1, <1>2, <1>5, <1>6, RoundValue, ZenonT(60)
<1>8. Distance(i) < Distance(j) => Distance(j)' = Distance(j) - Distance(i) - 1
  <2>1. /\ n \in Nat \ {0} /\ k \in 0 .. n - 1 /\ i \in 1 .. n /\ j \in 1 .. n
    BY <1>1
  <2> DEFINE di == IF k <= i - 1 THEN i - 1 - k ELSE i - 1 + n - k
             dj == IF k <= j - 1 THEN j - 1 - k ELSE j - 1 + n - k
             m0 == IF i < n THEN i ELSE 0
             after(p) == IF p <= j - 1 THEN j - 1 - p ELSE j - 1 + n - p
  <2>2. di < dj => after(m0) = dj - di - 1
    BY <2>1, RoundStep
  <2>3. Distance(i) = di /\ Distance(j) = dj /\ m = m0 /\ Distance(j)' = after(m)
    BY <1>1, <1>4, <1>7
  <2> HIDE DEF di, dj, m0, after
  <2> QED
    BY <2>2, <2>3
<1>9. Distance(i) = Distance(j) => i = j
  <2>1. i - 1 - k # j - 1 + n - k /\ j - 1 - k # i - 1 + n - k
    BY <1>1, SMTT(30)
  <2>2. i - 1 - k = j - 1 - k => i = j
    BY <1>1, SMTT(30)
  <2>3. i - 1 + n - k = j - 1 + n - k => i = j
    BY <1>1, SMTT(30)
  <2>4. CASE k <= i - 1
    BY <1>1, <2>1, <2>2, <2>4, Zenon
  <2>5. CASE ~(k <= i - 1)
    BY <1>1, <2>1, <2>3, <2>5, Zenon
  <2> QED
    BY <2>4, <2>5
<1> QED
  BY <1>3, <1>7, <1>8, <1>9

-----------------------------------------------------------------------------
(* The invariant is inductive                                              *)

LEMMA InitInv == Init => IInv
<1> SUFFICES ASSUME Init PROVE IInv
  OBVIOUS
<1> USE NobodyAssumption, BoundsAssumption DEF Init
<1>1. TypeInv
  <2>1. /\ node \in Seq(NodeInfo) /\ Len(node) = 0
        /\ nodes \in Seq(1 .. Len(node)) /\ Len(nodes) = 0
        /\ \A i, j \in DOMAIN nodes : nodes[i] = nodes[j] => i = j
    OBVIOUS
  <2>2. \A e \in Executors : IsFiniteSet(pending[e])
    BY FS_EmptySet
  <2>3. /\ pc \in [Callers -> CallSteps]
        /\ index \in [Callers -> 1 .. Len(nodes) + 1]
        /\ ptr \in [Callers -> (1 .. Len(node)) \cup {Nobody}]
    BY <2>1 DEF CallSteps
  <2>4. cursor \in 0 .. MaxObjects - 1
    OBVIOUS
  <2>5. /\ arg \in [Callers -> Tasks \cup {Nobody}]
        /\ accepting \in [Executors -> BOOLEAN]
        /\ accepted \in [Tasks -> SUBSET Executors]
        /\ pending \in [Executors -> SUBSET Tasks]
        /\ passed \in [Objects -> Int]
        /\ owed \in [Callers -> SUBSET (Executors \X Tasks)]
    OBVIOUS
  <2>6. mutex \in Callers \cup {Nobody} /\ policy \in Policies \cup {"LocalFirst"}
    OBVIOUS
  <2>7. transport \in BOOLEAN /\ crashed \in BOOLEAN
    OBVIOUS
  <2>8. Len(nodes) <= Len(node) /\ Len(node) <= MaxObjects
    BY <2>1
  <2> QED
    BY <2>1, <2>2, <2>3, <2>4, <2>5, <2>6, <2>7, <2>8 DEF TypeInv
<1>2. CallInv
  BY DEF CallInv, LoopSteps, WaitSteps, Callers
<1>3. FreshInv /\ BroadcastInv
  BY DEF FreshInv, BroadcastInv
<1>4. WaitInv
  BY DEF WaitInv
<1>5. TurnInv
  BY DEF TurnInv
<1> QED
  BY <1>1, <1>2, <1>3, <1>4, <1>5 DEF IInv

\* While nobody has the mutex, nobody is in a loop over the nodes.
LEMMA NobodyInALoop ==
  ASSUME IInv, MutexFree
  PROVE  \A c \in Callers : pc[c] \notin LoopSteps /\ index[c] = 1
  BY NobodyAssumption DEF IInv, CallInv, MutexFree, Callers

\* The turns a node waits for, and those when a node has been added: one more for
\* the nodes before the cursor.
LEMMA DistanceAfterAdding ==
  ASSUME nodes \in Seq(1 .. Len(node)), cursor \in Nat, cursor < Len(nodes), UNCHANGED cursor,
         Len(nodes') = Len(nodes) + 1, NEW i \in DOMAIN nodes
  PROVE  /\ Distance(i) \in Nat /\ Distance(i)' \in Nat
         /\ Distance(i)' <= Distance(i) + 1
<1> DEFINE n == Len(nodes)
           k == cursor
<1>1. n \in Nat \ {0} /\ i \in 1 .. n /\ k \in 0 .. n - 1 /\ Len(nodes') = n + 1
  OBVIOUS
<1>2. /\ Distance(i) = (i - 1 + n - (k % n)) % n
      /\ Distance(i)' = (i - 1 + (n + 1) - (k % (n + 1))) % (n + 1)
  BY <1>1 DEF Distance
<1> HIDE DEF n, k
<1>3. k % n = k /\ k % (n + 1) = k
  <2>1. k \in 0 .. 2 * n - 1 /\ k \in 0 .. 2 * (n + 1) - 1 /\ k < n /\ k < n + 1 /\ n + 1 \in Nat \ {0}
    BY <1>1
  <2>2. k % n = k
    BY <1>1, <2>1, ModWrap
  <2>3. k % (n + 1) = IF k < n + 1 THEN k ELSE k - (n + 1)
    BY <2>1, ModWrap
  <2> QED
    BY <2>1, <2>2, <2>3
<1>4. (i - 1 + n - k) % n = IF k <= i - 1 THEN i - 1 - k ELSE i - 1 + n - k
  BY <1>1, RoundValue
<1>5. (i - 1 + (n + 1) - k) % (n + 1) = IF k <= i - 1 THEN i - 1 - k ELSE i - 1 + (n + 1) - k
  <2> DEFINE m == n + 1
  <2>1. m \in Nat \ {0} /\ k \in 0 .. m - 1 /\ i \in 1 .. m
    BY <1>1
  <2> HIDE DEF m
  <2>2. (i - 1 + m - k) % m = IF k <= i - 1 THEN i - 1 - k ELSE i - 1 + m - k
    BY <2>1, RoundValue
  <2> QED
    BY <2>2 DEF m
<1> DEFINE d == Distance(i)
           e == Distance(i)'
<1>6. /\ d = (IF k <= i - 1 THEN i - 1 - k ELSE i - 1 + n - k)
      /\ e = (IF k <= i - 1 THEN i - 1 - k ELSE i - 1 + (n + 1) - k)
  BY <1>2, <1>3, <1>4, <1>5
<1> HIDE DEF d, e
<1>7. d \in Nat /\ e \in Nat /\ e <= d + 1
  <2>1. CASE k <= i - 1
    <3>1. d = i - 1 - k /\ e = i - 1 - k
      BY <1>6, <2>1
    <3> QED
      BY <1>1, <2>1, <3>1
  <2>2. CASE ~(k <= i - 1)
    <3>1. d = i - 1 + n - k /\ e = i - 1 + (n + 1) - k
      BY <1>6, <2>2
    <3>2. i - 1 + n - k \in Nat /\ i - 1 + (n + 1) - k = (i - 1 + n - k) + 1
      BY <1>1
    <3> QED
      BY <3>1, <3>2
  <2> QED
    BY <2>1, <2>2
<1> QED
  BY <1>7 DEF d, e

\* A node is added while nobody is in a loop over the nodes.
LEMMA NewNodeInv ==
  ASSUME IInv, MutexFree, NEW name \in Names, NEW capacity \in Nat, NEW attached \in BOOLEAN,
         NewNode(name, capacity, attached),
         UNCHANGED <<mutex, policyVars, callVars, executorVars, crashed, owed>>
  PROVE  IInv'
<1> USE DEF policyVars, callVars, executorVars
<1> DEFINE last == Len(node) + 1
           info == Fresh(name, capacity, attached)
<1>1. \A c \in Callers : pc[c] \notin LoopSteps /\ index[c] = 1
  BY NobodyInALoop
<1>2. /\ node \in Seq(NodeInfo) /\ nodes \in Seq(1 .. Len(node)) /\ Len(nodes) <= Len(node)
      /\ \A i, j \in DOMAIN nodes : nodes[i] = nodes[j] => i = j
  BY DEF IInv, TypeInv
<1>3. info \in NodeInfo
  BY DEF NodeInfo, Fresh
<1>4. /\ node' = Append(node, info) /\ nodes' = Append(nodes, last)
      /\ passed' = passed /\ Len(node) < MaxObjects
  BY DEF NewNode
<1> HIDE DEF info
<1>5. /\ node' \in Seq(NodeInfo) /\ Len(node') = last /\ Len(node') <= MaxObjects
      /\ \A o \in 1 .. Len(node) : node'[o] = node[o]
  BY <1>2, <1>3, <1>4, BoundsAssumption
<1>6. /\ nodes' \in Seq(1 .. Len(node')) /\ Len(nodes') = Len(nodes) + 1
      /\ nodes'[Len(nodes')] = last
      /\ \A i \in DOMAIN nodes : i \in DOMAIN nodes' /\ nodes'[i] = nodes[i]
      /\ \A i \in DOMAIN nodes' : i \in DOMAIN nodes \/ i = Len(nodes')
  BY <1>2, <1>4, <1>5
<1>7. TypeInv'
  <2>1. \A i, j \in DOMAIN nodes' : nodes'[i] = nodes'[j] => i = j
    <3>1. \A i \in DOMAIN nodes : nodes[i] \in 1 .. Len(node) /\ nodes[i] # last
      BY <1>2
    <3> QED
      BY <1>2, <1>6, <3>1
  <2>2. ptr' \in [Callers -> (1 .. Len(node')) \cup {Nobody}]
    BY <1>2, <1>5 DEF IInv, TypeInv
  <2>3. index' \in [Callers -> 1 .. Len(nodes') + 1]
    BY <1>2, <1>6 DEF IInv, TypeInv
  <2>4. passed' \in [Objects -> Int]
    BY <1>4 DEF IInv, TypeInv
  <2>5. Len(nodes') <= Len(node')
    BY <1>2, <1>5, <1>6
  <2> QED
    BY <1>5, <1>6, <2>1, <2>2, <2>3, <2>4, <2>5 DEF IInv, TypeInv
<1>8. CallInv'
  <2>1. \A c \in Callers : pc[c] = "use" => ptr[c] \in 1 .. Len(node')
    BY <1>2, <1>5 DEF IInv, CallInv
  <2> QED
    BY <2>1 DEF IInv, CallInv
<1>9. FreshInv'
  BY DEF IInv, FreshInv
<1>10. BroadcastInv'
  BY <1>1 DEF IInv, BroadcastInv, LoopSteps
<1>11. WaitInv'
  <2> SUFFICES ASSUME NEW c \in Callers, NEW e \in Executors, NEW t \in Tasks, <<e, t>> \in owed[c]
               PROVE  DutyInv(c, e, t)'
    BY DEF WaitInv
  <2>1. DutyInv(c, e, t)
    BY DEF IInv, WaitInv
  <2>2. ASSUME NEW i \in DOMAIN nodes, node[nodes[i]].name = e /\ node[nodes[i]].attached
        PROVE  \E k \in DOMAIN nodes' : node'[nodes'[k]].name = e /\ node'[nodes'[k]].attached
    <3>1. nodes[i] \in 1 .. Len(node)
      BY <1>2
    <3>2. i \in DOMAIN nodes' /\ nodes'[i] = nodes[i]
      BY <1>6
    <3>3. node'[nodes'[i]] = node[nodes[i]]
      BY <1>5, <3>1, <3>2
    <3> QED
      BY <2>2, <3>2, <3>3
  <2> QED
    BY <1>1, <2>1, <2>2 DEF DutyInv, LoopSteps
<1>12. TurnInv'
  <2>1. cursor \in Nat /\ cursor' = cursor /\ passed \in [Objects -> Int] /\ last \in Objects
        /\ Len(node) \in Nat
    BY <1>2, <1>4, BoundsAssumption DEF IInv, TypeInv, Objects
  <2>2. \A o \in Objects : o > Len(node') => passed'[o] <= 0
    BY <1>2, <1>4, <1>5, <2>1 DEF IInv, TurnInv, Objects
  <2>3. ASSUME NEW i \in DOMAIN nodes PROVE InTurn(i)'
    <3>1. nodes'[i] = nodes[i] /\ InTurn(i) /\ Len(nodes') = Len(nodes) + 1 /\ Len(nodes) \in Nat
      BY <1>2, <1>6 DEF IInv, TurnInv
    <3>2. nodes[i] \in Objects
      BY <1>2, BoundsAssumption DEF Objects, IInv, TypeInv
    <3>3. CASE passed[nodes[i]] <= 0
      BY <1>4, <3>1, <3>3 DEF InTurn
    <3>4. CASE cursor < Len(nodes) /\ passed[nodes[i]] + Distance(i) < Len(nodes)
      <4>1. /\ Distance(i) \in Nat /\ Distance(i)' \in Nat
            /\ Distance(i)' <= Distance(i) + 1
        BY <1>2, <2>1, <3>1, <3>4, DistanceAfterAdding
      <4>2. passed[nodes[i]] \in Int
        BY <2>1, <3>2
      <4> DEFINE d == Distance(i)
                 e == Distance(i)'
                 q == passed[nodes[i]]
                 n == Len(nodes)
      <4>3. d \in Nat /\ e \in Nat /\ e <= d + 1 /\ q \in Int /\ n \in Nat /\ q + d < n
            /\ cursor < n
        BY <3>1, <3>4, <4>1, <4>2
      <4> HIDE DEF d, e, q, n
      <4>4. q + e < n + 1 /\ cursor < n + 1
        BY <2>1, <4>3
      <4> QED
        BY <1>4, <2>1, <3>1, <4>4 DEF InTurn, d, e, q, n
    <3> QED
      BY <3>1, <3>3, <3>4 DEF InTurn
  <2>4. ASSUME NEW i \in DOMAIN nodes', i = Len(nodes') PROVE InTurn(i)'
    <3>1. passed[last] <= 0
      BY <2>1 DEF IInv, TurnInv
    <3>2. passed'[nodes'[i]] <= 0
      BY <1>4, <1>6, <2>4, <3>1
    <3> QED
      BY <3>2 DEF InTurn
  <2>5. \A i \in DOMAIN nodes' : InTurn(i)'
    BY <1>6, <2>3, <2>4
  <2> QED
    BY <2>2, <2>5 DEF TurnInv
<1> QED
  BY <1>7, <1>8, <1>9, <1>10, <1>11, <1>12 DEF IInv

\* A field of the node object o changes while nobody is in a loop over the nodes,
\* and the object keeps its name and its executor, or gets one.
LEMMA NodeChangeInv ==
  ASSUME IInv, MutexFree, NEW o \in Registered, NEW info \in NodeInfo,
         info.name = node[o].name, node[o].attached => info.attached,
         node' = [node EXCEPT ![o] = info],
         passed' = passed \/ passed' = [passed EXCEPT ![o] = 0],
         UNCHANGED <<nodes, mutex, policyVars, callVars, executorVars, crashed, owed>>
  PROVE  IInv'
<1> USE DEF policyVars, callVars, executorVars
<1>1. \A c \in Callers : pc[c] \notin LoopSteps /\ index[c] = 1
  BY NobodyInALoop
<1>2. /\ node \in Seq(NodeInfo) /\ nodes \in Seq(1 .. Len(node)) /\ o \in 1 .. Len(node)
      /\ passed \in [Objects -> Int]
  BY DEF IInv, TypeInv, Registered
<1>3. /\ node' \in Seq(NodeInfo) /\ Len(node') = Len(node)
      /\ \A p \in 1 .. Len(node) : node'[p].name = node[p].name
      /\ \A p \in 1 .. Len(node) : node[p].attached => node'[p].attached
  BY <1>2
<1>4. /\ passed' \in [Objects -> Int]
      /\ \A p \in Objects : passed'[p] = passed[p] \/ passed'[p] = 0
  BY <1>2
<1>5. TypeInv'
  BY <1>3, <1>4 DEF IInv, TypeInv
<1>6. CallInv'
  BY <1>3 DEF IInv, CallInv
<1>7. FreshInv'
  BY DEF IInv, FreshInv
<1>8. BroadcastInv'
  BY <1>1 DEF IInv, BroadcastInv, LoopSteps
<1>9. WaitInv'
  <2> SUFFICES ASSUME NEW c \in Callers, NEW e \in Executors, NEW t \in Tasks, <<e, t>> \in owed[c]
               PROVE  DutyInv(c, e, t)'
    BY DEF WaitInv
  <2>1. DutyInv(c, e, t)
    BY DEF IInv, WaitInv
  <2>2. \A i \in DOMAIN nodes : nodes[i] \in 1 .. Len(node)
    BY <1>2
  <2> QED
    BY <1>1, <1>3, <2>1, <2>2 DEF DutyInv, LoopSteps
<1>10. TurnInv'
  <2>1. ASSUME NEW p \in Objects, p > Len(node') PROVE passed'[p] <= 0
    BY <1>3, <1>4, <2>1 DEF IInv, TurnInv
  <2>2. ASSUME NEW i \in DOMAIN nodes PROVE InTurn(i)'
    <3>1. nodes[i] \in Objects
      BY <1>2, BoundsAssumption, SMTT(30) DEF Objects, IInv, TypeInv
    <3>2. InTurn(i) /\ Distance(i)' = Distance(i) /\ cursor' = cursor /\ nodes' = nodes
      BY DEF IInv, TurnInv, Distance
    <3>3. CASE passed'[nodes[i]] = 0
      BY <3>2, <3>3 DEF InTurn
    <3>4. CASE passed'[nodes[i]] = passed[nodes[i]]
      BY <3>2, <3>4, Zenon DEF InTurn
    <3> QED
      BY <1>4, <3>1, <3>3, <3>4
  <2> QED
    BY <2>1, <2>2 DEF TurnInv
<1> QED
  BY <1>5, <1>6, <1>7, <1>8, <1>9, <1>10 DEF IInv

LEMMA FoundIsRegistered ==
  ASSUME IInv, NEW name, NEW o \in Found(name)
  PROVE  o \in Registered /\ node[o] \in NodeInfo /\ o \in 1 .. Len(node)
  BY DEF Found, Registered, IInv, TypeInv

LEMMA AddInv ==
  ASSUME IInv, NEW name \in Names, add_node(name)
  PROVE  IInv'
  BY NewNodeInv, BoundsAssumption DEF add_node

LEMMA AttachInv ==
  ASSUME IInv, NEW name \in Names, attach_in_memory_executor(name)
  PROVE  IInv'
<1>1. CASE Found(name) = {}
  <2>1. PICK n \in 0 .. Cardinality(pending[name]) : NewNode(name, IF n = 0 THEN 1 ELSE n, TRUE)
    BY <1>1 DEF attach_in_memory_executor
  <2>2. Cardinality(pending[name]) \in Nat
    BY FS_CardinalityType DEF IInv, TypeInv, Executors
  <2>3. (IF n = 0 THEN 1 ELSE n) \in Nat
    BY <2>2
  <2> QED
    BY <2>1, <2>3, NewNodeInv DEF attach_in_memory_executor
<1>2. CASE Found(name) # {}
  <2>1. PICK o \in Found(name) : node' = [node EXCEPT ![o].attached = TRUE]
    BY <1>2 DEF attach_in_memory_executor
  <2> DEFINE info == [node[o] EXCEPT !.attached = TRUE]
  <2>2. o \in Registered /\ node[o] \in NodeInfo
    BY FoundIsRegistered
  <2>3. info \in NodeInfo /\ info.name = node[o].name /\ info.attached
    BY <2>2 DEF NodeInfo
  <2>4. node' = [node EXCEPT ![o] = info]
    BY <2>1
  <2> HIDE DEF info
  <2> QED
    BY <1>2, <2>2, <2>3, <2>4, NodeChangeInv DEF attach_in_memory_executor
<1> QED
  BY <1>1, <1>2

LEMMA MetricsInv ==
  ASSUME IInv, NEW name \in Names, NEW load \in 0 .. MaxLoad, update_node_metrics(name, load)
  PROVE  IInv'
<1>1. PICK o \in Found(name) :
        /\ node' = [node EXCEPT ![o].load = load]
        /\ passed' = [passed EXCEPT ![o] = IF Eligible(o)' THEN @ ELSE 0]
  BY DEF update_node_metrics
<1> DEFINE info == [node[o] EXCEPT !.load = load]
<1>2. o \in Registered /\ node[o] \in NodeInfo
  BY FoundIsRegistered
<1>3. info \in NodeInfo /\ info.name = node[o].name /\ info.attached = node[o].attached
  BY <1>2, BoundsAssumption DEF NodeInfo
<1>4. node' = [node EXCEPT ![o] = info]
  BY <1>1
<1>5. passed' = passed \/ passed' = [passed EXCEPT ![o] = 0]
  BY <1>1 DEF IInv, TypeInv
<1> HIDE DEF info
<1> QED
  BY <1>2, <1>3, <1>4, <1>5, NodeChangeInv DEF update_node_metrics

LEMMA UnreachableInv ==
  ASSUME IInv, NEW name \in Names, mark_node_unreachable(name)
  PROVE  IInv'
<1>1. PICK o \in Found(name) :
        node' = [node EXCEPT ![o].reachable = FALSE] /\ passed' = [passed EXCEPT ![o] = 0]
  BY DEF mark_node_unreachable
<1> DEFINE info == [node[o] EXCEPT !.reachable = FALSE]
<1>2. o \in Registered /\ node[o] \in NodeInfo
  BY FoundIsRegistered
<1>3. info \in NodeInfo /\ info.name = node[o].name /\ info.attached = node[o].attached
  BY <1>2 DEF NodeInfo
<1>4. node' = [node EXCEPT ![o] = info]
  BY <1>1
<1> HIDE DEF info
<1> QED
  BY <1>1, <1>2, <1>3, <1>4, NodeChangeInv DEF mark_node_unreachable

\* The settings and a stopped executor are in no part of the invariant.
LEMMA SettingsInv ==
  ASSUME IInv, UNCHANGED <<registryVars, mutex, cursor, callVars, accepted, pending, owed>>,
         policy' \in Policies \cup {"LocalFirst"}, transport' \in BOOLEAN, crashed' \in BOOLEAN,
         accepting' \in [Executors -> BOOLEAN],
         transport' = transport \/ \A c \in Callers : pc[c] = "idle"
  PROVE  IInv'
<1> USE DEF registryVars, callVars, IInv
<1>1. TypeInv'
  BY DEF TypeInv
<1>2. CallInv' /\ FreshInv' /\ BroadcastInv'
  BY DEF CallInv, FreshInv, BroadcastInv
<1>3. WaitInv'
  BY DEF WaitInv, DutyInv
<1>4. TurnInv'
  BY DEF TurnInv, InTurn, Distance
<1> QED
  BY <1>1, <1>2, <1>3, <1>4

LEMMA PolicyInv ==
  ASSUME IInv, NEW p \in Policies, set_policy(p)
  PROVE  IInv'
<1>1. IInv => /\ transport \in BOOLEAN /\ crashed \in BOOLEAN
              /\ accepting \in [Executors -> BOOLEAN]
  BY DEF IInv, TypeInv
<1> QED
  BY <1>1, SettingsInv DEF set_policy, executorVars

LEMMA TransportInv ==
  ASSUME IInv, enable_in_memory_transport
  PROVE  IInv'
<1>1. IInv => /\ policy \in Policies \cup {"LocalFirst"} /\ crashed \in BOOLEAN
              /\ accepting \in [Executors -> BOOLEAN]
  BY DEF IInv, TypeInv
<1> QED
  BY <1>1, SettingsInv DEF enable_in_memory_transport, executorVars

LEMMA StopInv ==
  ASSUME IInv, NEW e, stop(e)
  PROVE  IInv'
<1>1. /\ policy \in Policies \cup {"LocalFirst"} /\ crashed \in BOOLEAN /\ transport \in BOOLEAN
      /\ accepting \in [Executors -> BOOLEAN]
  BY DEF IInv, TypeInv
<1>2. accepting' \in [Executors -> BOOLEAN]
  BY <1>1 DEF stop
<1> QED
  BY <1>1, <1>2, SettingsInv DEF stop, policyVars

\* What std::remove_if leaves: every position kept has one position in the new order.
LEMMA KeepsAll ==
  ASSUME nodes \in Seq(1 .. Len(node)), NEW name, NEW keep \in [1 .. Cardinality(Kept(name)) -> Kept(name)],
         \A i, j \in DOMAIN keep : i < j => keep[i] < keep[j]
  PROVE  /\ Cardinality(Kept(name)) \in Nat /\ Cardinality(Kept(name)) <= Len(nodes)
         /\ \A i, j \in 1 .. Cardinality(Kept(name)) : keep[i] = keep[j] => i = j
         /\ \A k \in Kept(name) : \E i \in 1 .. Cardinality(Kept(name)) : keep[i] = k
<1> DEFINE K == Kept(name)
           m == Cardinality(K)
<1>1. K \subseteq 1 .. Len(nodes)
  BY DEF Kept
<1> HIDE DEF K
<1>2. IsFiniteSet(1 .. Len(nodes)) /\ Cardinality(1 .. Len(nodes)) = Len(nodes)
  <2> DEFINE n == Len(nodes)
  <2>1. n \in Nat
    OBVIOUS
  <2> HIDE DEF n
  <2>2. IsFiniteSet(1 .. n) /\ Cardinality(1 .. n) = IF 1 > n THEN 0 ELSE n - 1 + 1
    BY <2>1, FS_Interval
  <2>3. Cardinality(1 .. n) = n
    BY <2>1, <2>2
  <2> QED
    BY <2>2, <2>3 DEF n
<1>3. IsFiniteSet(K) /\ m <= Len(nodes) /\ m \in Nat
  <2>1. K \in SUBSET (1 .. Len(nodes))
    BY <1>1
  <2>2. IsFiniteSet(K) /\ Cardinality(K) <= Cardinality(1 .. Len(nodes))
    BY <1>2, <2>1, FS_Subset
  <2>3. Cardinality(K) \in Nat
    BY <2>2, FS_CardinalityType
  <2> QED
    BY <1>2, <2>2, <2>3
<1>4. Cardinality(1 .. m) = m
  BY <1>3, FS_Interval
<1>5. \A i, j \in 1 .. m : keep[i] = keep[j] => i = j
  <2> SUFFICES ASSUME NEW i \in 1 .. m, NEW j \in 1 .. m, keep[i] = keep[j], i # j
               PROVE  FALSE
    OBVIOUS
  <2>1. keep \in [1 .. m -> K]
    BY DEF K
  <2>2. keep[i] \in 1 .. Len(nodes) /\ keep[j] \in 1 .. Len(nodes)
    <3>1. keep[i] \in K /\ keep[j] \in K
      BY <2>1
    <3> QED
      BY <1>1, <3>1
  <2>3. keep[i] \in Int /\ keep[j] \in Int
    BY <2>2
  <2>4. i < j \/ j < i
    BY <1>3
  <2>5. i < j => keep[i] < keep[j]
    BY <2>1
  <2>6. j < i => keep[j] < keep[i]
    BY <2>1
  <2> QED
    BY <2>3, <2>4, <2>5, <2>6
<1>6. keep \in Injection(1 .. m, K)
  BY <1>5 DEF Injection, IsInjective, K
<1>7. keep \in Surjection(1 .. m, K)
  <2> HIDE DEF m
  <2> QED
    BY <1>3, <1>4, <1>6, FS_Injection DEF m
<1> QED
  BY <1>3, <1>5, <1>7 DEF K, Surjection

LEMMA RemoveInv ==
  ASSUME IInv, NEW name \in Names, remove_node(name)
  PROVE  IInv'
<1> USE DEF policyVars, callVars, executorVars
<1> DEFINE K == Kept(name)
           m == Cardinality(K)
<1>1. \A c \in Callers : pc[c] \notin LoopSteps /\ index[c] = 1
  BY NobodyInALoop DEF remove_node
<1>2. /\ node \in Seq(NodeInfo) /\ nodes \in Seq(1 .. Len(node)) /\ Len(nodes) <= Len(node)
      /\ \A i, j \in DOMAIN nodes : nodes[i] = nodes[j] => i = j
  BY DEF IInv, TypeInv
<1>3. PICK keep \in [1 .. m -> K] :
        /\ \A i, j \in DOMAIN keep : i < j => keep[i] < keep[j]
        /\ nodes' = [i \in DOMAIN keep |-> nodes[keep[i]]]
  BY DEF remove_node
<1>4. /\ m \in Nat /\ m <= Len(nodes)
      /\ \A i, j \in 1 .. m : keep[i] = keep[j] => i = j
      /\ \A k \in K : \E i \in 1 .. m : keep[i] = k
  <2>1. \A i, j \in DOMAIN keep : i < j => keep[i] < keep[j]
    BY <1>3
  <2>2. keep \in [1 .. Cardinality(Kept(name)) -> Kept(name)]
    OBVIOUS
  <2>3. /\ Cardinality(Kept(name)) \in Nat /\ Cardinality(Kept(name)) <= Len(nodes)
        /\ \A i, j \in 1 .. Cardinality(Kept(name)) : keep[i] = keep[j] => i = j
        /\ \A k \in Kept(name) : \E i \in 1 .. Cardinality(Kept(name)) : keep[i] = k
    <3>1. nodes \in Seq(1 .. Len(node))
      BY <1>2
    <3> QED
      BY ONLY <2>1, <2>2, <3>1, KeepsAll, Zenon
  <2> QED
    BY <2>3
<1>5. \A k \in K : k \in DOMAIN nodes /\ node[nodes[k]].name # name
  BY DEF Kept
<1>6. \A k \in DOMAIN nodes : node[nodes[k]].name # name => k \in K
  BY DEF Kept
<1> HIDE DEF K, m
<1>7. /\ nodes' \in Seq(1 .. Len(node)) /\ Len(nodes') = m /\ DOMAIN nodes' = 1 .. m
      /\ \A i \in 1 .. m : keep[i] \in K /\ nodes'[i] = nodes[keep[i]]
  <2>1. \A i \in 1 .. m : keep[i] \in K /\ nodes[keep[i]] \in 1 .. Len(node)
    BY <1>2, <1>5
  <2>2. nodes' = [i \in 1 .. m |-> nodes[keep[i]]]
    BY <1>3
  <2>3. nodes' \in Seq(1 .. Len(node)) /\ Len(nodes') = m /\ DOMAIN nodes' = 1 .. m
    BY <1>4, <2>1, <2>2
  <2> QED
    BY <2>1, <2>2, <2>3
<1>8. /\ node' \in Seq(NodeInfo) /\ Len(node') = Len(node)
      /\ \A o \in 1 .. Len(node) : node[o].name # name => node'[o] = node[o]
  <2>1. node' = [o \in 1 .. Len(node) |->
                   IF node[o].name = name THEN Fresh(name, 0, FALSE) ELSE node[o]]
    BY <1>2 DEF remove_node, Created
  <2>2. Fresh(name, 0, FALSE) \in NodeInfo
    BY DEF Fresh, NodeInfo
  <2>3. \A o \in 1 .. Len(node) : node[o] \in NodeInfo
    BY <1>2
  <2> HIDE DEF NodeInfo
  <2>4. \A o \in 1 .. Len(node) :
          /\ node'[o] = IF node[o].name = name THEN Fresh(name, 0, FALSE) ELSE node[o]
          /\ node'[o] \in NodeInfo
    BY <2>1, <2>2, <2>3
  <2>5. Len(node) \in Nat /\ DOMAIN node' = 1 .. Len(node)
    BY <1>2, <2>1
  <2>6. node' \in [1 .. Len(node) -> NodeInfo]
    BY <2>1, <2>2, <2>3
  <2>7. node' \in Seq(NodeInfo) /\ Len(node') = Len(node)
    BY <2>5, <2>6
  <2> QED
    BY <2>4, <2>7
<1>9. /\ passed' = [o \in Objects |-> IF o \in Registered THEN passed[o] - Len(nodes) ELSE 0]
      /\ owed' = [c \in Callers |-> {duty \in owed[c] : duty[1] # name}]
      /\ UNCHANGED <<mutex, policyVars, callVars, executorVars, crashed>>
  BY DEF remove_node
<1>10. TypeInv'
  <2>1. \A i, j \in DOMAIN nodes' : nodes'[i] = nodes'[j] => i = j
    BY <1>2, <1>4, <1>5, <1>7
  <2>2. index' \in [Callers -> 1 .. Len(nodes') + 1]
    BY <1>1, <1>4, <1>7, <1>9 DEF IInv, TypeInv
  <2>3. passed' \in [Objects -> Int]
    <3>1. \A o \in Objects : passed[o] - Len(nodes) \in Int
      BY <1>2 DEF IInv, TypeInv
    <3> QED
      BY <1>9, <3>1
  <2>4. owed' \in [Callers -> SUBSET (Executors \X Tasks)]
    BY <1>9 DEF IInv, TypeInv
  <2>5. Len(nodes') <= Len(node') /\ nodes' \in Seq(1 .. Len(node'))
    BY <1>2, <1>4, <1>7, <1>8
  <2> QED
    BY <1>8, <1>9, <2>1, <2>2, <2>3, <2>4, <2>5 DEF IInv, TypeInv
<1>11. CallInv'
  BY <1>8, <1>9 DEF IInv, CallInv
<1>12. FreshInv'
  BY <1>9 DEF IInv, FreshInv
<1>13. BroadcastInv'
  BY <1>1, <1>9 DEF IInv, BroadcastInv, LoopSteps
<1>14. WaitInv'
  <2> SUFFICES ASSUME NEW c \in Callers, NEW e \in Executors, NEW t \in Tasks, <<e, t>> \in owed'[c]
               PROVE  DutyInv(c, e, t)'
    BY DEF WaitInv
  <2>1. <<e, t>> \in owed[c] /\ e # name
    BY <1>9
  <2>2. DutyInv(c, e, t)
    BY <2>1 DEF IInv, WaitInv
  <2>3. ASSUME NEW i \in DOMAIN nodes, node[nodes[i]].name = e /\ node[nodes[i]].attached
        PROVE  \E k \in DOMAIN nodes' : node'[nodes'[k]].name = e /\ node'[nodes'[k]].attached
    <3>1. PICK k \in 1 .. m : keep[k] = i
      BY <1>4, <1>6, <2>1, <2>3
    <3>2. k \in DOMAIN nodes' /\ nodes'[k] = nodes[i]
      BY <1>7, <3>1
    <3>3. node'[nodes'[k]] = node[nodes[i]]
      <4>1. nodes[i] \in 1 .. Len(node) /\ node[nodes[i]].name # name
        BY <1>2, <2>1, <2>3
      <4> QED
        BY <1>8, <3>2, <4>1
    <3> QED
      BY <2>3, <3>2, <3>3
  <2> QED
    BY <1>1, <1>9, <2>2, <2>3 DEF DutyInv, LoopSteps
<1>15. TurnInv'
  <2>1. /\ cursor \in Nat /\ passed \in [Objects -> Int] /\ Len(nodes) \in Nat /\ Len(node) \in Nat
        /\ 1 .. Len(node) \subseteq Objects
    BY <1>2, BoundsAssumption DEF IInv, TypeInv, Objects
  <2>2. ASSUME NEW i \in DOMAIN nodes PROVE passed[nodes[i]] - Len(nodes) <= 0
    <3>1. InTurn(i) /\ nodes[i] \in Objects
      BY <1>2, <2>1 DEF IInv, TurnInv
    <3>2. Distance(i) \in Nat
      BY <1>2, <2>1, DistanceValue
    <3>3. passed[nodes[i]] \in Int
      BY <2>1, <3>1
    <3> QED
      BY <2>1, <3>1, <3>2, <3>3 DEF InTurn
  <2>3. \A o \in Objects : passed'[o] <= 0
    BY <1>9, <2>2 DEF Registered
  <2>4. \A i \in DOMAIN nodes' : nodes'[i] \in Objects
    BY <1>7, <2>1
  <2> QED
    BY <2>3, <2>4 DEF TurnInv, InTurn
<1> QED
  BY <1>10, <1>11, <1>12, <1>13, <1>14, <1>15 DEF IInv

-----------------------------------------------------------------------------
(* The steps of a call                                                     *)

LEMMA TurnKept ==
  ASSUME IInv, UNCHANGED <<registryVars, cursor>>
  PROVE  TurnInv'
  BY DEF IInv, TurnInv, InTurn, Distance, registryVars

\* What a submission changes: one task at one executor, which only gains it.
LEMMA SubmitToFacts ==
  ASSUME IInv, NEW e \in Executors, NEW t \in Tasks, SubmitTo(e, t)
  PROVE  /\ accepting' = accepting
         /\ accepted' \in [Tasks -> SUBSET Executors]
         /\ pending' \in [Executors -> SUBSET Tasks]
         /\ \A x \in Executors : IsFiniteSet(pending'[x])
         /\ \A x \in Executors : pending[x] \subseteq pending'[x] /\ pending'[x] \subseteq pending[x] \cup {t}
         /\ \A x \in Executors : x # e => pending'[x] = pending[x]
         /\ \A u \in Tasks : accepted[u] \subseteq accepted'[u] /\ (u # t => accepted'[u] = accepted[u])
         /\ accepted'[t] \subseteq accepted[t] \cup {e}
         /\ accepting[e] => e \in accepted'[t]
<1>1. /\ accepted \in [Tasks -> SUBSET Executors] /\ pending \in [Executors -> SUBSET Tasks]
      /\ \A x \in Executors : IsFiniteSet(pending[x])
  BY DEF IInv, TypeInv
<1>2. pending' = [pending EXCEPT ![e] = @ \cup {t}] /\ accepting' = accepting
  BY DEF SubmitTo
<1>3. \A x \in Executors : IsFiniteSet(pending'[x])
  <2>1. IsFiniteSet(pending[e] \cup {t})
    BY <1>1, FS_AddElement
  <2> QED
    BY <1>1, <1>2, <2>1
<1>4. CASE accepting[e]
  <2>1. accepted' = [accepted EXCEPT ![t] = @ \cup {e}]
    BY <1>4 DEF SubmitTo
  <2> QED
    BY <1>1, <1>2, <1>3, <2>1
<1>5. CASE ~accepting[e]
  <2>1. accepted' = accepted
    BY <1>5 DEF SubmitTo
  <2> QED
    BY <1>1, <1>2, <1>3, <1>5, <2>1
<1> QED
  BY <1>4, <1>5

LEMMA SubmitBeginInv ==
  ASSUME IInv, NEW c \in Submitters, NEW t \in Tasks, SubmitBegin(c, t)
  PROVE  IInv'
<1> USE DEF registryVars, policyVars, executorVars
<1>1. /\ c \in Callers /\ pc[c] = "idle" /\ arg' = [arg EXCEPT ![c] = t]
      /\ \A d \in Callers : arg[d] # t
      /\ UNCHANGED <<registryVars, mutex, policyVars, ptr, index, executorVars, crashed, owed>>
  BY DEF SubmitBegin, Callers
<1>2. PICK step \in {"select", "broadcast_local"} : pc' = [pc EXCEPT ![c] = step]
  BY DEF SubmitBegin, Goto
<1>3. TypeInv'
  BY <1>1, <1>2 DEF IInv, TypeInv, CallSteps
<1>4. /\ \A d \in Callers : pc'[d] = (IF d = c THEN step ELSE pc[d]) /\ arg'[d] = (IF d = c THEN t ELSE arg[d])
      /\ t # Nobody
  BY <1>1, <1>2, NobodyAssumption DEF IInv, TypeInv
<1>5. CallInv'
  BY <1>1, <1>4 DEF IInv, CallInv, LoopSteps, WaitSteps
<1>6. FreshInv'
  BY <1>1, <1>4 DEF IInv, FreshInv, SubmitBegin
<1>7. BroadcastInv'
  BY <1>1, <1>4 DEF IInv, BroadcastInv
<1>8. WaitInv'
  BY <1>1, <1>4 DEF IInv, WaitInv, DutyInv, WaitSteps
<1> QED
  BY <1>1, <1>3, <1>5, <1>6, <1>7, <1>8, TurnKept DEF IInv

\* A node has been selected, or none; the registry is as it was but for the turns.
LEMMA SelectedInv ==
  ASSUME IInv, NEW c \in Callers, pc[c] \in {"select", "use"},
         NEW step \in {"use", "local"}, pc' = [pc EXCEPT ![c] = step],
         NEW o \in (1 .. Len(node)) \cup {Nobody}, ptr' = [ptr EXCEPT ![c] = o],
         step = "use" => o \in 1 .. Len(node),
         UNCHANGED <<nodes, node, mutex, policy, transport, arg, index, executorVars, crashed, owed>>,
         cursor' \in 0 .. MaxObjects - 1, passed' \in [Objects -> Int], TurnInv'
  PROVE  IInv'
<1> USE DEF executorVars
<1>1. TypeInv'
  BY DEF IInv, TypeInv, CallSteps
<1>2. \A d \in Callers : pc'[d] = (IF d = c THEN step ELSE pc[d]) /\ ptr'[d] = (IF d = c THEN o ELSE ptr[d])
  BY DEF IInv, TypeInv
<1>3. CallInv'
  BY <1>2 DEF IInv, CallInv, LoopSteps, WaitSteps
<1>4. FreshInv'
  BY <1>2 DEF IInv, FreshInv
<1>5. BroadcastInv'
  BY <1>2 DEF IInv, BroadcastInv
<1>6. WaitInv'
  BY <1>2 DEF IInv, WaitInv, DutyInv, WaitSteps
<1> QED
  BY <1>1, <1>3, <1>4, <1>5, <1>6 DEF IInv

\* A duty that an unsubmitted task is not part of survives the submission.
LEMMA DutyKept ==
  ASSUME IInv, NEW c \in Callers, pc[c] \in {"use", "local", "broadcast_local"},
         NEW e \in Executors, SubmitTo(e, arg[c]) \/ UNCHANGED executorVars,
         UNCHANGED <<registryVars, owed>>,
         \A d \in Callers : d # c => pc'[d] = pc[d] /\ index'[d] = index[d]
  PROVE  WaitInv'
<1> USE DEF registryVars, executorVars
<1> SUFFICES ASSUME NEW d \in Callers, NEW x \in Executors, NEW u \in Tasks, <<x, u>> \in owed[d]
             PROVE  DutyInv(d, x, u)'
  BY DEF WaitInv
<1>1. DutyInv(d, x, u)
  BY DEF IInv, WaitInv
<1>2. d # c
  BY <1>1 DEF DutyInv, WaitSteps
<1>3. arg[c] \in Tasks /\ accepted[arg[c]] = {} /\ \A y \in Executors : arg[c] \notin pending[y]
  <2>1. pc[c] \notin {"idle"} \cup WaitSteps
    BY DEF WaitSteps
  <2>2. arg[c] # Nobody
    BY <2>1 DEF IInv, CallInv
  <2>3. arg[c] \in Tasks
    BY <2>2 DEF IInv, TypeInv
  <2>4. accepted[arg[c]] = {} /\ \A y \in Executors : arg[c] \notin pending[y]
    BY DEF IInv, FreshInv
  <2> QED
    BY <2>3, <2>4
<1>4. u # arg[c]
  BY <1>1, <1>3 DEF DutyInv
<1>5. (u \in pending'[x] <=> u \in pending[x]) /\ (x \in accepted[u] => x \in accepted'[u])
  <2>1. CASE SubmitTo(e, arg[c])
    BY <1>3, <1>4, <2>1, SubmitToFacts
  <2>2. CASE UNCHANGED executorVars
    BY <2>2
  <2> QED
    BY <2>1, <2>2
<1> QED
  BY <1>1, <1>2, <1>5 DEF DutyInv

\* A call submits its task, or does not, and returns.
LEMMA SubmitReturnInv ==
  ASSUME IInv, NEW c \in Callers, pc[c] \in {"use", "local", "broadcast_local"},
         NEW e \in Executors, SubmitTo(e, arg[c]) \/ UNCHANGED executorVars, Return(c),
         UNCHANGED <<registryVars, mutex, policyVars, crashed, owed>>
  PROVE  IInv'
<1> USE DEF registryVars, policyVars, executorVars
<1> DEFINE t == arg[c]
<1>1. t \in Tasks /\ t # Nobody
  BY NobodyAssumption DEF IInv, TypeInv, CallInv, WaitSteps
<1>2. /\ accepting' = accepting
      /\ accepted' \in [Tasks -> SUBSET Executors]
      /\ pending' \in [Executors -> SUBSET Tasks]
      /\ \A x \in Executors : IsFiniteSet(pending'[x])
      /\ \A u \in Tasks : accepted[u] \subseteq accepted'[u] /\ (u # t => accepted'[u] = accepted[u])
      /\ \A x \in Executors : pending'[x] \subseteq pending[x] \cup {t}
  <2>1. CASE SubmitTo(e, t)
    BY <1>1, <2>1, SubmitToFacts
  <2>2. CASE UNCHANGED executorVars
    BY <2>2 DEF IInv, TypeInv
  <2> QED
    BY <2>1, <2>2
<1>3. /\ pc' = [pc EXCEPT ![c] = "idle"] /\ arg' = [arg EXCEPT ![c] = Nobody]
      /\ ptr' = [ptr EXCEPT ![c] = Nobody] /\ index' = [index EXCEPT ![c] = 1]
  BY DEF Return, Goto
<1>4. TypeInv'
  BY <1>2, <1>3 DEF IInv, TypeInv, CallSteps
<1>5. \A d \in Callers :
        /\ pc'[d] = (IF d = c THEN "idle" ELSE pc[d]) /\ arg'[d] = (IF d = c THEN Nobody ELSE arg[d])
        /\ ptr'[d] = (IF d = c THEN Nobody ELSE ptr[d]) /\ index'[d] = (IF d = c THEN 1 ELSE index[d])
  BY <1>3 DEF IInv, TypeInv
<1>6. CallInv'
  BY <1>5 DEF IInv, CallInv, LoopSteps, WaitSteps
<1>7. \A d \in Callers : d # c /\ arg[d] # Nobody => arg[d] \in Tasks /\ arg[d] # t
  BY <1>1 DEF IInv, TypeInv, CallInv
<1>8. FreshInv'
  BY <1>2, <1>5, <1>7 DEF IInv, FreshInv, CallInv, WaitSteps
<1>9. BroadcastInv'
  BY <1>2, <1>5, <1>7 DEF IInv, BroadcastInv, CallInv, WaitSteps
<1>10. WaitInv'
  BY <1>5, DutyKept
<1> QED
  BY <1>4, <1>6, <1>8, <1>9, <1>10, TurnKept DEF IInv

\* A choice brings the turn of every eligible node nearer by at least one.
LEMMA ChooseTurn ==
  ASSUME IInv, NEW c \in Callers, NEW i \in NextInTurn, Choose(c, i, i % Len(nodes)), UNCHANGED <<nodes, node>>
  PROVE  /\ cursor' \in 0 .. MaxObjects - 1
         /\ passed' \in [Objects -> Int]
         /\ TurnInv'
<1>1. /\ nodes \in Seq(1 .. Len(node)) /\ Len(nodes) <= MaxObjects /\ cursor \in Nat
      /\ passed \in [Objects -> Int] /\ Len(node) <= MaxObjects /\ Len(node) \in Nat
      /\ \A j, k \in DOMAIN nodes : nodes[j] = nodes[k] => j = k
  BY BoundsAssumption DEF IInv, TypeInv
<1>2. /\ i \in DOMAIN nodes /\ Eligible(nodes[i])
      /\ \A k \in DOMAIN nodes : Eligible(nodes[k]) => Distance(i) <= Distance(k)
  BY DEF NextInTurn
<1>3. /\ cursor' = i % Len(nodes)
      /\ passed' = [o \in Objects |->
           IF o \in Registered \ {nodes[i]} /\ Eligible(o) THEN passed[o] + 1 ELSE 0]
  BY DEF Choose
<1>4. cursor' \in 0 .. MaxObjects - 1
  <2> DEFINE n == Len(nodes)
  <2>1. n \in Nat \ {0} /\ n <= MaxObjects /\ i \in Nat
    BY <1>1, <1>2
  <2> HIDE DEF n
  <2>2. i % n \in 0 .. n - 1
    BY <2>1, ModRange
  <2> QED
    BY <1>3, <2>1, <2>2, BoundsAssumption DEF n
<1>5. passed' \in [Objects -> Int]
  <2>1. \A o \in Objects : passed[o] + 1 \in Int
    BY <1>1
  <2> QED
    BY <1>3, <2>1
<1>6. ASSUME NEW j \in DOMAIN nodes
      PROVE  passed'[nodes[j]] <= 0 \/ passed'[nodes[j]] + Distance(j)' < Len(nodes)
  <2>1. /\ Distance(j)' \in 0 .. Len(nodes) - 1
        /\ Distance(i) < Distance(j) => Distance(j)' = Distance(j) - Distance(i) - 1
        /\ Distance(i) = Distance(j) => i = j
    BY <1>1, <1>2, <1>3, DistanceAfterChoice
  <2>2. Distance(i) \in Nat /\ Distance(j) \in Nat
    BY <1>1, <1>2, DistanceValue
  <2>3. nodes[j] \in Objects /\ passed[nodes[j]] \in Int
    BY <1>1, BoundsAssumption DEF Objects
  <2>4. CASE j = i \/ ~Eligible(nodes[j])
    BY <1>3, <2>3, <2>4
  <2>5. CASE j # i /\ Eligible(nodes[j])
    <3>1. passed'[nodes[j]] = passed[nodes[j]] + 1
      BY <1>1, <1>2, <1>3, <2>3, <2>5 DEF Registered
    <3>2. Distance(j)' = Distance(j) - Distance(i) - 1
      BY <1>2, <2>1, <2>2, <2>5
    <3>3. passed[nodes[j]] + Distance(j) < Len(nodes)
      <4>1. InTurn(j)
        BY DEF IInv, TurnInv
      <4>2. Distance(j) < Len(nodes)
        BY <1>1, DistanceValue
      <4> QED
        BY <1>1, <2>2, <2>3, <4>1, <4>2 DEF InTurn
    <3> QED
      BY <1>1, <2>2, <2>3, <3>1, <3>2, <3>3
  <2> QED
    BY <2>4, <2>5
<1>7. cursor' < Len(nodes)
  <2> DEFINE n == Len(nodes)
  <2>1. n \in Nat \ {0} /\ i \in Nat
    BY <1>1, <1>2
  <2> HIDE DEF n
  <2>2. i % n \in 0 .. n - 1
    BY <2>1, ModRange
  <2> QED
    BY <1>3, <2>1, <2>2 DEF n
<1>8. \A o \in Objects : o > Len(node) => passed'[o] <= 0
  <2>1. \A o \in Registered : o <= Len(node)
    BY <1>1 DEF Registered
  <2> QED
    BY <1>1, <1>3, <2>1 DEF Objects
<1> QED
  BY <1>4, <1>5, <1>6, <1>7, <1>8 DEF TurnInv, InTurn

LEMMA SelectInv ==
  ASSUME IInv, NEW c \in Callers, Select(c)
  PROVE  IInv'
<1> USE DEF IInv
<1>1. /\ pc[c] = "select"
      /\ UNCHANGED <<nodes, node, mutex, policy, transport, arg, index, executorVars, crashed, owed>>
  BY DEF Select
<1>2. CASE SelectRoundRobin(c)
  <2>1. PICK i \in NextInTurn : Choose(c, i, i % Len(nodes))
    BY <1>2 DEF SelectRoundRobin
  <2>2. nodes[i] \in 1 .. Len(node)
    BY DEF NextInTurn, TypeInv
  <2>3. pc' = [pc EXCEPT ![c] = "use"] /\ ptr' = [ptr EXCEPT ![c] = nodes[i]]
    BY <2>1 DEF Choose, Goto
  <2>4. /\ cursor' \in 0 .. MaxObjects - 1 /\ passed' \in [Objects -> Int] /\ TurnInv'
    BY <1>1, <2>1, ChooseTurn
  <2> HIDE DEF IInv
  <2> QED
    BY <1>1, <2>2, <2>3, <2>4, SelectedInv
<1>3. CASE SelectByState(c)
  <2>1. PICK o \in Registered : ptr' = [ptr EXCEPT ![c] = o]
    BY <1>3 DEF SelectByState, LeastLoaded, FirstReachable, Registered
  <2>2. o \in 1 .. Len(node)
    BY DEF Registered, TypeInv
  <2>3. pc' = [pc EXCEPT ![c] = "use"] /\ UNCHANGED <<cursor, passed>>
    BY <1>3 DEF SelectByState, Goto
  <2>4. /\ cursor' \in 0 .. MaxObjects - 1 /\ passed' \in [Objects -> Int] /\ TurnInv'
    BY <1>1, <2>3, TurnKept DEF TypeInv, registryVars
  <2> HIDE DEF IInv
  <2> QED
    BY <1>1, <2>1, <2>2, <2>3, <2>4, SelectedInv
<1>4. CASE SelectNone(c)
  <2>1. pc' = [pc EXCEPT ![c] = "local"] /\ UNCHANGED <<ptr, cursor, passed>>
    BY <1>4 DEF SelectNone, Goto
  <2>2. ptr' = [ptr EXCEPT ![c] = ptr[c]] /\ ptr[c] \in (1 .. Len(node)) \cup {Nobody}
    BY <2>1 DEF TypeInv
  <2>3. /\ cursor' \in 0 .. MaxObjects - 1 /\ passed' \in [Objects -> Int] /\ TurnInv'
    BY <1>1, <2>1, TurnKept DEF TypeInv, registryVars
  <2> HIDE DEF IInv
  <2> QED
    BY <1>1, <2>1, <2>2, <2>3, SelectedInv
<1> QED
  BY <1>2, <1>3, <1>4 DEF Select

LEMMA SubmitLocalInv ==
  ASSUME IInv, NEW c \in Callers, SubmitLocal(c)
  PROVE  IInv'
  BY SubmitReturnInv DEF SubmitLocal, Executors

\* The node a call has selected does not serve, and the local executor is next.
LEMMA GiveUpInv ==
  ASSUME IInv, NEW c \in Callers, pc[c] = "use", Goto(c, "local"),
         UNCHANGED <<registryVars, mutex, policyVars, executorVars, arg, ptr, index, owed>>,
         crashed' \in BOOLEAN
  PROVE  IInv'
<1> USE DEF registryVars, policyVars, executorVars
<1>1. pc' = [pc EXCEPT ![c] = "local"]
  BY DEF Goto
<1>2. TypeInv'
  BY <1>1 DEF IInv, TypeInv, CallSteps
<1>3. \A d \in Callers : pc'[d] = (IF d = c THEN "local" ELSE pc[d])
  BY <1>1 DEF IInv, TypeInv
<1>4. CallInv' /\ FreshInv' /\ BroadcastInv'
  BY <1>3 DEF IInv, CallInv, FreshInv, BroadcastInv, LoopSteps, WaitSteps
<1>5. WaitInv'
  BY <1>3 DEF IInv, WaitInv, DutyInv, WaitSteps
<1> QED
  BY <1>2, <1>4, <1>5, TurnKept DEF IInv

LEMMA SelectedExecutor ==
  ASSUME IInv, NEW c \in Callers, pc[c] = "use"
  PROVE  node[ptr[c]].name \in Executors
<1>1. ptr[c] \in 1 .. Len(node) /\ node \in Seq(NodeInfo)
  BY DEF IInv, TypeInv, CallInv
<1>2. node[ptr[c]] \in NodeInfo
  BY <1>1
<1> QED
  BY <1>2 DEF NodeInfo, Executors

LEMMA UseNodeInv ==
  ASSUME IInv, NEW c \in Callers, UseNode(c)
  PROVE  IInv'
<1>1. /\ pc[c] = "use" /\ crashed \in BOOLEAN
      /\ UNCHANGED <<registryVars, mutex, policyVars, crashed, owed>>
  BY DEF UseNode, IInv, TypeInv
<1>2. CASE transport /\ node[ptr[c]].reachable
  <2>1. Transmit(c, ptr[c]) /\ Return(c)
    BY <1>2 DEF UseNode
  <2>2. node[ptr[c]].name \in Executors
    BY <1>1, SelectedExecutor
  <2>3. SubmitTo(node[ptr[c]].name, arg[c]) \/ UNCHANGED executorVars
    BY <2>1 DEF Transmit
  <2> QED
    BY <1>1, <2>1, <2>2, <2>3, SubmitReturnInv
<1>3. CASE ~(transport /\ node[ptr[c]].reachable)
  BY <1>1, <1>3, GiveUpInv DEF UseNode
<1> QED
  BY <1>2, <1>3

\* Whatever is left of a destroyed node, nothing is done with it but a submission.
LEMMA UseDestroyedInv ==
  ASSUME IInv, NEW c \in Callers, UseDestroyed(c)
  PROVE  IInv'
<1>1. pc[c] = "use" /\ crashed \in BOOLEAN /\ UNCHANGED <<registryVars, mutex, policyVars, owed>>
  BY DEF UseDestroyed, IInv, TypeInv
<1>2. CASE Goto(c, "local") /\ UNCHANGED <<executorVars, arg, ptr, index, crashed>>
  BY <1>1, <1>2, GiveUpInv
<1>3. CASE /\ SubmitTo(node[ptr[c]].name, arg[c]) \/ UNCHANGED executorVars
           /\ Return(c) /\ UNCHANGED crashed
  <2>1. node[ptr[c]].name \in Executors
    BY <1>1, SelectedExecutor
  <2> QED
    BY <1>1, <1>3, <2>1, SubmitReturnInv
<1>4. CASE crashed' = TRUE /\ UNCHANGED <<executorVars, callVars>>
  <2>1. /\ policy \in Policies \cup {"LocalFirst"} /\ transport \in BOOLEAN
        /\ accepting \in [Executors -> BOOLEAN]
    BY DEF IInv, TypeInv
  <2> QED
    BY <1>1, <1>4, <2>1, SettingsInv DEF policyVars, executorVars
<1> QED
  BY <1>2, <1>3, <1>4 DEF UseDestroyed

LEMMA BroadcastLocalInv ==
  ASSUME IInv, NEW c \in Callers, BroadcastLocal(c)
  PROVE  IInv'
<1> USE DEF registryVars, policyVars
<1> DEFINE t == arg[c]
<1>1. /\ pc[c] = "broadcast_local" /\ SubmitTo(Local, t) /\ Local \in Executors
      /\ UNCHANGED <<registryVars, mutex, policyVars, crashed, owed>>
  BY DEF BroadcastLocal, Executors
<1>2. CASE ~accepting[Local]
  <2>1. Return(c)
    BY <1>2 DEF BroadcastLocal
  <2> QED
    BY <1>1, <2>1, SubmitReturnInv
<1>3. CASE accepting[Local]
  <2> DEFINE step == IF transport THEN "broadcast_lock" ELSE "broadcast_alone"
  <2>1. pc' = [pc EXCEPT ![c] = step] /\ UNCHANGED <<arg, ptr, index>>
    BY <1>3 DEF BroadcastLocal, Goto
  <2>2. t \in Tasks /\ t # Nobody
    BY <1>1, NobodyAssumption DEF IInv, TypeInv, CallInv, WaitSteps
  <2>3. /\ accepting' = accepting /\ accepted' \in [Tasks -> SUBSET Executors]
        /\ pending' \in [Executors -> SUBSET Tasks] /\ \A x \in Executors : IsFiniteSet(pending'[x])
        /\ \A u \in Tasks : accepted[u] \subseteq accepted'[u] /\ (u # t => accepted'[u] = accepted[u])
        /\ \A x \in Executors : pending'[x] \subseteq pending[x] \cup {t}
        /\ Local \in accepted'[t]
    BY <1>1, <1>3, <2>2, SubmitToFacts
  <2>4. TypeInv'
    BY <1>1, <2>1, <2>3 DEF IInv, TypeInv, CallSteps
  <2>5. \A d \in Callers : pc'[d] = (IF d = c THEN step ELSE pc[d])
    BY <2>1 DEF IInv, TypeInv
  <2>6. CallInv'
    BY <1>1, <2>1, <2>5 DEF IInv, CallInv, LoopSteps, WaitSteps
  <2>7. \A d \in Callers : d # c /\ arg[d] # Nobody => arg[d] \in Tasks /\ arg[d] # t
    BY <2>2 DEF IInv, TypeInv, CallInv
  <2>8. FreshInv'
    BY <2>1, <2>3, <2>5, <2>7 DEF IInv, FreshInv, CallInv, WaitSteps
  <2>9. BroadcastInv'
    BY <1>1, <2>1, <2>3, <2>5, <2>7 DEF IInv, BroadcastInv, CallInv, WaitSteps
  <2>10. WaitInv'
    BY <1>1, <2>1, <2>5, DutyKept
  <2> QED
    BY <1>1, <2>4, <2>6, <2>8, <2>9, <2>10, TurnKept DEF IInv
<1> QED
  BY <1>2, <1>3

LEMMA BroadcastAloneInv ==
  ASSUME IInv, NEW c \in Callers, BroadcastAlone(c)
  PROVE  IInv'
<1> USE DEF registryVars, policyVars, executorVars
<1>1. /\ pc[c] = "broadcast_alone"
      /\ UNCHANGED <<registryVars, mutex, policyVars, executorVars, crashed, owed>>
  BY DEF BroadcastAlone
<1>2. /\ pc' = [pc EXCEPT ![c] = "idle"] /\ arg' = [arg EXCEPT ![c] = Nobody]
      /\ ptr' = [ptr EXCEPT ![c] = Nobody] /\ index' = [index EXCEPT ![c] = 1]
  BY DEF BroadcastAlone, Return, Goto
<1>3. TypeInv'
  BY <1>1, <1>2 DEF IInv, TypeInv, CallSteps
<1>4. \A d \in Callers :
        /\ pc'[d] = (IF d = c THEN "idle" ELSE pc[d]) /\ arg'[d] = (IF d = c THEN Nobody ELSE arg[d])
        /\ ptr'[d] = (IF d = c THEN Nobody ELSE ptr[d]) /\ index'[d] = (IF d = c THEN 1 ELSE index[d])
  BY <1>2 DEF IInv, TypeInv
<1>5. CallInv'
  BY <1>1, <1>4 DEF IInv, CallInv, LoopSteps, WaitSteps
<1>6. FreshInv' /\ BroadcastInv'
  BY <1>1, <1>4 DEF IInv, FreshInv, BroadcastInv
<1>7. WaitInv'
  BY <1>1, <1>4 DEF IInv, WaitInv, DutyInv, WaitSteps
<1> QED
  BY <1>1, <1>3, <1>5, <1>6, <1>7, TurnKept DEF IInv

-----------------------------------------------------------------------------
(* The loops under the mutex                                               *)

\* A call moves between two of its own steps: what that needs at its new step.
LEMMA MoveInv ==
  ASSUME IInv, NEW c \in Callers, NEW step \in CallSteps, pc' = [pc EXCEPT ![c] = step],
         mutex' \in Callers \cup {Nobody},
         UNCHANGED <<registryVars, policyVars, arg, ptr, index, executorVars, crashed, owed>>,
         CallInv', FreshInv',
         step # "broadcast_alone",
         step \in {"broadcast_lock", "broadcast_node", "broadcast_done"} => Local \in accepted[arg[c]],
         step = "broadcast_node" =>
           \A i \in DOMAIN nodes :
             i < index[c] /\ node[nodes[i]].reachable => node[nodes[i]].name \in accepted[arg[c]],
         step = "broadcast_done" =>
           \A i \in DOMAIN nodes :
             node[nodes[i]].reachable => node[nodes[i]].name \in accepted[arg[c]],
         \A e \in Executors, t \in Tasks : <<e, t>> \in owed[c] => DutyInv(c, e, t)'
  PROVE  IInv'
<1> USE DEF registryVars, policyVars, executorVars
<1>1. TypeInv'
  BY DEF IInv, TypeInv
<1>2. \A d \in Callers : pc'[d] = (IF d = c THEN step ELSE pc[d])
  BY DEF IInv, TypeInv
<1>3. BroadcastInv'
  BY <1>2 DEF IInv, BroadcastInv
<1>4. WaitInv'
  <2> SUFFICES ASSUME NEW d \in Callers, NEW e \in Executors, NEW t \in Tasks, <<e, t>> \in owed[d]
               PROVE  DutyInv(d, e, t)'
    BY DEF WaitInv
  <2>1. DutyInv(d, e, t)
    BY DEF IInv, WaitInv
  <2> QED
    BY <1>2, <2>1 DEF DutyInv
<1> QED
  BY <1>1, <1>3, <1>4, TurnKept DEF IInv

LEMMA LockInv ==
  ASSUME IInv, NEW c \in Callers,
         NEW lock, NEW loop,
         \/ lock = "broadcast_lock" /\ loop = "broadcast_node"
         \/ lock = "wait_lock" /\ loop = "wait_node",
         Lock(c, lock, loop)
  PROVE  IInv'
<1> USE DEF registryVars, policyVars, executorVars
<1>1. /\ pc[c] = lock /\ MutexFree /\ mutex' = c /\ pc' = [pc EXCEPT ![c] = loop]
      /\ UNCHANGED <<registryVars, policyVars, arg, ptr, index, executorVars, crashed, owed>>
  BY DEF Lock, Goto
<1>2. \A d \in Callers : pc[d] \notin LoopSteps /\ index[d] = 1
  BY <1>1, NobodyInALoop
<1>3. \A d \in Callers : pc'[d] = (IF d = c THEN loop ELSE pc[d])
  BY <1>1 DEF IInv, TypeInv
<1>4. CallInv'
  BY <1>1, <1>2, <1>3 DEF IInv, CallInv, LoopSteps, WaitSteps
<1>5. FreshInv'
  BY <1>1, <1>3 DEF IInv, FreshInv
<1>6. loop = "broadcast_node" => Local \in accepted[arg[c]]
  BY <1>1 DEF IInv, BroadcastInv
<1>7. \A i \in DOMAIN nodes : ~(i < index[c])
  BY <1>2 DEF IInv, TypeInv
<1>8. ASSUME NEW e \in Executors, NEW t \in Tasks, <<e, t>> \in owed[c]
      PROVE  DutyInv(c, e, t)'
  <2>1. DutyInv(c, e, t)
    BY <1>8 DEF IInv, WaitInv
  <2> QED
    BY <1>1, <1>3, <1>7, <2>1 DEF DutyInv, WaitSteps
<1>9. loop \in CallSteps /\ mutex' \in Callers \cup {Nobody}
  BY <1>1 DEF CallSteps
<1>10. loop \in {"broadcast_node", "wait_node"}
  OBVIOUS
<1> QED
  BY <1>1, <1>4, <1>5, <1>6, <1>7, <1>8, <1>9, <1>10, MoveInv

LEMMA LoopEndsInv ==
  ASSUME IInv, NEW c \in Callers,
         NEW loop, NEW done,
         \/ loop = "broadcast_node" /\ done = "broadcast_done"
         \/ loop = "wait_node" /\ done = "wait_done",
         LoopEnds(c, loop, done)
  PROVE  IInv'
<1> USE DEF registryVars, policyVars, executorVars
<1>1. /\ pc[c] = loop /\ index[c] > Len(nodes) /\ pc' = [pc EXCEPT ![c] = done]
      /\ UNCHANGED <<registryVars, mutex, policyVars, arg, ptr, index, executorVars, crashed, owed>>
  BY DEF LoopEnds, Goto
<1>2. \A d \in Callers : pc'[d] = (IF d = c THEN done ELSE pc[d])
  BY <1>1 DEF IInv, TypeInv
<1>3. CallInv'
  BY <1>1, <1>2 DEF IInv, CallInv, LoopSteps, WaitSteps
<1>4. FreshInv'
  BY <1>1, <1>2 DEF IInv, FreshInv
<1>5. \A i \in DOMAIN nodes : i < index[c]
  BY <1>1 DEF IInv, TypeInv
<1>6. done = "broadcast_done" =>
        /\ Local \in accepted[arg[c]]
        /\ \A i \in DOMAIN nodes :
             node[nodes[i]].reachable => node[nodes[i]].name \in accepted[arg[c]]
  BY <1>1, <1>5 DEF IInv, BroadcastInv
<1>7. ASSUME NEW e \in Executors, NEW t \in Tasks, <<e, t>> \in owed[c]
      PROVE  DutyInv(c, e, t)'
  <2>1. DutyInv(c, e, t)
    BY <1>7 DEF IInv, WaitInv
  <2> QED
    BY <1>1, <1>2, <1>5, <2>1 DEF DutyInv, WaitSteps
<1>8. done \in CallSteps /\ mutex' \in Callers \cup {Nobody}
  BY <1>1 DEF CallSteps, IInv, TypeInv
<1>9. done \in {"broadcast_done", "wait_done"}
  OBVIOUS
<1> QED
  BY <1>1, <1>3, <1>4, <1>6, <1>7, <1>8, <1>9, MoveInv

\* The loop goes on to the next node, once what it is about is true of this one.
LEMMA NextNodeInv ==
  ASSUME IInv, NEW c \in Callers, NEW loop \in {"broadcast_node", "wait_node"}, AtNode(c, loop),
         NextNode(c),
         loop = "broadcast_node" => ~node[nodes[index[c]]].reachable,
         loop = "wait_node" => (node[nodes[index[c]]].attached => pending[node[nodes[index[c]]].name] = {})
  PROVE  IInv'
<1> USE DEF registryVars, policyVars, executorVars
<1>1. /\ pc[c] = loop /\ index[c] <= Len(nodes) /\ index' = [index EXCEPT ![c] = @ + 1]
      /\ UNCHANGED <<registryVars, mutex, policyVars, pc, arg, ptr, executorVars, crashed, owed>>
  BY DEF AtNode, NextNode
<1>2. /\ \A d \in Callers : index'[d] = (IF d = c THEN index[d] + 1 ELSE index[d])
      /\ \A d \in Callers : index[d] \in 1 .. Len(nodes) + 1
      /\ index \in [Callers -> 1 .. Len(nodes) + 1] /\ Len(nodes) \in Nat
  BY <1>1 DEF IInv, TypeInv
<1>3. index' \in [Callers -> 1 .. Len(nodes) + 1]
  <2>1. index[c] + 1 \in 1 .. Len(nodes) + 1
    BY <1>1, <1>2
  <2> QED
    BY <1>1, <1>2, <2>1
<1>4. TypeInv'
  BY <1>1, <1>3 DEF IInv, TypeInv
<1>5. CallInv'
  BY <1>1, <1>2 DEF IInv, CallInv, LoopSteps
<1>6. FreshInv'
  BY <1>1 DEF IInv, FreshInv
<1>7. \A i \in DOMAIN nodes : i < index[c] + 1 => i < index[c] \/ i = index[c]
  BY <1>2
<1>8. BroadcastInv'
  BY <1>1, <1>2, <1>7 DEF IInv, BroadcastInv
<1>9. WaitInv'
  <2> SUFFICES ASSUME NEW d \in Callers, NEW e \in Executors, NEW t \in Tasks, <<e, t>> \in owed[d]
               PROVE  DutyInv(d, e, t)'
    BY <1>1 DEF WaitInv
  <2>1. DutyInv(d, e, t)
    BY DEF IInv, WaitInv
  <2> QED
    BY <1>1, <1>2, <1>7, <2>1 DEF DutyInv
<1> QED
  BY <1>1, <1>4, <1>5, <1>6, <1>8, <1>9, TurnKept DEF IInv

LEMMA BroadcastSkipsInv ==
  ASSUME IInv, NEW c \in Callers, BroadcastSkips(c)
  PROVE  IInv'
  BY NextNodeInv DEF BroadcastSkips

LEMMA WaitNodeInv ==
  ASSUME IInv, NEW c \in Callers, WaitNode(c)
  PROVE  IInv'
  BY NextNodeInv DEF WaitNode

LEMMA WaitLocalInv ==
  ASSUME IInv, NEW c \in Callers, WaitLocal(c)
  PROVE  IInv'
<1> USE DEF registryVars, policyVars, executorVars
<1>1. /\ pc[c] = "wait_local" /\ pending[Local] = {} /\ pc' = [pc EXCEPT ![c] = "wait_lock"]
      /\ UNCHANGED <<registryVars, mutex, policyVars, arg, ptr, index, executorVars, crashed, owed>>
  BY DEF WaitLocal, Goto
<1>2. \A d \in Callers : pc'[d] = (IF d = c THEN "wait_lock" ELSE pc[d])
  BY <1>1 DEF IInv, TypeInv
<1>3. CallInv' /\ FreshInv'
  BY <1>1, <1>2 DEF IInv, CallInv, FreshInv, LoopSteps, WaitSteps
<1>4. ASSUME NEW e \in Executors, NEW t \in Tasks, <<e, t>> \in owed[c]
      PROVE  DutyInv(c, e, t)'
  <2>1. DutyInv(c, e, t)
    BY <1>4 DEF IInv, WaitInv
  <2> QED
    BY <1>1, <1>2, <2>1 DEF DutyInv, WaitSteps
<1>5. "wait_lock" \in CallSteps /\ mutex' \in Callers \cup {Nobody}
  BY <1>1 DEF CallSteps, IInv, TypeInv
<1> QED
  BY <1>1, <1>3, <1>4, <1>5, MoveInv

LEMMA WaitBeginInv ==
  ASSUME IInv, NEW c \in Waiters, WaitBegin(c)
  PROVE  IInv'
<1> USE DEF registryVars, policyVars, executorVars
<1>1. /\ c \in Callers /\ pc[c] = "idle" /\ pc' = [pc EXCEPT ![c] = "wait_local"]
      /\ owed' = [owed EXCEPT ![c] = Due]
      /\ UNCHANGED <<registryVars, mutex, policyVars, arg, ptr, index, executorVars, crashed>>
  BY DEF WaitBegin, Goto, Callers
<1>2. Due \subseteq Executors \X Tasks
  BY DEF Due
<1>3. TypeInv'
  BY <1>1, <1>2 DEF IInv, TypeInv, CallSteps
<1>4. \A d \in Callers :
        /\ pc'[d] = (IF d = c THEN "wait_local" ELSE pc[d])
        /\ owed'[d] = (IF d = c THEN Due ELSE owed[d])
  BY <1>1 DEF IInv, TypeInv
<1>5. CallInv' /\ FreshInv' /\ BroadcastInv'
  BY <1>1, <1>4 DEF IInv, CallInv, FreshInv, BroadcastInv, LoopSteps, WaitSteps
<1>6. WaitInv'
  <2> SUFFICES ASSUME NEW d \in Callers, NEW e \in Executors, NEW t \in Tasks, <<e, t>> \in owed'[d]
               PROVE  DutyInv(d, e, t)'
    BY DEF WaitInv
  <2>1. CASE d = c
    <3>1. /\ t \in pending[e]
          /\ e = Local \/ \E o \in Registered : node[o].name = e /\ node[o].attached
      <4>1. <<e, t>> \in Due
        BY <1>4, <2>1
      <4> DEFINE duty == <<e, t>>
      <4>2. /\ duty[2] \in pending[duty[1]]
            /\ duty[1] = Local \/ \E o \in Registered : node[o].name = duty[1] /\ node[o].attached
        BY <4>1 DEF Due
      <4> QED
        BY <4>2
    <3>2. e = Local \/ \E i \in DOMAIN nodes : node[nodes[i]].name = e /\ node[nodes[i]].attached
      BY <3>1 DEF Registered
    <3> QED
      BY <1>1, <1>4, <2>1, <3>1, <3>2 DEF DutyInv, WaitSteps
  <2>2. CASE d # c
    <3>1. DutyInv(d, e, t)
      BY <1>4, <2>2 DEF IInv, WaitInv
    <3> QED
      BY <1>1, <1>4, <2>2, <3>1 DEF DutyInv
  <2> QED
    BY <2>1, <2>2
<1> QED
  BY <1>1, <1>3, <1>5, <1>6, TurnKept DEF IInv

LEMMA FinishInv ==
  ASSUME IInv, NEW e \in Executors, NEW t \in Tasks, Finish(e, t)
  PROVE  IInv'
<1> USE DEF registryVars, policyVars, callVars
<1>1. /\ t \in pending[e] /\ e \in accepted[t] /\ pending' = [pending EXCEPT ![e] = @ \ {t}]
      /\ UNCHANGED <<registryVars, mutex, policyVars, callVars, accepting, accepted, crashed, owed>>
  BY DEF Finish
<1>2. /\ pending' \in [Executors -> SUBSET Tasks]
      /\ \A x \in Executors : pending'[x] = (IF x = e THEN pending[x] \ {t} ELSE pending[x])
  BY <1>1 DEF IInv, TypeInv
<1>3. \A x \in Executors : IsFiniteSet(pending'[x])
  <2>1. \A x \in Executors : IsFiniteSet(pending[x])
    BY DEF IInv, TypeInv
  <2>2. IsFiniteSet(pending[e] \ {t})
    BY <2>1, FS_RemoveElement
  <2> QED
    BY <1>2, <2>1, <2>2
<1>4. TypeInv'
  BY <1>1, <1>2, <1>3 DEF IInv, TypeInv
<1>5. CallInv' /\ FreshInv' /\ BroadcastInv'
  BY <1>1, <1>2 DEF IInv, CallInv, FreshInv, BroadcastInv
<1>6. WaitInv'
  <2> SUFFICES ASSUME NEW d \in Callers, NEW x \in Executors, NEW u \in Tasks, <<x, u>> \in owed[d]
               PROVE  DutyInv(d, x, u)'
    BY <1>1 DEF WaitInv
  <2>1. DutyInv(d, x, u)
    BY DEF IInv, WaitInv
  <2>2. /\ u \in pending'[x] \/ x \in accepted'[u]
        /\ u \in pending'[x] => u \in pending[x]
    BY <1>1, <1>2, <2>1 DEF DutyInv
  <2>3. \A y \in Executors : u \in pending'[y] => u \in pending[y]
    BY <1>2
  <2> QED
    BY <1>1, <2>1, <2>2, <2>3 DEF DutyInv
<1> QED
  BY <1>1, <1>4, <1>5, <1>6, TurnKept DEF IInv

\* A broadcast at a reachable node: its executor takes the task, or an exception
\* leaves the call, the mutex and perhaps the task.
LEMMA BroadcastNodeInv ==
  ASSUME IInv, NEW c \in Callers, BroadcastNode(c)
  PROVE  IInv'
<1> USE DEF registryVars, policyVars
<1> DEFINE o == nodes[index[c]]
           e == node[o].name
           t == arg[c]
<1>1. /\ pc[c] = "broadcast_node" /\ index[c] <= Len(nodes) /\ mutex = c
      /\ UNCHANGED <<registryVars, policyVars, crashed, owed>>
  BY DEF BroadcastNode, BroadcastTo, AtNode, IInv, CallInv, LoopSteps
<1>2. /\ index \in [Callers -> 1 .. Len(nodes) + 1] /\ Len(nodes) \in Nat
      /\ index[c] \in DOMAIN nodes /\ nodes \in Seq(1 .. Len(node)) /\ node \in Seq(NodeInfo)
  BY <1>1 DEF IInv, TypeInv
<1>3. e \in Names /\ e \in Executors /\ e # Local
  <2>1. node[o] \in NodeInfo
    BY <1>2
  <2> QED
    BY <2>1, NamesAssumption DEF NodeInfo, Executors
<1>4. t \in Tasks /\ t # Nobody
  BY <1>1, NobodyAssumption DEF IInv, TypeInv, CallInv, WaitSteps
<1>5. /\ Transmit(c, o)
      /\ IF node[o].attached /\ accepting[e]
           THEN index' = [index EXCEPT ![c] = @ + 1] /\ UNCHANGED <<pc, arg, ptr, mutex>>
           ELSE Return(c) /\ mutex' = Nobody
  BY DEF BroadcastNode, BroadcastTo
<1>6. /\ accepting' = accepting
      /\ accepted' \in [Tasks -> SUBSET Executors]
      /\ pending' \in [Executors -> SUBSET Tasks]
      /\ \A x \in Executors : IsFiniteSet(pending'[x]) /\ pending[x] \subseteq pending'[x]
      /\ \A u \in Tasks : accepted[u] \subseteq accepted'[u] /\ (u # t => accepted'[u] = accepted[u])
      /\ \A x \in Executors : pending'[x] \subseteq pending[x] \cup {t}
      /\ pending'[Local] = pending[Local]
      /\ node[o].attached /\ accepting[e] => e \in accepted'[t]
  <2>1. CASE node[o].attached
    <3>1. SubmitTo(e, t)
      BY <1>5, <2>1 DEF Transmit
    <3> HIDE DEF e, t
    <3>2. /\ accepting' = accepting
          /\ accepted' \in [Tasks -> SUBSET Executors]
          /\ pending' \in [Executors -> SUBSET Tasks]
          /\ \A x \in Executors : IsFiniteSet(pending'[x])
          /\ \A x \in Executors : pending[x] \subseteq pending'[x]
          /\ \A x \in Executors : pending'[x] \subseteq pending[x] \cup {t}
          /\ \A x \in Executors : x # e => pending'[x] = pending[x]
          /\ \A u \in Tasks : accepted[u] \subseteq accepted'[u] /\ (u # t => accepted'[u] = accepted[u])
          /\ accepting[e] => e \in accepted'[t]
      BY <1>3, <1>4, <3>1, SubmitToFacts
    <3>3. pending'[Local] = pending[Local]
      BY <1>3, <3>2 DEF Executors
    <3> QED
      BY <3>2, <3>3
  <2>2. CASE ~node[o].attached
    <3>1. UNCHANGED executorVars
      BY <1>5, <2>2 DEF Transmit
    <3> QED
      BY <2>2, <3>1 DEF IInv, TypeInv, executorVars
  <2> QED
    BY <2>1, <2>2
<1>7. \A d \in Callers : pc[d] \in LoopSteps <=> d = c
  BY <1>1 DEF IInv, CallInv
<1>8. \A d \in Callers : d # c /\ arg[d] # Nobody => arg[d] \in Tasks /\ arg[d] # t
  BY <1>4 DEF IInv, TypeInv, CallInv
<1>9. ASSUME \A d \in Callers : d # c => pc'[d] = pc[d] /\ index'[d] = index[d]
      PROVE  WaitInv'
  <2> SUFFICES ASSUME NEW d \in Callers, NEW x \in Executors, NEW u \in Tasks, <<x, u>> \in owed[d]
               PROVE  DutyInv(d, x, u)'
    BY <1>1 DEF WaitInv
  <2>1. DutyInv(d, x, u)
    BY DEF IInv, WaitInv
  <2>2. d # c /\ pc[d] \notin LoopSteps
    BY <1>1, <1>7, <2>1 DEF DutyInv, WaitSteps
  <2>3. u \in pending'[x] \/ x \in accepted'[u]
    BY <1>6, <2>1 DEF DutyInv
  <2> QED
    BY <1>1, <1>6, <1>9, <2>1, <2>2, <2>3 DEF DutyInv, LoopSteps
<1>10. CASE node[o].attached /\ accepting[e]
  <2>1. index' = [index EXCEPT ![c] = @ + 1] /\ UNCHANGED <<pc, arg, ptr, mutex>> /\ e \in accepted'[t]
    BY <1>5, <1>6, <1>10
  <2>2. /\ \A d \in Callers : index'[d] = (IF d = c THEN index[d] + 1 ELSE index[d])
        /\ index' \in [Callers -> 1 .. Len(nodes) + 1]
    <3>1. index[c] + 1 \in 1 .. Len(nodes) + 1
      BY <1>1, <1>2
    <3> QED
      BY <1>2, <2>1, <3>1
  <2>3. TypeInv'
    BY <1>1, <1>6, <2>1, <2>2 DEF IInv, TypeInv
  <2>4. CallInv'
    BY <1>1, <2>1, <2>2 DEF IInv, CallInv, LoopSteps
  <2>5. FreshInv'
    BY <1>1, <1>6, <1>8, <2>1, SMTT(30) DEF IInv, FreshInv, CallInv, WaitSteps
  <2>6. \A i \in DOMAIN nodes : i < index[c] + 1 => i < index[c] \/ i = index[c]
    BY <1>2
  <2>7. BroadcastInv'
    <3> SUFFICES ASSUME NEW d \in Callers
                 PROVE  /\ pc[d] \in {"broadcast_lock", "broadcast_node", "broadcast_done"} =>
                             Local \in accepted'[arg[d]]
                        /\ pc[d] = "broadcast_node" =>
                             \A i \in DOMAIN nodes :
                               i < index'[d] /\ node[nodes[i]].reachable =>
                                 node[nodes[i]].name \in accepted'[arg[d]]
                        /\ pc[d] # "broadcast_done"
                        /\ pc[d] = "broadcast_alone" => Local \in accepted'[arg[d]] /\ ~transport
      BY <1>1, <1>7, <2>1 DEF BroadcastInv, LoopSteps
    <3>1. CASE d = c
      BY <1>1, <1>4, <1>6, <2>1, <2>2, <2>6, <3>1 DEF IInv, BroadcastInv
    <3>2. CASE d # c
      BY <1>6, <1>7, <1>8, <3>2 DEF IInv, BroadcastInv, CallInv, LoopSteps, WaitSteps
    <3> QED
      BY <3>1, <3>2
  <2>8. WaitInv'
    BY <1>9, <2>1, <2>2
  <2> QED
    BY <1>1, <2>3, <2>4, <2>5, <2>7, <2>8, TurnKept DEF IInv
<1>11. CASE ~(node[o].attached /\ accepting[e])
  <2>1. /\ pc' = [pc EXCEPT ![c] = "idle"] /\ arg' = [arg EXCEPT ![c] = Nobody]
        /\ ptr' = [ptr EXCEPT ![c] = Nobody] /\ index' = [index EXCEPT ![c] = 1] /\ mutex' = Nobody
    BY <1>5, <1>11 DEF Return, Goto
  <2>2. TypeInv'
    BY <1>1, <1>6, <2>1, SMTT(30) DEF IInv, TypeInv, CallSteps
  <2>3. \A d \in Callers :
          /\ pc'[d] = (IF d = c THEN "idle" ELSE pc[d]) /\ arg'[d] = (IF d = c THEN Nobody ELSE arg[d])
          /\ ptr'[d] = (IF d = c THEN Nobody ELSE ptr[d]) /\ index'[d] = (IF d = c THEN 1 ELSE index[d])
    BY <2>1 DEF IInv, TypeInv
  <2>4. CallInv'
    BY <1>1, <1>7, <2>1, <2>3, NobodyAssumption DEF IInv, CallInv, LoopSteps, WaitSteps
  <2>5. FreshInv'
    BY <1>6, <1>8, <2>3, SMTT(30) DEF IInv, FreshInv, CallInv, WaitSteps
  <2>6. BroadcastInv'
    BY <1>1, <1>6, <1>8, <2>3 DEF IInv, BroadcastInv, CallInv, WaitSteps
  <2>7. WaitInv'
    BY <1>9, <2>3
  <2> QED
    BY <1>1, <2>2, <2>4, <2>5, <2>6, <2>7, TurnKept DEF IInv
<1> QED
  BY <1>10, <1>11

\* A loop is over and the mutex is released.
LEMMA UnlockInv ==
  ASSUME IInv, NEW c \in Callers, Unlock(c)
  PROVE  IInv'
<1> USE DEF registryVars, policyVars, executorVars
<1>1. /\ pc[c] \in {"broadcast_done", "wait_done"} /\ mutex' = Nobody /\ mutex = c
      /\ owed' = [owed EXCEPT ![c] = {}]
      /\ UNCHANGED <<registryVars, policyVars, executorVars, crashed>>
  BY DEF Unlock, IInv, CallInv, LoopSteps
<1>2. /\ pc' = [pc EXCEPT ![c] = "idle"] /\ arg' = [arg EXCEPT ![c] = Nobody]
      /\ ptr' = [ptr EXCEPT ![c] = Nobody] /\ index' = [index EXCEPT ![c] = 1]
  BY DEF Unlock, Return, Goto
<1>3. TypeInv'
  BY <1>1, <1>2 DEF IInv, TypeInv, CallSteps
<1>4. \A d \in Callers :
        /\ pc'[d] = (IF d = c THEN "idle" ELSE pc[d]) /\ arg'[d] = (IF d = c THEN Nobody ELSE arg[d])
        /\ ptr'[d] = (IF d = c THEN Nobody ELSE ptr[d]) /\ index'[d] = (IF d = c THEN 1 ELSE index[d])
        /\ owed'[d] = (IF d = c THEN {} ELSE owed[d])
  BY <1>1, <1>2 DEF IInv, TypeInv
<1>5. CallInv'
  BY <1>1, <1>4, NobodyAssumption DEF IInv, CallInv, LoopSteps, WaitSteps
<1>6. FreshInv' /\ BroadcastInv'
  BY <1>1, <1>4 DEF IInv, FreshInv, BroadcastInv
<1>7. WaitInv'
  BY <1>1, <1>4 DEF IInv, WaitInv, DutyInv
<1> QED
  BY <1>1, <1>3, <1>5, <1>6, <1>7, TurnKept DEF IInv

LEMMA StutterInv ==
  ASSUME IInv, UNCHANGED vars
  PROVE  IInv'
<1>1. /\ policy \in Policies \cup {"LocalFirst"} /\ crashed \in BOOLEAN /\ transport \in BOOLEAN
      /\ accepting \in [Executors -> BOOLEAN]
  BY DEF IInv, TypeInv
<1> QED
  BY <1>1, SettingsInv DEF vars, policyVars, executorVars

LEMMA StepInv == IInv /\ [Next]_vars => IInv'
<1> SUFFICES ASSUME IInv, [Next]_vars PROVE IInv'
  OBVIOUS
<1>1. CASE UNCHANGED vars
  BY <1>1, StutterInv
<1>2. CASE AdminStep
  BY <1>2, AddInv, RemoveInv, AttachInv, UnreachableInv, MetricsInv, PolicyInv, TransportInv, StopInv
     DEF AdminStep
<1>3. ASSUME NEW c \in Submitters, NEW t \in Tasks, SubmitBegin(c, t) PROVE IInv'
  BY <1>3, SubmitBeginInv
<1>4. ASSUME NEW c \in Waiters, WaitBegin(c) PROVE IInv'
  BY <1>4, WaitBeginInv
<1>5. ASSUME NEW c \in Callers, CallStep(c) PROVE IInv'
  <2>1. CASE Select(c) \/ SubmitLocal(c) \/ UseNode(c) \/ UseDestroyed(c)
    BY <2>1, SelectInv, SubmitLocalInv, UseNodeInv, UseDestroyedInv
  <2>2. CASE BroadcastLocal(c) \/ BroadcastAlone(c) \/ BroadcastSkips(c) \/ BroadcastNode(c)
    BY <2>2, BroadcastLocalInv, BroadcastAloneInv, BroadcastSkipsInv, BroadcastNodeInv
  <2>3. CASE Lock(c, "broadcast_lock", "broadcast_node") \/ Lock(c, "wait_lock", "wait_node")
    BY <2>3, LockInv
  <2>4. CASE \/ LoopEnds(c, "broadcast_node", "broadcast_done")
             \/ LoopEnds(c, "wait_node", "wait_done")
    BY <2>4, LoopEndsInv
  <2>5. CASE WaitLocal(c) \/ WaitNode(c) \/ Unlock(c)
    BY <2>5, WaitLocalInv, WaitNodeInv, UnlockInv
  <2> QED
    BY <1>5, <2>1, <2>2, <2>3, <2>4, <2>5 DEF CallStep
<1>6. ASSUME NEW e \in Executors, NEW t \in Tasks, Finish(e, t) PROVE IInv'
  BY <1>6, FinishInv
<1> QED
  BY <1>1, <1>2, <1>3, <1>4, <1>5, <1>6 DEF Next

-----------------------------------------------------------------------------
(* The theorems                                                            *)

\* The invariant holds of every behaviour of the registry, the calls and the
\* executors, whatever the bounds: mutex discipline, fresh tasks, the progress of
\* broadcasts and waits, and the round robin's turns.
THEOREM InvariantHolds == Spec => []IInv
<1> QED
  BY InitInv, StepInv, PTL DEF Spec

\* Every variable of the distributed executor keeps its type; the round-robin
\* cursor and the loop positions stay within the registry's bounds.
THEOREM TypeCorrect == Spec => []TypeOK
<1>1. IInv => TypeOK
  <2> SUFFICES ASSUME IInv PROVE TypeOK
    OBVIOUS
  <2>1. Created = 1 .. Len(node) /\ Len(node) \in Nat /\ Len(node) <= MaxObjects
    BY DEF IInv, TypeInv, Created
  <2>2. index \in [Callers -> 1 .. MaxObjects + 1]
    BY <2>1, BoundsAssumption DEF IInv, TypeInv
  <2>3. Created \subseteq Objects /\ nodes \in Seq(Created) /\ \A p \in Created : node[p] \in NodeInfo
    BY <2>1, BoundsAssumption DEF IInv, TypeInv, Objects
  <2>4. \A c \in Callers : ptr[c] \in Created \cup {Nobody}
    BY <2>1 DEF IInv, TypeInv
  <2> QED
    BY <2>2, <2>3, <2>4 DEF IInv, TypeInv, TypeOK
<1> QED
  BY <1>1, InvariantHolds, PTL

\* The round robin passes over no node that could have been chosen all along more
\* often than there are other nodes (select_node, RoundRobin), whatever else the
\* clients of the registry do, but for one round more after each remove_node.
THEOREM RoundRobinFair == Spec => []NobodyPassedOver
<1>1. IInv => NobodyPassedOver
  <2> SUFFICES ASSUME IInv, NEW i \in DOMAIN nodes PROVE passed[nodes[i]] < Len(nodes)
    BY DEF NobodyPassedOver, Registered
  <2>1. /\ nodes \in Seq(1 .. Len(node)) /\ cursor \in Nat /\ Len(node) <= MaxObjects /\ Len(node) \in Nat
        /\ passed \in [Objects -> Int]
    BY BoundsAssumption DEF IInv, TypeInv
  <2>2. Distance(i) \in Nat
    BY <2>1, DistanceValue
  <2>3. nodes[i] \in Objects
    BY <2>1, BoundsAssumption DEF Objects
  <2>4. passed[nodes[i]] \in Int /\ Len(nodes) \in Nat \ {0}
    BY <2>1, <2>3
  <2>5. InTurn(i)
    BY DEF IInv, TurnInv
  <2> QED
    BY <2>2, <2>4, <2>5 DEF InTurn
<1> QED
  BY <1>1, InvariantHolds, PTL

\* A broadcast that returns ids has reached the local executor and, when a transport
\* is set, every reachable node (broadcast), because it holds nodes_mutex_ from the
\* first node to the last.
THEOREM BroadcastComplete == Spec => []BroadcastReachesAll
<1>1. IInv => BroadcastReachesAll
  BY DEF IInv, BroadcastInv, BroadcastReachesAll, Registered
<1> QED
  BY <1>1, InvariantHolds, PTL

\* wait_for_completion returns only when every task that was unfinished when it was
\* called, on an executor not removed since, has finished.
THEOREM WaitCorrect == Spec => []WaitSound
<1>1. IInv => WaitSound
  <2> SUFFICES ASSUME IInv, NEW c \in Callers, pc[c] = "wait_done", NEW duty \in owed[c]
               PROVE  duty[2] \notin pending[duty[1]]
    BY DEF WaitSound
  <2>1. PICK e \in Executors, t \in Tasks : duty = <<e, t>>
    BY DEF IInv, TypeInv
  <2>2. DutyInv(c, e, t)
    BY <2>1 DEF IInv, WaitInv
  <2> QED
    BY <2>1, <2>2 DEF DutyInv
<1> QED
  BY <1>1, InvariantHolds, PTL

=============================================================================
