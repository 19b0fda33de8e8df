-------------------------- MODULE ComponentsProofs --------------------------
(***************************************************************************)
(* What is proved about two components by themselves.                      *)
(*                                                                         *)
(* TaskGraph: that the two ends of every edge agree, that no task is       *)
(* handed out too early, and that the topological order and what           *)
(* has_cycles() makes of it are right, for any tasks and any number of     *)
(* edges.                                                                  *)
(*                                                                         *)
(* MonitorThreads: why the monitor needs no lock, for any number of        *)
(* recording threads, any times and any width of the counters.  The loops  *)
(* lose no value, and each record has one access at which it takes place.  *)
(***************************************************************************)
EXTENDS TaskGraph, MonitorThreads, FiniteSetTheorems, TLAPS

-----------------------------------------------------------------------------
(* Sequences of tasks                                                      *)

\* How many places of a sequence hold a task of S
Places(s, S) == {i \in DOMAIN s : s[i] \in S}
HowMany(s, S) == Cardinality(Places(s, S))

LEMMA PlacesFinite ==
  ASSUME NEW s \in Seq(Tasks), NEW S
  PROVE  /\ IsFiniteSet(DOMAIN s) /\ IsFiniteSet(Places(s, S)) /\ HowMany(s, S) \in Nat
         /\ HowMany(s, S) = 0 <=> Range(s) \cap S = {}
<1>1. IsFiniteSet(DOMAIN s)
  <2>1. DOMAIN s = 1 .. Len(s) /\ Len(s) \in Nat
    OBVIOUS
  <2> QED
    BY <2>1, FS_Interval
<1>2. IsFiniteSet(Places(s, S)) /\ HowMany(s, S) \in Nat
  BY <1>1, FS_Subset, FS_CardinalityType DEF Places, HowMany
<1>3. Places(s, S) = {} <=> Range(s) \cap S = {}
  BY DEF Places, Range
<1> QED
  BY <1>1, <1>2, <1>3, FS_EmptySet DEF HowMany

LEMMA CopiesAreCounted == \A s, t : Copies(t, s) = HowMany(s, {t})
<1>1. \A s, t : {i \in DOMAIN s : s[i] = t} = Places(s, {t})
  BY DEF Places
<1> QED
  BY <1>1 DEF Copies, HowMany

\* The tasks of S are those that are t and the others.
LEMMA OneAndTheOthers ==
  ASSUME NEW s \in Seq(Tasks), NEW S, NEW t \in S
  PROVE  HowMany(s, S) = HowMany(s, S \ {t}) + HowMany(s, {t})
<1>1. /\ Places(s, S) = Places(s, S \ {t}) \cup Places(s, {t})
      /\ Places(s, S \ {t}) \cap Places(s, {t}) = {}
  BY DEF Places
<1>2. IsFiniteSet(Places(s, S \ {t})) /\ IsFiniteSet(Places(s, {t}))
  BY PlacesFinite
<1>3. Cardinality(Places(s, S)) =
        Cardinality(Places(s, S \ {t})) + Cardinality(Places(s, {t})) - Cardinality({})
  BY <1>1, <1>2, FS_Union, ZenonT(60)
<1> QED
  BY <1>3, PlacesFinite, FS_EmptySet DEF HowMany

LEMMA AppendAddsOne ==
  ASSUME NEW s \in Seq(Tasks), NEW t \in Tasks
  PROVE  /\ Append(s, t) \in Seq(Tasks) /\ Range(Append(s, t)) = Range(s) \cup {t}
         /\ \A S : HowMany(Append(s, t), S) = HowMany(s, S) + (IF t \in S THEN 1 ELSE 0)
<1>1. /\ Append(s, t) \in Seq(Tasks) /\ DOMAIN Append(s, t) = DOMAIN s \cup {Len(s) + 1}
      /\ Len(s) + 1 \notin DOMAIN s /\ Append(s, t)[Len(s) + 1] = t
      /\ \A i \in DOMAIN s : Append(s, t)[i] = s[i]
  OBVIOUS
<1>2. Range(Append(s, t)) = Range(s) \cup {t}
  BY <1>1 DEF Range
<1>3. ASSUME NEW S
      PROVE  HowMany(Append(s, t), S) = HowMany(s, S) + (IF t \in S THEN 1 ELSE 0)
  <2>1. CASE t \in S
    <3>1. Places(Append(s, t), S) = Places(s, S) \cup {Len(s) + 1} /\ Len(s) + 1 \notin Places(s, S)
      BY <1>1, <2>1 DEF Places
    <3> QED
      BY <2>1, <3>1, PlacesFinite, FS_AddElement DEF HowMany
  <2>2. CASE t \notin S
    <3>1. Places(Append(s, t), S) = Places(s, S)
      BY <1>1, <2>2 DEF Places
    <3> QED
      BY <2>2, <3>1, PlacesFinite DEF HowMany
  <2> QED
    BY <2>1, <2>2
<1> QED
  BY <1>1, <1>2, <1>3

Kept(s, t) == {i \in DOMAIN s : s[i] # t}
Place(s, t) == [i \in Kept(s, t) |-> Cardinality({j \in Kept(s, t) : j <= i})]

\* Removing a task numbers the places of the others from one, without a gap.
LEMMA PlaceIsBijection ==
  ASSUME NEW s \in Seq(Tasks), NEW t
  PROVE  /\ IsFiniteSet(Kept(s, t)) /\ Cardinality(Kept(s, t)) \in Nat
         /\ Place(s, t) \in Bijection(Kept(s, t), 1 .. Cardinality(Kept(s, t)))
<1> DEFINE kept == Kept(s, t)
           upto(i) == {j \in kept : j <= i}
           size == Cardinality(kept)
<1>1. IsFiniteSet(kept) /\ size \in Nat /\ kept \subseteq Int
  <2>1. kept \subseteq DOMAIN s /\ DOMAIN s \subseteq Int
    BY DEF Kept
  <2> QED
    BY <2>1, PlacesFinite, FS_Subset, FS_CardinalityType
<1>2. ASSUME NEW i \in kept
      PROVE  /\ IsFiniteSet(upto(i)) /\ Cardinality(upto(i)) \in 1 .. size
  <2>1. upto(i) \subseteq kept /\ i \in upto(i)
    BY <1>1
  <2>2. IsFiniteSet(upto(i)) /\ Cardinality(upto(i)) \in Nat /\ Cardinality(upto(i)) <= size
    BY <1>1, <2>1, FS_Subset, FS_CardinalityType
  <2>3. Cardinality(upto(i)) # 0
    BY <2>1, <2>2, FS_EmptySet
  <2> QED
    BY <1>1, <2>2, <2>3
<1>3. ASSUME NEW i \in kept, NEW k \in kept, i < k
      PROVE  Cardinality(upto(i)) < Cardinality(upto(k))
  <2>1. upto(i) \subseteq upto(k) /\ k \in upto(k) /\ k \notin upto(i)
    BY <1>1, <1>3
  <2>2. upto(i) # upto(k)
    BY <2>1
  <2> HIDE DEF upto
  <2> QED
    BY <1>2, <2>1, <2>2, FS_Subset
<1>4. Place(s, t) \in Injection(kept, 1 .. size)
  <2>1. Place(s, t) = [i \in kept |-> Cardinality(upto(i))]
    BY DEF Place
  <2>2. \A i \in kept : Cardinality(upto(i)) \in 1 .. size
    BY <1>2
  <2>3. \A i, k \in kept : i < k => Cardinality(upto(i)) < Cardinality(upto(k))
    BY <1>3
  <2> HIDE DEF upto, kept, size
  <2>4. \A i, k \in kept : Cardinality(upto(i)) = Cardinality(upto(k)) => i = k
    BY <1>1, <2>2, <2>3
  <2>5. Place(s, t) \in [kept -> 1 .. size]
    BY <2>1, <2>2
  <2>6. IsInjective(Place(s, t))
    BY <2>1, <2>4 DEF IsInjective
  <2> QED
    BY <2>5, <2>6 DEF Injection
<1>5. IsFiniteSet(1 .. size) /\ Cardinality(1 .. size) = size
  BY <1>1, FS_Interval
<1> HIDE DEF kept, size
<1>6. Place(s, t) \in Surjection(kept, 1 .. size)
  BY <1>1, <1>4, <1>5, FS_Injection DEF size
<1> QED
  BY <1>1, <1>4, <1>6 DEF Bijection, kept, size

\* What Erase leaves: the other tasks, each as often as before.
LEMMA EraseLeavesOthers ==
  ASSUME NEW s \in Seq(Tasks), NEW t
  PROVE  /\ Erase(s, t) \in Seq(Tasks) /\ Range(Erase(s, t)) = Range(s) \ {t}
         /\ \A S : HowMany(Erase(s, t), S) = HowMany(s, S \ {t})
<1> DEFINE kept == Kept(s, t)
           size == Cardinality(kept)
           place == Place(s, t)
           w == Erase(s, t)
<1>1. w = [n \in 1 .. size |-> s[CHOOSE i \in kept : place[i] = n]]
  BY DEF Erase, Kept, Place
<1>2. size \in Nat /\ kept \subseteq DOMAIN s /\ \A i \in kept : s[i] \in Tasks /\ s[i] # t
  <2>1. \A i \in DOMAIN s : s[i] \in Tasks
    OBVIOUS
  <2> QED
    BY <2>1, PlaceIsBijection DEF Kept
<1>3. /\ place \in [kept -> 1 .. size]
      /\ \A n \in 1 .. size : \E i \in kept : place[i] = n
      /\ \A i, k \in kept : place[i] = place[k] => i = k
  BY PlaceIsBijection DEF Bijection, Injection, Surjection, IsInjective
<1> HIDE DEF kept, size, place, w
<1>4. \A i \in kept : w[place[i]] = s[i]
  BY <1>1, <1>3
<1>5. w \in Seq(Tasks) /\ DOMAIN w = 1 .. size
  <2>1. \A n \in 1 .. size : w[n] \in Tasks
    BY <1>2, <1>3, <1>4
  <2>2. w \in [1 .. size -> Tasks]
    BY <1>1, <2>1
  <2> QED
    BY <1>2, <2>2
<1>6. Range(w) = Range(s) \ {t}
  <2>1. Range(w) = {s[i] : i \in kept}
    BY <1>3, <1>4, <1>5 DEF Range
  <2>2. {s[i] : i \in kept} = Range(s) \ {t}
    BY DEF Range, kept, Kept
  <2> QED
    BY <2>1, <2>2
<1>7. ASSUME NEW S PROVE HowMany(w, S) = HowMany(s, S \ {t})
  <2> DEFINE from == Places(s, S \ {t})
             to == Places(w, S)
             f == [i \in from |-> place[i]]
  <2>1. \A i \in DOMAIN s : i \in from <=> i \in kept /\ s[i] \in S
    BY DEF Places, kept, Kept
  <2>2. from \subseteq kept
    BY <2>1 DEF Places
  <2>3. \A n : n \in to <=> n \in 1 .. size /\ w[n] \in S
    BY <1>5 DEF Places
  <2>4. f \in [from -> to]
    BY <1>2, <1>3, <1>4, <2>1, <2>2, <2>3
  <2>5. IsInjective(f)
    BY <1>3, <2>2 DEF IsInjective
  <2>6. \A n \in to : \E i \in from : f[i] = n
    BY <1>2, <1>3, <1>4, <2>1, <2>3, ZenonT(60)
  <2> HIDE DEF f
  <2>7. f \in Bijection(from, to)
    BY <2>4, <2>5, <2>6 DEF Bijection, Injection, Surjection
  <2> HIDE DEF from, to
  <2>8. IsFiniteSet(from)
    BY PlacesFinite DEF from
  <2> QED
    BY <2>7, <2>8, FS_Bijection DEF ExistsBijection, HowMany, from, to
<1> QED
  BY <1>5, <1>6, <1>7 DEF w

-----------------------------------------------------------------------------
(* The graph                                                               *)

EdgeTypes ==
  /\ dependencies \in [Tasks -> Seq(Tasks)] /\ dependents \in [Tasks -> Seq(Tasks)]
  /\ dependencies_count \in [Tasks -> Int]
  /\ graph \subseteq added /\ added \subseteq Tasks

\* A new Task object has no edges.
NewTasks ==
  \A t \in Tasks \ added :
    dependencies[t] = << >> /\ dependents[t] = << >> /\ dependencies_count[t] = 0

\* A count that is not spoilt does not fall below the dependencies that have yet to
\* be reported.  It is above their number for those that were reported before
\* they became dependencies.
CountCovers ==
  \A t \in graph \ spoilt : dependencies_count[t] >= HowMany(dependencies[t], Tasks \ reported)

GraphInv == EdgeTypes /\ NewTasks /\ EdgesMirror /\ CountCovers

LEMMA InitGraph == TaskGraphInit => GraphInv
  BY DEF TaskGraphInit, TaskInit, GraphInit, GraphInv, EdgeTypes, NewTasks, EdgesMirror, CountCovers

\* Steps that leave the edges alone
LEMMA SameGraph ==
  ASSUME GraphInv, UNCHANGED <<edgeVars, graph, added, reported, spoilt>>
  PROVE  GraphInv'
BY DEF GraphInv, EdgeTypes, NewTasks, EdgesMirror, CountCovers, edgeVars

\* A dependency is noted at both ends, and counted.
LEMMA AddEdge ==
  ASSUME GraphInv, NEW t \in graph, NEW dependency \in graph, add_dependency(t, dependency),
         UNCHANGED <<graph, added, reported, spoilt>>
  PROVE  GraphInv'
<1> USE DEF GraphInv, EdgeTypes
<1>1. \A u \in Tasks :
        /\ dependencies'[u] = IF u = t THEN Append(dependencies[u], dependency) ELSE dependencies[u]
        /\ dependents'[u] = IF u = dependency THEN Append(dependents[u], t) ELSE dependents[u]
        /\ dependencies_count'[u] = IF u = t THEN dependencies_count[u] + 1 ELSE dependencies_count[u]
  BY DEF add_dependency
<1>2. t \in Tasks /\ dependency \in Tasks
  OBVIOUS
<1>3. \A u \in Tasks : dependencies[u] \in Seq(Tasks) /\ dependents[u] \in Seq(Tasks)
  OBVIOUS
<1>4. /\ Append(dependencies[t], dependency) \in Seq(Tasks)
      /\ Append(dependents[dependency], t) \in Seq(Tasks)
      /\ Range(Append(dependencies[t], dependency)) = Range(dependencies[t]) \cup {dependency}
      /\ Range(Append(dependents[dependency], t)) = Range(dependents[dependency]) \cup {t}
  BY <1>2, <1>3, AppendAddsOne
<1>5. ASSUME NEW S
      PROVE  /\ dependency \in S =>
                  HowMany(Append(dependencies[t], dependency), S) = HowMany(dependencies[t], S) + 1
             /\ dependency \notin S =>
                  HowMany(Append(dependencies[t], dependency), S) = HowMany(dependencies[t], S)
             /\ t \in S =>
                  HowMany(Append(dependents[dependency], t), S) = HowMany(dependents[dependency], S) + 1
             /\ t \notin S =>
                  HowMany(Append(dependents[dependency], t), S) = HowMany(dependents[dependency], S)
  <2>1. HowMany(dependencies[t], S) \in Nat /\ HowMany(dependents[dependency], S) \in Nat
    BY <1>2, <1>3, PlacesFinite
  <2>2. HowMany(Append(dependencies[t], dependency), S) =
          HowMany(dependencies[t], S) + (IF dependency \in S THEN 1 ELSE 0)
    BY <1>2, <1>3, AppendAddsOne
  <2>3. HowMany(Append(dependents[dependency], t), S) =
          HowMany(dependents[dependency], S) + (IF t \in S THEN 1 ELSE 0)
    BY <1>2, <1>3, AppendAddsOne
  <2> QED
    BY <2>1, <2>2, <2>3
<1>6. EdgeTypes'
  <2>1. dependencies' \in [Tasks -> Seq(Tasks)] /\ dependents' \in [Tasks -> Seq(Tasks)]
    BY <1>2, <1>4 DEF add_dependency
  <2> QED
    BY <2>1 DEF add_dependency
<1>7. NewTasks'
  BY <1>1 DEF NewTasks
<1>8. ASSUME NEW u \in graph, NEW v \in graph
      PROVE  /\ Copies(v, dependencies'[u]) = Copies(u, dependents'[v])
             /\ Range(dependencies'[u]) \cup Range(dependents'[u]) \subseteq graph
  <2>1. HowMany(dependencies[u], {v}) = HowMany(dependents[v], {u})
    BY CopiesAreCounted DEF EdgesMirror
  <2>2. HowMany(dependencies'[u], {v}) =
          IF u = t /\ v = dependency THEN HowMany(dependencies[u], {v}) + 1
          ELSE HowMany(dependencies[u], {v})
    <3>1. dependency \in {v} <=> v = dependency
      OBVIOUS
    <3> QED
      BY <1>1, <1>5, <3>1
  <2>3. HowMany(dependents'[v], {u}) =
          IF u = t /\ v = dependency THEN HowMany(dependents[v], {u}) + 1
          ELSE HowMany(dependents[v], {u})
    <3>1. t \in {u} <=> u = t
      OBVIOUS
    <3> QED
      BY <1>1, <1>5, <3>1
  <2>4. Range(dependencies[u]) \cup Range(dependents[u]) \subseteq graph
    BY DEF EdgesMirror
  <2>5. Range(dependencies'[u]) \subseteq graph
    BY <1>1, <1>4, <2>4
  <2>6. Range(dependents'[u]) \subseteq graph
    BY <1>1, <1>4, <2>4
  <2>7. HowMany(dependencies'[u], {v}) = HowMany(dependents'[v], {u})
    BY <2>1, <2>2, <2>3
  <2>8. Copies(v, dependencies'[u]) = Copies(u, dependents'[v])
    BY <2>7, CopiesAreCounted
  <2> QED
    BY <2>5, <2>6, <2>8
<1>9. ASSUME NEW u \in graph \ spoilt
      PROVE  dependencies_count'[u] >= HowMany(dependencies'[u], Tasks \ reported)
  <2>1. dependencies_count[u] >= HowMany(dependencies[u], Tasks \ reported)
        /\ dependencies_count[u] \in Int
    BY DEF CountCovers
  <2>2. CASE u = t
    <3> DEFINE rest == Tasks \ reported
    <3>1. HowMany(dependencies'[t], rest) \in
            {HowMany(dependencies[t], rest), HowMany(dependencies[t], rest) + 1}
      <4>1. dependencies'[t] = Append(dependencies[t], dependency)
        BY <1>1, <1>2
      <4> HIDE DEF rest
      <4> QED
        BY <1>5, <4>1
    <3>2. dependencies_count'[t] = dependencies_count[t] + 1
      BY <1>1, <1>2
    <3>3. HowMany(dependencies[t], rest) \in Nat
      BY <1>2, <1>3, PlacesFinite
    <3> QED
      BY <2>1, <2>2, <3>1, <3>2, <3>3
  <2>3. CASE u # t
    BY <1>1, <2>1, <2>3
  <2> QED
    BY <2>2, <2>3
<1> QED
  BY <1>6, <1>7, <1>8, <1>9, ZenonT(60) DEF EdgesMirror, CountCovers

\* A task that is removed takes its edges with it, at both ends.
LEMMA RemoveEdges ==
  ASSUME GraphInv, NEW t \in Tasks, RemoveTask(t)
  PROVE  GraphInv'
<1> USE DEF GraphInv, EdgeTypes
<1>0. t \in graph /\ graph' = graph \ {t} /\ UNCHANGED <<added, reported>>
  BY DEF RemoveTask, remove_task, editVars, runVars
<1>1. /\ dependents' = [u \in Tasks |->
           IF u \in Range(dependencies[t]) THEN Erase(dependents[u], t) ELSE dependents[u]]
      /\ dependencies' = [u \in Tasks |->
           IF u # t /\ u \in Range(dependents[t]) THEN Erase(dependencies[u], t) ELSE dependencies[u]]
      /\ dependencies_count' = [u \in Tasks |->
           IF u = t THEN dependencies_count[u] ELSE dependencies_count[u] - Copies(u, dependents[t])]
  BY DEF RemoveTask, remove_task
<1>2. \A u \in Tasks : dependencies[u] \in Seq(Tasks) /\ dependents[u] \in Seq(Tasks)
  OBVIOUS
<1>3. \A u \in Tasks : /\ Copies(u, dependents[t]) \in Nat
                       /\ u \notin Range(dependents[t]) => Copies(u, dependents[t]) = 0
                       /\ Copies(u, dependencies[t]) \in Nat
                       /\ u \notin Range(dependencies[t]) => Copies(u, dependencies[t]) = 0
  <2>1. \A s \in Seq(Tasks) : \A u :
        HowMany(s, {u}) \in Nat /\ (u \notin Range(s) => HowMany(s, {u}) = 0)
    <3>1. \A s, u : u \notin Range(s) => Range(s) \cap {u} = {}
      OBVIOUS
    <3> QED
      BY <3>1, PlacesFinite
  <2> QED
    BY <1>2, <2>1, CopiesAreCounted
<1>4. EdgeTypes'
  <2>1. \A u \in Tasks : Erase(dependencies[u], t) \in Seq(Tasks) /\ Erase(dependents[u], t) \in Seq(Tasks)
    BY <1>2, EraseLeavesOthers
  <2>2. dependencies' \in [Tasks -> Seq(Tasks)] /\ dependents' \in [Tasks -> Seq(Tasks)]
    BY <1>1, <2>1
  <2>3. dependencies_count' \in [Tasks -> Int]
    BY <1>1, <1>3
  <2> QED
    BY <1>0, <2>2, <2>3
<1>5. NewTasks'
  <2>1. \A u \in Tasks \ added : u \notin Range(dependencies[t]) /\ u \notin Range(dependents[t]) /\ u # t
    BY <1>0 DEF EdgesMirror
  <2> QED
    BY <1>0, <1>1, <1>3, <2>1 DEF NewTasks
\* For the other tasks of the graph both lists are without t, whether t was in them
\* or not.
<1>6. ASSUME NEW u \in graph, u # t
      PROVE  /\ Range(dependencies'[u]) = Range(dependencies[u]) \ {t}
             /\ Range(dependents'[u]) = Range(dependents[u]) \ {t}
             /\ \A S : HowMany(dependencies'[u], S) = HowMany(dependencies[u], S \ {t})
             /\ \A v \in Tasks \ {t} : Copies(v, dependents'[u]) = Copies(v, dependents[u])
  <2>1. /\ t \in Range(dependencies[u]) => u \in Range(dependents[t])
        /\ t \in Range(dependents[u]) => u \in Range(dependencies[t])
    <3>1. Copies(t, dependencies[u]) = Copies(u, dependents[t])
          /\ Copies(u, dependencies[t]) = Copies(t, dependents[u])
      BY <1>0 DEF EdgesMirror
    <3>2. /\ t \in Range(dependencies[u]) => Copies(t, dependencies[u]) # 0
          /\ t \in Range(dependents[u]) => Copies(t, dependents[u]) # 0
      <4>1. dependencies[u] \in Seq(Tasks) /\ dependents[u] \in Seq(Tasks)
        BY <1>2
      <4>2. ASSUME NEW s \in Seq(Tasks), t \in Range(s)
            PROVE  Copies(t, s) # 0
        <5>1. Range(s) \cap {t} # {}
          BY <4>2
        <5>2. HowMany(s, {t}) # 0
          BY <5>1, PlacesFinite
        <5> QED
          BY <5>2, CopiesAreCounted
      <4> QED
        BY <4>1, <4>2
    <3> QED
      BY <1>3, <3>1, <3>2
  <2>2. ASSUME NEW s \in Seq(Tasks), t \notin Range(s), NEW S
        PROVE  HowMany(s, S) = HowMany(s, S \ {t})
    <3>1. Places(s, S) = Places(s, S \ {t})
      BY <2>2 DEF Places, Range
    <3> QED
      BY <3>1 DEF HowMany
  <2>3. /\ Range(dependencies'[u]) = Range(dependencies[u]) \ {t}
        /\ \A S : HowMany(dependencies'[u], S) = HowMany(dependencies[u], S \ {t})
    <3>1. CASE u \in Range(dependents[t])
      BY <1>1, <1>2, <1>6, <3>1, EraseLeavesOthers
    <3>2. CASE u \notin Range(dependents[t])
      BY <1>1, <1>2, <1>6, <2>1, <2>2, <3>2
    <3> QED
      BY <3>1, <3>2
  <2>4. /\ Range(dependents'[u]) = Range(dependents[u]) \ {t}
        /\ \A S : HowMany(dependents'[u], S) = HowMany(dependents[u], S \ {t})
    <3>1. CASE u \in Range(dependencies[t])
      BY <1>1, <1>2, <1>6, <3>1, EraseLeavesOthers
    <3>2. CASE u \notin Range(dependencies[t])
      BY <1>1, <1>2, <1>6, <2>1, <2>2, <3>2
    <3> QED
      BY <3>1, <3>2
  <2>5. ASSUME NEW v \in Tasks \ {t}
        PROVE  Copies(v, dependents'[u]) = Copies(v, dependents[u])
    <3>1. HowMany(dependents'[u], {v}) = HowMany(dependents[u], {v} \ {t})
      BY <2>4
    <3>2. {v} \ {t} = {v}
      OBVIOUS
    <3>3. HowMany(dependents'[u], {v}) = HowMany(dependents[u], {v})
      BY <3>1, <3>2
    <3> QED
      BY <3>3, CopiesAreCounted
  <2> QED
    BY <2>3, <2>4, <2>5
<1>7. EdgesMirror'
  <2>1. ASSUME NEW u \in graph \ {t}, NEW v \in graph \ {t}
        PROVE  /\ Copies(v, dependencies'[u]) = Copies(u, dependents'[v])
               /\ Range(dependencies'[u]) \cup Range(dependents'[u]) \subseteq graph \ {t}
    <3>1. Copies(v, dependencies'[u]) = Copies(v, dependencies[u])
      <4>1. {v} \ {t} = {v} /\ u \in graph /\ u # t
        OBVIOUS
      <4>2. HowMany(dependencies'[u], {v}) = HowMany(dependencies[u], {v} \ {t})
        BY <1>6, <4>1
      <4>3. HowMany(dependencies'[u], {v}) = HowMany(dependencies[u], {v})
        BY <4>1, <4>2
      <4> QED
        BY <4>3, CopiesAreCounted
    <3>2. Copies(u, dependents'[v]) = Copies(u, dependents[v])
      BY <1>6
    <3> QED
      BY <1>6, <3>1, <3>2 DEF EdgesMirror
  <2> QED
    BY <1>0, <2>1 DEF EdgesMirror
<1>8. ASSUME NEW u \in graph' \ spoilt'
      PROVE  dependencies_count'[u] >= HowMany(dependencies'[u], Tasks \ reported)
  <2>0. u \in graph /\ u # t /\ u \notin spoilt /\ (t \in reported => u \notin Range(dependents[t]))
    BY <1>0, <1>8 DEF RemoveTask
  <2>1. dependencies_count[u] >= HowMany(dependencies[u], Tasks \ reported)
    BY <2>0 DEF CountCovers
  <2>2. HowMany(dependencies'[u], Tasks \ reported) = HowMany(dependencies[u], (Tasks \ reported) \ {t})
    BY <1>6, <2>0
  <2>3. /\ HowMany(dependencies[u], Tasks \ reported) \in Nat
        /\ HowMany(dependencies[u], (Tasks \ reported) \ {t}) \in Nat
        /\ dependencies_count[u] \in Int
    BY <1>2, <2>0, PlacesFinite
  <2>4. dependencies_count'[u] = dependencies_count[u] - Copies(u, dependents[t])
    BY <1>1, <2>0
  <2>5. Copies(u, dependents[t]) = HowMany(dependencies[u], {t})
    BY <1>0, <2>0, CopiesAreCounted DEF EdgesMirror
  <2>6. CASE t \in reported
    <3>1. (Tasks \ reported) \ {t} = Tasks \ reported /\ Copies(u, dependents[t]) = 0
      BY <1>3, <2>0, <2>6
    <3>2. HowMany(dependencies'[u], Tasks \ reported) = HowMany(dependencies[u], Tasks \ reported)
      BY <2>2, <3>1
    <3>3. dependencies_count'[u] = dependencies_count[u]
      BY <2>3, <2>4, <3>1
    <3> QED
      BY <2>1, <3>2, <3>3
  <2>7. CASE t \notin reported
    <3>1. HowMany(dependencies[u], Tasks \ reported) =
            HowMany(dependencies[u], (Tasks \ reported) \ {t}) + HowMany(dependencies[u], {t})
      BY <1>2, <2>0, <2>7, OneAndTheOthers
    <3> QED
      BY <1>3, <2>0, <2>1, <2>2, <2>3, <2>4, <2>5, <3>1, SMTT(30)
  <2> QED
    BY <2>6, <2>7
<1>9. CountCovers'
  BY <1>0, <1>8 DEF CountCovers
<1> QED
  BY <1>4, <1>5, <1>7, <1>9

\* A report takes off each dependent's count what the task held of it: one for each
\* edge, which no longer waits; or it had been reported, and the count is spoilt.
LEMMA ReportEdges ==
  ASSUME GraphInv, NEW t \in Tasks, notify_task_completed(t)
  PROVE  GraphInv'
<1> USE DEF GraphInv, EdgeTypes
<1>1. /\ dependencies' = dependencies /\ dependents' = dependents /\ graph' = graph /\ added' = added
      /\ dependencies_count' =
           [u \in Tasks |-> dependencies_count[u] - Copies(u, DependentsOf(t))]
      /\ reported' = reported \cup {t}
      /\ spoilt' = IF t \in reported THEN spoilt \cup Range(DependentsOf(t)) ELSE spoilt
  BY DEF notify_task_completed, editVars
<1>2. \A u \in Tasks : dependencies[u] \in Seq(Tasks) /\ dependents[u] \in Seq(Tasks)
  OBVIOUS
<1>3. /\ DependentsOf(t) \in Seq(Tasks) /\ Range(DependentsOf(t)) \subseteq graph
      /\ \A u \in Tasks : /\ Copies(u, DependentsOf(t)) \in Nat
                          /\ u \notin Range(DependentsOf(t)) => Copies(u, DependentsOf(t)) = 0
  <2>1. DependentsOf(t) \in Seq(Tasks) /\ Range(DependentsOf(t)) \subseteq graph
    <3>1. Range(<< >>) = {} /\ << >> \in Seq(Tasks)
      BY DEF Range
    <3> QED
      BY <1>2, <3>1 DEF DependentsOf, EdgesMirror
  <2>2. ASSUME NEW u \in Tasks
        PROVE  /\ HowMany(DependentsOf(t), {u}) \in Nat
               /\ u \notin Range(DependentsOf(t)) => HowMany(DependentsOf(t), {u}) = 0
    <3>1. u \notin Range(DependentsOf(t)) => Range(DependentsOf(t)) \cap {u} = {}
      OBVIOUS
    <3> QED
      BY <2>1, <3>1, PlacesFinite
  <2> QED
    BY <2>1, <2>2, CopiesAreCounted
<1>4. EdgeTypes' /\ EdgesMirror'
  BY <1>1, <1>3 DEF EdgesMirror
<1>5. NewTasks'
  BY <1>1, <1>3 DEF NewTasks
<1>6. ASSUME NEW u \in graph \ spoilt'
      PROVE  dependencies_count'[u] >= HowMany(dependencies[u], Tasks \ reported')
  <2> DEFINE waiting == HowMany(dependencies[u], Tasks \ reported)
             waitingThen == HowMany(dependencies[u], Tasks \ reported')
  <2>1. dependencies_count[u] >= waiting /\ dependencies_count[u] \in Int
    BY <1>1 DEF CountCovers
  <2>2. waiting \in Nat /\ waitingThen \in Nat
    BY <1>2, PlacesFinite
  <2>3. dependencies_count'[u] = dependencies_count[u] - Copies(u, DependentsOf(t))
        /\ Copies(u, DependentsOf(t)) \in Nat
    BY <1>1, <1>3
  <2>4. CASE t \in reported
    <3>1. Tasks \ reported' = Tasks \ reported /\ u \notin Range(DependentsOf(t))
      BY <1>1, <2>4
    <3>2. waitingThen = waiting /\ Copies(u, DependentsOf(t)) = 0
      BY <1>3, <3>1
    <3> QED
      BY <2>1, <2>3, <3>2
  <2>5. CASE t \notin reported
    <3>1. Tasks \ reported' = (Tasks \ reported) \ {t}
      BY <1>1
    <3>2. waiting = waitingThen + HowMany(dependencies[u], {t})
      <4>1. t \in Tasks \ reported /\ dependencies[u] \in Seq(Tasks)
        BY <1>2, <2>5
      <4>2. waiting = HowMany(dependencies[u], (Tasks \ reported) \ {t}) + HowMany(dependencies[u], {t})
        BY <4>1, OneAndTheOthers
      <4> QED
        BY <3>1, <4>2
    <3>3. Copies(u, DependentsOf(t)) <= HowMany(dependencies[u], {t})
      <4>1. HowMany(dependencies[u], {t}) \in Nat
        BY <1>2, PlacesFinite
      <4>2. CASE t \in graph
        <5>1. Copies(u, DependentsOf(t)) = HowMany(dependencies[u], {t})
          BY <4>2, CopiesAreCounted DEF DependentsOf, EdgesMirror
        <5> QED
          BY <4>1, <5>1
      <4>3. CASE t \notin graph
        <5>1. u \notin Range(DependentsOf(t))
          BY <4>3 DEF DependentsOf, Range
        <5> QED
          BY <1>3, <4>1, <5>1
      <4> QED
        BY <4>2, <4>3
    <3>4. HowMany(dependencies[u], {t}) \in Nat
      BY <1>2, PlacesFinite
    <3> QED
      BY <2>1, <2>2, <2>3, <3>2, <3>3, <3>4
  <2> QED
    BY <2>4, <2>5
<1>7. CountCovers'
  BY <1>1, <1>6 DEF CountCovers
<1> QED
  BY <1>4, <1>5, <1>7

LEMMA GraphStep == GraphInv /\ [TaskGraphNext]_graphTestVars => GraphInv'
<1> SUFFICES ASSUME GraphInv, [TaskGraphNext]_graphTestVars PROVE GraphInv'
  OBVIOUS
<1>1. ASSUME NEW t \in Tasks, AddTask(t) PROVE GraphInv'
  <2>1. /\ t \notin added /\ graph' = graph \cup {t} /\ added' = added \cup {t}
        /\ UNCHANGED <<edgeVars, reported, spoilt>>
    BY <1>1 DEF AddTask, add_task, taskVars, runVars
  <2>2. EdgeTypes' /\ NewTasks'
    BY <2>1 DEF GraphInv, EdgeTypes, NewTasks, edgeVars
  <2>3. dependencies[t] = << >> /\ dependents[t] = << >> /\ dependencies_count[t] = 0
    BY <2>1 DEF GraphInv, NewTasks
  <2>4. << >> \in Seq(Tasks) /\ Range(<< >>) = {}
    BY DEF Range
  <2>5. \A S : HowMany(<< >>, S) = 0
    BY <2>4, PlacesFinite
  <2>6. \A u \in graph : t \notin Range(dependencies[u]) /\ t \notin Range(dependents[u])
    BY <2>1 DEF GraphInv, EdgeTypes, EdgesMirror
  <2>7. \A u \in graph : Copies(t, dependencies[u]) = 0 /\ Copies(t, dependents[u]) = 0
    <3>1. \A s \in Seq(Tasks) : t \notin Range(s) => HowMany(s, {t}) = 0
      <4>1. \A s : t \notin Range(s) => Range(s) \cap {t} = {}
        OBVIOUS
      <4> QED
        BY <4>1, PlacesFinite
    <3> QED
      BY <2>6, <3>1, CopiesAreCounted DEF GraphInv, EdgeTypes
  <2>8. \A u : Copies(u, dependencies[t]) = 0 /\ Copies(u, dependents[t]) = 0
    BY <2>3, <2>5, CopiesAreCounted
  <2>9. ASSUME NEW u \in graph', NEW v \in graph'
        PROVE  /\ Copies(v, dependencies[u]) = Copies(u, dependents[v])
               /\ Range(dependencies[u]) \cup Range(dependents[u]) \subseteq graph'
    <3>1. CASE u = t
      BY <2>1, <2>3, <2>4, <2>7, <2>8, <3>1
    <3>2. CASE u # t /\ v = t
      BY <2>1, <2>7, <2>8, <3>2 DEF GraphInv, EdgesMirror
    <3>3. CASE u # t /\ v # t
      BY <2>1, <3>3 DEF GraphInv, EdgesMirror
    <3> QED
      BY <3>1, <3>2, <3>3
  <2>10. CountCovers'
    <3>1. /\ dependencies_count' = dependencies_count /\ dependencies' = dependencies
          /\ Tasks \ reported' = Tasks \ reported
      BY <2>1 DEF edgeVars
    <3>2. dependencies_count[t] >= HowMany(dependencies[t], Tasks \ reported)
      BY <2>3, <2>5
    <3> QED
      BY <2>1, <3>1, <3>2 DEF GraphInv, CountCovers
  <2>11. EdgesMirror'
    BY <2>1, <2>9 DEF EdgesMirror, edgeVars
  <2> QED
    BY <2>2, <2>10, <2>11 DEF GraphInv
<1>2. ASSUME NEW t \in Tasks, NEW dependency \in Tasks, AddDependency(t, dependency) PROVE GraphInv'
  <2>1. UNCHANGED <<graph, added, reported, spoilt>>
    BY <1>2 DEF AddDependency, GraphAddDependency, runVars
  <2>2. CASE {t, dependency} \subseteq graph
    BY <1>2, <2>1, <2>2, AddEdge DEF AddDependency, GraphAddDependency
  <2>3. CASE ~({t, dependency} \subseteq graph)
    BY <1>2, <2>1, <2>3, SameGraph DEF AddDependency, GraphAddDependency, taskVars
  <2> QED
    BY <2>2, <2>3
<1>3. CASE clear
  BY <1>3 DEF clear, taskVars, edgeVars, editVars, GraphInv, EdgeTypes, NewTasks, EdgesMirror, CountCovers
<1>4. CASE \/ get_ready_tasks \/ HasCyclesBegin \/ HasCyclesEnd \/ UNCHANGED graphTestVars
           \/ \E t \in Tasks : Execute(t) \/ ExecuteReturns(t)
  BY <1>4, SameGraph DEF get_ready_tasks, HasCyclesBegin, HasCyclesEnd, graphTestVars, Execute, ExecuteReturns,
                         ExecuteBegin, ExecuteEnd, taskVars, editVars, runVars
<1> QED
  BY <1>1, <1>2, <1>3, <1>4, RemoveEdges, ReportEdges DEF TaskGraphNext

\* Both ends of every edge agree, and none leads out of the graph, whatever is added,
\* removed and cleared.
THEOREM EdgesAgree == TaskGraphSpec => []EdgesMirror
<1>1. GraphInv => EdgesMirror
  BY DEF GraphInv
<1> QED
  BY InitGraph, GraphStep, <1>1, PTL DEF TaskGraphSpec

\* No task is handed out that waits for one that has not been reported, unless its
\* count is spoilt.
THEOREM ReadyIsSound == TaskGraphSpec => []ReadyMeansDone
<1>1. GraphInv => ReadyMeansDone
  <2> SUFFICES ASSUME GraphInv, NEW t \in graph \ spoilt, is_ready(t)
               PROVE  Range(dependencies[t]) \subseteq reported
    BY DEF ReadyMeansDone
  <2>1. dependencies[t] \in Seq(Tasks)
    BY DEF GraphInv, EdgeTypes
  <2>2. HowMany(dependencies[t], Tasks \ reported) <= 0
    BY DEF GraphInv, CountCovers, is_ready
  <2>3. HowMany(dependencies[t], Tasks \ reported) = 0
    BY <2>1, <2>2, PlacesFinite
  <2>4. Range(dependencies[t]) \cap (Tasks \ reported) = {}
    BY <2>1, <2>3, PlacesFinite
  <2>5. Range(dependencies[t]) \subseteq Tasks
    BY <2>1 DEF Range
  <2> QED
    BY <2>4, <2>5
<1> QED
  BY InitGraph, GraphStep, <1>1, PTL DEF TaskGraphSpec

-----------------------------------------------------------------------------
(* The topological order                                                   *)

\* Induction for a set of numbers: a counterexample m would let the numbers below it
\* that are in the set be moved up by one, onto fewer than there are.
LEMMA AllNumbers ==
  ASSUME NEW S, 0 \in S, NEW top \in Nat, \A n \in 0 .. top - 1 : n \in S => n + 1 \in S
  PROVE  0 .. top \subseteq S
<1> SUFFICES ASSUME NEW m \in 0 .. top, m \notin S PROVE FALSE
  OBVIOUS
<1> DEFINE below == {k \in 0 .. m : k \in S}
           f == [k \in below |-> k + 1]
<1>1. IsFiniteSet(below) /\ Cardinality(below) \in Nat
  <2>1. below \subseteq 0 .. m /\ IsFiniteSet(0 .. m)
    BY FS_Interval
  <2> QED
    BY <2>1, FS_Subset, FS_CardinalityType
<1>2. 0 \in below
  OBVIOUS
<1>3. \A k \in below : k \in Int /\ k + 1 \in below \ {0}
  OBVIOUS
<1>4. f \in Injection(below, below \ {0})
  <2> HIDE DEF below
  <2>1. f \in [below -> below \ {0}]
    BY <1>3
  <2>2. \A a, b \in DOMAIN f : f[a] = f[b] => a = b
    BY <1>3
  <2> QED
    BY <2>1, <2>2 DEF Injection, IsInjective
<1> HIDE DEF below, f
<1>5. IsFiniteSet(below \ {0}) /\ Cardinality(below \ {0}) = Cardinality(below) - 1
  BY <1>1, <1>2, FS_RemoveElement
<1>6. Cardinality(below) <= Cardinality(below \ {0})
  BY <1>4, <1>5, FS_Injection
<1> QED
  BY <1>1, <1>5, <1>6

\* A function defined by what comes next exists.
Follows(f, a, top, step) == f[0] = a /\ \A n \in 1 .. top : f[n] = step[n][f[n - 1]]

LEMMA Iteration ==
  ASSUME NEW X, NEW a \in X, NEW top \in Nat, NEW step \in [1 .. top -> [X -> X]]
  PROVE  \E f \in [0 .. top -> X] : Follows(f, a, top, step)
<1> DEFINE next(f, n) == IF n = 0 THEN a ELSE step[n][f[n - 1]]
           is(f, m) == f \in [0 .. m -> X] /\ \A n \in 0 .. m : f[n] = next(f, n)
           done == {m \in Nat : \E f : is(f, m)}
<1>1. 0 \in done
  <2>1. is([n \in 0 .. 0 |-> a], 0)
    OBVIOUS
  <2> QED
    BY <2>1
<1>2. ASSUME NEW m \in 0 .. top - 1, m \in done PROVE m + 1 \in done
  <2>1. PICK f : is(f, m)
    BY <1>2
  <2> DEFINE x == step[m + 1][f[m]]
             g == [n \in 0 .. m + 1 |-> IF n <= m THEN f[n] ELSE x]
  <2>2. x \in X
    BY <2>1
  <2>3. g \in [0 .. m + 1 -> X]
    BY <2>1, <2>2
  <2>4. ASSUME NEW n \in 0 .. m + 1 PROVE g[n] = next(g, n)
    <3>1. CASE n <= m
      <4>1. n = 0 \/ g[n - 1] = f[n - 1]
        BY <3>1
      <4>2. g[n] = next(f, n)
        BY <2>1, <3>1
      <4> HIDE DEF g
      <4> QED
        BY <4>1, <4>2
    <3>2. CASE n = m + 1
      <4>1. g[n - 1] = f[m] /\ g[n] = x /\ n # 0
        BY <3>2
      <4> HIDE DEF g
      <4> QED
        BY <3>2, <4>1
    <3> QED
      BY <3>1, <3>2
  <2>5. is(g, m + 1) /\ m + 1 \in Nat
    BY <2>3, <2>4
  <2> HIDE DEF is, g
  <2> QED
    BY <2>5
<1>3. PICK f : is(f, top)
  <2> HIDE DEF done
  <2>1. 0 .. top \subseteq done
    BY <1>1, <1>2, AllNumbers
  <2> QED
    BY <2>1 DEF done
<1>4. f[0] = a /\ \A n \in 1 .. top : f[n] = step[n][f[n - 1]]
  BY <1>3
<1> QED
  BY <1>3, <1>4 DEF Follows

\* What the loops of topological_order work on
States == [ready : Seq(Tasks), order : Seq(Tasks), degree : [Tasks -> Int]]

LEMMA VisitState ==
  ASSUME NEW s \in States, NEW u \in Tasks
  PROVE  /\ Visit(s, u) \in States
         /\ Visit(s, u).order = s.order
         /\ Visit(s, u).degree = [s.degree EXCEPT ![u] = @ - 1]
         /\ Visit(s, u).ready = IF s.degree[u] = 1 THEN Append(s.ready, u) ELSE s.ready
<1>1. s.ready \in Seq(Tasks) /\ s.order \in Seq(Tasks) /\ s.degree \in [Tasks -> Int]
  BY DEF States
<1> DEFINE degree == [s.degree EXCEPT ![u] = @ - 1]
           ready == IF degree[u] = 0 THEN Append(s.ready, u) ELSE s.ready
<1>2. degree \in [Tasks -> Int] /\ (degree[u] = 0 <=> s.degree[u] = 1)
  BY <1>1
<1>3. ready \in Seq(Tasks)
  BY <1>1
<1>4. Visit(s, u) = [s EXCEPT !.degree = degree, !.ready = ready]
  BY DEF Visit
<1> HIDE DEF degree, ready
<1>5. /\ Visit(s, u) \in States /\ Visit(s, u).order = s.order
      /\ Visit(s, u).degree = degree /\ Visit(s, u).ready = ready
  BY <1>2, <1>3, <1>4 DEF States
<1> QED
  BY <1>2, <1>5 DEF degree, ready

LEMMA PutOutState ==
  ASSUME NEW s \in States, s.ready # << >>
  PROVE  /\ PutOut(s) \in States /\ Head(s.ready) \in Tasks
         /\ PutOut(s).ready = Tail(s.ready) /\ PutOut(s).degree = s.degree
         /\ PutOut(s).order = Append(s.order, Head(s.ready))
<1>1. s.ready \in Seq(Tasks) /\ s.order \in Seq(Tasks)
  BY DEF States
<1>2. /\ Tail(s.ready) \in Seq(Tasks) /\ Head(s.ready) \in Tasks
      /\ Append(s.order, Head(s.ready)) \in Seq(Tasks)
  BY <1>1
<1> QED
  BY <1>2 DEF PutOut, States

\* The inner loop, turn by turn
LEMMA InnerLoop ==
  ASSUME dependents \in [Tasks -> Seq(Tasks)], NEW s \in States, s.ready # << >>
  PROVE  LET list == dependents[Head(s.ready)]
         IN  \E f \in [0 .. Len(list) -> States] :
               /\ f[0] = PutOut(s) /\ f[Len(list)] = Pop(s)
               /\ \A n \in 0 .. Len(list) - 1 : f[n + 1] = Visit(f[n], list[n + 1])
<1> DEFINE list == dependents[Head(s.ready)]
           top == Len(list)
           step == [n \in 1 .. top |-> [x \in States |-> Visit(x, list[n])]]
           is(f) == f = [n \in 0 .. top |-> IF n = 0 THEN PutOut(s) ELSE Visit(f[n - 1], list[n])]
           visited == CHOOSE f : is(f)
<1>1. list \in Seq(Tasks) /\ top \in Nat /\ \A n \in 1 .. top : list[n] \in Tasks
  BY PutOutState
<1>2. Pop(s) = visited[top]
  BY DEF Pop
<1> HIDE DEF list, top
<1>3. step \in [1 .. top -> [States -> States]]
  BY <1>1, VisitState
<1>4. \A x \in States, n \in 1 .. top : step[n][x] = Visit(x, list[n])
  OBVIOUS
<1> HIDE DEF step
<1>5. PutOut(s) \in States
  BY PutOutState
<1>6. PICK f \in [0 .. top -> States] :
        f[0] = PutOut(s) /\ \A n \in 1 .. top : f[n] = step[n][f[n - 1]]
  <2> DEFINE a == PutOut(s)
             S == States
  <2>1. top \in Nat /\ a \in S /\ step \in [1 .. top -> [S -> S]]
    BY <1>1, <1>3, <1>5
  <2> HIDE DEF a, S
  <2>2. \E f \in [0 .. top -> S] : Follows(f, a, top, step)
    BY <2>1, Iteration
  <2> QED
    BY <2>2 DEF Follows, a, S
<1>7. is(f)
  <2>1. \A n \in 0 .. top : n # 0 => n \in 1 .. top /\ f[n - 1] \in States
    <3>1. \A n \in 0 .. top : n # 0 => n \in 1 .. top /\ n - 1 \in 0 .. top
      BY <1>1
    <3> QED
      BY <1>6, <3>1
  <2>2. \A n \in 0 .. top : f[n] = IF n = 0 THEN PutOut(s) ELSE Visit(f[n - 1], list[n])
    BY <1>4, <1>6, <2>1
  <2> QED
    BY <2>2
<1> HIDE DEF is
<1>8. is(visited)
  BY <1>7
<1>9. /\ visited = [n \in 0 .. top |-> visited[n]]
      /\ visited[0] = PutOut(s)
      /\ \A n \in 0 .. top - 1 : visited[n + 1] = Visit(visited[n], list[n + 1])
  <2> HIDE DEF visited
  <2>1. /\ visited = [n \in 0 .. top |-> visited[n]]
        /\ \A n \in 0 .. top :
             visited[n] = IF n = 0 THEN PutOut(s) ELSE Visit(visited[n - 1], list[n])
    BY <1>8 DEF is
  <2>2. 0 \in 0 .. top
    BY <1>1
  <2>3. ASSUME NEW n \in 0 .. top - 1 PROVE visited[n + 1] = Visit(visited[n], list[n + 1])
    <3>1. n + 1 \in 0 .. top /\ n + 1 # 0 /\ n + 1 - 1 = n
      BY <1>1
    <3>2. ASSUME NEW m \in 0 .. top, m # 0 PROVE visited[m] = Visit(visited[m - 1], list[m])
      BY <2>1, <3>2
    <3>3. visited[n + 1] = Visit(visited[n + 1 - 1], list[n + 1])
      BY <3>1, <3>2
    <3> QED
      BY <3>1, <3>3
  <2> QED
    BY <2>1, <2>2, <2>3
<1> HIDE DEF visited
<1>10. \A n \in 0 .. top : visited[n] \in States
  <2> DEFINE good == {n \in 0 .. top : visited[n] \in States}
  <2>1. 0 \in good
    BY <1>1, <1>5, <1>9
  <2>2. ASSUME NEW n \in 0 .. top - 1, n \in good PROVE n + 1 \in good
    <3>1. n + 1 \in 0 .. top /\ n + 1 \in 1 .. top
      BY <1>1
    <3>2. visited[n] \in States /\ list[n + 1] \in Tasks
      BY <1>1, <2>2, <3>1
    <3>3. Visit(visited[n], list[n + 1]) \in States
      BY <3>2, VisitState
    <3> QED
      BY <1>9, <3>1, <3>3
  <2> HIDE DEF good
  <2>3. 0 .. top \subseteq good
    BY <1>1, <2>1, <2>2, AllNumbers
  <2> QED
    BY <2>3 DEF good
<1>11. visited \in [0 .. top -> States]
  BY <1>9, <1>10
<1> QED
  BY <1>2, <1>9, <1>11 DEF list, top


\* How often the first n places of a list hold t
Seen(list, n, t) == Cardinality({i \in 1 .. n : list[i] = t})

LEMMA SeenGrows ==
  ASSUME NEW list \in Seq(Tasks), NEW t
  PROVE  /\ Seen(list, 0, t) = 0 /\ Seen(list, Len(list), t) = Copies(t, list)
         /\ \A n \in 0 .. Len(list) : Seen(list, n, t) \in Nat
         /\ \A n \in 0 .. Len(list) - 1 :
              Seen(list, n + 1, t) = Seen(list, n, t) + (IF list[n + 1] = t THEN 1 ELSE 0)
<1> DEFINE places(n) == {i \in 1 .. n : list[i] = t}
<1>1. ASSUME NEW n \in Nat PROVE IsFiniteSet(places(n)) /\ Seen(list, n, t) \in Nat
  <2>1. places(n) \subseteq 1 .. n /\ IsFiniteSet(1 .. n)
    BY FS_Interval
  <2> QED
    BY <2>1, FS_Subset, FS_CardinalityType DEF Seen
<1>2. ASSUME NEW n \in Nat
      PROVE  Seen(list, n + 1, t) = Seen(list, n, t) + (IF list[n + 1] = t THEN 1 ELSE 0)
  <2>1. CASE list[n + 1] = t
    <3>1. places(n + 1) = places(n) \cup {n + 1} /\ n + 1 \notin places(n)
      BY <2>1
    <3> HIDE DEF places
    <3>2. Cardinality(places(n + 1)) = Cardinality(places(n)) + 1
      BY <1>1, <3>1, FS_AddElement
    <3> QED
      BY <2>1, <3>2 DEF Seen, places
  <2>2. CASE list[n + 1] # t
    <3>1. places(n + 1) = places(n)
      BY <2>2
    <3>2. Seen(list, n + 1, t) = Seen(list, n, t)
      BY <3>1 DEF Seen
    <3>3. Seen(list, n, t) \in Nat
      BY <1>1
    <3> QED
      BY <2>2, <3>2, <3>3
  <2> QED
    BY <2>1, <2>2
<1>3. places(0) = {} /\ places(Len(list)) = {i \in DOMAIN list : list[i] = t}
  OBVIOUS
<1>4. Seen(list, 0, t) = 0 /\ Seen(list, Len(list), t) = Copies(t, list)
  BY <1>3, FS_EmptySet DEF Seen, Copies
<1>5. /\ \A n \in 0 .. Len(list) : n \in Nat
      /\ \A n \in 0 .. Len(list) - 1 : n \in Nat
  OBVIOUS
<1> HIDE DEF places
<1> QED
  BY <1>1, <1>2, <1>4, <1>5

\* A task that is not in a sequence goes to its end, and one leaves at its head.
LEMMA AppendDistinct ==
  ASSUME NEW s \in Seq(Tasks), IsInjective(s), NEW t \in Tasks, t \notin Range(s)
  PROVE  IsInjective(Append(s, t))
<1>1. /\ DOMAIN Append(s, t) = DOMAIN s \cup {Len(s) + 1} /\ Append(s, t)[Len(s) + 1] = t
      /\ \A i \in DOMAIN s : Append(s, t)[i] = s[i] /\ s[i] # t
  BY DEF Range
<1> QED
  BY <1>1 DEF IsInjective

LEMMA TailDistinct ==
  ASSUME NEW s \in Seq(Tasks), s # << >>, IsInjective(s)
  PROVE  /\ Head(s) \in Range(s) /\ IsInjective(Tail(s)) /\ Range(Tail(s)) = Range(s) \ {Head(s)}
<1>1. /\ Tail(s) \in Seq(Tasks) /\ Len(Tail(s)) = Len(s) - 1 /\ Len(s) \in Nat \ {0}
      /\ Head(s) = s[1] /\ \A i \in 1 .. Len(s) - 1 : Tail(s)[i] = s[i + 1]
      /\ DOMAIN s = 1 .. Len(s) /\ DOMAIN Tail(s) = 1 .. Len(s) - 1
  OBVIOUS
<1>2. 1 \in DOMAIN s /\ \A i \in DOMAIN Tail(s) :
        i \in Int /\ i + 1 \in DOMAIN s /\ i + 1 # 1 /\ Tail(s)[i] = s[i + 1]
  BY <1>1
<1>3. \A i \in DOMAIN s : i # 1 => i - 1 \in DOMAIN Tail(s) /\ i - 1 + 1 = i
  BY <1>1
<1>4. Head(s) = s[1]
  BY <1>1
<1>5. \A i, j \in DOMAIN s : s[i] = s[j] => i = j
  BY DEF IsInjective
<1>6. IsInjective(Tail(s))
  <2> SUFFICES ASSUME NEW i \in DOMAIN Tail(s), NEW j \in DOMAIN Tail(s), Tail(s)[i] = Tail(s)[j]
               PROVE  i = j
    BY DEF IsInjective
  <2>1. i + 1 = j + 1
    BY <1>2, <1>5
  <2> QED
    BY <1>2, <2>1
<1>7. \A i \in DOMAIN Tail(s) : Tail(s)[i] \in Range(s) \ {Head(s)}
  BY <1>2, <1>4, <1>5 DEF Range
<1>8. \A i \in DOMAIN s : s[i] # Head(s) => s[i] \in Range(Tail(s))
  <2> SUFFICES ASSUME NEW i \in DOMAIN s, i # 1 PROVE s[i] \in Range(Tail(s))
    BY <1>4
  <2>1. i - 1 \in DOMAIN Tail(s) /\ Tail(s)[i - 1] = s[i]
    BY <1>2, <1>3
  <2> QED
    BY <2>1 DEF Range
<1>9. Head(s) \in Range(s)
  BY <1>2, <1>4 DEF Range
<1>10. Range(Tail(s)) = Range(s) \ {Head(s)}
  BY <1>7, <1>8 DEF Range
<1> QED
  BY <1>6, <1>9, <1>10

\* What a turn of the outer loop does: the first ready task is put out, its dependents
\* lose a dependency for each edge, and those that lose their last become ready.
LEMMA PopEffect ==
  ASSUME dependents \in [Tasks -> Seq(Tasks)], NEW s \in States, s.ready # << >>,
         IsInjective(s.ready), \A t \in Range(s.ready) : s.degree[t] = 0
  PROVE  LET list == dependents[Head(s.ready)]
         IN  /\ Pop(s) \in States /\ Pop(s).order = Append(s.order, Head(s.ready))
             /\ \A t \in Tasks : Pop(s).degree[t] = s.degree[t] - Copies(t, list)
             /\ IsInjective(Pop(s).ready)
             /\ Range(Pop(s).ready) = (Range(s.ready) \ {Head(s.ready)})
                  \cup {t \in Tasks : s.degree[t] \in 1 .. Copies(t, list)}
<1> DEFINE list == dependents[Head(s.ready)]
           rest == Range(s.ready) \ {Head(s.ready)}
           freed(n) == {t \in Tasks : s.degree[t] \in 1 .. Seen(list, n, t)}
           good(x, n) == /\ x.order = Append(s.order, Head(s.ready))
                         /\ \A t \in Tasks : x.degree[t] = s.degree[t] - Seen(list, n, t)
                         /\ IsInjective(x.ready)
                         /\ Range(x.ready) = rest \cup freed(n)
<1>1. list \in Seq(Tasks) /\ Len(list) \in Nat /\ \A n \in 1 .. Len(list) : list[n] \in Tasks
  BY PutOutState
<1>2. PICK f \in [0 .. Len(list) -> States] :
        /\ f[0] = PutOut(s) /\ f[Len(list)] = Pop(s)
        /\ \A n \in 0 .. Len(list) - 1 : f[n + 1] = Visit(f[n], list[n + 1])
  BY InnerLoop
<1>3. s.degree \in [Tasks -> Int] /\ s.ready \in Seq(Tasks) /\ rest \subseteq Tasks
  BY DEF States, Range
<1>4. \A t \in rest : s.degree[t] = 0
  OBVIOUS
<1> HIDE DEF list
<1>5. good(f[0], 0)
  <2>1. /\ f[0].order = Append(s.order, Head(s.ready)) /\ f[0].degree = s.degree
        /\ f[0].ready = Tail(s.ready)
    BY <1>2, PutOutState
  <2>2. freed(0) = {} /\ \A t \in Tasks : s.degree[t] = s.degree[t] - Seen(list, 0, t)
    BY <1>1, <1>3, SeenGrows
  <2>3. IsInjective(Tail(s.ready)) /\ Range(Tail(s.ready)) = rest
    BY <1>3, TailDistinct
  <2> HIDE DEF rest, freed
  <2> QED
    BY <2>1, <2>2, <2>3
<1>6. ASSUME NEW n \in 0 .. Len(list) - 1, good(f[n], n) PROVE good(f[n + 1], n + 1)
  <2> DEFINE u == list[n + 1]
             x == f[n]
  <2>1. /\ n \in 0 .. Len(list) /\ u \in Tasks /\ x \in States /\ f[n + 1] = Visit(x, u)
        /\ x.degree \in [Tasks -> Int] /\ x.ready \in Seq(Tasks)
    <3>1. n \in 0 .. Len(list) /\ n + 1 \in 1 .. Len(list)
      BY <1>1
    <3> QED
      BY <1>1, <1>2, <3>1 DEF States
  <2> HIDE DEF x
  <2>2. /\ Visit(x, u).order = x.order
        /\ Visit(x, u).degree = [x.degree EXCEPT ![u] = @ - 1]
        /\ Visit(x, u).ready = IF x.degree[u] = 1 THEN Append(x.ready, u) ELSE x.ready
    BY <2>1, VisitState
  <2>3. good(x, n)
    BY <1>6 DEF x
  <2>4. \A t \in Tasks : /\ Seen(list, n, t) \in Nat
                         /\ Seen(list, n + 1, t) = Seen(list, n, t) + (IF u = t THEN 1 ELSE 0)
    BY <1>1, <2>1, SeenGrows
  <2> HIDE DEF u
  <2>5. x.degree[u] = s.degree[u] - Seen(list, n, u)
    BY <2>1, <2>3
  <2>6. ASSUME NEW t \in Tasks
        PROVE  Visit(x, u).degree[t] = s.degree[t] - Seen(list, n + 1, t)
    <3>1. Visit(x, u).degree[t] = IF t = u THEN x.degree[t] - 1 ELSE x.degree[t]
      BY <2>1, <2>2
    <3>2. x.degree[t] = s.degree[t] - Seen(list, n, t) /\ s.degree[t] \in Int
      BY <1>3, <2>3
    <3>3. /\ Seen(list, n, t) \in Nat
          /\ Seen(list, n + 1, t) = IF u = t THEN Seen(list, n, t) + 1 ELSE Seen(list, n, t)
      BY <2>4
    <3> DEFINE now == s.degree[t]
               before == Seen(list, n, t)
               after == Seen(list, n + 1, t)
               left == x.degree[t]
    <3>4. /\ now \in Int /\ before \in Int /\ left = now - before
          /\ u = t => after = before + 1
          /\ u # t => after = before
      BY <3>2, <3>3
    <3>5. Visit(x, u).degree[t] = IF t = u THEN left - 1 ELSE left
      BY <3>1
    <3> HIDE DEF now, before, after, left
    <3>6. (IF t = u THEN left - 1 ELSE left) = now - after
      BY <3>4
    <3>7. Visit(x, u).degree[t] = now - after
      BY <3>5, <3>6
    <3> QED
      BY <3>7 DEF now, after
  <2>7. \A t \in Tasks : t # u => (t \in freed(n + 1) <=> t \in freed(n))
    BY <2>4
  <2>8. u \in freed(n + 1) <=> u \in freed(n) \/ x.degree[u] = 1
    <3> DEFINE now == s.degree[u]
               before == Seen(list, n, u)
    <3>1. /\ now \in Int /\ before \in Nat /\ x.degree[u] = now - before
          /\ Seen(list, n + 1, u) = before + 1
      BY <1>3, <2>1, <2>4, <2>5
    <3>2. /\ u \in freed(n) <=> now \in 1 .. before
          /\ u \in freed(n + 1) <=> now \in 1 .. before + 1
      BY <2>1, <3>1
    <3> HIDE DEF now, before, freed
    <3>3. now \in 1 .. before + 1 <=> now \in 1 .. before \/ now - before = 1
      BY <3>1
    <3> QED
      BY <3>1, <3>2, <3>3
  <2>9. CASE x.degree[u] = 1
    <3>1. u \notin freed(n) /\ s.degree[u] # 0
      <4>1. s.degree[u] \in Int /\ Seen(list, n, u) \in Nat /\ s.degree[u] - Seen(list, n, u) = 1
        BY <1>3, <2>1, <2>4, <2>5, <2>9
      <4> QED
        BY <4>1
    <3>2. u \notin Range(x.ready)
      BY <1>4, <2>3, <3>1
    <3>3. freed(n + 1) = freed(n) \cup {u}
      <4> HIDE DEF freed
      <4>1. freed(n + 1) \subseteq Tasks /\ freed(n) \subseteq Tasks
        BY DEF freed
      <4> QED
        BY <2>1, <2>7, <2>8, <2>9, <4>1
    <3>4. IsInjective(Append(x.ready, u)) /\ Range(Append(x.ready, u)) = Range(x.ready) \cup {u}
      BY <2>1, <2>3, <3>2, AppendDistinct, AppendAddsOne
    <3> HIDE DEF freed, rest
    <3>5. IsInjective(Visit(x, u).ready) /\ Range(Visit(x, u).ready) = rest \cup freed(n + 1)
      BY <2>2, <2>3, <2>9, <3>3, <3>4
    <3> QED
      BY <2>1, <2>2, <2>3, <2>6, <3>5
  <2>10. CASE x.degree[u] # 1
    <3>1. freed(n + 1) = freed(n)
      <4> HIDE DEF freed
      <4>1. freed(n + 1) \subseteq Tasks /\ freed(n) \subseteq Tasks
        BY DEF freed
      <4>2. u \in freed(n + 1) <=> u \in freed(n)
        BY <2>8, <2>10
      <4>3. \A t \in Tasks : t \in freed(n + 1) <=> t \in freed(n)
        BY <2>7, <4>2
      <4> QED
        BY <4>1, <4>3
    <3> HIDE DEF freed, rest
    <3>2. IsInjective(Visit(x, u).ready) /\ Range(Visit(x, u).ready) = rest \cup freed(n + 1)
      BY <2>2, <2>3, <2>10, <3>1
    <3> QED
      BY <2>1, <2>2, <2>3, <2>6, <3>2
  <2> QED
    BY <2>9, <2>10
<1>7. good(f[Len(list)], Len(list))
  <2> DEFINE turns == {n \in 0 .. Len(list) : good(f[n], n)}
  <2>1. 0 \in turns
    BY <1>1, <1>5
  <2>2. ASSUME NEW n \in 0 .. Len(list) - 1, n \in turns PROVE n + 1 \in turns
    <3>1. n + 1 \in 0 .. Len(list)
      BY <1>1
    <3> HIDE DEF good
    <3> QED
      BY <1>6, <2>2, <3>1
  <2> HIDE DEF turns
  <2>3. 0 .. Len(list) \subseteq turns
    BY <1>1, <2>1, <2>2, AllNumbers
  <2>4. Len(list) \in 0 .. Len(list)
    BY <1>1
  <2>5. Len(list) \in turns
    BY <2>3, <2>4
  <2> HIDE DEF good
  <2> QED
    BY <2>5 DEF turns
<1>8. \A t \in Tasks : Seen(list, Len(list), t) = Copies(t, list)
  BY <1>1, SeenGrows
<1>9. good(Pop(s), Len(list)) /\ Pop(s) \in States
  <2> HIDE DEF good
  <2> QED
    BY <1>1, <1>2, <1>7
<1> QED
  BY <1>8, <1>9 DEF list

\* What holds before and after every turn of the outer loop: the tasks put out and the
\* ready ones are tasks of the graph, each of them once; a task counts the
\* dependencies that have yet to be put out, and is ready or out once it counts none;
\* and what is out came after its dependencies.
BehindDependencies(order) ==
  \A i \in DOMAIN order : \A u \in Range(dependencies[order[i]]) :
    \E j \in 1 .. i - 1 : order[j] = u

LoopInv(s) ==
  /\ s \in States
  /\ Range(s.order) \subseteq graph /\ Range(s.ready) \subseteq graph
  /\ IsInjective(s.order) /\ IsInjective(s.ready) /\ Range(s.order) \cap Range(s.ready) = {}
  /\ \A t \in graph : s.degree[t] = HowMany(dependencies[t], Tasks \ Range(s.order))
  /\ \A t \in graph : s.degree[t] = 0 <=> t \in Range(s.ready) \cup Range(s.order)
  /\ BehindDependencies(s.order)

\* A set that is listed without repetition is listed whole.
LEMMA ListedWhole ==
  ASSUME NEW S, IsFiniteSet(S), NEW s \in SetToSeqs(S)
  PROVE  DOMAIN s = 1 .. Cardinality(S) /\ s \in Seq(S) /\ IsInjective(s) /\ Range(s) = S
<1>1. Cardinality(S) \in Nat
  BY FS_CardinalityType
<1>2. s \in [1 .. Cardinality(S) -> S] /\ IsInjective(s)
  BY DEF SetToSeqs, IsInjective
<1>3. s \in Injection(1 .. Cardinality(S), S)
  BY <1>2 DEF Injection
<1>4. Cardinality(1 .. Cardinality(S)) = Cardinality(S)
  BY <1>1, FS_Interval
<1>5. s \in Surjection(1 .. Cardinality(S), S)
  BY <1>3, <1>4, FS_Injection
<1> QED
  BY <1>1, <1>2, <1>5 DEF Surjection, Range

LEMMA CountedIsRight ==
  ASSUME GraphInv, IsFiniteSet(graph), NEW sources \in SetToSeqs(Sources)
  PROVE  LoopInv(Counted(sources)) /\ Counted(sources).order = << >>
<1> DEFINE s == Counted(sources)
<1>1. dependencies \in [Tasks -> Seq(Tasks)] /\ graph \subseteq Tasks
  BY DEF GraphInv, EdgeTypes
<1>2. Sources \subseteq graph /\ IsFiniteSet(Sources)
  BY FS_Subset DEF Sources
<1>3. sources \in Seq(Sources) /\ IsInjective(sources) /\ Range(sources) = Sources
  BY <1>2, ListedWhole
<1>4. sources \in Seq(Tasks)
  BY <1>1, <1>2, <1>3
<1>5. \A t \in Tasks : Len(dependencies[t]) \in Nat
  BY <1>1
<1>6. /\ s.ready = sources /\ s.order = << >>
      /\ s.degree = [t \in Tasks |-> IF t \in graph THEN Len(dependencies[t]) ELSE 0]
  BY DEF Counted
<1>7. s \in States
  BY <1>4, <1>5 DEF Counted, States
<1> HIDE DEF s
<1>8. Range(s.order) = {} /\ IsInjective(s.order) /\ BehindDependencies(s.order)
  BY <1>6 DEF Range, IsInjective, BehindDependencies
<1>9. ASSUME NEW t \in graph
      PROVE  /\ s.degree[t] = HowMany(dependencies[t], Tasks \ Range(s.order))
             /\ s.degree[t] = 0 <=> t \in Range(s.ready) \cup Range(s.order)
  <2>1. t \in Tasks /\ dependencies[t] \in Seq(Tasks) /\ s.degree[t] = Len(dependencies[t])
    BY <1>1, <1>6
  <2>2. Places(dependencies[t], Tasks) = 1 .. Len(dependencies[t])
    BY <2>1 DEF Places
  <2>3. Len(dependencies[t]) \in Nat /\ (Len(dependencies[t]) = 0 <=> dependencies[t] = << >>)
    BY <2>1
  <2>4. HowMany(dependencies[t], Tasks) = Len(dependencies[t])
    BY <2>2, <2>3, FS_Interval DEF HowMany
  <2>5. Tasks \ Range(s.order) = Tasks
    BY <1>8
  <2>6. t \in Range(s.ready) \cup Range(s.order) <=> dependencies[t] = << >>
    BY <1>3, <1>6, <1>8 DEF Sources
  <2> QED
    BY <2>1, <2>3, <2>4, <2>5, <2>6
<1>10. Range(s.ready) \subseteq graph /\ IsInjective(s.ready)
  BY <1>2, <1>3, <1>6
<1> QED
  BY <1>6, <1>7, <1>8, <1>9, <1>10 DEF LoopInv, s

\* A turn puts out one task, and keeps the invariant.
LEMMA PopIsRight ==
  ASSUME GraphInv, NEW s, LoopInv(s), s.ready # << >>
  PROVE  LoopInv(Pop(s)) /\ Len(Pop(s).order) = Len(s.order) + 1
<1> DEFINE h == Head(s.ready)
           p == Pop(s)
           out == Tasks \ Range(s.order)
<1>1. /\ dependencies \in [Tasks -> Seq(Tasks)] /\ dependents \in [Tasks -> Seq(Tasks)]
      /\ graph \subseteq Tasks
  BY DEF GraphInv, EdgeTypes
<1>2. s \in States /\ s.ready \in Seq(Tasks) /\ s.order \in Seq(Tasks)
  BY DEF LoopInv, States
<1>3. h \in Range(s.ready) /\ h \in graph /\ h \in Tasks /\ h \notin Range(s.order)
  BY <1>1, <1>2, TailDistinct DEF LoopInv
<1>4. \A t \in Range(s.ready) : s.degree[t] = 0
  BY DEF LoopInv
<1>5. /\ p \in States /\ p.order = Append(s.order, h)
      /\ \A t \in Tasks : p.degree[t] = s.degree[t] - Copies(t, dependents[h])
      /\ IsInjective(p.ready)
      /\ Range(p.ready) = (Range(s.ready) \ {h})
           \cup {t \in Tasks : s.degree[t] \in 1 .. Copies(t, dependents[h])}
  BY <1>1, <1>2, <1>4, PopEffect DEF LoopInv
<1> HIDE DEF h, p, out
<1>6. /\ Range(p.order) = Range(s.order) \cup {h} /\ IsInjective(p.order)
      /\ Len(p.order) = Len(s.order) + 1
  BY <1>2, <1>3, <1>5, AppendAddsOne, AppendDistinct DEF LoopInv
<1>7. ASSUME NEW t \in graph
      PROVE  /\ p.degree[t] = HowMany(dependencies[t], Tasks \ Range(p.order))
             /\ p.degree[t] \in Nat /\ s.degree[t] \in Nat
             /\ Copies(t, dependents[h]) \in Nat
             /\ p.degree[t] = s.degree[t] - Copies(t, dependents[h])
             /\ Copies(t, dependents[h]) > 0 => t \in Range(dependents[h])
  <2>1. t \in Tasks /\ dependencies[t] \in Seq(Tasks) /\ dependents[h] \in Seq(Tasks)
    BY <1>1, <1>3
  <2>2. h \in out /\ out \ {h} = Tasks \ Range(p.order)
    BY <1>3, <1>6 DEF out
  <2>3. HowMany(dependencies[t], out) =
          HowMany(dependencies[t], out \ {h}) + HowMany(dependencies[t], {h})
    BY <2>1, <2>2, OneAndTheOthers
  <2>4. HowMany(dependencies[t], {h}) = Copies(t, dependents[h])
    BY <1>3, CopiesAreCounted DEF GraphInv, EdgesMirror
  <2>5. s.degree[t] = HowMany(dependencies[t], out)
    BY DEF LoopInv, out
  <2>6. /\ HowMany(dependencies[t], out) \in Nat /\ HowMany(dependencies[t], out \ {h}) \in Nat
        /\ HowMany(dependencies[t], {h}) \in Nat
    BY <2>1, PlacesFinite
  <2>7. p.degree[t] = s.degree[t] - Copies(t, dependents[h])
    BY <1>5, <2>1
  <2>8. p.degree[t] = HowMany(dependencies[t], out \ {h})
    <3> DEFINE all == HowMany(dependencies[t], out)
               others == HowMany(dependencies[t], out \ {h})
               one == HowMany(dependencies[t], {h})
    <3>1. all = others + one /\ all \in Nat /\ others \in Nat /\ one \in Nat
      BY <2>3, <2>6
    <3>2. p.degree[t] = all - one
      BY <2>4, <2>5, <2>7
    <3> HIDE DEF all, others, one
    <3>3. p.degree[t] = others
      BY <3>1, <3>2
    <3> QED
      BY <3>3 DEF others
  <2>9. Copies(t, dependents[h]) > 0 => t \in Range(dependents[h])
    <3>1. Copies(t, dependents[h]) = HowMany(dependents[h], {t})
      BY CopiesAreCounted
    <3>2. HowMany(dependents[h], {t}) = 0 <=> Range(dependents[h]) \cap {t} = {}
      BY <2>1, PlacesFinite
    <3>3. Copies(t, dependents[h]) > 0 => Range(dependents[h]) \cap {t} # {}
      BY <3>1, <3>2
    <3> QED
      BY <3>3
  <2> QED
    BY <2>2, <2>4, <2>5, <2>6, <2>7, <2>8, <2>9
<1>8. Range(dependents[h]) \subseteq graph
  BY <1>3 DEF GraphInv, EdgesMirror
<1>9. \A t \in Tasks : s.degree[t] \in 1 .. Copies(t, dependents[h]) => t \in graph
  <2> SUFFICES ASSUME NEW t \in Tasks, s.degree[t] \in 1 .. Copies(t, dependents[h])
               PROVE  t \in Range(dependents[h])
    BY <1>8
  <2>1. dependents[h] \in Seq(Tasks)
    BY <1>1, <1>3
  <2>2. HowMany(dependents[h], {t}) \in Nat /\ HowMany(dependents[h], {t}) # 0
    BY <2>1, CopiesAreCounted, PlacesFinite
  <2> QED
    BY <2>1, <2>2, PlacesFinite
<1>10. Range(p.order) \subseteq graph /\ Range(p.ready) \subseteq graph
  BY <1>3, <1>5, <1>6, <1>9 DEF LoopInv
<1>11. ASSUME NEW t \in graph
       PROVE  p.degree[t] = 0 <=> t \in Range(p.ready) \cup Range(p.order)
  <2> DEFINE freed == s.degree[t] \in 1 .. Copies(t, dependents[h])
  <2>1. p.degree[t] = 0 <=> s.degree[t] = 0 \/ freed
    <3> DEFINE less == Copies(t, dependents[h])
               was == s.degree[t]
               is == p.degree[t]
    <3>1. less \in Nat /\ was \in Nat /\ is \in Nat /\ is = was - less
      BY <1>7
    <3> HIDE DEF less, was, is
    <3>2. is = 0 <=> was = 0 \/ was \in 1 .. less
      BY <3>1
    <3> QED
      BY <3>2 DEF less, was, is
  <2>2. s.degree[t] = 0 <=> t \in Range(s.ready) \cup Range(s.order)
    BY DEF LoopInv
  <2>3. t \in Tasks
    BY <1>1
  <2> HIDE DEF freed
  <2>4. t \in Range(p.ready) <=> (t \in Range(s.ready) /\ t # h) \/ freed
    BY <1>5, <2>3 DEF freed
  <2>5. t \in Range(p.order) <=> t \in Range(s.order) \/ t = h
    BY <1>6
  <2> QED
    BY <1>3, <2>1, <2>2, <2>4, <2>5
<1>12. Range(p.order) \cap Range(p.ready) = {}
  <2> SUFFICES ASSUME NEW t \in Range(p.order), t \in Range(p.ready) PROVE FALSE
    OBVIOUS
  <2>1. t \in graph /\ t \in Range(s.order) \cup {h}
    BY <1>6, <1>10
  <2>2. s.degree[t] = 0
    BY <1>3, <2>1 DEF LoopInv
  <2>3. t \in Range(s.ready) \ {h}
    BY <1>5, <2>2
  <2> QED
    BY <2>1, <2>3 DEF LoopInv
<1>13. BehindDependencies(p.order)
  <2>1. /\ DOMAIN p.order = 1 .. Len(s.order) + 1 /\ Len(s.order) \in Nat
        /\ DOMAIN s.order = 1 .. Len(s.order)
        /\ p.order[Len(s.order) + 1] = h
        /\ \A i \in 1 .. Len(s.order) : p.order[i] = s.order[i]
    BY <1>2, <1>3, <1>5
  <2>2. Range(dependencies[h]) \subseteq Range(s.order)
    <3>1. s.degree[h] = 0
      BY <1>3, <1>4
    <3>2. HowMany(dependencies[h], out) = 0
      BY <1>3, <3>1 DEF LoopInv, out
    <3>3. dependencies[h] \in Seq(Tasks)
      BY <1>1, <1>3
    <3>4. Range(dependencies[h]) \cap out = {}
      BY <3>2, <3>3, PlacesFinite
    <3>5. Range(dependencies[h]) \subseteq Tasks
      BY <3>3 DEF Range
    <3> QED
      BY <3>4, <3>5 DEF out
  <2>3. ASSUME NEW i \in 1 .. Len(s.order) + 1, NEW u \in Range(dependencies[p.order[i]])
        PROVE  \E j \in 1 .. i - 1 : p.order[j] = u
    <3>1. CASE i \in 1 .. Len(s.order)
      <4>1. u \in Range(dependencies[s.order[i]])
        BY <2>1, <3>1
      <4>2. PICK j \in 1 .. i - 1 : s.order[j] = u
        BY <2>1, <3>1, <4>1 DEF LoopInv, BehindDependencies
      <4>3. j \in 1 .. Len(s.order)
        BY <2>1, <3>1
      <4> QED
        BY <2>1, <4>2, <4>3
    <3>2. CASE i = Len(s.order) + 1
      <4>1. u \in Range(s.order)
        BY <2>1, <2>2, <3>2
      <4>2. PICK j \in 1 .. Len(s.order) : s.order[j] = u
        BY <2>1, <4>1 DEF Range
      <4>3. j \in 1 .. i - 1
        BY <2>1, <3>2
      <4> QED
        BY <2>1, <4>2, <4>3
    <3> QED
      BY <3>1, <3>2
  <2> QED
    BY <2>1, <2>3 DEF BehindDependencies
<1>14. LoopInv(p)
  BY <1>5, <1>6, <1>7, <1>10, <1>11, <1>12, <1>13 DEF LoopInv
<1> QED
  BY <1>6, <1>14 DEF p

\* The outer loop, turn by turn
LEMMA TurnState ==
  ASSUME dependents \in [Tasks -> Seq(Tasks)], NEW s \in States
  PROVE  Turn(s) \in States
<1>1. CASE s.ready = << >>
  BY <1>1 DEF Turn
<1>2. CASE s.ready # << >>
  <2> DEFINE list == dependents[Head(s.ready)]
  <2>1. list \in Seq(Tasks)
    BY <1>2, PutOutState
  <2>2. PICK f \in [0 .. Len(list) -> States] : f[Len(list)] = Pop(s)
    BY <1>2, InnerLoop
  <2>3. Len(list) \in 0 .. Len(list)
    BY <2>1
  <2>4. f[Len(list)] \in States
    BY <2>2, <2>3
  <2> QED
    BY <1>2, <2>2, <2>4 DEF Turn
<1> QED
  BY <1>1, <1>2

LEMMA OuterLoop ==
  ASSUME dependents \in [Tasks -> Seq(Tasks)], IsFiniteSet(graph),
         NEW sources, Counted(sources) \in States
  PROVE  \E f \in [0 .. Cardinality(graph) -> States] :
           /\ f[0] = Counted(sources)
           /\ f[Cardinality(graph)].order = topological_order(sources)
           /\ \A n \in 0 .. Cardinality(graph) - 1 : f[n + 1] = Turn(f[n])
<1> DEFINE top == Cardinality(graph)
           a == Counted(sources)
           turn == [x \in States |-> Turn(x)]
           step == [n \in 1 .. top |-> turn]
           is(f) == f = [n \in 0 .. top |-> IF n = 0 THEN Counted(sources) ELSE Turn(f[n - 1])]
           after == CHOOSE f : is(f)
<1>1. top \in Nat
  BY FS_CardinalityType
<1>2. topological_order(sources) = after[top].order
  BY DEF topological_order
<1> HIDE DEF top
<1>3. turn \in [States -> States] /\ \A x \in States : turn[x] = Turn(x)
  BY TurnState
<1> HIDE DEF turn
<1>4. step \in [1 .. top -> [States -> States]] /\ \A n \in 1 .. top : step[n] = turn
  BY <1>3
<1> HIDE DEF step, a
<1>5. a \in States
  BY DEF a
<1>6. PICK f \in [0 .. top -> States] :
        f[0] = a /\ \A n \in 1 .. top : f[n] = step[n][f[n - 1]]
  <2> DEFINE S == States
  <2>1. top \in Nat /\ a \in S /\ step \in [1 .. top -> [S -> S]]
    BY <1>1, <1>4, <1>5
  <2> HIDE DEF S
  <2>2. \E f \in [0 .. top -> S] : Follows(f, a, top, step)
    BY <2>1, Iteration
  <2> QED
    BY <2>2 DEF Follows, S
<1>7. \A n \in 0 .. top - 1 : f[n + 1] = Turn(f[n])
  <2> SUFFICES ASSUME NEW n \in 0 .. top - 1 PROVE f[n + 1] = Turn(f[n])
    OBVIOUS
  <2>1. n + 1 \in 1 .. top /\ n + 1 - 1 = n /\ n \in 0 .. top
    BY <1>1
  <2>2. f[n] \in States
    BY <1>6, <2>1
  <2>3. f[n + 1] = step[n + 1][f[n + 1 - 1]]
    BY <1>6, <2>1
  <2> QED
    BY <1>3, <1>4, <2>1, <2>2, <2>3
<1>8. is(f)
  <2>1. \A n \in 0 .. top : n # 0 => n - 1 \in 0 .. top - 1 /\ n - 1 + 1 = n
    BY <1>1
  <2>2. \A n \in 0 .. top : n # 0 => f[n] = Turn(f[n - 1])
    BY <1>7, <2>1
  <2>3. \A n \in 0 .. top : f[n] = IF n = 0 THEN Counted(sources) ELSE Turn(f[n - 1])
    BY <1>6, <2>2 DEF a
  <2>4. f = [n \in 0 .. top |-> f[n]]
    BY <1>6
  <2> QED
    BY <2>3, <2>4
<1>9. \A g : is(g) => \A n \in 0 .. top : g[n] = f[n]
  <2> SUFFICES ASSUME NEW g, is(g) PROVE \A n \in 0 .. top : g[n] = f[n]
    OBVIOUS
  <2> DEFINE same == {n \in 0 .. top : g[n] = f[n]}
  <2>1. \A n \in 0 .. top :
          /\ g[n] = IF n = 0 THEN Counted(sources) ELSE Turn(g[n - 1])
          /\ f[n] = IF n = 0 THEN Counted(sources) ELSE Turn(f[n - 1])
    BY <1>8
  <2> HIDE DEF is
  <2>2. 0 \in same
    BY <1>1, <2>1
  <2>3. ASSUME NEW n \in 0 .. top - 1, n \in same PROVE n + 1 \in same
    <3>1. n + 1 \in 0 .. top /\ n + 1 # 0 /\ n + 1 - 1 = n
      BY <1>1
    <3>2. g[n + 1] = Turn(g[n + 1 - 1]) /\ f[n + 1] = Turn(f[n + 1 - 1])
      BY <2>1, <3>1
    <3> QED
      BY <2>3, <3>1, <3>2
  <2> HIDE DEF same
  <2>4. 0 .. top \subseteq same
    BY <1>1, <2>2, <2>3, AllNumbers
  <2> QED
    BY <2>4 DEF same
<1> HIDE DEF is
<1>10. is(after)
  BY <1>8
<1>11. after[top] = f[top]
  <2> HIDE DEF after
  <2> QED
    BY <1>1, <1>9, <1>10
<1> QED
  BY <1>2, <1>6, <1>7, <1>11 DEF top, a

\* What the function returns: the loop ended early, with no ready task left, or it put
\* out as many tasks as there are.
LEMMA OrderIsRight ==
  ASSUME GraphInv, IsFiniteSet(graph), NEW order \in Orders
  PROVE  /\ BehindDependencies(order) /\ IsInjective(order) /\ Range(order) \subseteq graph
         /\ order \in Seq(Tasks) /\ Len(order) = Cardinality(Range(order))
         /\ graph # Range(order) => IsCycle(graph \ Range(order))
<1> DEFINE top == Cardinality(graph)
<1>1. dependencies \in [Tasks -> Seq(Tasks)] /\ dependents \in [Tasks -> Seq(Tasks)]
      /\ graph \subseteq Tasks
  BY DEF GraphInv, EdgeTypes
<1>2. top \in Nat
  BY FS_CardinalityType
<1>3. PICK sources \in SetToSeqs(Sources) : order = topological_order(sources)
  BY DEF Orders
<1>4. LoopInv(Counted(sources)) /\ Counted(sources).order = << >>
  BY CountedIsRight
<1>5. PICK f \in [0 .. top -> States] :
        /\ f[0] = Counted(sources) /\ f[top].order = order
        /\ \A n \in 0 .. top - 1 : f[n + 1] = Turn(f[n])
  BY <1>1, <1>3, <1>4, OuterLoop DEF LoopInv
<1> HIDE DEF top
<1> DEFINE good(n) == LoopInv(f[n]) /\ (f[n].ready = << >> \/ Len(f[n].order) = n)
           turns == {n \in 0 .. top : good(n)}
<1>6. 0 \in turns
  BY <1>2, <1>4, <1>5
<1>7. ASSUME NEW n \in 0 .. top - 1, n \in turns PROVE n + 1 \in turns
  <2>1. n + 1 \in 0 .. top /\ good(n) /\ f[n + 1] = Turn(f[n])
    BY <1>2, <1>5, <1>7
  <2>2. CASE f[n].ready = << >>
    <3>1. f[n + 1] = f[n]
      BY <2>1, <2>2 DEF Turn
    <3>2. good(n + 1)
      BY <2>1, <2>2, <3>1
    <3> QED
      BY <2>1, <3>2
  <2>3. CASE f[n].ready # << >>
    <3>1. f[n + 1] = Pop(f[n])
      BY <2>1, <2>3 DEF Turn
    <3>2. LoopInv(f[n]) /\ Len(f[n].order) = n
      BY <2>1, <2>3
    <3>3. LoopInv(f[n + 1]) /\ Len(f[n + 1].order) = n + 1
      BY <2>3, <3>1, <3>2, PopIsRight
    <3> QED
      BY <2>1, <3>3
  <2> QED
    BY <2>2, <2>3
<1>8. good(top)
  <2> HIDE DEF turns
  <2>1. 0 .. top \subseteq turns
    BY <1>2, <1>6, <1>7, AllNumbers
  <2>2. top \in 0 .. top
    BY <1>2
  <2> QED
    BY <2>1, <2>2 DEF turns
<1> DEFINE s == f[top]
<1>9. LoopInv(s) /\ s.order = order /\ (s.ready = << >> \/ Len(order) = top)
  BY <1>5, <1>8
<1> HIDE DEF s, good, turns
<1>10. BehindDependencies(order) /\ IsInjective(order) /\ Range(order) \subseteq graph
  BY <1>9 DEF LoopInv
<1>11. order \in Seq(Tasks) /\ DOMAIN order = 1 .. Len(order) /\ Len(order) \in Nat
  <2>1. s.order \in Seq(Tasks)
    BY <1>9 DEF LoopInv, States
  <2> QED
    BY <1>9, <2>1
<1>12. Len(order) = Cardinality(Range(order))
  <2>1. order \in Surjection(1 .. Len(order), Range(order))
    <3>1. order = [i \in 1 .. Len(order) |-> order[i]]
      BY <1>11
    <3>2. \A i \in 1 .. Len(order) : order[i] \in Range(order)
      BY <1>11 DEF Range
    <3>3. \A t \in Range(order) : \E i \in 1 .. Len(order) : order[i] = t
      BY <1>11 DEF Range
    <3>4. order \in [1 .. Len(order) -> Range(order)]
      BY <3>1, <3>2
    <3> QED
      BY <3>3, <3>4 DEF Surjection
  <2>2. order \in Injection(1 .. Len(order), Range(order))
    BY <1>10, <2>1 DEF Surjection, Injection
  <2>3. IsFiniteSet(1 .. Len(order)) /\ Cardinality(1 .. Len(order)) = Len(order)
    <3> DEFINE length == Len(order)
    <3>1. length \in Nat
      BY <1>11
    <3> HIDE DEF length
    <3>2. IsFiniteSet(1 .. length) /\ Cardinality(1 .. length) = length
      BY <3>1, FS_Interval
    <3> QED
      BY <3>2 DEF length
  <2> QED
    BY <2>1, <2>2, <2>3, FS_Surjection
<1>13. ASSUME graph # Range(order) PROVE IsCycle(graph \ Range(order))
  <2>1. Len(order) # top
    BY <1>10, <1>12, <1>13, FS_Subset DEF top
  <2>2. Range(s.ready) = {}
    BY <1>9, <2>1 DEF Range
  <2>3. graph \ Range(order) # {}
    BY <1>10, <1>13
  <2>4. ASSUME NEW t \in graph \ Range(order)
        PROVE  Range(dependencies[t]) \cap (graph \ Range(order)) # {}
    <3>1. HowMany(dependencies[t], Tasks \ Range(order)) # 0
      BY <1>9, <2>2 DEF LoopInv
    <3>2. dependencies[t] \in Seq(Tasks)
      BY <1>1
    <3>3. Range(dependencies[t]) \cap (Tasks \ Range(order)) # {}
      BY <3>1, <3>2, PlacesFinite
    <3>4. Range(dependencies[t]) \subseteq graph
      BY DEF GraphInv, EdgesMirror
    <3> QED
      BY <1>1, <3>3, <3>4
  <2> QED
    BY <2>3, <2>4 DEF IsCycle
<1> QED
  BY <1>10, <1>11, <1>12, <1>13

\* has_cycles() is right when it makes the order: no task of a cycle can be the first of
\* them to be put out.
LEMMA CountTellsCycles ==
  ASSUME GraphInv, IsFiniteSet(graph), NEW order \in Orders
  PROVE  Len(order) # Cardinality(graph) <=> Cyclic
<1>1. /\ BehindDependencies(order) /\ Range(order) \subseteq graph
      /\ order \in Seq(Tasks) /\ Len(order) = Cardinality(Range(order))
      /\ graph # Range(order) => IsCycle(graph \ Range(order))
  BY OrderIsRight
<1>2. Len(order) = Cardinality(graph) <=> graph = Range(order)
  BY <1>1, FS_Subset
<1>3. ASSUME graph # Range(order) PROVE Cyclic
  BY <1>1, <1>3 DEF Cyclic
<1>4. ASSUME graph = Range(order), NEW S \in SUBSET graph, IsCycle(S) PROVE FALSE
  <2> DEFINE top == Len(order)
             free == {n \in 0 .. top : \A i \in 1 .. n : order[i] \notin S}
  <2>1. top \in Nat /\ DOMAIN order = 1 .. top
    BY <1>1
  <2>2. 0 \in free
    BY <2>1
  <2>3. ASSUME NEW n \in 0 .. top - 1, n \in free PROVE n + 1 \in free
    <3>1. n + 1 \in 0 .. top /\ n + 1 \in DOMAIN order /\ n \in Nat
      BY <2>1
    <3>2. ASSUME order[n + 1] \in S PROVE FALSE
      <4>1. PICK u \in Range(dependencies[order[n + 1]]) : u \in S
        BY <1>4, <3>2 DEF IsCycle
      <4>2. ASSUME NEW i \in DOMAIN order, i = n + 1 PROVE \E j \in 1 .. i - 1 : order[j] = u
        BY <1>1, <4>1, <4>2 DEF BehindDependencies
      <4>3. PICK j \in 1 .. n : order[j] = u
        <5>1. 1 .. n + 1 - 1 = 1 .. n
          BY <3>1
        <5>2. \E j \in 1 .. n + 1 - 1 : order[j] = u
          BY <3>1, <4>2
        <5> QED
          BY <5>1, <5>2
      <4> QED
        BY <2>3, <4>1, <4>3
    <3>3. \A i \in 1 .. n + 1 : i \in 1 .. n \/ i = n + 1
      BY <3>1
    <3> QED
      BY <2>3, <3>1, <3>2, <3>3
  <2> HIDE DEF free, top
  <2>4. 0 .. top \subseteq free
    BY <2>1, <2>2, <2>3, AllNumbers
  <2>5. top \in 0 .. top
    BY <2>1
  <2>6. \A i \in 1 .. top : order[i] \notin S
    BY <2>4, <2>5 DEF free
  <2>7. Range(order) \cap S = {}
    BY <2>1, <2>6 DEF Range
  <2> QED
    BY <1>4, <2>7 DEF IsCycle
<1> QED
  BY <1>2, <1>3, <1>4 DEF Cyclic

\* What is remembered between the two critical sections of has_cycles() is the truth of
\* the first one.
AskInv == asked # NotAsked => (asked # askedOf.size <=> askedOf.cyclic)

OrdersInv == GraphInv /\ IsFiniteSet(graph) /\ AskInv

LEMMA OrdersStep == OrdersInv /\ [TaskGraphNext]_graphTestVars => OrdersInv'
<1> SUFFICES ASSUME OrdersInv, [TaskGraphNext]_graphTestVars PROVE OrdersInv'
  OBVIOUS
<1>1. GraphInv'
  BY GraphStep DEF OrdersInv
<1>2. IsFiniteSet(graph')
  <2>1. (\E t \in Tasks : graph' = graph \cup {t}) \/ graph' \in SUBSET graph
    BY DEF TaskGraphNext, AddTask, add_task, RemoveTask, remove_task, AddDependency,
           GraphAddDependency, clear, get_ready_tasks, Execute, ExecuteReturns,
           notify_task_completed, HasCyclesBegin, HasCyclesEnd, graphTestVars
  <2> QED
    BY <2>1, FS_AddElement, FS_Subset DEF OrdersInv
<1>3. CASE HasCyclesBegin
  <2>1. PICK order \in Orders : asked' = Len(order)
    BY <1>3 DEF HasCyclesBegin
  <2>2. askedOf'.size = Cardinality(graph) /\ askedOf'.cyclic = Cyclic
    BY <1>3 DEF HasCyclesBegin
  <2>3. Len(order) # Cardinality(graph) <=> Cyclic
    BY CountTellsCycles DEF OrdersInv
  <2>4. AskInv'
    BY <2>1, <2>2, <2>3 DEF AskInv
  <2> QED
    BY <1>1, <1>2, <2>4 DEF OrdersInv
<1>4. CASE HasCyclesEnd
  BY <1>1, <1>2, <1>4 DEF OrdersInv, AskInv, HasCyclesEnd, NotAsked
<1>5. CASE UNCHANGED askVars
  BY <1>1, <1>2, <1>5 DEF OrdersInv, AskInv, askVars, NotAsked
<1>6. HasCyclesBegin \/ HasCyclesEnd \/ UNCHANGED askVars
  BY DEF TaskGraphNext, AddTask, RemoveTask, AddDependency, clear, get_ready_tasks, Execute,
         ExecuteReturns, notify_task_completed, graphTestVars
<1> QED
  BY <1>3, <1>4, <1>5, <1>6

\* topological_order puts out every task after its dependencies, once, and leaves out
\* exactly those on a cycle or behind one; has_cycles() concludes the truth from it,
\* unless the number of tasks was changed between its two critical sections.
THEOREM OrdersAreSound == TaskGraphSpec => []OrdersSound
<1>1. TaskGraphInit => OrdersInv
  BY InitGraph, FS_EmptySet DEF TaskGraphInit, GraphInit, OrdersInv, AskInv
<1>2. OrdersInv => OrdersSound
  <2> SUFFICES ASSUME OrdersInv PROVE OrdersSound
    OBVIOUS
  <2>1. TopologicalOrderSound
    BY OrderIsRight DEF OrdersInv, TopologicalOrderSound, BehindDependencies
  <2>2. HasCyclesSound
    BY DEF OrdersInv, AskInv, HasCyclesSound, has_cycles
  <2> QED
    BY <2>1, <2>2 DEF OrdersSound
<1> QED
  BY <1>1, <1>2, OrdersStep, PTL DEF TaskGraphSpec


-----------------------------------------------------------------------------
(* The monitor                                                             *)

RecordSteps == {"idle", "running", "completed", "failed"} \cup StartSteps \cup ExtremaSteps

TypeInv ==
  /\ counters \in [Fields -> 0 .. CounterMax]
  /\ rpc \in [Recorders -> RecordSteps]
  /\ mine \in [Recorders -> 0 .. CounterMax] /\ seen \in [Recorders -> 0 .. CounterMax]
  /\ resetting \in 0 .. 6 /\ resets \in {0, 1} /\ torn \in BOOLEAN
  /\ resets = 0 => resetting = 0 /\ ~torn
  /\ highest \in 0 .. CounterMax

\* Only times are recorded.
TimesInv ==
  /\ times \subseteq Times
  /\ \A r \in Recorders : rpc[r] \in {"completed"} \cup ExtremaSteps => mine[r] \in Times

\* A reset() that tears nothing has the monitor for itself.
ResetInv ==
  ~torn /\ resetting # 0 =>
    /\ \A r \in Recorders : rpc[r] = "idle"
    /\ highest = 0 /\ times = {}
    /\ resetting > 3 => counters["max"] = 0
    /\ resetting > 4 => counters["min"] = CounterMax

\* The highest load is stored or on offer, nothing above it is, and a thread
\* that does not offer its own any more has seen no more than is stored.
PeakInv ==
  ~torn /\ resetting = 0 =>
    /\ counters["peak"] <= highest
    /\ counters["peak"] = highest \/ highest \in Pending(StartSteps)
    /\ \A r \in Recorders :
         /\ rpc[r] \in StartSteps => mine[r] <= highest
         /\ rpc[r] = "peak_cas" => seen[r] <= counters["peak"]

\* The same of the extrema; the maximum is raised before the minimum is lowered.
ExtremaInv ==
  ~torn /\ resetting = 0 =>
    /\ ExtremaExact
    /\ \A r \in Recorders :
         /\ rpc[r] = "max_cas" => seen[r] <= counters["max"]
         /\ rpc[r] = "min_cas" => counters["min"] <= seen[r]
         /\ rpc[r] \in {"min_load", "min_cas"} => mine[r] <= counters["max"]

MonitorInv == TypeInv /\ TimesInv /\ InflightCounts /\ ResetInv /\ PeakInv /\ ExtremaInv

\* The loops that raise the peak and the maximum and lower the minimum
Loops(r) == RaisePeak(r) \/ update_extrema(r)

USE TimesAssumption, RecordersAssumption

\* fetch_add and fetch_sub stay within the word.
LEMMA Wraps ==
  ASSUME NEW n \in 0 .. CounterMax
  PROVE  Atomic!Inc(n) \in 0 .. CounterMax /\ Atomic!Dec(n) \in 0 .. CounterMax
BY DEF Atomic!Inc, Atomic!Dec

LEMMA InitMonitor == MonitorThreadsInit => MonitorInv
<1> SUFFICES ASSUME MonitorThreadsInit PROVE MonitorInv
  OBVIOUS
<1>1. TypeInv
  <2>1. counters \in [Fields -> 0 .. CounterMax]
    BY DEF MonitorThreadsInit
  <2>2. rpc \in [Recorders -> RecordSteps]
    BY DEF MonitorThreadsInit, RecordSteps
  <2>3. mine \in [Recorders -> 0 .. CounterMax] /\ seen \in [Recorders -> 0 .. CounterMax]
    BY DEF MonitorThreadsInit
  <2>4. torn \in BOOLEAN /\ ~torn
    BY DEF MonitorThreadsInit
  <2>5. resetting \in 0 .. 6 /\ resets \in {0, 1} /\ highest \in 0 .. CounterMax /\ resetting = 0
    BY DEF MonitorThreadsInit
  <2> QED
    BY <2>1, <2>2, <2>3, <2>4, <2>5 DEF TypeInv
<1>6. TimesInv
  BY DEF MonitorThreadsInit, TimesInv, ExtremaSteps
<1>2. InFlight = {}
  BY DEF MonitorThreadsInit, InFlight, StartSteps
<1>3. InflightCounts
  BY <1>2, FS_EmptySet DEF MonitorThreadsInit, InflightCounts, Fields
<1>4. ResetInv /\ PeakInv
  BY DEF MonitorThreadsInit, ResetInv, PeakInv, StartSteps, Fields
<1>5. ExtremaInv
  BY DEF MonitorThreadsInit, ExtremaInv, ExtremaExact, Fields
<1> QED
  BY <1>1, <1>3, <1>4, <1>5, <1>6 DEF MonitorInv

LEMMA TypeStep ==
  ASSUME TypeInv, [MonitorThreadsNext]_monitorVars
  PROVE  TypeInv'
<1> USE DEF TypeInv, RecordSteps, StartSteps, ExtremaSteps, Fields
<1>1. ASSUME NEW r \in Recorders, StartAdd(r) PROVE TypeInv'
  <2>1. Atomic!Inc(counters["inflight"]) \in 0 .. CounterMax
    BY Wraps DEF Fields
  <2> QED
    BY <1>1, <2>1 DEF StartAdd, Step, Tear
<1>2. ASSUME NEW r \in Recorders, FailedAdd(r) \/ InflightSub(r) PROVE TypeInv'
  <2>1. /\ Atomic!Inc(counters["failed"]) \in 0 .. CounterMax
        /\ Atomic!Dec(counters["inflight"]) \in 0 .. CounterMax
    BY Wraps DEF Fields
  <2> QED
    BY <1>2, <2>1 DEF FailedAdd, InflightSub, Step, resetVars
<1>3. ASSUME NEW r \in Recorders, NEW time \in Times, CompletedAdd(r, time) PROVE TypeInv'
  <2>1. Atomic!Inc(counters["completed"]) \in 0 .. CounterMax
    BY Wraps DEF Fields
  <2> QED
    BY <1>3, <2>1 DEF CompletedAdd, Step, resetVars
<1>4. ASSUME NEW r \in Recorders, RaisePeak(r) PROVE TypeInv'
  <2>1. CASE LoadField(r, "peak", "peak_load", "peak_cas")
    BY <2>1 DEF LoadField, Step, resetVars
  <2>2. CASE UNCHANGED times /\ Swap(r, "peak", "peak_cas", "running")
    BY <2>2 DEF Swap, Drop, Step, resetVars
  <2>3. CASE UNCHANGED times /\ NoSwap(r, "peak_cas", "running")
    BY <2>3 DEF NoSwap, Drop, Step, resetVars
  <2>4. CASE SwapFails(r, "peak", "peak_cas")
    BY <2>4 DEF SwapFails, Step, resetVars
  <2> QED
    BY <1>4, <2>1, <2>2, <2>3, <2>4 DEF RaisePeak
<1>5. ASSUME NEW r \in Recorders, update_extrema(r) PROVE TypeInv'
  <2>1. CASE LoadField(r, "max", "max_load", "max_cas") \/ LoadField(r, "min", "min_load", "min_cas")
    BY <2>1 DEF LoadField, Step, resetVars
  <2>2. CASE UNCHANGED times /\ Swap(r, "max", "max_cas", "min_load")
    BY <2>2 DEF Swap, Drop, Step, resetVars
  <2>3. CASE UNCHANGED times /\ NoSwap(r, "max_cas", "min_load")
    BY <2>3 DEF NoSwap, Drop, Step, resetVars
  <2>4. CASE Recorded(r) /\ Swap(r, "min", "min_cas", "idle")
    BY <2>4 DEF Recorded, Swap, Drop, Step, resetVars
  <2>5. CASE Recorded(r) /\ NoSwap(r, "min_cas", "idle")
    BY <2>5 DEF Recorded, NoSwap, Drop, Step, resetVars
  <2>6. CASE SwapFails(r, "max", "max_cas") \/ SwapFails(r, "min", "min_cas")
    BY <2>6 DEF SwapFails, Step, resetVars
  <2> QED
    BY <1>5, <2>1, <2>2, <2>3, <2>4, <2>5, <2>6 DEF update_extrema
<1>6. CASE ResetBegin
  BY <1>6 DEF ResetBegin, threadLocals
<1>7. CASE ResetStore
  BY <1>7 DEF ResetStore, ResetOrder, threadLocals
<1>8. CASE UNCHANGED monitorVars
  BY <1>8 DEF monitorVars, threadLocals, resetVars
<1> QED
  BY <1>1, <1>2, <1>3, <1>4, <1>5, <1>6, <1>7, <1>8 DEF MonitorThreadsNext

LEMMA TimesStep ==
  ASSUME TypeInv, TimesInv, [MonitorThreadsNext]_monitorVars
  PROVE  TimesInv'
<1> USE DEF TypeInv, TimesInv, StartSteps, ExtremaSteps
<1>1. ASSUME NEW r \in Recorders, StartAdd(r) PROVE TimesInv'
  BY <1>1 DEF StartAdd, Step
<1>2. ASSUME NEW r \in Recorders, FailedAdd(r) \/ InflightSub(r) PROVE TimesInv'
  BY <1>2 DEF FailedAdd, InflightSub, Step
<1>3. ASSUME NEW r \in Recorders, NEW time \in Times, CompletedAdd(r, time) PROVE TimesInv'
  BY <1>3 DEF CompletedAdd, Step
<1>4. ASSUME NEW r \in Recorders, RaisePeak(r) PROVE TimesInv'
  BY <1>4 DEF RaisePeak, LoadField, Swap, SwapFails, NoSwap, Drop, Step
<1>5. ASSUME NEW r \in Recorders, update_extrema(r) PROVE TimesInv'
  BY <1>5 DEF update_extrema, LoadField, Swap, SwapFails, NoSwap, Drop, Step, Recorded
<1>6. CASE ResetBegin \/ ResetStore \/ UNCHANGED monitorVars
  BY <1>6 DEF ResetBegin, ResetStore, monitorVars, threadLocals
<1> QED
  BY <1>1, <1>2, <1>3, <1>4, <1>5, <1>6 DEF MonitorThreadsNext

\* A thread that begins or ends a task changes the number in flight by one, and the
\* counter as much: it cannot wrap, because there are not as many threads.
LEMMA LoadStep ==
  ASSUME TypeInv, InflightCounts, ResetInv, [MonitorThreadsNext]_monitorVars
  PROVE  InflightCounts'
<1> USE DEF TypeInv, InflightCounts, Fields
<1>1. /\ IsFiniteSet(InFlight) /\ Cardinality(InFlight) \in Nat
      /\ Cardinality(InFlight) <= Cardinality(Recorders) /\ Cardinality(Recorders) \in Nat
  BY FS_Subset, FS_CardinalityType DEF InFlight
<1>2. ASSUME NEW r \in Recorders, StartAdd(r) PROVE InflightCounts'
  <2>1. r \notin InFlight /\ InFlight' = InFlight \cup {r}
    BY <1>2 DEF StartAdd, Step, InFlight, StartSteps
  <2>2. Cardinality(InFlight') = Cardinality(InFlight) + 1
    BY <1>1, <2>1, FS_AddElement
  <2>3. Cardinality(InFlight') <= Cardinality(Recorders)
    BY FS_Subset DEF InFlight
  <2>4. counters'["inflight"] = Atomic!Inc(counters["inflight"]) /\ (~torn' => ~torn)
    BY <1>2 DEF StartAdd, Tear
  <2> QED
    BY <1>1, <2>2, <2>3, <2>4 DEF Atomic!Inc
<1>3. ASSUME NEW r \in Recorders, InflightSub(r) PROVE InflightCounts'
  <2>1. r \in InFlight /\ InFlight' = InFlight \ {r}
    BY <1>3 DEF InflightSub, Step, InFlight, StartSteps
  <2>2. Cardinality(InFlight') = Cardinality(InFlight) - 1 /\ Cardinality(InFlight) > 0
    BY <1>1, <2>1, FS_RemoveElement, FS_EmptySet
  <2>4. counters'["inflight"] = Atomic!Dec(counters["inflight"]) /\ torn' = torn
    BY <1>3 DEF InflightSub, resetVars
  <2> QED
    BY <1>1, <2>2, <2>4 DEF Atomic!Dec
<1>4. ASSUME NEW r \in Recorders, FailedAdd(r) \/ \E time \in Times : CompletedAdd(r, time)
      PROVE  InflightCounts'
  <2>1. InFlight' = InFlight
    BY <1>4 DEF FailedAdd, CompletedAdd, Step, InFlight, StartSteps
  <2> QED
    BY <1>4, <2>1 DEF FailedAdd, CompletedAdd, resetVars
<1>5. ASSUME NEW r \in Recorders, RaisePeak(r) \/ update_extrema(r) PROVE InflightCounts'
  <2>1. InFlight' = InFlight
    BY <1>5 DEF RaisePeak, update_extrema, LoadField, Swap, SwapFails, NoSwap, Step, InFlight,
                StartSteps
  <2>2. counters'["inflight"] = counters["inflight"] /\ torn' = torn
    BY <1>5 DEF RaisePeak, update_extrema, LoadField, Swap, SwapFails, NoSwap, Drop, resetVars
  <2> QED
    BY <2>1, <2>2
<1>6. CASE ResetBegin
  <2>1. InFlight' = InFlight /\ counters' = counters
    BY <1>6 DEF ResetBegin, threadLocals, InFlight
  <2>2. ~torn
    BY <1>6 DEF ResetBegin
  <2> QED
    BY <2>1, <2>2
<1>7. CASE ResetStore
  <2> SUFFICES ASSUME ~torn PROVE InflightCounts'
    BY <1>7 DEF ResetStore
  <2>1. InFlight = {} /\ InFlight' = InFlight
    BY <1>7 DEF ResetStore, ResetInv, InFlight, StartSteps, threadLocals
  <2>2. counters'["inflight"] \in {0, counters["inflight"]}
    BY <1>7 DEF ResetStore
  <2> QED
    BY <2>1, <2>2, FS_EmptySet
<1>8. CASE UNCHANGED monitorVars
  BY <1>8 DEF monitorVars, threadLocals, resetVars, InFlight
<1> QED
  BY <1>2, <1>3, <1>4, <1>5, <1>6, <1>7, <1>8 DEF MonitorThreadsNext

\* reset() runs through its stores with nobody in its way, or it tears.
LEMMA ResetStep ==
  ASSUME TypeInv, ResetInv, [MonitorThreadsNext]_monitorVars
  PROVE  ResetInv'
<1> USE DEF TypeInv, ResetInv, Fields
<1>1. ASSUME NEW r \in Recorders, StartAdd(r) PROVE ResetInv'
  BY <1>1 DEF StartAdd, Tear
<1>2. ASSUME NEW r \in Recorders, Loops(r) PROVE rpc[r] # "idle" /\ UNCHANGED resetVars
  BY <1>2 DEF Loops, RaisePeak, update_extrema, LoadField, Swap, SwapFails, NoSwap, Drop, Step,
              resetVars
<1>3. ASSUME NEW r \in Recorders,
             FailedAdd(r) \/ InflightSub(r) \/ \E time \in Times : CompletedAdd(r, time)
      PROVE  rpc[r] # "idle" /\ UNCHANGED resetVars
  BY <1>3 DEF FailedAdd, InflightSub, CompletedAdd, Step
<1>4. ASSUME NEW r \in Recorders, rpc[r] # "idle", UNCHANGED resetVars PROVE ResetInv'
  BY <1>4 DEF resetVars
<1>5. CASE ResetBegin
  BY <1>5 DEF ResetBegin, threadLocals
<1>6. CASE ResetStore
  BY <1>6 DEF ResetStore, ResetOrder, threadLocals
<1>7. CASE UNCHANGED monitorVars
  BY <1>7 DEF monitorVars, threadLocals, resetVars
<1> QED
  BY <1>1, <1>2, <1>3, <1>4, <1>5, <1>6, <1>7 DEF MonitorThreadsNext, Loops

\* No offer of a load is lost: a thread gives up only what is stored already, and
\* replaces only the value it has compared.
LEMMA PeakStep ==
  ASSUME TypeInv, ResetInv, PeakInv, [MonitorThreadsNext]_monitorVars
  PROVE  PeakInv'
<1> USE DEF TypeInv, PeakInv, Fields, StartSteps, Pending
<1>1. ASSUME NEW r \in Recorders, StartAdd(r) PROVE PeakInv'
  <2> SUFFICES ASSUME ~torn', resetting' = 0 PROVE PeakInv'
    OBVIOUS
  <2> DEFINE inflight == Atomic!Inc(counters["inflight"])
  <2>1. ~torn /\ resetting = 0 /\ inflight \in 0 .. CounterMax
    BY <1>1, Wraps DEF StartAdd, Tear
  <2>2. rpc[r] = "idle" /\ rpc' = [rpc EXCEPT ![r] = "peak_load"] /\ seen' = seen
    BY <1>1 DEF StartAdd, Step
  <2>3. mine' = [mine EXCEPT ![r] = inflight] /\ counters'["peak"] = counters["peak"]
    BY <1>1 DEF StartAdd
  <2>4. highest' = IF inflight > highest THEN inflight ELSE highest
    BY <1>1 DEF StartAdd
  <2> HIDE DEF inflight
  <2>5. \A q \in Recorders : q # r => rpc'[q] = rpc[q] /\ mine'[q] = mine[q]
    BY <2>2, <2>3
  <2>6. rpc'[r] = "peak_load" /\ mine'[r] = inflight
    BY <2>2, <2>3
  <2>7. counters'["peak"] <= highest'
    BY <2>1, <2>3, <2>4
  <2>8. counters'["peak"] = highest' \/ highest' \in Pending(StartSteps)'
    BY <2>1, <2>2, <2>3, <2>4, <2>5, <2>6
  <2>9. ASSUME NEW q \in Recorders
        PROVE  /\ rpc'[q] \in StartSteps => mine'[q] <= highest'
               /\ rpc'[q] = "peak_cas" => seen'[q] <= counters'["peak"]
    BY <2>1, <2>2, <2>3, <2>4, <2>5, <2>6
  <2> QED
    BY <2>7, <2>8, <2>9
<1>2. ASSUME NEW r \in Recorders, RaisePeak(r) PROVE PeakInv'
  <2> SUFFICES ASSUME ~torn', resetting' = 0 PROVE PeakInv'
    OBVIOUS
  <2>0. ~torn /\ resetting = 0 /\ highest' = highest
    BY <1>2 DEF RaisePeak, LoadField, Swap, SwapFails, NoSwap, Drop, resetVars
  <2>1. CASE LoadField(r, "peak", "peak_load", "peak_cas") \/ SwapFails(r, "peak", "peak_cas")
    <3>1. /\ rpc[r] \in StartSteps /\ rpc' = [rpc EXCEPT ![r] = "peak_cas"]
          /\ counters' = counters /\ mine' = mine
          /\ seen' = [seen EXCEPT ![r] = counters["peak"]]
      BY <2>1 DEF LoadField, SwapFails, Step
    <3>2. Pending(StartSteps)' = Pending(StartSteps)
      BY <3>1
    <3> QED
      BY <2>0, <3>1, <3>2
  <2>2. CASE mine[r] > seen[r] /\ Swap(r, "peak", "peak_cas", "running")
    <3>1. /\ rpc[r] = "peak_cas" /\ rpc' = [rpc EXCEPT ![r] = "running"]
          /\ counters["peak"] = seen[r] /\ counters'["peak"] = mine[r]
          /\ mine' = [mine EXCEPT ![r] = 0] /\ seen' = [seen EXCEPT ![r] = 0]
      BY <2>2 DEF Swap, Drop, Step
    <3>2. mine[r] <= highest
      BY <2>0, <3>1
    <3>3. counters'["peak"] = highest' \/ highest' \in Pending(StartSteps)'
      <4>1. CASE mine[r] = highest
        BY <2>0, <3>1, <4>1
      <4>2. CASE mine[r] # highest
        <5>1. highest \in Pending(StartSteps)
          BY <2>0, <2>2, <3>1, <3>2
        <5>2. PICK q \in Recorders : rpc[q] \in StartSteps /\ mine[q] = highest
          BY <5>1
        <5> QED
          BY <2>0, <3>1, <4>2, <5>2
      <4> QED
        BY <4>1, <4>2
    <3>4. ASSUME NEW q \in Recorders
          PROVE  /\ rpc'[q] \in StartSteps => mine'[q] <= highest'
                 /\ rpc'[q] = "peak_cas" => seen'[q] <= counters'["peak"]
      BY <2>0, <2>2, <3>1
    <3> QED
      BY <2>0, <3>1, <3>2, <3>3, <3>4
  <2>3. CASE ~(mine[r] > seen[r]) /\ NoSwap(r, "peak_cas", "running")
    <3>1. /\ rpc[r] = "peak_cas" /\ rpc' = [rpc EXCEPT ![r] = "running"] /\ counters' = counters
          /\ mine' = [mine EXCEPT ![r] = 0] /\ seen' = [seen EXCEPT ![r] = 0]
      BY <2>3 DEF NoSwap, Drop, Step
    <3>2. mine[r] <= counters["peak"]
      BY <2>0, <2>3, <3>1
    <3>3. counters'["peak"] = highest' \/ highest' \in Pending(StartSteps)'
      <4>1. CASE counters["peak"] = highest
        BY <2>0, <3>1, <4>1
      <4>2. CASE counters["peak"] # highest
        <5>1. PICK q \in Recorders : rpc[q] \in StartSteps /\ mine[q] = highest
          BY <2>0, <4>2
        <5> QED
          BY <2>0, <3>1, <3>2, <4>2, <5>1
      <4> QED
        BY <4>1, <4>2
    <3>4. ASSUME NEW q \in Recorders
          PROVE  /\ rpc'[q] \in StartSteps => mine'[q] <= highest'
                 /\ rpc'[q] = "peak_cas" => seen'[q] <= counters'["peak"]
      BY <2>0, <3>1
    <3> QED
      BY <2>0, <3>1, <3>3, <3>4
  <2> QED
    BY <1>2, <2>1, <2>2, <2>3 DEF RaisePeak
<1>3. ASSUME NEW r \in Recorders,
             \/ FailedAdd(r) \/ InflightSub(r) \/ update_extrema(r)
             \/ \E time \in Times : CompletedAdd(r, time)
      PROVE  PeakInv'
  <2>1. /\ UNCHANGED resetVars /\ highest' = highest /\ counters'["peak"] = counters["peak"]
        /\ rpc[r] \notin StartSteps /\ rpc'[r] \notin StartSteps
    BY <1>3 DEF FailedAdd, InflightSub, CompletedAdd, update_extrema, LoadField, Swap, SwapFails,
                NoSwap, Drop, Step, resetVars
  <2>2. \A q \in Recorders : q # r => rpc'[q] = rpc[q] /\ mine'[q] = mine[q] /\ seen'[q] = seen[q]
    BY <1>3 DEF FailedAdd, InflightSub, CompletedAdd, update_extrema, LoadField, Swap, SwapFails,
                NoSwap, Drop, Step
  <2>3. Pending(StartSteps)' = Pending(StartSteps)
    BY <2>1, <2>2
  <2> QED
    BY <2>1, <2>2, <2>3 DEF resetVars
<1>4. CASE ResetBegin
  BY <1>4 DEF ResetBegin
<1>5. CASE ResetStore
  <2>1. resetting' = 0 => counters'["peak"] = 0
    BY <1>5 DEF ResetStore, ResetOrder
  <2> QED
    BY <1>5, <2>1 DEF ResetStore, ResetInv, threadLocals
<1>6. CASE UNCHANGED monitorVars
  BY <1>6 DEF monitorVars, threadLocals, resetVars
<1> QED
  BY <1>1, <1>2, <1>3, <1>4, <1>5, <1>6 DEF MonitorThreadsNext

\* The same for the loops of update_extrema.  A thread enters the second with its
\* time below the maximum, and leaves it with its time above the minimum.
LEMMA ExtremaStep ==
  ASSUME TypeInv, TimesInv, ResetInv, ExtremaInv, [MonitorThreadsNext]_monitorVars
  PROVE  ExtremaInv'
<1> USE DEF TypeInv, ExtremaInv, ExtremaExact, Fields, ExtremaSteps, Pending
<1>0. Times \subseteq 0 .. CounterMax /\ times \subseteq 0 .. CounterMax
  BY DEF TimesInv
<1>1. ASSUME NEW r \in Recorders,
             \/ StartAdd(r) \/ RaisePeak(r) \/ FailedAdd(r)
             \/ InflightSub(r) /\ rpc[r] = "failed"
             \/ \E time \in Times : CompletedAdd(r, time)
      PROVE  ExtremaInv'
  <2> SUFFICES ASSUME ~torn', resetting' = 0 PROVE ExtremaInv'
    OBVIOUS
  <2>1. /\ ~torn /\ resetting = 0 /\ times' = times
        /\ counters'["max"] = counters["max"] /\ counters'["min"] = counters["min"]
        /\ rpc[r] \notin ExtremaSteps /\ rpc'[r] \notin ExtremaSteps
    BY <1>1 DEF StartAdd, RaisePeak, FailedAdd, InflightSub, CompletedAdd, LoadField, Swap, SwapFails,
                NoSwap, Drop, Step, Tear, resetVars, StartSteps
  <2>2. \A q \in Recorders : q # r => rpc'[q] = rpc[q] /\ mine'[q] = mine[q] /\ seen'[q] = seen[q]
    BY <1>1 DEF StartAdd, RaisePeak, FailedAdd, InflightSub, CompletedAdd, LoadField, Swap, SwapFails,
                NoSwap, Drop, Step
  <2>3. Pending(ExtremaSteps)' = Pending(ExtremaSteps)
    BY <2>1, <2>2
  <2>4. ASSUME NEW q \in Recorders
        PROVE  /\ rpc'[q] = "max_cas" => seen'[q] <= counters'["max"]
               /\ rpc'[q] = "min_cas" => counters'["min"] <= seen'[q]
               /\ rpc'[q] \in {"min_load", "min_cas"} => mine'[q] <= counters'["max"]
    BY <2>1, <2>2
  <2>5. ExtremaExact'
    BY <2>1, <2>3
  <2> QED
    BY <2>4, <2>5
<1>2. ASSUME NEW r \in Recorders,
             \/ InflightSub(r) /\ rpc[r] = "completed"
             \/ LoadField(r, "max", "max_load", "max_cas") \/ SwapFails(r, "max", "max_cas")
             \/ LoadField(r, "min", "min_load", "min_cas") \/ SwapFails(r, "min", "min_cas")
      PROVE  ExtremaInv'
  <2> SUFFICES ASSUME ~torn', resetting' = 0 PROVE ExtremaInv'
    OBVIOUS
  <2>1. /\ ~torn /\ resetting = 0 /\ times' = times /\ mine' = mine
        /\ counters'["max"] = counters["max"] /\ counters'["min"] = counters["min"]
        /\ \A q \in Recorders : q # r => rpc'[q] = rpc[q] /\ seen'[q] = seen[q]
    BY <1>2 DEF InflightSub, LoadField, SwapFails, Step, resetVars
  <2>2. \/ rpc'[r] = "max_load"
        \/ rpc'[r] = "max_cas" /\ seen'[r] = counters["max"]
        \/ rpc'[r] = "min_cas" /\ seen'[r] = counters["min"] /\ rpc[r] \in {"min_load", "min_cas"}
    BY <1>2 DEF InflightSub, LoadField, SwapFails, Step
  <2>3. Pending(ExtremaSteps) \subseteq Pending(ExtremaSteps)'
    BY <2>1, <2>2
  <2>4. ASSUME NEW q \in Recorders
        PROVE  /\ rpc'[q] = "max_cas" => seen'[q] <= counters'["max"]
               /\ rpc'[q] = "min_cas" => counters'["min"] <= seen'[q]
               /\ rpc'[q] \in {"min_load", "min_cas"} => mine'[q] <= counters'["max"]
    BY <2>1, <2>2
  <2>5. ExtremaExact'
    BY <2>1, <2>3
  <2> QED
    BY <2>4, <2>5
<1>3. ASSUME NEW r \in Recorders, UNCHANGED times,
             \/ mine[r] > seen[r] /\ Swap(r, "max", "max_cas", "min_load")
             \/ ~(mine[r] > seen[r]) /\ NoSwap(r, "max_cas", "min_load")
      PROVE  ExtremaInv'
  <2> SUFFICES ASSUME ~torn', resetting' = 0 PROVE ExtremaInv'
    OBVIOUS
  <2>1. /\ ~torn /\ resetting = 0 /\ counters'["min"] = counters["min"] /\ mine' = mine
        /\ rpc[r] = "max_cas" /\ rpc' = [rpc EXCEPT ![r] = "min_load"]
        /\ seen' = [seen EXCEPT ![r] = 0]
    BY <1>3 DEF Swap, NoSwap, Drop, Step, resetVars
  <2>2. \/ counters'["max"] = mine[r] /\ counters["max"] < mine[r]
        \/ counters'["max"] = counters["max"] /\ mine[r] <= counters["max"]
    BY <1>3, <2>1 DEF Swap, NoSwap
  <2>3. Pending(ExtremaSteps)' = Pending(ExtremaSteps) /\ mine[r] \in Pending(ExtremaSteps)
    BY <2>1
  <2>4. ASSUME NEW q \in Recorders
        PROVE  /\ rpc'[q] = "max_cas" => seen'[q] <= counters'["max"]
               /\ rpc'[q] = "min_cas" => counters'["min"] <= seen'[q]
               /\ rpc'[q] \in {"min_load", "min_cas"} => mine'[q] <= counters'["max"]
    BY <2>1, <2>2
  <2>5. ASSUME NEW time \in times
        PROVE  counters'["min"] <= time /\ time <= counters'["max"]
    BY <1>0, <2>1, <2>2
  <2> QED
    BY <1>3, <2>1, <2>2, <2>3, <2>4, <2>5
<1>4. ASSUME NEW r \in Recorders, Recorded(r),
             \/ mine[r] < seen[r] /\ Swap(r, "min", "min_cas", "idle")
             \/ ~(mine[r] < seen[r]) /\ NoSwap(r, "min_cas", "idle")
      PROVE  ExtremaInv'
  <2> SUFFICES ASSUME ~torn', resetting' = 0 PROVE ExtremaInv'
    OBVIOUS
  <2>1. /\ ~torn /\ resetting = 0 /\ counters'["max"] = counters["max"]
        /\ mine' = [mine EXCEPT ![r] = 0] /\ times' = times \cup {mine[r]}
        /\ rpc[r] = "min_cas" /\ rpc' = [rpc EXCEPT ![r] = "idle"]
        /\ seen' = [seen EXCEPT ![r] = 0]
    BY <1>4 DEF Swap, NoSwap, Drop, Step, resetVars, Recorded
  <2>2. \/ counters'["min"] = mine[r] /\ mine[r] < counters["min"]
        \/ counters'["min"] = counters["min"] /\ counters["min"] <= mine[r]
    BY <1>4, <2>1 DEF Swap, NoSwap
  <2>3. Pending(ExtremaSteps) \subseteq Pending(ExtremaSteps)' \cup {mine[r]}
    BY <2>1
  <2>4. ASSUME NEW q \in Recorders
        PROVE  /\ rpc'[q] = "max_cas" => seen'[q] <= counters'["max"]
               /\ rpc'[q] = "min_cas" => counters'["min"] <= seen'[q]
               /\ rpc'[q] \in {"min_load", "min_cas"} => mine'[q] <= counters'["max"]
    BY <2>1, <2>2
  <2>5. ASSUME NEW time \in times'
        PROVE  counters'["min"] <= time /\ time <= counters'["max"]
    BY <1>0, <2>1, <2>2
  <2> QED
    BY <2>1, <2>2, <2>3, <2>4, <2>5
<1>5. CASE ResetBegin
  BY <1>5 DEF ResetBegin
<1>6. CASE ResetStore
  <2> SUFFICES ASSUME ~torn', resetting' = 0 PROVE ExtremaInv'
    OBVIOUS
  <2>1. /\ ~torn /\ resetting = 6 /\ times' = times /\ rpc' = rpc
        /\ counters'["max"] = counters["max"] /\ counters'["min"] = counters["min"]
    BY <1>6 DEF ResetStore, ResetOrder, threadLocals
  <2> QED
    BY <2>1 DEF ResetInv
<1>7. CASE UNCHANGED monitorVars
  BY <1>7 DEF monitorVars, threadLocals, resetVars
<1>8. ASSUME NEW r \in Recorders, InflightSub(r) PROVE rpc[r] \in {"completed", "failed"}
  BY <1>8 DEF InflightSub, Step
<1>9. ASSUME NEW r \in Recorders, update_extrema(r) PROVE ExtremaInv'
  BY <1>2, <1>3, <1>4, <1>9 DEF update_extrema
<1> QED
  BY <1>1, <1>2, <1>5, <1>6, <1>7, <1>8, <1>9 DEF MonitorThreadsNext

\* What is stored and on offer has its maximum in highest.
LEMMA PeakOffered ==
  ASSUME TypeInv, PeakInv, ~torn, resetting = 0
  PROVE  Max({counters["peak"]} \cup Pending(StartSteps)) = highest
<1> DEFINE offers == {counters["peak"]} \cup Pending(StartSteps)
<1>1. offers \subseteq 0 .. CounterMax
  BY DEF TypeInv, Pending, Fields
<1>2. highest \in offers /\ \A n \in offers : highest >= n
  BY DEF TypeInv, PeakInv, Pending, Fields
<1>3. \A m \in offers : (\A n \in offers : m >= n) => m = highest
  BY <1>1, <1>2, SMTT(30)
<1> HIDE DEF offers
<1>4. Max(offers) = highest
  BY <1>2, <1>3 DEF Max
<1> QED
  BY <1>4 DEF offers

LEMMA MonitorStep == MonitorInv /\ [MonitorThreadsNext]_monitorVars => MonitorInv'
BY TypeStep, TimesStep, LoadStep, ResetStep, PeakStep, ExtremaStep DEF MonitorInv

\* Load, peak and extrema are exact as long as reset() has overlapped no task.
THEOREM MonitorCorrect == MonitorThreadsSpec => []MonitorExact
<1>1. MonitorInv => MonitorExact
  <2> SUFFICES ASSUME MonitorInv PROVE MonitorExact
    OBVIOUS
  <2>1. ExtremaExact
    BY DEF MonitorInv, ExtremaInv, ExtremaExact
  <2>2. PeakExact
    BY PeakOffered DEF MonitorInv, PeakExact, Linearized
  <2> QED
    BY <2>1, <2>2 DEF MonitorInv, MonitorExact
<1> QED
  BY InitMonitor, MonitorStep, <1>1, PTL DEF MonitorThreadsSpec

\* fetch_add and the thread that has called it cancel out, and fetch_add takes
\* effect when the thread is through.
LEMMA BeforeCounts ==
  ASSUME NEW c \in 0 .. CounterMax, NEW n \in 0 .. CounterMax - 1
  PROVE  /\ Before(Atomic!Inc(c), n + 1) = Before(c, n)
         /\ Before(c, n) = Atomic!Inc(Before(c, n + 1))
         /\ Before(c, n) \in 0 .. CounterMax
BY DEF Before, Atomic!Inc

\* A step of one thread moves the count of a statement by one.
LEMMA CountMoves ==
  ASSUME TypeInv, NEW r \in Recorders, NEW from, NEW to, from # to, Step(r, from, to)
  PROVE  /\ Count(to) \in 0 .. CounterMax - 1 /\ Count(to)' = Count(to) + 1
         /\ Count(from)' \in 0 .. CounterMax - 1 /\ Count(from) = Count(from)' + 1
         /\ \A other : other \notin {from, to} => Count(other)' = Count(other)
<1> DEFINE At(step) == {q \in Recorders : rpc[q] = step}
<1> USE DEF TypeInv, Step
<1>1. \A step : IsFiniteSet(At(step)) /\ IsFiniteSet(At(step)')
  <2>1. \A step : At(step) \subseteq Recorders /\ At(step)' \subseteq Recorders
    OBVIOUS
  <2> QED
    BY <2>1, FS_Subset
<1>2. r \notin At(to) /\ At(to)' = At(to) \cup {r} /\ At(to)' \subseteq Recorders
  OBVIOUS
<1>3. r \notin At(from)' /\ At(from) = At(from)' \cup {r} /\ At(from) \subseteq Recorders
  OBVIOUS
<1>4. \A other : other \notin {from, to} => At(other)' = At(other)
  OBVIOUS
<1> HIDE DEF At
<1>5. Cardinality(At(to)') = Cardinality(At(to)) + 1 /\ Cardinality(At(to)) \in Nat
  <2>1. IsFiniteSet(At(to)) /\ r \notin At(to) /\ At(to)' = At(to) \cup {r}
    BY <1>1, <1>2
  <2>2. Cardinality(At(to) \cup {r}) = Cardinality(At(to)) + 1
    BY <2>1, FS_AddElement
  <2>3. Cardinality(At(to)) \in Nat
    BY <2>1, FS_CardinalityType
  <2> QED
    BY <2>1, <2>2, <2>3
<1>6. Cardinality(At(from)) = Cardinality(At(from)') + 1 /\ Cardinality(At(from)') \in Nat
  <2>1. IsFiniteSet(At(from)') /\ r \notin At(from)' /\ At(from) = At(from)' \cup {r}
    BY <1>1, <1>3
  <2>2. Cardinality(At(from)' \cup {r}) = Cardinality(At(from)') + 1
    BY <2>1, FS_AddElement
  <2>3. Cardinality(At(from)') \in Nat
    BY <2>1, FS_CardinalityType
  <2> QED
    BY <2>1, <2>2, <2>3
<1>7. Cardinality(At(to)') <= CounterMax /\ Cardinality(At(from)) <= CounterMax
  <2>1. Cardinality(At(to)') <= Cardinality(Recorders) /\ Cardinality(At(from)) <= Cardinality(Recorders)
    BY <1>2, <1>3, FS_Subset
  <2> QED
    BY <1>5, <1>6, <2>1, FS_CardinalityType
<1>8. Cardinality(At(to)) \in 0 .. CounterMax - 1 /\ Cardinality(At(from)') \in 0 .. CounterMax - 1
  BY <1>5, <1>6, <1>7
<1> QED
  BY <1>4, <1>5, <1>6, <1>8 DEF At, Count

\* The counters as the atomic operations would have left them.
LEMMA LinearizedIs ==
  TypeInv /\ PeakInv /\ ~torn /\ resetting = 0 =>
    Linearized = [submitted |-> 0, retried |-> 0, cancelled |-> 0,
                  completed |-> Before(counters["completed"], Count("completed")),
                  failed |-> Before(counters["failed"], Count("failed")),
                  inflight |-> counters["inflight"], peak |-> highest]
BY PeakOffered DEF Linearized

LEMMA AtomicStep ==
  ASSUME MonitorInv, MonitorInv', [MonitorThreadsNext]_monitorVars, resets' = 0
  PROVE  \/ Atomic!record_start \/ Atomic!record_completion \/ Atomic!record_failure
         \/ UNCHANGED Linearized
<1> DEFINE completed == Before(counters["completed"], Count("completed"))
           failed == Before(counters["failed"], Count("failed"))
           inflight == counters["inflight"]
<1>0. /\ counters \in [Fields -> 0 .. CounterMax]
      /\ \A f \in Fields : counters[f] \in 0 .. CounterMax
  BY DEF MonitorInv, TypeInv
<1>1. ~torn' /\ resetting' = 0
  BY DEF MonitorInv, TypeInv
<1>2. ~torn /\ resetting = 0 /\ resets = 0 /\ ~ResetBegin /\ ~ResetStore
  <2>1. resets = 0 \/ ResetBegin
    BY DEF MonitorThreadsNext, StartAdd, Tear, RaisePeak, FailedAdd, InflightSub, update_extrema,
           CompletedAdd, LoadField, Swap, SwapFails, NoSwap, Drop, ResetStore, monitorVars, resetVars
  <2>2. resets = 0 /\ ~ResetBegin
    BY <2>1 DEF ResetBegin
  <2>3. ~torn /\ resetting = 0
    BY <2>2 DEF MonitorInv, TypeInv
  <2> QED
    BY <2>2, <2>3 DEF ResetStore
<1>3. /\ Linearized = [submitted |-> 0, retried |-> 0, cancelled |-> 0, completed |-> completed,
                       failed |-> failed, inflight |-> inflight, peak |-> highest]
      /\ Linearized' = [submitted |-> 0, retried |-> 0, cancelled |-> 0, completed |-> completed',
                        failed |-> failed', inflight |-> inflight', peak |-> highest']
  <2>1. TypeInv /\ PeakInv /\ (TypeInv /\ PeakInv)'
    BY DEF MonitorInv
  <2>2. (TypeInv /\ PeakInv /\ ~torn /\ resetting = 0 =>
           Linearized = [submitted |-> 0, retried |-> 0, cancelled |-> 0, completed |-> completed,
                         failed |-> failed, inflight |-> inflight, peak |-> highest])'
    BY LinearizedIs, PTL
  <2> QED
    BY <1>1, <1>2, <2>1, <2>2, LinearizedIs
<1>4. ASSUME completed' = completed, failed' = failed, inflight' = inflight, highest' = highest
      PROVE  UNCHANGED Linearized
  BY <1>3, <1>4
<1>5. TypeInv
  BY DEF MonitorInv
<1>6. ASSUME NEW r \in Recorders, StartAdd(r) PROVE Atomic!record_start
  <2>1. /\ counters' = [counters EXCEPT !["inflight"] = Atomic!Inc(inflight)]
        /\ highest' = IF Atomic!Inc(inflight) > highest THEN Atomic!Inc(inflight) ELSE highest
        /\ Step(r, "idle", "peak_load")
    BY <1>6 DEF StartAdd
  <2>2. Count("completed")' = Count("completed") /\ Count("failed")' = Count("failed")
    BY <1>5, <2>1, CountMoves
  <2>3. completed' = completed /\ failed' = failed /\ inflight' = Atomic!Inc(inflight)
    BY <1>0, <2>1, <2>2 DEF Fields, Before
  <2> HIDE DEF completed, failed, inflight
  <2> QED
    BY <1>3, <2>1, <2>3 DEF Atomic!record_start
<1>7. ASSUME NEW r \in Recorders, NEW step \in {"completed", "failed"},
             counters' = [counters EXCEPT ![step] = Atomic!Inc(@)], Step(r, "running", step)
      PROVE  completed' = completed /\ failed' = failed /\ inflight' = inflight
  <2>1. /\ Count(step) \in 0 .. CounterMax - 1 /\ Count(step)' = Count(step) + 1
        /\ \A other \in {"completed", "failed"} \ {step} : Count(other)' = Count(other)
    BY <1>5, <1>7, CountMoves
  <2>2. Before(Atomic!Inc(counters[step]), Count(step) + 1) = Before(counters[step], Count(step))
    BY <1>0, <2>1, BeforeCounts DEF Fields
  <2>3. /\ counters'[step] = Atomic!Inc(counters[step])
        /\ \A f \in Fields \ {step} : counters'[f] = counters[f]
    BY <1>0, <1>7 DEF Fields
  <2> QED
    BY <2>1, <2>2, <2>3 DEF Fields, Before
<1>8. ASSUME NEW r \in Recorders, FailedAdd(r) \/ \E time \in Times : CompletedAdd(r, time)
      PROVE  UNCHANGED Linearized
  BY <1>4, <1>7, <1>8 DEF FailedAdd, CompletedAdd
<1>9. ASSUME NEW r \in Recorders, InflightSub(r)
      PROVE  Atomic!record_completion \/ Atomic!record_failure
  <2>0. inflight' = Atomic!Dec(inflight) /\ highest' = highest
        /\ \A f \in {"completed", "failed"} : counters'[f] = counters[f]
    BY <1>0, <1>9 DEF InflightSub, Fields
  <2>1. CASE Step(r, "completed", "max_load")
    <3>1. /\ Count("completed")' \in 0 .. CounterMax - 1
          /\ Count("completed") = Count("completed")' + 1 /\ Count("failed")' = Count("failed")
      BY <1>5, <2>1, CountMoves
    <3>2. completed' = Atomic!Inc(completed) /\ failed' = failed
      BY <1>0, <2>0, <3>1, BeforeCounts DEF Fields, Before
    <3> HIDE DEF completed, failed, inflight
    <3> QED
      BY <1>3, <2>0, <3>2 DEF Atomic!record_completion
  <2>2. CASE Step(r, "failed", "idle")
    <3>1. /\ Count("failed")' \in 0 .. CounterMax - 1
          /\ Count("failed") = Count("failed")' + 1 /\ Count("completed")' = Count("completed")
      BY <1>5, <2>2, CountMoves
    <3>2. failed' = Atomic!Inc(failed) /\ completed' = completed
      BY <1>0, <2>0, <3>1, BeforeCounts DEF Fields, Before
    <3> HIDE DEF completed, failed, inflight
    <3> QED
      BY <1>3, <2>0, <3>2 DEF Atomic!record_failure
  <2> QED
    BY <1>9, <2>1, <2>2 DEF InflightSub
<1>10. ASSUME NEW r \in Recorders, Loops(r) PROVE UNCHANGED Linearized
  <2>1. /\ highest' = highest
        /\ \A f \in {"completed", "failed", "inflight"} : counters'[f] = counters[f]
    BY <1>0, <1>10 DEF Loops, RaisePeak, update_extrema, LoadField, Swap, SwapFails, NoSwap, Drop, Fields
  <2>2. \A step \in {"completed", "failed"}, q \in Recorders : rpc'[q] = step <=> rpc[q] = step
    BY <1>5, <1>10 DEF Loops, RaisePeak, update_extrema, LoadField, Swap, SwapFails, NoSwap, Step, TypeInv
  <2>3. \A step \in {"completed", "failed"} : Count(step)' = Count(step)
    BY <2>2 DEF Count
  <2> QED
    BY <1>4, <2>1, <2>3 DEF Before
<1>11. CASE UNCHANGED monitorVars
  BY <1>11 DEF monitorVars, threadLocals, resetVars, Linearized, Count, Before, Pending
<1> QED
  BY <1>2, <1>6, <1>8, <1>9, <1>10, <1>11 DEF MonitorThreadsNext, Loops

\* While nobody resets, each record_start, record_completion and record_failure
\* changes the counters as one step would.
THEOREM RecordsAtomic == MonitorThreadsSpec => CountersAtomic
<1>1. MonitorThreadsInit => Atomic!MonitorInit
  <2> SUFFICES ASSUME MonitorThreadsInit PROVE Atomic!MonitorInit
    OBVIOUS
  <2>1. \A step \in {"completed", "failed"} : Count(step) = 0
    <3>1. \A step \in {"completed", "failed"} : {r \in Recorders : rpc[r] = step} = {}
      BY DEF MonitorThreadsInit
    <3> QED
      BY <3>1, FS_EmptySet DEF Count
  <2>2. Before(0, 0) = 0
    BY DEF Before
  <2>3. Linearized = [submitted |-> 0, retried |-> 0, cancelled |-> 0, completed |-> 0, failed |-> 0,
                      inflight |-> 0, peak |-> 0]
    <3>1. TypeInv /\ PeakInv /\ ~torn /\ resetting = 0
      BY InitMonitor DEF MonitorInv, MonitorThreadsInit
    <3> QED
      BY <2>1, <2>2, <3>1, LinearizedIs DEF MonitorThreadsInit, Fields
  <2> QED
    BY <2>3 DEF Atomic!MonitorInit, Atomic!Counters
<1>2. MonitorInv /\ MonitorInv' /\ [MonitorThreadsNext]_monitorVars =>
        [resets' = 0 =>
           Atomic!record_start \/ Atomic!record_completion \/ Atomic!record_failure]_Linearized
  BY AtomicStep
<1> QED
  BY InitMonitor, MonitorStep, <1>1, <1>2, PTL DEF MonitorThreadsSpec, CountersAtomic

=============================================================================
