---------------------------- MODULE ThreadPoolMC ----------------------------
(***************************************************************************)
(* Instances of ThreadPool.                                                *)
(***************************************************************************)
EXTENDS ThreadPool, TLC

CONSTANTS a, b, c

OneLevel == [t \in Tasks |-> 1]

\* The tasks are interchangeable, and so are the submitters.
PoolSymmetry == Permutations(Submitters) \cup Permutations(Tasks)

=============================================================================
