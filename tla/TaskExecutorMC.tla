-------------------------- MODULE TaskExecutorMC --------------------------
(***************************************************************************)
(* Instances of TaskExecutor: the tasks are 1, 2, ... in the order in which *)
(* their ids are given out.                                                *)
(***************************************************************************)
EXTENDS TaskExecutor, TLC

Last == CHOOSE n \in Tasks : \A t \in Tasks : t <= n

NoDeps == [t \in Tasks |-> {}]

\* 1 <- 2 <- 3 ...
Chain == [t \in Tasks |-> IF t = 1 THEN {} ELSE {t - 1}]

\* All but 1 depend on 1, and the last one on all of them.
Diamond == [t \in Tasks |-> IF t = 1 THEN {} ELSE IF t = Last THEN Tasks \ {t} ELSE {1}]

NoRetry == [t \in Tasks |-> 0]
RetryFirst == [t \in Tasks |-> IF t = 1 THEN 1 ELSE 0]
OneRetry == [t \in Tasks |-> 1]

Returns == [t \in Tasks |-> {"return"}]
FirstFails == [t \in Tasks |-> IF t = 1 THEN {"throw"} ELSE {"return"}]
MayThrow == [t \in Tasks |-> {"return", "throw"}]

WorkerSymmetry == Permutations(Workers)

=============================================================================
