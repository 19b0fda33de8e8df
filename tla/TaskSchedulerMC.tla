-------------------------- MODULE TaskSchedulerMC --------------------------
(***************************************************************************)
(* Instances of TaskScheduler.                                             *)
(***************************************************************************)
EXTENDS TaskScheduler

\* Task 1 is periodic.
FirstPeriodic == [id \in Ids |-> IF id = 1 THEN 1 ELSE 0]

=============================================================================
