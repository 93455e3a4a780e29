-------------------------- MODULE MCPlanningLocks --------------------------
(***************************************************************************)
(* PlanningLocks for two processes.  A tick is ten seconds; the two times  *)
(* of thirty seconds are cut to two ticks, longer still than the others.   *)
(***************************************************************************)
EXTENDS PlanningLocks

CONSTANTS p1, p2

MCStale == [l \in Locks |-> IF l = "plan" THEN 2 ELSE 1]

\* Programs beside one another: two locks and a roll-back beside one lock,
\* commands of two transactions, and a file that is written without a lock.
Pairs == { <<PhaseComplete, RoadmapCommand>>, <<PhaseRemove, StatePrune>>,
           <<StateCommand, RequirementsMarkComplete>> }
MCMixes == { [p \in Procs |-> IF p = p1 THEN m[1] ELSE m[2]] : m \in Pairs }
ParallelSyncs == { [p \in Procs |-> StateSync] }
=============================================================================
