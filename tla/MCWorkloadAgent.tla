-------------------------- MODULE MCWorkloadAgent --------------------------
(* The workload agent with two configured tests, so that the plugin loop   *)
(* runs more than once and can fail at its first or its last iteration.   *)
EXTENDS WorkloadAgent

MCNumTests == 2

=============================================================================
