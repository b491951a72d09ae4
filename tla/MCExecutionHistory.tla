------------------------- MODULE MCExecutionHistory --------------------------
(* Instances of ExecutionHistory for TLC. *)
EXTENDS ExecutionHistory, TLC

\* The executions are interchangeable.
Symmetry == Permutations(Exec)
=============================================================================
