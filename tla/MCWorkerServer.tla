--------------------------- MODULE MCWorkerServer ----------------------------
(* Instances of WorkerServer for TLC. *)
EXTENDS WorkerServer, TLC

\* The executions, the job names and the workers are interchangeable.
Symmetry == Permutations(Exec) \cup Permutations(Name) \cup Permutations(Worker)
=============================================================================
