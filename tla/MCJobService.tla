---------------------------- MODULE MCJobService -----------------------------
(* Instances of JobService for TLC. *)
EXTENDS JobService, TLC

\* Nodes, names and requests are interchangeable.
Symmetry == Permutations(Node) \cup Permutations(Name) \cup Permutations(Request)
=============================================================================
