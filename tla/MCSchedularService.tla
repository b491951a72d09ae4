------------------------- MODULE MCSchedularService --------------------------
(* Instances of SchedularService for TLC. *)
EXTENDS SchedularService, TLC

\* The nodes are interchangeable.
Symmetry == Permutations(Node)
=============================================================================
