--------------------------- MODULE MCTaskExecution ---------------------------
(* Instances of TaskExecution for TLC. *)
EXTENDS TaskExecution

\* None, those of the example in the README, and more than the tag allows.
RetriesAsked == {0, 3, 11}
=============================================================================
