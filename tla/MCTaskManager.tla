--------------------------- MODULE MCTaskManager ---------------------------
(* Small instances of TaskManager for TLC. *)
EXTENDS TaskManager, TLC

\* The tasks are interchangeable.
Symmetry == Permutations(TaskId)
=============================================================================
