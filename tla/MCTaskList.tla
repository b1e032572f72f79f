------------------------------ MODULE MCTaskList ------------------------------
(* A small instance of TaskList for TLC: the names of tasks do not matter. *)
EXTENDS TaskList, TLC

Symmetry == Permutations(Task)

=============================================================================
