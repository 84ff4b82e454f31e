----------------------------- MODULE MCTaskList -----------------------------
(* The task list under TLC. *)
EXTENDS TaskList, TLC

(* The blocks are interchangeable: no operation orders them. *)
Blocks == Permutations(Task)
=============================================================================
