---------------------------- MODULE MCTaskTurns ----------------------------
(* Instances of TaskTurns for TLC. *)
EXTENDS TaskTurns
=============================================================================
