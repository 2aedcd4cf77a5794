-------------------------- MODULE MCTaskScheduler --------------------------
(* Instances of TaskScheduler for TLC: two text deltas that do not fit one *)
(* batch, streamed output of a Subagent, a mutation, and a control write   *)
(* of a Subagent of another Task.                                          *)
EXTENDS TaskScheduler

MCTasks == {"t", "u"}
MCThreads == {"tool", "other", "text", "more", "sync"}
MCKind == [x \in MCThreads |-> CASE x = "other" -> "control" [] x = "more" -> "text" [] OTHER -> x]
MCTaskOf == [x \in MCThreads |-> IF x = "other" THEN "u" ELSE "t"]
MCSize == [x \in MCThreads |-> IF x = "more" THEN 2 ELSE 1]
MCSubagents == {"tool", "other"}
=============================================================================
