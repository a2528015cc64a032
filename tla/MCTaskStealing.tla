--------------------------- MODULE MCTaskStealing ---------------------------
(* TLC instance of TaskStealing: values for the constants. *)
EXTENDS TaskStealingInv

CONSTANTS Loaded, LoadedTasks, OtherTasks

\* one rank may get any number of tasks of LoadedTasks, the others of OtherTasks
MCTaskCounts ==
  [r \in Rank |-> IF r = Loaded THEN LoadedTasks ELSE OtherTasks]
=============================================================================
