-------------------------- MODULE MCWorkRequesting --------------------------
(* TLC instance of TaskStealing with both algorithms: the constants are those of *)
(* MCTaskStealing. *)
EXTENDS WorkRequesting, MCTaskStealing
=============================================================================
