---------------------------- MODULE MCTaskBoard -----------------------------
(***************************************************************************)
(* A small board: two tasks, one of them with two executions.              *)
(***************************************************************************)
EXTENDS TaskBoard

CONSTANTS t1, t2, e1, e2, e3

SplitTasks == [e \in Executions |-> IF e = e3 THEN t2 ELSE t1]

=============================================================================
