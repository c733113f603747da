-------------------------- MODULE MCTaskExecutions --------------------------
(***************************************************************************)
(* Small instances of TaskExecutions: one task with two executions, or two *)
(* tasks of two users.                                                     *)
(***************************************************************************)
EXTENDS TaskExecutions

CONSTANTS t1, t2, e1, e2, e3, u1, u2, s1, s2

OneTask    == [e \in Executions |-> t1]
SplitTasks == [e \in Executions |-> IF e = e3 THEN t2 ELSE t1]
AllOfU1    == [t \in Tasks |-> u1]
OneEach    == [t \in Tasks |-> IF t = t2 THEN u2 ELSE u1]
CallU1     == [s \in Sessions |-> u1]
CallEach   == [s \in Sessions |-> IF s = s2 THEN u2 ELSE u1]

HandlerOps == {"taskCreate", "taskUpdate", "taskDelete", "execCreate", "execCancel", "execPut"}
AllOps     == HandlerOps \cup {"execSet"}

=============================================================================
