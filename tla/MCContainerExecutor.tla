------------------------ MODULE MCContainerExecutor -------------------------
(***************************************************************************)
(* One task with the longest timeout there is, and its executions.         *)
(***************************************************************************)
EXTENDS ContainerExecutor

CONSTANTS t1, e1

OneTask == [e \in Executions |-> t1]
Longest == [t \in Tasks |-> MaxAge]

=============================================================================
