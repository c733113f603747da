------------------------------- MODULE Models -------------------------------
(***************************************************************************)
(* The status vocabulary of internal/models: tasks and executions share    *)
(* the same six statuses (the CHECK constraints chk_status and             *)
(* chk_execution_status of the schema admit no other), and a row that is   *)
(* not in its table is "absent" (its UUID has not been minted yet) or      *)
(* "deleted".  UUIDs are never reused, so a deleted row never comes back.  *)
(***************************************************************************)

Statuses == {"pending", "running", "completed", "failed", "timeout", "cancelled"}

RowStates == Statuses \cup {"absent", "deleted"}

\* models.TaskExecution.IsTerminal
IsTerminal(status) == status \in {"completed", "failed", "timeout", "cancelled"}

\* models.TaskExecution.IsPending and IsRunning: an execution that is not over.
IsActive(status) == status \in {"pending", "running"}

=============================================================================
