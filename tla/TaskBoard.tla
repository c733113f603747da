----------------------------- MODULE TaskBoard ------------------------------
(***************************************************************************)
(* What the task and execution API promises of its two tables, with every  *)
(* request reduced to the one step in which its writes become visible.     *)
(*                                                                         *)
(* Spec says what the steps write: an execution and its task always        *)
(* change together, except that a PUT reporting a non-terminal status      *)
(* touches the execution alone.  It leaves out every check a request made  *)
(* on rows it had only read, because under READ COMMITTED those rows may   *)
(* have changed before the write.                                          *)
(*                                                                         *)
(* SerialSpec adds those checks back.  It is what the handlers and the     *)
(* service promise when requests do not overlap.                           *)
(***************************************************************************)
EXTENDS Models

CONSTANTS
  Tasks,        \* task UUIDs
  Executions,   \* execution UUIDs
  TaskOf,       \* the immutable task_id column of each execution
  Reported,     \* the statuses that clients report with PUT /executions/{id}
  DirectUpdate  \* whether anybody calls UpdateExecutionAndTaskStatus

ASSUME TaskOfAssumption == TaskOf \in [Executions -> Tasks]
ASSUME ReportedAssumption == Reported \subseteq Statuses
ASSUME DirectUpdateAssumption == DirectUpdate \in BOOLEAN

VARIABLES
  task,  \* the status column of the tasks table
  exec   \* the status column of the task_executions table

vars == <<task, exec>>

ExecutionsOf(t) == {e \in Executions : TaskOf[e] = t}

Init ==
  /\ task = [t \in Tasks |-> "absent"]
  /\ exec = [e \in Executions |-> "absent"]

-----------------------------------------------------------------------------
(* The effects. *)

CreateTask(t) ==
  /\ task[t] = "absent"
  /\ task' = [task EXCEPT ![t] = "pending"]
  /\ UNCHANGED exec

\* The full-row UPDATE writes back the status the request had read.
EditTask(t) ==
  /\ task[t] \in Statuses
  /\ \E status \in Statuses \ {"running"} : task' = [task EXCEPT ![t] = status]
  /\ UNCHANGED exec

DeleteTask(t) ==
  /\ task[t] \in Statuses
  /\ task' = [task EXCEPT ![t] = "deleted"]
  /\ exec' = [e \in Executions |->
                IF TaskOf[e] = t /\ exec[e] \in Statuses THEN "deleted" ELSE exec[e]]

Start(e) ==
  /\ exec[e] = "absent"
  /\ task[TaskOf[e]] \in Statuses
  /\ exec' = [exec EXCEPT ![e] = "pending"]
  /\ task' = [task EXCEPT ![TaskOf[e]] = "running"]

\* A transaction that writes an existing execution and its task.
WritePair(e, executionStatus, taskStatus) ==
  /\ exec[e] \in Statuses
  /\ task[TaskOf[e]] \in Statuses
  /\ exec' = [exec EXCEPT ![e] = executionStatus]
  /\ task' = [task EXCEPT ![TaskOf[e]] = taskStatus]

Cancel(e) == WritePair(e, "cancelled", "pending")

\* Mutant: a failure puts the task back for a retry.
FinishForRetry(e, status) ==
  IsTerminal(status) /\ WritePair(e, status, IF status = "failed" THEN "pending" ELSE status)

Finish(e, status) == IsTerminal(status) /\ WritePair(e, status, status)

Patch(e, status) ==
  /\ exec[e] \in Statuses
  /\ IsActive(status)
  /\ exec' = [exec EXCEPT ![e] = status]
  /\ UNCHANGED task

SetBoth(e) ==
  /\ DirectUpdate
  /\ \E es, ts \in Statuses : WritePair(e, es, ts)

Next ==
  \/ \E t \in Tasks : CreateTask(t) \/ EditTask(t) \/ DeleteTask(t)
  \/ \E e \in Executions :
       \/ Start(e)
       \/ Cancel(e)
       \/ \E status \in Statuses : Finish(e, status) \/ Patch(e, status)
       \/ SetBoth(e)

Spec == Init /\ [][Next]_vars

-----------------------------------------------------------------------------
(* The same effects under the checks that the requests make. *)

\* Mutant: Create does not look at the task.
StartableAlways == Statuses

Startable == {"pending", "timeout"}

Cancellable == {"pending", "running", "timeout"}

Completable == {"pending", "running", "failed", "timeout"}

SerialDelete(t) == task[t] # "running" /\ DeleteTask(t)

SerialStart(e) == task[TaskOf[e]] \in Startable /\ Start(e)

SerialCancel(e) == exec[e] \in Cancellable /\ Cancel(e)

\* A PUT reports a status or, carrying results only, repeats the stored one.
SerialReport(e) ==
  \E status \in Reported \cup {exec[e]} :
    \/ exec[e] \in Completable /\ Finish(e, status)
    \/ Patch(e, status)

SerialNext ==
  \/ \E t \in Tasks : CreateTask(t) \/ SerialDelete(t)
  \/ \E e \in Executions : SerialStart(e) \/ SerialCancel(e) \/ SerialReport(e)

SerialSpec == Init /\ [][SerialNext]_vars

-----------------------------------------------------------------------------
(* Properties. *)

TypeOK ==
  /\ task \in [Tasks -> RowStates]
  /\ exec \in [Executions -> RowStates]

\* The execution rows are a subset of the rows of existing tasks: the foreign
\* key and its ON DELETE CASCADE leave no execution of a task that is gone.
NoOrphanExecution ==
  \A e \in Executions : exec[e] \in Statuses => task[TaskOf[e]] \in Statuses

\* A task shown as running always has an execution that is not over: no
\* interleaving of requests leaves a task stuck in running with nothing that
\* could still be cancelled or completed to release it.
RunningHasActiveExecution ==
  \A t \in Tasks :
    task[t] = "running" => \E e \in ExecutionsOf(t) : IsActive(exec[e])

\* The task and its executions agree.  It is shown as running exactly while it has
\* an execution that is not over, and never has two; and a failed execution, which
\* may be reported on again, is the only one and belongs to a task that is over.
Settled(t) ==
  /\ task[t] = "running" <=> \E e \in ExecutionsOf(t) : IsActive(exec[e])
  /\ \A e, f \in ExecutionsOf(t) : IsActive(exec[e]) /\ IsActive(exec[f]) => e = f
  /\ \A e, f \in ExecutionsOf(t) : exec[e] = "failed" /\ exec[f] = "failed" => e = f
  /\ \A e \in ExecutionsOf(t) :
       exec[e] = "failed" => task[t] \in {"completed", "failed", "cancelled"}

\* A write to an execution that is over.  No check prevents a PUT from setting it
\* back to pending or running, and Cancel and Complete let a timed-out one pass.
LateWrite(e) ==
  \/ IsTerminal(exec[e]) /\ \E status \in Statuses : Patch(e, status)
  \/ exec[e] = "timeout" /\ (Cancel(e) \/ \E status \in Statuses : Finish(e, status))

\* Whatever statuses clients report: a task that agrees with its executions does so
\* until somebody revives an execution that is over or ends a timed-out one once
\* more.  Starts, cancels, reports, repeated reports of failed executions among
\* them, and deletions never part the two.
OnlyLateWritesUnsettle ==
  [][\A t \in Tasks :
       Settled(t) => Settled(t)' \/ \E e \in ExecutionsOf(t) : LateWrite(e)]_vars

=============================================================================
