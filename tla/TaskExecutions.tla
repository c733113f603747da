--------------------------- MODULE TaskExecutions ---------------------------
(***************************************************************************)
(* The HTTP handlers for tasks and executions and the service behind them, *)
(* one SQL statement per step.  A session is one authenticated client      *)
(* sending requests one after another; sessions interleave freely.         *)
(*                                                                         *)
(* The handlers of task.go and the PUT handler of task_execution.go run    *)
(* each statement on its own; the service of task_execution_service.go     *)
(* runs its statements in one WithTransaction, which begins at the default *)
(* isolation level, READ COMMITTED: a plain SELECT sees the last committed *)
(* row and takes no lock, an UPDATE waits for the row's lock, works on the *)
(* row it then finds and keeps the lock until the transaction ends, and    *)
(* nobody sees its new value before the commit.                            *)
(***************************************************************************)
EXTENDS Models

CONSTANTS
  Tasks, Executions,  \* UUIDs of rows, minted or still to be minted
  Users, Sessions,
  Owner,              \* the immutable user_id column of each task
  TaskOf,             \* the immutable task_id column of each execution
  Caller,             \* the user each session has authenticated as
  Ops,                \* the requests that clients send in this instance
  Reported,           \* the statuses reported with PUT /executions/{id}
  Faults,             \* whether statements fail and commit replies get lost
  None                \* stands for no row

TaskOps == {"taskCreate", "taskUpdate", "taskDelete"}
ExecutionOps == {"execCreate", "execCancel", "execPut", "execSet"}

ASSUME RowsAssumption ==
  /\ Tasks \cap Executions = {}
  /\ None \notin Tasks \cup Executions
ASSUME OwnerAssumption == Owner \in [Tasks -> Users]
ASSUME TaskOfAssumption == TaskOf \in [Executions -> Tasks]
ASSUME CallerAssumption == Caller \in [Sessions -> Users]
ASSUME RequestAssumption ==
  /\ Ops \subseteq TaskOps \cup ExecutionOps
  /\ Reported \subseteq Statuses
  /\ Faults \in BOOLEAN

VARIABLES
  task,  \* committed status of each row of tasks
  exec,  \* committed status of each row of task_executions
  sess,  \* the request each session is serving
  held   \* the row locks each session's transaction holds

vars == <<task, exec, sess, held>>

\* op: the request.  pc: its next statement.  task, exec: the rows it is about.
\* seen: the status read for the guard, or to be written back.
\* want, goal: the statuses to be written to the execution and to the task.
\* reply: the class of the response to the session's last request.
Idle == [op |-> "none", pc |-> "idle", task |-> None, exec |-> None,
         seen |-> "absent", want |-> "absent", goal |-> "absent", reply |-> "none"]

Keep == "absent"  \* a PUT body without a status

Init ==
  /\ task = [t \in Tasks |-> "absent"]
  /\ exec = [e \in Executions |-> "absent"]
  /\ sess = [s \in Sessions |-> Idle]
  /\ held = [s \in Sessions |-> {}]

-----------------------------------------------------------------------------
(* Row locks, as PostgreSQL takes them. *)

\* "share" is FOR KEY SHARE, taken on the task by the foreign key check of an
\* INSERT; "write" is FOR NO KEY UPDATE, taken by an UPDATE of a status;
\* "delete" is FOR UPDATE, taken by a DELETE.
Modes == {"share", "write", "delete"}

Conflict(m, n) == "delete" \in {m, n} \/ (m = "write" /\ n = "write")

Available(s, m, row) ==
  \A z \in Sessions \ {s} : \A n \in Modes : <<n, row>> \in held[z] => ~Conflict(m, n)

\* Mutant: the schema without ON DELETE CASCADE.
NothingToCascade(s, t) == {}

\* ON DELETE CASCADE: the executions that a DELETE of t has still to lock.
ExecutionsToCascade(s, t) ==
  {e \in Executions : TaskOf[e] = t /\ exec[e] \in Statuses /\ <<"delete", e>> \notin held[s]}

\* The locks that the next statement of s cannot do without.
Needs(s) ==
  CASE sess[s].pc \in {"writeTask", "editTask"} -> {<<"write", sess[s].task>>}
    [] sess[s].pc \in {"writeExec", "patch"}    -> {<<"write", sess[s].exec>>}
    [] sess[s].pc = "insertExec"                -> {<<"share", sess[s].task>>}
    [] sess[s].pc = "deleteTask"                -> {<<"delete", sess[s].task>>}
    [] sess[s].pc = "cascade" ->
         {<<"delete", e>> : e \in ExecutionsToCascade(s, sess[s].task)}
    [] OTHER -> {}

WaitsFor(s, z) ==
  /\ s # z
  /\ \E need \in Needs(s), n \in Modes :
       <<n, need[2]>> \in held[z] /\ Conflict(need[1], n)

\* Sessions that all wait for each other.
Cycle(waiting) ==
  \A b \in waiting :
    /\ \E a \in waiting : WaitsFor(b, a)
    /\ \E a \in waiting : WaitsFor(a, b)

Deadlocked(s) == \E waiting \in SUBSET Sessions : s \in waiting /\ Cycle(waiting)

-----------------------------------------------------------------------------
(* The checks that requests make on what they have read. *)

CanUpdateOrDelete(taskStatus) == taskStatus # "running"

CanExecute(taskStatus) ==
  taskStatus \notin {"running", "completed", "failed", "cancelled"}

\* Mutant: the guard forgets failed executions.
CanCancelFailed(executionStatus) ==
  executionStatus \notin {"completed", "cancelled"}

CanCancel(executionStatus) ==
  executionStatus \notin {"completed", "failed", "cancelled"}

CanComplete(executionStatus) == executionStatus \notin {"completed", "cancelled"}

\* Mutant: nobody compares the owner with the caller.
OwnsAnyTask(s, t) == TRUE

OwnsTask(s, t) == Owner[t] = Caller[s]

\* Mutant: the execution and the task are not compared.
AdmitsAnyPair(s, st) ==
  CASE sess[s].op \in {"taskUpdate", "taskDelete"} -> CanUpdateOrDelete(st)
    [] sess[s].op = "execCreate"   -> CanExecute(st)
    [] sess[s].op = "execCancel"   -> CanCancel(sess[s].seen)
    [] sess[s].op = "execComplete" -> CanComplete(sess[s].seen)
    [] sess[s].op = "execSet"      -> TRUE

\* The check that follows the ownership check of request s on task status st.
Admits(s, st) ==
  CASE sess[s].op \in {"taskUpdate", "taskDelete"} -> CanUpdateOrDelete(st)
    [] sess[s].op = "execCreate"   -> CanExecute(st)
    [] sess[s].op = "execCancel"   -> CanCancel(sess[s].seen)
    [] sess[s].op = "execComplete" -> CanComplete(sess[s].seen)
    [] sess[s].op = "execSet"      -> sess[s].task = TaskOf[sess[s].exec]

\* Mutant: Cancel updates the task before the execution.
CancelTaskFirst(op, pc) ==
  CASE pc = "readExec"  -> "readTask"
    [] pc = "readTask"  -> (CASE op = "taskUpdate" -> "editTask"
                              [] op = "taskDelete" -> "deleteTask"
                              [] op = "execCreate" -> "insertExec"
                              [] op = "execCancel" -> "writeTask"
                              [] OTHER             -> "writeExec")
    [] op = "execCancel" /\ pc = "writeTask" -> "writeExec"
    [] op # "execCancel" /\ pc \in {"insertExec", "writeExec"} -> "writeTask"
    [] OTHER -> "commit"

\* The order of the statements of a request.
After(op, pc) ==
  CASE pc = "readExec"  -> "readTask"
    [] pc = "readTask"  -> (CASE op = "taskUpdate" -> "editTask"
                              [] op = "taskDelete" -> "deleteTask"
                              [] op = "execCreate" -> "insertExec"
                              [] OTHER             -> "writeExec")
    [] pc \in {"insertExec", "writeExec"} -> "writeTask"
    [] OTHER -> "commit"

-----------------------------------------------------------------------------
(* Requests and their answers. *)

Goto(s, pc) == sess' = [sess EXCEPT ![s].pc = pc]

\* Mutant: an error path returns without ending the transaction.
AnswerWithoutRollback(s, reply) ==
  /\ sess' = [sess EXCEPT ![s] = [Idle EXCEPT !.reply = reply]]
  /\ held' = IF reply = "ok" THEN [held EXCEPT ![s] = {}] ELSE held

\* The request is answered.  WithTransaction's deferred Rollback, the commit or
\* the end of a single statement releases its locks.
Answer(s, reply) ==
  /\ sess' = [sess EXCEPT ![s] = [Idle EXCEPT !.reply = reply]]
  /\ held' = [held EXCEPT ![s] = {}]

\* The write of s is done.  The reply that says so may be lost on the way to the
\* handler, which then answers with an error.
WriteDone(s) == Answer(s, "ok") \/ (Faults /\ Answer(s, "error"))

Lock(s, locks) == held' = [held EXCEPT ![s] = @ \cup locks]

Serving(s) == sess[s].pc # "idle"

Receive(s, request) ==
  /\ request.op \in Ops
  /\ ~Serving(s)
  /\ sess' = [sess EXCEPT ![s] = request]
  /\ UNCHANGED <<task, exec, held>>

\* POST /tasks: one INSERT of a pending task under a fresh UUID.
CreateTask(s, t) ==
  /\ "taskCreate" \in Ops
  /\ ~Serving(s)
  /\ task[t] = "absent" /\ OwnsTask(s, t)
  /\ task' = [task EXCEPT ![t] = "pending"]
  /\ WriteDone(s)
  /\ UNCHANGED exec

\* PUT /tasks/{id} and DELETE /tasks/{id}.
RequestOnTask(s, op, t) ==
  Receive(s, [Idle EXCEPT !.op = op, !.pc = "readTask", !.task = t])

\* POST /tasks/{id}/executions, with the fresh UUID it will insert.
RequestCreate(s, e) ==
  /\ exec[e] = "absent"
  /\ \A z \in Sessions : sess[z].op = "execCreate" => sess[z].exec # e
  /\ Receive(s, [Idle EXCEPT !.op = "execCreate", !.pc = "readTask", !.task = TaskOf[e],
                             !.exec = e, !.want = "pending", !.goal = "running"])

\* Mutant: a status that the schema does not know.
RequestCancelMisspelt(s, e) ==
  Receive(s, [Idle EXCEPT !.op = "execCancel", !.pc = "readExec", !.exec = e,
                          !.want = "canceled", !.goal = "pending"])

\* DELETE /executions/{id}.
RequestCancel(s, e) ==
  Receive(s, [Idle EXCEPT !.op = "execCancel", !.pc = "readExec", !.exec = e,
                          !.want = "cancelled", !.goal = "pending"])

\* PUT /executions/{id}.
RequestPut(s, e, status) ==
  Receive(s, [Idle EXCEPT !.op = "execPut", !.pc = "fetch", !.exec = e, !.want = status])

\* UpdateExecutionAndTaskStatus, which no handler calls, for e as one of t's.
RequestSet(s, e, t, executionStatus, taskStatus) ==
  Receive(s, [Idle EXCEPT !.op = "execSet", !.pc = "readExec", !.exec = e, !.task = t,
                          !.want = executionStatus, !.goal = taskStatus])

-----------------------------------------------------------------------------
(* Reads. *)

\* Mutant: the handler writes terminal statuses itself, without the task.
FetchAndPatch(s) ==
  /\ sess[s].pc = "fetch"
  /\ exec[sess[s].exec] \in Statuses
  /\ sess' = [sess EXCEPT ![s].pc = "authorize", ![s].task = TaskOf[sess[s].exec],
                          ![s].want = IF @ = Keep THEN exec[sess[s].exec] ELSE @]
  /\ UNCHANGED <<task, exec, held>>

\* The PUT handler reads the row and applies the request to its copy.  A copy
\* that is terminal goes to CompleteExecutionAndFinalizeTaskStatus, with the
\* task status of the same name; any other is for the handler to write.
FetchExecution(s) ==
  LET copy == IF sess[s].want = Keep THEN exec[sess[s].exec] ELSE sess[s].want IN
  /\ sess[s].pc = "fetch"
  /\ exec[sess[s].exec] \in Statuses
  /\ sess' = [sess EXCEPT ![s] =
       IF IsTerminal(copy)
         THEN [@ EXCEPT !.op = "execComplete", !.pc = "readExec",
                        !.want = copy, !.goal = copy]
         ELSE [@ EXCEPT !.pc = "authorize", !.want = copy,
                        !.task = TaskOf[sess[s].exec]]]
  /\ UNCHANGED <<task, exec, held>>

\* Mutant: the PUT handler does not look at the owner.
AuthorizeAnyone(s) ==
  /\ sess[s].pc = "authorize"
  /\ task[sess[s].task] \in Statuses
  /\ Goto(s, "patch")
  /\ UNCHANGED <<task, exec, held>>

\* The PUT handler reads the task for its owner alone.
Authorize(s) ==
  LET t == sess[s].task IN
  /\ sess[s].pc = "authorize"
  /\ task[t] \in Statuses
  /\ IF OwnsTask(s, t) THEN Goto(s, "patch") /\ UNCHANGED held ELSE Answer(s, "denied")
  /\ UNCHANGED <<task, exec>>

\* The service reads the execution and remembers its status for the guard.
ReadExecution(s) ==
  /\ sess[s].pc = "readExec"
  /\ exec[sess[s].exec] \in Statuses
  /\ sess' = [sess EXCEPT ![s].pc = After(sess[s].op, "readExec"),
                          ![s].seen = exec[sess[s].exec],
                          ![s].task = IF sess[s].op = "execSet" THEN @ ELSE TaskOf[sess[s].exec]]
  /\ UNCHANGED <<task, exec, held>>

\* The repository reports a missing execution with an error of its own, never
\* with ErrExecutionNotFound, so handler and service take it for a failure.
MissingExecution(s) ==
  /\ sess[s].pc \in {"fetch", "readExec"}
  /\ exec[sess[s].exec] \notin Statuses
  /\ Answer(s, "error")
  /\ UNCHANGED <<task, exec>>

\* The task that the request reads: its own, or that of its execution.
TaskRead(s) == IF sess[s].exec = None THEN sess[s].task ELSE TaskOf[sess[s].exec]

\* Only the requests on a task tell a missing task from a failed read.
MissingTask(s) ==
  /\ sess[s].pc \in {"readTask", "authorize"}
  /\ task[TaskRead(s)] \notin Statuses
  /\ Answer(s, IF sess[s].pc = "readTask" /\ sess[s].op \in {"taskUpdate", "taskDelete", "execCreate"}
               THEN "missing" ELSE "error")
  /\ UNCHANGED <<task, exec>>

\* Read the task, then check its owner, then check the status.
ReadTask(s) ==
  LET t == TaskRead(s) IN
  /\ sess[s].pc = "readTask"
  /\ task[t] \in Statuses
  /\ \/ ~OwnsTask(s, t) /\ Answer(s, "denied")
     \/ /\ OwnsTask(s, t) /\ ~Admits(s, task[t])
        /\ Answer(s, IF sess[s].op = "execSet" THEN "error" ELSE "conflict")
     \/ /\ OwnsTask(s, t) /\ Admits(s, task[t])
        /\ sess' = [sess EXCEPT ![s].pc = After(sess[s].op, "readTask"),
                                ![s].seen = IF sess[s].op = "taskUpdate" THEN task[t] ELSE @]
        /\ UNCHANGED held
  /\ UNCHANGED <<task, exec>>

-----------------------------------------------------------------------------
(* Writes.  Each waits until its lock is available. *)

\* UPDATE or DELETE finds no row any more: every caller answers with a 500.  An
\* INSERT fails the foreign key check when its task is gone.
RowGone(s) ==
  LET row == sess[s] IN
  /\ \/ row.pc \in {"editTask", "deleteTask", "insertExec"} /\ task[row.task] \notin Statuses
     \/ row.pc \in {"patch", "writeExec"} /\ exec[row.exec] \notin Statuses
  /\ \A need \in Needs(s) : Available(s, need[1], need[2])
  /\ Answer(s, "error")
  /\ UNCHANGED <<task, exec>>

\* TaskHandler.Update writes all columns, the status it had read among them.
EditTask(s) ==
  /\ sess[s].pc = "editTask"
  /\ task[sess[s].task] \in Statuses
  /\ Available(s, "write", sess[s].task)
  /\ task' = [task EXCEPT ![sess[s].task] = sess[s].seen]
  /\ WriteDone(s)
  /\ UNCHANGED exec

\* The PUT handler writes its copy of the execution back.
PatchExecution(s) ==
  /\ sess[s].pc = "patch"
  /\ exec[sess[s].exec] \in Statuses
  /\ Available(s, "write", sess[s].exec)
  /\ exec' = [exec EXCEPT ![sess[s].exec] = sess[s].want]
  /\ WriteDone(s)
  /\ UNCHANGED task

\* DELETE FROM tasks locks the task, then the cascade locks its executions one
\* after another, then all the rows go together.
DeleteTaskRow(s) ==
  /\ sess[s].pc = "deleteTask"
  /\ task[sess[s].task] \in Statuses
  /\ Available(s, "delete", sess[s].task)
  /\ Lock(s, {<<"delete", sess[s].task>>})
  /\ Goto(s, "cascade")
  /\ UNCHANGED <<task, exec>>

CascadeToExecution(s, e) ==
  /\ sess[s].pc = "cascade"
  /\ e \in ExecutionsToCascade(s, sess[s].task)
  /\ Available(s, "delete", e)
  /\ Lock(s, {<<"delete", e>>})
  /\ UNCHANGED <<task, exec, sess>>

FinishDelete(s) ==
  /\ sess[s].pc = "cascade"
  /\ ExecutionsToCascade(s, sess[s].task) = {}
  /\ task' = [task EXCEPT ![sess[s].task] = "deleted"]
  /\ exec' = [e \in Executions |-> IF <<"delete", e>> \in held[s] THEN "deleted" ELSE exec[e]]
  /\ WriteDone(s)

\* Mutant: no foreign key on the task.
InsertWithoutForeignKey(s) ==
  /\ sess[s].pc = "insertExec"
  /\ Lock(s, {<<"write", sess[s].exec>>})
  /\ Goto(s, After(sess[s].op, "insertExec"))
  /\ UNCHANGED <<task, exec>>

\* INSERT INTO task_executions under a fresh UUID.  The new row is locked, and
\* the foreign key check keeps the task from being deleted.
InsertExecution(s) ==
  /\ sess[s].pc = "insertExec"
  /\ task[sess[s].task] \in Statuses
  /\ Available(s, "share", sess[s].task)
  /\ Lock(s, {<<"write", sess[s].exec>>, <<"share", sess[s].task>>})
  /\ Goto(s, After(sess[s].op, "insertExec"))
  /\ UNCHANGED <<task, exec>>

\* Mutant: the execution is updated on the pool instead of the transaction.
WriteOutsideTransaction(s) ==
  /\ sess[s].pc = "writeExec"
  /\ exec[sess[s].exec] \in Statuses
  /\ Available(s, "write", sess[s].exec)
  /\ exec' = [exec EXCEPT ![sess[s].exec] = sess[s].want]
  /\ Goto(s, After(sess[s].op, "writeExec"))
  /\ UNCHANGED <<task, held>>

\* UPDATE task_executions inside the transaction.
WriteExecution(s) ==
  /\ sess[s].pc = "writeExec"
  /\ exec[sess[s].exec] \in Statuses
  /\ Available(s, "write", sess[s].exec)
  /\ Lock(s, {<<"write", sess[s].exec>>})
  /\ Goto(s, After(sess[s].op, "writeExec"))
  /\ UNCHANGED <<task, exec>>

\* UPDATE tasks inside the transaction.
WriteTask(s) ==
  /\ sess[s].pc = "writeTask"
  /\ task[sess[s].task] \in Statuses
  /\ Available(s, "write", sess[s].task)
  /\ Lock(s, {<<"write", sess[s].task>>})
  /\ Goto(s, After(sess[s].op, "writeTask"))
  /\ UNCHANGED <<task, exec>>

\* The commit makes both writes visible at once.
Commit(s) ==
  /\ sess[s].pc = "commit"
  /\ exec' = [exec EXCEPT ![sess[s].exec] = sess[s].want]
  /\ task' = [task EXCEPT ![sess[s].task] = sess[s].goal]
  /\ WriteDone(s)

-----------------------------------------------------------------------------
(* Failures. *)

\* A statement fails: the connection or the request's context is gone, or the
\* server stops.  PostgreSQL rolls the open transaction back.
Fail(s) ==
  /\ Faults
  /\ Serving(s)
  /\ Answer(s, "error")
  /\ UNCHANGED <<task, exec>>

\* PostgreSQL's deadlock detector aborts a transaction of the cycle.
DeadlockVictim(s) ==
  /\ Deadlocked(s)
  /\ Answer(s, "error")
  /\ UNCHANGED <<task, exec>>

-----------------------------------------------------------------------------

Request(s) ==
  \/ \E t \in Tasks : CreateTask(s, t)
  \/ \E op \in {"taskUpdate", "taskDelete"}, t \in Tasks : RequestOnTask(s, op, t)
  \/ \E e \in Executions : RequestCreate(s, e) \/ RequestCancel(s, e)
  \/ \E e \in Executions, status \in Reported \cup {Keep} : RequestPut(s, e, status)
  \/ \E e \in Executions, t \in Tasks, es, ts \in Reported : RequestSet(s, e, t, es, ts)

\* The statements of the requests that the code goes through on its own.
Statement(s) ==
  \/ FetchExecution(s) \/ Authorize(s) \/ ReadExecution(s) \/ ReadTask(s)
  \/ MissingExecution(s) \/ MissingTask(s) \/ RowGone(s)
  \/ EditTask(s) \/ PatchExecution(s)
  \/ DeleteTaskRow(s) \/ (\E e \in Executions : CascadeToExecution(s, e)) \/ FinishDelete(s)
  \/ InsertExecution(s) \/ WriteExecution(s) \/ WriteTask(s) \/ Commit(s)

Next ==
  \E s \in Sessions :
    Request(s) \/ Statement(s) \/ Fail(s) \/ DeadlockVictim(s)

Spec == Init /\ [][Next]_vars

\* A handler runs on its own goroutine and PostgreSQL grants a contended row
\* lock in arrival order, so a statement that can run again and again does run;
\* the deadlock detector runs deadlock_timeout after a wait begins.
Fairness ==
  \A s \in Sessions : SF_vars(Statement(s)) /\ WF_vars(DeadlockVictim(s))

FairSpec == Spec /\ Fairness

-----------------------------------------------------------------------------
(* Properties. *)

Board == INSTANCE TaskBoard WITH DirectUpdate <- "execSet" \in Ops

Pcs == {"idle", "fetch", "authorize", "readExec", "readTask", "editTask", "patch",
        "deleteTask", "cascade", "insertExec", "writeExec", "writeTask", "commit"}

ServiceOps == {"execCreate", "execCancel", "execComplete", "execSet"}

Replies == {"ok", "denied", "missing", "conflict", "error"}

Requests == [op : TaskOps \cup ExecutionOps \cup {"none", "execComplete"},
             pc : Pcs, task : Tasks \cup {None}, exec : Executions \cup {None},
             seen : RowStates, want : Statuses \cup {Keep}, goal : Statuses \cup {"absent"},
             reply : Replies \cup {"none"}]

TypeOK ==
  /\ Board!TypeOK
  /\ sess \in [Sessions -> Requests]
  /\ held \in [Sessions -> SUBSET (Modes \X (Tasks \cup Executions))]

\* The execution an open transaction has written and the task it is about to
\* write are still there when it writes the task and when it commits: neither
\* a DELETE of the task nor its cascade gets in between, although the
\* transaction has locked only one of the two rows so far.
WritesFindTheirRows ==
  \A s \in Sessions : sess[s].pc \in {"writeTask", "commit"} =>
    /\ task[sess[s].task] \in Statuses
    /\ exec[sess[s].exec] \in (IF sess[s].op = "execCreate" THEN {"absent"} ELSE Statuses)

\* What each statement may rely on in the request it belongs to.
RequestShape(r) ==
  /\ r.pc = "idle" <=> r.op = "none"
  /\ r.pc \in {"fetch", "authorize", "patch"} <=> r.op = "execPut"
  /\ r.op = "execPut" => r.exec \in Executions
  /\ r.pc \in {"authorize", "patch"} => IsActive(r.want) /\ r.task = TaskOf[r.exec]
  /\ r.op \in {"taskUpdate", "taskDelete"} =>
       /\ r.task \in Tasks /\ r.exec = None
       /\ r.pc \in {"readTask", "editTask", "deleteTask", "cascade"}
  /\ r.pc = "editTask" => r.op = "taskUpdate" /\ r.seen \in Statuses \ {"running"}
  /\ r.pc \in {"deleteTask", "cascade"} => r.op = "taskDelete"
  /\ r.op \in ServiceOps =>
       /\ r.exec \in Executions
       /\ r.pc \in {"readExec", "readTask", "insertExec", "writeExec", "writeTask", "commit"}
       /\ r.pc \in {"insertExec", "writeExec", "writeTask", "commit"} => r.task = TaskOf[r.exec]
  /\ r.op \in {"execCancel", "execComplete"} /\ r.pc = "readTask" => r.task = TaskOf[r.exec]
  /\ r.pc = "insertExec" => r.op = "execCreate"
  /\ r.op = "execCreate" =>
       /\ r.pc \notin {"readExec", "writeExec"}
       /\ r.task = TaskOf[r.exec] /\ r.want = "pending" /\ r.goal = "running"
  /\ r.op = "execCancel" => r.want = "cancelled" /\ r.goal = "pending"
  /\ r.op = "execComplete" => IsTerminal(r.want) /\ r.goal = r.want
  /\ r.op = "execSet" => "execSet" \in Ops /\ {r.want, r.goal} \subseteq Statuses
  /\ r.op # "taskCreate"

RequestsWellFormed == \A s \in Sessions : RequestShape(sess[s])

\* A UUID is drawn for one execution only.
FreshExecutions ==
  \A s \in Sessions : sess[s].op = "execCreate" =>
    /\ exec[sess[s].exec] = "absent"
    /\ \A z \in Sessions : sess[z].op = "execCreate" /\ sess[z].exec = sess[s].exec => z = s

\* Which locks a transaction holds before each of its statements.
HoldsOnlyInside(s) ==
  held[s] # {} => sess[s].pc \in {"cascade", "writeTask", "commit"}

WriterHolds(s) ==
  sess[s].pc \in {"writeTask", "commit"} =>
    /\ <<"write", sess[s].exec>> \in held[s]
    /\ \A e \in Executions, m \in Modes : <<m, e>> \in held[s] => e = sess[s].exec
    /\ sess[s].op = "execCreate" => <<"share", sess[s].task>> \in held[s]
    /\ sess[s].pc = "writeTask" =>
         \A t \in Tasks, m \in Modes : <<m, t>> \in held[s] => m = "share"

DeleterHolds(s) ==
  sess[s].pc = "cascade" =>
    /\ <<"delete", sess[s].task>> \in held[s]
    /\ \A e \in Executions, m \in Modes : <<m, e>> \in held[s] =>
         m = "delete" /\ TaskOf[e] = sess[s].task /\ exec[e] \in Statuses

LocksByStatement ==
  \A s \in Sessions : HoldsOnlyInside(s) /\ WriterHolds(s) /\ DeleterHolds(s)

\* No two transactions hold conflicting locks on a row.
LocksCompatible ==
  \A s, z \in Sessions : s # z =>
    \A m, n \in Modes : \A row \in Tasks \cup Executions :
      <<m, row>> \in held[s] /\ <<n, row>> \in held[z] => ~Conflict(m, n)

\* A DELETE has found its task, and nobody else deletes it.
CascadeFindsItsTask ==
  \A s \in Sessions : sess[s].pc = "cascade" => task[sess[s].task] \in Statuses

\* No interleaving of handlers, failures and lost acknowledgements leaves an
\* execution whose task has been deleted.
NoOrphanExecution == Board!NoOrphanExecution

\* The inductive invariant behind TypeOK, WritesFindTheirRows and NoOrphanExecution.
Inv ==
  /\ TypeOK
  /\ RequestsWellFormed
  /\ FreshExecutions
  /\ LocksByStatement
  /\ LocksCompatible
  /\ CascadeFindsItsTask
  /\ WritesFindTheirRows
  /\ NoOrphanExecution

\* No interleaving of handlers, failures and lost acknowledgements leaves a task
\* in running without an execution that a Cancel or a PUT can still end.
RunningHasActiveExecution == Board!RunningHasActiveExecution

\* Create, Cancel, Complete and UpdateExecutionAndTaskStatus lock the execution
\* before its task, all of them, so they never wait for each other in a circle:
\* only the DELETE of a task, which locks the task first, can be part of one.
OnlyDeletesDeadlock ==
  \A waiting \in SUBSET Sessions :
    waiting # {} /\ Cycle(waiting) => \E s \in waiting : sess[s].pc = "cascade"

\* A row changes only in a step of a session whose user owns it, although the
\* owner is read one or two statements before the write.
OnlyOwnersChangeRows ==
  [][/\ \A t \in Tasks : task'[t] # task[t] =>
          \E s \in Sessions : Caller[s] = Owner[t] /\ (CreateTask(s, t) \/ Statement(s))
     /\ \A e \in Executions : exec'[e] # exec[e] =>
          \E s \in Sessions : Caller[s] = Owner[TaskOf[e]] /\ Statement(s)]_vars

\* Seen from the tables alone, the statements, locks and aborted transactions
\* amount to atomic steps of TaskBoard: no interleaving shows or keeps one half
\* of a Create, Cancel or Complete.
ImplementsBoard == Board!Spec

\* When the requests of one owner do not overlap, each one also keeps the checks
\* it promises, whatever other users send meanwhile.
ImplementsSerialBoard == Board!SerialSpec

\* A user who sends one request at a time: the session has the user to itself.
Alone(s) == \A z \in Sessions : Caller[z] = Caller[s] => z = s

\* For such a user, what a request has checked is still so when its writes become
\* visible, although it read the rows statements earlier and took no lock on them
\* then, and whatever other users send meanwhile.
ChecksStillHold ==
  \A s \in Sessions : Alone(s) =>
    /\ sess[s].pc = "editTask" => task[sess[s].task] = sess[s].seen
    /\ sess[s].pc \in {"deleteTask", "cascade"} => CanUpdateOrDelete(task[sess[s].task])
    /\ sess[s].pc \in {"insertExec", "writeExec", "writeTask", "commit"} =>
         /\ sess[s].op = "execCreate"   => CanExecute(task[sess[s].task])
         /\ sess[s].op = "execCancel"   => CanCancel(exec[sess[s].exec])
         /\ sess[s].op = "execComplete" => CanComplete(exec[sess[s].exec])

\* Every request is answered: lock waits end, and deadlocks are broken.
EveryRequestAnswered == \A s \in Sessions : Serving(s) ~> ~Serving(s)

-----------------------------------------------------------------------------
(* A statement of the documentation that the code does not keep.           *)

\* "Task is already running" (api/openapi.yaml, POST .../executions, 409): a
\* running task gets no further execution.
RunningTaskIsNotStarted ==
  [][\A e \in Executions :
       exec[e] = "absent" /\ exec'[e] # "absent" => task[TaskOf[e]] # "running"]_vars

=============================================================================
