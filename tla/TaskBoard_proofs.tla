-------------------------- MODULE TaskBoard_proofs --------------------------
(***************************************************************************)
(* The safety of TaskBoard for any tables.                                 *)
(***************************************************************************)
EXTENDS TaskBoard, TLAPS

\* Every step keeps the columns within their CHECK constraints.
LEMMA BoardTypeStep == TypeOK /\ [Next]_vars => TypeOK'
  <1> SUFFICES ASSUME TypeOK, [Next]_vars PROVE TypeOK'
    OBVIOUS
  <1> USE TaskOfAssumption DEF TypeOK, Statuses, RowStates
  <1>1. ASSUME NEW t \in Tasks, CreateTask(t) \/ EditTask(t) \/ DeleteTask(t) PROVE TypeOK'
    BY <1>1 DEF CreateTask, EditTask, DeleteTask
  <1>2. ASSUME NEW e \in Executions, Start(e) \/ Cancel(e) \/ SetBoth(e) PROVE TypeOK'
    BY <1>2 DEF Start, Cancel, SetBoth, WritePair
  <1>3. ASSUME NEW e \in Executions, NEW status \in Statuses, Finish(e, status) \/ Patch(e, status)
        PROVE TypeOK'
    BY <1>3 DEF Finish, Patch, WritePair
  <1>4. CASE UNCHANGED vars
    BY <1>4 DEF vars
  <1> QED BY <1>1, <1>2, <1>3, <1>4 DEF Next

\* The status columns hold the values the schema allows, whatever the requests.
THEOREM BoardTypeOK == Spec => []TypeOK
  <1>1. Init => TypeOK
    BY DEF Init, TypeOK, RowStates
  <1> QED BY <1>1, BoardTypeStep, PTL DEF Spec

-----------------------------------------------------------------------------

\* Executions go with their tasks.
LEMMA NoOrphanStep ==
  TypeOK /\ NoOrphanExecution /\ [Next]_vars => NoOrphanExecution'
  <1> SUFFICES ASSUME TypeOK, NoOrphanExecution, [Next]_vars,
                      NEW f \in Executions, exec'[f] \in Statuses
               PROVE  task'[TaskOf[f]] \in Statuses
    BY DEF NoOrphanExecution
  <1> USE TaskOfAssumption DEF TypeOK, NoOrphanExecution, Statuses, RowStates
  <1>1. ASSUME NEW t \in Tasks, CreateTask(t) \/ EditTask(t) PROVE task'[TaskOf[f]] \in Statuses
    BY <1>1 DEF CreateTask, EditTask
  <1>2. ASSUME NEW t \in Tasks, DeleteTask(t) PROVE task'[TaskOf[f]] \in Statuses
    BY <1>2 DEF DeleteTask
  <1>3. ASSUME NEW e \in Executions, Start(e) \/ Cancel(e) \/ SetBoth(e)
        PROVE  task'[TaskOf[f]] \in Statuses
    BY <1>3 DEF Start, Cancel, SetBoth, WritePair
  <1>4. ASSUME NEW e \in Executions, NEW status \in Statuses, Finish(e, status) \/ Patch(e, status)
        PROVE  task'[TaskOf[f]] \in Statuses
    BY <1>4 DEF Finish, Patch, WritePair
  <1>5. CASE UNCHANGED vars
    BY <1>5 DEF vars
  <1> QED BY <1>1, <1>2, <1>3, <1>4, <1>5 DEF Next

\* No execution outlives its task.
THEOREM BoardNoOrphan == Spec => []NoOrphanExecution
  <1>1. Init => NoOrphanExecution
    BY TaskOfAssumption DEF Init, NoOrphanExecution, Statuses
  <1> QED BY <1>1, BoardTypeOK, NoOrphanStep, PTL DEF Spec

-----------------------------------------------------------------------------

\* Whatever ends an execution takes its task out of running in the same step,
\* and whatever puts a task into running adds an execution to it.
LEMMA RunningHasActiveStep ==
  ~DirectUpdate /\ TypeOK /\ RunningHasActiveExecution /\ [Next]_vars
    => RunningHasActiveExecution'
  <1> SUFFICES ASSUME ~DirectUpdate, TypeOK, RunningHasActiveExecution, [Next]_vars,
                      NEW u \in Tasks, task'[u] = "running"
               PROVE  \E f \in ExecutionsOf(u) : IsActive(exec'[f])
    BY DEF RunningHasActiveExecution, ExecutionsOf, IsActive
  <1> USE TaskOfAssumption
      DEF TypeOK, RunningHasActiveExecution, ExecutionsOf, IsActive, Statuses, RowStates
  <1>1. ASSUME NEW t \in Tasks, CreateTask(t) \/ EditTask(t)
        PROVE  \E f \in ExecutionsOf(u) : IsActive(exec'[f])
    BY <1>1 DEF CreateTask, EditTask
  <1>2. ASSUME NEW t \in Tasks, DeleteTask(t)
        PROVE  \E f \in ExecutionsOf(u) : IsActive(exec'[f])
    BY <1>2 DEF DeleteTask
  <1>3. ASSUME NEW e \in Executions, Start(e)
        PROVE  \E f \in ExecutionsOf(u) : IsActive(exec'[f])
    <2>1. CASE TaskOf[e] = u
      BY <1>3, <2>1 DEF Start
    <2>2. CASE TaskOf[e] # u
      BY <1>3, <2>2 DEF Start
    <2> QED BY <2>1, <2>2
  <1>4. ASSUME NEW e \in Executions, NEW status \in Statuses, Cancel(e) \/ Finish(e, status)
        PROVE  \E f \in ExecutionsOf(u) : IsActive(exec'[f])
    <2>1. TaskOf[e] # u
      BY <1>4 DEF Cancel, Finish, WritePair, IsTerminal
    <2> QED BY <1>4, <2>1 DEF Cancel, Finish, WritePair
  <1>5. ASSUME NEW e \in Executions, NEW status \in Statuses, Patch(e, status)
        PROVE  \E f \in ExecutionsOf(u) : IsActive(exec'[f])
    BY <1>5 DEF Patch
  <1>6. CASE UNCHANGED vars
    BY <1>6 DEF vars
  <1> QED BY <1>1, <1>2, <1>3, <1>4, <1>5, <1>6 DEF Next, SetBoth

\* As long as nothing calls UpdateExecutionAndTaskStatus, which may write any
\* pair, no task is left in running without an execution that can end.
THEOREM BoardRunningHasActive ==
  ASSUME ~DirectUpdate
  PROVE  Spec => []RunningHasActiveExecution
  <1>1. Init => RunningHasActiveExecution
    BY DEF Init, RunningHasActiveExecution
  <1>2. TypeOK /\ RunningHasActiveExecution /\ [Next]_vars => RunningHasActiveExecution'
    BY RunningHasActiveStep
  <1> QED BY <1>1, <1>2, BoardTypeOK, PTL DEF Spec

-----------------------------------------------------------------------------
(* Requests that do not overlap. *)

\* Each serial step is a step of the board.
LEMMA SerialStepIsStep == TypeOK /\ SerialNext => Next
  <1> SUFFICES ASSUME TypeOK, SerialNext PROVE Next
    OBVIOUS
  <1>1. ASSUME NEW e \in Executions, SerialReport(e) PROVE Next
    <2>1. PICK status \in Reported \cup {exec[e]} :
            (exec[e] \in Completable /\ Finish(e, status)) \/ Patch(e, status)
      BY <1>1 DEF SerialReport
    <2>2. status \in Statuses
      BY <2>1, ReportedAssumption DEF Finish, Patch, IsTerminal, IsActive, Statuses
    <2> QED BY <2>1, <2>2 DEF Next
  <1> QED BY <1>1 DEF SerialNext, Next, SerialDelete, SerialStart, SerialCancel

\* A serial step, on whatever task, leaves a settled task settled, unless it writes
\* to one of the task's executions that is over.
LEMMA SettledStep ==
  ASSUME TypeOK, [SerialNext]_vars, NEW u \in Tasks, Settled(u),
         \A e \in ExecutionsOf(u) : ~LateWrite(e)
  PROVE  Settled(u)'
  <1> USE TaskOfAssumption DEF TypeOK, Settled, ExecutionsOf, IsActive, Statuses, RowStates
  <1>1. ASSUME NEW t \in Tasks, CreateTask(t) PROVE Settled(u)'
    BY <1>1 DEF CreateTask
  <1>2. ASSUME NEW t \in Tasks, SerialDelete(t) PROVE Settled(u)'
    BY <1>2 DEF SerialDelete, DeleteTask
  <1>3. ASSUME NEW e \in Executions, SerialStart(e) PROVE Settled(u)'
    <2>1. CASE TaskOf[e] = u
      BY <1>3, <2>1 DEF SerialStart, Start, Startable
    <2>2. CASE TaskOf[e] # u
      BY <1>3, <2>2 DEF SerialStart, Start
    <2> QED BY <2>1, <2>2
  <1>4. ASSUME NEW e \in Executions, NEW executionStatus, NEW taskStatus,
               TaskOf[e] # u, WritePair(e, executionStatus, taskStatus)
        PROVE  Settled(u)'
    <2>1. task'[u] = task[u] /\ \A f \in ExecutionsOf(u) : exec'[f] = exec[f]
      BY <1>4 DEF WritePair
    <2> QED BY <2>1
  <1>5. ASSUME NEW e \in Executions, SerialCancel(e) PROVE Settled(u)'
    <2>1. CASE TaskOf[e] # u
      BY <1>4, <1>5, <2>1 DEF SerialCancel, Cancel
    <2>2. CASE TaskOf[e] = u
      <3>1. IsActive(exec[e])
        BY <1>5, <2>2 DEF SerialCancel, Cancellable, LateWrite
      <3> QED BY <1>5, <2>2, <3>1 DEF SerialCancel, Cancel, WritePair
    <2> QED BY <2>1, <2>2
  <1>6. ASSUME NEW e \in Executions, SerialReport(e) PROVE Settled(u)'
    <2>1. PICK status \in Reported \cup {exec[e]} :
            (exec[e] \in Completable /\ Finish(e, status)) \/ Patch(e, status)
      BY <1>6 DEF SerialReport
    <2>2. status \in Statuses
      BY <2>1, ReportedAssumption DEF Finish, Patch, IsTerminal
    <2>3. CASE Patch(e, status) /\ TaskOf[e] # u
      BY <2>3 DEF Patch
    <2>4. CASE Patch(e, status) /\ TaskOf[e] = u
      <3>1. IsActive(exec[e])
        BY <2>2, <2>4 DEF LateWrite, Patch, IsTerminal
      <3> QED BY <2>4, <3>1 DEF Patch
    <2>5. CASE exec[e] \in Completable /\ Finish(e, status) /\ TaskOf[e] # u
      BY <1>4, <2>5 DEF Finish
    <2>6. CASE exec[e] \in Completable /\ Finish(e, status) /\ TaskOf[e] = u
      <3>1. IsActive(exec[e]) \/ exec[e] = "failed"
        BY <2>2, <2>6 DEF LateWrite, Completable
      <3>2. \A f \in ExecutionsOf(u) \ {e} : ~IsActive(exec[f]) /\ exec[f] # "failed"
        BY <2>6, <3>1
      <3> QED BY <2>6, <3>2 DEF Finish, WritePair, IsTerminal
    <2> QED BY <2>1, <2>3, <2>4, <2>5, <2>6
  <1>7. CASE UNCHANGED vars
    BY <1>7 DEF vars
  <1> QED BY <1>1, <1>2, <1>3, <1>5, <1>6, <1>7 DEF SerialNext

\* The columns stay within their constraints under the serial steps as well.
LEMMA SerialTypeOK == SerialSpec => []TypeOK
  <1>1. Init => TypeOK
    BY DEF Init, TypeOK, RowStates
  <1>2. TypeOK /\ [SerialNext]_vars => TypeOK'
    BY SerialStepIsStep, BoardTypeStep
  <1> QED BY <1>1, <1>2, PTL DEF SerialSpec

\* When requests do not overlap, and whatever statuses clients report: a task is
\* running exactly while its only unfinished execution is, until a PUT revives an
\* execution that is over or a timed-out one is cancelled or completed.
THEOREM SerialOnlyLateWritesUnsettle == SerialSpec => OnlyLateWritesUnsettle
  <1>1. TypeOK /\ [SerialNext]_vars =>
          [\A t \in Tasks :
             Settled(t) => Settled(t)' \/ \E e \in ExecutionsOf(t) : LateWrite(e)]_vars
    BY SettledStep
  <1> QED BY <1>1, SerialTypeOK, PTL DEF SerialSpec, OnlyLateWritesUnsettle

\* So a task to whose executions nobody makes such a write always agrees with them,
\* whatever happens to other tasks.
THEOREM SettledWithoutLateWrites ==
  ASSUME NEW t \in Tasks
  PROVE  SerialSpec /\ [][\A e \in ExecutionsOf(t) : ~LateWrite(e)]_vars => []Settled(t)
  <1>1. Init => Settled(t)
    BY TaskOfAssumption DEF Init, Settled, ExecutionsOf, IsActive
  <1>2. TypeOK /\ Settled(t) /\ [SerialNext]_vars /\ [\A e \in ExecutionsOf(t) : ~LateWrite(e)]_vars
          => Settled(t)'
    <2> SUFFICES ASSUME TypeOK, Settled(t), [SerialNext]_vars,
                        [\A e \in ExecutionsOf(t) : ~LateWrite(e)]_vars
                 PROVE  Settled(t)'
      OBVIOUS
    <2>1. CASE UNCHANGED vars
      BY <2>1 DEF vars, Settled, ExecutionsOf, IsActive
    <2>2. CASE \A e \in ExecutionsOf(t) : ~LateWrite(e)
      BY <2>2, SettledStep
    <2> QED BY <2>1, <2>2
  <1> QED BY <1>1, <1>2, SerialTypeOK, PTL DEF SerialSpec

=============================================================================
