----------------------- MODULE ContainerExecutor_proofs -----------------------
(***************************************************************************)
(* ContainerExecutor for any number of tasks and executions, and so for    *)
(* passes over several containers: its inductive invariant, and that the   *)
(* periodic cleanup spares scripts that still have time.                   *)
(***************************************************************************)
EXTENDS ContainerExecutor, TLAPS

USE TaskOfAssumption

\* TaskBoard speaks of the same statuses.
LEMMA BoardStatuses ==
  /\ Board!Statuses = Statuses
  /\ Board!RowStates = RowStates
  /\ \A status : Board!IsTerminal(status) <=> IsTerminal(status)
  /\ \A status : Board!IsActive(status) <=> IsActive(status)
  BY DEF Board!Statuses, Board!RowStates, Statuses, RowStates,
         Board!IsTerminal, IsTerminal, Board!IsActive, IsActive

\* The part of the invariant that is about one execution.
Local(e) ==
  /\ NothingYet(e) /\ RemovedIsGone(e) /\ CodeWhenOver(e) /\ ResultIsTrue(e) /\ InTime(e)
  /\ Exists(e) => tracked[e] # "no" \/ go[e].pc = "register" \/ e \in lost
  /\ exec[e] = "completed" => docker[e].code = "zero"
  /\ exec[e] = "timeout" => go[e].left = 0

\* What keeps the invariant of an execution that a step is not about.
Untouched(f) ==
  /\ exec'[f] = exec[f] /\ go'[f] = go[f] /\ docker'[f] = docker[f]
  /\ tracked'[f] = tracked[f] /\ age'[f] = age[f]
  /\ \A k \in Cleaners :
       /\ f \in cleaner'[k].todo => f \in cleaner[k].todo
       /\ f \in cleaner'[k].removed => f \in cleaner[k].removed
  /\ f \in lost => f \in lost'

LEMMA InvIsLocal == Inv <=> TypeOK /\ \A e \in Executions : Local(e)
  BY DEF Inv, Local, NoUnnoticedContainer, RowsTellTheTruth

LEMMA UntouchedKeepsLocal ==
  ASSUME NEW f \in Executions, Local(f), Untouched(f)
  PROVE  Local(f)'
  BY DEF Local, Untouched, NothingYet, RemovedIsGone, CodeWhenOver, ResultIsTrue, InTime,
         Exists, Cleaners

\* Most steps are about one execution.
LEMMA StepOfOne ==
  ASSUME Inv, NEW e \in Executions, TypeOK', Local(e)',
         \A f \in Executions \ {e} : Untouched(f)
  PROVE  Inv'
<1>1. \A f \in Executions : Local(f)'
  <2> SUFFICES ASSUME NEW f \in Executions PROVE Local(f)' OBVIOUS
  <2>1. CASE f = e BY <2>1
  <2>2. CASE f # e BY <2>2, UntouchedKeepsLocal, InvIsLocal
  <2> QED BY <2>1, <2>2
<1>2. Inv' <=> TypeOK' /\ \A f \in Executions : Local(f)'
  BY DEF Inv, Local, NoUnnoticedContainer, RowsTellTheTruth
<1> QED BY <1>1, <1>2

\* The service moves an execution and its task by steps of TaskBoard.
LEMMA RowsStep ==
  ASSUME TypeOK, NEW e \in Executions, NEW status \in Statuses, NEW other \in Statuses,
         \/ Board!SerialStart(e) /\ status = "pending"
         \/ Board!WritePair(e, status, other)
         \/ Board!Patch(e, status)
  PROVE  /\ Board!TypeOK'
         /\ exec' = [exec EXCEPT ![e] = status]
         /\ exec[e] \in RowStates
<1>1. /\ task \in [Tasks -> RowStates] /\ exec \in [Executions -> RowStates]
      /\ Board!TypeOK' <=> task' \in [Tasks -> RowStates] /\ exec' \in [Executions -> RowStates]
  BY BoardStatuses DEF TypeOK, Board!TypeOK
<1>2. Statuses \subseteq RowStates /\ "pending" \in Statuses /\ "running" \in Statuses
  BY DEF Statuses, RowStates
<1>3. exec' = [exec EXCEPT ![e] = status]
  BY DEF Board!SerialStart, Board!Start, Board!WritePair, Board!Patch
<1>4. \/ task' = task
      \/ \E ts \in Statuses : task' = [task EXCEPT ![TaskOf[e]] = ts]
  BY <1>2 DEF Board!SerialStart, Board!Start, Board!WritePair, Board!Patch
<1>5. task' \in [Tasks -> RowStates] BY <1>1, <1>2, <1>4
<1>6. exec' \in [Executions -> RowStates] BY <1>1, <1>2, <1>3
<1> QED BY <1>1, <1>3, <1>5, <1>6

Pcs == {"idle", "fetch", "rollback", "mark", "create", "register", "start", "markStarted",
        "wait", "waiting", "markDone", "remove", "report", "finalize", "done", "dead"}

Results == {"none", "completed", "failed", "timeout", "cancelled"}

\* The goroutine of e goes on to another statement.
LEMMA GotoStep ==
  ASSUME TypeOK, NEW e \in Executions, NEW pc \in Pcs, Goto(e, pc)
  PROVE  /\ go' \in [Executions -> Goroutines]
         /\ go'[e].pc = pc /\ go'[e].caller = go[e].caller /\ go'[e].ctx = go[e].ctx
         /\ go'[e].left = go[e].left /\ go'[e].result = go[e].result
         /\ \A f \in Executions \ {e} : go'[f] = go[f]
<1> DEFINE g == [go[e] EXCEPT !.pc = pc]
<1>1. go[e] \in Goroutines /\ go \in [Executions -> Goroutines] BY DEF TypeOK
<1>2. g = [pc |-> pc, caller |-> go[e].caller, ctx |-> go[e].ctx, left |-> go[e].left,
           result |-> go[e].result]
  BY <1>1 DEF Goroutines
<1>3. g \in Goroutines BY <1>1, <1>2 DEF Goroutines, Pcs
<1>4. go' = [go EXCEPT ![e] = g] BY DEF Goto
<1> HIDE DEF g
<1>5. go'[e] = g BY <1>1, <1>4
<1> QED BY <1>1, <1>2, <1>3, <1>4, <1>5

\* The goroutine of e goes on with a result.
LEMMA ResultStep ==
  ASSUME TypeOK, NEW e \in Executions, NEW pc \in Pcs, NEW result \in Results,
         Conclude(e, pc, result)
  PROVE  /\ go' \in [Executions -> Goroutines]
         /\ go'[e].pc = pc /\ go'[e].caller = go[e].caller /\ go'[e].ctx = go[e].ctx
         /\ go'[e].left = go[e].left /\ go'[e].result = result
         /\ \A f \in Executions \ {e} : go'[f] = go[f]
<1> DEFINE h == [go EXCEPT ![e].pc = pc]
           r == [go[e] EXCEPT !.pc = pc]
           g == [r EXCEPT !.result = result]
<1>1. go[e] \in Goroutines /\ go \in [Executions -> Goroutines] BY DEF TypeOK
<1>2. r = [pc |-> pc, caller |-> go[e].caller, ctx |-> go[e].ctx,
           left |-> go[e].left, result |-> go[e].result]
  BY <1>1 DEF Goroutines
<1>3. g = [pc |-> pc, caller |-> go[e].caller, ctx |-> go[e].ctx,
           left |-> go[e].left, result |-> result]
  <2> HIDE DEF r
  <2> QED BY <1>2
<1>4. h[e] = r BY <1>1
<1>5. go' = [go EXCEPT ![e] = g]
  <2>1. go' = [h EXCEPT ![e].result = result] BY DEF Conclude
  <2>2. go' = [h EXCEPT ![e] = g]
    <3> HIDE DEF h, r
    <3> QED BY <2>1, <1>4
  <2> HIDE DEF g
  <2> QED BY <2>2
<1>6. g \in Goroutines
  <2> HIDE DEF g
  <2> QED BY <1>1, <1>3 DEF Goroutines, Pcs, Results
<1>7. go'[e] = g
  <2> HIDE DEF g
  <2> QED BY <1>1, <1>5
<1> HIDE DEF g, r, h
<1> QED BY <1>1, <1>3, <1>5, <1>6, <1>7

\* Execute derives a context with the task's timeout.
LEMMA DeadlineStep ==
  ASSUME TypeOK, NEW e \in Executions, MarkRunning(e)
  PROVE  /\ go' \in [Executions -> Goroutines]
         /\ go'[e].pc = "create" /\ go'[e].caller = go[e].caller /\ go'[e].ctx = go[e].ctx
         /\ go'[e].left = Timeout[TaskOf[e]] /\ go'[e].result = go[e].result
         /\ \A f \in Executions \ {e} : go'[f] = go[f]
<1> DEFINE h == [go EXCEPT ![e].pc = "create"]
           r == [go[e] EXCEPT !.pc = "create"]
           g == [r EXCEPT !.left = Timeout[TaskOf[e]]]
<1>1. go[e] \in Goroutines /\ go \in [Executions -> Goroutines] BY DEF TypeOK
<1>2. r = [pc |-> "create", caller |-> go[e].caller, ctx |-> go[e].ctx,
           left |-> go[e].left, result |-> go[e].result]
  BY <1>1 DEF Goroutines
<1>3. g = [pc |-> "create", caller |-> go[e].caller, ctx |-> go[e].ctx,
           left |-> Timeout[TaskOf[e]], result |-> go[e].result]
  <2> HIDE DEF r
  <2> QED BY <1>2
<1>4. h[e] = r BY <1>1
<1>5. go' = [go EXCEPT ![e] = g]
  <2>1. go' = [h EXCEPT ![e].left = Timeout[TaskOf[e]]] BY DEF MarkRunning
  <2>2. go' = [h EXCEPT ![e] = g]
    <3> HIDE DEF h, r
    <3> QED BY <2>1, <1>4
  <2> HIDE DEF g
  <2> QED BY <2>2
<1>6. g \in Goroutines
  <2> HIDE DEF g
  <2> QED BY <1>1, <1>3, TimeoutAssumption DEF Goroutines
<1>7. go'[e] = g
  <2> HIDE DEF g
  <2> QED BY <1>1, <1>5
<1> HIDE DEF g, r, h
<1> QED BY <1>1, <1>3, <1>5, <1>6, <1>7

\* A context of e ends.
LEMMA CallerStep ==
  ASSUME TypeOK, NEW e \in Executions, CallerReturns(e)
  PROVE  LET ended == IF go[e].ctx = "live" THEN "cancelled" ELSE go[e].ctx IN
         /\ go' \in [Executions -> Goroutines]
         /\ go'[e].pc = go[e].pc /\ go'[e].caller = "cancelled" /\ go'[e].ctx = ended
         /\ go'[e].left = go[e].left /\ go'[e].result = go[e].result
         /\ \A f \in Executions \ {e} : go'[f] = go[f]
<1> DEFINE ended == IF go[e].ctx = "live" THEN "cancelled" ELSE go[e].ctx
           h == [go EXCEPT ![e].caller = "cancelled"]
           r == [go[e] EXCEPT !.caller = "cancelled"]
           g == [r EXCEPT !.ctx = ended]
<1>1. go[e] \in Goroutines /\ go \in [Executions -> Goroutines] BY DEF TypeOK
<1>2. r = [pc |-> go[e].pc, caller |-> "cancelled", ctx |-> go[e].ctx,
           left |-> go[e].left, result |-> go[e].result]
  BY <1>1 DEF Goroutines
<1>3. g = [pc |-> go[e].pc, caller |-> "cancelled", ctx |-> ended,
           left |-> go[e].left, result |-> go[e].result]
  <2> HIDE DEF r
  <2> QED BY <1>2
<1>4. h[e] = r BY <1>1
<1>5. go' = [go EXCEPT ![e] = g]
  <2>1. go' = [h EXCEPT ![e].ctx = ended] BY <1>1 DEF CallerReturns
  <2>2. go' = [h EXCEPT ![e] = g]
    <3> HIDE DEF h, r
    <3> QED BY <2>1, <1>4
  <2> HIDE DEF g
  <2> QED BY <2>2
<1>6. g \in Goroutines
  <2> HIDE DEF g
  <2> QED BY <1>1, <1>3 DEF Goroutines
<1>7. go'[e] = g
  <2> HIDE DEF g
  <2> QED BY <1>1, <1>5
<1> HIDE DEF g, r, h
<1> QED BY <1>1, <1>3, <1>5, <1>6, <1>7

-----------------------------------------------------------------------------
(* Steps of the goroutine. *)

others == <<docker, tracked, age, cleaner, cancel, lost>>

\* A step of the goroutine that touches its own state and its row at most.
LEMMA GoroutineStep ==
  ASSUME Inv, NEW e \in Executions, UNCHANGED others,
         go' \in [Executions -> Goroutines],
         \A f \in Executions \ {e} : go'[f] = go[f] /\ exec'[f] = exec[f],
         Board!TypeOK', Local(e)'
  PROVE  Inv'
<1>1. TypeOK BY InvIsLocal
<1>2. TypeOK' BY <1>1 DEF TypeOK, others
<1>3. \A f \in Executions \ {e} : Untouched(f) BY DEF Untouched, others
<1> QED BY <1>2, <1>3, StepOfOne

LEMMA SameRows ==
  ASSUME TypeOK, UNCHANGED rows
  PROVE  Board!TypeOK' /\ exec' = exec
  BY DEF TypeOK, Board!TypeOK, rows

LEMMA KeepExecuteTask ==
  ASSUME Inv, NEW e \in Executions, ExecuteTask(e)
  PROVE  Inv'
<1>1. Local(e) /\ TypeOK BY InvIsLocal
<1>2. Board!TypeOK' /\ exec' = [exec EXCEPT ![e] = "pending"] /\ exec \in [Executions -> RowStates]
  BY <1>1, RowsStep, BoardStatuses DEF ExecuteTask, Statuses, TypeOK, Board!TypeOK
<1>3. Goto(e, "fetch") /\ UNCHANGED others BY DEF ExecuteTask, others
<1>4. /\ go' \in [Executions -> Goroutines]
      /\ go'[e].pc = "fetch" /\ go'[e].ctx = go[e].ctx
      /\ go'[e].left = go[e].left /\ go'[e].result = go[e].result
      /\ \A f \in Executions \ {e} : go'[f] = go[f]
  BY <1>1, <1>3, GotoStep DEF Pcs
<1>5. Local(e)'
  BY <1>1, <1>2, <1>3, <1>4 DEF ExecuteTask, Local, NothingYet, RemovedIsGone,
       CodeWhenOver, ResultIsTrue, InTime, Exists, Timed, others
<1> QED BY <1>2, <1>3, <1>4, <1>5, GoroutineStep

LEMMA KeepFetchTask ==
  ASSUME Inv, NEW e \in Executions, FetchTask(e)
  PROVE  Inv'
<1>1. Local(e) /\ TypeOK BY InvIsLocal
<1>2. Board!TypeOK' /\ exec' = exec BY <1>1, SameRows DEF FetchTask
<1>3. UNCHANGED others BY DEF FetchTask, others
<1>4. PICK pc \in {"mark", "rollback"} : Goto(e, pc) BY DEF FetchTask
<1>5. /\ go' \in [Executions -> Goroutines]
      /\ go'[e].pc = pc /\ go'[e].ctx = go[e].ctx
      /\ go'[e].left = go[e].left /\ go'[e].result = go[e].result
      /\ \A f \in Executions \ {e} : go'[f] = go[f]
  BY <1>1, <1>4, GotoStep DEF Pcs
<1>6. Local(e)'
  BY <1>1, <1>2, <1>3, <1>5 DEF FetchTask, Local, NothingYet, RemovedIsGone,
       CodeWhenOver, ResultIsTrue, InTime, Exists, Timed, others
<1> QED BY <1>2, <1>3, <1>5, <1>6, GoroutineStep

LEMMA KeepRollback ==
  ASSUME Inv, NEW e \in Executions, Rollback(e)
  PROVE  Inv'
<1>1. Local(e) /\ TypeOK /\ exec \in [Executions -> RowStates]
  BY InvIsLocal, BoardStatuses DEF TypeOK, Board!TypeOK
<1>2. Board!TypeOK' /\ (exec' = exec \/ exec' = [exec EXCEPT ![e] = "cancelled"])
  <2>1. CASE UNCHANGED rows BY <2>1, <1>1, SameRows
  <2>2. CASE Board!Cancel(e) BY <2>2, <1>1, RowsStep DEF Board!Cancel, Statuses
  <2> QED BY <2>1, <2>2 DEF Rollback
<1>3. Goto(e, "done") /\ UNCHANGED others BY DEF Rollback, others
<1>4. /\ go' \in [Executions -> Goroutines]
      /\ go'[e].pc = "done" /\ go'[e].ctx = go[e].ctx
      /\ go'[e].left = go[e].left /\ go'[e].result = go[e].result
      /\ \A f \in Executions \ {e} : go'[f] = go[f]
  BY <1>1, <1>3, GotoStep DEF Pcs
<1>5. Local(e)'
  BY <1>1, <1>2, <1>3, <1>4 DEF Rollback, Local, NothingYet, RemovedIsGone,
       CodeWhenOver, ResultIsTrue, InTime, Exists, Timed, others
<1> QED BY <1>1, <1>2, <1>3, <1>4, <1>5, GoroutineStep

LEMMA KeepMarkRunning ==
  ASSUME Inv, NEW e \in Executions, MarkRunning(e)
  PROVE  Inv'
<1>1. Local(e) /\ TypeOK /\ exec \in [Executions -> RowStates]
  BY InvIsLocal, BoardStatuses DEF TypeOK, Board!TypeOK
<1>2. Board!TypeOK' /\ (exec' = exec \/ exec' = [exec EXCEPT ![e] = "running"])
  <2>1. CASE UNCHANGED rows BY <2>1, <1>1, SameRows
  <2>2. CASE Board!Patch(e, "running") BY <2>2, <1>1, RowsStep DEF Statuses
  <2> QED BY <2>1, <2>2 DEF MarkRunning
<1>3. UNCHANGED others BY DEF MarkRunning, others
<1>4. Timeout[TaskOf[e]] \in 0..MaxAge BY TimeoutAssumption
<1>5. /\ go' \in [Executions -> Goroutines]
      /\ go'[e].pc = "create" /\ go'[e].ctx = go[e].ctx
      /\ go'[e].left = Timeout[TaskOf[e]] /\ go'[e].result = go[e].result
      /\ \A f \in Executions \ {e} : go'[f] = go[f]
  BY <1>1, DeadlineStep
<1>6. Local(e)'
  BY <1>1, <1>2, <1>3, <1>4, <1>5 DEF MarkRunning, Local, NothingYet, RemovedIsGone,
       CodeWhenOver, ResultIsTrue, InTime, Exists, Timed, others
<1> QED BY <1>1, <1>2, <1>3, <1>5, <1>6, GoroutineStep

LEMMA KeepCallerReturns ==
  ASSUME Inv, NEW e \in Executions, CallerReturns(e)
  PROVE  Inv'
<1>1. Local(e) /\ TypeOK BY InvIsLocal
<1>2. Board!TypeOK' /\ exec' = exec BY <1>1, SameRows DEF CallerReturns
<1>3. UNCHANGED others BY DEF CallerReturns, others
<1>5. /\ go' \in [Executions -> Goroutines]
      /\ go'[e].pc = go[e].pc /\ go'[e].ctx \in {"cancelled", go[e].ctx}
      /\ go'[e].left = go[e].left /\ go'[e].result = go[e].result
      /\ \A f \in Executions \ {e} : go'[f] = go[f]
  BY <1>1, CallerStep
<1>6. Local(e)'
  BY <1>1, <1>2, <1>3, <1>5 DEF CallerReturns, Local, NothingYet, RemovedIsGone,
       CodeWhenOver, ResultIsTrue, InTime, Exists, Timed, others
<1> QED BY <1>2, <1>3, <1>5, <1>6, GoroutineStep

LEMMA KeepReport ==
  ASSUME Inv, NEW e \in Executions, Report(e)
  PROVE  Inv'
<1>1. Local(e) /\ TypeOK BY InvIsLocal
<1>2. Board!TypeOK' /\ exec' = exec BY <1>1, SameRows DEF Report
<1>3. UNCHANGED others BY DEF Report, others
<1>4. PICK pc \in {"finalize", "done"} : Goto(e, pc) BY DEF Report
<1>5. /\ go' \in [Executions -> Goroutines]
      /\ go'[e].pc = pc /\ go'[e].ctx = go[e].ctx
      /\ go'[e].left = go[e].left /\ go'[e].result = go[e].result
      /\ \A f \in Executions \ {e} : go'[f] = go[f]
  BY <1>1, <1>4, GotoStep DEF Pcs
<1>6. Local(e)'
  BY <1>1, <1>2, <1>3, <1>5 DEF Report, Local, NothingYet, RemovedIsGone,
       CodeWhenOver, ResultIsTrue, InTime, Exists, Timed, others
<1> QED BY <1>2, <1>3, <1>5, <1>6, GoroutineStep

LEMMA KeepFinalize ==
  ASSUME Inv, NEW e \in Executions, Finalize(e)
  PROVE  Inv'
<1>1. Local(e) /\ TypeOK /\ exec \in [Executions -> RowStates]
  BY InvIsLocal, BoardStatuses DEF TypeOK, Board!TypeOK
<1>2. Board!TypeOK' /\ (exec' = exec \/ exec' = [exec EXCEPT ![e] = go[e].result])
  <2>1. CASE UNCHANGED rows BY <2>1, <1>1, SameRows
  <2>2. CASE Board!Finish(e, go[e].result)
    <3>1. go[e].result \in Statuses
      BY <2>2, BoardStatuses DEF Board!Finish, IsTerminal, Statuses
    <3> QED BY <2>2, <3>1, <1>1, RowsStep DEF Board!Finish
  <2> QED BY <2>1, <2>2 DEF Finalize
<1>3. Goto(e, "done") /\ UNCHANGED others BY DEF Finalize, others
<1>4. /\ go' \in [Executions -> Goroutines]
      /\ go'[e].pc = "done" /\ go'[e].ctx = go[e].ctx
      /\ go'[e].left = go[e].left /\ go'[e].result = go[e].result
      /\ \A f \in Executions \ {e} : go'[f] = go[f]
  BY <1>1, <1>3, GotoStep DEF Pcs
<1>5. Local(e)'
  BY <1>1, <1>2, <1>3, <1>4 DEF Finalize, Local, NothingYet, RemovedIsGone,
       CodeWhenOver, ResultIsTrue, InTime, Exists, Timed, others
<1> QED BY <1>1, <1>2, <1>3, <1>4, <1>5, GoroutineStep

LEMMA KeepReject ==
  ASSUME Inv, NEW e \in Executions, Reject(e)
  PROVE  Inv'
<1>1. Local(e) /\ TypeOK BY InvIsLocal
<1>2. Board!TypeOK' /\ exec' = exec BY <1>1, SameRows DEF Reject
<1>3. UNCHANGED others BY DEF Reject, others
<1>4. Conclude(e, "report", "failed") BY DEF Reject
<1>5. /\ go' \in [Executions -> Goroutines]
      /\ go'[e].pc = "report" /\ go'[e].ctx = go[e].ctx
      /\ go'[e].left = go[e].left /\ go'[e].result = "failed"
      /\ \A f \in Executions \ {e} : go'[f] = go[f]
  BY <1>1, <1>4, ResultStep DEF Pcs, Results
<1>6. Local(e)'
  BY <1>1, <1>2, <1>3, <1>5 DEF Reject, Local, NothingYet, RemovedIsGone,
       CodeWhenOver, ResultIsTrue, InTime, Exists, Timed, others
<1> QED BY <1>2, <1>3, <1>5, <1>6, GoroutineStep

LEMMA KeepWaitContainer ==
  ASSUME Inv, NEW e \in Executions, WaitContainer(e)
  PROVE  Inv'
<1>1. Local(e) /\ TypeOK BY InvIsLocal
<1>2. Board!TypeOK' /\ exec' = exec BY <1>1, SameRows DEF WaitContainer
<1>3. UNCHANGED others BY DEF WaitContainer, others
<1>4. Goto(e, "waiting") BY DEF WaitContainer
<1>5. /\ go' \in [Executions -> Goroutines]
      /\ go'[e].pc = "waiting" /\ go'[e].ctx = go[e].ctx
      /\ go'[e].left = go[e].left /\ go'[e].result = go[e].result
      /\ \A f \in Executions \ {e} : go'[f] = go[f]
  BY <1>1, <1>4, GotoStep DEF Pcs
<1>6. Local(e)'
  BY <1>1, <1>2, <1>3, <1>5 DEF WaitContainer, Local, NothingYet, RemovedIsGone,
       CodeWhenOver, ResultIsTrue, InTime, Exists, Timed, others
<1> QED BY <1>2, <1>3, <1>5, <1>6, GoroutineStep

LEMMA KeepWaitReturns ==
  ASSUME Inv, NEW e \in Executions, WaitReturns(e)
  PROVE  Inv'
<1>1. Local(e) /\ TypeOK BY InvIsLocal
<1>2. Board!TypeOK' /\ exec' = exec BY <1>1, SameRows DEF WaitReturns
<1>3. UNCHANGED others BY DEF WaitReturns, others
<1>4. PICK result \in {"completed", "failed"} :
        /\ Conclude(e, "markDone", result)
        /\ result = "completed" => docker[e].code = "zero"
  BY DEF WaitReturns
<1>5. /\ go' \in [Executions -> Goroutines]
      /\ go'[e].pc = "markDone" /\ go'[e].ctx = go[e].ctx
      /\ go'[e].left = go[e].left /\ go'[e].result = result
      /\ \A f \in Executions \ {e} : go'[f] = go[f]
  BY <1>1, <1>4, ResultStep DEF Pcs, Results
<1>6. Local(e)'
  BY <1>1, <1>2, <1>3, <1>5, <1>4 DEF WaitReturns, Local, NothingYet, RemovedIsGone,
       CodeWhenOver, ResultIsTrue, InTime, Exists, Timed, others
<1> QED BY <1>2, <1>3, <1>5, <1>6, GoroutineStep

LEMMA KeepWaitFails ==
  ASSUME Inv, NEW e \in Executions, WaitFails(e)
  PROVE  Inv'
<1>1. Local(e) /\ TypeOK BY InvIsLocal
<1>2. Board!TypeOK' /\ exec' = exec BY <1>1, SameRows DEF WaitFails
<1>3. UNCHANGED others BY DEF WaitFails, others
<1>4. PICK result \in {"timeout", "cancelled", "failed"} :
        /\ Conclude(e, "markDone", result)
        /\ result = "timeout" => go[e].ctx = "deadline"
  BY DEF WaitFails
<1>5. /\ go' \in [Executions -> Goroutines]
      /\ go'[e].pc = "markDone" /\ go'[e].ctx = go[e].ctx
      /\ go'[e].left = go[e].left /\ go'[e].result = result
      /\ \A f \in Executions \ {e} : go'[f] = go[f]
  BY <1>1, <1>4, ResultStep DEF Pcs, Results
<1>6. Local(e)'
  BY <1>1, <1>2, <1>3, <1>5, <1>4 DEF WaitFails, Local, NothingYet, RemovedIsGone,
       CodeWhenOver, ResultIsTrue, InTime, Exists, Timed, others
<1> QED BY <1>2, <1>3, <1>5, <1>6, GoroutineStep

-----------------------------------------------------------------------------
(* Steps of the goroutine on its container. *)

Containers == [state : {"none", "created", "running", "exited", "gone"},
               code : {"none", "zero", "nonzero"}]

\* The daemon moves a container to another state.
LEMMA StateStep ==
  ASSUME TypeOK, NEW e \in Executions,
         NEW state \in {"created", "running", "gone"},
         docker' = [docker EXCEPT ![e].state = state]
  PROVE  /\ docker' \in [Executions -> Containers]
         /\ docker'[e].state = state /\ docker'[e].code = docker[e].code
         /\ \A f \in Executions \ {e} : docker'[f] = docker[f]
<1> DEFINE c == [docker[e] EXCEPT !.state = state]
<1>1. docker[e] \in Containers /\ docker \in [Executions -> Containers]
  BY DEF TypeOK, Containers
<1>2. c = [state |-> state, code |-> docker[e].code] BY <1>1 DEF Containers
<1>3. c \in Containers BY <1>1, <1>2 DEF Containers
<1>4. docker' = [docker EXCEPT ![e] = c] OBVIOUS
<1> HIDE DEF c
<1>5. docker'[e] = c BY <1>1, <1>4
<1> QED BY <1>1, <1>2, <1>3, <1>4, <1>5

\* A container that is removed has exited or is killed.
LEMMA RemovedStep ==
  ASSUME TypeOK, NEW e \in Executions, Removed(e)
  PROVE  /\ docker' \in [Executions -> Containers]
         /\ docker'[e].state = "gone"
         /\ docker[e].code # "none" => docker'[e].code = docker[e].code
         /\ \A f \in Executions \ {e} : docker'[f] = docker[f]
<1> DEFINE c == [state |-> "gone",
                 code |-> IF docker[e].code = "none" THEN "nonzero" ELSE docker[e].code]
<1>1. docker[e] \in Containers /\ docker \in [Executions -> Containers]
  BY DEF TypeOK, Containers
<1>2. c \in Containers BY <1>1 DEF Containers
<1>3. docker' = [docker EXCEPT ![e] = c] BY DEF Removed
<1>4. docker'[e] = c BY <1>1, <1>3
<1> QED BY <1>1, <1>2, <1>3, <1>4

\* Only a container that is in the map is marked.
LEMMA MarkStep ==
  ASSUME TypeOK, NEW e \in Executions,
         NEW status \in {"running", "completed", "failed", "timeout", "cancelled"},
         Mark(e, status)
  PROVE  /\ tracked' \in [Executions -> {"no", "created", "running", "completed", "failed",
                                         "timeout", "cancelled"}]
         /\ tracked'[e] = "no" <=> tracked[e] = "no"
         /\ \A f \in Executions \ {e} : tracked'[f] = tracked[f]
  BY DEF TypeOK, Mark

LEMMA KeepCreateContainer ==
  ASSUME Inv, NEW e \in Executions, CreateContainer(e)
  PROVE  Inv'
<1>1. Local(e) /\ TypeOK BY InvIsLocal
<1>2. Board!TypeOK' /\ exec' = exec BY <1>1, SameRows DEF CreateContainer
<1>3. /\ docker' \in [Executions -> Containers]
      /\ docker'[e].code = docker[e].code /\ docker'[e].state \in {docker[e].state, "created"}
      /\ \A f \in Executions \ {e} : docker'[f] = docker[f]
  <2>1. CASE docker' = docker BY <2>1, <1>1 DEF TypeOK, Containers
  <2>2. CASE docker' = [docker EXCEPT ![e].state = "created"] BY <2>2, <1>1, StateStep
  <2> QED BY <2>1, <2>2 DEF CreateContainer
<1>4. /\ go' \in [Executions -> Goroutines]
      /\ go'[e].ctx = go[e].ctx /\ go'[e].left = go[e].left
      /\ \/ go'[e].pc = "register" /\ go'[e].result = go[e].result
         \/ /\ go'[e].pc = "report" /\ go'[e].result = "failed"
            /\ docker'[e].state # docker[e].state => e \in lost'
      /\ \A f \in Executions \ {e} : go'[f] = go[f]
  <2>1. CASE Goto(e, "register") BY <2>1, <1>1, GotoStep DEF Pcs
  <2>2. CASE /\ Conclude(e, "report", "failed")
             /\ docker' = docker \/ e \in lost'
    BY <2>2, <1>1, ResultStep DEF Pcs, Results
  <2> QED BY <2>1, <2>2 DEF CreateContainer
<1>5. lost' \in {lost, lost \cup {e}} BY DEF CreateContainer
<1>6. TypeOK' BY <1>1, <1>2, <1>3, <1>4, <1>5 DEF CreateContainer, TypeOK, Containers
<1>7. Local(e)'
  BY <1>1, <1>2, <1>3, <1>4, <1>5 DEF CreateContainer, Local, NothingYet, RemovedIsGone,
       CodeWhenOver, ResultIsTrue, InTime, Exists, Timed
<1>8. \A f \in Executions \ {e} : Untouched(f)
  BY <1>2, <1>3, <1>4, <1>5 DEF CreateContainer, Untouched
<1> QED BY <1>6, <1>7, <1>8, StepOfOne

LEMMA KeepRegisterContainer ==
  ASSUME Inv, NEW e \in Executions, RegisterContainer(e)
  PROVE  Inv'
<1>1. Local(e) /\ TypeOK BY InvIsLocal
<1>2. Board!TypeOK' /\ exec' = exec BY <1>1, SameRows DEF RegisterContainer
<1>3. /\ go' \in [Executions -> Goroutines]
      /\ go'[e].pc = "start" /\ go'[e].ctx = go[e].ctx
      /\ go'[e].left = go[e].left /\ go'[e].result = go[e].result
      /\ \A f \in Executions \ {e} : go'[f] = go[f]
  BY <1>1, GotoStep DEF RegisterContainer, Pcs
<1>4. /\ tracked' = [tracked EXCEPT ![e] = "created"]
      /\ age' = [age EXCEPT ![e] = 0]
  BY DEF RegisterContainer
<1>5. /\ tracked'[e] = "created" /\ age'[e] = 0
      /\ \A f \in Executions \ {e} : tracked'[f] = tracked[f] /\ age'[f] = age[f]
  BY <1>1, <1>4 DEF TypeOK
<1>6. TypeOK'
  BY <1>1, <1>2, <1>3, <1>4, TimeoutAssumption DEF RegisterContainer, TypeOK
<1>7. Local(e)'
  <2>1. go[e].left \in Nat /\ Timeout[TaskOf[e]] \in Nat
    BY <1>1, TimeoutAssumption DEF TypeOK, Goroutines
  <2> QED BY <2>1, <1>1, <1>2, <1>3, <1>5 DEF RegisterContainer, Cleaners, Local, NothingYet, RemovedIsGone,
       CodeWhenOver, ResultIsTrue, InTime, Exists, Timed
<1>8. \A f \in Executions \ {e} : Untouched(f)
  BY <1>2, <1>3, <1>5 DEF RegisterContainer, Untouched
<1> QED BY <1>6, <1>7, <1>8, StepOfOne

LEMMA KeepStartContainer ==
  ASSUME Inv, NEW e \in Executions, StartContainer(e)
  PROVE  Inv'
<1>1. Local(e) /\ TypeOK BY InvIsLocal
<1>2. Board!TypeOK' /\ exec' = exec BY <1>1, SameRows DEF StartContainer
<1>3. /\ docker' \in [Executions -> Containers]
      /\ docker'[e].code = docker[e].code
      /\ \/ docker'[e].state = docker[e].state
         \/ docker'[e].state = "running" /\ docker[e].state = "created"
      /\ \A f \in Executions \ {e} : docker'[f] = docker[f]
  <2>1. CASE docker' = docker BY <2>1, <1>1 DEF TypeOK, Containers
  <2>2. CASE Exists(e) /\ docker' = [docker EXCEPT ![e].state = "running"]
    <3>1. docker[e].state = "created"
      BY <2>2, <1>1 DEF StartContainer, Exists, Local, NothingYet
    <3> QED BY <2>2, <3>1, <1>1, StateStep
  <2> QED BY <2>1, <2>2 DEF StartContainer
<1>4. /\ go' \in [Executions -> Goroutines]
      /\ go'[e].ctx = go[e].ctx /\ go'[e].left = go[e].left
      /\ \/ go'[e].pc = "markStarted" /\ go'[e].result = go[e].result
         \/ go'[e].pc = "remove" /\ go'[e].result = "failed"
      /\ \A f \in Executions \ {e} : go'[f] = go[f]
  <2>1. CASE Goto(e, "markStarted") BY <2>1, <1>1, GotoStep DEF Pcs
  <2>2. CASE Conclude(e, "remove", "failed") BY <2>2, <1>1, ResultStep DEF Pcs, Results
  <2> QED BY <2>1, <2>2 DEF StartContainer
<1>5. TypeOK' BY <1>1, <1>2, <1>3, <1>4 DEF StartContainer, TypeOK, Containers
<1>6. Local(e)'
  BY <1>1, <1>2, <1>3, <1>4 DEF StartContainer, Local, NothingYet, RemovedIsGone,
       CodeWhenOver, ResultIsTrue, InTime, Exists, Timed
<1>7. \A f \in Executions \ {e} : Untouched(f)
  BY <1>2, <1>3, <1>4 DEF StartContainer, Untouched
<1> QED BY <1>5, <1>6, <1>7, StepOfOne

LEMMA KeepMarkContainerStarted ==
  ASSUME Inv, NEW e \in Executions, MarkContainerStarted(e)
  PROVE  Inv'
<1>1. Local(e) /\ TypeOK BY InvIsLocal
<1>2. Board!TypeOK' /\ exec' = exec BY <1>1, SameRows DEF MarkContainerStarted
<1>3. /\ go' \in [Executions -> Goroutines]
      /\ go'[e].pc = "wait" /\ go'[e].ctx = go[e].ctx
      /\ go'[e].left = go[e].left /\ go'[e].result = go[e].result
      /\ \A f \in Executions \ {e} : go'[f] = go[f]
  BY <1>1, GotoStep DEF MarkContainerStarted, Pcs
<1>4. Mark(e, "running") BY DEF MarkContainerStarted
<1>5. TypeOK' BY <1>1, <1>2, <1>3, <1>4, MarkStep DEF MarkContainerStarted, TypeOK
<1>6. Local(e)'
  BY <1>1, <1>2, <1>3, <1>4, MarkStep DEF MarkContainerStarted, Local, NothingYet, RemovedIsGone,
       CodeWhenOver, ResultIsTrue, InTime, Exists, Timed
<1>7. \A f \in Executions \ {e} : Untouched(f)
  BY <1>1, <1>2, <1>3, <1>4, MarkStep DEF MarkContainerStarted, Untouched
<1> QED BY <1>5, <1>6, <1>7, StepOfOne

LEMMA KeepMarkContainerCompleted ==
  ASSUME Inv, NEW e \in Executions, MarkContainerCompleted(e)
  PROVE  Inv'
<1>1. Local(e) /\ TypeOK BY InvIsLocal
<1>2. Board!TypeOK' /\ exec' = exec BY <1>1, SameRows DEF MarkContainerCompleted
<1>3. /\ go' \in [Executions -> Goroutines]
      /\ go'[e].pc = "remove" /\ go'[e].ctx = go[e].ctx
      /\ go'[e].left = go[e].left /\ go'[e].result = go[e].result
      /\ \A f \in Executions \ {e} : go'[f] = go[f]
  BY <1>1, GotoStep DEF MarkContainerCompleted, Pcs
<1>4. /\ Mark(e, go[e].result)
      /\ go[e].result \in {"running", "completed", "failed", "timeout", "cancelled"}
  BY <1>1 DEF MarkContainerCompleted, Local, ResultIsTrue, TypeOK, Goroutines
<1>5. TypeOK' BY <1>1, <1>2, <1>3, <1>4, MarkStep DEF MarkContainerCompleted, TypeOK
<1>6. Local(e)'
  BY <1>1, <1>2, <1>3, <1>4, MarkStep DEF MarkContainerCompleted, Local, NothingYet, RemovedIsGone,
       CodeWhenOver, ResultIsTrue, InTime, Exists, Timed
<1>7. \A f \in Executions \ {e} : Untouched(f)
  BY <1>1, <1>2, <1>3, <1>4, MarkStep DEF MarkContainerCompleted, Untouched
<1> QED BY <1>5, <1>6, <1>7, StepOfOne

LEMMA KeepDeferredRemove ==
  ASSUME Inv, NEW e \in Executions, DeferredRemove(e)
  PROVE  Inv'
<1>1. Local(e) /\ TypeOK BY InvIsLocal
<1>2. Board!TypeOK' /\ exec' = exec BY <1>1, SameRows DEF DeferredRemove
<1>3. /\ docker' \in [Executions -> Containers]
      /\ docker[e].code # "none" => docker'[e].code = docker[e].code
      /\ docker'[e].state = "gone" \/ docker'[e] = docker[e]
      /\ \A f \in Executions \ {e} : docker'[f] = docker[f]
  <2>1. CASE docker' = docker BY <2>1, <1>1 DEF TypeOK, Containers
  <2>2. CASE Removed(e) BY <2>2, <1>1, RemovedStep
  <2> QED BY <2>1, <2>2 DEF DeferredRemove
<1>4. /\ go' \in [Executions -> Goroutines]
      /\ go'[e].pc = "report" /\ go'[e].ctx = go[e].ctx
      /\ go'[e].left = go[e].left /\ go'[e].result = go[e].result
      /\ \A f \in Executions \ {e} : go'[f] = go[f]
  BY <1>1, GotoStep DEF DeferredRemove, Pcs
<1>5. TypeOK' BY <1>1, <1>2, <1>3, <1>4 DEF DeferredRemove, TypeOK, Containers
<1>6. Local(e)'
  BY <1>1, <1>2, <1>3, <1>4 DEF DeferredRemove, Local, NothingYet, RemovedIsGone,
       CodeWhenOver, ResultIsTrue, InTime, Exists, Timed
<1>7. \A f \in Executions \ {e} : Untouched(f)
  BY <1>2, <1>3, <1>4 DEF DeferredRemove, Untouched
<1> QED BY <1>5, <1>6, <1>7, StepOfOne

-----------------------------------------------------------------------------
(* Steps of the passes and of cancel requests. *)

Passes == [todo : SUBSET Executions, removed : SUBSET Executions]

\* A pass takes its snapshot.
LEMMA SnapshotStep ==
  ASSUME TypeOK, NEW k \in Cleaners, NEW containers \in SUBSET Executions,
         Snapshot(k, containers)
  PROVE  /\ cleaner' \in [Cleaners -> Passes]
         /\ cleaner'[k].todo = containers /\ cleaner'[k].removed = cleaner[k].removed
         /\ \A j \in Cleaners \ {k} : cleaner'[j] = cleaner[j]
<1> DEFINE c == [cleaner[k] EXCEPT !.todo = containers]
<1>1. cleaner[k] \in Passes /\ cleaner \in [Cleaners -> Passes] BY DEF TypeOK, Passes
<1>2. c = [todo |-> containers, removed |-> cleaner[k].removed] BY <1>1 DEF Passes
<1>3. c \in Passes BY <1>1, <1>2 DEF Passes
<1>4. cleaner' = [cleaner EXCEPT ![k] = c] BY DEF Snapshot
<1> HIDE DEF c
<1>5. cleaner'[k] = c BY <1>1, <1>4
<1> QED BY <1>1, <1>2, <1>3, <1>4, <1>5

\* A snapshot of tracked containers, of stale ones if it is the periodic pass's.
LEMMA SnapshotKeepsInv ==
  ASSUME Inv, NEW k \in Cleaners, NEW containers \in SUBSET Executions,
         Snapshot(k, containers), Resting(k),
         \A e \in containers : tracked[e] # "no",
         k = "periodic" => \A e \in containers : IsStale(e),
         UNCHANGED <<rows, go, docker, tracked, age, lost>>,
         cancel' \in [Executions -> {"idle", "kill", "write"}]
  PROVE  Inv'
<1>1. TypeOK /\ \A e \in Executions : Local(e) BY InvIsLocal
<1>2. Board!TypeOK' /\ exec' = exec BY <1>1, SameRows
<1>3. /\ cleaner' \in [Cleaners -> Passes]
      /\ cleaner'[k].todo = containers /\ cleaner'[k].removed = {}
      /\ \A j \in Cleaners \ {k} : cleaner'[j] = cleaner[j]
  BY <1>1, SnapshotStep DEF Resting
<1>4. TypeOK' BY <1>1, <1>2, <1>3 DEF TypeOK, Passes
<1>5. ASSUME NEW e \in Executions PROVE Local(e)'
  <2>1. Local(e) BY <1>1
  <2>2. NothingYet(e)' BY <2>1, <1>3 DEF Local, NothingYet
  <2>3. RemovedIsGone(e)' BY <2>1, <1>3 DEF Local, RemovedIsGone, Exists
  <2>4. InTime(e)'
    <3>1. e \in cleaner'["periodic"].todo => age[e] > MaxAge
      BY <2>1, <1>3 DEF Local, InTime, IsStale, Cleaners
    <3> QED BY <2>1, <3>1 DEF Local, InTime
  <2> QED BY <2>1, <2>2, <2>3, <2>4, <1>2 DEF Local, CodeWhenOver, ResultIsTrue, Exists
<1>6. Inv' <=> TypeOK' /\ \A e \in Executions : Local(e)'
  BY DEF Inv, Local, NoUnnoticedContainer, RowsTellTheTruth
<1> QED BY <1>4, <1>5, <1>6

LEMMA KeepCleanupStaleContainers ==
  ASSUME Inv, CleanupStaleContainers
  PROVE  Inv'
<1>1. cancel' \in [Executions -> {"idle", "kill", "write"}]
  BY InvIsLocal DEF CleanupStaleContainers, TypeOK
<1> QED BY <1>1, SnapshotKeepsInv DEF CleanupStaleContainers, IsStale, Cleaners

LEMMA KeepCleanupAll ==
  ASSUME Inv, CleanupAll
  PROVE  Inv'
<1>1. cancel' \in [Executions -> {"idle", "kill", "write"}]
  BY InvIsLocal DEF CleanupAll, TypeOK
<1> QED BY <1>1, SnapshotKeepsInv DEF CleanupAll, Cleaners

LEMMA KeepCancelExecution ==
  ASSUME Inv, NEW e \in Executions, CancelExecution(e)
  PROVE  Inv'
<1>1. cancel' \in [Executions -> {"idle", "kill", "write"}]
  BY InvIsLocal DEF CancelExecution, TypeOK
<1>2. e \in Cleaners /\ e # "periodic" BY NamesAssumption DEF Cleaners
<1> DEFINE containers == IF tracked[e] = "no" THEN {} ELSE {e}
<1>3. containers \in SUBSET Executions /\ \A f \in containers : tracked[f] # "no" OBVIOUS
<1>4. Snapshot(e, containers) /\ Resting(e) /\ UNCHANGED <<rows, go, docker, tracked, age, lost>>
  BY DEF CancelExecution
<1> HIDE DEF containers
<1> QED BY <1>1, <1>2, <1>3, <1>4, SnapshotKeepsInv

\* A pass goes on with e, which it has removed or gives up.
LEMMA PassKeepsInv ==
  ASSUME Inv, NEW k \in Cleaners, NEW e \in Executions,
         cleaner' \in [Cleaners -> Passes],
         \A j \in Cleaners :
           /\ cleaner'[j].todo \subseteq cleaner[j].todo
           /\ cleaner'[j].removed \subseteq cleaner[j].removed \cup {e},
         UNCHANGED <<rows, go, age, cancel, lost>>,
         docker' \in [Executions -> Containers],
         \A f \in Executions \ {e} : docker'[f] = docker[f] /\ tracked'[f] = tracked[f],
         docker'[e] = docker[e] \/ docker'[e].state = "gone",
         docker[e].code # "none" => docker'[e].code = docker[e].code,
         tracked' \in [Executions -> {"no", "created", "running", "completed", "failed",
                                      "timeout", "cancelled"}],
         Exists(e)' => tracked'[e] = tracked[e],
         tracked[e] = "no" => tracked'[e] = "no",
         \/ go[e].pc \notin {"idle", "fetch", "rollback", "mark", "create", "register"}
            /\ ~Exists(e)'
         \/ /\ docker'[e] = docker[e]
            /\ \A j \in Cleaners : cleaner'[j].removed \subseteq cleaner[j].removed
  PROVE  Inv'
<1>1. TypeOK /\ Local(e) BY InvIsLocal
<1>2. Board!TypeOK' /\ exec' = exec BY <1>1, SameRows
<1>3. TypeOK' BY <1>1, <1>2 DEF TypeOK, Passes, Containers
<1>4. Local(e)'
  <2>1. NothingYet(e)' BY <1>1 DEF Local, NothingYet
  <2>2. RemovedIsGone(e)' BY <1>1 DEF Local, RemovedIsGone, Exists
  <2>3. CodeWhenOver(e)' BY <1>1 DEF Local, CodeWhenOver
  <2>4. ResultIsTrue(e)' BY <1>1, <1>2 DEF Local, ResultIsTrue
  <2>5. InTime(e)'
    <3>1. e \in cleaner'["periodic"].todo => e \in cleaner["periodic"].todo BY DEF Cleaners
    <3> QED BY <1>1, <3>1 DEF Local, InTime
  <2>6. Exists(e)' => tracked'[e] # "no" \/ go'[e].pc = "register" \/ e \in lost'
    BY <1>1 DEF Local, Exists
  <2>7. /\ exec'[e] = "completed" => docker'[e].code = "zero"
        /\ exec'[e] = "timeout" => go'[e].left = 0
    BY <1>1, <1>2 DEF Local
  <2> QED BY <2>1, <2>2, <2>3, <2>4, <2>5, <2>6, <2>7 DEF Local
<1>5. \A f \in Executions \ {e} : Untouched(f) BY <1>2 DEF Untouched
<1> QED BY <1>3, <1>4, <1>5, StepOfOne

LEMMA KeepRemoveSucceeds ==
  ASSUME Inv, NEW k \in Cleaners, NEW e \in Executions, RemoveSucceeds(k, e)
  PROVE  Inv'
<1>1. TypeOK /\ Local(e) BY InvIsLocal
<1>2. /\ cleaner' \in [Cleaners -> Passes]
      /\ \A j \in Cleaners :
           /\ cleaner'[j].todo \subseteq cleaner[j].todo
           /\ cleaner'[j].removed \subseteq cleaner[j].removed \cup {e}
  BY <1>1 DEF RemoveSucceeds, TypeOK, Passes
<1>3. /\ docker' \in [Executions -> Containers]
      /\ docker'[e].state = "gone"
      /\ docker[e].code # "none" => docker'[e].code = docker[e].code
      /\ \A f \in Executions \ {e} : docker'[f] = docker[f]
  BY <1>1, RemovedStep DEF RemoveSucceeds
<1>4. go[e].pc \notin {"idle", "fetch", "rollback", "mark", "create", "register"}
  BY <1>1 DEF RemoveSucceeds, Local, NothingYet
<1>5. ~Exists(e)' BY <1>3 DEF Exists
<1>6. UNCHANGED <<rows, go, tracked, age, cancel, lost>> BY DEF RemoveSucceeds
<1> QED BY <1>1, <1>2, <1>3, <1>4, <1>5, <1>6, PassKeepsInv DEF TypeOK

LEMMA KeepRemoveFails ==
  ASSUME Inv, NEW k \in Cleaners, NEW e \in Executions, RemoveFails(k, e)
  PROVE  Inv'
<1>1. TypeOK /\ Local(e) BY InvIsLocal
<1>2. /\ cleaner' \in [Cleaners -> Passes]
      /\ \A j \in Cleaners :
           /\ cleaner'[j].todo \subseteq cleaner[j].todo
           /\ cleaner'[j].removed \subseteq cleaner[j].removed
  BY <1>1 DEF RemoveFails, TypeOK, Passes
<1>3. UNCHANGED <<rows, go, docker, tracked, age, cancel, lost>> BY DEF RemoveFails
<1> QED BY <1>1, <1>2, <1>3, PassKeepsInv DEF TypeOK, Containers, Exists

LEMMA KeepUnregisterContainer ==
  ASSUME Inv, NEW k \in Cleaners, NEW e \in Executions, UnregisterContainer(k, e)
  PROVE  Inv'
<1>1. TypeOK /\ Local(e) BY InvIsLocal
<1>2. /\ cleaner' \in [Cleaners -> Passes]
      /\ \A j \in Cleaners :
           /\ cleaner'[j].todo \subseteq cleaner[j].todo
           /\ cleaner'[j].removed \subseteq cleaner[j].removed
  BY <1>1 DEF UnregisterContainer, TypeOK, Passes
<1>3. UNCHANGED <<rows, go, docker, age, cancel, lost>> BY DEF UnregisterContainer
<1>4. ~Exists(e) BY <1>1 DEF UnregisterContainer, Local, RemovedIsGone
<1>5. tracked' = [tracked EXCEPT ![e] = "no"] BY DEF UnregisterContainer
<1> QED BY <1>1, <1>2, <1>3, <1>4, <1>5, PassKeepsInv DEF TypeOK, Containers, Exists

LEMMA KeepCancelGuard ==
  ASSUME Inv, NEW e \in Executions, CancelGuard(e)
  PROVE  Inv'
<1>1. Local(e) /\ TypeOK BY InvIsLocal
<1>2. Board!TypeOK' BY <1>1, SameRows DEF CancelGuard
<1>3. TypeOK' BY <1>1, <1>2 DEF CancelGuard, TypeOK
<1>4. \A f \in Executions : Untouched(f) BY DEF CancelGuard, Untouched, rows
<1>5. Local(e)' BY <1>1, <1>4, UntouchedKeepsLocal
<1> QED BY <1>3, <1>4, <1>5, StepOfOne

LEMMA KeepCancelRows ==
  ASSUME Inv, NEW e \in Executions, CancelRows(e)
  PROVE  Inv'
<1>1. Local(e) /\ TypeOK /\ exec \in [Executions -> RowStates]
  BY InvIsLocal, BoardStatuses DEF TypeOK, Board!TypeOK
<1>2. Board!TypeOK' /\ (exec' = exec \/ exec' = [exec EXCEPT ![e] = "cancelled"])
  <2>1. CASE UNCHANGED rows BY <2>1, <1>1, SameRows
  <2>2. CASE Board!Cancel(e) BY <2>2, <1>1, RowsStep DEF Board!Cancel, Statuses
  <2> QED BY <2>1, <2>2 DEF CancelRows
<1>3. TypeOK' BY <1>1, <1>2 DEF CancelRows, TypeOK
<1>4. Local(e)'
  BY <1>1, <1>2 DEF CancelRows, Local, NothingYet, RemovedIsGone,
       CodeWhenOver, ResultIsTrue, InTime, Exists, Timed
<1>5. \A f \in Executions \ {e} : Untouched(f) BY <1>1, <1>2 DEF CancelRows, Untouched
<1> QED BY <1>3, <1>4, <1>5, StepOfOne

-----------------------------------------------------------------------------
(* The daemon, time, and the end of the process. *)

\* A step of the daemon alone.
LEMMA DaemonStep ==
  ASSUME Inv, NEW e \in Executions, UNCHANGED <<rows, go, tracked, age, cleaner, cancel, lost>>,
         docker' \in [Executions -> Containers],
         \A f \in Executions \ {e} : docker'[f] = docker[f],
         docker[e].state \in {"running", "exited"}, docker'[e].state \in {"exited", "gone"},
         docker[e].code # "none" => docker'[e].code = docker[e].code
  PROVE  Inv'
<1>1. Local(e) /\ TypeOK BY InvIsLocal
<1>2. Board!TypeOK' /\ exec' = exec BY <1>1, SameRows
<1>3. TypeOK' BY <1>1, <1>2 DEF TypeOK, Containers
<1>4. Local(e)' BY <1>1, <1>2 DEF Local, NothingYet, RemovedIsGone,
       CodeWhenOver, ResultIsTrue, InTime, Exists, Timed
<1>5. \A f \in Executions \ {e} : Untouched(f) BY <1>2 DEF Untouched
<1> QED BY <1>3, <1>4, <1>5, StepOfOne

LEMMA KeepExit ==
  ASSUME Inv, NEW e \in Executions, NEW code \in {"zero", "nonzero"}, Exit(e, code)
  PROVE  Inv'
<1>1. Local(e) /\ TypeOK BY InvIsLocal
<1> DEFINE c == [state |-> "exited", code |-> code]
<1>2. docker' = [docker EXCEPT ![e] = c] BY DEF Exit
<1>3. docker[e].code = "none" /\ docker[e].state = "running"
  BY <1>1 DEF Exit, Local, CodeWhenOver
<1>4. /\ docker' \in [Executions -> Containers] /\ docker'[e] = c
      /\ \A f \in Executions \ {e} : docker'[f] = docker[f]
  BY <1>1, <1>2 DEF TypeOK, Containers
<1>5. UNCHANGED <<rows, go, tracked, age, cleaner, cancel, lost>> BY DEF Exit
<1> QED BY <1>3, <1>4, <1>5, DaemonStep

LEMMA KeepAutoRemove ==
  ASSUME Inv, NEW e \in Executions, AutoRemove(e)
  PROVE  Inv'
<1>1. /\ docker' \in [Executions -> Containers]
      /\ docker'[e].state = "gone" /\ docker'[e].code = docker[e].code
      /\ \A f \in Executions \ {e} : docker'[f] = docker[f]
  BY InvIsLocal, StateStep DEF AutoRemove
<1>2. UNCHANGED <<rows, go, tracked, age, cleaner, cancel, lost>> BY DEF AutoRemove
<1> QED BY <1>1, <1>2, DaemonStep DEF AutoRemove

\* What a tick does to one goroutine.
LEMMA TickStep ==
  ASSUME TypeOK, Tick, NEW e \in Executions
  PROVE  /\ go'[e] \in Goroutines
         /\ go'[e].pc = go[e].pc /\ go'[e].result = go[e].result
         /\ \/ go'[e] = go[e] /\ (go[e].pc \notin Timed \/ go[e].left = 0)
            \/ /\ go[e].pc \in Timed /\ go'[e].left = go[e].left - 1
               /\ go'[e].ctx = "deadline" => go'[e].left = 0 \/ go[e].ctx = "deadline"
         /\ age'[e] \in 0..(MaxAge + 1)
         /\ age'[e] \in {age[e], age[e] + 1} /\ (age'[e] = age[e] => age[e] > MaxAge)
<1>1. go[e] \in Goroutines /\ age[e] \in 0..(MaxAge + 1) /\ MaxAge \in Nat
  BY TimeoutAssumption DEF TypeOK
<1> DEFINE r == [go[e] EXCEPT !.left = @ - 1]
           ended == IF go[e].left = 1 /\ go[e].ctx = "live" THEN "deadline" ELSE go[e].ctx
           g == [go[e] EXCEPT !.left = @ - 1,
                              !.ctx = IF go[e].left = 1 /\ @ = "live" THEN "deadline" ELSE @]
<1>2. go'[e] = IF go[e].pc \notin Timed \/ go[e].left = 0 THEN go[e] ELSE g BY DEF Tick
<1>3. g = [pc |-> go[e].pc, caller |-> go[e].caller, ctx |-> ended, left |-> go[e].left - 1,
           result |-> go[e].result]
  <2>1. r = [pc |-> go[e].pc, caller |-> go[e].caller, ctx |-> go[e].ctx,
             left |-> go[e].left - 1, result |-> go[e].result]
    BY <1>1 DEF Goroutines
  <2>2. g = [r EXCEPT !.ctx = IF go[e].left = 1 /\ @ = "live" THEN "deadline" ELSE @] OBVIOUS
  <2> HIDE DEF r, g
  <2> QED BY <2>1, <2>2
<1>4. age'[e] = IF age[e] > MaxAge THEN age[e] ELSE age[e] + 1 BY DEF Tick
<1> HIDE DEF g, r
<1> QED BY <1>1, <1>2, <1>3, <1>4 DEF Goroutines

LEMMA KeepTick ==
  ASSUME Inv, Tick
  PROVE  Inv'
<1>1. TypeOK /\ \A e \in Executions : Local(e) BY InvIsLocal
<1>2. Board!TypeOK' /\ exec' = exec BY <1>1, SameRows DEF Tick
<1>3. TypeOK'
  <2>1. go' \in [Executions -> Goroutines]
    <3>1. \A e \in Executions : go'[e] \in Goroutines BY <1>1, TickStep
    <3>2. DOMAIN go' = Executions /\ go' = [e \in Executions |-> go'[e]] BY DEF Tick
    <3> QED BY <3>1, <3>2
  <2>2. age' \in [Executions -> 0..(MaxAge + 1)]
    <3>1. \A e \in Executions : age'[e] \in 0..(MaxAge + 1) BY <1>1, TickStep
    <3>2. age' = [e \in Executions |-> age'[e]] BY DEF Tick
    <3> QED BY <3>1, <3>2
  <2> QED BY <1>1, <1>2, <2>1, <2>2 DEF Tick, TypeOK
<1>4. ASSUME NEW e \in Executions PROVE Local(e)'
  <2>1. Local(e) BY <1>1
  <2>2. UNCHANGED <<docker, tracked, cleaner, lost>> BY DEF Tick
  <2>3. /\ go'[e].pc = go[e].pc /\ go'[e].result = go[e].result
        /\ \/ go'[e] = go[e] /\ (go[e].pc \notin Timed \/ go[e].left = 0)
           \/ /\ go[e].pc \in Timed /\ go'[e].left = go[e].left - 1
              /\ go'[e].ctx = "deadline" => go'[e].left = 0 \/ go[e].ctx = "deadline"
        /\ age'[e] \in {age[e], age[e] + 1} /\ (age'[e] = age[e] => age[e] > MaxAge)
    BY <1>1, TickStep
  <2>4. /\ go[e].left \in Nat /\ go'[e].left \in Nat /\ age[e] \in Nat /\ MaxAge \in Nat
        /\ Timeout[TaskOf[e]] \in 1..MaxAge
    BY <1>1, TickStep, TimeoutAssumption DEF TypeOK, Goroutines
  <2>5. go'[e].left = go[e].left \/ go[e].left > 0 BY <2>3, <2>4
  <2>6. ResultIsTrue(e)'
    BY <1>2, <2>1, <2>2, <2>3, <2>4, <2>5 DEF Local, ResultIsTrue, Timed
  <2>7. InTime(e)' BY <2>1, <2>2, <2>3, <2>4 DEF Local, InTime
  <2>8. exec[e] = "timeout" => go'[e].left = 0 BY <2>1, <2>4, <2>5 DEF Local
  <2> QED BY <1>2, <2>1, <2>2, <2>3, <2>6, <2>7, <2>8
       DEF Local, NothingYet, RemovedIsGone, CodeWhenOver, Exists
<1>5. Inv' <=> TypeOK' /\ \A e \in Executions : Local(e)'
  BY DEF Inv, Local, NoUnnoticedContainer, RowsTellTheTruth
<1> QED BY <1>3, <1>4, <1>5

\* What a restart does to one goroutine.
LEMMA RestartStep ==
  ASSUME TypeOK, Restart, NEW e \in Executions
  PROVE  /\ go'[e] \in Goroutines
         /\ go'[e].ctx = go[e].ctx /\ go'[e].left = go[e].left /\ go'[e].result = go[e].result
         /\ go'[e].pc = "dead" \/ (go'[e] = go[e] /\ go[e].pc = "idle")
<1>1. go[e] \in Goroutines BY DEF TypeOK
<1> DEFINE g == [go[e] EXCEPT !.pc = "dead"]
<1>2. go'[e] = IF go[e].pc = "idle" THEN go[e] ELSE g BY DEF Restart
<1>3. g = [pc |-> "dead", caller |-> go[e].caller, ctx |-> go[e].ctx, left |-> go[e].left,
           result |-> go[e].result]
  BY <1>1 DEF Goroutines
<1> HIDE DEF g
<1>4. CASE go[e].pc = "idle" BY <1>1, <1>2, <1>4
<1>5. CASE go[e].pc # "idle"
  <2>1. go'[e] = g BY <1>2, <1>5
  <2>2. g \in Goroutines BY <1>1, <1>3 DEF Goroutines
  <2> QED BY <2>1, <2>2, <1>3
<1> QED BY <1>4, <1>5

LEMMA KeepRestart ==
  ASSUME Inv, Restart
  PROVE  Inv'
<1>1. TypeOK /\ \A e \in Executions : Local(e) BY InvIsLocal
<1>2. Board!TypeOK' /\ exec' = exec BY <1>1, SameRows DEF Restart
<1>3. /\ tracked' = [e \in Executions |-> "no"]
      /\ cleaner' = [k \in Cleaners |-> [todo |-> {}, removed |-> {}]]
      /\ cancel' = [e \in Executions |-> "idle"]
      /\ lost' = lost \cup {e \in Executions : Exists(e)}
      /\ UNCHANGED <<docker, age>>
  BY DEF Restart
<1>4. TypeOK'
  <2>1. \A e \in Executions : go'[e] \in Goroutines BY <1>1, RestartStep
  <2>2. go' = [e \in Executions |-> go'[e]] BY DEF Restart
  <2>3. go' \in [Executions -> Goroutines] BY <2>1, <2>2
  <2> QED BY <1>1, <1>2, <1>3, <2>3 DEF TypeOK
<1>5. ASSUME NEW e \in Executions PROVE Local(e)'
  <2>1. Local(e) BY <1>1
  <2>2. /\ go'[e].ctx = go[e].ctx /\ go'[e].left = go[e].left /\ go'[e].result = go[e].result
        /\ go'[e].pc = "dead" \/ (go'[e] = go[e] /\ go[e].pc = "idle")
    BY <1>1, RestartStep
  <2>3. tracked'[e] = "no" /\ \A k \in Cleaners : cleaner'[k] = [todo |-> {}, removed |-> {}]
    BY <1>3
  <2>4. NothingYet(e)' BY <1>3, <2>1, <2>2, <2>3 DEF Local, NothingYet
  <2>5. RemovedIsGone(e)' BY <2>3 DEF RemovedIsGone
  <2>6. ResultIsTrue(e)' BY <1>2, <1>3, <2>1, <2>2 DEF Local, ResultIsTrue
  <2>7. InTime(e)' BY <1>3, <2>1, <2>2, <2>3 DEF Local, InTime, Timed, Cleaners
  <2>8. Exists(e)' => e \in lost' BY <1>3 DEF Exists
  <2> QED BY <1>2, <1>3, <2>1, <2>2, <2>4, <2>5, <2>6, <2>7, <2>8 DEF Local, CodeWhenOver
<1>6. Inv' <=> TypeOK' /\ \A e \in Executions : Local(e)'
  BY DEF Inv, Local, NoUnnoticedContainer, RowsTellTheTruth
<1> QED BY <1>4, <1>5, <1>6

-----------------------------------------------------------------------------
(* The theorems. *)

\* Before anything has started, nothing is wrong.
LEMMA InitInv == Init => Inv
<1> SUFFICES ASSUME Init PROVE Inv OBVIOUS
<1>1. Board!TypeOK
  BY BoardStatuses DEF Init, Board!TypeOK, RowStates, Statuses
<1>2. go \in [Executions -> Goroutines] BY TimeoutAssumption DEF Init, Goroutines
<1>3. age \in [Executions -> 0..(MaxAge + 1)] BY TimeoutAssumption DEF Init
<1>4. TypeOK BY <1>1, <1>2, <1>3 DEF Init, TypeOK
<1>5. ASSUME NEW e \in Executions PROVE Local(e)
  <2>1. /\ go[e].pc = "idle" /\ go[e].ctx = "live" /\ go[e].left = 0 /\ go[e].result = "none"
        /\ docker[e].state = "none" /\ docker[e].code = "none"
        /\ tracked[e] = "no" /\ exec[e] = "absent" /\ age[e] = 0
        /\ \A k \in Cleaners : cleaner[k].todo = {} /\ cleaner[k].removed = {}
    BY DEF Init
  <2>2. Timeout[TaskOf[e]] \in 1..MaxAge BY TimeoutAssumption
  <2>3. InTime(e) BY <2>1, <2>2, TimeoutAssumption DEF InTime, Timed, Cleaners
  <2> QED BY <2>1, <2>3
       DEF Local, NothingYet, RemovedIsGone, CodeWhenOver, ResultIsTrue, Exists
<1> QED BY <1>4, <1>5, InvIsLocal

\* Nothing moves.
LEMMA KeepStutter ==
  ASSUME Inv, UNCHANGED vars
  PROVE  Inv'
<1>1. /\ Board!TypeOK' /\ exec' = exec
      /\ UNCHANGED <<go, docker, tracked, age, cleaner, cancel, lost>>
  BY SameRows DEF Inv, vars
<1>2. TypeOK' BY <1>1 DEF Inv, TypeOK
<1>3. \A e \in Executions : Untouched(e) BY <1>1 DEF Untouched
<1>4. \A e \in Executions : Local(e)' BY <1>3, UntouchedKeepsLocal, InvIsLocal
<1>5. Inv' <=> TypeOK' /\ \A e \in Executions : Local(e)'
  BY DEF Inv, Local, NoUnnoticedContainer, RowsTellTheTruth
<1> QED BY <1>2, <1>4, <1>5

LEMMA KeepRun ==
  ASSUME Inv, NEW e \in Executions, Run(e)
  PROVE  Inv'
  BY KeepFetchTask, KeepRollback, KeepMarkRunning, KeepReject, KeepCreateContainer,
     KeepRegisterContainer, KeepStartContainer, KeepMarkContainerStarted, KeepWaitContainer,
     KeepWaitReturns, KeepWaitFails, KeepMarkContainerCompleted, KeepDeferredRemove,
     KeepReport, KeepFinalize DEF Run

LEMMA InvStep == Inv /\ [Next]_vars => Inv'
<1> SUFFICES ASSUME Inv, [Next]_vars PROVE Inv' OBVIOUS
<1>1. ASSUME NEW e \in Executions,
             \/ ExecuteTask(e) \/ Run(e) \/ CallerReturns(e)
             \/ CancelExecution(e) \/ CancelGuard(e) \/ CancelRows(e)
      PROVE  Inv'
  BY <1>1, KeepExecuteTask, KeepRun, KeepCallerReturns, KeepCancelExecution,
     KeepCancelGuard, KeepCancelRows
<1>2. ASSUME NEW e \in Executions,
             (\E code \in {"zero", "nonzero"} : Exit(e, code)) \/ AutoRemove(e)
      PROVE  Inv'
  BY <1>2, KeepExit, KeepAutoRemove
<1>3. ASSUME NEW k \in Cleaners, Clean(k) PROVE Inv'
  BY <1>3, KeepRemoveSucceeds, KeepRemoveFails, KeepUnregisterContainer DEF Clean
<1>4. CASE CleanupStaleContainers \/ CleanupAll \/ Tick \/ Restart
  BY <1>4, KeepCleanupStaleContainers, KeepCleanupAll, KeepTick, KeepRestart
<1>5. CASE UNCHANGED vars BY <1>5, KeepStutter
<1> QED BY <1>1, <1>2, <1>3, <1>4, <1>5 DEF Next

\* The invariant: types, and for every execution what its goroutine, its container,
\* its map entry, its row and the passes over the map say of each other.
THEOREM Invariance == Spec => []Inv
  BY InitInv, InvStep, PTL DEF Spec

\* Every container that the daemon has is in the cleanup manager's map, about to be
\* entered, or lost by a failed creation or a restart.
THEOREM NothingUnnoticed == Spec => []NoUnnoticedContainer
<1>1. Inv => NoUnnoticedContainer BY DEF Inv
<1> QED BY <1>1, Invariance, PTL

\* Completed rows belong to scripts that ended with code zero, timed out ones to
\* scripts that used up their time, whoever removed the container meanwhile.
THEOREM TrueRows == Spec => []RowsTellTheTruth
<1>1. Inv => RowsTellTheTruth BY DEF Inv
<1> QED BY <1>1, Invariance, PTL

\* The periodic cleanup does not remove the container of a script that has time
\* left, for every timeout up to the age at which containers are stale.
THEOREM SweepSpares == Spec => SweepSparesTimely
<1>1. ASSUME Inv, NEW e \in Executions, RemoveSucceeds("periodic", e), go[e].pc \in Timed
      PROVE  go[e].left = 0
  <2>1. e \in cleaner["periodic"].todo /\ "periodic" \in Cleaners
    BY <1>1 DEF RemoveSucceeds, Cleaners
  <2>2. Local(e) /\ TypeOK BY <1>1, InvIsLocal
  <2>3. go[e].pc \in Timed \ {"create", "register"}
    BY <1>1, <2>1, <2>2 DEF Local, NothingYet, Timed
  <2>4. /\ go[e].left \in Nat /\ age[e] \in Nat /\ MaxAge \in Nat
        /\ Timeout[TaskOf[e]] \in 1..MaxAge
    BY <2>2, TimeoutAssumption DEF TypeOK, Goroutines
  <2> QED BY <2>1, <2>2, <2>3, <2>4 DEF Local, InTime
<1>2. Inv => \A e \in Executions :
               RemoveSucceeds("periodic", e) /\ go[e].pc \in Timed => go[e].left = 0
  BY <1>1
<1> QED BY <1>2, Invariance, PTL DEF SweepSparesTimely

-----------------------------------------------------------------------------
(* The rows move as TaskBoard says. *)

BoardProofs == INSTANCE TaskBoard_proofs WITH Reported <- Statuses, DirectUpdate <- FALSE

\* The five actions that write rows do it by a step of TaskBoard, or write none.
LEMMA RowsMoveOnBoard ==
  ASSUME Inv, NEW e \in Executions,
         ExecuteTask(e) \/ Rollback(e) \/ MarkRunning(e) \/ Finalize(e) \/ CancelRows(e)
  PROVE  Board!Next \/ UNCHANGED rows
<1>1. CASE ExecuteTask(e)
  BY <1>1 DEF ExecuteTask, Board!SerialStart, Board!Next
<1>2. CASE Rollback(e)
  BY <1>2 DEF Rollback, Board!Next
<1>3. CASE MarkRunning(e)
  <2>1. "running" \in Board!Statuses BY DEF Board!Statuses
  <2> QED BY <1>3, <2>1 DEF MarkRunning, Board!Next
<1>4. CASE Finalize(e)
  <2>1. ASSUME Board!Finish(e, go[e].result) PROVE Board!Next
    <3>1. go[e].result \in Board!Statuses
      BY <2>1 DEF Board!Finish, Board!IsTerminal, Board!Statuses
    <3> QED BY <2>1, <3>1 DEF Board!Next
  <2> QED BY <1>4, <2>1 DEF Finalize
<1>5. CASE CancelRows(e)
  BY <1>5 DEF CancelRows, Board!Next
<1> QED BY <1>1, <1>2, <1>3, <1>4, <1>5

\* Every step on the rows is one of TaskBoard's; all others leave them alone.
LEMMA StepOnBoard == Inv /\ [Next]_vars => [Board!Next]_Board!vars
<1> SUFFICES ASSUME Inv, [Next]_vars PROVE Board!Next \/ UNCHANGED rows
  BY DEF Board!vars, rows
<1>1. ASSUME NEW e \in Executions, Run(e) PROVE Board!Next \/ UNCHANGED rows
  <2>1. CASE FetchTask(e) \/ Reject(e) \/ CreateContainer(e) \/ RegisterContainer(e)
             \/ StartContainer(e) \/ MarkContainerStarted(e) \/ WaitContainer(e)
    BY <2>1 DEF FetchTask, Reject, CreateContainer, RegisterContainer, StartContainer,
         MarkContainerStarted, WaitContainer
  <2>2. CASE WaitReturns(e) \/ WaitFails(e) \/ MarkContainerCompleted(e) \/ DeferredRemove(e)
             \/ Report(e)
    BY <2>2 DEF WaitReturns, WaitFails, MarkContainerCompleted, DeferredRemove, Report
  <2>3. CASE Rollback(e) \/ MarkRunning(e) \/ Finalize(e)
    BY <2>3, RowsMoveOnBoard
  <2> QED BY <1>1, <2>1, <2>2, <2>3 DEF Run
<1>2. ASSUME NEW e \in Executions, ExecuteTask(e) \/ CancelRows(e)
      PROVE  Board!Next \/ UNCHANGED rows
  BY <1>2, RowsMoveOnBoard
<1>3. ASSUME NEW e \in Executions,
             \/ CallerReturns(e) \/ CancelExecution(e) \/ CancelGuard(e) \/ AutoRemove(e)
             \/ \E code \in {"zero", "nonzero"} : Exit(e, code)
      PROVE  UNCHANGED rows
  BY <1>3 DEF CallerReturns, CancelExecution, CancelGuard, AutoRemove, Exit
<1>4. ASSUME NEW k \in Cleaners, Clean(k) PROVE UNCHANGED rows
  BY <1>4 DEF Clean, RemoveSucceeds, RemoveFails, UnregisterContainer
<1>5. CASE CleanupStaleContainers \/ CleanupAll \/ Tick \/ Restart
  BY <1>5 DEF CleanupStaleContainers, CleanupAll, Tick, Restart
<1>6. CASE UNCHANGED vars BY <1>6 DEF vars
<1> QED BY <1>1, <1>2, <1>3, <1>4, <1>5, <1>6 DEF Next

\* No failure, cancellation or restart leaves a task in running without an execution
\* that a cancel or a report can still end.
THEOREM RunningHasActive == Spec => []RunningHasActiveExecution
<1>1. Init => RunningHasActiveExecution
  BY DEF Init, RunningHasActiveExecution, Board!RunningHasActiveExecution
<1>2. Inv /\ [Next]_vars => BoardProofs!TypeOK /\ [BoardProofs!Next]_(BoardProofs!vars)
  <2>1. Inv => BoardProofs!TypeOK
    BY DEF Inv, TypeOK, Board!TypeOK, BoardProofs!TypeOK, Board!RowStates, Board!Statuses,
           BoardProofs!RowStates, BoardProofs!Statuses
  <2>2. Board!Next => BoardProofs!Next
    BY Zenon DEF Board!Next, Board!Statuses, Board!CreateTask, Board!EditTask,
           Board!DeleteTask, Board!Start, Board!WritePair, Board!Cancel, Board!Finish,
           Board!Patch, Board!SetBoth, Board!IsTerminal, Board!IsActive,
           BoardProofs!Next, BoardProofs!Statuses, BoardProofs!CreateTask,
           BoardProofs!EditTask, BoardProofs!DeleteTask, BoardProofs!Start,
           BoardProofs!WritePair, BoardProofs!Cancel, BoardProofs!Finish,
           BoardProofs!Patch, BoardProofs!SetBoth, BoardProofs!IsTerminal,
           BoardProofs!IsActive
  <2> QED BY <2>1, <2>2, StepOnBoard DEF Board!vars, BoardProofs!vars
<1>3. /\ BoardProofs!TypeOK /\ BoardProofs!RunningHasActiveExecution
      /\ [BoardProofs!Next]_(BoardProofs!vars)
      => BoardProofs!RunningHasActiveExecution'
  BY BoardProofs!RunningHasActiveStep DEF Statuses, BoardProofs!Statuses
<1>4. RunningHasActiveExecution <=> BoardProofs!RunningHasActiveExecution
  BY DEF RunningHasActiveExecution, Board!RunningHasActiveExecution,
         BoardProofs!RunningHasActiveExecution, Board!IsActive, BoardProofs!IsActive,
         Board!ExecutionsOf, BoardProofs!ExecutionsOf
<1> QED BY <1>1, <1>2, <1>3, <1>4, Invariance, PTL DEF Spec

=============================================================================
