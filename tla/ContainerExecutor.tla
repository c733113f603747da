------------------------- MODULE ContainerExecutor --------------------------
(***************************************************************************)
(* TaskExecutorService with the Docker executor and its cleanup manager:   *)
(* one background goroutine per execution takes a container through its    *)
(* life, while cancel requests, the periodic cleanup and the shutdown walk *)
(* over the cleanup manager's map of containers, unlocked between          *)
(* containers, and the daemon lets scripts end and removes what has ended. *)
(*                                                                         *)
(* Rows move by the atomic steps of TaskBoard, which is what the           *)
(* transactions of TaskExecutions implement; a guard on a row is evaluated *)
(* in an earlier step than the write it is for.  The service's own cleanup *)
(* manager is nil, as cmd/api wires it.  Every execution has at most one   *)
(* container, so containers are named after their executions.              *)
(***************************************************************************)
EXTENDS Models, Integers

CONSTANTS
  Tasks, Executions, TaskOf,
  Timeout,  \* each task's timeout, in ticks
  MaxAge,   \* the age, in ticks, beyond which a container is stale: one hour
  Faults    \* whether the database and the daemon fail requests

\* ValidateTimeout admits up to 3600 seconds, which is MaxAge.
ASSUME TimeoutAssumption == MaxAge \in Nat /\ Timeout \in [Tasks -> 1..MaxAge]
ASSUME TaskOfAssumption == TaskOf \in [Executions -> Tasks]
ASSUME FaultsAssumption == Faults \in BOOLEAN
ASSUME NamesAssumption == {"periodic", "stop"} \cap Executions = {}

VARIABLES
  task, exec,  \* the status columns
  go,       \* the goroutine of each execution
  docker,   \* each container, as the daemon sees it
  tracked,  \* CleanupManager.containers: status of each container, or "no"
  age,      \* time since a container was registered, up to MaxAge + 1
  cleaner,  \* each pass over the map: what it has still to remove or unregister
  cancel,   \* the request that cancels each execution
  lost      \* containers whose creation was not acknowledged or whose process died

rows == <<task, exec>>
vars == <<rows, go, docker, tracked, age, cleaner, cancel, lost>>

Board == INSTANCE TaskBoard WITH Reported <- Statuses, DirectUpdate <- FALSE

\* pc: the next statement.  caller: the context handed in by the request.  ctx: the
\* context of Execute, with its deadline left ticks away.  result: the outcome.
Goroutines == [pc : {"idle", "fetch", "rollback", "mark", "create", "register", "start",
                     "markStarted", "wait", "waiting", "markDone", "remove", "report",
                     "finalize", "done", "dead"},
               caller : {"live", "cancelled"},
               ctx : {"live", "deadline", "cancelled"},
               left : 0..MaxAge,
               result : {"none", "completed", "failed", "timeout", "cancelled"}]

\* A pass: a cancel's, named after its execution, the periodic one or shutdown's.
Cleaners == Executions \cup {"periodic", "stop"}

Init ==
  /\ task = [t \in Tasks |-> "pending"]
  /\ exec = [e \in Executions |-> "absent"]
  /\ go = [e \in Executions |-> [pc |-> "idle", caller |-> "live", ctx |-> "live",
                                 left |-> 0, result |-> "none"]]
  /\ docker = [e \in Executions |-> [state |-> "none", code |-> "none"]]
  /\ tracked = [e \in Executions |-> "no"]
  /\ age = [e \in Executions |-> 0]
  /\ cleaner = [k \in Cleaners |-> [todo |-> {}, removed |-> {}]]
  /\ cancel = [e \in Executions |-> "idle"]
  /\ lost = {}

Exists(e) == docker[e].state \in {"created", "running", "exited"}

Goto(e, pc) == go' = [go EXCEPT ![e].pc = pc]

\* The result is known, and the goroutine goes on.
Conclude(e, pc, result) == go' = [go EXCEPT ![e].pc = pc, ![e].result = result]

\* Whether a statement that runs under the caller's context, or under Execute's,
\* may fail.
DbMayFail(e) == Faults \/ go[e].caller = "cancelled"
CtxMayFail(e) == Faults \/ go[e].ctx # "live"

-----------------------------------------------------------------------------
(* The service around the executor. *)

\* ExecuteTask creates the execution row and marks the task running.
ExecuteTask(e) ==
  /\ go[e].pc = "idle"
  /\ Board!SerialStart(e)
  /\ Goto(e, "fetch")
  /\ UNCHANGED <<docker, tracked, age, cleaner, cancel, lost>>

\* Fetch the task; start the goroutine, or roll the execution back.
FetchTask(e) ==
  /\ go[e].pc = "fetch"
  /\ \/ go[e].caller = "live" /\ Goto(e, "mark")
     \/ DbMayFail(e) /\ Goto(e, "rollback")
  /\ UNCHANGED <<rows, docker, tracked, age, cleaner, cancel, lost>>

Rollback(e) ==
  /\ go[e].pc = "rollback"
  /\ \/ go[e].caller = "live" /\ exec[e] \in Board!Cancellable /\ Board!Cancel(e)
     \/ UNCHANGED rows /\ (DbMayFail(e) \/ exec[e] \notin Board!Cancellable)
  /\ Goto(e, "done")
  /\ UNCHANGED <<docker, tracked, age, cleaner, cancel, lost>>

\* The HTTP handler returns, or its client goes away: net/http cancels the
\* request's context, which is the context of the whole background execution.
CallerReturns(e) ==
  /\ go[e].pc \notin {"idle", "done", "dead"}
  /\ go[e].caller = "live"
  /\ go' = [go EXCEPT ![e].caller = "cancelled",
                      ![e].ctx = IF @ = "live" THEN "cancelled" ELSE @]
  /\ UNCHANGED <<rows, docker, tracked, age, cleaner, cancel, lost>>

\* UpdateStatus(running), whose failure is only logged.  Execute then derives its
\* context with the task's timeout.
MarkRunning(e) ==
  /\ go[e].pc = "mark"
  /\ \/ go[e].caller = "live" /\ Board!Patch(e, "running")
     \/ DbMayFail(e) /\ UNCHANGED rows
  /\ go' = [go EXCEPT ![e].pc = "create", ![e].left = Timeout[TaskOf[e]]]
  /\ UNCHANGED <<docker, tracked, age, cleaner, cancel, lost>>

\* CompleteExecutionAndFinalizeTaskStatus, under the caller's context: the guard.
Report(e) ==
  /\ go[e].pc = "report"
  /\ \/ go[e].caller = "live" /\ exec[e] \in Board!Completable /\ Goto(e, "finalize")
     \/ (DbMayFail(e) \/ exec[e] \notin Board!Completable) /\ Goto(e, "done")
  /\ UNCHANGED <<rows, docker, tracked, age, cleaner, cancel, lost>>

\* Mutant: the execution is finished without its task.
FinalizeExecution(e) ==
  /\ go[e].pc = "finalize"
  /\ \/ go[e].caller = "live" /\ exec' = [exec EXCEPT ![e] = go[e].result] /\ UNCHANGED task
     \/ DbMayFail(e) /\ UNCHANGED rows
  /\ Goto(e, "done")
  /\ UNCHANGED <<docker, tracked, age, cleaner, cancel, lost>>

\* Then the writes.
Finalize(e) ==
  /\ go[e].pc = "finalize"
  /\ \/ go[e].caller = "live" /\ Board!Finish(e, go[e].result)
     \/ DbMayFail(e) /\ UNCHANGED rows
  /\ Goto(e, "done")
  /\ UNCHANGED <<docker, tracked, age, cleaner, cancel, lost>>

-----------------------------------------------------------------------------
(* Executor.Execute and executeContainer. *)

\* Execute returns early: the script or the container configuration is refused.
Reject(e) ==
  /\ go[e].pc = "create"
  /\ Conclude(e, "report", "failed")
  /\ UNCHANGED <<rows, docker, tracked, age, cleaner, cancel, lost>>

\* The daemon creates the container.  If the call fails, the container may exist
\* all the same, and nobody has its ID.
CreateContainer(e) ==
  LET created == [docker EXCEPT ![e].state = "created"] IN
  /\ go[e].pc = "create"
  /\ \/ /\ go[e].ctx = "live"
        /\ docker' = created /\ Goto(e, "register") /\ UNCHANGED lost
     \/ /\ CtxMayFail(e)
        /\ Conclude(e, "report", "failed")
        /\ \/ UNCHANGED <<docker, lost>>
           \/ docker' = created /\ lost' = lost \cup {e}
  /\ UNCHANGED <<rows, tracked, age, cleaner, cancel>>

RegisterContainer(e) ==
  /\ go[e].pc = "register"
  /\ tracked' = [tracked EXCEPT ![e] = "created"]
  /\ age' = [age EXCEPT ![e] = 0]
  /\ Goto(e, "start")
  /\ UNCHANGED <<rows, docker, cleaner, cancel, lost>>

\* Mutant: the result of a failed start keeps the status it was made with.
StartFailsUnmarked(e) ==
  LET started == [docker EXCEPT ![e].state = "running"] IN
  /\ go[e].pc = "start"
  /\ \/ /\ go[e].ctx = "live" /\ Exists(e)
        /\ docker' = started /\ Goto(e, "markStarted")
     \/ /\ CtxMayFail(e) \/ ~Exists(e)
        /\ Conclude(e, "remove", "running")
        /\ UNCHANGED docker
  /\ UNCHANGED <<rows, tracked, age, cleaner, cancel, lost>>

\* A failed start goes straight to the deferred removal; the container may have
\* been started all the same.
StartContainer(e) ==
  LET started == [docker EXCEPT ![e].state = "running"] IN
  /\ go[e].pc = "start"
  /\ \/ /\ go[e].ctx = "live" /\ Exists(e)
        /\ docker' = started /\ Goto(e, "markStarted")
     \/ /\ CtxMayFail(e) \/ ~Exists(e)
        /\ Conclude(e, "remove", "failed")
        /\ \/ UNCHANGED docker
           \/ Exists(e) /\ docker' = started
  /\ UNCHANGED <<rows, tracked, age, cleaner, cancel, lost>>

\* Only a container that is still in the map is marked.
Mark(e, status) ==
  tracked' = [tracked EXCEPT ![e] = IF @ = "no" THEN @ ELSE status]

MarkContainerStarted(e) ==
  /\ go[e].pc = "markStarted"
  /\ Mark(e, "running")
  /\ Goto(e, "wait")
  /\ UNCHANGED <<rows, docker, age, cleaner, cancel, lost>>

\* The wait request reaches the daemon while it still knows the container.
WaitContainer(e) ==
  /\ go[e].pc = "wait"
  /\ Exists(e)
  /\ Goto(e, "waiting")
  /\ UNCHANGED <<rows, docker, tracked, age, cleaner, cancel, lost>>

\* The exit code of a container that ended, was killed or is gone by now.
WaitReturns(e) ==
  /\ go[e].pc = "waiting"
  /\ docker[e].state \in {"exited", "gone"}
  /\ Conclude(e, "markDone", IF docker[e].code = "zero" THEN "completed" ELSE "failed")
  /\ UNCHANGED <<rows, docker, tracked, age, cleaner, cancel, lost>>

\* Mutant: the error is dropped and the exit code is its zero value.
WaitErrorIgnored(e) ==
  /\ \/ go[e].pc \in {"wait", "waiting"} /\ CtxMayFail(e)
     \/ go[e].pc = "wait" /\ ~Exists(e)
  /\ Conclude(e, "markDone", "completed")
  /\ UNCHANGED <<rows, docker, tracked, age, cleaner, cancel, lost>>

\* An error is blamed on Execute's context if that has ended.
WaitFails(e) ==
  /\ \/ go[e].pc \in {"wait", "waiting"} /\ CtxMayFail(e)
     \/ go[e].pc = "wait" /\ ~Exists(e)
  /\ Conclude(e, "markDone", CASE go[e].ctx = "deadline"  -> "timeout"
                               [] go[e].ctx = "cancelled" -> "cancelled"
                               [] OTHER                   -> "failed")
  /\ UNCHANGED <<rows, docker, tracked, age, cleaner, cancel, lost>>

MarkContainerCompleted(e) ==
  /\ go[e].pc = "markDone"
  /\ Mark(e, go[e].result)
  /\ Goto(e, "remove")
  /\ UNCHANGED <<rows, docker, age, cleaner, cancel, lost>>

\* Forced removal kills a running container.  A container that is already gone
\* counts as removed.
Removed(e) ==
  docker' = [docker EXCEPT ![e] = [state |-> "gone",
                                   code |-> IF @.code = "none" THEN "nonzero" ELSE @.code]]

\* The deferred removal, under a context of its own.  The map keeps its entry.
DeferredRemove(e) ==
  /\ go[e].pc = "remove"
  /\ Removed(e) \/ (Faults /\ UNCHANGED docker)
  /\ Goto(e, "report")
  /\ UNCHANGED <<rows, tracked, age, cleaner, cancel, lost>>

-----------------------------------------------------------------------------
(* CleanupManager. *)

Resting(k) == cleaner[k].todo = {} /\ cleaner[k].removed = {}

Snapshot(k, containers) ==
  cleaner' = [cleaner EXCEPT ![k].todo = containers]

\* Mutant: the age is not looked at.
IsTracked(e) == tracked[e] # "no"

\* Mutant: only containers that were seen running can be stale.
IsStaleRunning(e) == tracked[e] = "running" /\ age[e] > MaxAge

IsStale(e) == tracked[e] # "no" /\ age[e] > MaxAge

\* The ticker of startPeriodicCleanup.
CleanupStaleContainers ==
  /\ Resting("periodic")
  /\ Snapshot("periodic", {e \in Executions : IsStale(e)})
  /\ UNCHANGED <<rows, go, docker, tracked, age, cancel, lost>>

\* Executor.Cleanup at shutdown.
CleanupAll ==
  /\ Resting("stop")
  /\ Snapshot("stop", {e \in Executions : tracked[e] # "no"})
  /\ UNCHANGED <<rows, go, docker, tracked, age, cancel, lost>>

\* CleanupContainer, first half: one forced removal after another.
RemoveSucceeds(k, e) ==
  /\ cleaner[k].removed = {} /\ e \in cleaner[k].todo
  /\ Removed(e)
  /\ cleaner' = [cleaner EXCEPT ![k] = [todo |-> @.todo \ {e}, removed |-> {e}]]
  /\ UNCHANGED <<rows, go, tracked, age, cancel, lost>>

\* Mutant: the error of a removal is logged and the entry dropped all the same.
RemoveFailsUnregisters(k, e) ==
  /\ Faults
  /\ cleaner[k].removed = {} /\ e \in cleaner[k].todo
  /\ cleaner' = [cleaner EXCEPT ![k] = [todo |-> @.todo \ {e}, removed |-> {e}]]
  /\ UNCHANGED <<rows, go, docker, tracked, age, cancel, lost>>

RemoveFails(k, e) ==
  /\ Faults
  /\ cleaner[k].removed = {} /\ e \in cleaner[k].todo
  /\ cleaner' = [cleaner EXCEPT ![k].todo = @ \ {e}]
  /\ UNCHANGED <<rows, go, docker, tracked, age, cancel, lost>>

\* Mutant: the entry of a removed container is left in the map.
RemoveWithoutUnregister(k, e) ==
  /\ e \in cleaner[k].removed
  /\ cleaner' = [cleaner EXCEPT ![k].removed = {}]
  /\ UNCHANGED <<rows, go, docker, tracked, age, cancel, lost>>

\* CleanupContainer, second half.
UnregisterContainer(k, e) ==
  /\ e \in cleaner[k].removed
  /\ tracked' = [tracked EXCEPT ![e] = "no"]
  /\ cleaner' = [cleaner EXCEPT ![k].removed = {}]
  /\ UNCHANGED <<rows, go, docker, age, cancel, lost>>

-----------------------------------------------------------------------------
(* CancelTaskExecution: the containers first, the rows afterwards. *)

CancelExecution(e) ==
  /\ cancel[e] = "idle" /\ Resting(e)
  /\ exec[e] \in Statuses
  /\ Snapshot(e, IF tracked[e] = "no" THEN {} ELSE {e})
  /\ cancel' = [cancel EXCEPT ![e] = "kill"]
  /\ UNCHANGED <<rows, go, docker, tracked, age, lost>>

CancelGuard(e) ==
  /\ cancel[e] = "kill" /\ Resting(e)
  /\ \/ exec[e] \in Board!Cancellable /\ cancel' = [cancel EXCEPT ![e] = "write"]
     \/ /\ Faults \/ exec[e] \notin Board!Cancellable
        /\ cancel' = [cancel EXCEPT ![e] = "idle"]
  /\ UNCHANGED <<rows, go, docker, tracked, age, cleaner, lost>>

CancelRows(e) ==
  /\ cancel[e] = "write"
  /\ Board!Cancel(e) \/ (Faults /\ UNCHANGED rows)
  /\ cancel' = [cancel EXCEPT ![e] = "idle"]
  /\ UNCHANGED <<go, docker, tracked, age, cleaner, lost>>

-----------------------------------------------------------------------------
(* The daemon, time, and the end of the process. *)

Exit(e, code) ==
  /\ docker[e].state = "running"
  /\ docker' = [docker EXCEPT ![e] = [state |-> "exited", code |-> code]]
  /\ UNCHANGED <<rows, go, tracked, age, cleaner, cancel, lost>>

\* Containers are created with AutoRemove.
AutoRemove(e) ==
  /\ docker[e].state = "exited"
  /\ docker' = [docker EXCEPT ![e].state = "gone"]
  /\ UNCHANGED <<rows, go, tracked, age, cleaner, cancel, lost>>

\* Statements of Execute, between context.WithTimeout and the deferred cancel.
Timed == {"create", "register", "start", "markStarted", "wait", "waiting", "markDone", "remove"}

Tick ==
  /\ go' = [e \in Executions |->
              IF go[e].pc \notin Timed \/ go[e].left = 0 THEN go[e]
              ELSE [go[e] EXCEPT !.left = @ - 1,
                                 !.ctx = IF go[e].left = 1 /\ @ = "live" THEN "deadline" ELSE @]]
  /\ age' = [e \in Executions |-> IF age[e] > MaxAge THEN age[e] ELSE age[e] + 1]
  /\ UNCHANGED <<rows, docker, tracked, cleaner, cancel, lost>>

\* The process ends, by a crash or after CleanupAll, and is started again: the
\* map, the goroutines and the requests are gone, the containers and rows are not.
Restart ==
  /\ go' = [e \in Executions |->
              IF go[e].pc = "idle" THEN go[e] ELSE [go[e] EXCEPT !.pc = "dead"]]
  /\ tracked' = [e \in Executions |-> "no"]
  /\ cleaner' = [k \in Cleaners |-> [todo |-> {}, removed |-> {}]]
  /\ cancel' = [e \in Executions |-> "idle"]
  /\ lost' = lost \cup {e \in Executions : Exists(e)}
  /\ UNCHANGED <<rows, docker, age>>

-----------------------------------------------------------------------------

\* The goroutine of an execution, and the request that starts it.
Run(e) ==
  \/ FetchTask(e) \/ Rollback(e) \/ MarkRunning(e) \/ Reject(e)
  \/ CreateContainer(e) \/ RegisterContainer(e) \/ StartContainer(e)
  \/ MarkContainerStarted(e) \/ WaitContainer(e) \/ WaitReturns(e) \/ WaitFails(e)
  \/ MarkContainerCompleted(e) \/ DeferredRemove(e) \/ Report(e) \/ Finalize(e)

Clean(k) ==
  \E e \in Executions :
    RemoveSucceeds(k, e) \/ RemoveFails(k, e) \/ UnregisterContainer(k, e)

Next ==
  \/ \E e \in Executions :
       \/ ExecuteTask(e) \/ Run(e) \/ CallerReturns(e)
       \/ CancelExecution(e) \/ CancelGuard(e) \/ CancelRows(e)
       \/ (\E code \in {"zero", "nonzero"} : Exit(e, code)) \/ AutoRemove(e)
  \/ CleanupStaleContainers \/ CleanupAll \/ (\E k \in Cleaners : Clean(k))
  \/ Tick \/ Restart

Spec == Init /\ [][Next]_vars

\* Goroutines run, time passes, the daemon removes what has ended, the ticker
\* fires forever, and the daemon does not refuse every removal.
Fairness ==
  /\ WF_vars(Tick) /\ WF_vars(CleanupStaleContainers)
  /\ \A e \in Executions :
       WF_vars(Run(e)) /\ WF_vars(AutoRemove(e)) /\ SF_vars(RemoveSucceeds("periodic", e))
  /\ \A k \in Cleaners : WF_vars(Clean(k))

FairSpec == Spec /\ Fairness

-----------------------------------------------------------------------------
(* Properties. *)

TypeOK ==
  /\ Board!TypeOK
  /\ go \in [Executions -> Goroutines]
  /\ docker \in [Executions -> [state : {"none", "created", "running", "exited", "gone"},
                                code : {"none", "zero", "nonzero"}]]
  /\ tracked \in [Executions -> {"no", "created", "running", "completed", "failed",
                                 "timeout", "cancelled"}]
  /\ age \in [Executions -> 0..(MaxAge + 1)]
  /\ cleaner \in [Cleaners -> [todo : SUBSET Executions, removed : SUBSET Executions]]
  /\ cancel \in [Executions -> {"idle", "kill", "write"}]
  /\ lost \subseteq Executions

\* No container runs unnoticed: one that the daemon has is in the cleanup manager's
\* map, or is about to be entered, or was lost by a failed creation or a restart;
\* no pass, cancel or completion drops an entry before its container is gone.
NoUnnoticedContainer ==
  \A e \in Executions :
    Exists(e) => tracked[e] # "no" \/ go[e].pc = "register" \/ e \in lost

\* A row tells what happened to the script: completed rows belong to scripts that
\* ended with code zero, timed out ones to scripts that used up their time, although
\* passes and cancels may remove the container at any moment.
RowsTellTheTruth ==
  \A e \in Executions :
    /\ exec[e] = "completed" => docker[e].code = "zero"
    /\ exec[e] = "timeout" => go[e].left = 0

\* Whatever fails, is cancelled or is cut off by a restart: a task shown as running has
\* an execution that is not over, which a cancel or a report can still end.
RunningHasActiveExecution == Board!RunningHasActiveExecution

\* What holds before a container exists, before it is in the map and before it runs.
NothingYet(e) ==
  /\ go[e].pc \in {"idle", "fetch", "rollback", "mark", "create"} => docker[e].state = "none"
  /\ go[e].pc \in {"register", "start"} => docker[e].state \notin {"running", "exited"}
  /\ go[e].pc \in {"idle", "fetch", "rollback", "mark", "create", "register"} =>
       /\ tracked[e] = "no"
       /\ \A k \in Cleaners : e \notin cleaner[k].todo \cup cleaner[k].removed

RemovedIsGone(e) == \A k \in Cleaners : e \in cleaner[k].removed => ~Exists(e)

CodeWhenOver(e) == docker[e].state \in {"none", "created", "running"} => docker[e].code = "none"

\* The outcome the goroutine carries is the script's.
ResultIsTrue(e) ==
  /\ go[e].result = "completed" => docker[e].code = "zero"
  /\ go[e].result = "timeout" => go[e].left = 0
  /\ go[e].ctx = "deadline" => go[e].left = 0
  /\ go[e].pc \in {"markDone", "remove", "report", "finalize"} => go[e].result # "none"
  /\ go[e].pc \in {"idle", "fetch", "rollback", "mark"} =>
       go[e].result = "none" /\ go[e].ctx # "deadline"
  /\ exec[e] \in {"completed", "failed", "timeout"} => go[e].pc \in {"done", "dead"}

\* Age and remaining time of a registered container run against each other.
InTime(e) ==
  /\ go[e].left <= Timeout[TaskOf[e]]
  /\ go[e].pc \in Timed \ {"create", "register"} /\ go[e].left > 0 =>
       age[e] + go[e].left <= Timeout[TaskOf[e]]
  /\ e \in cleaner["periodic"].todo => age[e] > MaxAge

\* The inductive invariant.
Inv ==
  /\ TypeOK
  /\ \A e \in Executions :
       NothingYet(e) /\ RemovedIsGone(e) /\ CodeWhenOver(e) /\ ResultIsTrue(e) /\ InTime(e)
  /\ NoUnnoticedContainer
  /\ RowsTellTheTruth

\* The periodic cleanup never takes the container of a script that still has time,
\* even one with the longest timeout a task may have.
SweepSparesTimely ==
  [][\A e \in Executions :
       RemoveSucceeds("periodic", e) /\ go[e].pc \in Timed => go[e].left = 0]_vars

\* A container that anybody knows of is eventually gone, whatever fails once.
ContainersAreRemoved ==
  \A e \in Executions : Exists(e) ~> ~Exists(e) \/ e \in lost

\* The map does not fill up: executeContainer never unregisters its container, but
\* a later pass drops the entry.
EntriesAreDropped ==
  \A e \in Executions : tracked[e] # "no" ~> tracked[e] = "no"

\* "Start background execution ... Update execution with results" (comments of
\* ExecuteTask and executeTaskAsync): an execution that was started
\* ends, unless the process does.
ExecutionEnds ==
  \A e \in Executions : go[e].pc = "mark" ~> ~IsActive(exec[e]) \/ go[e].pc = "dead"

=============================================================================
