----------------------- MODULE TaskExecutions_proofs ------------------------
(***************************************************************************)
(* TaskExecutions for any number of sessions, tasks and executions: its    *)
(* inductive invariant, and that it implements TaskBoard.                  *)
(***************************************************************************)
EXTENDS TaskExecutions, TLAPS

\* An idle session, with any answer to its last request.
LEMMA IdleType ==
  \A reply \in Replies \cup {"none"} :
    LET r == [Idle EXCEPT !.reply = reply] IN
    r \in Requests /\ r.op = "none" /\ r.pc = "idle"
  BY DEF Idle, Requests, Pcs, RowStates, Replies, TaskOps, ExecutionOps, Keep, Statuses

\* TaskBoard speaks of the same statuses.
LEMMA BoardStatuses ==
  /\ Board!Statuses = Statuses
  /\ Board!RowStates = RowStates
  BY DEF Board!Statuses, Board!RowStates, Statuses, RowStates

USE RowsAssumption, OwnerAssumption, TaskOfAssumption, CallerAssumption

\* The rows that a request is about, read off its shape.
LEMMA RowsOfRequest ==
  ASSUME NEW r \in Requests, RequestShape(r)
  PROVE  /\ r.op \in ServiceOps \cup {"execPut"} => r.exec \in Executions
         /\ r.op \in {"taskUpdate", "taskDelete"} => r.task \in Tasks
         /\ r.pc \in {"insertExec", "writeExec", "writeTask", "commit"} =>
              r.op \in ServiceOps /\ r.task = TaskOf[r.exec] /\ r.task \in Tasks
         /\ r.pc = "cascade" => r.op = "taskDelete"
         /\ r.pc \in {"insertExec"} => r.op = "execCreate"
  BY DEF RequestShape, ServiceOps, Requests, Pcs, TaskOps, ExecutionOps

\* A step that answers a request and makes no live row disappear.
LEMMA AnswerKeepsInv ==
  ASSUME Inv,
         NEW s \in Sessions, NEW reply \in Replies,
         Answer(s, reply),
         task' \in [Tasks -> RowStates], exec' \in [Executions -> RowStates],
         \A t \in Tasks : task'[t] # task[t] => task'[t] \in Statuses,
         \A e \in Executions : exec'[e] # exec[e] =>
           /\ exec'[e] \in Statuses
           /\ \/ exec[e] \in Statuses
              \/ /\ sess[s].op = "execCreate" /\ sess[s].exec = e
                 /\ task[TaskOf[e]] \in Statuses
  PROVE  Inv'
  <1> DEFINE r == [Idle EXCEPT !.reply = reply]
  <1>1. r \in Requests /\ r.op = "none" /\ r.pc = "idle"
    BY IdleType
  <1>2. /\ sess \in [Sessions -> Requests]
        /\ held \in [Sessions -> SUBSET (Modes \X (Tasks \cup Executions))]
    BY DEF Inv, TypeOK
  <1>3. /\ sess' = [sess EXCEPT ![s] = r]
        /\ held' = [held EXCEPT ![s] = {}]
    BY DEF Answer
  <1> HIDE DEF r
  <1>b. /\ \A t \in Tasks : task[t] \in Statuses => task'[t] \in Statuses
        /\ \A e \in Executions : exec[e] \in Statuses => exec'[e] \in Statuses
        /\ \A e \in Executions : exec[e] = "absent" /\ exec'[e] # "absent" =>
             sess[s].op = "execCreate" /\ sess[s].exec = e
    BY DEF Statuses
  <1>4. TypeOK'
    BY <1>1, <1>2, <1>3, BoardStatuses DEF TypeOK, Board!TypeOK
  <1>5. /\ sess'[s] = r
        /\ held'[s] = {}
        /\ \A z \in Sessions \ {s} : sess'[z] = sess[z] /\ held'[z] = held[z]
    BY <1>2, <1>3
  <1>a. ASSUME NEW z \in Sessions
        PROVE  /\ sess[z].op = "execCreate" => sess[z].exec \in Executions
               /\ sess[z].pc = "cascade" => sess[z].task \in Tasks
               /\ sess[z].pc \in {"writeTask", "commit"} =>
                    sess[z].exec \in Executions /\ sess[z].task \in Tasks
    BY <1>2, RowsOfRequest DEF Inv, RequestsWellFormed, ServiceOps
  <1>6. RequestsWellFormed'
    BY <1>1, <1>5 DEF Inv, RequestsWellFormed, RequestShape, ServiceOps
  <1>7. FreshExecutions'
    BY <1>1, <1>5, <1>a, <1>b DEF Inv, FreshExecutions
  <1>8. LocksByStatement'
    <2> SUFFICES ASSUME NEW z \in Sessions
                 PROVE  (HoldsOnlyInside(z) /\ WriterHolds(z) /\ DeleterHolds(z))'
      BY DEF LocksByStatement
    <2>1. HoldsOnlyInside(z) /\ WriterHolds(z) /\ DeleterHolds(z)
      BY DEF Inv, LocksByStatement
    <2>2. CASE z = s
      BY <2>2, <1>1, <1>5 DEF HoldsOnlyInside, WriterHolds, DeleterHolds
    <2>3. CASE z # s
      BY <2>1, <2>3, <1>5, <1>b DEF HoldsOnlyInside, WriterHolds, DeleterHolds
    <2> QED BY <2>2, <2>3
  <1>9. LocksCompatible'
    BY <1>5 DEF Inv, LocksCompatible
  <1>10. CascadeFindsItsTask'
    BY <1>1, <1>5, <1>a, <1>b DEF Inv, CascadeFindsItsTask
  <1>11. WritesFindTheirRows'
    BY <1>1, <1>5, <1>7, <1>a, <1>b DEF Inv, WritesFindTheirRows, FreshExecutions
  <1>12. NoOrphanExecution'
    BY BoardStatuses DEF Inv, NoOrphanExecution, Board!NoOrphanExecution
  <1> QED BY <1>4, <1>6, <1>7, <1>8, <1>9, <1>10, <1>11, <1>12 DEF Inv

\* A step that moves a request between two statements before which it holds no
\* lock.
LEMMA MoveKeepsInv ==
  ASSUME Inv,
         NEW s \in Sessions, NEW r \in Requests,
         sess' = [sess EXCEPT ![s] = r], UNCHANGED <<task, exec, held>>,
         held[s] = {},
         RequestShape(r),
         r.pc \notin {"cascade", "writeTask", "commit"},
         r.op = "execCreate" =>
           /\ exec[r.exec] = "absent"
           /\ \A z \in Sessions : sess[z].op = "execCreate" /\ sess[z].exec = r.exec => z = s
  PROVE  Inv'
  <1>1. sess \in [Sessions -> Requests]
    BY DEF Inv, TypeOK
  <1>2. TypeOK'
    BY <1>1 DEF Inv, TypeOK, Board!TypeOK
  <1>3. sess'[s] = r /\ \A z \in Sessions \ {s} : sess'[z] = sess[z]
    BY <1>1
  <1>4. RequestsWellFormed'
    BY <1>3 DEF Inv, RequestsWellFormed
  <1>5. FreshExecutions'
    BY <1>3 DEF Inv, FreshExecutions
  <1>6. LocksByStatement'
    <2>1. ASSUME NEW z \in Sessions \ {s}
          PROVE  (HoldsOnlyInside(z) /\ WriterHolds(z) /\ DeleterHolds(z))'
      <3>1. HoldsOnlyInside(z) /\ WriterHolds(z) /\ DeleterHolds(z)
        BY DEF Inv, LocksByStatement
      <3> QED BY <1>3, <3>1 DEF HoldsOnlyInside, WriterHolds, DeleterHolds
    <2>2. (HoldsOnlyInside(s) /\ WriterHolds(s) /\ DeleterHolds(s))'
      BY <1>3 DEF HoldsOnlyInside, WriterHolds, DeleterHolds
    <2> QED BY <2>1, <2>2 DEF LocksByStatement
  <1>7. LocksCompatible'
    BY DEF Inv, LocksCompatible
  <1>8. CascadeFindsItsTask'
    BY <1>3 DEF Inv, CascadeFindsItsTask
  <1>9. WritesFindTheirRows'
    BY <1>3 DEF Inv, WritesFindTheirRows
  <1>10. NoOrphanExecution'
    BY DEF Inv, NoOrphanExecution, Board!NoOrphanExecution
  <1> QED BY <1>2, <1>4, <1>5, <1>6, <1>7, <1>8, <1>9, <1>10 DEF Inv

\* What the invariant says of one session.
LEMMA SessionFacts ==
  ASSUME Inv, NEW s \in Sessions
  PROVE  /\ sess[s] \in Requests
         /\ RequestShape(sess[s])
         /\ task \in [Tasks -> RowStates]
         /\ exec \in [Executions -> RowStates]
         /\ sess[s].pc \notin {"cascade", "writeTask", "commit"} => held[s] = {}
  BY BoardStatuses DEF Inv, TypeOK, Board!TypeOK, RequestsWellFormed, LocksByStatement, HoldsOnlyInside

\* An answer without a write.
\* A write is acknowledged or fails, and either way its locks are released.
LEMMA WriteDoneAnswers ==
  ASSUME NEW s \in Sessions, WriteDone(s)
  PROVE  \E reply \in Replies : Answer(s, reply)
  BY DEF WriteDone, Replies

LEMMA AnswerOnlyKeepsInv ==
  ASSUME Inv, NEW s \in Sessions, NEW reply \in Replies,
         Answer(s, reply), UNCHANGED <<task, exec>>
  PROVE  Inv'
  BY SessionFacts, AnswerKeepsInv

-----------------------------------------------------------------------------
(* Requests. *)

LEMMA ReceiveKeepsInv ==
  ASSUME Inv, NEW s \in Sessions, NEW r \in Requests,
         Receive(s, r),
         RequestShape(r),
         r.pc \notin {"cascade", "writeTask", "commit"},
         r.op = "execCreate" =>
           /\ exec[r.exec] = "absent"
           /\ \A z \in Sessions : sess[z].op = "execCreate" => sess[z].exec # r.exec
  PROVE  Inv'
  BY SessionFacts, MoveKeepsInv DEF Receive, Serving

LEMMA RequestKeepsInv ==
  ASSUME Inv, NEW s \in Sessions, Request(s)
  PROVE  Inv'
  <1> USE RequestAssumption
  <1>1. ASSUME NEW t \in Tasks, CreateTask(s, t)
        PROVE  Inv'
    <2>1. /\ WriteDone(s)
          /\ task' = [task EXCEPT ![t] = "pending"] /\ exec' = exec
      BY <1>1 DEF CreateTask
    <2>2. PICK reply \in Replies : Answer(s, reply)
      BY <2>1, WriteDoneAnswers
    <2> QED BY <2>1, <2>2, SessionFacts, AnswerKeepsInv DEF RowStates, Statuses
  <1>2. ASSUME NEW op \in {"taskUpdate", "taskDelete"}, NEW t \in Tasks, RequestOnTask(s, op, t)
        PROVE  Inv'
    <2> DEFINE r == [Idle EXCEPT !.op = op, !.pc = "readTask", !.task = t]
    <2>1. r \in Requests /\ r.op \in {"taskUpdate", "taskDelete"} /\ RequestShape(r) /\ r.pc = "readTask"
      BY DEF Idle, Requests, RequestShape, Pcs, TaskOps, ServiceOps, RowStates, Statuses, Keep, Replies, IsActive, IsTerminal
    <2>2. Receive(s, r)
      BY <1>2 DEF RequestOnTask
    <2> QED BY <2>1, <2>2, ReceiveKeepsInv
  <1>3. ASSUME NEW e \in Executions, RequestCreate(s, e)
        PROVE  Inv'
    <2> DEFINE r == [Idle EXCEPT !.op = "execCreate", !.pc = "readTask", !.task = TaskOf[e],
                                 !.exec = e, !.want = "pending", !.goal = "running"]
    <2>1. r \in Requests /\ r.exec = e /\ RequestShape(r) /\ r.pc = "readTask"
      BY DEF Idle, Requests, RequestShape, Pcs, ExecutionOps, ServiceOps, RowStates, Statuses, Keep, Replies, IsActive, IsTerminal
    <2>2. /\ Receive(s, r)
          /\ exec[e] = "absent"
          /\ \A z \in Sessions : sess[z].op = "execCreate" => sess[z].exec # e
      BY <1>3 DEF RequestCreate
    <2> QED BY <2>1, <2>2, ReceiveKeepsInv
  <1>4. ASSUME NEW e \in Executions, RequestCancel(s, e)
        PROVE  Inv'
    <2> DEFINE r == [Idle EXCEPT !.op = "execCancel", !.pc = "readExec", !.exec = e,
                                 !.want = "cancelled", !.goal = "pending"]
    <2>1. r \in Requests /\ r.op = "execCancel" /\ RequestShape(r) /\ r.pc = "readExec"
      BY DEF Idle, Requests, RequestShape, Pcs, ExecutionOps, ServiceOps, RowStates, Statuses, Keep, Replies, IsActive, IsTerminal
    <2>2. Receive(s, r)
      BY <1>4 DEF RequestCancel
    <2> QED BY <2>1, <2>2, ReceiveKeepsInv
  <1>5. ASSUME NEW e \in Executions, NEW status \in Reported \cup {Keep}, RequestPut(s, e, status)
        PROVE  Inv'
    <2> DEFINE r == [Idle EXCEPT !.op = "execPut", !.pc = "fetch", !.exec = e, !.want = status]
    <2>1. r \in Requests /\ r.op = "execPut" /\ RequestShape(r) /\ r.pc = "fetch"
      BY DEF Idle, Requests, RequestShape, Pcs, ExecutionOps, ServiceOps, RowStates, Statuses, Keep, Replies, IsActive, IsTerminal
    <2>2. Receive(s, r)
      BY <1>5 DEF RequestPut
    <2> QED BY <2>1, <2>2, ReceiveKeepsInv
  <1>6. ASSUME NEW e \in Executions, NEW t \in Tasks, NEW es \in Reported, NEW ts \in Reported,
               RequestSet(s, e, t, es, ts)
        PROVE  Inv'
    <2> DEFINE r == [Idle EXCEPT !.op = "execSet", !.pc = "readExec", !.exec = e, !.task = t,
                                 !.want = es, !.goal = ts]
    <2>1. Receive(s, r) /\ "execSet" \in Ops
      BY <1>6 DEF RequestSet, Receive
    <2>2. r \in Requests /\ r.op = "execSet" /\ RequestShape(r) /\ r.pc = "readExec"
      BY <2>1 DEF Idle, Requests, RequestShape, Pcs, ExecutionOps, ServiceOps, RowStates, Statuses, Keep, Replies, IsActive, IsTerminal
    <2> QED BY <2>1, <2>2, ReceiveKeepsInv
  <1> QED BY <1>1, <1>2, <1>3, <1>4, <1>5, <1>6 DEF Request

-----------------------------------------------------------------------------
(* Reads. *)

LEMMA FetchExecutionKeepsInv ==
  ASSUME Inv, NEW s \in Sessions, FetchExecution(s)
  PROVE  Inv'
  <1> DEFINE old  == sess[s]
             copy == IF old.want = Keep THEN exec[old.exec] ELSE old.want
             r    == IF IsTerminal(copy)
                       THEN [old EXCEPT !.op = "execComplete", !.pc = "readExec",
                                        !.want = copy, !.goal = copy]
                       ELSE [old EXCEPT !.pc = "authorize", !.want = copy,
                                        !.task = TaskOf[old.exec]]
  <1>1. /\ old.pc = "fetch" /\ exec[old.exec] \in Statuses
        /\ sess' = [sess EXCEPT ![s] = r] /\ UNCHANGED <<task, exec, held>>
    BY DEF FetchExecution
  <1>2. old \in Requests /\ RequestShape(old) /\ held[s] = {}
    BY <1>1, SessionFacts
  <1>3. old.op = "execPut" /\ old.exec \in Executions /\ copy \in Statuses
    BY <1>1, <1>2 DEF RequestShape, Requests, Keep
  <1>4. CASE IsTerminal(copy)
    <2> DEFINE n == [old EXCEPT !.op = "execComplete", !.pc = "readExec",
                                !.want = copy, !.goal = copy]
    <2>1. r = n
      BY <1>4
    <2> HIDE DEF copy, r
    <2>2. n \in Requests
      BY <1>2, <1>3 DEF Requests, Pcs
    <2>3. n.op = "execComplete" /\ n.pc = "readExec" /\ n.want = copy /\ n.goal = copy
      BY <1>2 DEF Requests
    <2>4. n.exec = old.exec
      BY <1>2 DEF Requests
    <2> HIDE DEF n
    <2>5. RequestShape(n)
      BY <1>3, <1>4, <2>3, <2>4 DEF RequestShape, ServiceOps
    <2> QED BY <1>1, <1>2, <2>1, <2>2, <2>3, <2>5, MoveKeepsInv
  <1>5. CASE ~IsTerminal(copy)
    <2> DEFINE n == [old EXCEPT !.pc = "authorize", !.want = copy, !.task = TaskOf[old.exec]]
    <2>1. r = n /\ IsActive(copy)
      BY <1>3, <1>5 DEF IsTerminal, IsActive, Statuses
    <2> HIDE DEF copy, r
    <2>2. n \in Requests /\ n.op = "execPut" /\ n.pc = "authorize"
      BY <1>2, <1>3 DEF Requests, Pcs
    <2>3. RequestShape(n)
      BY <1>2, <1>3, <2>1, <2>2 DEF Requests, RequestShape, ServiceOps
    <2> QED BY <1>1, <1>2, <2>1, <2>2, <2>3, MoveKeepsInv
  <1> QED BY <1>4, <1>5

\* A move to the next statement of the same request.
LEMMA GotoKeepsInv ==
  ASSUME Inv, NEW s \in Sessions, NEW pc \in Pcs, NEW seen \in RowStates,
         sess' = [sess EXCEPT ![s].pc = pc, ![s].seen = seen],
         UNCHANGED <<task, exec, held>>,
         held[s] = {},
         RequestShape([sess[s] EXCEPT !.pc = pc, !.seen = seen]),
         pc \notin {"cascade", "writeTask", "commit"}
  PROVE  Inv'
  <1> DEFINE r == [sess[s] EXCEPT !.pc = pc, !.seen = seen]
  <1>1. sess[s] \in Requests
    BY SessionFacts
  <1>2. r \in Requests /\ r.op = sess[s].op /\ r.exec = sess[s].exec /\ r.pc = pc
    BY <1>1 DEF Requests
  <1>3. r.op = "execCreate" =>
          /\ r.exec \in Executions
          /\ exec[r.exec] = "absent"
          /\ \A z \in Sessions : sess[z].op = "execCreate" /\ sess[z].exec = r.exec => z = s
    BY <1>2 DEF Inv, FreshExecutions, RequestShape, ServiceOps
  <1>4. sess' = [sess EXCEPT ![s] = r] /\ RequestShape(r)
    OBVIOUS
  <1> QED BY <1>2, <1>3, <1>4, MoveKeepsInv

LEMMA AuthorizeKeepsInv ==
  ASSUME Inv, NEW s \in Sessions, Authorize(s)
  PROVE  Inv'
  <1>1. sess[s] \in Requests /\ RequestShape(sess[s]) /\ held[s] = {} /\ sess[s].pc = "authorize"
    BY SessionFacts DEF Authorize
  <1>2. CASE OwnsTask(s, sess[s].task)
    <2>1. /\ sess' = [sess EXCEPT ![s].pc = "patch", ![s].seen = sess[s].seen]
          /\ UNCHANGED <<task, exec, held>>
      BY <1>1, <1>2 DEF Authorize, Goto, Requests
    <2>2. /\ "patch" \in Pcs
          /\ RequestShape([sess[s] EXCEPT !.pc = "patch", !.seen = sess[s].seen])
          /\ sess[s].seen \in RowStates
      BY <1>1 DEF RequestShape, Requests, Pcs, ServiceOps
    <2> QED BY <1>1, <2>1, <2>2, GotoKeepsInv
  <1>3. CASE ~OwnsTask(s, sess[s].task)
    BY <1>3, AnswerOnlyKeepsInv DEF Authorize, Replies
  <1> QED BY <1>2, <1>3

LEMMA ReadExecutionKeepsInv ==
  ASSUME Inv, NEW s \in Sessions, ReadExecution(s)
  PROVE  Inv'
  <1> DEFINE old == sess[s]
             r   == [old EXCEPT !.pc = "readTask", !.seen = exec[old.exec],
                                !.task = IF old.op = "execSet" THEN @ ELSE TaskOf[old.exec]]
  <1>1. /\ old.pc = "readExec" /\ exec[old.exec] \in Statuses
        /\ sess' = [sess EXCEPT ![s] = r] /\ UNCHANGED <<task, exec, held>>
    BY DEF ReadExecution, After
  <1>2. old \in Requests /\ RequestShape(old) /\ held[s] = {}
    BY <1>1, SessionFacts
  <1>3. old.op \in ServiceOps \ {"execCreate"} /\ old.exec \in Executions
    BY <1>1, <1>2 DEF RequestShape, Requests, ServiceOps, TaskOps, ExecutionOps
  <1>4. r \in Requests /\ r.pc = "readTask" /\ r.op = old.op
    <2> DEFINE q  == [old EXCEPT !.pc = "readTask", !.seen = exec[old.exec]]
               of == IF old.op = "execSet" THEN old.task ELSE TaskOf[old.exec]
    <2>1. q \in Requests
      BY <1>1, <1>2 DEF Requests, Pcs, RowStates
    <2>2. q.op = old.op /\ q.pc = "readTask" /\ q.task = old.task
      BY <1>2 DEF Requests
    <2>3. of \in Tasks \cup {None}
      BY <1>2, <1>3, TaskOfAssumption DEF Requests
    <2>4. r = [q EXCEPT !.task = of]
      OBVIOUS
    <2> HIDE DEF q, of
    <2>5. [q EXCEPT !.task = of] \in Requests
      BY <2>1, <2>3 DEF Requests
    <2>6. [q EXCEPT !.task = of].op = q.op /\ [q EXCEPT !.task = of].pc = q.pc
      BY <2>1 DEF Requests
    <2> HIDE DEF r
    <2> QED BY <2>2, <2>4, <2>5, <2>6
  <1>5. /\ r.exec = old.exec /\ r.want = old.want /\ r.goal = old.goal
        /\ r.task = IF old.op = "execSet" THEN old.task ELSE TaskOf[old.exec]
    BY <1>2 DEF Requests
  <1> HIDE DEF r
  <1>6. old.op \notin {"none", "execPut", "taskCreate", "taskUpdate", "taskDelete", "execCreate"}
    BY <1>3 DEF ServiceOps
  <1>7. RequestShape(r)
    BY <1>2, <1>3, <1>4, <1>5, <1>6 DEF RequestShape, ServiceOps
  <1> QED BY <1>1, <1>2, <1>4, <1>6, <1>7, MoveKeepsInv

LEMMA ReadTaskKeepsInv ==
  ASSUME Inv, NEW s \in Sessions, ReadTask(s)
  PROVE  Inv'
  <1> DEFINE old == sess[s]
             t   == TaskRead(s)
             pc  == After(old.op, "readTask")
             seen == IF old.op = "taskUpdate" THEN task[t] ELSE old.seen
  <1>1. old.pc = "readTask" /\ task[t] \in Statuses /\ UNCHANGED <<task, exec>>
    BY DEF ReadTask
  <1>2. old \in Requests /\ RequestShape(old) /\ held[s] = {}
    BY <1>1, SessionFacts
  <1>3. CASE ~OwnsTask(s, t) \/ ~Admits(s, task[t])
    BY <1>1, <1>3, AnswerOnlyKeepsInv DEF ReadTask, Replies
  <1>4. CASE OwnsTask(s, t) /\ Admits(s, task[t])
    <2>1. sess' = [sess EXCEPT ![s].pc = pc, ![s].seen = seen] /\ UNCHANGED held
      BY <1>4 DEF ReadTask
    <2>2. /\ old.op \in {"taskUpdate", "taskDelete"} \cup ServiceOps
          /\ old.op \in {"taskUpdate", "taskDelete"} => t = old.task
      BY <1>1, <1>2 DEF RequestShape, Requests, ServiceOps, TaskOps, ExecutionOps, TaskRead
    <2>3. pc = CASE old.op = "taskUpdate" -> "editTask"
                 [] old.op = "taskDelete" -> "deleteTask"
                 [] old.op = "execCreate" -> "insertExec"
                 [] OTHER -> "writeExec"
      BY DEF After
    <2>4. pc \in {"editTask", "deleteTask", "insertExec", "writeExec"}
      BY <2>3
    <2>5. seen \in RowStates
      BY <1>1, <1>2 DEF RowStates, Requests
    <2>6. /\ old.op = "taskUpdate" => seen \in Statuses \ {"running"}
          /\ old.op = "execSet" => old.task = TaskOf[old.exec]
      BY <1>1, <1>4, <2>2 DEF Admits, CanUpdateOrDelete
    <2>7. old.op \in {"execCancel", "execComplete"} => old.task = TaskOf[old.exec]
      BY <1>1, <1>2 DEF RequestShape
    <2>8. RequestShape([old EXCEPT !.pc = pc, !.seen = seen])
      BY <1>1, <1>2, <2>2, <2>3, <2>6, <2>7 DEF RequestShape, Requests, ServiceOps
    <2> QED BY <1>1, <1>2, <2>1, <2>4, <2>5, <2>8, GotoKeepsInv DEF Pcs
  <1> QED BY <1>3, <1>4

-----------------------------------------------------------------------------
(* Writes and answers. *)

LEMMA EditTaskKeepsInv ==
  ASSUME Inv, NEW s \in Sessions, EditTask(s)
  PROVE  Inv'
  <1>1. /\ sess[s] \in Requests /\ RequestShape(sess[s]) /\ sess[s].pc = "editTask"
        /\ WriteDone(s) /\ exec' = exec
        /\ task' = [task EXCEPT ![sess[s].task] = sess[s].seen]
    BY SessionFacts DEF EditTask
  <1>2. sess[s].seen \in Statuses
    BY <1>1 DEF RequestShape
  <1>3. PICK reply \in Replies : Answer(s, reply)
    BY <1>1, WriteDoneAnswers
  <1> QED BY <1>1, <1>2, <1>3, SessionFacts, AnswerKeepsInv DEF RowStates

LEMMA PatchExecutionKeepsInv ==
  ASSUME Inv, NEW s \in Sessions, PatchExecution(s)
  PROVE  Inv'
  <1>1. /\ sess[s] \in Requests /\ RequestShape(sess[s]) /\ sess[s].pc = "patch"
        /\ exec[sess[s].exec] \in Statuses
        /\ WriteDone(s) /\ task' = task
        /\ exec' = [exec EXCEPT ![sess[s].exec] = sess[s].want]
    BY SessionFacts DEF PatchExecution
  <1>2. sess[s].want \in Statuses /\ "absent" \notin Statuses
    BY <1>1 DEF RequestShape, IsActive, Statuses
  <1>3. PICK reply \in Replies : Answer(s, reply)
    BY <1>1, WriteDoneAnswers
  <1> QED BY <1>1, <1>2, <1>3, SessionFacts, AnswerKeepsInv DEF RowStates

\* What a transaction is about to commit.
LEMMA CommitFacts ==
  ASSUME Inv, NEW s \in Sessions, sess[s].pc \in {"writeTask", "commit"}
  PROVE  /\ sess[s].op \in ServiceOps
         /\ sess[s].exec \in Executions
         /\ sess[s].task \in Tasks
         /\ sess[s].task = TaskOf[sess[s].exec]
         /\ sess[s].want \in Statuses
         /\ sess[s].goal \in Statuses
         /\ task[sess[s].task] \in Statuses
         /\ exec[sess[s].exec] \in Statuses
              \/ (sess[s].op = "execCreate" /\ exec[sess[s].exec] = "absent")
  <1>1. sess[s] \in Requests /\ RequestShape(sess[s])
    BY SessionFacts
  <1>2. /\ sess[s].op \in ServiceOps
        /\ sess[s].exec \in Executions
        /\ sess[s].task \in Tasks
        /\ sess[s].task = TaskOf[sess[s].exec]
    BY <1>1, RowsOfRequest
  <1>3. sess[s].want \in Statuses /\ sess[s].goal \in Statuses
    BY <1>1, <1>2 DEF RequestShape, ServiceOps, IsTerminal, Statuses
  <1>4. /\ task[sess[s].task] \in Statuses
        /\ sess[s].op = "execCreate" => exec[sess[s].exec] = "absent"
        /\ sess[s].op # "execCreate" => exec[sess[s].exec] \in Statuses
    BY DEF Inv, WritesFindTheirRows
  <1> QED BY <1>2, <1>3, <1>4

LEMMA CommitKeepsInv ==
  ASSUME Inv, NEW s \in Sessions, Commit(s)
  PROVE  Inv'
  <1>1. /\ sess[s].pc = "commit"
        /\ exec' = [exec EXCEPT ![sess[s].exec] = sess[s].want]
        /\ task' = [task EXCEPT ![sess[s].task] = sess[s].goal]
    BY DEF Commit
  <1>2. PICK reply \in Replies : Answer(s, reply)
    BY WriteDoneAnswers DEF Commit
  <1>3. "absent" \notin Statuses
    BY DEF Statuses
  <1> QED BY <1>1, <1>2, <1>3, CommitFacts, SessionFacts, AnswerKeepsInv DEF RowStates

LEMMA UnwrittenAnswerKeepsInv ==
  ASSUME Inv, NEW s \in Sessions,
         MissingExecution(s) \/ MissingTask(s) \/ RowGone(s) \/ Fail(s) \/ DeadlockVictim(s)
  PROVE  Inv'
  BY AnswerOnlyKeepsInv
     DEF MissingExecution, MissingTask, RowGone, Fail, DeadlockVictim, Replies

-----------------------------------------------------------------------------
(* Locks. *)

\* A step that takes locks that nobody else's conflict with.
LEMMA LockKeepsInv ==
  ASSUME Inv, NEW s \in Sessions, NEW pc \in {"cascade", "writeTask", "commit"},
         NEW locks \in SUBSET (Modes \X (Tasks \cup Executions)),
         Goto(s, pc), Lock(s, locks), UNCHANGED <<task, exec>>,
         \A m \in Modes, row \in Tasks \cup Executions :
           <<m, row>> \in locks => Available(s, m, row),
         RequestShape([sess[s] EXCEPT !.pc = pc]),
         (HoldsOnlyInside(s) /\ WriterHolds(s) /\ DeleterHolds(s))',
         task[sess[s].task] \in Statuses,
         pc # "cascade" =>
           exec[sess[s].exec] \in (IF sess[s].op = "execCreate" THEN {"absent"} ELSE Statuses)
  PROVE  Inv'
  <1> DEFINE r == [sess[s] EXCEPT !.pc = pc]
  <1>1. sess[s] \in Requests /\ pc \in Pcs
    BY SessionFacts DEF Pcs
  <1>2. /\ sess \in [Sessions -> Requests]
        /\ held \in [Sessions -> SUBSET (Modes \X (Tasks \cup Executions))]
    BY DEF Inv, TypeOK
  <1>3. r \in Requests /\ r.pc = pc /\ r.op = sess[s].op /\ r.task = sess[s].task /\ r.exec = sess[s].exec
    BY <1>1 DEF Requests
  <1>4. /\ sess'[s] = r /\ held'[s] = held[s] \cup locks
        /\ \A z \in Sessions \ {s} : sess'[z] = sess[z] /\ held'[z] = held[z]
    BY <1>2 DEF Goto, Lock
  <1>5. TypeOK'
    <2>1. sess' = [sess EXCEPT ![s] = r]
      BY <1>2 DEF Goto
    <2>2. sess' \in [Sessions -> Requests]
      BY <1>2, <1>3, <2>1
    <2>3. held' \in [Sessions -> SUBSET (Modes \X (Tasks \cup Executions))]
      BY <1>2 DEF Lock
    <2> QED BY <2>2, <2>3 DEF Inv, TypeOK, Board!TypeOK
  <1> HIDE DEF r
  <1>6. RequestsWellFormed'
    <2>1. RequestShape(r)
      BY DEF r
    <2> QED BY <1>4, <2>1 DEF Inv, RequestsWellFormed
  <1>7. FreshExecutions'
    BY <1>3, <1>4 DEF Inv, FreshExecutions
  <1>8. LocksByStatement'
    <2>1. ASSUME NEW z \in Sessions \ {s}
          PROVE  (HoldsOnlyInside(z) /\ WriterHolds(z) /\ DeleterHolds(z))'
      <3>1. HoldsOnlyInside(z) /\ WriterHolds(z) /\ DeleterHolds(z)
        BY DEF Inv, LocksByStatement
      <3> QED BY <1>4, <3>1 DEF HoldsOnlyInside, WriterHolds, DeleterHolds
    <2> QED BY <2>1 DEF LocksByStatement
  <1>9. LocksCompatible'
    <2> SUFFICES ASSUME NEW y \in Sessions, NEW z \in Sessions, y # z,
                        NEW m \in Modes, NEW n \in Modes, NEW row \in Tasks \cup Executions,
                        <<m, row>> \in held'[y], <<n, row>> \in held'[z]
                 PROVE  ~Conflict(m, n)
      BY DEF LocksCompatible
    <2>1. \A a, b \in Modes : Conflict(a, b) = Conflict(b, a)
      BY DEF Conflict
    <2>2. CASE <<m, row>> \in held[y] /\ <<n, row>> \in held[z]
      BY <2>2 DEF Inv, LocksCompatible
    <2>3. CASE y = s /\ <<m, row>> \in locks
      BY <2>3, <1>4 DEF Available
    <2>4. CASE z = s /\ <<n, row>> \in locks
      BY <2>1, <2>4, <1>4 DEF Available
    <2> QED BY <1>4, <2>2, <2>3, <2>4
  <1>10. CascadeFindsItsTask'
    BY <1>3, <1>4 DEF Inv, CascadeFindsItsTask
  <1>11. WritesFindTheirRows'
    BY <1>3, <1>4 DEF Inv, WritesFindTheirRows
  <1>12. NoOrphanExecution'
    BY DEF Inv, NoOrphanExecution, Board!NoOrphanExecution
  <1> QED BY <1>5, <1>6, <1>7, <1>8, <1>9, <1>10, <1>11, <1>12 DEF Inv

LEMMA InsertExecutionKeepsInv ==
  ASSUME Inv, NEW s \in Sessions, InsertExecution(s)
  PROVE  Inv'
  <1> DEFINE e     == sess[s].exec
             t     == sess[s].task
             locks == {<<"write", e>>, <<"share", t>>}
  <1>1. /\ sess[s] \in Requests /\ RequestShape(sess[s]) /\ held[s] = {}
        /\ sess[s].pc = "insertExec" /\ task[t] \in Statuses
        /\ Available(s, "share", t) /\ UNCHANGED <<task, exec>>
    BY SessionFacts DEF InsertExecution
  <1>2. /\ sess[s].op = "execCreate" /\ e \in Executions /\ t \in Tasks /\ t = TaskOf[e]
        /\ exec[e] = "absent"
    BY <1>1, RowsOfRequest DEF Inv, FreshExecutions, ServiceOps
  <1>3. Goto(s, "writeTask") /\ Lock(s, locks)
    BY DEF InsertExecution, After
  <1>4. locks \in SUBSET (Modes \X (Tasks \cup Executions))
    BY <1>2 DEF Modes
  <1>5. Available(s, "write", e)
    <2> SUFFICES ASSUME NEW z \in Sessions \ {s}, NEW n \in Modes, <<n, e>> \in held[z]
                 PROVE  FALSE
      BY DEF Available
    <2>1. /\ sess[z] \in Requests
          /\ sess[z].pc \in {"cascade", "writeTask", "commit"}
      BY SessionFacts
    <2>2. CASE sess[z].pc = "cascade"
      BY <1>2, <2>2 DEF Inv, LocksByStatement, DeleterHolds, Statuses
    <2>3. CASE sess[z].pc \in {"writeTask", "commit"}
      <3>1. sess[z].exec = e
        BY <1>2, <2>3 DEF Inv, LocksByStatement, WriterHolds
      <3>2. sess[z].op = "execCreate"
        BY <1>2, <2>3, <3>1, CommitFacts DEF Statuses
      <3> QED BY <1>2, <3>1, <3>2 DEF Inv, FreshExecutions
    <2> QED BY <2>1, <2>2, <2>3
  <1>6. \A m \in Modes, row \in Tasks \cup Executions :
          <<m, row>> \in locks => Available(s, m, row)
    BY <1>1, <1>5
  <1>7. RequestShape([sess[s] EXCEPT !.pc = "writeTask"])
    BY <1>1, <1>2 DEF RequestShape, Requests, ServiceOps
  <1>8. held'[s] = locks /\ sess'[s] = [sess[s] EXCEPT !.pc = "writeTask"]
    BY <1>1, <1>3 DEF Goto, Lock, Inv, TypeOK
  <1>9. /\ sess'[s].pc = "writeTask" /\ sess'[s].op = "execCreate"
        /\ sess'[s].exec = e /\ sess'[s].task = t
    BY <1>1, <1>2, <1>8 DEF Requests
  <1>10. (HoldsOnlyInside(s) /\ WriterHolds(s) /\ DeleterHolds(s))'
    BY <1>2, <1>8, <1>9 DEF HoldsOnlyInside, WriterHolds, DeleterHolds
  <1> QED BY <1>1, <1>2, <1>3, <1>4, <1>6, <1>7, <1>10, LockKeepsInv

LEMMA WriteExecutionKeepsInv ==
  ASSUME Inv, NEW s \in Sessions, WriteExecution(s)
  PROVE  Inv'
  <1> DEFINE e     == sess[s].exec
             t     == sess[s].task
             locks == {<<"write", e>>}
  <1>1. /\ sess[s] \in Requests /\ RequestShape(sess[s]) /\ held[s] = {}
        /\ sess[s].pc = "writeExec" /\ exec[e] \in Statuses
        /\ Available(s, "write", e) /\ UNCHANGED <<task, exec>>
    BY SessionFacts DEF WriteExecution
  <1>2. /\ sess[s].op \in ServiceOps \ {"execCreate"}
        /\ e \in Executions /\ t \in Tasks /\ t = TaskOf[e]
    BY <1>1, RowsOfRequest DEF RequestShape, ServiceOps
  <1>3. Goto(s, "writeTask") /\ Lock(s, locks)
    BY DEF WriteExecution, After
  <1>4. locks \in SUBSET (Modes \X (Tasks \cup Executions))
    BY <1>2 DEF Modes
  <1>5. task[t] \in Statuses
    BY <1>1, <1>2, BoardStatuses DEF Inv, NoOrphanExecution, Board!NoOrphanExecution
  <1>6. \A m \in Modes, row \in Tasks \cup Executions :
          <<m, row>> \in locks => Available(s, m, row)
    BY <1>1
  <1>7. RequestShape([sess[s] EXCEPT !.pc = "writeTask"])
    BY <1>1, <1>2 DEF RequestShape, Requests, ServiceOps
  <1>8. held'[s] = locks /\ sess'[s] = [sess[s] EXCEPT !.pc = "writeTask"]
    BY <1>1, <1>3 DEF Goto, Lock, Inv, TypeOK
  <1>9. /\ sess'[s].pc = "writeTask" /\ sess'[s].op # "execCreate"
        /\ sess'[s].exec = e /\ sess'[s].task = t
    BY <1>1, <1>2, <1>8 DEF Requests
  <1>10. (HoldsOnlyInside(s) /\ WriterHolds(s) /\ DeleterHolds(s))'
    BY <1>2, <1>8, <1>9 DEF HoldsOnlyInside, WriterHolds, DeleterHolds
  <1> QED BY <1>1, <1>2, <1>3, <1>4, <1>5, <1>6, <1>7, <1>10, LockKeepsInv

LEMMA WriteTaskKeepsInv ==
  ASSUME Inv, NEW s \in Sessions, WriteTask(s)
  PROVE  Inv'
  <1> DEFINE e     == sess[s].exec
             t     == sess[s].task
             locks == {<<"write", t>>}
  <1>1. /\ sess[s] \in Requests /\ RequestShape(sess[s])
        /\ sess[s].pc = "writeTask" /\ task[t] \in Statuses
        /\ Available(s, "write", t) /\ UNCHANGED <<task, exec>>
    BY SessionFacts DEF WriteTask
  <1>2. sess[s].op \in ServiceOps /\ e \in Executions /\ t \in Tasks /\ t = TaskOf[e]
    BY <1>1, CommitFacts
  <1>3. Goto(s, "commit") /\ Lock(s, locks)
    BY DEF WriteTask, After
  <1>4. locks \in SUBSET (Modes \X (Tasks \cup Executions))
    BY <1>2 DEF Modes
  <1>5. exec[e] \in (IF sess[s].op = "execCreate" THEN {"absent"} ELSE Statuses)
    BY <1>1 DEF Inv, WritesFindTheirRows
  <1>6. \A m \in Modes, row \in Tasks \cup Executions :
          <<m, row>> \in locks => Available(s, m, row)
    BY <1>1
  <1>7. RequestShape([sess[s] EXCEPT !.pc = "commit"])
    BY <1>1, <1>2 DEF RequestShape, Requests, ServiceOps
  <1>8. held'[s] = held[s] \cup locks /\ sess'[s] = [sess[s] EXCEPT !.pc = "commit"]
    BY <1>1, <1>3 DEF Goto, Lock, Inv, TypeOK
  <1>9. /\ sess'[s].pc = "commit" /\ sess'[s].op = sess[s].op
        /\ sess'[s].exec = e /\ sess'[s].task = t
    BY <1>1, <1>2, <1>8 DEF Requests
  <1>10. WriterHolds(s)
    BY DEF Inv, LocksByStatement
  <1>11. \A f \in Executions, m \in Modes : <<m, f>> \notin locks
    BY <1>2
  <1>12. (HoldsOnlyInside(s) /\ WriterHolds(s) /\ DeleterHolds(s))'
    BY <1>1, <1>2, <1>8, <1>9, <1>10, <1>11 DEF HoldsOnlyInside, WriterHolds, DeleterHolds
  <1> QED BY <1>1, <1>2, <1>3, <1>4, <1>5, <1>6, <1>7, <1>12, LockKeepsInv

LEMMA DeleteTaskRowKeepsInv ==
  ASSUME Inv, NEW s \in Sessions, DeleteTaskRow(s)
  PROVE  Inv'
  <1> DEFINE t     == sess[s].task
             locks == {<<"delete", t>>}
  <1>1. /\ sess[s] \in Requests /\ RequestShape(sess[s]) /\ held[s] = {}
        /\ sess[s].pc = "deleteTask" /\ task[t] \in Statuses
        /\ Available(s, "delete", t) /\ UNCHANGED <<task, exec>>
    BY SessionFacts DEF DeleteTaskRow
  <1>2. sess[s].op = "taskDelete" /\ t \in Tasks
    BY <1>1 DEF RequestShape
  <1>3. Goto(s, "cascade") /\ Lock(s, locks)
    BY DEF DeleteTaskRow
  <1>4. locks \in SUBSET (Modes \X (Tasks \cup Executions))
    BY <1>2 DEF Modes
  <1>5. \A m \in Modes, row \in Tasks \cup Executions :
          <<m, row>> \in locks => Available(s, m, row)
    BY <1>1
  <1>6. RequestShape([sess[s] EXCEPT !.pc = "cascade"])
    BY <1>1, <1>2 DEF RequestShape, Requests, ServiceOps
  <1>7. held'[s] = locks /\ sess'[s] = [sess[s] EXCEPT !.pc = "cascade"]
    BY <1>1, <1>3 DEF Goto, Lock, Inv, TypeOK
  <1>8. sess'[s].pc = "cascade" /\ sess'[s].task = t
    BY <1>1, <1>7 DEF Requests
  <1>9. (HoldsOnlyInside(s) /\ WriterHolds(s) /\ DeleterHolds(s))'
    BY <1>2, <1>7, <1>8 DEF HoldsOnlyInside, WriterHolds, DeleterHolds
  <1> QED BY <1>1, <1>3, <1>4, <1>5, <1>6, <1>9, LockKeepsInv

LEMMA CascadeToExecutionKeepsInv ==
  ASSUME Inv, NEW s \in Sessions, NEW e \in Executions, CascadeToExecution(s, e)
  PROVE  Inv'
  <1> DEFINE t     == sess[s].task
             locks == {<<"delete", e>>}
  <1>1. /\ sess[s] \in Requests /\ RequestShape(sess[s])
        /\ sess[s].pc = "cascade" /\ TaskOf[e] = t /\ exec[e] \in Statuses
        /\ Available(s, "delete", e) /\ UNCHANGED <<task, exec, sess>>
    BY SessionFacts DEF CascadeToExecution, ExecutionsToCascade
  <1>2. t \in Tasks /\ task[t] \in Statuses
    BY <1>1 DEF Inv, CascadeFindsItsTask
  <1>3. Goto(s, "cascade") /\ Lock(s, locks)
    BY <1>1 DEF CascadeToExecution, Goto, Inv, TypeOK, Requests
  <1>4. locks \in SUBSET (Modes \X (Tasks \cup Executions))
    BY DEF Modes
  <1>5. \A m \in Modes, row \in Tasks \cup Executions :
          <<m, row>> \in locks => Available(s, m, row)
    BY <1>1
  <1>6. RequestShape([sess[s] EXCEPT !.pc = "cascade"])
    BY <1>1 DEF Requests
  <1>7. held'[s] = held[s] \cup locks /\ sess'[s] = sess[s]
    BY <1>1, <1>3 DEF Lock, Inv, TypeOK
  <1>8. DeleterHolds(s)
    BY DEF Inv, LocksByStatement
  <1>9. (HoldsOnlyInside(s) /\ WriterHolds(s) /\ DeleterHolds(s))'
    BY <1>1, <1>7, <1>8 DEF HoldsOnlyInside, WriterHolds, DeleterHolds
  <1> QED BY <1>1, <1>2, <1>3, <1>4, <1>5, <1>6, <1>9, LockKeepsInv

\* The rows that a DELETE takes away are those nobody else has locked.
LEMMA FinishDeleteKeepsInv ==
  ASSUME Inv, NEW s \in Sessions, FinishDelete(s)
  PROVE  Inv'
  <1>0. PICK reply \in Replies : Answer(s, reply)
    BY WriteDoneAnswers DEF FinishDelete
  <1> DEFINE t == sess[s].task
             r == [Idle EXCEPT !.reply = reply]
  <1>1. /\ sess[s] \in Requests /\ RequestShape(sess[s]) /\ sess[s].pc = "cascade"
        /\ task \in [Tasks -> RowStates] /\ exec \in [Executions -> RowStates]
    BY SessionFacts DEF FinishDelete
  <1>2. /\ task' = [task EXCEPT ![t] = "deleted"]
        /\ exec' = [e \in Executions |-> IF <<"delete", e>> \in held[s] THEN "deleted" ELSE exec[e]]
        /\ sess' = [sess EXCEPT ![s] = r]
        /\ held' = [held EXCEPT ![s] = {}]
    BY <1>0 DEF FinishDelete, Answer
  <1>3. r \in Requests /\ r.op = "none" /\ r.pc = "idle"
    BY IdleType DEF Replies
  <1> HIDE DEF r
  <1>4. /\ t \in Tasks /\ sess[s].op = "taskDelete"
        /\ <<"delete", t>> \in held[s]
        /\ \A e \in Executions, m \in Modes : <<m, e>> \in held[s] =>
             TaskOf[e] = t /\ exec[e] \in Statuses
        /\ \A e \in Executions : TaskOf[e] = t /\ exec[e] \in Statuses => <<"delete", e>> \in held[s]
    BY <1>1 DEF Inv, LocksByStatement, DeleterHolds, RequestShape, FinishDelete, ExecutionsToCascade
  <1>5. /\ sess \in [Sessions -> Requests]
        /\ held \in [Sessions -> SUBSET (Modes \X (Tasks \cup Executions))]
    BY DEF Inv, TypeOK
  <1>6. /\ sess'[s] = r /\ held'[s] = {}
        /\ \A z \in Sessions \ {s} : sess'[z] = sess[z] /\ held'[z] = held[z]
    BY <1>2, <1>5
  <1>7. /\ "delete" \in Modes /\ "share" \in Modes /\ "write" \in Modes
        /\ "deleted" \notin Statuses /\ "deleted" # "absent"
    BY DEF Modes, Statuses
  <1>8. \A z \in Sessions \ {s}, n \in Modes, row \in Tasks \cup Executions :
          <<n, row>> \in held[z] => <<"delete", row>> \notin held[s]
    BY <1>7 DEF Inv, LocksCompatible, Conflict
  <1>9. /\ task'[t] = "deleted"
        /\ \A u \in Tasks \ {t} : task'[u] = task[u]
        /\ \A e \in Executions :
             /\ <<"delete", e>> \in held[s] => TaskOf[e] = t /\ exec'[e] = "deleted" /\ exec[e] \in Statuses
             /\ <<"delete", e>> \notin held[s] => exec'[e] = exec[e]
    BY <1>1, <1>2, <1>4, <1>7
  <1>10. TypeOK'
    <2>1. task' \in [Tasks -> RowStates] /\ exec' \in [Executions -> RowStates]
      BY <1>1, <1>2 DEF RowStates
    <2> QED BY <2>1, <1>2, <1>3, <1>5, BoardStatuses DEF TypeOK, Board!TypeOK
  <1>11. RequestsWellFormed'
    BY <1>3, <1>6 DEF Inv, RequestsWellFormed, RequestShape, ServiceOps
  <1>12. FreshExecutions'
    <2> SUFFICES ASSUME NEW z \in Sessions, sess'[z].op = "execCreate"
                 PROVE  /\ exec'[sess'[z].exec] = "absent"
                        /\ \A y \in Sessions : sess'[y].op = "execCreate" /\ sess'[y].exec = sess'[z].exec => y = z
      BY DEF FreshExecutions
    <2>1. z # s /\ sess[z].op = "execCreate"
      BY <1>3, <1>6
    <2>2. sess[z].exec \in Executions /\ exec[sess[z].exec] = "absent"
      BY <2>1, SessionFacts, RowsOfRequest DEF Inv, FreshExecutions, ServiceOps
    <2>3. exec'[sess[z].exec] = "absent"
      BY <2>2, <1>9 DEF Statuses
    <2> QED BY <1>3, <1>6, <2>1, <2>3 DEF Inv, FreshExecutions
  <1>13. LocksByStatement'
    <2> SUFFICES ASSUME NEW z \in Sessions
                 PROVE  (HoldsOnlyInside(z) /\ WriterHolds(z) /\ DeleterHolds(z))'
      BY DEF LocksByStatement
    <2>1. HoldsOnlyInside(z) /\ WriterHolds(z) /\ DeleterHolds(z)
      BY DEF Inv, LocksByStatement
    <2>2. CASE z = s
      BY <2>2, <1>3, <1>6 DEF HoldsOnlyInside, WriterHolds, DeleterHolds
    <2>3. CASE z # s
      <3>1. HoldsOnlyInside(z)' /\ WriterHolds(z)'
        BY <2>1, <2>3, <1>6 DEF HoldsOnlyInside, WriterHolds
      <3>2. \A e \in Executions, m \in Modes : <<m, e>> \in held[z] => exec'[e] = exec[e]
        BY <2>3, <1>8, <1>9
      <3>3. DeleterHolds(z)'
        BY <2>1, <2>3, <3>2, <1>6 DEF DeleterHolds
      <3> QED BY <3>1, <3>3
    <2> QED BY <2>2, <2>3
  <1>14. LocksCompatible'
    BY <1>6 DEF Inv, LocksCompatible
  <1>15. CascadeFindsItsTask'
    <2> SUFFICES ASSUME NEW z \in Sessions, sess'[z].pc = "cascade"
                 PROVE  task'[sess'[z].task] \in Statuses
      BY DEF CascadeFindsItsTask
    <2>1. z # s /\ sess[z].pc = "cascade"
      BY <1>3, <1>6
    <2>2. <<"delete", sess[z].task>> \in held[z] /\ task[sess[z].task] \in Statuses /\ sess[z].task \in Tasks
      BY <2>1, SessionFacts, RowsOfRequest DEF Inv, CascadeFindsItsTask, LocksByStatement, DeleterHolds
    <2>3. sess[z].task # t
      BY <2>1, <2>2, <1>4, <1>7, <1>8
    <2> QED BY <2>1, <2>2, <2>3, <1>6, <1>9
  <1>16. WritesFindTheirRows'
    <2> SUFFICES ASSUME NEW z \in Sessions, sess'[z].pc \in {"writeTask", "commit"}
                 PROVE  /\ task'[sess'[z].task] \in Statuses
                        /\ exec'[sess'[z].exec] \in
                             (IF sess'[z].op = "execCreate" THEN {"absent"} ELSE Statuses)
      BY DEF WritesFindTheirRows
    <2> DEFINE e == sess[z].exec
               u == sess[z].task
    <2>1. z # s /\ sess[z].pc \in {"writeTask", "commit"} /\ sess'[z] = sess[z]
      BY <1>3, <1>6
    <2>2. /\ e \in Executions /\ u \in Tasks /\ u = TaskOf[e] /\ task[u] \in Statuses
          /\ exec[e] \in (IF sess[z].op = "execCreate" THEN {"absent"} ELSE Statuses)
      BY <2>1, CommitFacts DEF Inv, WritesFindTheirRows
    <2>3. /\ <<"write", e>> \in held[z]
          /\ sess[z].op = "execCreate" => <<"share", u>> \in held[z]
      BY <2>1 DEF Inv, LocksByStatement, WriterHolds
    <2>4. <<"delete", e>> \notin held[s]
      BY <2>1, <2>2, <2>3, <1>7, <1>8
    <2>5. u # t
      <3>1. CASE sess[z].op = "execCreate"
        BY <3>1, <2>1, <2>2, <2>3, <1>4, <1>7, <1>8
      <3>2. CASE sess[z].op # "execCreate"
        BY <3>2, <2>2, <2>4, <1>4
      <3> QED BY <3>1, <3>2
    <2> QED BY <2>1, <2>2, <2>4, <2>5, <1>9
  <1>17. NoOrphanExecution'
    BY <1>1, <1>4, <1>7, <1>9, BoardStatuses DEF Inv, NoOrphanExecution, Board!NoOrphanExecution
  <1> QED BY <1>10, <1>11, <1>12, <1>13, <1>14, <1>15, <1>16, <1>17 DEF Inv

-----------------------------------------------------------------------------
(* The invariant. *)

LEMMA InitInv == Init => Inv
  <1> SUFFICES ASSUME Init PROVE Inv
    OBVIOUS
  <1>1. Idle \in Requests /\ Idle.op = "none" /\ Idle.pc = "idle" /\ RequestShape(Idle)
    BY DEF Idle, Requests, RequestShape, Pcs, RowStates, Statuses, Keep, Replies, TaskOps,
           ExecutionOps, ServiceOps
  <1>2. \A s \in Sessions : sess[s] = Idle /\ held[s] = {}
    BY DEF Init
  <1>3. TypeOK
    BY <1>1, BoardStatuses DEF Init, TypeOK, Board!TypeOK, RowStates
  <1>4. RequestsWellFormed /\ FreshExecutions /\ LocksCompatible /\ CascadeFindsItsTask /\ WritesFindTheirRows
    BY <1>1, <1>2 DEF RequestsWellFormed, FreshExecutions, LocksCompatible, CascadeFindsItsTask, WritesFindTheirRows
  <1>5. LocksByStatement
    BY <1>1, <1>2 DEF LocksByStatement, HoldsOnlyInside, WriterHolds, DeleterHolds
  <1>6. NoOrphanExecution
    BY BoardStatuses DEF Init, NoOrphanExecution, Board!NoOrphanExecution, Statuses
  <1> QED BY <1>3, <1>4, <1>5, <1>6 DEF Inv

LEMMA NextInv == Inv /\ [Next]_vars => Inv'
  <1> SUFFICES ASSUME Inv, [Next]_vars PROVE Inv'
    OBVIOUS
  <1>1. CASE UNCHANGED vars
    <2>1. UNCHANGED <<task, exec, sess, held>>
      BY <1>1 DEF vars
    <2>2. (TypeOK /\ RequestsWellFormed /\ FreshExecutions)'
      BY <2>1 DEF Inv, TypeOK, Board!TypeOK, RequestsWellFormed, FreshExecutions
    <2>3. LocksByStatement'
      BY <2>1 DEF Inv, LocksByStatement, HoldsOnlyInside, WriterHolds, DeleterHolds
    <2>4. (LocksCompatible /\ CascadeFindsItsTask /\ WritesFindTheirRows)'
      BY <2>1 DEF Inv, LocksCompatible, CascadeFindsItsTask, WritesFindTheirRows
    <2>5. NoOrphanExecution'
      BY <2>1 DEF Inv, NoOrphanExecution, Board!NoOrphanExecution
    <2> QED BY <2>2, <2>3, <2>4, <2>5 DEF Inv
  <1>2. CASE Next
    <2> PICK s \in Sessions : Request(s) \/ Statement(s) \/ Fail(s) \/ DeadlockVictim(s)
      BY <1>2 DEF Next
    <2>1. CASE Request(s)
      BY <2>1, RequestKeepsInv
    <2>2. CASE Statement(s)
      BY <2>2, FetchExecutionKeepsInv, AuthorizeKeepsInv, ReadExecutionKeepsInv, ReadTaskKeepsInv,
         UnwrittenAnswerKeepsInv, EditTaskKeepsInv, PatchExecutionKeepsInv, DeleteTaskRowKeepsInv,
         CascadeToExecutionKeepsInv, FinishDeleteKeepsInv, InsertExecutionKeepsInv,
         WriteExecutionKeepsInv, WriteTaskKeepsInv, CommitKeepsInv
         DEF Statement
    <2>3. CASE Fail(s) \/ DeadlockVictim(s)
      BY <2>3, UnwrittenAnswerKeepsInv
    <2> QED BY <2>1, <2>2, <2>3
  <1> QED BY <1>1, <1>2

THEOREM Invariance == Spec => []Inv
  BY InitInv, NextInv, PTL DEF Spec

\* The status columns hold what the schema allows and every session serves a
\* request of the program, whatever requests arrive, fail and overlap.
THEOREM TypeCorrect == Spec => []TypeOK
  BY Invariance, PTL DEF Inv

\* Between the write of an execution and the commit, neither its row nor its
\* task's is deleted.
THEOREM WritesFindRows == Spec => []WritesFindTheirRows
  BY Invariance, PTL DEF Inv

\* No execution outlives its task.
THEOREM NoOrphan == Spec => []NoOrphanExecution
  BY Invariance, PTL DEF Inv

-----------------------------------------------------------------------------
(* Deadlocks. *)

\* A session in a circle holds a lock and needs one.  Without a DELETE among
\* them all are about to write a task, holding no lock that keeps the others
\* from writing theirs.
THEOREM DeadlocksInvolveDeletes == Spec => []OnlyDeletesDeadlock
  <1>1. Inv => OnlyDeletesDeadlock
    <2> SUFFICES ASSUME Inv, NEW waiting \in SUBSET Sessions, waiting # {}, Cycle(waiting),
                        \A s \in waiting : sess[s].pc # "cascade"
                 PROVE  FALSE
      BY DEF OnlyDeletesDeadlock
    <2>1. ASSUME NEW b \in waiting
          PROVE  sess[b].pc = "writeTask"
      <3>1. \A a \in waiting : WaitsFor(a, b) => held[b] # {}
        BY DEF WaitsFor
      <3>2. sess[b].pc \in {"writeTask", "commit"}
        BY <3>1 DEF Cycle, Inv, LocksByStatement, HoldsOnlyInside
      <3>3. sess[b].pc # "commit"
        BY DEF Cycle, WaitsFor, Needs
      <3> QED BY <3>2, <3>3
    <2>2. PICK b \in waiting : TRUE
      OBVIOUS
    <2>3. PICK a \in waiting : WaitsFor(b, a)
      BY <2>2 DEF Cycle
    <2>4. Needs(b) = {<<"write", sess[b].task>>}
      BY <2>1, <2>2 DEF Needs
    <2>5. PICK n \in Modes : <<n, sess[b].task>> \in held[a] /\ Conflict("write", n)
      BY <2>3, <2>4 DEF WaitsFor
    <2>6. sess[b].task \in Tasks
      BY <2>1, <2>2, CommitFacts
    <2>7. n = "share"
      BY <2>1, <2>3, <2>5, <2>6 DEF Inv, LocksByStatement, WriterHolds
    <2> QED BY <2>5, <2>7 DEF Conflict
  <1> QED BY <1>1, Invariance, PTL

-----------------------------------------------------------------------------
(* Owners. *)

\* The statements that follow the ownership check.
Trusted == {"editTask", "deleteTask", "cascade", "patch", "insertExec", "writeExec", "writeTask", "commit"}

OwnerChecked ==
  \A s \in Sessions : sess[s].pc \in Trusted => OwnsTask(s, sess[s].task)

LEMMA AnswerKeepsOwner ==
  ASSUME Inv, OwnerChecked, NEW s \in Sessions, NEW reply \in Replies, Answer(s, reply)
  PROVE  OwnerChecked'
  <1> DEFINE r == [Idle EXCEPT !.reply = reply]
  <1>1. r.pc = "idle"
    BY IdleType
  <1>2. sess' = [sess EXCEPT ![s] = r] /\ sess \in [Sessions -> Requests]
    BY DEF Answer, Inv, TypeOK
  <1> HIDE DEF r
  <1> QED BY <1>1, <1>2 DEF OwnerChecked, OwnsTask, Trusted

LEMMA MoveKeepsOwner ==
  ASSUME Inv, OwnerChecked, NEW s \in Sessions, NEW r,
         sess' = [sess EXCEPT ![s] = r],
         r.pc \in Trusted => OwnsTask(s, r.task)
  PROVE  OwnerChecked'
  BY DEF OwnerChecked, OwnsTask, Inv, TypeOK

LEMMA ReadTaskKeepsOwner ==
  ASSUME Inv, OwnerChecked, NEW s \in Sessions, ReadTask(s)
  PROVE  OwnerChecked'
  <1> DEFINE old == sess[s]
             t   == TaskRead(s)
             r   == [old EXCEPT !.pc = After(old.op, "readTask"),
                                !.seen = IF old.op = "taskUpdate" THEN task[t] ELSE @]
  <1>1. old.pc = "readTask" /\ old \in Requests /\ RequestShape(old)
    BY SessionFacts DEF ReadTask
  <1>2. CASE ~OwnsTask(s, t) \/ ~Admits(s, task[t])
    BY <1>2, AnswerKeepsOwner DEF ReadTask, Replies
  <1>3. CASE OwnsTask(s, t) /\ Admits(s, task[t])
    <2>1. sess' = [sess EXCEPT ![s] = r]
      BY <1>3 DEF ReadTask
    <2>2. r.task = old.task
      BY <1>1 DEF Requests
    <2>3. t = old.task
      <3>1. CASE old.exec = None
        BY <3>1 DEF TaskRead
      <3>2. CASE old.exec # None
        <4>1. t = TaskOf[old.exec]
          BY <3>2 DEF TaskRead
        <4> HIDE DEF t, r
        <4>2. old.op \in TaskOps \cup ExecutionOps \cup {"none", "execComplete"}
          BY <1>1 DEF Requests
        <4> HIDE DEF old
        <4>3. old.op \notin {"none", "taskCreate", "taskUpdate", "taskDelete", "execPut"}
          BY <1>1, <3>2 DEF RequestShape
        <4>4. old.op \in ServiceOps
          BY <4>2, <4>3 DEF ServiceOps, TaskOps, ExecutionOps
        <4>5. old.op = "execSet" => old.task = TaskOf[old.exec]
          BY <1>3 DEF Admits, old
        <4>6. old.op \in {"execCancel", "execComplete", "execCreate"} => old.task = TaskOf[old.exec]
          BY <1>1, <4>4 DEF RequestShape
        <4> QED BY <4>1, <4>4, <4>5, <4>6 DEF ServiceOps
      <3> QED BY <3>1, <3>2
    <2>4. OwnsTask(s, r.task)
      BY <1>3, <2>2, <2>3
    <2> HIDE DEF r, old, t
    <2> QED BY <2>1, <2>4, MoveKeepsOwner
  <1> QED BY <1>2, <1>3

LEMMA ReceiveKeepsOwner ==
  ASSUME Inv, OwnerChecked, NEW s \in Sessions, NEW r, Receive(s, r), r.pc \notin Trusted
  PROVE  OwnerChecked'
  BY MoveKeepsOwner DEF Receive

LEMMA RequestKeepsOwner ==
  ASSUME Inv, OwnerChecked, NEW s \in Sessions, Request(s)
  PROVE  OwnerChecked'
  <1>0. {"readTask", "readExec", "fetch"} \cap Trusted = {}
    BY DEF Trusted
  <1>1. CASE \E t \in Tasks : CreateTask(s, t)
    BY <1>1, AnswerKeepsOwner DEF CreateTask, WriteDone, Replies
  <1>2. ASSUME NEW op \in {"taskUpdate", "taskDelete"}, NEW t \in Tasks, RequestOnTask(s, op, t)
        PROVE  OwnerChecked'
    <2> DEFINE r == [Idle EXCEPT !.op = op, !.pc = "readTask", !.task = t]
    <2>1. Receive(s, r) /\ r.pc = "readTask"
      BY <1>2 DEF RequestOnTask, Idle
    <2> QED BY <1>0, <2>1, ReceiveKeepsOwner
  <1>3. ASSUME NEW e \in Executions, RequestCreate(s, e)
        PROVE  OwnerChecked'
    <2> DEFINE r == [Idle EXCEPT !.op = "execCreate", !.pc = "readTask", !.task = TaskOf[e],
                                 !.exec = e, !.want = "pending", !.goal = "running"]
    <2>1. Receive(s, r) /\ r.pc = "readTask"
      BY <1>3 DEF RequestCreate, Idle
    <2> QED BY <1>0, <2>1, ReceiveKeepsOwner
  <1>4. ASSUME NEW e \in Executions, RequestCancel(s, e)
        PROVE  OwnerChecked'
    <2> DEFINE r == [Idle EXCEPT !.op = "execCancel", !.pc = "readExec", !.exec = e,
                                 !.want = "cancelled", !.goal = "pending"]
    <2>1. Receive(s, r) /\ r.pc = "readExec"
      BY <1>4 DEF RequestCancel, Idle
    <2> QED BY <1>0, <2>1, ReceiveKeepsOwner
  <1>5. ASSUME NEW e \in Executions, NEW status \in Reported \cup {Keep}, RequestPut(s, e, status)
        PROVE  OwnerChecked'
    <2> DEFINE r == [Idle EXCEPT !.op = "execPut", !.pc = "fetch", !.exec = e, !.want = status]
    <2>1. Receive(s, r) /\ r.pc = "fetch"
      BY <1>5 DEF RequestPut, Idle
    <2> QED BY <1>0, <2>1, ReceiveKeepsOwner
  <1>6. ASSUME NEW e \in Executions, NEW t \in Tasks, NEW es \in Reported, NEW ts \in Reported,
               RequestSet(s, e, t, es, ts)
        PROVE  OwnerChecked'
    <2> DEFINE r == [Idle EXCEPT !.op = "execSet", !.pc = "readExec", !.exec = e, !.task = t,
                                 !.want = es, !.goal = ts]
    <2>1. Receive(s, r) /\ r.pc = "readExec"
      BY <1>6 DEF RequestSet, Idle
    <2> QED BY <1>0, <2>1, ReceiveKeepsOwner
  <1> QED BY <1>1, <1>2, <1>3, <1>4, <1>5, <1>6 DEF Request

LEMMA StatementKeepsOwner ==
  ASSUME Inv, OwnerChecked, NEW s \in Sessions, Statement(s)
  PROVE  OwnerChecked'
  <1>1. CASE FetchExecution(s)
    <2> DEFINE copy == IF sess[s].want = Keep THEN exec[sess[s].exec] ELSE sess[s].want
               r    == IF IsTerminal(copy)
                         THEN [sess[s] EXCEPT !.op = "execComplete", !.pc = "readExec",
                                              !.want = copy, !.goal = copy]
                         ELSE [sess[s] EXCEPT !.pc = "authorize", !.want = copy,
                                              !.task = TaskOf[sess[s].exec]]
    <2>1. sess' = [sess EXCEPT ![s] = r] /\ sess[s] \in Requests
      BY <1>1, SessionFacts DEF FetchExecution
    <2>2. r.pc \in {"readExec", "authorize"}
      BY <2>1 DEF Requests
    <2> QED BY <2>1, <2>2, MoveKeepsOwner DEF Trusted
  <1>2. CASE Authorize(s)
    <2> DEFINE r == [sess[s] EXCEPT !.pc = "patch"]
    <2>1. sess[s] \in Requests
      BY SessionFacts
    <2>2. CASE OwnsTask(s, sess[s].task)
      <3>1. sess' = [sess EXCEPT ![s] = r] /\ r.task = sess[s].task
        BY <1>2, <2>1, <2>2 DEF Authorize, Goto, Requests
      <3> QED BY <2>2, <3>1, MoveKeepsOwner
    <2>3. CASE ~OwnsTask(s, sess[s].task)
      BY <1>2, <2>3, AnswerKeepsOwner DEF Authorize, Replies
    <2> QED BY <2>2, <2>3
  <1>3. CASE ReadExecution(s)
    <2> DEFINE r == [sess[s] EXCEPT !.pc = After(sess[s].op, "readExec"),
                                    !.seen = exec[sess[s].exec],
                                    !.task = IF sess[s].op = "execSet" THEN @ ELSE TaskOf[sess[s].exec]]
    <2>1. sess' = [sess EXCEPT ![s] = r] /\ sess[s] \in Requests
      BY <1>3, SessionFacts DEF ReadExecution
    <2>2. r.pc = "readTask"
      BY <2>1 DEF After, Requests
    <2> QED BY <2>1, <2>2, MoveKeepsOwner DEF Trusted
  <1>4. CASE ReadTask(s)
    BY <1>4, ReadTaskKeepsOwner
  <1>5. CASE MissingExecution(s) \/ MissingTask(s) \/ RowGone(s)
    BY <1>5, AnswerKeepsOwner DEF MissingExecution, MissingTask, RowGone, Replies
  <1>6. CASE EditTask(s) \/ PatchExecution(s) \/ FinishDelete(s)
    BY <1>6, AnswerKeepsOwner DEF EditTask, PatchExecution, FinishDelete, WriteDone, Replies
  <1>7. CASE Commit(s)
    BY <1>7, AnswerKeepsOwner DEF Commit, WriteDone, Replies
  <1>8. CASE DeleteTaskRow(s) \/ InsertExecution(s) \/ WriteExecution(s) \/ WriteTask(s)
    <2>1. PICK pc : Goto(s, pc)
      BY <1>8 DEF DeleteTaskRow, InsertExecution, WriteExecution, WriteTask
    <2> DEFINE r == [sess[s] EXCEPT !.pc = pc]
    <2>2. OwnsTask(s, sess[s].task)
      BY <1>8 DEF DeleteTaskRow, InsertExecution, WriteExecution, WriteTask, OwnerChecked, Trusted
    <2>3. sess[s] \in Requests
      BY SessionFacts
    <2>4. sess' = [sess EXCEPT ![s] = r] /\ r.task = sess[s].task
      BY <2>1, <2>3 DEF Goto, Requests
    <2> QED BY <2>2, <2>4, MoveKeepsOwner
  <1>9. CASE \E e \in Executions : CascadeToExecution(s, e)
    BY <1>9 DEF CascadeToExecution, OwnerChecked, OwnsTask
  <1> QED BY <1>1, <1>2, <1>3, <1>4, <1>5, <1>6, <1>7, <1>8, <1>9 DEF Statement

LEMMA OwnerStep == Inv /\ OwnerChecked /\ [Next]_vars => OwnerChecked'
  <1> SUFFICES ASSUME Inv, OwnerChecked, [Next]_vars PROVE OwnerChecked'
    OBVIOUS
  <1>1. ASSUME NEW s \in Sessions, Fail(s) \/ DeadlockVictim(s) PROVE OwnerChecked'
    BY <1>1, AnswerKeepsOwner DEF Fail, DeadlockVictim, Replies
  <1>2. CASE UNCHANGED vars
    BY <1>2 DEF vars, OwnerChecked, OwnsTask
  <1> QED BY <1>1, <1>2, RequestKeepsOwner, StatementKeepsOwner DEF Next

\* What a step may change, given that the ownership check was passed.
RowsChangeWithOwner ==
  /\ \A t \in Tasks : task'[t] # task[t] =>
       \E s \in Sessions : Caller[s] = Owner[t] /\ (CreateTask(s, t) \/ Statement(s))
  /\ \A e \in Executions : exec'[e] # exec[e] =>
       \E s \in Sessions : Caller[s] = Owner[TaskOf[e]] /\ Statement(s)

LEMMA WritesOfOwner ==
  ASSUME Inv, OwnerChecked, NEW s \in Sessions, Statement(s)
  PROVE  /\ \A t \in Tasks : task'[t] # task[t] => Caller[s] = Owner[t]
         /\ \A e \in Executions : exec'[e] # exec[e] => Caller[s] = Owner[TaskOf[e]]
  <1> DEFINE r == sess[s]
  <1>1. r \in Requests /\ RequestShape(r)
        /\ task \in [Tasks -> RowStates] /\ exec \in [Executions -> RowStates]
    BY SessionFacts
  <1>2. r.pc \in Trusted => Caller[s] = Owner[r.task]
    BY DEF OwnerChecked, OwnsTask
  <1>3. CASE UNCHANGED <<task, exec>>
    BY <1>3
  <1>4. CASE EditTask(s)
    BY <1>1, <1>2, <1>4 DEF EditTask, Trusted
  <1>5. CASE PatchExecution(s)
    <2>1. r.task = TaskOf[r.exec] /\ r.pc = "patch"
      BY <1>1, <1>5 DEF PatchExecution, RequestShape
    <2> QED BY <1>1, <1>2, <1>5, <2>1 DEF PatchExecution, Trusted
  <1>6. CASE FinishDelete(s)
    <2>1. \A e \in Executions : <<"delete", e>> \in held[s] => TaskOf[e] = r.task
      BY <1>6 DEF FinishDelete, Inv, LocksByStatement, DeleterHolds, Modes
    <2> QED BY <1>1, <1>2, <1>6, <2>1 DEF FinishDelete, Trusted
  <1>7. CASE Commit(s)
    <2>1. r.task = TaskOf[r.exec] /\ r.pc = "commit"
      BY <1>1, <1>7, RowsOfRequest DEF Commit
    <2> QED BY <1>1, <1>2, <1>7, <2>1 DEF Commit, Trusted
  <1>8. CASE FetchExecution(s) \/ Authorize(s) \/ ReadExecution(s) \/ ReadTask(s)
             \/ MissingExecution(s) \/ MissingTask(s) \/ RowGone(s)
    BY <1>3, <1>8 DEF FetchExecution, Authorize, ReadExecution, ReadTask, MissingExecution, MissingTask, RowGone
  <1>9. CASE DeleteTaskRow(s) \/ (\E e \in Executions : CascadeToExecution(s, e))
             \/ InsertExecution(s) \/ WriteExecution(s) \/ WriteTask(s)
    BY <1>3, <1>9 DEF DeleteTaskRow, CascadeToExecution, InsertExecution, WriteExecution, WriteTask
  <1> QED BY <1>4, <1>5, <1>6, <1>7, <1>8, <1>9 DEF Statement

\* Every change of a row is made by a session of its owner, although the check
\* was made statements earlier and other sessions have run since.
THEOREM OwnersOnly == Spec => OnlyOwnersChangeRows
  <1>1. Init => OwnerChecked
    BY DEF Init, OwnerChecked, Idle, Trusted
  <1>2. Inv /\ OwnerChecked /\ [Next]_vars => [RowsChangeWithOwner]_vars
    <2> SUFFICES ASSUME Inv, OwnerChecked, Next PROVE RowsChangeWithOwner
      OBVIOUS
    <2> PICK s \in Sessions : Request(s) \/ Statement(s) \/ Fail(s) \/ DeadlockVictim(s)
      BY DEF Next
    <2>1. ASSUME NEW t \in Tasks, CreateTask(s, t) PROVE RowsChangeWithOwner
      <3>1. task' = [task EXCEPT ![t] = "pending"] /\ exec' = exec /\ Caller[s] = Owner[t]
        BY <2>1 DEF CreateTask, OwnsTask
      <3>2. task \in [Tasks -> Board!RowStates]
        BY DEF Inv, TypeOK, Board!TypeOK
      <3>3. \A u \in Tasks : task'[u] # task[u] => u = t
        BY <3>1, <3>2
      <3> QED BY <2>1, <3>1, <3>3, Zenon DEF RowsChangeWithOwner
    <2>2. CASE Request(s) /\ ~\E t \in Tasks : CreateTask(s, t)
      <3>1. UNCHANGED <<task, exec>>
        BY <2>2, Zenon
           DEF Request, RequestOnTask, RequestCreate, RequestCancel, RequestPut, RequestSet, Receive
      <3> QED BY <3>1 DEF RowsChangeWithOwner
    <2>3. CASE Statement(s)
      BY <2>3, WritesOfOwner DEF RowsChangeWithOwner
    <2>4. CASE Fail(s) \/ DeadlockVictim(s)
      BY <2>4 DEF Fail, DeadlockVictim, RowsChangeWithOwner
    <2> QED BY <2>1, <2>2, <2>3, <2>4
  <1>3. OnlyOwnersChangeRows <=> [][RowsChangeWithOwner]_vars
    BY DEF OnlyOwnersChangeRows, RowsChangeWithOwner
  <1> QED BY <1>1, <1>2, <1>3, OwnerStep, Invariance, PTL DEF Spec

-----------------------------------------------------------------------------
(* Refinement. *)

\* The status predicates of TaskBoard.
LEMMA BoardPredicates ==
  \A status : /\ Board!IsTerminal(status) <=> IsTerminal(status)
              /\ Board!IsActive(status) <=> IsActive(status)
  BY DEF Board!IsTerminal, IsTerminal, Board!IsActive, IsActive

\* A step of a statement that writes is the board's step of the same name.
LEMMA CreateTaskOnBoard ==
  ASSUME NEW s \in Sessions, NEW t \in Tasks, CreateTask(s, t)
  PROVE  Board!Next
  BY DEF CreateTask, Board!Next, Board!CreateTask

LEMMA EditTaskOnBoard ==
  ASSUME Inv, NEW s \in Sessions, EditTask(s)
  PROVE  Board!Next
  <1>1. sess[s] \in Requests /\ RequestShape(sess[s]) /\ sess[s].pc = "editTask"
    BY SessionFacts DEF EditTask
  <1>2. sess[s].task \in Tasks /\ sess[s].seen \in Board!Statuses \ {"running"}
    BY <1>1, BoardStatuses DEF RequestShape
  <1>3. Board!EditTask(sess[s].task)
    BY <1>2, BoardStatuses DEF EditTask, Board!EditTask
  <1> QED BY <1>2, <1>3 DEF Board!Next

LEMMA PatchExecutionOnBoard ==
  ASSUME Inv, NEW s \in Sessions, PatchExecution(s)
  PROVE  Board!Next
  <1>1. sess[s] \in Requests /\ RequestShape(sess[s]) /\ sess[s].pc = "patch"
    BY SessionFacts DEF PatchExecution
  <1>2. sess[s].exec \in Executions /\ IsActive(sess[s].want) /\ sess[s].want \in Board!Statuses
    BY <1>1, BoardStatuses DEF RequestShape, IsActive, Statuses
  <1>3. Board!Patch(sess[s].exec, sess[s].want)
    BY <1>2, BoardStatuses, BoardPredicates DEF PatchExecution, Board!Patch
  <1> QED BY <1>2, <1>3 DEF Board!Next

LEMMA FinishDeleteOnBoard ==
  ASSUME Inv, NEW s \in Sessions, FinishDelete(s)
  PROVE  Board!Next
  <1> DEFINE t == sess[s].task
  <1>1. /\ sess[s] \in Requests /\ RequestShape(sess[s]) /\ sess[s].pc = "cascade"
        /\ DeleterHolds(s) /\ task[t] \in Statuses
    BY SessionFacts DEF FinishDelete, Inv, LocksByStatement, CascadeFindsItsTask
  <1>2. t \in Tasks
    BY <1>1 DEF RequestShape
  <1>3. \A e \in Executions :
          <<"delete", e>> \in held[s] <=> TaskOf[e] = t /\ exec[e] \in Statuses
    BY <1>1 DEF FinishDelete, DeleterHolds, ExecutionsToCascade, Modes
  <1>4. Board!DeleteTask(t)
    BY <1>1, <1>3, BoardStatuses DEF FinishDelete, Board!DeleteTask
  <1> QED BY <1>2, <1>4 DEF Board!Next

LEMMA CommitOnBoard ==
  ASSUME Inv, NEW s \in Sessions, Commit(s)
  PROVE  Board!Next
  <1> DEFINE e == sess[s].exec
             r == sess[s]
  <1>1. /\ r \in Requests /\ RequestShape(r) /\ r.pc = "commit"
        /\ exec' = [exec EXCEPT ![e] = r.want]
        /\ task' = [task EXCEPT ![r.task] = r.goal]
    BY SessionFacts DEF Commit
  <1>2. /\ r.op \in ServiceOps /\ e \in Executions /\ r.task = TaskOf[e]
        /\ r.want \in Statuses /\ r.goal \in Statuses /\ task[r.task] \in Statuses
        /\ exec[e] \in Statuses \/ (r.op = "execCreate" /\ exec[e] = "absent")
    BY <1>1, CommitFacts
  <1>3. CASE r.op = "execCreate"
    <2>1. exec[e] = "absent" /\ r.want = "pending" /\ r.goal = "running"
      BY <1>1, <1>3 DEF RequestShape, Inv, FreshExecutions
    <2>2. Board!Start(e)
      BY <1>1, <1>2, <2>1, BoardStatuses DEF Board!Start
    <2> QED BY <1>2, <2>2 DEF Board!Next
  <1>4. CASE r.op = "execCancel"
    <2>1. r.want = "cancelled" /\ r.goal = "pending" /\ exec[e] \in Statuses
      BY <1>1, <1>2, <1>4 DEF RequestShape
    <2>2. Board!Cancel(e)
      BY <1>1, <1>2, <2>1, BoardStatuses DEF Board!Cancel, Board!WritePair
    <2> QED BY <1>2, <2>2 DEF Board!Next
  <1>5. CASE r.op = "execComplete"
    <2>1. IsTerminal(r.want) /\ r.goal = r.want /\ exec[e] \in Statuses
      BY <1>1, <1>2, <1>5 DEF RequestShape
    <2>2. Board!Finish(e, r.want)
      BY <1>1, <1>2, <2>1, BoardStatuses, BoardPredicates DEF Board!Finish, Board!WritePair
    <2>3. r.want \in Board!Statuses
      BY <1>2, BoardStatuses
    <2> QED BY <1>2, <2>2, <2>3 DEF Board!Next
  <1>6. CASE r.op = "execSet"
    <2>1. "execSet" \in Ops /\ exec[e] \in Statuses
      BY <1>1, <1>2, <1>6 DEF RequestShape
    <2>2. Board!WritePair(e, r.want, r.goal)
      BY <1>1, <1>2, <2>1, BoardStatuses DEF Board!WritePair
    <2>3. Board!SetBoth(e)
      BY <1>2, <2>1, <2>2, BoardStatuses DEF Board!SetBoth
    <2> QED BY <1>2, <2>3 DEF Board!Next
  <1> QED BY <1>2, <1>3, <1>4, <1>5, <1>6 DEF ServiceOps

LEMMA StepOnBoard == Inv /\ [Next]_vars => [Board!Next]_Board!vars
  <1> SUFFICES ASSUME Inv, [Next]_vars PROVE Board!Next \/ UNCHANGED <<task, exec>>
    BY DEF Board!vars
  <1>1. CASE UNCHANGED vars
    BY <1>1 DEF vars
  <1>2. CASE Next
    <2> PICK s \in Sessions : Request(s) \/ Statement(s) \/ Fail(s) \/ DeadlockVictim(s)
      BY <1>2 DEF Next
    <2>1. CASE Request(s)
      <3>1. CASE \E t \in Tasks : CreateTask(s, t)
        BY <3>1, CreateTaskOnBoard
      <3>2. CASE ~\E t \in Tasks : CreateTask(s, t)
        <4>1. UNCHANGED <<task, exec>>
          BY <2>1, <3>2, Zenon
             DEF Request, RequestOnTask, RequestCreate, RequestCancel, RequestPut,
                 RequestSet, Receive
        <4> QED BY <4>1, Zenon
      <3> QED BY <3>1, <3>2, Zenon
    <2>2. CASE EditTask(s) \/ PatchExecution(s) \/ FinishDelete(s) \/ Commit(s)
      BY <2>2, EditTaskOnBoard, PatchExecutionOnBoard, FinishDeleteOnBoard, CommitOnBoard
    <2>3. CASE FetchExecution(s) \/ Authorize(s) \/ ReadExecution(s) \/ ReadTask(s)
               \/ MissingExecution(s) \/ MissingTask(s) \/ RowGone(s)
      <3>1. FetchExecution(s) \/ ReadExecution(s) => UNCHANGED <<task, exec>>
        BY DEF FetchExecution, ReadExecution
      <3>2. Authorize(s) \/ ReadTask(s) => UNCHANGED <<task, exec>>
        BY DEF Authorize, ReadTask
      <3>3. MissingExecution(s) \/ MissingTask(s) \/ RowGone(s) => UNCHANGED <<task, exec>>
        BY DEF MissingExecution, MissingTask, RowGone
      <3> QED BY <2>3, <3>1, <3>2, <3>3
    <2>4. CASE DeleteTaskRow(s) \/ (\E e \in Executions : CascadeToExecution(s, e))
               \/ InsertExecution(s) \/ WriteExecution(s) \/ WriteTask(s)
      <3>1. DeleteTaskRow(s) \/ (\E e \in Executions : CascadeToExecution(s, e))
              => UNCHANGED <<task, exec>>
        BY Zenon DEF DeleteTaskRow, CascadeToExecution
      <3>2. InsertExecution(s) \/ WriteExecution(s) \/ WriteTask(s) => UNCHANGED <<task, exec>>
        BY DEF InsertExecution, WriteExecution, WriteTask
      <3> QED BY <2>4, <3>1, <3>2
    <2>5. CASE Fail(s) \/ DeadlockVictim(s)
      <3>1. UNCHANGED <<task, exec>>
        BY <2>5 DEF Fail, DeadlockVictim
      <3> QED BY <3>1
    <2> QED BY <2>1, <2>2, <2>3, <2>4, <2>5 DEF Statement
  <1> QED BY <1>1, <1>2

\* The statements, locks, failures and aborted transactions of any number of
\* sessions amount to atomic steps of TaskBoard.
THEOREM Implementation == Spec => ImplementsBoard
  <1>1. Init => Board!Init
    BY DEF Init, Board!Init
  <1> QED BY <1>1, Invariance, StepOnBoard, PTL DEF Spec, ImplementsBoard, Board!Spec

BoardProofs == INSTANCE TaskBoard_proofs WITH DirectUpdate <- "execSet" \in Ops

\* As long as nothing calls UpdateExecutionAndTaskStatus, no interleaving leaves
\* a task in running without an execution that a Cancel or a PUT can still end.
THEOREM RunningHasActive ==
  ASSUME "execSet" \notin Ops
  PROVE  Spec => []RunningHasActiveExecution
  <1>1. Init => Board!Init
    BY DEF Init, Board!Init
  <1>2. Board!Init => RunningHasActiveExecution
    BY DEF Board!Init, RunningHasActiveExecution, Board!RunningHasActiveExecution
  <1>3. Inv /\ [Next]_vars => BoardProofs!TypeOK /\ [BoardProofs!Next]_(BoardProofs!vars)
    <2>1. Inv => BoardProofs!TypeOK
      BY Zenon DEF Inv, TypeOK, Board!TypeOK, BoardProofs!TypeOK, Board!RowStates, Board!Statuses,
             BoardProofs!RowStates, BoardProofs!Statuses
    <2>2. Board!Next => BoardProofs!Next
      BY Zenon DEF Board!Next, Board!Statuses, Board!CreateTask, Board!EditTask,
             Board!DeleteTask, Board!Start, Board!WritePair, Board!Cancel, Board!Finish,
             Board!Patch, Board!SetBoth, Board!IsTerminal, Board!IsActive,
             BoardProofs!Next, BoardProofs!Statuses, BoardProofs!CreateTask,
             BoardProofs!EditTask, BoardProofs!DeleteTask, BoardProofs!Start,
             BoardProofs!WritePair, BoardProofs!Cancel, BoardProofs!Finish,
             BoardProofs!Patch, BoardProofs!SetBoth, BoardProofs!IsTerminal,
             BoardProofs!IsActive
    <2> QED BY <2>1, <2>2, StepOnBoard DEF Board!vars, BoardProofs!vars
  <1>4. /\ BoardProofs!TypeOK /\ BoardProofs!RunningHasActiveExecution
        /\ [BoardProofs!Next]_(BoardProofs!vars)
        => BoardProofs!RunningHasActiveExecution'
    BY BoardProofs!RunningHasActiveStep, RequestAssumption DEF Statuses, BoardProofs!Statuses
  <1>5. RunningHasActiveExecution <=> BoardProofs!RunningHasActiveExecution
    BY DEF RunningHasActiveExecution, Board!RunningHasActiveExecution,
           BoardProofs!RunningHasActiveExecution, Board!IsActive, BoardProofs!IsActive,
           Board!ExecutionsOf, BoardProofs!ExecutionsOf
  <1> QED BY <1>1, <1>2, <1>3, <1>4, <1>5, Invariance, PTL DEF Spec

-----------------------------------------------------------------------------
(* Users who send one request at a time. *)

Writing == {"insertExec", "writeExec", "writeTask", "commit"}

\* What request r of session s has read and checked, and what is still so.
StillSo(s, r) ==
  LET own == OwnsTask(s, TaskOf[r.exec]) IN
  /\ r.pc = "editTask" => task[r.task] = r.seen
  /\ r.pc \in {"deleteTask", "cascade"} => CanUpdateOrDelete(task[r.task])
  /\ r.pc \in Writing =>
       /\ r.op = "execCreate" => CanExecute(task[r.task])
       /\ r.op = "execCancel" => CanCancel(r.seen)
       /\ r.op = "execComplete" => CanComplete(r.seen)
  /\ r.op \in {"execCancel", "execComplete"} /\ r.pc \in {"readTask"} \cup Writing /\ own =>
       exec[r.exec] = r.seen
  /\ r.pc = "fetch" => r.want \in Reported \cup {Keep}
  /\ (r.pc \in {"authorize", "patch"} \/ r.op = "execComplete") /\ own =>
       r.want \in Reported \cup {exec[r.exec]}

AllStillSo == \A s \in Sessions : Alone(s) => StillSo(s, sess[s])

\* A step of one session leaves the rows of other users alone, and the requests of
\* other sessions.
LEMMA RowsOfOthersStay ==
  ASSUME Inv, OwnerChecked,
         NEW z \in Sessions, Request(z) \/ Statement(z) \/ Fail(z) \/ DeadlockVictim(z)
  PROVE  /\ \A t \in Tasks : Owner[t] # Caller[z] => task'[t] = task[t]
         /\ \A e \in Executions : Owner[TaskOf[e]] # Caller[z] => exec'[e] = exec[e]
  <1>0. task \in [Tasks -> RowStates]
    BY SessionFacts
  <1>1. CASE \E t \in Tasks : CreateTask(z, t)
    BY <1>0, <1>1 DEF CreateTask, OwnsTask
  <1>2. CASE Request(z) /\ ~\E t \in Tasks : CreateTask(z, t)
    <2>1. UNCHANGED <<task, exec>>
      BY <1>2, Zenon
         DEF Request, RequestOnTask, RequestCreate, RequestCancel, RequestPut, RequestSet, Receive
    <2> QED BY <2>1
  <1>3. CASE Statement(z)
    BY <1>3, WritesOfOwner
  <1>4. CASE Fail(z) \/ DeadlockVictim(z)
    BY <1>4 DEF Fail, DeadlockVictim
  <1> QED BY <1>1, <1>2, <1>3, <1>4

LEMMA OtherRequestsStay ==
  ASSUME Inv, NEW z \in Sessions, Request(z) \/ Statement(z) \/ Fail(z) \/ DeadlockVictim(z),
         NEW s \in Sessions, s # z
  PROVE  sess'[s] = sess[s]
  <1>0. sess \in [Sessions -> Requests]
    BY DEF Inv, TypeOK
  <1>1. (\E r : sess' = [sess EXCEPT ![z] = r]) \/ sess' = sess
    <2>1. CASE FetchExecution(z) \/ Authorize(z) \/ ReadExecution(z) \/ ReadTask(z)
      BY <2>1, Zenon DEF FetchExecution, Authorize, ReadExecution, ReadTask, Goto, Answer
    <2>2. CASE MissingExecution(z) \/ MissingTask(z) \/ RowGone(z) \/ EditTask(z)
               \/ PatchExecution(z) \/ FinishDelete(z) \/ Commit(z)
      BY <2>2, Zenon DEF MissingExecution, MissingTask, RowGone, EditTask, PatchExecution,
                         FinishDelete, Commit, WriteDone, Answer
    <2>3. CASE DeleteTaskRow(z) \/ InsertExecution(z) \/ WriteExecution(z) \/ WriteTask(z)
      BY <2>3, Zenon DEF DeleteTaskRow, InsertExecution, WriteExecution, WriteTask, Goto
    <2>4. CASE \E e \in Executions : CascadeToExecution(z, e)
      BY <2>4 DEF CascadeToExecution
    <2>5. CASE Fail(z) \/ DeadlockVictim(z) \/ \E t \in Tasks : CreateTask(z, t)
      BY <2>5, Zenon DEF Fail, DeadlockVictim, CreateTask, WriteDone, Answer
    <2>6. CASE Request(z) /\ ~\E t \in Tasks : CreateTask(z, t)
      <3>1. \E r : Receive(z, r)
        BY <2>6, Zenon DEF Request, RequestOnTask, RequestCreate, RequestCancel, RequestPut, RequestSet
      <3> QED BY <3>1, Zenon DEF Receive
    <2> QED BY <2>1, <2>2, <2>3, <2>4, <2>5, <2>6, Zenon DEF Statement
  <1> QED BY <1>0, <1>1

LEMMA OthersStillSo ==
  ASSUME Inv, OwnerChecked, AllStillSo,
         NEW z \in Sessions, Request(z) \/ Statement(z) \/ Fail(z) \/ DeadlockVictim(z),
         NEW s \in Sessions, Alone(s), s # z
  PROVE  StillSo(s, sess[s])'
  <1> DEFINE r == sess[s]
  <1>1. r \in Requests /\ RequestShape(r) /\ StillSo(s, r)
    BY SessionFacts DEF AllStillSo
  <1>2. /\ sess'[s] = r
        /\ \A t \in Tasks : OwnsTask(s, t) => task'[t] = task[t]
        /\ \A e \in Executions : OwnsTask(s, TaskOf[e]) => exec'[e] = exec[e]
    <2>1. Caller[s] # Caller[z]
      BY DEF Alone
    <2> QED BY <2>1, RowsOfOthersStay, OtherRequestsStay DEF OwnsTask
  <1>3. r.pc \in Trusted => OwnsTask(s, r.task)
    BY DEF OwnerChecked
  <1> HIDE DEF r
  <1>4. r.pc \in {"editTask", "deleteTask", "cascade"} \cup Writing => task'[r.task] = task[r.task]
    <2>1. r.pc \in {"editTask", "deleteTask", "cascade"} \cup Writing => r.task \in Tasks
      BY <1>1, RowsOfRequest DEF RequestShape, Writing
    <2> QED BY <1>2, <1>3, <2>1 DEF Trusted, Writing
  <1>5. /\ r.pc \in {"authorize", "patch"} \/ r.op \in {"execCancel", "execComplete"}
        /\ OwnsTask(s, TaskOf[r.exec])
        => exec'[r.exec] = exec[r.exec]
    <2>1. r.pc \in {"authorize", "patch"} \/ r.op \in {"execCancel", "execComplete"} =>
            r.exec \in Executions
      BY <1>1 DEF RequestShape, ServiceOps
    <2> QED BY <1>2, <2>1
  <1> QED BY <1>1, <1>2, <1>4, <1>5 DEF StillSo, OwnsTask

\* A session's own step.
LEMMA AnswerStillSo ==
  ASSUME Inv, NEW s \in Sessions, NEW reply \in Replies, Answer(s, reply)
  PROVE  StillSo(s, sess[s])'
  <1> DEFINE r == [Idle EXCEPT !.reply = reply]
  <1>1. r.pc = "idle" /\ r.op = "none"
    BY IdleType
  <1>2. sess' = [sess EXCEPT ![s] = r] /\ sess \in [Sessions -> Requests]
    BY DEF Answer, Inv, TypeOK
  <1> HIDE DEF r
  <1>3. sess'[s] = r
    BY <1>2
  <1> QED BY <1>1, <1>3 DEF StillSo, Writing

LEMMA MoveStillSo ==
  ASSUME Inv, NEW s \in Sessions, NEW r, sess' = [sess EXCEPT ![s] = r],
         UNCHANGED <<task, exec>>, StillSo(s, r)
  PROVE  StillSo(s, sess[s])'
  <1>1. sess'[s] = r
    BY DEF Inv, TypeOK
  <1> QED BY <1>1 DEF StillSo, OwnsTask

LEMMA ReceiveStillSo ==
  ASSUME Inv, NEW s \in Sessions, NEW r, Receive(s, r),
         \/ r.pc = "readTask" /\ r.op \in {"taskUpdate", "taskDelete", "execCreate"}
         \/ r.pc = "readExec" /\ r.op \in {"execCancel", "execSet"}
         \/ r.pc = "fetch" /\ r.op = "execPut" /\ r.want \in Reported \cup {Keep}
  PROVE  StillSo(s, sess[s])'
  <1>1. StillSo(s, r)
    BY DEF StillSo, Writing
  <1> QED BY <1>1, MoveStillSo DEF Receive

LEMMA RequestStillSo ==
  ASSUME Inv, NEW s \in Sessions, Request(s)
  PROVE  StillSo(s, sess[s])'
  <1>1. CASE \E t \in Tasks : CreateTask(s, t)
    BY <1>1, AnswerStillSo DEF CreateTask, WriteDone, Replies
  <1>2. ASSUME NEW op \in {"taskUpdate", "taskDelete"}, NEW t \in Tasks, RequestOnTask(s, op, t)
        PROVE  StillSo(s, sess[s])'
    <2> DEFINE r == [Idle EXCEPT !.op = op, !.pc = "readTask", !.task = t]
    <2>1. Receive(s, r) /\ r.pc = "readTask" /\ r.op = op
      BY <1>2 DEF RequestOnTask, Idle
    <2> HIDE DEF r
    <2> QED BY <2>1, ReceiveStillSo
  <1>3. ASSUME NEW e \in Executions, RequestCreate(s, e)
        PROVE  StillSo(s, sess[s])'
    <2> DEFINE r == [Idle EXCEPT !.op = "execCreate", !.pc = "readTask", !.task = TaskOf[e],
                                 !.exec = e, !.want = "pending", !.goal = "running"]
    <2>1. Receive(s, r) /\ r.pc = "readTask" /\ r.op = "execCreate"
      BY <1>3 DEF RequestCreate, Idle
    <2> HIDE DEF r
    <2> QED BY <2>1, ReceiveStillSo
  <1>4. ASSUME NEW e \in Executions, RequestCancel(s, e)
        PROVE  StillSo(s, sess[s])'
    <2> DEFINE r == [Idle EXCEPT !.op = "execCancel", !.pc = "readExec", !.exec = e,
                                 !.want = "cancelled", !.goal = "pending"]
    <2>1. Receive(s, r) /\ r.pc = "readExec" /\ r.op = "execCancel"
      BY <1>4 DEF RequestCancel, Idle
    <2> HIDE DEF r
    <2> QED BY <2>1, ReceiveStillSo
  <1>5. ASSUME NEW e \in Executions, NEW status \in Reported \cup {Keep}, RequestPut(s, e, status)
        PROVE  StillSo(s, sess[s])'
    <2> DEFINE r == [Idle EXCEPT !.op = "execPut", !.pc = "fetch", !.exec = e, !.want = status]
    <2>1. Receive(s, r) /\ r.pc = "fetch" /\ r.op = "execPut" /\ r.want = status
      BY <1>5 DEF RequestPut, Idle
    <2> HIDE DEF r
    <2> QED BY <2>1, ReceiveStillSo
  <1>6. ASSUME NEW e \in Executions, NEW t \in Tasks, NEW es \in Reported, NEW ts \in Reported,
               RequestSet(s, e, t, es, ts)
        PROVE  StillSo(s, sess[s])'
    <2> DEFINE r == [Idle EXCEPT !.op = "execSet", !.pc = "readExec", !.exec = e, !.task = t,
                                 !.want = es, !.goal = ts]
    <2>1. Receive(s, r) /\ r.pc = "readExec" /\ r.op = "execSet"
      BY <1>6 DEF RequestSet, Idle
    <2> HIDE DEF r
    <2> QED BY <2>1, ReceiveStillSo
  <1> QED BY <1>1, <1>2, <1>3, <1>4, <1>5, <1>6 DEF Request

LEMMA FetchExecutionStillSo ==
  ASSUME Inv, NEW s \in Sessions, StillSo(s, sess[s]), FetchExecution(s)
  PROVE  StillSo(s, sess[s])'
  <1> DEFINE old  == sess[s]
             copy == IF old.want = Keep THEN exec[old.exec] ELSE old.want
             done == [old EXCEPT !.op = "execComplete", !.pc = "readExec", !.want = copy, !.goal = copy]
             live == [old EXCEPT !.pc = "authorize", !.want = copy, !.task = TaskOf[old.exec]]
  <1>1. /\ old \in Requests /\ RequestShape(old) /\ StillSo(s, old) /\ old.pc = "fetch"
        /\ sess' = [sess EXCEPT ![s] = IF IsTerminal(copy) THEN done ELSE live]
        /\ UNCHANGED <<task, exec>>
    BY SessionFacts DEF FetchExecution
  <1>2. copy \in Reported \cup {exec[old.exec]}
    BY <1>1 DEF StillSo
  <1>3. /\ done.op = "execComplete" /\ done.pc = "readExec" /\ done.want = copy /\ done.exec = old.exec
        /\ live.op = "execPut" /\ live.pc = "authorize" /\ live.want = copy /\ live.exec = old.exec
    BY <1>1 DEF Requests, RequestShape
  <1> HIDE DEF copy, done, live
  <1>4. StillSo(s, done) /\ StillSo(s, live)
    BY <1>2, <1>3 DEF StillSo, Writing
  <1> QED BY <1>1, <1>4, MoveStillSo

LEMMA AuthorizeStillSo ==
  ASSUME Inv, NEW s \in Sessions, StillSo(s, sess[s]), Authorize(s)
  PROVE  StillSo(s, sess[s])'
  <1> DEFINE old == sess[s]
             r   == [old EXCEPT !.pc = "patch"]
  <1>1. old \in Requests /\ RequestShape(old) /\ StillSo(s, old) /\ old.pc = "authorize"
    BY SessionFacts DEF Authorize
  <1>2. CASE ~OwnsTask(s, old.task)
    BY <1>2, AnswerStillSo DEF Authorize, Replies
  <1>3. CASE OwnsTask(s, old.task)
    <2>1. sess' = [sess EXCEPT ![s] = r] /\ UNCHANGED <<task, exec>>
      BY <1>1, <1>3 DEF Authorize, Goto, Requests
    <2>2. r.op = "execPut" /\ r.pc = "patch" /\ r.want = old.want /\ r.exec = old.exec
      BY <1>1 DEF Requests, RequestShape
    <2> HIDE DEF r
    <2>3. StillSo(s, r)
      BY <1>1, <2>2 DEF StillSo, Writing
    <2> QED BY <2>1, <2>3, MoveStillSo
  <1> QED BY <1>2, <1>3

LEMMA ReadExecutionStillSo ==
  ASSUME Inv, NEW s \in Sessions, StillSo(s, sess[s]), ReadExecution(s)
  PROVE  StillSo(s, sess[s])'
  <1> DEFINE old == sess[s]
             r   == [old EXCEPT !.pc = After(old.op, "readExec"), !.seen = exec[old.exec],
                                !.task = IF old.op = "execSet" THEN @ ELSE TaskOf[old.exec]]
  <1>1. /\ old \in Requests /\ RequestShape(old) /\ StillSo(s, old) /\ old.pc = "readExec"
        /\ sess' = [sess EXCEPT ![s] = r] /\ UNCHANGED <<task, exec>>
    BY SessionFacts DEF ReadExecution
  <1>2. After(old.op, "readExec") = "readTask"
    BY DEF After
  <1>3. /\ r.op = old.op /\ r.pc = "readTask" /\ r.want = old.want /\ r.exec = old.exec
        /\ r.seen = exec[old.exec]
    BY <1>1, <1>2 DEF Requests
  <1> HIDE DEF r
  <1>4. StillSo(s, r)
    BY <1>1, <1>3 DEF StillSo, Writing
  <1> QED BY <1>1, <1>4, MoveStillSo

LEMMA ReadTaskStillSo ==
  ASSUME Inv, OwnerChecked, NEW s \in Sessions, StillSo(s, sess[s]), ReadTask(s)
  PROVE  StillSo(s, sess[s])'
  <1> DEFINE old == sess[s]
             t   == TaskRead(s)
             pc  == After(old.op, "readTask")
             r   == [old EXCEPT !.pc = pc, !.seen = IF old.op = "taskUpdate" THEN task[t] ELSE @]
  <1>1. /\ old \in Requests /\ RequestShape(old) /\ StillSo(s, old) /\ old.pc = "readTask"
        /\ UNCHANGED <<task, exec>>
    BY SessionFacts DEF ReadTask
  <1>2. CASE ~OwnsTask(s, t) \/ ~Admits(s, task[t])
    BY <1>2, AnswerStillSo DEF ReadTask, Replies
  <1>3. CASE OwnsTask(s, t) /\ Admits(s, task[t])
    <2>1. sess' = [sess EXCEPT ![s] = r]
      BY <1>3 DEF ReadTask
    <2>2. /\ r.op = old.op /\ r.pc = pc /\ r.want = old.want /\ r.exec = old.exec /\ r.task = old.task
          /\ r.seen = IF old.op = "taskUpdate" THEN task[t] ELSE old.seen
      BY <1>1 DEF Requests
    <2>3. old.op \in {"taskUpdate", "taskDelete"} \cup ServiceOps
      BY <1>1 DEF RequestShape, Requests, ServiceOps, TaskOps, ExecutionOps
    <2>4. pc = CASE old.op = "taskUpdate" -> "editTask"
                 [] old.op = "taskDelete" -> "deleteTask"
                 [] old.op = "execCreate" -> "insertExec"
                 [] OTHER -> "writeExec"
      BY DEF After
    <2>5. /\ old.op \in {"taskUpdate", "taskDelete"} => t = old.task
          /\ old.op = "execCreate" => t = old.task
      BY <1>1 DEF RequestShape, TaskRead, ServiceOps
    <2>6. /\ old.op = "taskDelete" => CanUpdateOrDelete(task[t])
          /\ old.op = "execCreate" => CanExecute(task[t])
          /\ old.op = "execCancel" => CanCancel(old.seen)
          /\ old.op = "execComplete" => CanComplete(old.seen)
      BY <1>3 DEF Admits
    <2> HIDE DEF r, pc, t, old
    <2>7. StillSo(s, r)
      <3>1. pc \in {"editTask", "deleteTask", "insertExec", "writeExec"}
        BY <2>4
      <3>2. pc = "editTask" <=> old.op = "taskUpdate"
        BY <2>4
      <3>3. pc = "deleteTask" <=> old.op = "taskDelete"
        BY <2>4
      <3> QED BY <1>1, <2>2, <2>5, <2>6, <3>1, <3>2, <3>3 DEF StillSo, Writing
    <2> QED BY <1>1, <2>1, <2>7, MoveStillSo DEF old
  <1> QED BY <1>2, <1>3

\* A request that goes on to a statement which relies on nothing new.
LEMMA GotoStillSo ==
  ASSUME Inv, NEW s \in Sessions, StillSo(s, sess[s]), NEW pc, Goto(s, pc), UNCHANGED <<task, exec>>,
         \/ sess[s].pc = "deleteTask" /\ pc = "cascade"
         \/ sess[s].pc \in Writing /\ pc \in {"writeTask", "commit"}
  PROVE  StillSo(s, sess[s])'
  <1> DEFINE old == sess[s]
             r   == [old EXCEPT !.pc = pc]
  <1>1. old \in Requests /\ RequestShape(old) /\ StillSo(s, old)
    BY SessionFacts
  <1>2. sess' = [sess EXCEPT ![s] = r]
    BY <1>1 DEF Goto, Requests
  <1>3. /\ r.op = old.op /\ r.pc = pc /\ r.want = old.want /\ r.exec = old.exec /\ r.task = old.task
        /\ r.seen = old.seen
    BY <1>1 DEF Requests
  <1> HIDE DEF r
  <1>4. old.pc = "deleteTask" => old.op = "taskDelete"
    BY <1>1 DEF RequestShape
  <1>5. StillSo(s, r)
    BY <1>1, <1>3, <1>4 DEF StillSo, Writing
  <1> QED BY <1>2, <1>5, MoveStillSo

LEMMA StatementStillSo ==
  ASSUME Inv, OwnerChecked, NEW s \in Sessions, StillSo(s, sess[s]), Statement(s)
  PROVE  StillSo(s, sess[s])'
  <1>1. CASE FetchExecution(s) \/ Authorize(s) \/ ReadExecution(s) \/ ReadTask(s)
    BY <1>1, FetchExecutionStillSo, AuthorizeStillSo, ReadExecutionStillSo, ReadTaskStillSo
  <1>2. CASE MissingExecution(s) \/ MissingTask(s) \/ RowGone(s)
    BY <1>2, AnswerStillSo DEF MissingExecution, MissingTask, RowGone, Replies
  <1>3. CASE EditTask(s) \/ PatchExecution(s) \/ FinishDelete(s)
    BY <1>3, AnswerStillSo DEF EditTask, PatchExecution, FinishDelete, WriteDone, Replies
  <1>4. CASE Commit(s)
    BY <1>4, AnswerStillSo DEF Commit, WriteDone, Replies
  <1>5. CASE DeleteTaskRow(s)
    BY <1>5, GotoStillSo DEF DeleteTaskRow
  <1>6. CASE InsertExecution(s) \/ WriteExecution(s) \/ WriteTask(s)
    <2>1. PICK pc \in {"writeTask", "commit"} : Goto(s, pc)
      BY <1>6 DEF InsertExecution, WriteExecution, WriteTask, After
    <2>2. sess[s].pc \in Writing /\ UNCHANGED <<task, exec>>
      BY <1>6 DEF InsertExecution, WriteExecution, WriteTask, Writing
    <2> QED BY <2>1, <2>2, GotoStillSo
  <1>7. CASE \E e \in Executions : CascadeToExecution(s, e)
    <2>1. UNCHANGED <<task, exec, sess>> /\ StillSo(s, sess[s])
      BY <1>7 DEF CascadeToExecution
    <2> QED BY <2>1 DEF StillSo, OwnsTask
  <1> QED BY <1>1, <1>2, <1>3, <1>4, <1>5, <1>6, <1>7 DEF Statement

LEMMA StillSoStep == Inv /\ OwnerChecked /\ AllStillSo /\ [Next]_vars => AllStillSo'
  <1> SUFFICES ASSUME Inv, OwnerChecked, AllStillSo, [Next]_vars PROVE AllStillSo'
    OBVIOUS
  <1>1. CASE UNCHANGED vars
    BY <1>1 DEF vars, AllStillSo, StillSo, OwnsTask, Alone
  <1>2. CASE Next
    <2> PICK z \in Sessions : Request(z) \/ Statement(z) \/ Fail(z) \/ DeadlockVictim(z)
      BY <1>2 DEF Next
    <2>1. \A s \in Sessions \ {z} : Alone(s) => StillSo(s, sess[s])'
      BY OthersStillSo
    <2>2. ASSUME Fail(z) \/ DeadlockVictim(z) PROVE StillSo(z, sess[z])'
      BY <2>2, AnswerStillSo DEF Fail, DeadlockVictim, Replies
    <2>3. ASSUME Alone(z) PROVE StillSo(z, sess[z])'
      <3>1. StillSo(z, sess[z])
        BY <2>3 DEF AllStillSo
      <3> QED BY <2>2, <3>1, RequestStillSo, StatementStillSo
    <2> QED BY <2>1, <2>3 DEF AllStillSo, Alone
  <1> QED BY <1>1, <1>2

LEMMA InitStillSo == Init => OwnerChecked /\ AllStillSo
  BY DEF Init, OwnerChecked, AllStillSo, StillSo, Idle, Trusted, Writing

\* What the users' own order of requests preserves, as an invariant.
LEMMA StillSoInvariance == Spec => [](Inv /\ OwnerChecked /\ AllStillSo)
  BY InitStillSo, OwnerStep, StillSoStep, Invariance, PTL DEF Spec

\* A request of a handler: nothing calls UpdateExecutionAndTaskStatus.
LEMMA HandlerRequest ==
  ASSUME "execSet" \notin Ops, Inv, NEW s \in Sessions
  PROVE  sess[s].op # "execSet"
  BY SessionFacts DEF RequestShape

\* When a writing request has passed the ownership check, its execution is as read.
LEMMA WriterStillSo ==
  ASSUME Inv, OwnerChecked,
         NEW s \in Sessions, StillSo(s, sess[s]), sess[s].pc \in Writing
  PROVE  /\ sess[s].op \in ServiceOps
         /\ sess[s].op = "execCreate" => CanExecute(task[sess[s].task])
         /\ sess[s].op = "execCancel" => CanCancel(exec[sess[s].exec])
         /\ sess[s].op = "execComplete" =>
              /\ CanComplete(exec[sess[s].exec])
              /\ sess[s].want \in Reported \cup {exec[sess[s].exec]}
  <1> DEFINE r == sess[s]
  <1>1. r \in Requests /\ RequestShape(r) /\ StillSo(s, r)
    BY SessionFacts
  <1>2. r.op \in ServiceOps /\ r.task = TaskOf[r.exec]
    BY <1>1, RowsOfRequest DEF Writing
  <1>3. OwnsTask(s, TaskOf[r.exec])
    BY <1>2 DEF OwnerChecked, Trusted, Writing
  <1> HIDE DEF r
  <1>4. r.pc \in Writing
    BY DEF r
  <1>5. /\ r.op = "execCreate" => CanExecute(task[r.task])
        /\ r.op \in {"execCancel", "execComplete"} => exec[r.exec] = r.seen
        /\ r.op = "execCancel" => CanCancel(r.seen)
        /\ r.op = "execComplete" => CanComplete(r.seen) /\ r.want \in Reported \cup {exec[r.exec]}
    BY <1>1, <1>2, <1>3, <1>4 DEF StillSo, ServiceOps
  <1> QED BY <1>2, <1>5 DEF r

\* No interleaving with other users, no failure and no lost acknowledgement makes a
\* check stale before the write that relies on it, for a user who sends one request
\* at a time.
THEOREM ChecksLast == Spec => []ChecksStillHold
  <1>1. Inv /\ OwnerChecked /\ AllStillSo => ChecksStillHold
    <2> SUFFICES ASSUME Inv, OwnerChecked, AllStillSo, NEW s \in Sessions, Alone(s)
                 PROVE  /\ sess[s].pc = "editTask" => task[sess[s].task] = sess[s].seen
                        /\ sess[s].pc \in {"deleteTask", "cascade"} => CanUpdateOrDelete(task[sess[s].task])
                        /\ sess[s].pc \in Writing =>
                             /\ sess[s].op = "execCreate"   => CanExecute(task[sess[s].task])
                             /\ sess[s].op = "execCancel"   => CanCancel(exec[sess[s].exec])
                             /\ sess[s].op = "execComplete" => CanComplete(exec[sess[s].exec])
      BY DEF ChecksStillHold, Writing
    <2>1. StillSo(s, sess[s])
      BY DEF AllStillSo
    <2> QED BY <2>1, WriterStillSo DEF StillSo
  <1> QED BY <1>1, StillSoInvariance, PTL

-----------------------------------------------------------------------------
(* The requests of such a user are steps of SerialSpec. *)

LEMMA CreateTaskOnSerialBoard ==
  ASSUME NEW s \in Sessions, NEW t \in Tasks, CreateTask(s, t)
  PROVE  Board!SerialNext
  BY DEF CreateTask, Board!SerialNext, Board!CreateTask

\* The full-row UPDATE of a task writes the status that is there.
LEMMA EditTaskChangesNothing ==
  ASSUME Inv, NEW s \in Sessions, StillSo(s, sess[s]), EditTask(s)
  PROVE  UNCHANGED <<task, exec>>
  <1>1. task[sess[s].task] = sess[s].seen /\ task \in [Tasks -> RowStates]
    BY SessionFacts DEF StillSo, EditTask
  <1> QED BY <1>1 DEF EditTask

LEMMA PatchOnSerialBoard ==
  ASSUME Inv, OwnerChecked, NEW s \in Sessions, StillSo(s, sess[s]), PatchExecution(s)
  PROVE  Board!SerialNext
  <1> DEFINE r == sess[s]
             e == r.exec
  <1>1. r \in Requests /\ RequestShape(r) /\ r.pc = "patch" /\ StillSo(s, r)
    BY SessionFacts DEF PatchExecution
  <1>2. e \in Executions /\ IsActive(r.want) /\ r.task = TaskOf[e]
    BY <1>1 DEF RequestShape
  <1>3. OwnsTask(s, TaskOf[e])
    BY <1>1, <1>2 DEF OwnerChecked, Trusted
  <1>4. r.want \in Reported \cup {exec[e]}
    BY <1>1, <1>3 DEF StillSo
  <1>5. Board!Patch(e, r.want)
    BY <1>2, BoardStatuses, BoardPredicates DEF PatchExecution, Board!Patch
  <1> QED BY <1>2, <1>4, <1>5 DEF Board!SerialNext, Board!SerialReport

LEMMA FinishDeleteOnSerialBoard ==
  ASSUME Inv, NEW s \in Sessions, StillSo(s, sess[s]), FinishDelete(s)
  PROVE  Board!SerialNext
  <1> DEFINE t == sess[s].task
  <1>1. /\ sess[s] \in Requests /\ RequestShape(sess[s]) /\ sess[s].pc = "cascade"
        /\ DeleterHolds(s) /\ task[t] \in Statuses /\ StillSo(s, sess[s])
    BY SessionFacts DEF FinishDelete, Inv, LocksByStatement, CascadeFindsItsTask
  <1>2. t \in Tasks /\ task[t] # "running"
    BY <1>1 DEF RequestShape, StillSo, CanUpdateOrDelete
  <1>3. \A e \in Executions :
          <<"delete", e>> \in held[s] <=> TaskOf[e] = t /\ exec[e] \in Statuses
    BY <1>1 DEF FinishDelete, DeleterHolds, ExecutionsToCascade, Modes
  <1>4. Board!DeleteTask(t)
    BY <1>1, <1>3, BoardStatuses DEF FinishDelete, Board!DeleteTask
  <1> QED BY <1>2, <1>4 DEF Board!SerialNext, Board!SerialDelete

LEMMA CommitOnSerialBoard ==
  ASSUME "execSet" \notin Ops, Inv, OwnerChecked,
         NEW s \in Sessions, StillSo(s, sess[s]), Commit(s)
  PROVE  Board!SerialNext
  <1> DEFINE e == sess[s].exec
             r == sess[s]
  <1>1. /\ r \in Requests /\ RequestShape(r) /\ r.pc = "commit"
        /\ exec' = [exec EXCEPT ![e] = r.want]
        /\ task' = [task EXCEPT ![r.task] = r.goal]
    BY SessionFacts DEF Commit
  <1>2. /\ e \in Executions /\ r.task = TaskOf[e] /\ task[r.task] \in Statuses
        /\ exec[e] \in Statuses \/ (r.op = "execCreate" /\ exec[e] = "absent")
    BY <1>1, CommitFacts
  <1>3. /\ r.op \in {"execCreate", "execCancel", "execComplete"}
        /\ r.op = "execCreate" => CanExecute(task[r.task])
        /\ r.op = "execCancel" => CanCancel(exec[e])
        /\ r.op = "execComplete" => CanComplete(exec[e]) /\ r.want \in Reported \cup {exec[e]}
    BY <1>1, WriterStillSo, HandlerRequest DEF Writing, ServiceOps
  <1>4. CASE r.op = "execCreate"
    <2>1. exec[e] = "absent" /\ r.want = "pending" /\ r.goal = "running"
      BY <1>1, <1>4 DEF RequestShape, Inv, FreshExecutions
    <2>2. Board!Start(e)
      BY <1>1, <1>2, <2>1, BoardStatuses DEF Board!Start
    <2>3. task[TaskOf[e]] \in Board!Startable
      BY <1>2, <1>3, <1>4 DEF CanExecute, Statuses, Board!Startable
    <2> QED BY <1>2, <2>2, <2>3 DEF Board!SerialNext, Board!SerialStart
  <1>5. CASE r.op = "execCancel"
    <2>1. r.want = "cancelled" /\ r.goal = "pending" /\ exec[e] \in Statuses
      BY <1>1, <1>2, <1>5 DEF RequestShape
    <2>2. Board!Cancel(e)
      BY <1>1, <1>2, <2>1, BoardStatuses DEF Board!Cancel, Board!WritePair
    <2>3. exec[e] \in Board!Cancellable
      BY <1>3, <1>5, <2>1 DEF CanCancel, Statuses, Board!Cancellable
    <2> QED BY <1>2, <2>2, <2>3 DEF Board!SerialNext, Board!SerialCancel
  <1>6. CASE r.op = "execComplete"
    <2>1. IsTerminal(r.want) /\ r.goal = r.want /\ exec[e] \in Statuses
      BY <1>1, <1>2, <1>6 DEF RequestShape
    <2>2. Board!Finish(e, r.want)
      BY <1>1, <1>2, <2>1, BoardStatuses, BoardPredicates DEF Board!Finish, Board!WritePair
    <2>3. exec[e] \in Board!Completable
      BY <1>3, <1>6, <2>1 DEF CanComplete, Statuses, Board!Completable
    <2> QED BY <1>2, <1>3, <1>6, <2>2, <2>3 DEF Board!SerialNext, Board!SerialReport
  <1> QED BY <1>3, <1>4, <1>5, <1>6

\* A step of such a user's session, whatever other users do.
LEMMA OwnStepOnSerialBoard ==
  ASSUME "execSet" \notin Ops, Inv, OwnerChecked, NEW s \in Sessions, StillSo(s, sess[s]),
         Request(s) \/ Statement(s) \/ Fail(s) \/ DeadlockVictim(s)
  PROVE  Board!SerialNext \/ UNCHANGED <<task, exec>>
  <1>1. CASE \E t \in Tasks : CreateTask(s, t)
    BY <1>1, CreateTaskOnSerialBoard
  <1>2. CASE Request(s) /\ ~\E t \in Tasks : CreateTask(s, t)
    <2>1. UNCHANGED <<task, exec>>
      BY <1>2, Zenon
         DEF Request, RequestOnTask, RequestCreate, RequestCancel, RequestPut, RequestSet, Receive
    <2> QED BY <2>1, Zenon
  <1>3. CASE EditTask(s) \/ PatchExecution(s) \/ FinishDelete(s) \/ Commit(s)
    BY <1>3, EditTaskChangesNothing, PatchOnSerialBoard, FinishDeleteOnSerialBoard, CommitOnSerialBoard
  <1>4. CASE FetchExecution(s) \/ Authorize(s) \/ ReadExecution(s) \/ ReadTask(s)
             \/ MissingExecution(s) \/ MissingTask(s) \/ RowGone(s)
    <2>1. FetchExecution(s) \/ ReadExecution(s) => UNCHANGED <<task, exec>>
      BY DEF FetchExecution, ReadExecution
    <2>2. Authorize(s) \/ ReadTask(s) => UNCHANGED <<task, exec>>
      BY DEF Authorize, ReadTask
    <2>3. MissingExecution(s) \/ MissingTask(s) \/ RowGone(s) => UNCHANGED <<task, exec>>
      BY DEF MissingExecution, MissingTask, RowGone
    <2> QED BY <1>4, <2>1, <2>2, <2>3
  <1>5. CASE DeleteTaskRow(s) \/ (\E e \in Executions : CascadeToExecution(s, e))
             \/ InsertExecution(s) \/ WriteExecution(s) \/ WriteTask(s)
    <2>1. DeleteTaskRow(s) \/ (\E e \in Executions : CascadeToExecution(s, e))
            => UNCHANGED <<task, exec>>
      BY Zenon DEF DeleteTaskRow, CascadeToExecution
    <2>2. InsertExecution(s) \/ WriteExecution(s) \/ WriteTask(s) => UNCHANGED <<task, exec>>
      BY DEF InsertExecution, WriteExecution, WriteTask
    <2> QED BY <1>5, <2>1, <2>2
  <1>6. CASE Fail(s) \/ DeadlockVictim(s)
    <2>1. UNCHANGED <<task, exec>>
      BY <1>6 DEF Fail, DeadlockVictim
    <2> QED BY <2>1
  <1> QED BY <1>1, <1>2, <1>3, <1>4, <1>5, <1>6 DEF Statement

OneAtATime == \A s \in Sessions : Alone(s)

LEMMA SerialStepOnBoard ==
  ASSUME OneAtATime, "execSet" \notin Ops
  PROVE  Inv /\ OwnerChecked /\ AllStillSo /\ [Next]_vars => [Board!SerialNext]_Board!vars
  <1> SUFFICES ASSUME Inv, OwnerChecked, AllStillSo, [Next]_vars
               PROVE  Board!SerialNext \/ UNCHANGED <<task, exec>>
    BY DEF Board!vars
  <1>1. CASE UNCHANGED vars
    BY <1>1 DEF vars
  <1>2. CASE Next
    <2> PICK s \in Sessions : Request(s) \/ Statement(s) \/ Fail(s) \/ DeadlockVictim(s)
      BY <1>2 DEF Next
    <2>1. StillSo(s, sess[s])
      BY DEF AllStillSo, OneAtATime
    <2> QED BY <2>1, OwnStepOnSerialBoard
  <1> QED BY <1>1, <1>2

\* If each user sends one request at a time and nothing calls
\* UpdateExecutionAndTaskStatus, each request is one atomic step that keeps the
\* checks it promises, whatever other users send meanwhile.
THEOREM SerialImplementation ==
  ASSUME OneAtATime, "execSet" \notin Ops
  PROVE  Spec => ImplementsSerialBoard
  <1>1. Init => Board!Init
    BY DEF Init, Board!Init
  <1>2. Inv /\ OwnerChecked /\ AllStillSo /\ [Next]_vars => [Board!SerialNext]_Board!vars
    BY SerialStepOnBoard
  <1> QED BY <1>1, <1>2, StillSoInvariance, PTL DEF Spec, ImplementsSerialBoard, Board!SerialSpec

-----------------------------------------------------------------------------
(* The tasks of such a user. *)

\* At most one session speaks for the owner of t.
OneClient(t) ==
  \A s, z \in Sessions : Caller[s] = Owner[t] /\ Caller[z] = Owner[t] => s = z

LEMMA SettledStaysForOthers ==
  ASSUME NEW t \in Tasks, BoardProofs!Settled(t), task'[t] = task[t],
         \A e \in Executions : TaskOf[e] = t => exec'[e] = exec[e]
  PROVE  BoardProofs!Settled(t)'
  BY DEF BoardProofs!Settled, BoardProofs!ExecutionsOf, BoardProofs!IsActive

LEMMA SerialBoards == Board!SerialNext => BoardProofs!SerialNext
  BY Zenon DEF Board!SerialNext, Board!Statuses, Board!CreateTask, Board!DeleteTask, Board!SerialDelete,
         Board!Start, Board!SerialStart, Board!WritePair, Board!Cancel, Board!SerialCancel,
         Board!Finish, Board!Patch, Board!SerialReport, Board!IsTerminal, Board!IsActive,
         Board!Startable, Board!Cancellable, Board!Completable,
         BoardProofs!SerialNext, BoardProofs!Statuses, BoardProofs!CreateTask,
         BoardProofs!DeleteTask, BoardProofs!SerialDelete,
         BoardProofs!Start, BoardProofs!SerialStart, BoardProofs!WritePair, BoardProofs!Cancel,
         BoardProofs!SerialCancel, BoardProofs!Finish, BoardProofs!Patch,
         BoardProofs!SerialReport, BoardProofs!IsTerminal, BoardProofs!IsActive,
         BoardProofs!Startable, BoardProofs!Cancellable, BoardProofs!Completable

\* TaskBoard's late writes, and its settled tasks, mean the same there and here.
LEMMA SettledOnBoards ==
  /\ \A t : Board!Settled(t) <=> BoardProofs!Settled(t)
  /\ \A t : Board!ExecutionsOf(t) = BoardProofs!ExecutionsOf(t)
  BY DEF Board!Settled, BoardProofs!Settled, Board!ExecutionsOf, BoardProofs!ExecutionsOf,
         Board!IsActive, BoardProofs!IsActive

LEMMA LateWritesOnBoards ==
  \A e : BoardProofs!LateWrite(e) => Board!LateWrite(e)
  BY Zenon DEF Board!LateWrite, Board!Patch, Board!Cancel, Board!Finish, Board!WritePair,
         Board!IsTerminal, Board!IsActive, Board!Statuses,
         BoardProofs!LateWrite, BoardProofs!Patch, BoardProofs!Cancel, BoardProofs!Finish,
         BoardProofs!WritePair, BoardProofs!IsTerminal, BoardProofs!IsActive,
         BoardProofs!Statuses

LEMMA OneClientStep ==
  ASSUME "execSet" \notin Ops, Inv, OwnerChecked, AllStillSo, [Next]_vars,
         NEW t \in Tasks, OneClient(t), Board!Settled(t)
  PROVE  Board!Settled(t)' \/ \E e \in Board!ExecutionsOf(t) : Board!LateWrite(e)
  <1> SUFFICES ASSUME \A e \in BoardProofs!ExecutionsOf(t) : ~BoardProofs!LateWrite(e)
               PROVE  BoardProofs!Settled(t)'
    <2>1. Board!Settled(t)' <=> BoardProofs!Settled(t)'
      BY DEF Board!Settled, BoardProofs!Settled, Board!ExecutionsOf, BoardProofs!ExecutionsOf,
             Board!IsActive, BoardProofs!IsActive
    <2> QED BY <2>1, SettledOnBoards, LateWritesOnBoards
  <1>1. BoardProofs!Settled(t)
    BY SettledOnBoards
  <1>2. CASE UNCHANGED <<task, exec>>
    BY <1>1, <1>2, SettledStaysForOthers
  <1>3. CASE Next
    <2> PICK z \in Sessions : Request(z) \/ Statement(z) \/ Fail(z) \/ DeadlockVictim(z)
      BY <1>3 DEF Next
    <2>1. CASE Caller[z] # Owner[t]
      BY <1>1, <2>1, RowsOfOthersStay, SettledStaysForOthers
    <2>2. CASE Caller[z] = Owner[t]
      <3>1. StillSo(z, sess[z])
        BY <2>2 DEF AllStillSo, Alone, OneClient
      <3>2. Board!SerialNext \/ UNCHANGED <<task, exec>>
        BY <3>1, OwnStepOnSerialBoard
      <3>3. BoardProofs!TypeOK
        BY DEF Inv, TypeOK, Board!TypeOK, BoardProofs!TypeOK, Board!RowStates,
               Board!Statuses, BoardProofs!RowStates, BoardProofs!Statuses
      <3>4. ASSUME Board!SerialNext PROVE BoardProofs!Settled(t)'
        <4>1. [BoardProofs!SerialNext]_(BoardProofs!vars)
          BY <3>4, SerialBoards
        <4> QED BY <1>1, <3>3, <4>1, BoardProofs!SettledStep, RequestAssumption
                DEF Statuses, BoardProofs!Statuses
      <3> QED BY <1>2, <3>2, <3>4
    <2> QED BY <2>1, <2>2
  <1> QED BY <1>2, <1>3 DEF vars

\* TaskBoard's OnlyLateWritesUnsettle, of the tasks of such users.
OnlyLateWritesUnsettleWhereOneClient ==
  [][\A t \in Tasks : OneClient(t) /\ Board!Settled(t) =>
       Board!Settled(t)' \/ \E e \in Board!ExecutionsOf(t) : Board!LateWrite(e)]_vars

\* If nothing calls UpdateExecutionAndTaskStatus, a task whose owner sends one request
\* at a time is running exactly while its only unfinished execution is, whatever
\* statuses are reported and however the requests of other users, two of one user's
\* at a time included, interleave; until its owner writes to an execution that is
\* over.
THEOREM OneActivePerTask ==
  ASSUME "execSet" \notin Ops
  PROVE  Spec => OnlyLateWritesUnsettleWhereOneClient
  <1>1. Inv /\ OwnerChecked /\ AllStillSo /\ [Next]_vars =>
          [\A t \in Tasks : OneClient(t) /\ Board!Settled(t) =>
             Board!Settled(t)' \/ \E e \in Board!ExecutionsOf(t) : Board!LateWrite(e)]_vars
    BY OneClientStep
  <1> QED BY <1>1, StillSoInvariance, PTL DEF Spec, OnlyLateWritesUnsettleWhereOneClient

=============================================================================
