------------------------------- MODULE Listings -------------------------------
(***************************************************************************)
(* One client reading a listing of tasks or of executions page by page     *)
(* while the rows change.                                                  *)
(*                                                                         *)
(* By offset, every request runs two statements that share no transaction: *)
(* one for the page, one for the total.  By cursor, the repository binds   *)
(* the last row of a page into the WHERE clause of the next one.           *)
(*                                                                         *)
(* A listing is a set of rows and an order on them.  NOW() may give two    *)
(* rows the same created_at, and the listings by offset do not order such  *)
(* rows any further: each statement may then return them either way round. *)
(***************************************************************************)
EXTENDS Integers, Sequences, FiniteSets

CONSTANTS
  Tasks, Executions,  \* UUIDs of rows, minted or still to be minted
  ParentOf,           \* the immutable user_id of a task, task_id of an execution
  Caller,             \* the user whose requests are modelled
  Statuses, Priorities,
  DefaultLimit,       \* 20, the limit of a request that names none
  MaxLimit,           \* 100, the largest limit
  RepositoryLimit,    \* 10, what the repositories put for a limit below 1
  Limits,             \* the limits that are asked for
  Fields, Directions, \* the sort fields and directions that are asked for
  MaxChanges,         \* bound: writes in one behaviour
  Faults,             \* whether statements fail
  None, Junk          \* a parameter left out, a parameter that does not parse

Rows == Tasks \cup Executions

ASSUME RowsAssumption ==  \* There are finitely many UUIDs.
  /\ Tasks \cap Executions = {}
  /\ IsFiniteSet(Rows)
ASSUME StatusAssumption == Statuses # {}
ASSUME ParentAssumption == \A e \in Executions : ParentOf[e] \in Tasks
ASSUME LimitAssumption ==
  /\ {DefaultLimit, MaxLimit, RepositoryLimit, MaxChanges} \subseteq Nat \ {0}
  /\ Limits \subseteq Int
  /\ DefaultLimit <= MaxLimit
ASSUME SortAssumption ==
  /\ Fields \subseteq {"created_at", "priority", "updated_at", "name", Junk}
  /\ Directions \subseteq {"asc", "desc"}
  /\ Priorities \subseteq Nat
ASSUME FaultsAssumption == Faults \in BOOLEAN

VARIABLES
  row,      \* the rows of both tables
  changes,  \* how many writes there have been, and the time of the last one
  walk,     \* the request the client is at
  seen      \* what the client has been shown, and what has changed meanwhile

vars == <<row, changes, walk, seen>>

Unborn == [state |-> "absent", status |-> None, priority |-> 0, created |-> 0]

Away == [pc |-> "idle", list |-> None, ask |-> None, offset |-> 0, page |-> {}, cursor |-> None]

\* shown: how often each row was on a page.  steady: the rows that were listed
\* when the walk began and that have kept their place in the order since.
Nothing == [shown |-> [r \in Rows |-> 0], steady |-> {}, arrivals |-> 0, departures |-> 0]

Init ==
  /\ row = [r \in Rows |-> Unborn]
  /\ changes = 0
  /\ walk = Away
  /\ seen = Nothing

-----------------------------------------------------------------------------
(* The listings, named after the methods of the repositories. *)

GetByUserID(user) ==
  [table |-> Tasks, by |-> "parent", of |-> user, first |-> "priority", order |-> "desc"]
GetByStatus(status) ==
  [table |-> Tasks, by |-> "status", of |-> status, first |-> "priority", order |-> "desc"]
List == [table |-> Tasks, by |-> "all", of |-> None, first |-> "priority", order |-> "desc"]

\* Two listings that also return the executions of each task, left out here: the
\* GROUP BY of the one and the LIMIT 1 of the other keep one line per task.
GetTasksWithExecutionCount(user) == GetByUserID(user)
GetTasksWithLatestExecution(user) == GetByUserID(user)

GetByTaskID(task) ==
  [table |-> Executions, by |-> "parent", of |-> task, first |-> "created_at", order |-> "desc"]
GetExecutionsByStatus(status) ==
  [table |-> Executions, by |-> "status", of |-> status, first |-> "created_at", order |-> "desc"]
ListExecutions ==
  [table |-> Executions, by |-> "all", of |-> None, first |-> "created_at", order |-> "desc"]

Routes == {GetByUserID(Caller)} \cup {GetByTaskID(t) : t \in Tasks}

Calls ==
  {List, ListExecutions,
   GetTasksWithExecutionCount(Caller), GetTasksWithLatestExecution(Caller)}
  \cup {GetByStatus(status) : status \in Statuses}
  \cup {GetExecutionsByStatus(status) : status \in Statuses}

Selects(l, r) ==
  CASE l.by = "parent" -> ParentOf[r] = l.of
    [] l.by = "status" -> row[r].status = l.of
    [] l.by = "all"    -> TRUE

Listed(l) == {r \in l.table : row[r].state = "present" /\ Selects(l, r)}

\* Count, CountByUserID, CountByStatus and CountByTaskID.
Total(l) == Cardinality(Listed(l))

\* Mutant: no ORDER BY.
PrecedesNothing(l, r, s) == FALSE

\* ORDER BY.  How rows compare by name or updated_at is not modelled: for these
\* fields any order is possible.  Between equal rows the cursor methods compare
\* the ids, which are random, and the others nothing.
Precedes(l, r, s) ==
  LET Sooner(a, b) == IF l.order = "asc" THEN a < b ELSE a > b
      older == Sooner(row[r].created, row[s].created)
  IN \/ l.first = "created_at" /\ older
     \/ /\ l.first = "priority"
        /\ \/ Sooner(row[r].priority, row[s].priority)
           \/ row[r].priority = row[s].priority /\ older

\* The sets that may be the first n of these rows.
Leading(l, rows, n) ==
  {P \in SUBSET rows :
     /\ Cardinality(P) = IF n < Cardinality(rows) THEN n ELSE Cardinality(rows)
     /\ \A r \in P, s \in rows \ P : ~Precedes(l, s, r)}

\* Mutant: the offset counts from one.
PagesFromOne(l, limit, offset) ==
  UNION {Leading(l, Listed(l) \ skipped, limit) : skipped \in Leading(l, Listed(l), offset + 1)}

\* LIMIT and OFFSET: the pages that one statement may return.
Pages(l, limit, offset) ==
  UNION {Leading(l, Listed(l) \ skipped, limit) : skipped \in Leading(l, Listed(l), offset)}

-----------------------------------------------------------------------------
(* The writes of other requests. *)

Key(r) == <<row[r].priority, row[r].created>>

\* The rows that leave the listing of the walk and those that enter it.  A row
\* that moves within the order does both.
Watch ==
  LET l == walk.list
      moved == {r \in Listed(l) \cap Listed(l)' : Key(r)' # Key(r)}
      gone == (Listed(l) \ Listed(l)') \cup moved
      new == (Listed(l)' \ Listed(l)) \cup moved
  IN seen' = IF l = None THEN seen
             ELSE [seen EXCEPT !.steady = @ \ gone,
                               !.arrivals = @ + Cardinality(new),
                               !.departures = @ + Cardinality(gone)]

Write(new) ==
  /\ changes < MaxChanges
  /\ changes' = changes + 1
  /\ row' = new
  /\ UNCHANGED walk
  /\ Watch

\* INSERT: created_at is NOW(), which may not have moved since the last write.
Create(r, priority) ==
  /\ row[r].state = "absent"
  /\ r \in Executions => row[ParentOf[r]].state = "present" /\ priority = 0
  /\ \E now \in {changes, changes + 1} :
       Write([row EXCEPT ![r] = [state |-> "present", status |-> CHOOSE status \in Statuses : TRUE,
                                 priority |-> priority, created |-> now]])

\* PUT /tasks/{id} may change the priority.
SetPriority(t, priority) ==
  /\ row[t].state = "present" /\ row[t].priority # priority
  /\ Write([row EXCEPT ![t].priority = priority])

SetStatus(r, status) ==
  /\ row[r].state = "present" /\ row[r].status # status
  /\ Write([row EXCEPT ![r].status = status])

\* The executions of a task are deleted with it.
Delete(t) ==
  /\ row[t].state = "present"
  /\ Write([r \in Rows |->
       IF row[r].state = "present" /\ (r = t \/ (r \in Executions /\ ParentOf[r] = t))
         THEN [row[r] EXCEPT !.state = "deleted"] ELSE row[r]])

-----------------------------------------------------------------------------
(* By offset. *)

\* parsePagination, and for repository calls their own corrections.  The result
\* is empty for a request that is answered with a 400.
ParsePagination(ask, offset) ==
  {q \in {[limit |-> IF ask = None THEN DefaultLimit ELSE ask, offset |-> offset]} :
     q.limit \in 1..MaxLimit}

Bounds(ask, offset) ==
  {[limit |-> IF ask < 1 THEN RepositoryLimit ELSE ask, offset |-> offset]}

Query ==
  IF walk.list \in Routes THEN ParsePagination(walk.ask, walk.offset)
                          ELSE Bounds(walk.ask, walk.offset)

\* The listing of a task's executions begins by reading the task.
FirstStatement(l) == IF l \in Routes /\ l.table = Executions THEN "owner" ELSE "page"

StartWalk(l, ask) ==
  /\ walk.pc = "idle"
  /\ walk' = [Away EXCEPT !.pc = FirstStatement(l), !.list = l, !.ask = ask]
  /\ seen' = [Nothing EXCEPT !.steady = Listed(l)]
  /\ UNCHANGED <<row, changes>>

\* 404 for a task that is gone, 403 for somebody else's.
CheckOwner ==
  LET t == walk.list.of IN
  /\ walk.pc = "owner"
  /\ walk' = [walk EXCEPT !.pc =
       IF row[t].state = "present" /\ ParentOf[t] = Caller THEN "page" ELSE "refused"]
  /\ UNCHANGED <<row, changes, seen>>

RejectQuery ==
  /\ walk.pc = "page" /\ Query = {}
  /\ walk' = [walk EXCEPT !.pc = "refused"]
  /\ UNCHANGED <<row, changes, seen>>

FetchPage ==
  /\ walk.pc = "page"
  /\ \E q \in Query : \E page \in Pages(walk.list, q.limit, q.offset) :
       walk' = [walk EXCEPT !.pc = "count", !.page = page]
  /\ UNCHANGED <<row, changes, seen>>

Show(page) == seen' = [seen EXCEPT !.shown = [r \in Rows |-> IF r \in page THEN @[r] + 1 ELSE @[r]]]

\* The reply carries the page and the total.  The client asks for the next page
\* until the total says there is none.
CountTotal ==
  /\ walk.pc = "count"
  /\ \E q \in Query :
       walk' = [walk EXCEPT !.offset = @ + q.limit, !.page = {},
                            !.pc = IF q.offset + q.limit >= Total(walk.list)
                                     THEN "done" ELSE FirstStatement(walk.list)]
  /\ Show(walk.page)
  /\ UNCHANGED <<row, changes>>

\* A statement fails, the request is answered with a 500 and sent again.
Fail ==
  /\ Faults
  /\ walk.pc \in {"owner", "page", "count"}
  /\ walk' = [walk EXCEPT !.pc = FirstStatement(walk.list), !.page = {}]
  /\ UNCHANGED <<row, changes, seen>>

-----------------------------------------------------------------------------
(* By cursor. *)

\* Mutant: any sort field is passed on.
ValidateLimitOnly(ask, field) ==
  [limit |-> CASE ask < 1 -> DefaultLimit [] ask > MaxLimit -> MaxLimit [] OTHER -> ask,
   first |-> field]

\* Corrections instead of errors.
ValidatePaginationRequest(ask, field) ==
  [limit |-> CASE ask < 1 -> DefaultLimit [] ask > MaxLimit -> MaxLimit [] OTHER -> ask,
   first |-> IF field = Junk THEN "created_at" ELSE field]

\* The cursor methods sort the same rows by a field of the caller's choice.
GetByUserIDCursor(user, field, order) == [GetByUserID(user) EXCEPT !.first = field, !.order = order]
GetByStatusCursor(status, field, order) ==
  [GetByStatus(status) EXCEPT !.first = field, !.order = order]
ListCursor(field, order) == [List EXCEPT !.first = field, !.order = order]

\* Executions are always sorted by created_at.
GetByTaskIDCursor(task, order) == [GetByTaskID(task) EXCEPT !.order = order]
GetExecutionsByStatusCursor(status, order) == [GetExecutionsByStatus(status) EXCEPT !.order = order]
ListExecutionsCursor(order) == [ListExecutions EXCEPT !.order = order]

CursorCalls(field, order) ==
  {GetByUserIDCursor(Caller, field, order), ListCursor(field, order), ListExecutionsCursor(order)}
  \cup {GetByStatusCursor(status, field, order) : status \in Statuses}
  \cup {GetExecutionsByStatusCursor(status, order) : status \in Statuses}
  \cup {GetByTaskIDCursor(t, order) : t \in Tasks}

CursorOf(r) == [id |-> r, created |-> row[r].created, priority |-> row[r].priority]
Cursors == [id : Rows, created : Nat, priority : Priorities \cup {0}]

\* buildCursorCondition and its counterpart for executions: the types of the
\* bound arguments, and the placeholders that the text of the condition names,
\* numbered from the first free one.
BuildCursorCondition(l, first) ==
  IF l.first = "priority"
    THEN [args |-> <<"int", "int", "time", "int", "time", "uuid">>,
          uses |-> {<<first, "int">>, <<first + 1, "time">>, <<first + 2, "uuid">>}]
    ELSE [args |-> <<"time", "time", "uuid">>,
          uses |-> {<<first, "time">>, <<first + 1, "uuid">>}]

\* The filter, the condition of the cursor and the LIMIT make the statement.
BuildCursorWhere(l, cursor) ==
  LET filter == IF l.by = "all" THEN <<>> ELSE <<"filter">>
      n == Len(filter)
      where == BuildCursorCondition(l, n + 1)
      args == IF cursor = None THEN filter ELSE filter \o where.args
      uses == {<<i, filter[i]>> : i \in 1..n} \cup (IF cursor = None THEN {} ELSE where.uses)
  IN [args |-> Append(args, "limit"), uses |-> uses \cup {<<Len(args) + 1, "limit">>}]

\* PostgreSQL prepares a statement only when it can tell the type of each of its
\* parameters, and pgx binds an argument only to a parameter of its type.
Prepared(statement) ==
  \A i \in 1..Len(statement.args) : <<i, statement.args[i]>> \in statement.uses

\* The rows behind the cursor.  By name, created_at is compared instead; by
\* updated_at, the row's updated_at with the cursor's created_at.  As long as no
\* statement with a cursor is Prepared, only the first case is ever reached.
Behind(l, cursor) ==
  LET Later(a, b) == IF l.order = "asc" THEN a > b ELSE a < b
      Older(r) == Later(row[r].created, cursor.created)
  IN IF cursor = None THEN {Listed(l)}
     ELSE CASE l.first = "priority" ->
                 {{r \in Listed(l) \ {cursor.id} :
                     \/ Later(row[r].priority, cursor.priority)
                     \/ row[r].priority = cursor.priority /\ Older(r)}}
            [] l.first = "updated_at" -> SUBSET Listed(l)
            [] OTHER -> {{r \in Listed(l) \ {cursor.id} : Older(r)}}

\* The API takes this path only when the request brings a cursor.
StartCursor(l, ask, cursor) ==
  /\ walk.pc = "idle"
  /\ walk' = [Away EXCEPT !.pc = "cursor", !.list = l, !.ask = ask, !.cursor = cursor]
  /\ seen' = [Nothing EXCEPT !.steady = Listed(l)]
  /\ UNCHANGED <<row, changes>>

\* One statement fetches a row more than asked for, to tell whether there is
\* more; the last row that is kept makes the next cursor.
FetchCursorPage ==
  LET l == walk.list
      limit == ValidatePaginationRequest(walk.ask, l.first).limit
  IN
  /\ walk.pc = "cursor" /\ walk.cursor # Junk
  /\ Prepared(BuildCursorWhere(l, walk.cursor))
  /\ \E rows \in Behind(l, walk.cursor) : \E page \in Leading(l, rows, limit) :
       LET hasMore == Cardinality(rows) > limit IN
       /\ Show(page)
       /\ \/ ~hasMore /\ walk' = [walk EXCEPT !.pc = "done"]
          \/ hasMore /\ \E last \in page :
               /\ \A r \in page : ~Precedes(l, last, r)
               /\ walk' = [walk EXCEPT !.cursor = CursorOf(last)]
  /\ UNCHANGED <<row, changes>>

\* "invalid cursor", or the error of PostgreSQL.
RefuseCursor ==
  /\ walk.pc = "cursor"
  /\ walk.cursor = Junk \/ ~Prepared(BuildCursorWhere(walk.list, walk.cursor))
  /\ walk' = [walk EXCEPT !.pc = "refused"]
  /\ UNCHANGED <<row, changes, seen>>

-----------------------------------------------------------------------------

Leave ==
  /\ walk.pc \in {"done", "refused"}
  /\ walk' = Away
  /\ seen' = Nothing
  /\ UNCHANGED <<row, changes>>

Change ==
  \/ \E r \in Rows, priority \in Priorities \cup {0} : Create(r, priority)
  \/ \E t \in Tasks, priority \in Priorities : SetPriority(t, priority)
  \/ \E r \in Rows, status \in Statuses : SetStatus(r, status)
  \/ \E t \in Tasks : Delete(t)

Start ==
  \/ \E l \in Routes, ask \in Limits \cup {None, Junk} : StartWalk(l, ask)
  \/ \E l \in Calls, ask \in Limits : StartWalk(l, ask)
  \/ \E field \in Fields, order \in Directions, ask \in Limits, cursor \in {None, Junk} :
       \E l \in CursorCalls(ValidatePaginationRequest(ask, field).first, order) :
         StartCursor(l, ask, cursor)

Next ==
  \/ Change \/ Start
  \/ CheckOwner \/ RejectQuery \/ FetchPage \/ CountTotal \/ Fail
  \/ FetchCursorPage \/ RefuseCursor
  \/ Leave

Spec == Init /\ [][Next]_vars

-----------------------------------------------------------------------------
(* Properties. *)

Listings == Routes \cup Calls \cup
  UNION {CursorCalls(field, order) :
           field \in {"created_at", "priority", "updated_at", "name"}, order \in {"asc", "desc"}}

ASSUME NoneAssumption == None \notin Listings \cup Cursors

TypeOK ==
  /\ row \in [Rows -> [state : {"absent", "present", "deleted"},
                      status : Statuses \cup {None},
                      priority : Priorities \cup {0},
                      created : 0..(MaxChanges + 1)]]
  /\ changes \in 0..MaxChanges
  /\ walk \in [pc : {"idle", "owner", "page", "count", "cursor", "done", "refused"},
               list : Listings \cup {None},
               ask : Limits \cup {None, Junk},
               offset : Nat,
               page : SUBSET Rows,
               cursor : Cursors \cup {None, Junk}]
  /\ seen \in [shown : [Rows -> Nat], steady : SUBSET Rows, arrivals : Nat, departures : Nat]

\* Rows that compare equal to another row may be returned in either order.
Untied(r) ==
  \A s \in Rows \ {r} : row[s].state # "absent" => row[s].created # row[r].created

\* The rows that a reader can be expected to see exactly once.
Lasting == {r \in seen.steady : Untied(r)}

Missed == {r \in Lasting : seen.shown[r] = 0}

\* The second and later times that a row was on a page.
Repeats(rows) == UNION {{r} \X (2..seen.shown[r]) : r \in rows}

\* A client that has read a listing to its end has seen every row that was
\* there all along, except for at most one for each row that left the listing
\* or moved within it meanwhile: the page and the total come from two
\* statements and the offset counts rows that may be gone, but nothing is lost
\* while nothing leaves.
SkipsNeedDepartures == walk.pc = "done" => Cardinality(Missed) <= seen.departures

\* And it has seen such a row twice at most once for each row that entered the
\* listing or moved within it.
RepeatsNeedArrivals == Cardinality(Repeats(Lasting)) <= seen.arrivals

\* "PostgreSQL with optimized schema and cursor pagination" (README.md) and
\* "Cursor-based pagination (optimized)" (interfaces.go): a cursor that came
\* with a page gets the next page.
NextPageIsServed == walk.cursor \in Cursors => walk.pc # "refused"

=============================================================================
