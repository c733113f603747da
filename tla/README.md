# Verification of voidrunner

VoidRunner is an HTTP service on PostgreSQL that stores users' scripts as
*tasks*, creates *executions* of them, and has an executor that runs each
execution in a Docker container. These modules model the parts of it where
several actors meet: requests racing on the same rows, clients paging through them,
containers and the passes that clean them up, the start of the process over the
files of earlier ones, the rate limiter, and accounts with their tokens.
TLC checks them on small instances; TLAPS proves the central invariants and
refinements for instances of every size.

## The system

| Component (source) | State | Operations | Where it is hard | What makes it correct |
| --- | --- | --- | --- | --- |
| Execution service (`internal/services/task_execution_service.go`) | none of its own; rows of `tasks`, `task_executions` | Create, Cancel, Complete, UpdateExecutionAndTaskStatus, each one READ COMMITTED transaction | reads without locks, then writes; two rows per transaction; lost commit replies | both rows change together; no task stays running with nothing to release it; lock order |
| Task and execution handlers (`internal/api/handlers/task.go`, `task_execution.go`) | request-local copies of rows | POST, PUT, DELETE | single statements outside any transaction, racing those of the service | owner checks; existence; deletion leaves nothing behind |
| Repositories, schema (`internal/database`, `migrations`) | the tables | SQL statements | cascade locks in the opposite order of the service | foreign key; row locks |
| Task executor service (`task_executor_service.go`) | a goroutine per execution | ExecuteTask, executeTaskAsync, CancelTaskExecution | the goroutine outlives the request whose context it uses; cancel races completion | rows say what happened to the script; executions end |
| Docker executor (`internal/executor/executor.go`, `docker_client.go`) | container per execution | create, register, start, wait, remove | lost replies, auto-removal, timeouts | containers are removed |
| Cleanup manager (`cleanup.go`) | map of containers under a mutex | register, mark, unregister; cleanup of one execution, of stale ones, of all | passes work on snapshots without the mutex; removals fail | no container runs unnoticed; the map does not fill up; scripts in time are spared |
| Rate limiter (`internal/api/middleware/rate_limit.go`) | admitted times per identifier under a mutex | Allow, cleanup | pruning and deleting keys while requests arrive; window edges | no window holds more than the limit; pruning changes no decision |
| Listings (`handlers/task.go`, `task_execution.go`, the repositories, `database/cursor.go`) | none of its own; a client's offset or cursor | GET of tasks and of executions, by offset or by cursor | page and total are two statements; rows come, go and move between pages; ties | a client that reads to the end has missed and repeated no more than what has left and entered |
| Authentication (`internal/auth`) | users | register, login, refresh, check of access tokens | check-then-insert; lost replies; reuse and kinds of tokens | one owner per address; access ends with the last tokens |
| Start of the API (`cmd/api/main.go`, `executor/security.go`) | directories, the seccomp profile and its modes, on the disk | make, search and check directories; write, check, copy, remove the profile; choose an executor | any step may fail and is only logged; a kill leaves what earlier steps have done | a start without a warning leaves the profile whole and private; every start ends |
| Executor configuration and container validation (`executor/config.go`, `security.go`) | fixed at the start | limits of a task, caps, Validate, ValidateContainerConfig | scaling against caps; two places that set limits | what runs is within the caps; what is refused has a cause |
| Mock executor (`mock_executor.go`) | map of executions, unsynchronised | Execute, Cancel, Cleanup | data races | – |
| Script patterns, stateless middlewares, health, docs, logging, migrations | none | – | – | – |

How they interact. A handler calls the service or a repository; the service
calls repositories bound to its transaction; rows are the only state that
handlers share. `routes.go:99` gives the handlers the service alone, so that
no route starts a container today; `ExecuteTask` is there to be called, and its
module models it as it is written. `main.go:197` gives the executor service a
nil cleanup manager; the one in use is the executor's own. `main.go:118` also
leaves the caps of `executor.SecuritySettings` zero, which `Config.Validate`
(`executor/config.go:258`) refuses when `NewDockerClient` calls it, so `main` falls
back to the mock executor in every deployment (`MainStartsTheMock`, proved). The
modules describe the Docker executor that this start-up code is meant to select, and
`ExecutorSetup` also the configurations with caps that `NewDefaultConfig` makes.

## Modules

| Module | Models | Checked by |
| --- | --- | --- |
| `Models` | statuses and the predicates on them | (extended) |
| `TaskBoard` | abstract: what the API promises of the two tables, one step per request; `Spec` for overlapping requests, `SerialSpec` for requests that do not overlap | `board_serial` | 2 tasks, 3 executions, two of them of one task, every status reported; stops when all is done, hence no deadlock check | a task that is running exactly while its only unfinished execution is goes on so, unless somebody writes to an execution that is over (`OnlyLateWritesUnsettle`); without any one of the three exceptions in `LateWrite` TLC finds a violation |
| `TaskExecutions` | detailed: handlers and service, one SQL statement per step, with row locks, rollback, failures and deadlocks | `api_races`, `owners`, `answered`, `claim_start` |
| `SlidingWindow` | abstract: a limiter that decides on its whole history | (instantiated) |
| `RateLimiter` | detailed: the map, `Allow`, `cleanup` | `rate_limit` |
| `ContainerExecutor` | executor service, executor, cleanup manager, daemon and restarts; composes `TaskBoard` for the rows | `containers`, `claim_ends` |
| `Accounts` | registration, login, refresh, the check of access tokens | `accounts` |
| `Listings` | a client paging through a listing, by offset or by cursor, while rows change | `listing`, `claim_cursor` |
| `ExecutorSetup` | starts of the API over the files of earlier ones, the choice of the executor, the limits and verdict of each task | `setup` |
| `MC*` | values of the constants for TLC | |
| `*_proofs` | theorems and proofs | TLAPS |

### Tables and requests

`task` and `exec` are the committed status columns; `"absent"` is a row not yet
inserted and `"deleted"` one that is gone. Only statuses are kept: names,
scripts and outputs decide nothing here. `sess[s]` is the request a client is
being served (`op`), the next statement of its handler (`pc`), the rows it is
about, the status it has read (`seen`) and those it will write (`want`,
`goal`); `held[s]` the row locks of its transaction. A transaction's UPDATE
locks the row it finds and its value appears at the commit, as READ COMMITTED
has it. An action is one statement with the checks that follow it in Go up to the
next statement; `After` is the order of the statements. `RowGone`,
`MissingExecution` and `MissingTask` are the error paths, `Fail` an error of any
statement, `DeadlockVictim` what PostgreSQL's detector does. PostgreSQL is
modelled from how the code uses it: lock modes and their conflicts are those of
a status UPDATE, a DELETE, and a foreign key check.

`TaskBoard!Spec` is what remains when one looks at the tables only. The checks a
request makes are not in it, because another request may commit between check
and write; they are in `SerialSpec`. The distance between the two is the distance
between what the code promises and what it keeps under load (see `claim_start` and
"Disagreements" below). Whoever sends a write may
lose the reply, of a commit and of a single statement alike (`WriteDone`).

`Settled(t)` says that a task and its executions agree. `SerialSpec` does not preserve it
in all steps, because the code lets a finished execution be written to (`LateWrite`): a
PUT may set any execution to pending or running, and a timed-out one may be cancelled,
and be reported on again. `OnlyLateWritesUnsettle` says that nothing else parts the two.

### Executions and containers

In `ContainerExecutor`, `go[e]` is the goroutine of an execution with the two
contexts it uses: the caller's and the one with the deadline made by `Execute`.
`docker` is what the daemon has, `tracked` and `age` the cleanup manager's map,
`cleaner[k]` what a pass has still to remove and what it has removed but not yet
unregistered. Passes run concurrently: one per cancel request, the periodic
one and that of the shutdown. `lost` collects the containers whose ID no process
has: those whose creation was not acknowledged and those of a process that
ended. Rows move by steps of `TaskBoard`, which `Implementation` below allows:
each transaction is one step. The checks of ExecuteTask and of the rollback's
cancel are part of that step; only a cancel request, which races the goroutine's own
writes, reads its guard in one step (`CancelGuard`) and writes in another (`CancelRows`).
The deletion of a task while it runs is left to `TaskExecutions`.

### Listings

`row` has of each row its status, priority and `created_at`; `changes` counts the
writes of other requests and is the clock of `NOW()`, so that two rows may share an
instant. `walk` is the listing that a client is reading (`list`), the statement that
comes next (`pc`) and its offset or cursor. A listing is a record: a table, a WHERE
clause and an ORDER BY. A page of one statement is any set of rows that LIMIT and
OFFSET may return under that order (`Pages`); rows that compare equal may be returned
either way round, by each statement anew. `seen` is history: how often each row was
shown, the rows that have kept their place since the walk began, and how many have
left or entered. The routes of the API and the methods of the repositories that no
route calls are both enumerated.

A statement with a cursor is a record of the arguments it binds and of the
placeholders its text names, with their types; `Prepared` is what PostgreSQL and pgx
require of them. `Behind` is the meaning of the conditions, and is reached only
for first pages, because no statement with a cursor is `Prepared`. It also shows what a
repair of the numbering would meet next: by name the creation time is compared, and by
update time a cursor that has none.

### Start of the API

`dirs` and `profile` are on the disk and survive `Crash`, which may come between any two
file operations; everything else is the process. Each action is one of the operations
of `main.go:127-154`, `CreateSeccompProfile` or `copyFile`, with its failure as a
disjunct; `try` is the candidate that `getSecureProfileDirectory` has come to, and
`warned` whether this process has logged a warning about the profile. `Init` allows
any directories with any modes, and files come from earlier starts, with a
configuration that may have been another. `Execute` takes a task that the API accepts,
works out its limits and records the first check that refuses it; the service's
hard-coded limits and a caller that leaves them to the configuration are both
enumerated. A configuration is what `main.go` passes (no caps) or what
`NewDefaultConfig` and the tests pass.

### Rate limiter

`requests` is the map: a function of the keys that are in it, to slices as sets of
admissions (time and number). `Allow` makes a key when it stores a slice (`Store`), and
`Cleanup` deletes those with nothing left. `served`, `admitted` and `verdict` are the history that `SlidingWindow` decides
on. A slice of equal times is a set because each admission carries its number.

### Accounts

`users` has the password of each address; a client's password is the client
itself. `req[c]` is the request of a client between two statements: a registration
between the SELECT and the INSERT (hashing takes 100 ms), a login whose password is
being compared, a refresh whose new pair is made but whose user is not looked up
yet, a request with a checked token. `wallet` are the tokens a client was sent;
the server keeps none and cannot withdraw any. `last` is history. Addresses
are compared as they are spelt: `ValidateEmail` lower-cases only its own copy, so
two spellings are two accounts.

## Runs

| Run | Instance and bounds | Shows |
| --- | --- | --- |
| `api_races` | 2 clients of one user, 1 task, 2 executions, every request the handlers send, reporting running, completed or failed, with faults | the invariants and that the tables move as `TaskBoard` says; races need two requests on the same rows and every pair of requests is tried |
| `owners` | 2 users with one client and one task each, two executions of the first task and none of the second, every request on either's rows, reporting running, completed, failed or timeout, faults | nobody changes another's rows; and since the requests of one owner do not overlap here, what each has checked is still so when it writes (`ChecksStillHold`) and each is an atomic step with its checks (`TaskBoard!SerialSpec`), with another user's requests in between |
| `answered` | 2 clients, 2 tasks, 1 execution, `UpdateExecutionAndTaskStatus` with arbitrary pairs, no faults, fairness | every request is answered; no fault is needed to get past a lock or a deadlock; no pair is written to rows that do not belong together |
| `board_serial` | 2 tasks, 3 executions, two of them of one task, every status reported; stops when all is done, hence no deadlock check | a task that is running exactly while its only unfinished execution is goes on so, unless somebody writes to an execution that is over (`OnlyLateWritesUnsettle`); without any one of the three exceptions in `LateWrite` TLC finds a violation |
| `claim_start` | 2 clients, 2 executions | *violated*: two overlapping starts of one task succeed, against the 409 of `api/openapi.yaml:423` |
| `listing` | 3 tasks, 1 execution, 4 writes, pages of 1 to 3 rows (defaults, corrections and caps of every limit that is asked for), with failing statements, and a write between any two statements: a walk of three pages with everything that can happen in it | what a reader misses or repeats has left or entered |
| `claim_cursor` | 2 tasks, 3 writes | *violated*: no cursor ever gets the next page |
| `setup` | 1 preferred directory, the fallback, 1 configured elsewhere; 3 configurations with and without caps: the default, one smaller than what the service asks for, one without seccomp; 4 priorities, one of each factor; the smallest and the largest timeout | a quiet start leaves a whole, private profile; tasks are confined; refusals have a cause; every start ends |
| `rate_limit` | 2 identifiers, limit 2, window 2 ticks, 4 ticks: two full windows and both edges | as the history would decide; window never overfull; expired entries go, and keys with nothing left |
| `accounts` | 2 clients, 2 addresses, lifetimes 1 and 2 ticks, 5 instants, faults: both lifetimes can pass twice | an address has one owner; access ends with the last tokens |
| `containers` | 1 execution, timeout and maximal age 1 tick, faults, restarts | the map, the passes and the rows, where a running task keeps an execution that is not over; see below |
| `claim_ends` | the same without faults | *violated*: the request returns, its context ends, and the execution never does |

`containers` has one execution: the goroutine, its cancel request and two passes
on one container already make 10^5 states, executions meet only in the row of their
task, which is the subject of the other modules, and no action of one execution
reads the entries of another except the two snapshots, which take them
independently. For two executions TLC does not finish in reasonable time; the
safety properties are proved for any number of them below.

Two properties of the executor hold in a weaker form than one would like, and
say so. Rows tell the truth about success and about timeouts, but a
success may be reported as failed when auto-removal or a cancel is faster than the
wait; and a container is removed unless it was lost, but nothing ever looks for
lost ones: `ForceCleanupOrphanedContainers` is not called and looks for names
that `CreateContainer` does not give.

In `listing`, the properties speak of rows that share their creation time with no other
row. For others the code promises nothing: the listings by offset do not order ties
by id, as the cursor methods do. `setup` uses one preferred directory of the four: the
search treats them alike, and what matters is that one fails, one is taken, and one is
the last.

### Disagreements without a run of their own

* `Cancel` refuses completed, failed and cancelled executions but not timed-out ones
  (`task_execution_service.go:185`), and then sets the task to pending, another
  execution of which may be running; and Complete lets timed-out ones be finished again.
  These are two of the three kinds of `LateWrite`.
* The third: "For non-terminal updates, just update the execution (no task status change
  needed)" (`task_execution.go:445`) does not look at the execution's status. A client that
  reports running of a completed execution revives it, and its task stays completed.
* "Cannot update running tasks" (`api/openapi.yaml:322`) is checked on a row read by an
  earlier statement (`task.go:363`), and the UPDATE writes back the status it has read: a
  start that commits in between is undone. `TaskBoard!EditTask` allows it.
* "Cannot cancel completed execution" (`api/openapi.yaml:569`) is checked on a row read
  without a lock (`task_execution_service.go:185`): an execution that completes before the
  write is cancelled and its task set back to pending. `TaskBoard!Cancel` allows it. Both
  need overlapping requests of one owner; `ChecksStillHold` and `ImplementsSerialBoard`
  say that other users' requests cannot cause them.
* A missing execution is answered with 500, not with the 404 of
  `api/openapi.yaml:566`: `GetByID` returns an error that no handler compares with.
* `main.go:155` says "Docker or Mock based on availability"; it is always the mock.
* After a start that has warned, `validateSeccompProfilePath` may accept a profile that
  was cut short, because an earlier start gave the file its mode. `RunsAreConfined`
  asks for a whole profile only of starts that did not warn.
* `task_executor_service.go:108` hard-codes limits: configured defaults and priorities
  have no effect on tasks started by the service, and caps below them refuse every task.
* `GetTimeoutForTask` does not cap a task's timeout although the limits do, so a task
  with a timeout above the cap is refused instead of being cut short.

### Fairness

* `TaskExecutions`: strong fairness of each session's statements. A handler runs on
  its own goroutine, and PostgreSQL queues waiters for a row, so a statement that
  is enabled again and again gets its turn. Weak fairness of `DeadlockVictim`:
  the detector runs when a wait has lasted `deadlock_timeout`. Nothing makes
  clients send requests.
* `ExecutorSetup`: weak fairness of `Boot`: `main` runs its statements one after
  another. Nothing makes anybody start, stop or use the API.
* `RateLimiter`: weak fairness of `Cleanup`, the ticker. Nothing makes requests
  arrive; time need not pass.
* `ContainerExecutor`: weak fairness of goroutines, time, the ticker, the passes
  and the daemon's auto-removal. Strong fairness of a successful removal in the
  periodic pass: a daemon that is asked every five minutes does not refuse for
  ever. Scripts need not end, contexts need not be cancelled, and the other removals
  may fail every time.

## Proofs

`TaskExecutions_proofs` (any number of clients, users, tasks and executions):

* `Invariance`: `Spec => []Inv`. The properties are not inductive alone.
  `WritesFindTheirRows` needs to know which locks a transaction holds before each
  statement (`LocksByStatement`) and that locks are compatible
  (`LocksCompatible`), and a DELETE in its cascade needs `CascadeFindsItsTask`;
  all of it needs the shape of a request at each statement
  (`RequestsWellFormed`, `FreshExecutions`). One lemma per action.
* `TypeCorrect`, `WritesFindRows`, `NoOrphan` follow from `Invariance`.
* `DeadlocksInvolveDeletes`: from `Inv`, a cycle without a cascade would have a
  transaction waiting for an execution held by one that waits for a task, whose
  holder waits for nothing.
* `OwnersOnly`: with the ownership checks carried along as an invariant.
* `Implementation`: `Spec => Board!Spec`, one step of `TaskBoard` per commit,
  single UPDATE or finished DELETE, a stutter for everything else.
* `RunningHasActive`: carried over from `TaskBoard_proofs!BoardRunningHasActive` by
  `Implementation`, where nobody calls `UpdateExecutionAndTaskStatus`.
* `ChecksLast`: for a user who sends one request at a time (`Alone`), whatever others
  send. The handlers read rows statements before they write them and lock nothing on
  reading, so a check holds at the write only because nobody else may change the rows:
  `AllStillSo` says at each statement what has been read and is still so, and
  `RowsOfOthersStay` that a step changes only rows of its own user. For requests that
  read the execution before the owner is known it is said only of rows the user owns; the
  rest are refused before they write (`OwnerChecked`).
* `SerialImplementation`: `Spec => Board!SerialSpec`, if every user sends one request at a
  time (`OneAtATime`) and nothing calls `UpdateExecutionAndTaskStatus`, which no
  handler does. Without the first the code does not promise it: `claim_start` is the
  counterexample. A full-row UPDATE of a task is a stutter then, because it writes back
  what is there.
* `OneActivePerTask`: `OnlyLateWritesUnsettle` for a task whose owner sends one request at a
  time, whatever statuses are reported and with overlapping requests of all others. The
  owner's steps are serial steps (`OwnStepOnSerialBoard`), and
  `TaskBoard_proofs!SettledStep`, which is about one task, carries over.

`TaskBoard_proofs`: `BoardNoOrphan`, `BoardRunningHasActive`,
`SerialOnlyLateWritesUnsettle` and `SettledWithoutLateWrites`. The last two rest on
`SettledStep`, which is about one task: that it is running exactly while it has an
unfinished execution is preserved only together with what `Settled` says of failed
executions, on which the code accepts another report. `SettledWithoutLateWrites` draws the
conclusion for a task to whose finished executions nobody makes a late write.

`RateLimiter_proofs` (any limit, window and identifiers): `Remembers`
(`Spec => []Inv`), `Implementation` (`Spec => Promise!Spec`) and
`NoWindowOverflows`: the admissions of any window, past ones included, are at
most the limit, because the last of them was decided on a set that contained all
the others. `Inv` includes that no key is left with an empty slice.

`ContainerExecutor_proofs` (any number of tasks and executions, so passes over
many containers, and any timeouts up to `MaxAge`):

* `Invariance`: `Spec => []Inv`. `NoUnnoticedContainer` alone is not inductive: that a
  pass may drop an entry needs `RemovedIsGone`, and that nothing is in the map or in
  a pass before a container is registered needs `NothingYet`. `RowsTellTheTruth` needs
  `ResultIsTrue` (the outcome that the goroutine carries across the deferred removal
  and the report) and `CodeWhenOver`. Every part of `Inv` is about one
  execution, so the proof has one lemma per action about the execution it moves,
  and `UntouchedKeepsLocal` for all others.
* `NothingUnnoticed`, `TrueRows` follow.
* `RunningHasActive`: only the start, its rollback, the mark as running, the final report
  and the cancel write rows, each as a step of `TaskBoard` (`RowsMoveOnBoard`,
  `StepOnBoard`), and a restart writes none; `TaskBoard_proofs!RunningHasActiveStep` is
  carried over to them.
* `SweepSpares`: from `InTime`. A registered container's age and the time left of its
  deadline add up to at most the timeout, which is at most `MaxAge`, so a container
  that was stale when the pass listed it has no time left when the pass gets to it.

`Accounts_proofs` (any number of clients and addresses, any lifetimes):
`Invariance` (`Spec => []Inv`), `OneOwner` and `Silence`. Tokens belong to the owner
of a row only if rows are never overwritten and a login compares with the row that is
still there (`LoginReadsTheRow`); tokens lapse (`TokensLapse`) because a pair's
life starts when it is made, also if it is delivered later.

`ExecutorSetup_proofs` (any directories, candidates, configurations, tasks and limits):

* `Invariance`: `Spec => []Inv`. `QuietStartLeavesProfile` is about the end of a start;
  `ProfileAdvances` says what each step before it has achieved as long as none has
  warned, and that the copy never writes the file it reads.
* `QuietStart`, `RunsConfined`, `DockerIsOutOfReach` follow: a verdict belongs to a
  process that serves, whose files no other step changes, and whose configuration
  `Validate` has accepted.
* `RefusalsCaused`: by `WorkedOutLimitsFit`, the scaled and capped limits of a
  configuration that `Validate` accepts are positive, unless a default of one is halved,
  and within the caps.

`Listings_proofs` (any number of rows, any limits and any number of writes):

* `Invariance`: `Spec => []Inv`. `SkipsNeedDepartures` is about the end of a walk; `Inv`
  says it of every step before, of the rows that are `Overdue`: missed although their
  rank in the order is below the offset, or below the end of the page that has been
  fetched without being on it. A page has all untied rows of its ranks
  (`PageHasItsRows`), whichever way ties fall. A write that makes n rows leave moves every
  other up by at most n ranks, and no two untied rows share a rank (`FewPerRank`), so that
  at most n rows come to stand where the reader has been (`OverdueGrows`).
* `TypeCorrect` and `FewSkips` follow. For a reader by cursor the latter rests on
  `NoCursorIsPrepared`: only a first page that is the whole listing ends a walk.
* `FewRepeats`: with a second invariant, `RInv`, which counts ahead. Besides the
  repetitions so far it charges the rows that are `Due`: seen before, or held on a fetched
  page, and standing at or after the place the reader has come to. A page turns
  a due row into a repetition (`Repaid`); a write that brings n rows pushes at most n
  others past the reader (`DueGrows`), again because untied rows have different ranks.

Assumptions are those named in the modules: types of the constants, distinctness
of rows, that UUIDs are finite in number (cardinalities of infinite sets mean nothing),
`TimeoutAssumption` (no timeout exceeds the maximal age, as
`ValidateTimeout`, `models/task.go:171`, and `cleanup.go:385` have it).

Every invariant, action property and refinement of the passing runs is a theorem.
Only model-checked: the liveness properties (fairness is out of the prover's reach)
and the violations.

## Not modelled

* GET of a single row, validation of fields, JSON, logging, health and documentation
  endpoints, stateless middlewares, migrations: sequential and without state.
* Pattern lists for scripts (`security.go:77-650`): matching of strings, on one request
  alone; `ExecutorSetup` and `ContainerExecutor` leave their verdict open.
* The mock executor: a test double that invents its results. `main` always chooses it,
  and no route calls it. Its map of executions is unsynchronised, which would matter
  as soon as one did.
* `SearchByMetadata`, `GetLatestByTaskID`, `Delete` of an execution, `CleanupTask`,
  `ForceCleanupOrphanedContainers`, `BuildSecurityConfig`, `OptionalAuth`: called by
  nobody.
* Password hashing and token signatures: cryptography.
* PostgreSQL, Docker, the file system and net/http themselves: modelled from their use.
* After a restart nothing is recovered: rows of executions that were under way stay
  as they are. `Restart` models this; no property promises otherwise.
* In `ContainerExecutor` one execution is checked and any number proved; the deletion of
  a task while it runs is in `TaskExecutions` only.
