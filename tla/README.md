# iron-defer in TLA+

iron-defer is a durable background task queue for Rust on Postgres.  Any number
of engines (embedded or standalone) share one `tasks` table: workers claim rows
under a lease, run handlers and report outcomes; sweepers take back what workers
lost.  This directory models that core, the ways tasks get into it and are listed, and
the life of the processes around it; it model-checks the models with TLC and
proves the main invariants with TLAPS.

## 1. Inventory

| Component (source) | State | Operations | Hard part | What makes it correct |
|---|---|---|---|---|
| `PostgresTaskRepository` (`infrastructure/.../postgres_task_repository.rs`, `migrations/`) | `tasks`, `task_audit_log` | save, save_idempotent (and the `_in_tx` forms), claim_next, complete, fail, suspend, signal, cancel, two lease releases, three sweeper updates, checkpoints | calls arrive late and from anyone; most `UPDATE`s match `id` and `status` only | claim, suspension and status columns agree; keys unique among live rows; finished rows frozen; audit log complete |
| `WorkerService` (`application/.../worker.rs`) | semaphore, `JoinSet`, claim back-off, in-flight handlers | poll loop, claim, dispatch, report | the cancellation token races the claim; handlers outlive leases; permits on every path | an attempt on time owns its row; permits never leak |
| `SweeperService` (`application/.../sweeper.rs`) | none | recover zombies, clean keys, expire suspensions | lease-end boundary, errors in mid-cycle | every claim ends; never takes a lease that is not over |
| `IronDefer::start` (`api/src/lib.rs`), `shutdown.rs` | cancellation token, drain | poll, drain with timeout, abort, release | abort does not stop spawned handlers; one release call may fail | shutdown ends; nothing is left behind |
| `SchedulerService`, submission API (`scheduler.rs`, `lib.rs`) | the caller's open transaction | enqueue (plain, idempotent, in the caller's transaction), cancel, signal | eleven entry points with checks of their own; two-statement idempotent insert; waits for uncommitted keys; lost answers | a key names one live task; tasks appear with their commit; only tasks that can be read back get in |
| `WorkerConfig` (`application/src/config.rs`) | configuration | validate | zero and inverted durations | the assumptions below |
| `TaskContext` (`domain/.../task.rs`) | last checkpoint | checkpoint, suspend | a checkpoint after the lease is lost | only the holder writes |
| Table persistence (`lib.rs`, `reconcile_table_persistence`) | `LOGGED`/`UNLOGGED`, foreign key | switch at build | separate statements, several engines, crashes of Postgres, key not found on the way back | no durable task is lost; audited tasks exist |
| Standalone binary (`api/src/main.rs`) | background tasks, outer timeout | serve, shut down | same timeout as the drain inside it | a signal ends the process; leases released before exit |
| Queries (`list_tasks`, `queue_statistics`, `worker_status`) | the reader's offset | page, count, statistics | pages from different snapshots while rows commit late | nothing is skipped; the views agree |
| REST, CLI | none | translation into the calls above | which checks each makes | see the submission API |
| Observability, pool, error mapping | none that decides anything | - | - | - |

Interaction: clients call the scheduler, the scheduler the repository; the poll
loop calls `claim_next` and spawns `dispatch_task`, which spawns the handler and
then calls `complete`, `fail` or `suspend`; the sweeper calls its three updates;
all of them only meet in the database.  The full list of what is hard to test is
`hazards` in `PROJECT.json`, each entry with its line and properties.

## 2. Modules

| Module | Models | Notes |
|---|---|---|
| `TaskLifecycle` | abstract specification: the statuses of tasks and the edges between them | implemented by `TaskStore` |
| `TaskStore` | both tables and every writing method of the repository | no restriction on callers |
| `Engine` (EXTENDS `TaskStore`) | poll loop, dispatch, reports, shutdown, crash, sweeper, clients | its steps are steps of `TaskStore` |
| `Admission` | the checks of the eleven entry points of a submission, as predicates on a request | no state |
| `SubmissionContract` | abstract specification: submission as one step, and what its answer means | implemented by `Submission` |
| `Submission` (EXTENDS `Admission`) | `save`, `save_idempotent`, `save_in_tx`, `save_idempotent_in_tx` statement by statement | the rest of the system moves rows along `TaskLifecycle` |
| `Queries` | `list_tasks` page by page | likewise |
| `TablePersistence` | `IronDeferBuilder::build` and the switch of the tasks table | any number of engines |
| `Standalone` (EXTENDS `TablePersistence`) | `run_serve` from build to exit | its steps are steps of `TablePersistence` |
| `TaskStoreProofs`, `EngineProofs`, `AdmissionProofs`, `SubmissionProofs`, `QueriesProofs`, `TablePersistenceProofs`, `StandaloneProofs` | theorems about the module of the name | |
| `AccountingProofs` (EXTENDS `EngineProofs`) | theorems about what `TaskStore` and `Engine` count | cardinalities |
| `MCTaskStore`, `MCEngine`, `MCSubmission`, `MCQueries`, `MCStandalone` | instances for TLC | |

**TaskStore.**  `tasks` is a function from the ids present to rows, with the
columns decisions depend on; `task_audit_log` holds per task the sequence of its
audit rows; `now` is the clock of the database.  A repository method is one
transaction, hence one action with the method's name, `UPDATE`, audit insert and
all.  A `WHERE` that matches nothing changes nothing, so the action is disabled.
`kind`, `payload`, `trace_id`, `last_error`, `signal_payload` and the timestamps
`created_at` and `updated_at` decide nothing and are left out.  Details worth knowing:

- `SKIP LOCKED` in `claim_next`: rows locked by other transactions are an
  arbitrary set `locked`, so a claim may pass over better rows.
- `fail` picks its jittered delay from `RetryDelays`, the interval 0.75 to 1.25 of
  `LEAST(base * 2^(attempts-1), max)`, rounded outwards to whole ticks.
- `TryFrom<TaskRow>` refuses a row with `attempts > max_attempts`; the methods
  call it after COMMIT, so the change stays although the caller sees an error
  (`Readable`, and `Delivered` in `Engine`).
- `save_idempotent` is one step; its conflict path changes nothing.  Its
  statements are in `Submission`.
- `queue_statistics` and `worker_status` are operators on the tables.
- There is one clock.  The code compares `scheduled_at` and
  `idempotency_expires_at`, written by the application, with the database's
  `now()`; skew between the two is not modelled.

**Engine.**  A worker is one run of one engine (`start` draws a fresh
`WorkerId`).  `phase` is where `start` stands: `polling`, `claiming` (claim_next
was called), `claimed` (it committed, the poll loop has not seen the row yet),
`draining`, `aborted` (after `abort_all`), `stopped`.  `token`, `permits` and
`runs` are the cancellation tokens, the semaphores and the handlers executing;
`returned` is the claim on its way to the poll loop.

| Code | Actions |
|---|---|
| worker.rs, tick and `try_acquire_owned` | `tick` |
| `claim_next` awaited in `select!` | `claim`, `claim_nothing`, `claim_dropped` |
| the match on its result | `dispatch_task`, `claim_cancelled`, `claim_backoff` |
| `break` on the token | `stop_polling` |
| `dispatch_task` after the spawn, `handle_task_failure` | `report`, `end_unawaited`, `checkpoint` |
| lib.rs, phase 2 of `start` | `drained`, `drain_timeout`, `release_leases` |
| sweeper.rs cycle | `recover`, `cleanup`, `expire` |
| environment | `cancel_token`, `crash`, `enqueue_raw`, `delete_task`, `signal_task`, `pass_time` |

Every call that answers a worker may fail when `StorageErrors` is set.  A handler
ends with any member of `Outcomes`; a panic and a missing handler go the way of
`"err"`.  `abort_all` leaves the handlers running but unawaited, because
`dispatch_task` spawned them as tasks of their own.  The three calls of a sweeper
cycle are separate actions in any order: each may fail without ending the cycle,
so any subsequence is possible.  The two history variables are `executed` (the handler
was invoked) and `strayed` (a claim of the task was kept beyond its lease, or
beyond its engine's drain).

**Admission.**  A request is a record of classes: a queue name is valid or not, a
kind registered, unknown or empty, a key legal, too long or absent, a region absent,
empty, malformed, in the producer's allow-list or not in it.  Each entry
point is the conjunction of the checks its code makes, in the callees as well; all
of them fail with the same kind of error, so that their order does not show.
`debug_assert`s are not taken for checks, since a release build has none.
`Workable` says what a row must be for `TryFrom<TaskRow>` to give it back and for a
worker to find it, the same for every entry point.  It does not ask for a registered
kind: a task of another one, which only the command line lets in, is claimed, read
back, and goes the way of a task whose handler returned an error.

**Submission.**  A client is a database connection.  `conn` has for each the
transaction it has open (`engine`'s, ended by the repository method, or the
`caller`'s, ended by the caller), the rows inserted in it, and the call it makes
with the statement that comes next; `rows` are the committed rows; `reply` is what
the last step answered.  READ COMMITTED gives every statement a snapshot of its
own, so that the `SELECT` behind a conflicting `INSERT` may find another row than
the one in the way, or none.  An `INSERT` of a key that another open transaction
has inserted waits for the end of that transaction, as Postgres does for a unique
index.  Any statement may fail, and the answer to COMMIT may be lost.
Two history columns say of the request a row came from that its task is workable
(`workable`), and that its region is none or one `validate_region_authorization`
accepts (`authorized`).

| Code | Actions |
|---|---|
| the checks of an entry point | `reject` |
| `pool.begin()` in save and save_idempotent, entry of the `_in_tx` forms | `begin_on_pool`, `call_in_tx` |
| `INSERT ... ON CONFLICT DO NOTHING` (and its audit row) | `insert_row`, `insert_conflict` |
| `SELECT` of the existing task | `select_existing` |
| `tx.commit()`, errors | `commit_on_pool`, `statement_fails` |
| environment | `begin_caller`, `caller_commits`, `caller_rolls_back`, `progress`, `cleanup_expired_idempotency_keys` |

**Queries.**  `before` is the order `ORDER BY created_at, id` gives, as a relation.
`created_at` is `now()` of the inserting transaction, its start, so a commit inserts a
row at any place of the order.  The place of a task in a listing is one more than the
number of matching tasks before it, and a page is the set of tasks at the places LIMIT
and OFFSET select.  `walk` is a reader that asks for page after page
(`list_tasks`; `count_tasks` is the second query behind an empty page) until it has
as many tasks as the last total said, and remembers in `due` the tasks that it
was to see and has not seen.

**TablePersistence.**  `table` says whether `tasks` exists, is UNLOGGED and is
referenced by the foreign key of the audit log; `present` and `audited` are the
tasks with rows in the two tables; `build` has for each engine the statement its
`build` is at.  A guard a statement has beyond its place in the code is what
Postgres refuses (a LOGGED table cannot refer to an UNLOGGED one, an existing
constraint cannot be added) or what the trigger `audit_log_immutable` raises; a
refused statement is `statement_fails`.  `TableInit` allows every state in which earlier
deployments may have left an empty database.

**Standalone.**  `proc` has for each binary where `run_serve` stands, its two
background tasks, and the ticks left of main's timeout and of the drain's.
`start()` is reduced to polling, draining, releasing and ended, with one flag for
its claims; `Engine` has it in full.  `stray` is a lease left of a process that is gone;
`Killable` are the binaries whose process may be killed at any step.  The shipped binary
registers no handlers: a task it claims ends with the missing handler at once,
and only a database call that stalls can use up its drain.

Definitions marked "Faulty" are defective variants used by nothing but the
check that every property can fail.

## 3. Runs

| Run | Instance | Checks |
|---|---|---|
| `store` | 2 tasks, 2 workers (one with a region), 1 key, budget 2, clock to 3 | types; `ClaimMatchesStatus`, `SuspensionMatchesStatus`, `OneLiveTaskPerKey`, `RegionPinned`, `StatisticsAgree`; `FinishedRowsFrozen`; refinement `ImplementsLifecycle` |
| `audit` | 1 task, audit log on, budgets 1 and 3, delayed start, clock to 6 | `AuditTrailComplete`, `AuditNamesClaimer`, `ResumedTaskIsDue`, `AttemptsTrackClaims` |
| `engine` | 2 engines, 2 permits each, 1 task, 1 key; `w1` may stop or crash, `w2` survives; storage errors | types; `OnTimeAttemptOwnsRow`, `StatusShowsAttempts`, `PermitsAccounted`; refinement `ImplementsStore`; `EveryClaimEnds`, `ShutdownEnds`, `EveryTaskEnds` |
| `submission` | 2 connections, 2 task ids, 2 keys, 1 queue, allow-list on, empty and allowed regions | types; `OnlyWorkableTasks`, `OneHolderPerKey`, `ConflictMeansRace`; `TasksAppearAtomically`; refinement `ImplementsContract`; `CallsAreAnswered` |
| `paging` | 4 tasks, pages of 1, offset capped at 2, filters by queue, by a passing and by a final status | types; `WalkMissesNothing` |
| `process` | a binary and an embedded engine, 6 configurations each, 1 task, timeout of 2 ticks, 1 repair | types; `AuditedTasksExist`; `DurableTasksKept`; `SignalEndsProcess` |

**What the properties say.**  `ClaimMatchesStatus` and `SuspensionMatchesStatus`:
the columns the sweeper, the releases, the watchdog and cancel's audit row read
are never left over from an earlier status.  `OneLiveTaskPerKey`: no update can
violate the partial unique index.  `FinishedRowsFrozen`: no late report, release
or sweep touches a finished task.  `AuditTrailComplete`: the audit rows chain from
creation to the present status.  `AttemptsTrackClaims`: a release counts a second
attempt, so `attempts` lies between the number of claims and twice that number.
`OnTimeAttemptOwnsRow`: `complete`, `fail` and `suspend` do not check the claim,
yet as long as no claim of the task was kept too long, whoever executes it holds
its row.  `PermitsAccounted`: every path through the poll loop gives its permit back.
`StatisticsAgree` and `StatusShowsAttempts`: the numbers operators see agree with each
other and miss no attempt that is on time.

`OnlyWorkableTasks`: whichever of the eleven entry points a task comes through, with
its own selection of the checks, its row can be read back and claimed; no entry point
is exempt.  `OneHolderPerKey`: keys are unique over committed rows
and open transactions together (the words of lib.rs:549-551, "Deduplication is scoped to the
transaction", are to be read as: a duplicate is only looked for in what is committed;
the `INSERT` waits for other transactions with the key all the same).
`ConflictMeansRace`: the error of `save_idempotent` that
it could not find the conflicting task means that this task has finished meanwhile.
`TasksAppearAtomically` and `ImplementsContract`: to everybody else a submission is one
step, with the answer telling the truth about it, except that a storage error may hide a
task that was stored.  `CallsAreAnswered`: not even callers that wait for each
other's keys wait for ever.

`WalkMissesNothing`: a reader misses no task that was there when it began, although
rows are inserted before its offset, since no row is ever deleted and insertions
only push rows back.  It does not extend to a filter by a passing status (rows that
stop to match pull others before the offset), nor beyond the capped offset, where
the same page comes again.

`AuditedTasksExist`: once the foreign key is dropped nothing in the schema keeps tasks
and audit log together.  As long as the engines of a deployment agree on
`unlogged_tables`, two checks do: `validate` refuses an UNLOGGED engine that keeps the log, and
a LOGGED one is up only behind a table that is LOGGED.  `DurableTasksKept` needs
all engines to be configured LOGGED.  Engines that do not agree undo each other's
switch: an UNLOGGED one that builds later makes the table UNLOGGED under one that
keeps the log, and a crash of Postgres then leaves audit rows without a task.

**Bounds.**  `MaxNow` and `AttemptCap` bound the clock and the claims in the store
runs; three ticks with a lease and timeouts of one let a lease end, be taken
again and end again, and let suspensions and keys expire.  The engine runs need
neither (both are set to 100, which is never reached): time only passes while a
row waits for it, and every retry uses an attempt.  One task is enough there
because tasks meet only in `claim_next`, whose choice among rows `store` covers
with two, and in the permits, which two concurrent attempts of one task exercise:
with a lease of one tick a worker can claim the same task again while its first
handler still runs.  Only `w1` stops or crashes, since the liveness properties
need a sweeper that stays; of the safety properties the theorems cover any set
of engines that stop.  Tasks are interchangeable in `store` (symmetry).

In `submission` two connections suffice for every wait and every cycle of two
transactions; the ids may run out, and then the INSERT fails (`OutOfIds`), so that
the bound does not look like a call without answer.  `Finals` has one final status, as
a submission does not tell them apart.  The regions of `submission` are the empty
one and an allowed one, since the properties of that run do not tell the others from the
latter; `region_allowlist` has all four classes.  In `paging` four tasks with pages of one and a
cap of two leave room for a page beyond the cap and for late commits on
both sides of the offset; tasks are interchangeable.  In `process` a timeout of two
ticks lets the drain begin with or after main's timeout, and `MaxRepairs` lets
the operator step in once, after which the restoring statements are reachable;
in `key_restored` nobody steps in, and in `drain_release` nothing is killed.

Deadlock is not checked: the store, submission and paging runs end at their bounds,
in `engine` an engine may stop for good when nothing is left to do, and in `process` an engine whose
configuration is refused may be the only one.

**Fairness** (`EngineFairness`).  The clock runs.  The tokio runtime keeps
polling each engine's loop and its drain, whose timeout fires (weak fairness of
`PollStep` and `DrainStep`).  The sweeper of an engine not shut down succeeds in
the end (weak fairness of `recover` and `expire`), and a worker that asks again
and again is served in the end (strong fairness of `claim`: an error, or another
transaction's lock, may make each single try fail, but not all).  Handlers are the
application's: that they end is not assumed, but is the hypothesis `HandlersEnd`
of `EveryTaskEnds` alone; `EveryClaimEnds` and `ShutdownEnds` hold with
handlers that never end.

`SubFairness`: Postgres serves a waiting `INSERT` in the end and breaks cycles of
waiting transactions (its deadlock detector), statements on an aborted transaction
fail, and callers end the transactions they open, which is the caller's part of the
contract.  `FairStandSpec` assumes only that time passes and that the runtime polls
main when its timeout is over; nothing of handlers or connections.

### Disagreements with the documents

Six runs show the code doing what a document or a comment excludes; `findings` in
`PROJECT.json` quotes each line.

| Run | Property | In short |
|---|---|---|
| `never_executed` | `FailedTaskWasExecuted` | a shutdown between claim and dispatch costs two attempts; the next claim commits a row `TryFrom` refuses, and the sweeper fails a task that never ran |
| `shutdown_orphan` | `StoppedHoldsNothing` | the claim future is dropped after its COMMIT was sent: the engine stops with a running row, until the lease ends |
| `resume_exhausted` | `ResumedTaskCanRun` | a task suspended in its last attempt and resumed cannot be dispatched |
| `region_allowlist` | `PinnedRegionsAllowed` | `enqueue_idempotent_with_region`, `enqueue_in_tx` and `enqueue_in_tx_idempotent` do not consult the allow-list, the latter two not even the form of the region |
| `key_restored` | `RestoredWithKey` | the table is LOGGED again without its foreign key: on the way back the code looks for a constraint that the way to UNLOGGED has dropped |
| `drain_release` | `DrainTimeoutReleases` | both shutdown timeouts are of the same length and main's starts first (main.rs:148, lib.rs:871), so the process exits with the drain timeout over and the leases not released |

The engine instances of the first two have no crashes and no storage errors.  The trace
of `key_restored` begins with a table an earlier deployment left UNLOGGED; such a table never
has the key.

Met while modelling and left without a run:

- docs/guides/rest-api.md:56-57 says of DELETE "Cancels only pending tasks",
  "Running/suspended/terminal tasks are not cancellable"; `cancel`
  (postgres_task_repository.rs:1176) takes suspended tasks too, and the audit row says so.
- config.rs:100-101 says that keys are "retained after a task reaches a terminal state. After
  this window the sweeper NULLs the key, allowing reuse"; the partial unique index covers
  live rows only, so a key is free the moment its task ends, and the window, counted
  from the submission, delays nothing.
- lib.rs:1606 says "Delete orphaned audit rows before restoring the FK"; the
  trigger `audit_log_immutable` (migrations/0007) raises an error for every row that
  `DELETE` would take, so with orphans the build would fail there.  By `RestoreIsDead` it
  does not get there.
- the doc comment of `GET /tasks` (handlers/tasks.rs:527) says a request without a
  filter gets the default limit of 100, the code answers it with 422 (lines 559-563).
- `iron-defer submit` writes no audit row whatever the configuration says
  (cli/submit.rs:90), and checks neither the kind nor the length of the key.

## 4. Theorems

All theorems hold for any finite or infinite sets of tasks, workers, queues,
keys, regions, checkpoints and connections, and for any page size and permits, from
named assumptions about the constants.  Bounds on clock and attempts play no part.

| Assumption | Says |
|---|---|
| `NullAssumption`, `NoReplyAssumption` | NULL is no proper value, and no reply |
| `ConfigAssumption` (of `TaskStore`) | what the domain's newtypes and `WorkerConfig::validate` enforce |
| `EngineAssumption` | each worker polls one queue, has a permit; NULL is no attempt |
| `ArgumentAssumption` | the classes of arguments are distinct |
| `PagingAssumption` | a page has at least one task; NULL is no filter |
| `ConfigAssumption` (of `TablePersistence`), `StandaloneAssumption` | a timeout is at least one tick, and no number means "off" |

`TaskStoreProofs`: `TypeCorrect`, `ClaimsCorrect`, `SuspensionsCorrect`,
`RegionsRespected`, `AuditTrailCorrect`, `ResumedCorrect`, `KeysUnique`,
`FinishedFrozen`, and `Refinement` (`Spec => ImplementsLifecycle`).  The argument:

1. `StepCases` reduces all operations, bulk updates included, to what a step
   does to one row and its trail (`RowStep`), or the insertion of one row.
2. `RowInv` is the inductive invariant of a row: claim, suspension and region
   agree with the status, and (`DueMatches`) a running or suspended row is due.
   The last is what makes `ResumedTaskIsDue` true: `signal` leaves `scheduled_at`.
3. `AuditTrailComplete` is inductive relative to `RowInv`: cancel's `from_status`
   is right because `suspended_at` is.  Key uniqueness is inductive because
   inserts check it and no finished row comes back.

`EngineProofs`: `EngineImplementsStore` shows every step of the engines to be a
step of `TaskStore` or to leave the tables alone, so the theorems above carry
over (`EngineKeepsStore`).  `AttemptsExclusive` proves `OnTimeAttemptOwnsRow` for any
number of engines, tasks and permits.  The property is not inductive;
`AttemptInv` adds that the row's lease is the attempt's and is not over (so the
sweeper spares it), that two such attempts of a task are equal (so a report
ends only its own), that an engine past its drain timeout has none left (so the release
spares it), and that a claim in transit is not yet among the runs.

`AdmissionProofs`, for any keys, budgets and regions: `AdmissionIsSound`, that every entry
point admits only workable tasks; `RestAdmissionIsExact`, that `POST /tasks` admits
exactly the workable tasks of registered kinds with a legal key in a region the producer
may use, no more and no fewer; and `EngineAdmissionChecked`, that all but the
command line refuse unknown kinds and illegal keys.

`TablePersistenceProofs`: `TableTypes` is inductive with the fact that a build
in the middle of a switch has a table before it.  `RestoreIsDead` needs more: as long
as no operator has stepped in, a build that goes back to LOGGED cannot have found a
key, because an UNLOGGED table has none and nothing adds one.  `DurableIsKept`
needs that with only LOGGED engines the table never becomes UNLOGGED, and that an
engine that is up has seen it LOGGED.  `AuditedTasksAreKept` rests on the latter and on
`AuditInv`: an engine past its `begin_build` has a configuration `validate` accepts, the log is
empty where all are UNLOGGED, and where none is the table with audited tasks
is LOGGED.  `RestoreIsDead` is why `key_restored` fails, for any number of engines.

`StandaloneProofs`: `StandaloneImplementsTable` shows every step of the binary to
be one of `TablePersistence` or to leave its variables alone (an exit of the process is a
failed statement or `stop`), together with the invariant `StandInv`; `StandTypes`
and `ReleaseIsRaced` follow.  The part of `StandInv` that carries the last is
`TimersOK`: while a drain runs, main's timer shows no more than the drain's, and
both lose a tick at a time.  `ReleaseIsRaced` is why `drain_release` fails, whatever
the timeout.

`SubmissionProofs`: all safety properties of `Submission`, for any number of
connections.  `SubInv` is the inductive invariant.  `OneHolderPerKey` rests on
`KeysApart`, which speaks of the committed rows and the rows of every open
transaction at once, and on `IdsApart`: an `INSERT` takes a key only when neither has
it, a commit moves rows from one side to the other, and the rest of the system never
brings a finished row back to life.  `ConflictMeansRace` needs what a call remembers between
its two statements (`HolderKnown`): the row its `INSERT` ran into is in the table, with
the call's queue and key as long as it is live; so if the `SELECT` finds nothing, it has finished.
`OnlyWorkableTasksStored` takes `AdmissionIsSound` through calls and transactions to
the table.  `TasksAppearTogether` and `SubmissionImplementsContract` are by cases of
the steps (`SubStepCases`): a step of one connection that is invisible outside, a commit
that puts all its rows into the table, or a move of committed rows along the life
cycle.  The mapping keeps the committed rows, and takes a
reply for the answer unless it names a task that is still uncommitted.

`AccountingProofs`: what is counted.

1. `StepCounts` reduces every step of the tables to what it does to the counter and
   the audit trail of one row: nothing, begin an attempt, end one, or another move.
   From it, `AttemptsCorrect` (the invariant adds that a running task has one claim in
   hand: attempts + 1 <= 2 * claims) and `AuditNamesCorrect` (the invariant adds that the last
   audit row of a running task names its claimer).
2. `StatisticsCorrect`: the table is always finite (`FiniteTable`), every running
   row has exactly one holder (`RowInv`), and numbering the rows of each worker gives
   a one-to-one map from the pairs `StatisticsAgree` counts to the running rows.
   Regions agree by the region part of `RowInv`.
3. `PermitsCorrect` and `EngineTypeCorrect`.  The sum of `PermitsAccounted` is not
   inductive: dispatching must add a handler that is not yet among the running ones,
   and neither lease nor row says so once the lease is over.  `HeldInv` does: no
   attempt a worker holds has a number above its row's counter, the counter never goes
   down, and a claim takes the next number.  `WorkerInv` adds to the sum that an engine
   past its drain awaits nothing, so that no handler returns a permit it does not have.
4. `StatusCorrect`: by `AttemptInv` and `HeldInv` the attempts on time map one-to-one to rows
   their worker holds in the queue it polls.
5. `EngineKeepsCounts` carries 1 and 2 over to the engines.

`QueriesProofs`: `QueryTypeCorrect` and `NothingMissed`.  The places of a listing are exactly
1 to its length (`PlaceFacts`, `PlaceTaken`), so a page has at most `Limit` tasks
and an empty first page means an empty listing.  The inductive invariant `DueBehind` says that
what the reader has not seen is still listed, behind every place shown so far: late
commits and progress only push places back under a lasting filter (`PlacesGrow`), a
page passes no more places than it shows (`PagePassed`), and whoever
stops at the total has passed everything up to the capped offset (`EndReached`).

Only model-checked: the liveness properties, `EveryClaimEnds`, `EveryTaskEnds`,
`ShutdownEnds`, `CallsAreAnswered` and `SignalEndsProcess`, because the prover
has neither fairness nor ENABLED.  Every invariant, action property and refinement that a
passing run checks is proved.  The six properties of the `violation` runs are false
of the code and have no theorem.

## 5. Not modelled

- Logs, metrics and traces, the pool and the mapping and scrubbing of errors decide
  nothing about the tables; to the engine every storage error is the same.
- The shapes of REST answers, the health, metrics and audit endpoints, and what the
  command line prints.  The listing of the audit log pages like `list_tasks` over a
  table that only grows, except that it reports a total of 0 beyond its end.
- Loading and merging configuration.  `config validate` checks the worker's part
  only; `TablePersistence` has what `build` checks.
- A caller that uses the pool while its own transaction is open waits for itself if
  the keys are the same; `Submission` has one call per connection and no program
  behind it.
- Clock skew, the exact milliseconds of the claim back-off, and rows that existed
  before migration 0011 (whose `DEFAULT now()` gives them a `suspended_at`): the
  models start from empty tables.
- The order of audit rows by timestamp (the start of their transactions): the log is
  kept in the order of commits.

## 6. Plan

Done: the modules of section 2, their runs, and a theorem for every safety
property of a passing run.  Next, in this order:

1. Claim back-off: the arithmetic of `run_poll_loop` (saturating power, cap,
   jitter budget) against its stated bound.
2. Rows older than migration 0011, and what cancel's audit row says of them.
