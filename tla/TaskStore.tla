----------------------------- MODULE TaskStore -----------------------------
(***************************************************************************)
(* The `tasks` and `task_audit_log` tables of iron-defer and the           *)
(* operations of PostgresTaskRepository that change them                   *)
(* (crates/infrastructure/src/adapters/postgres_task_repository.rs).       *)
(*                                                                         *)
(* Every repository method runs one transaction: the UPDATE or INSERT of   *)
(* the task row, the INSERT of the audit row when the repository was built *)
(* with `audit_log`, then COMMIT.  It is therefore one action here.  A     *)
(* method whose WHERE clause matches no row changes nothing and returns an *)
(* error or an empty result, so its action is simply not enabled.          *)
(*                                                                         *)
(* The module does not say who calls the methods: any worker, sweeper or   *)
(* client may call any of them at any time, as stale workers do.  Engine   *)
(* restricts the callers to what the worker and sweeper services do.       *)
(*                                                                         *)
(* Columns that no decision depends on (kind, payload, trace_id,           *)
(* last_error, signal_payload, created_at) are left out.                   *)
(*                                                                         *)
(* A definition marked "Faulty" is used by nothing: it is a defective      *)
(* variant of the definition after it, kept to show which property catches *)
(* the defect.                                                             *)
(***************************************************************************)
EXTENDS Integers, Sequences, FiniteSets

CONSTANTS
    Tasks,           \* the ids TaskId::new may draw
    Workers,         \* the WorkerIds of the engines
    Queues,          \* queue names
    Keys,            \* idempotency keys
    Regions,         \* region labels
    WorkerRegion,    \* worker -> the region it claims for, or NULL
    Priorities,      \* priorities submissions use (larger is served first)
    Budgets,         \* values of max_attempts submissions use
    StartDelays,     \* scheduled_at of a submission, as a delay from now
    Checkpoints,     \* checkpoint values handlers write
    LeaseDuration,   \* WorkerConfig.lease_duration
    BaseDelay,       \* WorkerConfig.base_delay
    MaxDelay,        \* WorkerConfig.max_delay
    KeyRetention,    \* WorkerConfig.idempotency_key_retention
    SuspendTimeout,  \* WorkerConfig.suspend_timeout
    AuditLog,        \* the audit_log flag of PostgresTaskRepository
    NULL,            \* SQL NULL
    MaxNow,          \* bound: the clock stops here
    AttemptCap       \* bound: rows claimed this often are not claimed again

VARIABLES
    tasks,           \* the rows, a function from the ids present
    task_audit_log,  \* per task, its audit rows in insertion order
    now              \* the database clock

vars == <<tasks, task_audit_log, now>>

Statuses == {"pending", "running", "completed", "failed", "cancelled", "suspended"}
Terminal == {"completed", "failed", "cancelled"}

Row ==
    [status : Statuses,
     queue : Queues,
     priority : Priorities,
     region : Regions \cup {NULL},
     max_attempts : Budgets,
     attempts : Nat,
     scheduled_at : Nat,
     claimed_by : Workers \cup {NULL},
     claimed_until : Nat \cup {NULL},
     idempotency_key : Keys \cup {NULL},
     idempotency_expires_at : Nat \cup {NULL},
     checkpoint : Checkpoints \cup {NULL},
     suspended_at : Nat \cup {NULL}]

AuditRow ==
    [from_status : Statuses \cup {NULL},
     to_status : Statuses,
     worker_id : Workers \cup {NULL}]

(* NULL is a value of its own in every nullable column. *)
ASSUME NullAssumption ==
    /\ NULL \notin Workers
    /\ NULL \notin Regions
    /\ NULL \notin Keys
    /\ NULL \notin Checkpoints
    /\ NULL \notin Nat
    /\ NULL \notin Statuses

(* What the domain's newtypes and WorkerConfig::validate guarantee. *)
ASSUME ConfigAssumption ==
    /\ Priorities \subseteq Int
    /\ Budgets \subseteq Nat \ {0}
    /\ StartDelays \subseteq Nat
    /\ LeaseDuration \in Nat \ {0}
    /\ BaseDelay \in Nat \ {0}
    /\ MaxDelay \in Nat /\ MaxDelay >= BaseDelay
    /\ KeyRetention \in Nat
    /\ SuspendTimeout \in Nat
    /\ AuditLog \in BOOLEAN
    /\ WorkerRegion \in [Workers -> Regions \cup {NULL}]

-----------------------------------------------------------------------------
(* Reading rows *)

Present == DOMAIN tasks

InStatus(st) == {i \in Present : tasks[i].status = st}

Live(r) == r.status \notin Terminal

(* TryFrom<TaskRow> for TaskRecord: the row can be mapped to a record. *)
Readable(r) == r.attempts <= r.max_attempts

(* A retry is left: the condition fail and recover_zombie_tasks branch on. *)
CanRetry(r) == r.attempts < r.max_attempts

(* Faulty: the lease is taken back in its last moment. *)
ZombieEarly(r) ==
    /\ r.status = "running"
    /\ r.claimed_until # NULL
    /\ r.claimed_until <= now

(* Faulty: exhausted tasks are not recovered. *)
ZombieRetryable(r) ==
    /\ r.status = "running"
    /\ r.claimed_until # NULL
    /\ r.claimed_until < now
    /\ CanRetry(r)

(* A running row whose lease is over. *)
Zombie(r) ==
    /\ r.status = "running"
    /\ r.claimed_until # NULL
    /\ r.claimed_until < now

(* Faulty: the region filter of claim_next is missing. *)
ClaimableAnywhere(q, region) ==
    {i \in InStatus("pending") : /\ tasks[i].queue = q
                                 /\ tasks[i].scheduled_at <= now}

(* The rows the SELECT of claim_next ranges over for a worker of this      *)
(* region; without a region only rows without one qualify.                 *)
Claimable(q, region) ==
    {i \in InStatus("pending") :
        /\ tasks[i].queue = q
        /\ tasks[i].scheduled_at <= now
        /\ tasks[i].region \in {NULL, region}}

(* ORDER BY priority DESC, scheduled_at ASC *)
Precedes(r, s) ==
    \/ r.priority > s.priority
    \/ r.priority = s.priority /\ r.scheduled_at < s.scheduled_at

(* Faulty: the index predicate was not extended to the suspended status. *)
KeyHoldersNotSuspended(q, k) ==
    {i \in Present : /\ tasks[i].status \in {"pending", "running"}
                     /\ tasks[i].queue = q
                     /\ tasks[i].idempotency_key = k}

(* Live rows holding the key: what the partial unique index forbids two of. *)
KeyHolders(q, k) ==
    {i \in Present : /\ Live(tasks[i])
                     /\ tasks[i].queue = q
                     /\ tasks[i].idempotency_key = k}

-----------------------------------------------------------------------------
(* Writing rows *)

AuditEntry(from, to, w) == [from_status |-> from, to_status |-> to, worker_id |-> w]

(* insert_audit_row for each row of S, a no-op unless audit_log is set. *)
insert_audit_row(S, Entry(_)) ==
    task_audit_log' =
        [i \in Tasks |-> IF AuditLog /\ i \in S
                         THEN Append(task_audit_log[i], Entry(i))
                         ELSE task_audit_log[i]]

(* UPDATE tasks SET ... for the rows of S. *)
UpdateRows(S, NewRow(_)) ==
    /\ tasks' = [i \in Present |-> IF i \in S THEN NewRow(tasks[i]) ELSE tasks[i]]
    /\ UNCHANGED now

(* Faulty: the retention is taken off the submission time. *)
IdempotencyExpiryBackdated(key) == IF key = NULL THEN NULL ELSE now - KeyRetention

(* idempotency_expires_at of the scheduler: fixed when the task is submitted. *)
IdempotencyExpiry(key) == IF key = NULL THEN NULL ELSE now + KeyRetention

(* The record a submission builds: pending, never claimed or suspended. *)
NewRecord(q, prio, reg, max, delay, key) ==
    [status |-> "pending",
     queue |-> q,
     priority |-> prio,
     region |-> reg,
     max_attempts |-> max,
     attempts |-> 0,
     scheduled_at |-> now + delay,
     claimed_by |-> NULL,
     claimed_until |-> NULL,
     idempotency_key |-> key,
     idempotency_expires_at |-> IdempotencyExpiry(key),
     checkpoint |-> NULL,
     suspended_at |-> NULL]

InsertRow(i, row) ==
    /\ tasks' = [j \in Present \cup {i} |-> IF j = i THEN row ELSE tasks[j]]
    /\ insert_audit_row({i}, LAMBDA j : AuditEntry(NULL, "pending", NULL))
    /\ UNCHANGED now

(* Faulty: a claim is not counted. *)
ClaimedUncounted(r, w) ==
    [r EXCEPT !.status = "running",
              !.claimed_by = w,
              !.claimed_until = now + LeaseDuration]

Claimed(r, w) ==
    [r EXCEPT !.status = "running",
              !.claimed_by = w,
              !.claimed_until = now + LeaseDuration,
              !.attempts = @ + 1]

(* Back to the queue, as recover_zombie_tasks and fail put it there. *)
Requeued(r, at) ==
    [r EXCEPT !.status = "pending",
              !.claimed_by = NULL,
              !.claimed_until = NULL,
              !.scheduled_at = at]

(* The graceful release of a lease also counts an attempt. *)
Released(r) == [Requeued(r, now) EXCEPT !.attempts = @ + 1]

(* A failed task keeps its last claim. *)
Failed(r) == [r EXCEPT !.status = "failed"]

RetryOrFail(r, at) == IF CanRetry(r) THEN Requeued(r, at) ELSE Failed(r)

(* Faulty: the claim survives the suspension. *)
SuspendedStillClaimed(r) == [r EXCEPT !.status = "suspended", !.suspended_at = now]

(* Faulty: the suspension also postpones the task. *)
SuspendedPostponed(r) ==
    [r EXCEPT !.status = "suspended",
              !.claimed_by = NULL,
              !.claimed_until = NULL,
              !.scheduled_at = now + SuspendTimeout,
              !.suspended_at = now]

Suspended(r) ==
    [r EXCEPT !.status = "suspended",
              !.claimed_by = NULL,
              !.claimed_until = NULL,
              !.suspended_at = now]

(* LEAST(base * 2^(attempts - 1), max) * (0.75 + random() * 0.5), in whole  *)
(* ticks rounded outwards.                                                  *)
RetryDelays(attempts) ==
    LET full == BaseDelay * 2 ^ (attempts - 1)
        capped == IF full < MaxDelay THEN full ELSE MaxDelay
    IN  {d \in 0..(2 * MaxDelay) : 4 * d + 3 >= 3 * capped /\ 4 * d <= 5 * capped + 3}

-----------------------------------------------------------------------------
(* The operations of TaskRepository *)

Init ==
    /\ tasks = << >>
    /\ task_audit_log = [i \in Tasks |-> << >>]
    /\ now = 0

(* save, and save_in_tx at the commit of the caller's transaction. *)
save(i) ==
    /\ i \notin Present
    /\ \E q \in Queues, prio \in Priorities, reg \in Regions \cup {NULL},
          max \in Budgets, delay \in StartDelays :
          InsertRow(i, NewRecord(q, prio, reg, max, delay, NULL))

(* save_idempotent when ON CONFLICT finds no live row with the key; with   *)
(* one it inserts nothing and returns that row.                            *)
save_idempotent(i) ==
    /\ i \notin Present
    /\ \E q \in Queues, prio \in Priorities, reg \in Regions \cup {NULL},
          max \in Budgets, delay \in StartDelays, k \in Keys :
          /\ KeyHolders(q, k) = {}
          /\ InsertRow(i, NewRecord(q, prio, reg, max, delay, k))

cleanup_expired_idempotency_keys ==
    LET expired == {i \in Present : /\ ~Live(tasks[i])
                                    /\ tasks[i].idempotency_key # NULL
                                    /\ tasks[i].idempotency_expires_at < now}
    IN  /\ expired # {}
        /\ UpdateRows(expired, LAMBDA r : [r EXCEPT !.idempotency_key = NULL,
                                                    !.idempotency_expires_at = NULL])
        /\ UNCHANGED task_audit_log

(* Faulty: the audit row of a claim does not name the worker. *)
claim_next_anonymously(w, q, i) ==
    /\ i \in Claimable(q, WorkerRegion[w])
    /\ \E locked \in SUBSET (Claimable(q, WorkerRegion[w]) \ {i}) :
          \A j \in Claimable(q, WorkerRegion[w]) \ locked : ~Precedes(tasks[j], tasks[i])
    /\ tasks[i].attempts < AttemptCap
    /\ UpdateRows({i}, LAMBDA r : Claimed(r, w))
    /\ insert_audit_row({i}, LAMBDA j : AuditEntry("pending", "running", NULL))

(* claim_next for one worker and queue: i is the row LIMIT 1 picks, the     *)
(* first in order of those SKIP LOCKED leaves.  locked are the rows other  *)
(* transactions are changing at that moment.                               *)
claim_next(w, q, i) ==
    /\ i \in Claimable(q, WorkerRegion[w])
    /\ \E locked \in SUBSET (Claimable(q, WorkerRegion[w]) \ {i}) :
          \A j \in Claimable(q, WorkerRegion[w]) \ locked : ~Precedes(tasks[j], tasks[i])
    /\ tasks[i].attempts < AttemptCap
    /\ UpdateRows({i}, LAMBDA r : Claimed(r, w))
    /\ insert_audit_row({i}, LAMBDA j : AuditEntry("pending", "running", w))

(* Neither complete, fail, suspend nor release_lease_for_task asks whose   *)
(* claim the row holds.                                                    *)
complete(i) ==
    /\ i \in InStatus("running")
    /\ UpdateRows({i}, LAMBDA r : [r EXCEPT !.status = "completed", !.checkpoint = NULL])
    /\ insert_audit_row({i}, LAMBDA j :
           AuditEntry("running", "completed", tasks[j].claimed_by))

fail(i) ==
    /\ i \in InStatus("running")
    /\ \E d \in RetryDelays(tasks[i].attempts) :
         UpdateRows({i}, LAMBDA r : RetryOrFail(r, now + d))
    /\ insert_audit_row({i}, LAMBDA j :
           IF CanRetry(tasks[j]) THEN AuditEntry("running", "pending", NULL)
           ELSE AuditEntry("running", "failed", tasks[j].claimed_by))

(* Both UPDATEs of recover_zombie_tasks, in their one transaction. *)
recover_zombie_tasks ==
    LET zombies == {i \in Present : Zombie(tasks[i])}
    IN  /\ zombies # {}
        /\ UpdateRows(zombies, LAMBDA r : RetryOrFail(r, now))
        /\ insert_audit_row(zombies, LAMBDA j :
               AuditEntry("running", IF CanRetry(tasks[j]) THEN "pending" ELSE "failed", NULL))

(* Faulty: the audit row of a cancellation always says pending. *)
cancel_as_pending(i) ==
    /\ i \in InStatus("pending") \cup InStatus("suspended")
    /\ UpdateRows({i}, LAMBDA r : [r EXCEPT !.status = "cancelled"])
    /\ insert_audit_row({i}, LAMBDA j : AuditEntry("pending", "cancelled", NULL))

(* Faulty: a running task is cancelled too. *)
cancel_running(i) ==
    /\ i \in InStatus("pending") \cup InStatus("suspended") \cup InStatus("running")
    /\ UpdateRows({i}, LAMBDA r : [r EXCEPT !.status = "cancelled"])
    /\ insert_audit_row({i}, LAMBDA j : AuditEntry(tasks[j].status, "cancelled", NULL))

(* cancel infers the status the row had from suspended_at. *)
cancel(i) ==
    /\ i \in InStatus("pending") \cup InStatus("suspended")
    /\ UpdateRows({i}, LAMBDA r : [r EXCEPT !.status = "cancelled"])
    /\ insert_audit_row({i}, LAMBDA j :
           AuditEntry(IF tasks[j].suspended_at # NULL THEN "suspended" ELSE "pending",
                      "cancelled", NULL))

(* Faulty: finished tasks still naming the worker are included. *)
HeldOrDoneBy(w) == {i \in Present : tasks[i].claimed_by = w}

HeldBy(w) == {i \in InStatus("running") : tasks[i].claimed_by = w}

release_leases_for_worker(w) ==
    /\ HeldBy(w) # {}
    /\ UpdateRows(HeldBy(w), Released)
    /\ insert_audit_row(HeldBy(w), LAMBDA j : AuditEntry("running", "pending", w))

release_lease_for_task(i) ==
    /\ i \in InStatus("running")
    /\ UpdateRows({i}, Released)
    /\ insert_audit_row({i}, LAMBDA j : AuditEntry("running", "pending", NULL))

suspend(i) ==
    /\ i \in InStatus("running")
    /\ UpdateRows({i}, Suspended)
    /\ insert_audit_row({i}, LAMBDA j : AuditEntry("running", "suspended", NULL))

(* Faulty: suspended_at is not reset. *)
signal_still_suspended(i) ==
    /\ i \in InStatus("suspended")
    /\ UpdateRows({i}, LAMBDA r : [r EXCEPT !.status = "pending"])
    /\ insert_audit_row({i}, LAMBDA j : AuditEntry("suspended", "pending", NULL))

(* signal leaves scheduled_at alone. *)
signal(i) ==
    /\ i \in InStatus("suspended")
    /\ UpdateRows({i}, LAMBDA r : [r EXCEPT !.status = "pending", !.suspended_at = NULL])
    /\ insert_audit_row({i}, LAMBDA j : AuditEntry("suspended", "pending", NULL))

(* Faulty: the watchdog asks for attempts left, as the recovery does. *)
expire_retryable ==
    LET overdue == {i \in InStatus("suspended") :
                       /\ tasks[i].suspended_at < now - SuspendTimeout
                       /\ CanRetry(tasks[i])}
    IN  /\ overdue # {}
        /\ UpdateRows(overdue, Failed)
        /\ insert_audit_row(overdue, LAMBDA j : AuditEntry("suspended", "failed", NULL))

(* COALESCE(suspended_at, updated_at) is suspended_at here: a suspended row *)
(* always has one (SuspensionMatchesStatus).                               *)
expire_suspended_tasks ==
    LET overdue == {i \in InStatus("suspended") :
                       /\ tasks[i].suspended_at # NULL
                       /\ tasks[i].suspended_at < now - SuspendTimeout}
    IN  /\ overdue # {}
        /\ UpdateRows(overdue, Failed)
        /\ insert_audit_row(overdue, LAMBDA j : AuditEntry("suspended", "failed", NULL))

(* PostgresCheckpointWriter: the one update that names its worker. *)
write_checkpoint(i, w) ==
    /\ i \in HeldBy(w)
    /\ \E c \in Checkpoints :
         UpdateRows({i}, LAMBDA r : [r EXCEPT !.checkpoint = c])
    /\ UNCHANGED task_audit_log

Tick ==
    /\ now < MaxNow
    /\ now' = now + 1
    /\ UNCHANGED <<tasks, task_audit_log>>

Next ==
    \/ \E i \in Tasks : save(i) \/ save_idempotent(i)
    \/ \E w \in Workers, q \in Queues, i \in Tasks : claim_next(w, q, i)
    \/ \E i \in Tasks : complete(i) \/ fail(i) \/ suspend(i) \/ release_lease_for_task(i)
    \/ \E i \in Tasks : cancel(i) \/ signal(i)
    \/ \E i \in Tasks, w \in Workers : write_checkpoint(i, w)
    \/ \E w \in Workers : release_leases_for_worker(w)
    \/ recover_zombie_tasks
    \/ cleanup_expired_idempotency_keys
    \/ expire_suspended_tasks
    \/ Tick

Spec == Init /\ [][Next]_vars

-----------------------------------------------------------------------------
(* What operators read: GET /queues and `iron-defer workers` *)

(* Faulty: active_workers counts the claimers of finished rows too. *)
queue_statistics_unfiltered(q, R) ==
    LET of(st) == {i \in InStatus(st) : tasks[i].queue = q /\ tasks[i].region \in R}
    IN  [pending |-> Cardinality(of("pending")),
         running |-> Cardinality(of("running")),
         suspended |-> Cardinality(of("suspended")),
         active_workers |-> Cardinality({tasks[i].claimed_by : i \in Present} \ {NULL})]

(* The row of queue q, for all regions or, by_region, for one; there is no  *)
(* row when nothing is unfinished.                                          *)
queue_statistics(q, R) ==
    LET of(st) == {i \in InStatus(st) : tasks[i].queue = q /\ tasks[i].region \in R}
    IN  [pending |-> Cardinality(of("pending")),
         running |-> Cardinality(of("running")),
         suspended |-> Cardinality(of("suspended")),
         active_workers |-> Cardinality({tasks[i].claimed_by : i \in of("running")} \ {NULL})]

(* Faulty: rows whose lease is over are left out. *)
worker_status_leased(q) ==
    LET of(w) == {i \in HeldBy(w) : tasks[i].queue = q /\ tasks[i].claimed_until > now}
    IN  {[worker_id |-> w, tasks_in_flight |-> Cardinality(of(w))] :
            w \in {v \in Workers : of(v) # {}}}

(* The rows of queue q, grouped by claimed_by. *)
worker_status(q) ==
    LET of(w) == {i \in HeldBy(w) : tasks[i].queue = q}
    IN  {[worker_id |-> w, tasks_in_flight |-> Cardinality(of(w))] :
            w \in {v \in Workers : of(v) # {}}}

-----------------------------------------------------------------------------
(* Properties *)

(* Every column holds a value of its type; rows exist only for known ids.  *)
TypeOK ==
    /\ Present \subseteq Tasks
    /\ \A i \in Present : tasks[i] \in Row
    /\ DOMAIN task_audit_log = Tasks
    /\ \A i \in Tasks : /\ task_audit_log[i] \in Seq(AuditRow)
                        /\ ~(AuditLog /\ i \in Present) => task_audit_log[i] = << >>
    /\ now \in Nat

(* A row carries a claim exactly while it runs, or as the last claimer of  *)
(* a task that completed or failed: never while it waits, is suspended or  *)
(* was cancelled.  The sweeper and release_leases_for_worker find their    *)
(* rows by these columns, and no lease reaches further than one            *)
(* lease_duration from now.                                                *)
ClaimMatches(r) ==
    /\ (r.claimed_by = NULL) <=> (r.claimed_until = NULL)
    /\ r.status = "running" => r.claimed_by # NULL
    /\ r.status \in {"pending", "suspended", "cancelled"} => r.claimed_by = NULL
    /\ r.claimed_until # NULL => r.claimed_until <= now + LeaseDuration

ClaimMatchesStatus == \A i \in Present : ClaimMatches(tasks[i])

(* suspended_at is set exactly while a row is suspended, or was when it    *)
(* was cancelled or timed out: what cancel's audit row and the timeout of  *)
(* expire_suspended_tasks read off the column.                             *)
SuspensionMatches(r) ==
    /\ r.status = "suspended" => r.suspended_at # NULL
    /\ r.status \in {"pending", "running", "completed"} => r.suspended_at = NULL

SuspensionMatchesStatus == \A i \in Present : SuspensionMatches(tasks[i])

(* The audit rows of a task tell its life without a gap: they start with   *)
(* its creation, each starts from the status the one before it ended in,   *)
(* and the last ends in the status the task row shows now.                 *)
TrailIsComplete(i) ==
    LET log == task_audit_log[i]
    IN  /\ log # << >>
        /\ log[1].from_status = NULL
        /\ \A k \in 1..(Len(log) - 1) : log[k].to_status = log[k + 1].from_status
        /\ log[Len(log)].to_status = tasks[i].status

AuditTrailComplete == AuditLog => \A i \in Present : TrailIsComplete(i)

(* An audit row that names a worker for the end of an attempt names the    *)
(* worker whose claim is the row before it.                                *)
AuditNamesClaimer ==
    \A i \in Present :
        LET log == task_audit_log[i]
        IN  \A k \in DOMAIN log :
                (log[k].from_status = "running" /\ log[k].worker_id # NULL)
                    => k > 1 /\ log[k - 1].worker_id = log[k].worker_id

(* The two views operators have of a queue agree in every snapshot: the     *)
(* tasks_in_flight of its workers add up to its running tasks, and its      *)
(* active_workers are those worker_status lists, although only one of the   *)
(* two queries asks for a claimer.  The row of a region counts no worker    *)
(* of another.                                                              *)
StatisticsAgree ==
    \A q \in Queues :
        LET all == queue_statistics(q, Regions \cup {NULL})
            listed == worker_status(q)
        IN  /\ all.running =
                  Cardinality({p \in listed \X (1 .. Cardinality(Present)) :
                                  p[2] <= p[1].tasks_in_flight})
            /\ all.active_workers = Cardinality(listed)
            /\ \A r \in Regions :
                  queue_statistics(q, {r}).active_workers
                    <= Cardinality({s \in listed : WorkerRegion[s.worker_id] = r})

(* No two live tasks of a queue share an idempotency key, so no UPDATE     *)
(* ever trips the partial unique index idx_tasks_idempotency.              *)
OneLiveTaskPerKey ==
    \A i, j \in Present :
        (/\ i # j
         /\ Live(tasks[i]) /\ Live(tasks[j])
         /\ tasks[i].queue = tasks[j].queue
         /\ tasks[i].idempotency_key = tasks[j].idempotency_key)
            => tasks[i].idempotency_key = NULL

(* A task resumed by signal can be claimed at once, although signal does   *)
(* not touch scheduled_at: the time it was due has passed since its last   *)
(* claim.                                                                  *)
ResumedTaskIsDue ==
    \A i \in InStatus("pending") :
        LET log == task_audit_log[i]
        IN  (log # << >> /\ log[Len(log)].from_status = "suspended")
                => tasks[i].scheduled_at <= now

(* The claims of a task its audit log records. *)
Claims(i) ==
    Cardinality({k \in DOMAIN task_audit_log[i] :
                    task_audit_log[i][k].to_status = "running"})

(* What an attempt counter is worth: every claim counts once and its       *)
(* graceful release once more, so it lies between the number of claims and *)
(* twice that number, and retries end after at least half the budget.      *)
AttemptsTrackClaims ==
    AuditLog => \A i \in Present : /\ Claims(i) <= tasks[i].attempts
                                  /\ tasks[i].attempts <= 2 * Claims(i)

(* A task pinned to a region is only ever held by a worker of that region. *)
RegionPinned ==
    \A i \in Present :
        tasks[i].claimed_by # NULL =>
            tasks[i].region \in {NULL, WorkerRegion[tasks[i].claimed_by]}

(* No call, however late, changes a finished task, except that its         *)
(* idempotency key may be cleaned up; and no row is ever deleted.          *)
FinishedRowsFrozen ==
    [][\A i \in Present :
          /\ i \in Present'
          /\ ~Live(tasks[i]) =>
                tasks'[i] \in {tasks[i], [tasks[i] EXCEPT !.idempotency_key = NULL,
                                                        !.idempotency_expires_at = NULL]}]_vars

(* The tables implement the life cycle of TaskLifecycle. *)
StatusOf(i) == IF i \in Present THEN tasks[i].status ELSE "none"

Lifecycle == INSTANCE TaskLifecycle WITH status <- [i \in Tasks |-> StatusOf(i)]

ImplementsLifecycle == Lifecycle!Spec

-----------------------------------------------------------------------------
(* A statement of the repository's documents that the code does not keep *)

(* docs/tutorials/suspended-workflow.md: "post-signal state sequence is    *)
(* suspended -> pending -> running -> <terminal>", the signal payload being *)
(* "consumed by the next execution attempt" (docs/guides/rest-api.md).  It *)
(* is only if the next claim returns a record: TryFrom<TaskRow> refuses a  *)
(* row with more attempts than its budget, and claim_next adds one.        *)
ResumedTaskCanRun ==
    \A i \in InStatus("pending") :
        LET log == task_audit_log[i]
        IN  (log # << >> /\ log[Len(log)].from_status = "suspended")
                => Readable([tasks[i] EXCEPT !.attempts = @ + 1])
=============================================================================
