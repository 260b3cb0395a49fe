------------------------------- MODULE Engine -------------------------------
(***************************************************************************)
(* Engines working on one task table: the poll loop and dispatch_task of   *)
(* WorkerService (crates/application/src/services/worker.rs), the cycle of *)
(* SweeperService (sweeper.rs), and the drain of IronDefer::start          *)
(* (crates/api/src/lib.rs).  Each started engine draws a fresh WorkerId,   *)
(* so a worker stands for one run of one engine and never comes back.      *)
(*                                                                         *)
(* A claim is three steps, because the token, a crash or the end of the    *)
(* lease may come between them: the call is made, claim_next commits, the  *)
(* poll loop receives the row and spawns the handler.  A handler runs as a *)
(* tokio task of its own, so aborting the one that awaits it does not stop *)
(* it.                                                                     *)
(*                                                                         *)
(* Clients submit, cancel and signal at any time.                          *)
(*                                                                         *)
(* As in TaskStore, "Faulty" marks defective variants that nothing uses.   *)
(***************************************************************************)
EXTENDS TaskStore

CONSTANTS
    WorkerQueue,    \* worker -> the queue it polls
    Concurrency,    \* WorkerConfig.concurrency
    Outcomes,       \* what handlers may end with: "ok", "err", "suspend"
    Stoppable,      \* workers whose CancellationToken may fire
    Crashable,      \* workers whose process may die
    StorageErrors   \* whether the database may refuse a report or release

VARIABLES
    phase,      \* worker -> where start() is
    token,      \* the workers whose token is cancelled
    returned,   \* worker -> the claim it awaits from claim_next, or NULL
    permits,    \* worker -> free permits of the semaphore
    runs,       \* the handlers executing now
    executed,   \* history: tasks whose handler was ever invoked
    strayed     \* history: tasks with a claim kept beyond its lease or its drain

engine == <<phase, token, returned, permits, runs>>
history == <<executed, strayed>>
allVars == <<vars, engine, history>>

Phases == {"polling", "claiming", "claimed", "draining", "aborted", "stopped"}

(* One attempt as its worker knows it. *)
Attempt ==
    [worker : Workers, task : Tasks, attempt : Nat, until : Nat, awaited : BOOLEAN]

(* WorkerConfig::validate, and at least one permit. *)
ASSUME EngineAssumption ==
    /\ WorkerQueue \in [Workers -> Queues]
    /\ Concurrency \in Nat \ {0}
    /\ Outcomes \subseteq {"ok", "err", "suspend"}
    /\ Stoppable \subseteq Workers
    /\ Crashable \subseteq Workers
    /\ StorageErrors \in BOOLEAN
    /\ NULL \notin Attempt

(* dispatch_task is waiting for these. *)
Awaited(w) == {e \in runs : e.worker = w /\ e.awaited}

(* Claims whose row has not reached the poll loop yet. *)
InTransit == {returned[w] : w \in Workers} \ {NULL}

EngineInit ==
    /\ Init
    /\ phase = [w \in Workers |-> "polling"]
    /\ token = {}
    /\ returned = [w \in Workers |-> NULL]
    /\ permits = [w \in Workers |-> Concurrency]
    /\ runs = {}
    /\ executed = {}
    /\ strayed = {}

-----------------------------------------------------------------------------
(* The poll loop of WorkerService *)

Become(w, p) == phase' = [phase EXCEPT ![w] = p]

Received(w) == returned' = [returned EXCEPT ![w] = NULL]

DropPermit(w) == permits' = [permits EXCEPT ![w] = @ + 1]

(* Faulty: one claim more than there are permits. *)
tick_overcommitted(w) ==
    /\ phase[w] = "polling"
    /\ w \notin token
    /\ permits[w] >= 0
    /\ Become(w, "claiming")
    /\ permits' = [permits EXCEPT ![w] = @ - 1]
    /\ UNCHANGED <<vars, token, returned, runs, history>>

(* A tick with a free permit: claim_next is called.  Were the token         *)
(* cancelled already, select! would drop the call before anything is sent. *)
tick(w) ==
    /\ phase[w] = "polling"
    /\ w \notin token
    /\ permits[w] > 0
    /\ Become(w, "claiming")
    /\ permits' = [permits EXCEPT ![w] = @ - 1]
    /\ UNCHANGED <<vars, token, returned, runs, history>>

(* claim_next finds a row and commits. *)
claim(w, i) ==
    /\ phase[w] = "claiming"
    /\ claim_next(w, WorkerQueue[w], i)
    /\ Become(w, "claimed")
    /\ returned' = [returned EXCEPT ![w] =
           [worker |-> w, task |-> i, attempt |-> tasks[i].attempts + 1,
            until |-> now + LeaseDuration, awaited |-> TRUE]]
    /\ UNCHANGED <<token, permits, runs, history>>

(* Ok(None), or an error before the commit. *)
claim_nothing(w) ==
    /\ phase[w] = "claiming"
    /\ StorageErrors \/ Claimable(WorkerQueue[w], WorkerRegion[w]) = {}
    /\ Become(w, "polling")
    /\ DropPermit(w)
    /\ UNCHANGED <<vars, token, returned, runs, history>>

(* TryFrom<TaskRow> accepts the row the claim returned. *)
Delivered(w) ==
    /\ phase[w] = "claimed"
    /\ returned[w].attempt <= tasks[returned[w].task].max_attempts

(* Ok(Some(task)) with the token not cancelled: the handler is spawned. *)
dispatch_task(w) ==
    /\ Delivered(w)
    /\ w \notin token
    /\ Become(w, "polling")
    /\ Received(w)
    /\ runs' = runs \cup {returned[w]}
    /\ executed' = executed \cup {returned[w].task}
    /\ UNCHANGED <<vars, token, permits, strayed>>

(* Ok(Some(task)) with the token cancelled: the lease is given back.  The  *)
(* result of release_lease_for_task is ignored, an error too.              *)
claim_cancelled(w) ==
    /\ Delivered(w)
    /\ w \in token
    /\ Become(w, "draining")
    /\ Received(w)
    /\ DropPermit(w)
    /\ \/ release_lease_for_task(returned[w].task)
       \/ /\ StorageErrors \/ returned[w].task \notin InStatus("running")
          /\ UNCHANGED vars
    /\ UNCHANGED <<token, runs, history>>

(* Faulty: the permit is kept. *)
claim_backoff_leaking(w) ==
    /\ phase[w] = "claimed"
    /\ StorageErrors \/ ~Delivered(w)
    /\ Become(w, "polling")
    /\ Received(w)
    /\ UNCHANGED <<vars, token, permits, runs, history>>

(* Err although the claim was committed: the row cannot be read, or the    *)
(* answer to COMMIT is lost.                                               *)
claim_backoff(w) ==
    /\ phase[w] = "claimed"
    /\ StorageErrors \/ ~Delivered(w)
    /\ Become(w, "polling")
    /\ Received(w)
    /\ DropPermit(w)
    /\ UNCHANGED <<vars, token, runs, history>>

(* The token fires while the claim is awaited: the future is dropped,      *)
(* after its COMMIT was sent.                                              *)
claim_dropped(w) ==
    /\ phase[w] = "claimed"
    /\ w \in token
    /\ Become(w, "draining")
    /\ Received(w)
    /\ DropPermit(w)
    /\ UNCHANGED <<vars, token, runs, history>>

(* The token is seen between claims, or during one that did not commit. *)
stop_polling(w) ==
    /\ w \in token
    /\ \/ phase[w] = "polling" /\ UNCHANGED permits
       \/ phase[w] = "claiming" /\ DropPermit(w)
    /\ Become(w, "draining")
    /\ UNCHANGED <<vars, token, returned, runs, history>>

-----------------------------------------------------------------------------
(* dispatch_task after the handler was spawned *)

(* Faulty: the outcome is written without looking at the status. *)
ReportUnchecked(i, outcome) ==
    /\ UpdateRows({i}, LAMBDA r :
           [r EXCEPT !.status = IF outcome = "ok" THEN "completed" ELSE "failed"])
    /\ UNCHANGED task_audit_log

(* An error, a panic and a missing handler are all recorded by fail. *)
handle_task_failure(i) == fail(i)

(* What is recorded for an outcome. *)
Report(i, outcome) ==
    \/ outcome = "ok" /\ complete(i)
    \/ outcome = "err" /\ handle_task_failure(i)
    \/ outcome = "suspend" /\ suspend(i)

(* The awaited handler ends and its outcome is recorded, whoever holds the *)
(* row; when the row is not running any more, or the database refuses, the *)
(* error is only logged.                                                   *)
report(e) ==
    /\ e \in runs
    /\ e.awaited
    /\ \/ \E outcome \in Outcomes : Report(e.task, outcome)
       \/ /\ StorageErrors \/ e.task \notin InStatus("running")
          /\ UNCHANGED vars
    /\ runs' = runs \ {e}
    /\ DropPermit(e.worker)
    /\ UNCHANGED <<phase, token, returned, history>>

(* A handler nobody awaits any more ends. *)
end_unawaited(e) ==
    /\ e \in runs
    /\ ~e.awaited
    /\ runs' = runs \ {e}
    /\ UNCHANGED <<vars, phase, token, returned, permits, history>>

(* TaskContext::checkpoint, from inside a handler. *)
checkpoint(e) ==
    /\ e \in runs
    /\ write_checkpoint(e.task, e.worker)
    /\ UNCHANGED <<engine, history>>

-----------------------------------------------------------------------------
(* Shutdown: IronDefer::start after the poll loop *)

cancel_token(w) ==
    /\ w \in Stoppable \ token
    /\ token' = token \cup {w}
    /\ UNCHANGED <<vars, phase, returned, permits, runs, history>>

(* drain_join_set finishes within shutdown_timeout. *)
drained(w) ==
    /\ phase[w] = "draining"
    /\ Awaited(w) = {}
    /\ Become(w, "stopped")
    /\ UNCHANGED <<vars, token, returned, permits, runs, history>>

(* Faulty: the drain waits for the handlers without a timeout. *)
drain_timeout_never(w) ==
    /\ phase[w] = "draining"
    /\ Awaited(w) = {}
    /\ Become(w, "aborted")
    /\ UNCHANGED <<vars, token, returned, permits, runs, history>>

(* It does not: abort_all, which leaves the handlers running unawaited. *)
drain_timeout(w) ==
    /\ phase[w] = "draining"
    /\ Awaited(w) # {}
    /\ Become(w, "aborted")
    /\ runs' = (runs \ Awaited(w)) \cup {[e EXCEPT !.awaited = FALSE] : e \in Awaited(w)}
    /\ permits' = [permits EXCEPT ![w] = Concurrency]
    /\ strayed' = strayed \cup {e.task : e \in Awaited(w)}
    /\ UNCHANGED <<vars, token, returned, executed>>

(* Then the leases are released; an error is only logged. *)
release_leases(w) ==
    /\ phase[w] = "aborted"
    /\ Become(w, "stopped")
    /\ \/ release_leases_for_worker(w)
       \/ (StorageErrors \/ HeldBy(w) = {}) /\ UNCHANGED vars
    /\ UNCHANGED <<token, returned, permits, runs, history>>

(* The process dies, and every handler with it. *)
crash(w) ==
    /\ w \in Crashable
    /\ phase[w] # "stopped" \/ \E e \in runs : e.worker = w
    /\ Become(w, "stopped")
    /\ Received(w)
    /\ permits' = [permits EXCEPT ![w] = Concurrency]
    /\ runs' = {e \in runs : e.worker # w}
    /\ UNCHANGED <<vars, token, history>>

-----------------------------------------------------------------------------
(* The sweeper of a running engine.  The three calls of a cycle come in    *)
(* this order, but each may fail without stopping the cycle, so any        *)
(* sequence of effective calls is possible.                                *)

recover(w) ==
    /\ phase[w] # "stopped"
    /\ recover_zombie_tasks
    /\ UNCHANGED <<engine, history>>

cleanup(w) ==
    /\ phase[w] # "stopped"
    /\ cleanup_expired_idempotency_keys
    /\ UNCHANGED <<engine, history>>

expire(w) ==
    /\ phase[w] # "stopped"
    /\ expire_suspended_tasks
    /\ UNCHANGED <<engine, history>>

-----------------------------------------------------------------------------
(* The environment *)

(* A submission that passes validation, with or without a key. *)
enqueue_raw(i) ==
    /\ save(i) \/ save_idempotent(i)
    /\ UNCHANGED <<engine, history>>

delete_task(i) ==
    /\ cancel(i)
    /\ UNCHANGED <<engine, history>>

signal_task(i) ==
    /\ signal(i)
    /\ UNCHANGED <<engine, history>>

client(i) == enqueue_raw(i) \/ delete_task(i) \/ signal_task(i)

(* Some row still waits for the clock. *)
Waiting ==
    \E i \in Present :
        \/ tasks[i].status = "pending" /\ tasks[i].scheduled_at > now
        \/ tasks[i].status = "running" /\ tasks[i].claimed_until >= now
        \/ tasks[i].status = "suspended" /\ tasks[i].suspended_at >= now - SuspendTimeout
        \/ ~Live(tasks[i]) /\ tasks[i].idempotency_key # NULL
                           /\ tasks[i].idempotency_expires_at >= now

(* Time passes while it makes a difference: past the last deadline no      *)
(* comparison with the clock changes, so the clock needs no bound.         *)
pass_time ==
    /\ Waiting
    /\ Tick
    /\ strayed' = strayed \cup {e.task : e \in {f \in runs \cup InTransit : f.until < now + 1}}
    /\ UNCHANGED <<engine, executed>>

PollStep(w) ==
    \/ tick(w) \/ claim_nothing(w) \/ dispatch_task(w) \/ claim_cancelled(w) \/ claim_backoff(w)
    \/ claim_dropped(w) \/ stop_polling(w)

DrainStep(w) == drained(w) \/ drain_timeout(w) \/ release_leases(w)

EngineNext ==
    \/ \E w \in Workers : \E i \in Tasks : claim(w, i)
    \/ \E w \in Workers : PollStep(w) \/ DrainStep(w) \/ cancel_token(w) \/ crash(w)
    \/ \E e \in runs : report(e) \/ end_unawaited(e) \/ checkpoint(e)
    \/ \E w \in Workers : recover(w) \/ cleanup(w) \/ expire(w)
    \/ \E i \in Tasks : client(i)
    \/ pass_time

EngineSpec == EngineInit /\ [][EngineNext]_allVars

-----------------------------------------------------------------------------
(* Fairness: the clock runs; the tokio runtime keeps polling the loops of  *)
(* an engine; the database, asked again and again, serves a claim and a    *)
(* sweeper's call.                                                         *)

EngineFairness ==
    /\ WF_allVars(pass_time)
    /\ \A w \in Workers :
          /\ SF_allVars(\E i \in Tasks : claim(w, i))
          /\ WF_allVars(PollStep(w))
          /\ WF_allVars(DrainStep(w))
          /\ WF_allVars(w \notin token /\ recover(w))
          /\ WF_allVars(w \notin token /\ expire(w))

LiveSpec == EngineSpec /\ EngineFairness

(* Handlers end, which is up to the application and not assumed above. *)
HandlersEnd ==
    \A w \in Workers, i \in Tasks :
        WF_allVars(\E e \in runs : e.worker = w /\ e.task = i /\ (report(e) \/ end_unawaited(e)))

-----------------------------------------------------------------------------
(* Properties *)

(* What the engines do to the tables is what TaskStore allows: all that    *)
(* holds of TaskStore for any callers holds of these.                      *)
ImplementsStore == Spec

(* Every variable of the engines has its type. *)
EngineTypeOK ==
    /\ phase \in [Workers -> Phases]
    /\ token \subseteq Workers
    /\ returned \in [Workers -> Attempt \cup {NULL}]
    /\ permits \in [Workers -> 0..Concurrency]
    /\ runs \subseteq Attempt
    /\ executed \subseteq Tasks
    /\ strayed \subseteq Tasks

(* The row is held by this very attempt. *)
Owns(e) ==
    /\ tasks[e.task].status = "running"
    /\ tasks[e.task].claimed_by = e.worker
    /\ tasks[e.task].attempts = e.attempt

(* As long as no claim of a task outlived its lease or its engine's drain, *)
(* whoever executes the task holds its row: at most one handler works on   *)
(* it, and the outcome it reports is recorded for its own attempt although *)
(* complete, fail and suspend do not ask for the claim.                    *)
OnTimeAttemptOwnsRow ==
    \A e \in runs \cup InTransit : e.task \notin strayed => Owns(e)

(* `iron-defer workers` shows at least the attempts a worker makes on time, *)
(* those it has claimed and not dispatched included: no attempt that still  *)
(* owns its row is missing from tasks_in_flight.                            *)
StatusShowsAttempts ==
    \A w \in Workers :
        LET made == {e \in runs \cup InTransit : e.worker = w /\ e.task \notin strayed}
        IN  made # {} =>
              \E s \in worker_status(WorkerQueue[w]) :
                 s.worker_id = w /\ s.tasks_in_flight >= Cardinality(made)

(* Every permit is free or with one claim or handler of the worker, so no  *)
(* path through the poll loop leaks one and no worker exceeds concurrency. *)
PermitsAccounted ==
    \A w \in Workers :
        phase[w] \in {"polling", "claiming", "claimed", "draining"} =>
            permits[w] + Cardinality(Awaited(w))
                + (IF phase[w] \in {"claiming", "claimed"} THEN 1 ELSE 0) = Concurrency

(* No claim is for ever: whatever happens to its worker, a running task    *)
(* leaves running, if the sweeper of one engine stays up.                  *)
EveryClaimEnds ==
    \A i \in Tasks : StatusOf(i) = "running" ~> StatusOf(i) # "running"

(* Every submitted task comes to an end, suspended ones by the watchdog,   *)
(* if handlers end.                                                        *)
EveryTaskEnds ==
    HandlersEnd => \A i \in Tasks : i \in Present ~> StatusOf(i) \in Terminal

(* A cancelled engine stops, though handlers may not end. *)
ShutdownEnds == \A w \in Workers : w \in token ~> phase[w] = "stopped"

-----------------------------------------------------------------------------
(* Statements of the repository's documents that the code does not keep *)

(* README.md: "iron-defer guarantees at-least-once execution of every      *)
(* submitted task": a task that failed, although no engine crashed and no  *)
(* claim was kept too long, was given to its handler at least once.        *)
FailedTaskWasExecuted ==
    \A i \in InStatus("failed") : i \in executed \cup strayed

(* prd.md, NFR-R3: "no orphaned Running tasks on graceful shutdown": an    *)
(* engine that stopped holds no row.                                       *)
StoppedHoldsNothing ==
    \A w \in Workers : phase[w] = "stopped" => HeldBy(w) = {}
=============================================================================
