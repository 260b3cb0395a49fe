----------------------------- MODULE Admission -----------------------------
(***************************************************************************)
(* Which submissions iron-defer accepts, for every entry point: the        *)
(* library methods of IronDefer (crates/api/src/lib.rs), POST /tasks and   *)
(* `iron-defer submit`.  Each entry point makes its own selection of the   *)
(* checks below, then hands over to SchedulerService, which makes a few    *)
(* again.                                                                  *)
(*                                                                         *)
(* A request is reduced to what the checks tell apart: an argument is      *)
(* represented by the class of values it falls in.  All checks fail with   *)
(* InvalidPayload, so their order does not show and an entry point is the  *)
(* conjunction of its checks.                                              *)
(***************************************************************************)
EXTENDS Integers

CONSTANTS
    Keys,        \* idempotency keys of 1 to 250 bytes
    BadKey,      \* a key that is empty or has more than 250 bytes
    Budgets,     \* values callers pass as max_attempts
    Regions,     \* classes of regions callers pass
    AllowList,   \* TRUE if ProducerConfig.allowed_regions is not empty
    NULL         \* an absent argument

(* The arguments a caller can pass, by class. *)
Request ==
    [queue : {"valid", "invalid"},
     kind : {"registered", "unknown", "empty"},
     payload : {"json", "unserializable"},
     scheduled_at : {NULL, "in_range", "out_of_range"},
     max_attempts : {NULL} \cup Budgets,
     key : Keys \cup {BadKey, NULL},
     region : {NULL} \cup Regions]

ASSUME ArgumentAssumption ==
    /\ AllowList \in BOOLEAN
    /\ Regions \subseteq {"", "malformed", "allowed", "other"}
    /\ BadKey \notin Keys
    /\ NULL \notin Keys \cup {BadKey}
    /\ NULL \notin {"", "malformed", "allowed", "other", "in_range", "out_of_range"}
    /\ Budgets \subseteq Int /\ NULL \notin Int

-----------------------------------------------------------------------------
(* The checks *)

QueueName_try_from(r) == r.queue = "valid"

TaskKind_try_from(r) == r.kind # "empty"

(* Faulty: zero attempts pass. *)
MaxAttempts_new_zero(r) == r.max_attempts # NULL => r.max_attempts >= 0

MaxAttempts_new(r) == r.max_attempts # NULL => r.max_attempts >= 1

RegistryHasKind(r) == r.kind = "registered"

PayloadToValue(r) == r.payload = "json"

validate_region(r) == r.region \notin {"", "malformed"}

validate_region_authorization(r) ==
    r.region # NULL => /\ validate_region(r)
                       /\ AllowList => r.region = "allowed"

reject_empty_region(r) == r.region # ""

validate_idempotency_key(r) == r.key # BadKey

validate_scheduled_at(r) == r.scheduled_at # "out_of_range"

(* What SchedulerService::enqueue_raw and enqueue_raw_idempotent check. *)
scheduler_enqueue_raw(r) ==
    /\ reject_empty_region(r)
    /\ MaxAttempts_new(r)
    /\ TaskKind_try_from(r)

(* What its enqueue_in_tx and enqueue_in_tx_idempotent check; they take no  *)
(* max_attempts.                                                            *)
scheduler_enqueue_in_tx(r) ==
    /\ reject_empty_region(r)
    /\ TaskKind_try_from(r)

-----------------------------------------------------------------------------
(* The entry points *)

enqueue_inner(r) ==
    /\ RegistryHasKind(r)
    /\ QueueName_try_from(r)
    /\ validate_scheduled_at(r)
    /\ PayloadToValue(r)
    /\ scheduler_enqueue_raw(r)

enqueue_raw(r) ==
    /\ validate_region_authorization(r)
    /\ TaskKind_try_from(r)
    /\ RegistryHasKind(r)
    /\ MaxAttempts_new(r)
    /\ validate_scheduled_at(r)
    /\ QueueName_try_from(r)
    /\ scheduler_enqueue_raw(r)

enqueue_raw_idempotent(r) ==
    /\ validate_idempotency_key(r)
    /\ enqueue_raw(r)

enqueue_with_region(r) ==
    /\ validate_region_authorization(r)
    /\ RegistryHasKind(r)
    /\ PayloadToValue(r)
    /\ enqueue_raw(r)

enqueue_idempotent(r) ==
    /\ validate_idempotency_key(r)
    /\ RegistryHasKind(r)
    /\ QueueName_try_from(r)
    /\ PayloadToValue(r)
    /\ scheduler_enqueue_raw(r)

(* The allow-list is not consulted here. *)
enqueue_idempotent_with_region(r) ==
    /\ validate_region(r)
    /\ enqueue_idempotent(r)

(* Of the region only its presence is checked in the transactional calls. *)
enqueue_in_tx(r) ==
    /\ reject_empty_region(r)
    /\ RegistryHasKind(r)
    /\ QueueName_try_from(r)
    /\ PayloadToValue(r)
    /\ scheduler_enqueue_in_tx(r)

enqueue_in_tx_idempotent(r) ==
    /\ validate_idempotency_key(r)
    /\ enqueue_in_tx(r)

(* POST /tasks: with a key or without one. *)
create_task(r) ==
    /\ PayloadToValue(r)
    /\ IF r.key # NULL THEN enqueue_raw_idempotent(r) ELSE enqueue_raw(r)

(* `iron-defer submit` has no registry and goes to the scheduler directly;  *)
(* RFC 3339 has no year outside the range of timestamptz.                   *)
submit(r) ==
    /\ PayloadToValue(r)
    /\ QueueName_try_from(r)
    /\ validate_scheduled_at(r)
    /\ MaxAttempts_new(r)
    /\ scheduler_enqueue_raw(r)

EntryPoints ==
    {"enqueue", "enqueue_at", "enqueue_with_region", "enqueue_idempotent",
     "enqueue_idempotent_with_region", "enqueue_in_tx", "enqueue_in_tx_idempotent",
     "enqueue_raw", "enqueue_raw_idempotent", "create_task", "submit"}

(* Entry points that work in the caller's transaction. *)
Transactional == {"enqueue_in_tx", "enqueue_in_tx_idempotent"}

(* Entry points that always carry a key, that may carry one, and that may  *)
(* carry the other optional arguments.                                     *)
Keyed ==
    {"enqueue_idempotent", "enqueue_idempotent_with_region",
     "enqueue_in_tx_idempotent", "enqueue_raw_idempotent"}
MayHaveKey == Keyed \cup {"create_task", "submit"}
MayHaveRegion ==
    EntryPoints \ {"enqueue", "enqueue_at", "enqueue_idempotent", "submit"}
NeedsRegion == {"enqueue_with_region", "enqueue_idempotent_with_region"}
MayHaveBudget == {"enqueue_raw", "enqueue_raw_idempotent", "create_task", "submit"}
MayHaveSchedule == MayHaveBudget \cup {"enqueue_at"}

(* The requests the signature of an entry point can express; the raw calls  *)
(* take a payload that is a JSON value already.                             *)
Expressible(e, r) ==
    /\ r.key # NULL => e \in MayHaveKey
    /\ r.key = NULL => e \notin Keyed
    /\ r.region # NULL => e \in MayHaveRegion
    /\ r.region = NULL => e \notin NeedsRegion
    /\ r.max_attempts # NULL => e \in MayHaveBudget
    /\ r.scheduled_at # NULL => e \in MayHaveSchedule
    /\ r.payload # "json" => e \notin {"enqueue_raw", "enqueue_raw_idempotent"}

(* The request passes the checks of the entry point. *)
Admits(e, r) ==
    /\ Expressible(e, r)
    /\ \/ e \in {"enqueue", "enqueue_at"} /\ enqueue_inner(r)
       \/ e = "enqueue_with_region" /\ enqueue_with_region(r)
       \/ e = "enqueue_idempotent" /\ enqueue_idempotent(r)
       \/ e = "enqueue_idempotent_with_region" /\ enqueue_idempotent_with_region(r)
       \/ e = "enqueue_in_tx" /\ enqueue_in_tx(r)
       \/ e = "enqueue_in_tx_idempotent" /\ enqueue_in_tx_idempotent(r)
       \/ e = "enqueue_raw" /\ enqueue_raw(r)
       \/ e = "enqueue_raw_idempotent" /\ enqueue_raw_idempotent(r)
       \/ e = "create_task" /\ create_task(r)
       \/ e = "submit" /\ submit(r)

-----------------------------------------------------------------------------
(* Properties *)

(* A task that can be stored and worked on: TryFrom<TaskRow> gives back a   *)
(* record of its row (postgres_task_repository.rs 150), its columns can     *)
(* hold payload and time, and its region is none or one a worker can have   *)
(* in its configuration, which reject_empty_region takes the empty one not  *)
(* to be.                                                                   *)
Workable(r) ==
    /\ r.queue = "valid" /\ r.kind # "empty"
    /\ r.max_attempts = NULL \/ r.max_attempts >= 1
    /\ r.payload = "json" /\ r.scheduled_at # "out_of_range"
    /\ r.region # ""

(* Each of the eleven entry points, with its own selection of checks, lets  *)
(* only workable tasks through.                                             *)
AdmissionSound ==
    \A e \in EntryPoints, r \in Request : Admits(e, r) => Workable(r)

(* POST /tasks, the one entry point with untrusted arguments, admits        *)
(* exactly the workable tasks of registered kinds, with a legal key or      *)
(* none, in no region or in a well-formed one of the producer's list.       *)
RestAdmission ==
    \A r \in Request :
        Admits("create_task", r) <=>
            /\ Workable(r) /\ r.kind = "registered" /\ r.key # BadKey
            /\ r.region \in {NULL, "allowed"} \cup (IF AllowList THEN {} ELSE {"other"})

(* An engine takes no task it has no handler for, and no key that is too    *)
(* long: of the entry points only the command line is not an engine's.      *)
EngineAdmission ==
    \A e \in EntryPoints \ {"submit"}, r \in Request :
        Admits(e, r) => r.kind = "registered" /\ r.key # BadKey
=============================================================================
