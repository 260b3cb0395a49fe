-------------------------- MODULE AdmissionProofs --------------------------
(* What the checks of the entry points let through, for any keys, any       *)
(* budgets, any classes of regions, and with an allow-list or without.      *)
EXTENDS Admission, TLAPS

(* The scheduler's own checks, which every entry point ends with. *)
LEMMA SchedulerChecks ==
    ASSUME NEW r \in Request
    PROVE  /\ scheduler_enqueue_raw(r) =>
                /\ r.kind # "empty" /\ r.region # ""
                /\ r.max_attempts = NULL \/ r.max_attempts >= 1
           /\ scheduler_enqueue_in_tx(r) => r.kind # "empty" /\ r.region # ""
BY DEF scheduler_enqueue_raw, scheduler_enqueue_in_tx, reject_empty_region,
       MaxAttempts_new, TaskKind_try_from

(* enqueue_raw consults the registry and the allow-list. *)
LEMMA RawChecks ==
    ASSUME NEW r \in Request, enqueue_raw(r)
    PROVE  /\ r.queue = "valid" /\ r.kind = "registered"
           /\ r.max_attempts = NULL \/ r.max_attempts >= 1
           /\ r.scheduled_at # "out_of_range"
           /\ r.region \in {NULL, "allowed"} \cup (IF AllowList THEN {} ELSE {"other"})
<1>1. scheduler_enqueue_raw(r) /\ validate_region_authorization(r)
      /\ RegistryHasKind(r) /\ QueueName_try_from(r) /\ validate_scheduled_at(r)
  BY DEF enqueue_raw
<1>2. r.region \in {NULL, "", "malformed", "allowed", "other"}
  BY ArgumentAssumption DEF Request
<1>3. r.region \in {NULL, "allowed"} \cup (IF AllowList THEN {} ELSE {"other"})
  BY <1>1, <1>2 DEF validate_region_authorization, validate_region
<1> QED
  BY <1>1, <1>3, SchedulerChecks
  DEF RegistryHasKind, QueueName_try_from, validate_scheduled_at

(* What a signature cannot express needs no check. *)
LEMMA Absent ==
    ASSUME NEW e \in EntryPoints, NEW r \in Request, Admits(e, r)
    PROVE  /\ e \notin MayHaveKey => r.key = NULL
           /\ e \notin MayHaveRegion => r.region = NULL
           /\ e \notin MayHaveBudget => r.max_attempts = NULL
           /\ e \notin MayHaveSchedule => r.scheduled_at = NULL
           /\ e \in {"enqueue_raw", "enqueue_raw_idempotent"} => r.payload = "json"
BY DEF Admits, Expressible

(* Every entry point, whichever checks it leaves to the scheduler, admits   *)
(* only tasks that can be stored, read back and claimed.  OnlyWorkableTasks *)
(* of Submission says the same of the rows that result.                     *)
THEOREM AdmissionIsSound == AdmissionSound
<1> SUFFICES ASSUME NEW e \in EntryPoints, NEW r \in Request, Admits(e, r)
             PROVE  Workable(r)
  BY DEF AdmissionSound
<1> USE ArgumentAssumption
<1>1. CASE e \in {"enqueue", "enqueue_at"}
  <2>1. enqueue_inner(r)
    BY <1>1 DEF Admits
  <2> QED
    BY <2>1, SchedulerChecks
    DEF Workable, enqueue_inner, QueueName_try_from, PayloadToValue, validate_scheduled_at
<1>2. CASE e \in {"enqueue_raw", "enqueue_raw_idempotent", "enqueue_with_region", "create_task"}
  <2>1. enqueue_raw(r)
    BY <1>2 DEF Admits, enqueue_with_region, enqueue_raw_idempotent, create_task
  <2>2. r.payload = "json"
    BY <1>2, Absent DEF Admits, enqueue_with_region, create_task, PayloadToValue
  <2>3. r.region # ""
    BY <2>1, SchedulerChecks DEF enqueue_raw
  <2> QED
    BY <2>1, <2>2, <2>3, RawChecks DEF Workable
<1>3. CASE e \in {"enqueue_idempotent", "enqueue_idempotent_with_region"}
  <2>1. enqueue_idempotent(r)
    BY <1>3 DEF Admits, enqueue_idempotent_with_region
  <2>2. r.scheduled_at = NULL
    BY <1>3, Absent DEF MayHaveSchedule, MayHaveBudget
  <2> QED
    BY <2>1, <2>2, SchedulerChecks
    DEF Workable, enqueue_idempotent, QueueName_try_from, PayloadToValue
<1>4. CASE e \in Transactional
  <2>1. enqueue_in_tx(r)
    BY <1>4 DEF Transactional, Admits, enqueue_in_tx_idempotent
  <2>2. r.scheduled_at = NULL /\ r.max_attempts = NULL
    BY <1>4, Absent DEF Transactional, MayHaveSchedule, MayHaveBudget
  <2> QED
    BY <2>1, <2>2, SchedulerChecks
    DEF Workable, enqueue_in_tx, QueueName_try_from, PayloadToValue
<1>5. CASE e = "submit"
  <2>1. submit(r)
    BY <1>5 DEF Admits
  <2> QED
    BY <2>1, SchedulerChecks
    DEF Workable, submit, QueueName_try_from, PayloadToValue, validate_scheduled_at
<1> QED
  BY <1>1, <1>2, <1>3, <1>4, <1>5 DEF EntryPoints, Transactional

(* What POST /tasks lets through, exactly: its checks, spread over handler, *)
(* enqueue_raw and scheduler, are neither too weak nor too strong.          *)
THEOREM RestAdmissionIsExact == RestAdmission
<1> SUFFICES ASSUME NEW r \in Request
             PROVE  Admits("create_task", r) <=>
                      /\ Workable(r) /\ r.kind = "registered" /\ r.key # BadKey
                      /\ r.region \in {NULL, "allowed"}
                                        \cup (IF AllowList THEN {} ELSE {"other"})
  BY DEF RestAdmission
<1> USE ArgumentAssumption
<1>1. ASSUME Admits("create_task", r)
      PROVE  /\ Workable(r) /\ r.kind = "registered" /\ r.key # BadKey
             /\ r.region \in {NULL, "allowed"} \cup (IF AllowList THEN {} ELSE {"other"})
  <2>1. create_task(r)
    BY <1>1 DEF Admits
  <2>2. enqueue_raw(r) /\ r.key # BadKey
    BY <2>1 DEF create_task, enqueue_raw_idempotent, validate_idempotency_key
  <2>3. Workable(r)
    BY <1>1, AdmissionIsSound DEF AdmissionSound, EntryPoints
  <2> QED
    BY <2>2, <2>3, RawChecks
<1>2. ASSUME Workable(r), r.kind = "registered", r.key # BadKey,
             r.region \in {NULL, "allowed"} \cup (IF AllowList THEN {} ELSE {"other"})
      PROVE  Admits("create_task", r)
  <2>1. validate_region_authorization(r)
    BY <1>2 DEF validate_region_authorization, validate_region
  <2>2. scheduler_enqueue_raw(r) /\ MaxAttempts_new(r) /\ TaskKind_try_from(r)
    BY <1>2 DEF scheduler_enqueue_raw, reject_empty_region, MaxAttempts_new,
                TaskKind_try_from, Workable
  <2>3. enqueue_raw(r)
    BY <1>2, <2>1, <2>2
    DEF enqueue_raw, RegistryHasKind, validate_scheduled_at, QueueName_try_from, Workable
  <2>4. create_task(r)
    BY <1>2, <2>3 DEF create_task, enqueue_raw_idempotent, validate_idempotency_key,
                      PayloadToValue, Workable
  <2>5. Expressible("create_task", r)
    BY DEF Expressible, MayHaveKey, Keyed, MayHaveRegion, NeedsRegion, EntryPoints,
           MayHaveBudget, MayHaveSchedule
  <2> QED
    BY <2>4, <2>5 DEF Admits
<1> QED
  BY <1>1, <1>2

(* Through the library and POST /tasks no kind without a handler and no key *)
(* of illegal length gets in.                                               *)
THEOREM EngineAdmissionChecked == EngineAdmission
<1> SUFFICES ASSUME NEW e \in EntryPoints \ {"submit"}, NEW r \in Request, Admits(e, r)
             PROVE  r.kind = "registered" /\ r.key # BadKey
  BY DEF EngineAdmission
<1> USE ArgumentAssumption
<1>1. r.kind = "registered"
  BY DEF EntryPoints, Admits, enqueue_inner, enqueue_with_region, enqueue_idempotent,
         enqueue_idempotent_with_region, enqueue_in_tx, enqueue_in_tx_idempotent,
         enqueue_raw, enqueue_raw_idempotent, create_task, RegistryHasKind
<1>2. r.key # BadKey
  <2>1. CASE e \notin MayHaveKey
    BY <2>1, Absent
  <2>2. CASE e \in MayHaveKey
    BY <2>2 DEF MayHaveKey, Keyed, Admits, enqueue_idempotent, enqueue_idempotent_with_region,
                enqueue_in_tx_idempotent, enqueue_raw_idempotent, create_task,
                validate_idempotency_key
  <2> QED
    BY <2>1, <2>2
<1> QED
  BY <1>1, <1>2
=============================================================================
