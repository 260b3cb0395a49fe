-------------------------- MODULE TaskStoreProofs --------------------------
(***************************************************************************)
(* Proofs about TaskStore, for any sets of tasks, workers, queues, keys    *)
(* and regions and any configuration that ConfigAssumption allows.         *)
(*                                                                         *)
(* The argument has two layers.  StepCases reduces the fifteen repository  *)
(* operations to what one step can do to ONE row and its audit trail       *)
(* (RowStep): bulk updates of the sweeper move many rows, but each of them *)
(* in one of these ways.  The invariants are then shown of RowStep alone.  *)
(***************************************************************************)
EXTENDS TaskStore, TLAPS

(* Row i becomes row s, with audit row e if the audit log is on. *)
Moved(i, s, e) ==
    /\ tasks'[i] = s
    /\ task_audit_log'[i] = IF AuditLog THEN Append(task_audit_log[i], e)
                                        ELSE task_audit_log[i]

(* Row i becomes row s without a change of status, hence unaudited. *)
Touched(i, s) ==
    /\ tasks'[i] = s
    /\ task_audit_log'[i] = task_audit_log[i]

ClaimStep(i) ==
    /\ tasks[i].status = "pending"
    /\ tasks[i].scheduled_at <= now
    /\ \E w \in Workers :
          /\ tasks[i].region \in {NULL, WorkerRegion[w]}
          /\ Moved(i, Claimed(tasks[i], w), AuditEntry("pending", "running", w))

CompleteStep(i) ==
    Moved(i, [tasks[i] EXCEPT !.status = "completed", !.checkpoint = NULL],
          AuditEntry("running", "completed", tasks[i].claimed_by))

RequeueStep(i) ==
    \E at \in Nat : Moved(i, Requeued(tasks[i], at), AuditEntry("running", "pending", NULL))

FailStep(i) ==
    \E w \in {NULL, tasks[i].claimed_by} :
        Moved(i, Failed(tasks[i]), AuditEntry("running", "failed", w))

ReleaseStep(i) ==
    \E w \in {NULL, tasks[i].claimed_by} :
        Moved(i, Released(tasks[i]), AuditEntry("running", "pending", w))

SuspendStep(i) ==
    Moved(i, Suspended(tasks[i]), AuditEntry("running", "suspended", NULL))

CheckpointStep(i) ==
    \E c \in Checkpoints : Touched(i, [tasks[i] EXCEPT !.checkpoint = c])

(* What ends an attempt, or leaves it running. *)
AttemptStep(i) ==
    /\ tasks[i].status = "running"
    /\ \/ CompleteStep(i) \/ RequeueStep(i) \/ FailStep(i)
       \/ ReleaseStep(i) \/ SuspendStep(i) \/ CheckpointStep(i)

CancelStep(i) ==
    /\ tasks[i].status \in {"pending", "suspended"}
    /\ Moved(i, [tasks[i] EXCEPT !.status = "cancelled"],
             AuditEntry(IF tasks[i].suspended_at # NULL THEN "suspended" ELSE "pending",
                        "cancelled", NULL))

SignalStep(i) ==
    /\ tasks[i].status = "suspended"
    /\ Moved(i, [tasks[i] EXCEPT !.status = "pending", !.suspended_at = NULL],
             AuditEntry("suspended", "pending", NULL))

ExpireStep(i) ==
    /\ tasks[i].status = "suspended"
    /\ Moved(i, Failed(tasks[i]), AuditEntry("suspended", "failed", NULL))

CleanupStep(i) ==
    /\ ~Live(tasks[i])
    /\ Touched(i, [tasks[i] EXCEPT !.idempotency_key = NULL, !.idempotency_expires_at = NULL])

RowStep(i) ==
    \/ Touched(i, tasks[i])
    \/ ClaimStep(i)
    \/ AttemptStep(i)
    \/ CancelStep(i)
    \/ SignalStep(i)
    \/ ExpireStep(i)
    \/ CleanupStep(i)

(* Every row present takes a RowStep and none appears. *)
UpdateStep ==
    /\ Present' = Present
    /\ \A i \in Present : RowStep(i)
    /\ \A i \in Tasks \ Present : task_audit_log'[i] = task_audit_log[i]

(* One row appears, with a key no live row of its queue has. *)
InsertStep ==
    \E i \in Tasks \ Present :
    \E q \in Queues, prio \in Priorities, reg \in Regions \cup {NULL},
       max \in Budgets, delay \in StartDelays, key \in Keys \cup {NULL} :
        /\ Present' = Present \cup {i}
        /\ key = NULL \/ KeyHolders(q, key) = {}
        /\ Moved(i, NewRecord(q, prio, reg, max, delay, key), AuditEntry(NULL, "pending", NULL))
        /\ \A j \in Tasks \ {i} : task_audit_log'[j] = task_audit_log[j]
        /\ \A j \in Present : tasks'[j] = tasks[j]

StoreStep ==
    /\ now' = now
    /\ DOMAIN task_audit_log' = Tasks
    /\ UpdateStep \/ InsertStep

-----------------------------------------------------------------------------
(* Every operation of the repository is a StoreStep. *)

(* save and save_idempotent add one well-formed row and leave the others. *)
LEMMA InsertIsStoreStep ==
  ASSUME TypeOK, NEW i \in Tasks, save(i) \/ save_idempotent(i)
  PROVE  StoreStep
<1>1. PICK q \in Queues, prio \in Priorities, reg \in Regions \cup {NULL},
           max \in Budgets, delay \in StartDelays, key \in Keys \cup {NULL} :
           /\ i \notin Present
           /\ key = NULL \/ KeyHolders(q, key) = {}
           /\ InsertRow(i, NewRecord(q, prio, reg, max, delay, key))
  <2>1. CASE save(i)
    BY <2>1 DEF save
  <2>2. CASE save_idempotent(i)
    BY <2>2 DEF save_idempotent
  <2> QED
    BY <2>1, <2>2
<1> DEFINE row == NewRecord(q, prio, reg, max, delay, key)
<1> HIDE DEF row
<1>2. InsertRow(i, row)
  BY <1>1 DEF row
<1>3. /\ Present' = Present \cup {i}
      /\ \A j \in Present : tasks'[j] = tasks[j]
      /\ tasks'[i] = row
      /\ now' = now
  BY <1>1, <1>2 DEF InsertRow, Present
<1>4. /\ DOMAIN task_audit_log' = Tasks
      /\ \A j \in Tasks \ {i} : task_audit_log'[j] = task_audit_log[j]
      /\ task_audit_log'[i] = IF AuditLog
                              THEN Append(task_audit_log[i], AuditEntry(NULL, "pending", NULL))
                              ELSE task_audit_log[i]
  BY <1>2 DEF InsertRow, insert_audit_row
<1>5. Moved(i, NewRecord(q, prio, reg, max, delay, key), AuditEntry(NULL, "pending", NULL))
  BY <1>3, <1>4 DEF Moved, row
<1>6. InsertStep
  BY <1>1, <1>3, <1>4, <1>5, Zenon DEF InsertStep
<1> QED
  BY <1>3, <1>4, <1>6 DEF StoreStep

(* An operation that updates rows only: the frame it shares with the others. *)
LEMMA UpdateFrame ==
  ASSUME TypeOK, Present' = Present, now' = now, DOMAIN task_audit_log' = Tasks,
         \A i \in Present : RowStep(i),
         \A i \in Tasks \ Present : task_audit_log'[i] = task_audit_log[i]
  PROVE  StoreStep
  BY DEF StoreStep, UpdateStep

(* claim_next moves one due row of the worker's region to running. *)
LEMMA ClaimIsStoreStep ==
  ASSUME TypeOK, NEW w \in Workers, NEW q \in Queues, NEW i \in Tasks, claim_next(w, q, i)
  PROVE  StoreStep
<1>1. /\ i \in Present
      /\ tasks[i].status = "pending"
      /\ tasks[i].scheduled_at <= now
      /\ tasks[i].region \in {NULL, WorkerRegion[w]}
  BY DEF claim_next, Claimable, InStatus
<1>2. /\ Present' = Present
      /\ now' = now
      /\ tasks'[i] = Claimed(tasks[i], w)
      /\ \A j \in Present \ {i} : tasks'[j] = tasks[j]
  BY <1>1 DEF claim_next, UpdateRows, Present
<1>3. /\ DOMAIN task_audit_log' = Tasks
      /\ \A j \in Tasks \ {i} : task_audit_log'[j] = task_audit_log[j]
      /\ task_audit_log'[i] = IF AuditLog
                              THEN Append(task_audit_log[i], AuditEntry("pending", "running", w))
                              ELSE task_audit_log[i]
  BY DEF claim_next, insert_audit_row
<1>4. ClaimStep(i)
  BY <1>1, <1>2, <1>3 DEF ClaimStep, Moved
<1>5. \A j \in Present \ {i} : Touched(j, tasks[j])
  BY <1>2, <1>3 DEF Touched, TypeOK
<1>6. \A j \in Present : RowStep(j)
  BY <1>4, <1>5 DEF RowStep
<1> QED
  BY <1>1, <1>2, <1>3, <1>6, UpdateFrame

(* complete, fail, suspend, release_lease_for_task, cancel and signal *)
LEMMA OneRowIsStoreStep ==
  ASSUME TypeOK, NEW i \in Tasks,
         \/ complete(i) \/ fail(i) \/ suspend(i) \/ release_lease_for_task(i)
         \/ cancel(i) \/ signal(i)
  PROVE  StoreStep
<1>1. /\ i \in Present
      /\ Present' = Present
      /\ now' = now
      /\ \A j \in Present \ {i} : tasks'[j] = tasks[j]
  BY DEF complete, fail, suspend, release_lease_for_task, cancel, signal,
         InStatus, UpdateRows, Present
<1>2. /\ DOMAIN task_audit_log' = Tasks
      /\ \A j \in Tasks \ {i} : task_audit_log'[j] = task_audit_log[j]
  BY DEF complete, fail, suspend, release_lease_for_task, cancel, signal, insert_audit_row
<1>3. RowStep(i)
  <2>1. CASE complete(i)
    BY <1>1, <2>1 DEF complete, InStatus, UpdateRows, insert_audit_row,
                      RowStep, AttemptStep, CompleteStep, Moved
  <2>2. CASE fail(i)
    <3>1. tasks[i].status = "running"
      BY <2>2 DEF fail, InStatus
    <3>2. PICK d \in RetryDelays(tasks[i].attempts) :
             UpdateRows({i}, LAMBDA r : RetryOrFail(r, now + d))
      BY <2>2 DEF fail
    <3>3. now + d \in Nat
      BY ConfigAssumption DEF RetryDelays, TypeOK
    <3>4. tasks'[i] = RetryOrFail(tasks[i], now + d)
      BY <1>1, <3>2 DEF UpdateRows
    <3>5. CASE CanRetry(tasks[i])
      <4>1. Moved(i, Requeued(tasks[i], now + d), AuditEntry("running", "pending", NULL))
        BY <1>1, <2>2, <3>4, <3>5 DEF fail, insert_audit_row, Moved, RetryOrFail
      <4> QED
        BY <3>1, <3>3, <4>1 DEF RowStep, AttemptStep, RequeueStep
    <3>6. CASE ~CanRetry(tasks[i])
      <4>1. Moved(i, Failed(tasks[i]), AuditEntry("running", "failed", tasks[i].claimed_by))
        BY <1>1, <2>2, <3>4, <3>6 DEF fail, insert_audit_row, Moved, RetryOrFail
      <4> QED
        BY <3>1, <4>1 DEF RowStep, AttemptStep, FailStep
    <3> QED
      BY <3>5, <3>6
  <2>3. CASE suspend(i)
    BY <1>1, <2>3 DEF suspend, InStatus, UpdateRows, insert_audit_row,
                      RowStep, AttemptStep, SuspendStep, Moved
  <2>4. CASE release_lease_for_task(i)
    BY <1>1, <2>4 DEF release_lease_for_task, InStatus, UpdateRows, insert_audit_row,
                      RowStep, AttemptStep, ReleaseStep, Moved
  <2>5. CASE cancel(i)
    BY <1>1, <2>5 DEF cancel, InStatus, UpdateRows, insert_audit_row,
                      RowStep, CancelStep, Moved
  <2>6. CASE signal(i)
    BY <1>1, <2>6 DEF signal, InStatus, UpdateRows, insert_audit_row,
                      RowStep, SignalStep, Moved
  <2> QED
    BY <2>1, <2>2, <2>3, <2>4, <2>5, <2>6
<1>4. \A j \in Present \ {i} : Touched(j, tasks[j])
  BY <1>1, <1>2 DEF Touched, TypeOK
<1>5. \A j \in Present : RowStep(j)
  BY <1>3, <1>4 DEF RowStep
<1> QED
  BY <1>1, <1>2, <1>5, UpdateFrame

(* recover_zombie_tasks: each zombie is requeued or failed *)
LEMMA RecoverIsStoreStep ==
  ASSUME TypeOK, recover_zombie_tasks
  PROVE  StoreStep
<1> DEFINE zombies == {i \in Present : Zombie(tasks[i])}
<1>1. /\ Present' = Present
      /\ now' = now
      /\ DOMAIN task_audit_log' = Tasks
      /\ \A j \in Tasks \ zombies : task_audit_log'[j] = task_audit_log[j]
      /\ \A j \in Present \ zombies : tasks'[j] = tasks[j]
  BY DEF recover_zombie_tasks, UpdateRows, insert_audit_row, Present
<1>2. ASSUME NEW i \in zombies
      PROVE  RowStep(i)
  <2>1. i \in Tasks /\ tasks[i].status = "running" /\ now \in Nat
    BY DEF Zombie, TypeOK
  <2>2. tasks'[i] = RetryOrFail(tasks[i], now)
    BY DEF recover_zombie_tasks, UpdateRows
  <2>3. CASE CanRetry(tasks[i])
    <3>1. Moved(i, Requeued(tasks[i], now), AuditEntry("running", "pending", NULL))
      BY <2>1, <2>2, <2>3 DEF recover_zombie_tasks, insert_audit_row, Moved, RetryOrFail
    <3> QED
      BY <2>1, <3>1 DEF RowStep, AttemptStep, RequeueStep
  <2>4. CASE ~CanRetry(tasks[i])
    <3>1. Moved(i, Failed(tasks[i]), AuditEntry("running", "failed", NULL))
      BY <2>1, <2>2, <2>4 DEF recover_zombie_tasks, insert_audit_row, Moved, RetryOrFail
    <3> QED
      BY <2>1, <3>1 DEF RowStep, AttemptStep, FailStep
  <2> QED
    BY <2>3, <2>4
<1>3. \A j \in Present \ zombies : Touched(j, tasks[j])
  BY <1>1 DEF Touched, TypeOK
<1>4. \A j \in Present : RowStep(j)
  BY <1>2, <1>3 DEF RowStep
<1> QED
  BY <1>1, <1>4, UpdateFrame

(* release_leases_for_worker: each running row of the worker is released *)
LEMMA ReleaseIsStoreStep ==
  ASSUME TypeOK, NEW w \in Workers, release_leases_for_worker(w)
  PROVE  StoreStep
<1>1. /\ Present' = Present
      /\ now' = now
      /\ DOMAIN task_audit_log' = Tasks
      /\ \A j \in Tasks \ HeldBy(w) : task_audit_log'[j] = task_audit_log[j]
      /\ \A j \in Present \ HeldBy(w) : tasks'[j] = tasks[j]
  BY DEF release_leases_for_worker, UpdateRows, insert_audit_row, Present
<1>2. ASSUME NEW i \in HeldBy(w)
      PROVE  RowStep(i)
  <2>1. i \in Tasks /\ i \in Present /\ tasks[i].status = "running" /\ tasks[i].claimed_by = w
    BY DEF HeldBy, InStatus, TypeOK
  <2>2. Moved(i, Released(tasks[i]), AuditEntry("running", "pending", w))
    BY <2>1 DEF release_leases_for_worker, UpdateRows, insert_audit_row, Moved
  <2> QED
    BY <2>1, <2>2 DEF RowStep, AttemptStep, ReleaseStep
<1>3. \A j \in Present \ HeldBy(w) : Touched(j, tasks[j])
  BY <1>1 DEF Touched, TypeOK
<1>4. \A j \in Present : RowStep(j)
  BY <1>2, <1>3 DEF RowStep
<1>5. HeldBy(w) \subseteq Present
  BY DEF HeldBy, InStatus
<1> QED
  BY <1>1, <1>4, <1>5, UpdateFrame

(* expire_suspended_tasks: each overdue row fails *)
LEMMA ExpireIsStoreStep ==
  ASSUME TypeOK, expire_suspended_tasks
  PROVE  StoreStep
<1> DEFINE overdue == {i \in InStatus("suspended") :
                         /\ tasks[i].suspended_at # NULL
                         /\ tasks[i].suspended_at < now - SuspendTimeout}
<1>1. /\ Present' = Present
      /\ now' = now
      /\ DOMAIN task_audit_log' = Tasks
      /\ \A j \in Tasks \ overdue : task_audit_log'[j] = task_audit_log[j]
      /\ \A j \in Present \ overdue : tasks'[j] = tasks[j]
  BY DEF expire_suspended_tasks, UpdateRows, insert_audit_row, Present
<1>2. ASSUME NEW i \in overdue
      PROVE  RowStep(i)
  <2>1. i \in Tasks /\ i \in Present /\ tasks[i].status = "suspended"
    BY DEF InStatus, TypeOK
  <2>2. Moved(i, Failed(tasks[i]), AuditEntry("suspended", "failed", NULL))
    BY <2>1 DEF expire_suspended_tasks, UpdateRows, insert_audit_row, Moved
  <2> QED
    BY <2>1, <2>2 DEF RowStep, ExpireStep
<1>3. \A j \in Present \ overdue : Touched(j, tasks[j])
  BY <1>1 DEF Touched, TypeOK
<1>4. \A j \in Present : RowStep(j)
  BY <1>2, <1>3 DEF RowStep
<1>5. overdue \subseteq Present
  BY DEF InStatus
<1> QED
  BY <1>1, <1>4, <1>5, UpdateFrame

(* cleanup_expired_idempotency_keys and write_checkpoint are not audited *)
LEMMA CleanupIsStoreStep ==
  ASSUME TypeOK, cleanup_expired_idempotency_keys
  PROVE  StoreStep
<1>1. /\ Present' = Present
      /\ now' = now
      /\ task_audit_log' = task_audit_log
  BY DEF cleanup_expired_idempotency_keys, UpdateRows, Present
<1>2. ASSUME NEW i \in Present
      PROVE  RowStep(i)
  <2>1. \/ tasks'[i] = tasks[i]
        \/ /\ ~Live(tasks[i])
           /\ tasks'[i] = [tasks[i] EXCEPT !.idempotency_key = NULL,
                                           !.idempotency_expires_at = NULL]
    BY DEF cleanup_expired_idempotency_keys, UpdateRows
  <2> QED
    BY <1>1, <2>1 DEF RowStep, CleanupStep, Touched
<1> QED
  BY <1>1, <1>2, UpdateFrame DEF TypeOK

(* write_checkpoint changes one column of one running row. *)
LEMMA CheckpointIsStoreStep ==
  ASSUME TypeOK, NEW i \in Tasks, NEW w \in Workers, write_checkpoint(i, w)
  PROVE  StoreStep
<1>1. PICK c \in Checkpoints : UpdateRows({i}, LAMBDA r : [r EXCEPT !.checkpoint = c])
  BY DEF write_checkpoint
<1>2. /\ Present' = Present
      /\ now' = now
      /\ task_audit_log' = task_audit_log
      /\ i \in Present
      /\ tasks[i].status = "running"
  BY <1>1 DEF write_checkpoint, UpdateRows, Present, HeldBy, InStatus
<1>3. ASSUME NEW j \in Present
      PROVE  RowStep(j)
  <2>1. CASE j = i
    BY <1>1, <1>2, <2>1 DEF UpdateRows, RowStep, AttemptStep, CheckpointStep, Touched
  <2>2. CASE j # i
    BY <1>1, <1>2, <2>2 DEF UpdateRows, RowStep, Touched
  <2> QED
    BY <2>1, <2>2
<1> QED
  BY <1>2, <1>3, UpdateFrame DEF TypeOK

(* A step of the system is a StoreStep or the passing of time. *)
LEMMA StepCases ==
  ASSUME TypeOK, Next
  PROVE  StoreStep \/ Tick
  BY InsertIsStoreStep, ClaimIsStoreStep, OneRowIsStoreStep, RecoverIsStoreStep,
     ReleaseIsStoreStep, ExpireIsStoreStep, CleanupIsStoreStep, CheckpointIsStoreStep
  DEF Next

-----------------------------------------------------------------------------
(* Type correctness *)

(* What insert_audit_row writes is an audit row. *)
LEMMA AuditEntryType ==
  ASSUME NEW from \in Statuses \cup {NULL}, NEW to \in Statuses, NEW w \in Workers \cup {NULL}
  PROVE  AuditEntry(from, to, w) \in AuditRow
  BY DEF AuditEntry, AuditRow

(* The updates of the operations turn rows into rows. *)
LEMMA RowTypes ==
  ASSUME NEW r \in Row, now \in Nat
  PROVE  /\ \A w \in Workers : Claimed(r, w) \in Row
         /\ \A at \in Nat : Requeued(r, at) \in Row
         /\ Released(r) \in Row
         /\ Failed(r) \in Row
         /\ Suspended(r) \in Row
<1>1. ASSUME NEW w \in Workers PROVE Claimed(r, w) \in Row
  <2>1. now + LeaseDuration \in Nat /\ r.attempts + 1 \in Nat
    BY ConfigAssumption DEF Row
  <2> DEFINE until == now + LeaseDuration
             count == r.attempts + 1
  <2> HIDE DEF until, count
  <2>2. [r EXCEPT !.status = "running", !.claimed_by = w,
                  !.claimed_until = until, !.attempts = count] \in Row
    BY <2>1 DEF Row, Statuses, until, count
  <2> QED
    BY <2>2 DEF Claimed, until, count
<1>2. ASSUME NEW at \in Nat PROVE Requeued(r, at) \in Row
  BY DEF Row, Requeued, Statuses
<1>3. Released(r) \in Row
  <2> DEFINE q == Requeued(r, now)
  <2>1. q \in Row
    BY <1>2
  <2> HIDE DEF q
  <2>2. [q EXCEPT !.attempts = @ + 1] \in Row
    BY <2>1 DEF Row
  <2> QED
    BY <2>2 DEF Released, q
<1>4. Failed(r) \in Row
  BY DEF Row, Failed, Statuses
<1>5. Suspended(r) \in Row
  BY DEF Row, Suspended, Statuses
<1> QED
  BY <1>1, <1>2, <1>3, <1>4, <1>5

(* An audited move keeps the types if its row and audit row have them. *)
LEMMA MovedType ==
  ASSUME TypeOK, NEW i \in Tasks, NEW s \in Row, NEW e \in AuditRow, Moved(i, s, e)
  PROVE  tasks'[i] \in Row /\ task_audit_log'[i] \in Seq(AuditRow)
  BY DEF Moved, TypeOK

(* A step of one row keeps the row and its audit rows well typed. *)
LEMMA RowStepType ==
  ASSUME TypeOK, NEW i \in Present, RowStep(i)
  PROVE  tasks'[i] \in Row /\ task_audit_log'[i] \in Seq(AuditRow)
<1> DEFINE r == tasks[i]
<1>1. /\ i \in Tasks
      /\ r \in Row
      /\ r.claimed_by \in Workers \cup {NULL}
      /\ now \in Nat
      /\ task_audit_log[i] \in Seq(AuditRow)
  BY DEF TypeOK, Row
<1>2. CASE Touched(i, tasks[i])
  BY <1>1, <1>2 DEF Touched
<1>3. CASE ClaimStep(i)
  <2>1. PICK w \in Workers : Moved(i, Claimed(r, w), AuditEntry("pending", "running", w))
    BY <1>3 DEF ClaimStep
  <2>2. Claimed(r, w) \in Row /\ AuditEntry("pending", "running", w) \in AuditRow
    BY <1>1, RowTypes, AuditEntryType DEF Statuses
  <2> QED
    BY <1>1, <2>1, <2>2, MovedType
<1>4. CASE AttemptStep(i)
  <2>1. CASE CompleteStep(i)
    <3>1. [r EXCEPT !.status = "completed", !.checkpoint = NULL] \in Row
      BY <1>1 DEF Row, Statuses
    <3>2. AuditEntry("running", "completed", r.claimed_by) \in AuditRow
      BY <1>1, AuditEntryType DEF Statuses
    <3> QED
      BY <1>1, <2>1, <3>1, <3>2, MovedType DEF CompleteStep
  <2>2. CASE RequeueStep(i)
    <3>1. AuditEntry("running", "pending", NULL) \in AuditRow
      BY AuditEntryType DEF Statuses
    <3> QED
      BY <1>1, <2>2, <3>1, RowTypes, MovedType DEF RequeueStep
  <2>3. CASE FailStep(i)
    <3>1. \A w \in {NULL, r.claimed_by} : AuditEntry("running", "failed", w) \in AuditRow
      BY <1>1, AuditEntryType DEF Statuses
    <3> QED
      BY <1>1, <2>3, <3>1, RowTypes, MovedType DEF FailStep
  <2>4. CASE ReleaseStep(i)
    <3>1. \A w \in {NULL, r.claimed_by} : AuditEntry("running", "pending", w) \in AuditRow
      BY <1>1, AuditEntryType DEF Statuses
    <3> QED
      BY <1>1, <2>4, <3>1, RowTypes, MovedType DEF ReleaseStep
  <2>5. CASE SuspendStep(i)
    <3>1. AuditEntry("running", "suspended", NULL) \in AuditRow
      BY AuditEntryType DEF Statuses
    <3> QED
      BY <1>1, <2>5, <3>1, RowTypes, MovedType DEF SuspendStep
  <2>6. CASE CheckpointStep(i)
    BY <1>1, <2>6 DEF CheckpointStep, Touched, Row
  <2> QED
    BY <1>4, <2>1, <2>2, <2>3, <2>4, <2>5, <2>6 DEF AttemptStep
<1>5. CASE CancelStep(i)
  <2>1. [r EXCEPT !.status = "cancelled"] \in Row
    BY <1>1 DEF Row, Statuses
  <2>2. AuditEntry(IF r.suspended_at # NULL THEN "suspended" ELSE "pending", "cancelled", NULL)
          \in AuditRow
    BY AuditEntryType DEF Statuses
  <2> QED
    BY <1>1, <1>5, <2>1, <2>2, MovedType DEF CancelStep
<1>6. CASE SignalStep(i)
  <2>1. [r EXCEPT !.status = "pending", !.suspended_at = NULL] \in Row
    BY <1>1 DEF Row, Statuses
  <2>2. AuditEntry("suspended", "pending", NULL) \in AuditRow
    BY AuditEntryType DEF Statuses
  <2> QED
    BY <1>1, <1>6, <2>1, <2>2, MovedType DEF SignalStep
<1>7. CASE ExpireStep(i)
  <2>1. AuditEntry("suspended", "failed", NULL) \in AuditRow
    BY AuditEntryType DEF Statuses
  <2> QED
    BY <1>1, <1>7, <2>1, RowTypes, MovedType DEF ExpireStep
<1>8. CASE CleanupStep(i)
  BY <1>1, <1>8 DEF CleanupStep, Touched, Row
<1> QED
  BY <1>2, <1>3, <1>4, <1>5, <1>6, <1>7, <1>8 DEF RowStep

(* Without the audit log no step writes an audit row. *)
LEMMA RowStepUnaudited ==
  ASSUME ~AuditLog, NEW i \in Present, RowStep(i)
  PROVE  task_audit_log'[i] = task_audit_log[i]
  BY DEF RowStep, ClaimStep, AttemptStep, CompleteStep, RequeueStep, FailStep, ReleaseStep,
         SuspendStep, CheckpointStep, CancelStep, SignalStep, ExpireStep, CleanupStep,
         Moved, Touched

(* A submission builds a row. *)
LEMMA NewRecordType ==
  ASSUME now \in Nat,
         NEW q \in Queues, NEW prio \in Priorities, NEW reg \in Regions \cup {NULL},
         NEW max \in Budgets, NEW delay \in StartDelays, NEW key \in Keys \cup {NULL}
  PROVE  NewRecord(q, prio, reg, max, delay, key) \in Row
<1>1. now + delay \in Nat /\ now + KeyRetention \in Nat
  BY ConfigAssumption
<1>2. (IF key = NULL THEN NULL ELSE now + KeyRetention) \in Nat \cup {NULL}
  BY <1>1
<1> QED
  BY <1>1, <1>2 DEF NewRecord, IdempotencyExpiry, Row, Statuses

(* Every operation of the repository keeps the tables well typed. *)
LEMMA TypeStep ==
  ASSUME TypeOK, [Next]_vars
  PROVE  TypeOK'
<1>1. CASE UNCHANGED vars
  BY <1>1 DEF vars, TypeOK, Present
<1>2. CASE Tick
  BY <1>2 DEF Tick, TypeOK, Present
<1>3. CASE StoreStep /\ UpdateStep
  <2>1. \A i \in Present : tasks'[i] \in Row /\ task_audit_log'[i] \in Seq(AuditRow)
    BY <1>3, RowStepType DEF UpdateStep
  <2>2. ~AuditLog => \A i \in Present : task_audit_log'[i] = task_audit_log[i]
    BY <1>3, RowStepUnaudited DEF UpdateStep
  <2> QED
    BY <1>3, <2>1, <2>2 DEF StoreStep, UpdateStep, TypeOK
<1>4. CASE StoreStep /\ InsertStep
  <2>1. PICK i \in Tasks \ Present :
        \E q \in Queues, prio \in Priorities, reg \in Regions \cup {NULL},
           max \in Budgets, delay \in StartDelays, key \in Keys \cup {NULL} :
           /\ Present' = Present \cup {i}
           /\ Moved(i, NewRecord(q, prio, reg, max, delay, key), AuditEntry(NULL, "pending", NULL))
           /\ \A j \in Tasks \ {i} : task_audit_log'[j] = task_audit_log[j]
           /\ \A j \in Present : tasks'[j] = tasks[j]
    BY <1>4 DEF InsertStep
  <2>2. AuditEntry(NULL, "pending", NULL) \in AuditRow
    BY AuditEntryType DEF Statuses
  <2>3. tasks'[i] \in Row /\ task_audit_log'[i] \in Seq(AuditRow)
    BY <2>1, <2>2, NewRecordType, MovedType DEF TypeOK
  <2>4. ~AuditLog => task_audit_log'[i] = << >>
    BY <2>1 DEF Moved, TypeOK
  <2> QED
    BY <1>4, <2>1, <2>3, <2>4 DEF StoreStep, TypeOK
<1> QED
  BY <1>1, <1>2, <1>3, <1>4, StepCases DEF StoreStep

(* The tables hold well-typed rows in every reachable state. *)
THEOREM TypeCorrect == Spec => []TypeOK
<1>1. Init => TypeOK
  BY DEF Init, TypeOK, Present, AuditRow
<1>2. TypeOK /\ [Next]_vars => TypeOK'
  BY TypeStep
<1> QED
  BY <1>1, <1>2, PTL DEF Spec

-----------------------------------------------------------------------------
(* The row invariant: what the columns of one row say about each other *)

(* A row that runs or is suspended was due when it was claimed, and no     *)
(* operation moves scheduled_at before the row is pending again.           *)
DueMatches(r) == r.status \in {"running", "suspended"} => r.scheduled_at <= now

RegionMatches(r) == r.claimed_by # NULL => r.region \in {NULL, WorkerRegion[r.claimed_by]}

RowInv(r) == ClaimMatches(r) /\ SuspensionMatches(r) /\ DueMatches(r) /\ RegionMatches(r)

RowsInv == \A i \in Present : RowInv(tasks[i])

(* Each way an operation changes one row keeps the invariant of that row. *)
LEMMA RowStepInv ==
  ASSUME TypeOK, now' = now, NEW i \in Present, RowInv(tasks[i]), RowStep(i)
  PROVE  RowInv(tasks[i])'
<1> DEFINE r == tasks[i]
<1> USE DEF RowInv, ClaimMatches, SuspensionMatches, DueMatches, RegionMatches
<1>1. r \in Row /\ now \in Nat
  BY DEF TypeOK
<1>2. CASE Touched(i, tasks[i])
  BY <1>2 DEF Touched
<1>3. CASE ClaimStep(i)
  <2>1. PICK w \in Workers : /\ r.region \in {NULL, WorkerRegion[w]}
                             /\ tasks'[i] = Claimed(r, w)
    BY <1>3 DEF ClaimStep, Moved
  <2>2. r.status = "pending" /\ r.scheduled_at <= now
    BY <1>3 DEF ClaimStep
  <2>3. now + LeaseDuration \in Nat /\ now + LeaseDuration # NULL
    BY <1>1, ConfigAssumption, NullAssumption
  <2> QED
    BY <1>1, <2>1, <2>2, <2>3, NullAssumption DEF Claimed, Row
<1>4. CASE AttemptStep(i)
  <2>1. r.status = "running"
    BY <1>4 DEF AttemptStep
  <2>2. CASE CompleteStep(i)
    BY <1>1, <2>1, <2>2 DEF CompleteStep, Moved, Row
  <2>3. CASE RequeueStep(i)
    BY <1>1, <2>1, <2>3 DEF RequeueStep, Requeued, Moved, Row
  <2>4. CASE FailStep(i)
    BY <1>1, <2>1, <2>4 DEF FailStep, Failed, Moved, Row
  <2>5. CASE ReleaseStep(i)
    BY <1>1, <2>1, <2>5 DEF ReleaseStep, Released, Requeued, Moved, Row
  <2>6. CASE SuspendStep(i)
    BY <1>1, <2>1, <2>6, NullAssumption DEF SuspendStep, Suspended, Moved, Row
  <2>7. CASE CheckpointStep(i)
    BY <1>1, <2>1, <2>7 DEF CheckpointStep, Touched, Row
  <2> QED
    BY <1>4, <2>2, <2>3, <2>4, <2>5, <2>6, <2>7 DEF AttemptStep
<1>5. CASE CancelStep(i)
  BY <1>1, <1>5 DEF CancelStep, Moved, Row
<1>6. CASE SignalStep(i)
  BY <1>1, <1>6 DEF SignalStep, Moved, Row
<1>7. CASE ExpireStep(i)
  BY <1>1, <1>7 DEF ExpireStep, Failed, Moved, Row
<1>8. CASE CleanupStep(i)
  BY <1>1, <1>8 DEF CleanupStep, Touched, Row
<1> QED
  BY <1>2, <1>3, <1>4, <1>5, <1>6, <1>7, <1>8 DEF RowStep

(* Every operation, and the clock, keeps the invariant of all rows. *)
LEMMA RowsInvStep ==
  ASSUME TypeOK, RowsInv, [Next]_vars
  PROVE  RowsInv'
<1>1. CASE UNCHANGED vars
  BY <1>1 DEF vars, RowsInv, RowInv, ClaimMatches, SuspensionMatches, DueMatches,
              RegionMatches, Present
<1>2. CASE Tick
  <2>1. tasks' = tasks /\ Present' = Present /\ now' = now + 1
    BY <1>2 DEF Tick, Present
  <2>2. ASSUME NEW i \in Present PROVE RowInv(tasks[i])'
    BY <2>1, ConfigAssumption, NullAssumption
    DEF TypeOK, Row, RowsInv, RowInv, ClaimMatches, SuspensionMatches, DueMatches, RegionMatches
  <2> QED
    BY <2>1, <2>2 DEF RowsInv
<1>3. CASE StoreStep /\ UpdateStep
  BY <1>3, RowStepInv DEF StoreStep, UpdateStep, RowsInv
<1>4. CASE StoreStep /\ InsertStep
  <2>1. PICK i \in Tasks \ Present :
        /\ Present' = Present \cup {i}
        /\ \A j \in Present : tasks'[j] = tasks[j]
        /\ \E q \in Queues, prio \in Priorities, reg \in Regions \cup {NULL},
              max \in Budgets, delay \in StartDelays, key \in Keys \cup {NULL} :
              tasks'[i] = NewRecord(q, prio, reg, max, delay, key)
    BY <1>4 DEF InsertStep, Moved
  <2>2. RowInv(tasks[i])'
    BY <2>1 DEF NewRecord, RowInv, ClaimMatches, SuspensionMatches, DueMatches, RegionMatches
  <2>3. \A j \in Present : RowInv(tasks[j])'
    BY <1>4, <2>1 DEF StoreStep, RowsInv, RowInv, ClaimMatches, SuspensionMatches, DueMatches,
                      RegionMatches
  <2> QED
    BY <2>1, <2>2, <2>3 DEF RowsInv
<1> QED
  BY <1>1, <1>2, <1>3, <1>4, StepCases DEF StoreStep

(* The inductive invariant of the rows holds in every reachable state. *)
LEMMA RowsInvariant == Spec => []RowsInv
<1>1. Init => RowsInv
  BY DEF Init, RowsInv, Present
<1>2. TypeOK /\ RowsInv /\ [Next]_vars => RowsInv'
  BY RowsInvStep
<1> QED
  BY <1>1, <1>2, TypeCorrect, PTL DEF Spec

(* Whatever the callers do, a row carries a claim exactly while it runs or *)
(* as the last claimer of a completed or failed task.                      *)
THEOREM ClaimsCorrect == Spec => []ClaimMatchesStatus
<1>1. RowsInv => ClaimMatchesStatus
  BY DEF RowsInv, RowInv, ClaimMatchesStatus
<1> QED
  BY <1>1, RowsInvariant, PTL

(* suspended_at tells whether a row is, or ended, suspended. *)
THEOREM SuspensionsCorrect == Spec => []SuspensionMatchesStatus
<1>1. RowsInv => SuspensionMatchesStatus
  BY DEF RowsInv, RowInv, SuspensionMatchesStatus
<1> QED
  BY <1>1, RowsInvariant, PTL

(* A pinned task is only held by workers of its region. *)
THEOREM RegionsRespected == Spec => []RegionPinned
<1>1. RowsInv => RegionPinned
  BY DEF RowsInv, RowInv, RegionMatches, RegionPinned
<1> QED
  BY <1>1, RowsInvariant, PTL

-----------------------------------------------------------------------------
(* The life cycle and its audit trail *)

(* Row i keeps its status and gets no audit row. *)
StatusKept(i) ==
    /\ tasks'[i].status = tasks[i].status
    /\ task_audit_log'[i] = task_audit_log[i]

(* Row i takes an edge of the life cycle, and its audit row says which. *)
StatusMoved(i) ==
    /\ <<tasks[i].status, tasks'[i].status>> \in Lifecycle!Edges
    /\ \E e \in AuditRow :
          /\ e.from_status = tasks[i].status
          /\ e.to_status = tasks'[i].status
          /\ task_audit_log'[i] = IF AuditLog THEN Append(task_audit_log[i], e)
                                              ELSE task_audit_log[i]

(* A move whose audit row is right is a StatusMoved. *)
LEMMA MovedAlongEdge ==
  ASSUME NEW i, NEW s, NEW w \in Workers \cup {NULL}, NEW from \in Statuses, NEW to \in Statuses,
         Moved(i, s, AuditEntry(from, to, w)),
         tasks[i].status = from, s.status = to, <<from, to>> \in Lifecycle!Edges
  PROVE  StatusMoved(i)
<1>1. AuditEntry(from, to, w) \in AuditRow
  BY AuditEntryType
<1> QED
  BY <1>1 DEF Moved, StatusMoved, AuditEntry

(* What one step does to the status of a row.  The row invariant is needed *)
(* for cancel, whose audit row infers the old status from suspended_at.    *)
LEMMA RowStepStatus ==
  ASSUME TypeOK, NEW i \in Present, RowInv(tasks[i]), RowStep(i)
  PROVE  StatusKept(i) \/ StatusMoved(i)
<1> DEFINE r == tasks[i]
<1>1. r \in Row /\ r.claimed_by \in Workers \cup {NULL}
  BY DEF TypeOK, Row
<1>2. CASE Touched(i, tasks[i])
  BY <1>2 DEF Touched, StatusKept
<1>3. CASE ClaimStep(i)
  <2>1. PICK w \in Workers : Moved(i, Claimed(r, w), AuditEntry("pending", "running", w))
    BY <1>3 DEF ClaimStep
  <2>2. r.status = "pending" /\ Claimed(r, w).status = "running"
    BY <1>1, <1>3 DEF ClaimStep, Claimed, Row
  <2> QED
    BY <2>1, <2>2, MovedAlongEdge DEF Statuses, Lifecycle!Edges
<1>4. CASE AttemptStep(i)
  <2>1. r.status = "running"
    BY <1>4 DEF AttemptStep
  <2>2. CASE CompleteStep(i)
    <3>1. [r EXCEPT !.status = "completed", !.checkpoint = NULL].status = "completed"
      BY <1>1 DEF Row
    <3> QED
      BY <1>1, <2>1, <2>2, <3>1, MovedAlongEdge DEF CompleteStep, Statuses, Lifecycle!Edges
  <2>3. CASE RequeueStep(i)
    <3>1. \A at \in Nat : Requeued(r, at).status = "pending"
      BY <1>1 DEF Requeued, Row
    <3> QED
      BY <2>1, <2>3, <3>1, MovedAlongEdge DEF RequeueStep, Statuses, Lifecycle!Edges
  <2>4. CASE FailStep(i)
    <3>1. Failed(r).status = "failed"
      BY <1>1 DEF Failed, Row
    <3> QED
      BY <1>1, <2>1, <2>4, <3>1, MovedAlongEdge DEF FailStep, Statuses, Lifecycle!Edges
  <2>5. CASE ReleaseStep(i)
    <3>1. Released(r).status = "pending"
      BY <1>1 DEF Released, Requeued, Row
    <3> QED
      BY <1>1, <2>1, <2>5, <3>1, MovedAlongEdge DEF ReleaseStep, Statuses, Lifecycle!Edges
  <2>6. CASE SuspendStep(i)
    <3>1. Suspended(r).status = "suspended"
      BY <1>1 DEF Suspended, Row
    <3> QED
      BY <2>1, <2>6, <3>1, MovedAlongEdge DEF SuspendStep, Statuses, Lifecycle!Edges
  <2>7. CASE CheckpointStep(i)
    BY <1>1, <2>7 DEF CheckpointStep, Touched, StatusKept, Row
  <2> QED
    BY <1>4, <2>2, <2>3, <2>4, <2>5, <2>6, <2>7 DEF AttemptStep
<1>5. CASE CancelStep(i)
  <2> DEFINE s == [r EXCEPT !.status = "cancelled"]
             from == IF r.suspended_at # NULL THEN "suspended" ELSE "pending"
  <2>1. s.status = "cancelled"
    BY <1>1 DEF Row
  <2>2. from = r.status
    BY <1>5 DEF CancelStep, RowInv, SuspensionMatches
  <2>3. Moved(i, s, AuditEntry(from, "cancelled", NULL))
    BY <1>5 DEF CancelStep
  <2>4. r.status \in {"pending", "suspended"}
    BY <1>5 DEF CancelStep
  <2> HIDE DEF s, from
  <2> QED
    BY <2>1, <2>2, <2>3, <2>4, MovedAlongEdge DEF Statuses, Lifecycle!Edges
<1>6. CASE SignalStep(i)
  <2>1. [r EXCEPT !.status = "pending", !.suspended_at = NULL].status = "pending"
    BY <1>1 DEF Row
  <2> QED
    BY <1>6, <2>1, MovedAlongEdge DEF SignalStep, Statuses, Lifecycle!Edges
<1>7. CASE ExpireStep(i)
  <2>1. Failed(r).status = "failed"
    BY <1>1 DEF Failed, Row
  <2> QED
    BY <1>7, <2>1, MovedAlongEdge DEF ExpireStep, Statuses, Lifecycle!Edges
<1>8. CASE CleanupStep(i)
  BY <1>1, <1>8 DEF CleanupStep, Touched, StatusKept, Row
<1> QED
  BY <1>2, <1>3, <1>4, <1>5, <1>6, <1>7, <1>8 DEF RowStep

(* One more audit row keeps a complete trail complete. *)
LEMMA TrailExtended ==
  ASSUME TypeOK, AuditLog, NEW i \in Present, TrailIsComplete(i), StatusKept(i) \/ StatusMoved(i)
  PROVE  TrailIsComplete(i)'
<1> DEFINE log == task_audit_log[i]
<1>1. log \in Seq(AuditRow) /\ Len(log) \in Nat
  BY DEF TypeOK
<1>2. CASE StatusKept(i)
  BY <1>2 DEF StatusKept, TrailIsComplete
<1>3. CASE StatusMoved(i)
  <2>1. PICK e \in AuditRow : /\ e.from_status = tasks[i].status
                              /\ e.to_status = tasks'[i].status
                              /\ task_audit_log'[i] = Append(log, e)
    BY <1>3 DEF StatusMoved
  <2> DEFINE new == Append(log, e)
  <2>2. /\ log # << >> /\ log[1].from_status = NULL
        /\ \A k \in 1..(Len(log) - 1) : log[k].to_status = log[k + 1].from_status
        /\ log[Len(log)].to_status = tasks[i].status
    BY DEF TrailIsComplete
  <2>3. Len(log) >= 1
    BY <1>1, <2>2
  <2>4. /\ Len(new) = Len(log) + 1
        /\ new[Len(log) + 1] = e
        /\ \A k \in 1..Len(log) : new[k] = log[k]
    BY <1>1
  <2>5. \A k \in 1..Len(log) : new[k].to_status = new[k + 1].from_status
    BY <1>1, <2>1, <2>2, <2>3, <2>4
  <2>6. /\ new # << >> /\ new[1].from_status = NULL
        /\ new[Len(new)].to_status = tasks'[i].status
    BY <1>1, <2>1, <2>2, <2>3, <2>4
  <2> HIDE DEF new
  <2> QED
    BY <1>1, <2>1, <2>4, <2>5, <2>6 DEF TrailIsComplete, new
<1> QED
  BY <1>2, <1>3

(* The first audit row of a task. *)
LEMMA TrailStarted ==
  ASSUME TypeOK, AuditLog, StoreStep, NEW i \in Tasks \ Present,
         NEW s, s.status = "pending",
         Moved(i, s, AuditEntry(NULL, "pending", NULL))
  PROVE  TrailIsComplete(i)'
<1> DEFINE e == AuditEntry(NULL, "pending", NULL)
           new == Append(<< >>, e)
<1>1. task_audit_log'[i] = new /\ tasks'[i].status = "pending"
  BY DEF Moved, TypeOK
<1>2. Len(new) = 1 /\ new[1] = e /\ new # << >>
  OBVIOUS
<1>3. e.from_status = NULL /\ e.to_status = "pending"
  BY DEF AuditEntry
<1> HIDE DEF new, e
<1> QED
  BY <1>1, <1>2, <1>3 DEF TrailIsComplete

(* Every operation extends the trails of the rows it changes, and only those. *)
LEMMA AuditTrailStep ==
  ASSUME TypeOK, RowsInv, AuditTrailComplete, [Next]_vars
  PROVE  AuditTrailComplete'
<1> SUFFICES ASSUME AuditLog PROVE (\A i \in Present : TrailIsComplete(i))'
  BY DEF AuditTrailComplete
<1>0. \A i \in Present : TrailIsComplete(i)
  BY DEF AuditTrailComplete
<1>1. CASE UNCHANGED vars
  BY <1>0, <1>1 DEF vars, TrailIsComplete, Present
<1>2. CASE Tick
  BY <1>0, <1>2 DEF Tick, TrailIsComplete, Present
<1>3. CASE StoreStep /\ UpdateStep
  BY <1>0, <1>3, RowStepStatus, TrailExtended DEF UpdateStep, RowsInv
<1>4. CASE StoreStep /\ InsertStep
  <2>1. PICK i \in Tasks \ Present :
        /\ Present' = Present \cup {i}
        /\ \A j \in Present : tasks'[j] = tasks[j]
        /\ \A j \in Tasks \ {i} : task_audit_log'[j] = task_audit_log[j]
        /\ \E q \in Queues, prio \in Priorities, reg \in Regions \cup {NULL},
              max \in Budgets, delay \in StartDelays, key \in Keys \cup {NULL} :
              Moved(i, NewRecord(q, prio, reg, max, delay, key),
                    AuditEntry(NULL, "pending", NULL))
    BY <1>4 DEF InsertStep
  <2>2. TrailIsComplete(i)'
    <3>1. PICK s : s.status = "pending" /\ Moved(i, s, AuditEntry(NULL, "pending", NULL))
      BY <2>1 DEF NewRecord
    <3> QED
      BY <1>4, <3>1, TrailStarted
  <2>3. ASSUME NEW j \in Present PROVE TrailIsComplete(j)'
    <3>1. tasks'[j] = tasks[j] /\ task_audit_log'[j] = task_audit_log[j]
      BY <2>1 DEF TypeOK
    <3> QED
      BY <1>0, <3>1 DEF TrailIsComplete
  <2> QED
    BY <2>1, <2>2, <2>3
<1> QED
  BY <1>1, <1>2, <1>3, <1>4, StepCases DEF StoreStep

(* With the audit log on, the audit rows of every task tell its whole life *)
(* and agree with its row.                                                 *)
THEOREM AuditTrailCorrect == Spec => []AuditTrailComplete
<1>1. Init => AuditTrailComplete
  BY DEF Init, AuditTrailComplete, Present
<1>2. TypeOK /\ RowsInv /\ AuditTrailComplete /\ [Next]_vars => AuditTrailComplete'
  BY AuditTrailStep
<1> QED
  BY <1>1, <1>2, TypeCorrect, RowsInvariant, PTL DEF Spec

(* One step of the tables is a step of the life cycle, or none. *)
LEMMA LifecycleStep ==
  ASSUME TypeOK, RowsInv, [Next]_vars
  PROVE  Lifecycle!Next
<1> DEFINE st == [i \in Tasks |-> StatusOf(i)]
<1>1. /\ DOMAIN st' = Tasks
      /\ \A i \in Tasks : st[i] = StatusOf(i) /\ st'[i] = StatusOf(i)'
  OBVIOUS
<1>2. ASSUME NEW i \in Tasks
      PROVE  \/ StatusOf(i)' = StatusOf(i)
             \/ <<StatusOf(i), StatusOf(i)'>> \in Lifecycle!Edges
  <2>1. CASE UNCHANGED vars \/ Tick
    BY <2>1 DEF vars, Tick, StatusOf, Present
  <2>2. CASE StoreStep /\ UpdateStep
    <3>1. CASE i \in Present
      BY <2>2, <3>1, RowStepStatus DEF UpdateStep, RowsInv, StatusKept, StatusMoved, StatusOf
    <3>2. CASE i \notin Present
      BY <2>2, <3>2 DEF UpdateStep, StatusOf
    <3> QED
      BY <3>1, <3>2
  <2>3. CASE StoreStep /\ InsertStep
    <3>1. PICK k \in Tasks \ Present :
          /\ Present' = Present \cup {k}
          /\ \A j \in Present : tasks'[j] = tasks[j]
          /\ tasks'[k].status = "pending"
      BY <2>3 DEF InsertStep, Moved, NewRecord
    <3>2. CASE i = k
      BY <3>1, <3>2 DEF StatusOf, Lifecycle!Edges
    <3>3. CASE i # k
      BY <3>1, <3>3 DEF StatusOf
    <3> QED
      BY <3>2, <3>3
  <2> QED
    BY <2>1, <2>2, <2>3, StepCases DEF StoreStep
<1> QED
  BY <1>1, <1>2 DEF Lifecycle!Next

(* The tables implement the abstract life cycle: a finished task stays     *)
(* finished whatever late calls workers and sweepers make.                 *)
THEOREM Refinement == Spec => ImplementsLifecycle
<1>1. Init => Lifecycle!Init
  BY DEF Init, Lifecycle!Init, StatusOf, Present
<1>2. TypeOK /\ RowsInv /\ [Next]_vars => Lifecycle!Next
  BY LifecycleStep
<1> QED
  BY <1>1, <1>2, TypeCorrect, RowsInvariant, PTL DEF Spec, ImplementsLifecycle, Lifecycle!Spec

-----------------------------------------------------------------------------
(* Resumption, idempotency keys and finished rows *)

(* A resumed task stays due until it is claimed: no other operation ends   *)
(* a trail with a row from suspended to pending.                           *)
LEMMA ResumedStep ==
  ASSUME TypeOK, RowsInv, ResumedTaskIsDue, now' = now, NEW i \in Present, RowStep(i),
         tasks'[i].status = "pending",
         task_audit_log'[i] # << >>,
         task_audit_log'[i][Len(task_audit_log'[i])].from_status = "suspended"
  PROVE  tasks'[i].scheduled_at <= now
<1> DEFINE r == tasks[i]
           log == task_audit_log[i]
<1>1. /\ r \in Row /\ RowInv(r) /\ now \in Nat
      /\ log \in Seq(AuditRow)
      /\ (r.status = "pending" /\ log # << >> /\ log[Len(log)].from_status = "suspended")
            => r.scheduled_at <= now
  BY DEF TypeOK, RowsInv, ResumedTaskIsDue, InStatus
<1>2. CASE StatusKept(i)
  <2>1. r.status = "pending" /\ task_audit_log'[i] = log
    BY <1>2 DEF StatusKept
  <2>2. tasks'[i] = r
    BY <1>1, <2>1
    DEF RowStep, ClaimStep, AttemptStep, CancelStep, SignalStep, ExpireStep, CleanupStep,
        Moved, Touched, Claimed, Live, Terminal, Row
  <2> QED
    BY <1>1, <2>1, <2>2
<1>3. CASE StatusMoved(i)
  <2>1. PICK e \in AuditRow : /\ e.from_status = r.status
                              /\ task_audit_log'[i] = IF AuditLog THEN Append(log, e) ELSE log
    BY <1>3 DEF StatusMoved
  <2>2. AuditLog
    BY <2>1 DEF TypeOK
  <2>3. r.status = "suspended"
    BY <1>1, <2>1, <2>2
  <2>4. SignalStep(i)
    BY <1>1, <2>3
    DEF RowStep, ClaimStep, AttemptStep, CancelStep, ExpireStep, CleanupStep,
        Moved, Touched, Failed, Live, Terminal, Row
  <2>5. tasks'[i].scheduled_at = r.scheduled_at
    BY <1>1, <2>4 DEF SignalStep, Moved, Row
  <2> QED
    BY <1>1, <2>3, <2>5 DEF RowInv, DueMatches
<1> QED
  BY <1>1, <1>2, <1>3, RowStepStatus

(* A task resumed by signal is due although signal leaves scheduled_at alone. *)
THEOREM ResumedCorrect == Spec => []ResumedTaskIsDue
<1>1. Init => ResumedTaskIsDue
  BY DEF Init, ResumedTaskIsDue, InStatus, Present
<1>2. TypeOK /\ RowsInv /\ ResumedTaskIsDue /\ [Next]_vars => ResumedTaskIsDue'
  <2> SUFFICES ASSUME TypeOK, RowsInv, ResumedTaskIsDue, [Next]_vars
               PROVE  ResumedTaskIsDue'
    OBVIOUS
  <2>1. CASE UNCHANGED vars
    BY <2>1 DEF vars, ResumedTaskIsDue, InStatus, Present
  <2>2. CASE Tick
    BY <2>2 DEF Tick, ResumedTaskIsDue, InStatus, Present, TypeOK, Row
  <2>3. CASE StoreStep /\ UpdateStep
    BY <2>3, ResumedStep DEF StoreStep, UpdateStep, ResumedTaskIsDue, InStatus
  <2>4. CASE StoreStep /\ InsertStep
    <3>1. PICK i \in Tasks \ Present :
          /\ Present' = Present \cup {i}
          /\ \A j \in Present : tasks'[j] = tasks[j]
          /\ \A j \in Tasks \ {i} : task_audit_log'[j] = task_audit_log[j]
          /\ task_audit_log'[i] = IF AuditLog
                                  THEN Append(task_audit_log[i], AuditEntry(NULL, "pending", NULL))
                                  ELSE task_audit_log[i]
      BY <2>4 DEF InsertStep, Moved
    <3>2. task_audit_log'[i] # << >> =>
            task_audit_log'[i][Len(task_audit_log'[i])].from_status = NULL
      BY <3>1 DEF TypeOK, AuditEntry
    <3>3. NULL # "suspended"
      BY NullAssumption DEF Statuses
    <3> QED
      BY <2>4, <3>1, <3>2, <3>3 DEF StoreStep, ResumedTaskIsDue, InStatus, TypeOK
  <2> QED
    BY <2>1, <2>2, <2>3, <2>4, StepCases DEF StoreStep
<1> QED
  BY <1>1, <1>2, TypeCorrect, RowsInvariant, PTL DEF Spec

(* A step never revives a finished row, and changes neither queue nor key  *)
(* of a row except to drop the key.                                        *)
LEMMA RowStepKey ==
  ASSUME TypeOK, NEW i \in Present, RowStep(i)
  PROVE  /\ Live(tasks[i])' => Live(tasks[i])
         /\ tasks'[i].queue = tasks[i].queue
         /\ tasks'[i].idempotency_key \in {tasks[i].idempotency_key, NULL}
<1>1. tasks[i] \in Row
  BY DEF TypeOK
<1>2. Live(tasks[i])' => Live(tasks[i])
  BY <1>1 DEF RowStep, ClaimStep, AttemptStep, CancelStep, SignalStep, ExpireStep, CleanupStep,
              Moved, Touched, Failed, Live, Terminal, Row
<1>3. CASE Touched(i, tasks[i]) \/ CancelStep(i) \/ SignalStep(i) \/ ExpireStep(i) \/ CleanupStep(i)
  BY <1>1, <1>2, <1>3 DEF CancelStep, SignalStep, ExpireStep, CleanupStep, Moved, Touched, Failed, Row
<1>4. CASE ClaimStep(i)
  BY <1>1, <1>2, <1>4 DEF ClaimStep, Claimed, Moved, Row
<1>5. CASE AttemptStep(i)
  BY <1>1, <1>2, <1>5 DEF AttemptStep, CompleteStep, RequeueStep, FailStep, ReleaseStep,
       SuspendStep, CheckpointStep, Requeued, Released, Failed, Suspended, Moved, Touched, Row
<1> QED
  BY <1>3, <1>4, <1>5 DEF RowStep

(* No UPDATE can trip the partial unique index on (queue, idempotency_key): *)
(* save_idempotent checks it, and no finished row comes back to life.       *)
THEOREM KeysUnique == Spec => []OneLiveTaskPerKey
<1>1. Init => OneLiveTaskPerKey
  BY DEF Init, OneLiveTaskPerKey, Present
<1>2. TypeOK /\ OneLiveTaskPerKey /\ [Next]_vars => OneLiveTaskPerKey'
  <2> SUFFICES ASSUME TypeOK, OneLiveTaskPerKey, [Next]_vars
               PROVE  OneLiveTaskPerKey'
    OBVIOUS
  <2>1. CASE UNCHANGED vars
    BY <2>1 DEF vars, OneLiveTaskPerKey, Live, Present
  <2>2. CASE Tick
    BY <2>2 DEF Tick, OneLiveTaskPerKey, Live, Present
  <2>3. CASE StoreStep /\ UpdateStep
    <3>1. \A i \in Present :
             /\ Live(tasks[i])' => Live(tasks[i])
             /\ tasks'[i].queue = tasks[i].queue
             /\ tasks'[i].idempotency_key \in {tasks[i].idempotency_key, NULL}
      BY <2>3, RowStepKey DEF UpdateStep
    <3> QED
      BY <2>3, <3>1 DEF UpdateStep, OneLiveTaskPerKey
  <2>4. CASE StoreStep /\ InsertStep
    <3>1. PICK i \in Tasks \ Present, q \in Queues, key \in Keys \cup {NULL} :
          /\ Present' = Present \cup {i}
          /\ key = NULL \/ KeyHolders(q, key) = {}
          /\ tasks'[i].queue = q /\ tasks'[i].idempotency_key = key
          /\ \A j \in Present : tasks'[j] = tasks[j]
      BY <2>4 DEF InsertStep, Moved, NewRecord
    <3>2. \A j \in Present : Live(tasks[j])' = Live(tasks[j])
      BY <3>1 DEF Live
    <3>3. key # NULL => \A j \in Present :
             ~(Live(tasks[j]) /\ tasks[j].queue = q /\ tasks[j].idempotency_key = key)
      BY <3>1 DEF KeyHolders
    <3> QED
      BY <3>1, <3>2, <3>3 DEF OneLiveTaskPerKey
  <2> QED
    BY <2>1, <2>2, <2>3, <2>4, StepCases DEF StoreStep
<1> QED
  BY <1>1, <1>2, TypeCorrect, PTL DEF Spec

(* Finished rows are frozen: every operation but the key cleanup asks for  *)
(* a pending, running or suspended row.                                    *)
THEOREM FinishedFrozen == Spec => FinishedRowsFrozen
<1> DEFINE Frozen(i) ==
      /\ i \in Present'
      /\ ~Live(tasks[i]) =>
            tasks'[i] \in {tasks[i], [tasks[i] EXCEPT !.idempotency_key = NULL,
                                                     !.idempotency_expires_at = NULL]}
<1>1. TypeOK /\ [Next]_vars => [\A i \in Present : Frozen(i)]_vars
  <2> SUFFICES ASSUME TypeOK, Next, NEW i \in Present
               PROVE  Frozen(i)
    OBVIOUS
  <2>1. CASE Tick
    BY <2>1 DEF Tick, Present
  <2>2. CASE StoreStep /\ UpdateStep
    BY <2>2 DEF UpdateStep, RowStep, ClaimStep, AttemptStep, CancelStep, SignalStep, ExpireStep,
                CleanupStep, Touched, Live, Terminal
  <2>3. CASE StoreStep /\ InsertStep
    BY <2>3 DEF InsertStep
  <2> QED
    BY <2>1, <2>2, <2>3, StepCases DEF StoreStep
<1> QED
  BY <1>1, TypeCorrect, PTL DEF Spec, FinishedRowsFrozen
=============================================================================
