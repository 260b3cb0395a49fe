-------------------------- MODULE AccountingProofs --------------------------
(***************************************************************************)
(* Proofs about what the system counts: the attempts of a task against its *)
(* audit log, the statistics operators read, the permits of a worker.      *)
(* They hold for any number of tasks, workers, queues and regions.         *)
(***************************************************************************)
EXTENDS EngineProofs, FunctionTheorems, FiniteSetTheorems

-----------------------------------------------------------------------------
(* What one step does to the attempts of a row and to its audit trail *)

(* Audit row e, from status a to status b, with the audit log on. *)
Logs(i, e, a, b) ==
    /\ e \in AuditRow /\ e.from_status = a /\ e.to_status = b
    /\ task_audit_log'[i] = IF AuditLog THEN Append(task_audit_log[i], e)
                                        ELSE task_audit_log[i]

(* The row is in the same status, and nothing counts. *)
CountsKept(i) ==
    /\ task_audit_log'[i] = task_audit_log[i]
    /\ tasks'[i].status = tasks[i].status
    /\ tasks'[i].claimed_by = tasks[i].claimed_by
    /\ tasks'[i].attempts = tasks[i].attempts

(* An attempt begins, for the worker its audit row names. *)
AttemptBegins(i) ==
    /\ tasks[i].status # "running" /\ tasks'[i].status = "running"
    /\ tasks'[i].attempts = tasks[i].attempts + 1
    /\ \E e : Logs(i, e, "pending", "running") /\ e.worker_id = tasks'[i].claimed_by

(* An attempt ends; if it is released, it counts once more. *)
AttemptEnds(i) ==
    /\ tasks[i].status = "running" /\ tasks'[i].status # "running"
    /\ tasks'[i].attempts \in {tasks[i].attempts, tasks[i].attempts + 1}
    /\ \E e, b : /\ Logs(i, e, "running", b) /\ b # "running"
                 /\ e.worker_id \in {NULL, tasks[i].claimed_by}

(* A task that does not run changes its status and still does not. *)
OtherMove(i) ==
    /\ tasks[i].status # "running" /\ tasks'[i].status # "running"
    /\ tasks'[i].attempts = tasks[i].attempts
    /\ \E e, a, b : Logs(i, e, a, b) /\ a # "running" /\ b # "running"

RowCounts(i) ==
    /\ tasks'[i].queue = tasks[i].queue
    /\ CountsKept(i) \/ AttemptBegins(i) \/ AttemptEnds(i) \/ OtherMove(i)

(* Every way a row can step is one of these four. *)
LEMMA RowStepCounts ==
  ASSUME TypeOK, NEW i \in Present, RowStep(i)
  PROVE  RowCounts(i)
<1> DEFINE r == tasks[i]
<1>1. /\ r \in Row /\ r.claimed_by \in Workers \cup {NULL} /\ r.attempts \in Nat
  BY DEF TypeOK, Row
<1>2. CASE Touched(i, tasks[i])
  BY <1>2 DEF Touched, RowCounts, CountsKept
<1>3. CASE ClaimStep(i)
  <2>1. PICK w \in Workers : Moved(i, Claimed(r, w), AuditEntry("pending", "running", w))
    BY <1>3 DEF ClaimStep
  <2>2. /\ Claimed(r, w).status = "running" /\ Claimed(r, w).claimed_by = w
        /\ Claimed(r, w).attempts = r.attempts + 1 /\ Claimed(r, w).queue = r.queue
    BY <1>1 DEF Claimed, Row
  <2> DEFINE e == AuditEntry("pending", "running", w)
  <2>3. e \in AuditRow
    BY AuditEntryType DEF Statuses
  <2>4. e.from_status = "pending" /\ e.to_status = "running" /\ e.worker_id = w
    BY DEF AuditEntry
  <2>5. r.status # "running"
    BY <1>3 DEF ClaimStep
  <2> HIDE DEF e
  <2>6. Moved(i, Claimed(r, w), e)
    BY <2>1 DEF e
  <2>7. AttemptBegins(i)
    BY <2>2, <2>3, <2>4, <2>5, <2>6 DEF AttemptBegins, Logs, Moved
  <2> QED
    BY <2>2, <2>6, <2>7 DEF RowCounts, Moved
<1>4. CASE AttemptStep(i)
  <2>1. r.status = "running"
    BY <1>4 DEF AttemptStep
  <2>2. ASSUME NEW s, NEW b \in Statuses, NEW w \in {NULL, r.claimed_by},
               s.status = b, b # "running", s.attempts \in {r.attempts, r.attempts + 1},
               s.queue = r.queue, Moved(i, s, AuditEntry("running", b, w))
        PROVE  RowCounts(i)
    <3> DEFINE e == AuditEntry("running", b, w)
    <3>1. e \in AuditRow
      BY <1>1, AuditEntryType DEF Statuses
    <3>2. e.from_status = "running" /\ e.to_status = b /\ e.worker_id = w
      BY DEF AuditEntry
    <3> HIDE DEF e
    <3>3. Moved(i, s, e)
      BY <2>2 DEF e
    <3>4. AttemptEnds(i)
      BY <2>1, <2>2, <3>1, <3>2, <3>3 DEF AttemptEnds, Logs, Moved
    <3> QED
      BY <2>2, <3>3, <3>4 DEF RowCounts, Moved
  <2>3. CASE CompleteStep(i)
    <3> DEFINE s == [r EXCEPT !.status = "completed", !.checkpoint = NULL]
    <3>1. s.status = "completed" /\ s.attempts = r.attempts /\ s.queue = r.queue
      BY <1>1 DEF Row
    <3>2. Moved(i, s, AuditEntry("running", "completed", r.claimed_by))
      BY <2>3 DEF CompleteStep
    <3> HIDE DEF s
    <3> QED
      BY <2>2, <3>1, <3>2 DEF Statuses
  <2>4. CASE RequeueStep(i)
    <3>1. PICK at \in Nat : Moved(i, Requeued(r, at), AuditEntry("running", "pending", NULL))
      BY <2>4 DEF RequeueStep
    <3>2. /\ Requeued(r, at).status = "pending" /\ Requeued(r, at).attempts = r.attempts
          /\ Requeued(r, at).queue = r.queue
      BY <1>1 DEF Requeued, Row
    <3> QED
      BY <2>2, <3>1, <3>2 DEF Statuses
  <2>5. CASE FailStep(i)
    <3>1. PICK w \in {NULL, r.claimed_by} : Moved(i, Failed(r), AuditEntry("running", "failed", w))
      BY <2>5 DEF FailStep
    <3>2. Failed(r).status = "failed" /\ Failed(r).attempts = r.attempts /\ Failed(r).queue = r.queue
      BY <1>1 DEF Failed, Row
    <3> QED
      BY <2>2, <3>1, <3>2 DEF Statuses
  <2>6. CASE ReleaseStep(i)
    <3>1. PICK w \in {NULL, r.claimed_by} : Moved(i, Released(r), AuditEntry("running", "pending", w))
      BY <2>6 DEF ReleaseStep
    <3>2. /\ Released(r).status = "pending" /\ Released(r).attempts = r.attempts + 1
          /\ Released(r).queue = r.queue
      BY <1>1 DEF Released, Requeued, Row
    <3> QED
      BY <2>2, <3>1, <3>2 DEF Statuses
  <2>7. CASE SuspendStep(i)
    <3>1. /\ Suspended(r).status = "suspended" /\ Suspended(r).attempts = r.attempts
          /\ Suspended(r).queue = r.queue
      BY <1>1 DEF Suspended, Row
    <3> QED
      BY <2>2, <2>7, <3>1 DEF SuspendStep, Statuses
  <2>8. CASE CheckpointStep(i)
    BY <1>1, <2>8 DEF CheckpointStep, Touched, RowCounts, CountsKept, Row
  <2> QED
    BY <1>4, <2>3, <2>4, <2>5, <2>6, <2>7, <2>8 DEF AttemptStep
<1>5. ASSUME NEW s, NEW a \in Statuses, NEW b \in Statuses, r.status # "running",
             a # "running", b # "running",
             s.status = b, s.attempts = r.attempts, s.queue = r.queue,
             Moved(i, s, AuditEntry(a, b, NULL))
      PROVE  RowCounts(i)
  <2> DEFINE e == AuditEntry(a, b, NULL)
  <2>1. e \in AuditRow
    BY AuditEntryType
  <2>2. e.from_status = a /\ e.to_status = b
    BY DEF AuditEntry
  <2> HIDE DEF e
  <2>3. Moved(i, s, e)
    BY <1>5 DEF e
  <2>4. OtherMove(i)
    BY <1>5, <2>1, <2>2, <2>3 DEF OtherMove, Logs, Moved
  <2> QED
    BY <1>5, <2>3, <2>4 DEF RowCounts, Moved
<1>6. CASE CancelStep(i)
  <2> DEFINE s == [r EXCEPT !.status = "cancelled"]
             a == IF r.suspended_at # NULL THEN "suspended" ELSE "pending"
  <2>1. s.status = "cancelled" /\ s.attempts = r.attempts /\ s.queue = r.queue
    BY <1>1 DEF Row
  <2>2. Moved(i, s, AuditEntry(a, "cancelled", NULL)) /\ r.status # "running"
    BY <1>6 DEF CancelStep
  <2>3. a \in Statuses /\ a # "running"
    BY DEF Statuses
  <2> HIDE DEF s, a
  <2> QED
    BY <1>5, <2>1, <2>2, <2>3 DEF Statuses
<1>7. CASE SignalStep(i)
  <2> DEFINE s == [r EXCEPT !.status = "pending", !.suspended_at = NULL]
  <2>1. s.status = "pending" /\ s.attempts = r.attempts /\ s.queue = r.queue
    BY <1>1 DEF Row
  <2>2. Moved(i, s, AuditEntry("suspended", "pending", NULL)) /\ r.status # "running"
    BY <1>7 DEF SignalStep
  <2> HIDE DEF s
  <2> QED
    BY <1>5, <2>1, <2>2 DEF Statuses
<1>8. CASE ExpireStep(i)
  <2>1. Failed(r).status = "failed" /\ Failed(r).attempts = r.attempts /\ Failed(r).queue = r.queue
    BY <1>1 DEF Failed, Row
  <2>2. Moved(i, Failed(r), AuditEntry("suspended", "failed", NULL)) /\ r.status # "running"
    BY <1>8 DEF ExpireStep
  <2> QED
    BY <1>5, <2>1, <2>2 DEF Statuses
<1>9. CASE CleanupStep(i)
  BY <1>1, <1>9 DEF CleanupStep, Touched, RowCounts, CountsKept, Row
<1> QED
  BY <1>2, <1>3, <1>4, <1>6, <1>7, <1>8, <1>9 DEF RowStep

(* A task that was just submitted. *)
NewRow(i) ==
    /\ i \in Tasks \ Present
    /\ Present' = Present \cup {i}
    /\ tasks'[i].status = "pending" /\ tasks'[i].attempts = 0
    /\ \E e : Logs(i, e, NULL, "pending")

(* What a step of the tables counts: something for each row, or one row     *)
(* more.                                                                    *)
LEMMA StepCounts ==
  ASSUME TypeOK, [Next]_vars
  PROVE  /\ \A i \in Present : RowCounts(i)
         /\ Present' = Present \/ \E i : NewRow(i)
<1>1. ASSUME NEW i \in Present, tasks'[i] = tasks[i], task_audit_log'[i] = task_audit_log[i]
      PROVE  RowCounts(i)
  BY <1>1 DEF RowCounts, CountsKept
<1>2. CASE UNCHANGED vars \/ Tick
  BY <1>1, <1>2 DEF vars, Tick, Present
<1>3. CASE StoreStep /\ UpdateStep
  BY <1>3, RowStepCounts DEF UpdateStep
<1>4. CASE StoreStep /\ InsertStep
  <2>1. PICK i \in Tasks \ Present, q \in Queues, prio \in Priorities,
             reg \in Regions \cup {NULL}, max \in Budgets, delay \in StartDelays,
             key \in Keys \cup {NULL} :
          /\ Present' = Present \cup {i}
          /\ Moved(i, NewRecord(q, prio, reg, max, delay, key), AuditEntry(NULL, "pending", NULL))
          /\ \A j \in Tasks \ {i} : task_audit_log'[j] = task_audit_log[j]
          /\ \A j \in Present : tasks'[j] = tasks[j]
    BY <1>4 DEF InsertStep
  <2> DEFINE s == NewRecord(q, prio, reg, max, delay, key)
             e == AuditEntry(NULL, "pending", NULL)
  <2>2. s.status = "pending" /\ s.attempts = 0
    BY DEF NewRecord
  <2>3. e \in AuditRow
    BY AuditEntryType DEF Statuses
  <2>4. e.from_status = NULL /\ e.to_status = "pending"
    BY DEF AuditEntry
  <2> HIDE DEF s, e
  <2>5. Moved(i, s, e)
    BY <2>1 DEF s, e
  <2>6. NewRow(i)
    BY <2>1, <2>2, <2>3, <2>4, <2>5 DEF NewRow, Logs, Moved
  <2>7. \A j \in Present : task_audit_log'[j] = task_audit_log[j]
    BY <2>1 DEF TypeOK
  <2> QED
    BY <1>1, <2>1, <2>6, <2>7
<1> QED
  BY <1>2, <1>3, <1>4, StepCases DEF StoreStep

(* The table is finite at any time. *)
LEMMA FiniteTable == Spec => []IsFiniteSet(Present)
<1>1. Init => IsFiniteSet(Present)
  BY FS_EmptySet DEF Init, Present
<1>2. TypeOK /\ IsFiniteSet(Present) /\ [Next]_vars => IsFiniteSet(Present)'
  <2> SUFFICES ASSUME TypeOK, IsFiniteSet(Present), [Next]_vars PROVE IsFiniteSet(Present')
    OBVIOUS
  <2>1. Present' = Present \/ \E i : Present' = Present \cup {i}
    BY StepCounts DEF NewRow
  <2> QED
    BY <2>1, FS_AddElement
<1> QED
  BY <1>1, <1>2, TypeCorrect, PTL DEF Spec

-----------------------------------------------------------------------------
(* The audit log names the claimer *)

(* Every audit row of the trail that ends an attempt and names a worker     *)
(* follows one that names the same worker.                                  *)
NamesClaimer(log) ==
    \A k \in DOMAIN log :
        (log[k].from_status = "running" /\ log[k].worker_id # NULL)
            => k > 1 /\ log[k - 1].worker_id = log[k].worker_id

(* The last audit row of a running task is that of its claim.               *)
ClaimerLogged(i) ==
    AuditLog /\ tasks[i].status = "running" =>
        /\ task_audit_log[i] # << >>
        /\ task_audit_log[i][Len(task_audit_log[i])].worker_id = tasks[i].claimed_by

(* The inductive invariant: that the next audit row names the claimer needs *)
(* that the last one does.                                                  *)
NamesInv == \A i \in Present : NamesClaimer(task_audit_log[i]) /\ ClaimerLogged(i)

(* A trail may be extended by an audit row that names no worker, or the     *)
(* worker of the row before it.                                             *)
LEMMA NamesExtended ==
  ASSUME NEW log \in Seq(AuditRow), NEW e \in AuditRow, NamesClaimer(log),
         (e.from_status = "running" /\ e.worker_id # NULL) =>
            log # << >> /\ log[Len(log)].worker_id = e.worker_id
  PROVE  /\ NamesClaimer(Append(log, e))
         /\ Append(log, e) # << >>
         /\ Append(log, e)[Len(Append(log, e))] = e
<1> DEFINE new == Append(log, e)
<1>1. Len(log) \in Nat
  OBVIOUS
<1>2. /\ Len(new) = Len(log) + 1 /\ DOMAIN new = 1..(Len(log) + 1)
      /\ new[Len(log) + 1] = e /\ new # << >>
      /\ DOMAIN log = 1..Len(log)
      /\ \A k \in 1..Len(log) : new[k] = log[k]
  OBVIOUS
<1>3. log # << >> => Len(log) >= 1
  OBVIOUS
<1> HIDE DEF new
<1>4. ASSUME NEW k \in DOMAIN new, new[k].from_status = "running", new[k].worker_id # NULL
      PROVE  k > 1 /\ new[k - 1].worker_id = new[k].worker_id
  <2>1. CASE k = Len(log) + 1
    <3>1. Len(log) >= 1 /\ log[Len(log)].worker_id = e.worker_id
      BY <1>2, <1>3, <1>4, <2>1
    <3>2. k > 1 /\ k - 1 = Len(log) /\ k - 1 \in 1..Len(log)
      BY <1>1, <2>1, <3>1
    <3> QED
      BY <1>2, <2>1, <3>1, <3>2
  <2>2. CASE k # Len(log) + 1
    <3>1. k \in 1..Len(log) /\ k \in DOMAIN log
      BY <1>1, <1>2, <2>2
    <3>2. k > 1 /\ log[k - 1].worker_id = log[k].worker_id
      BY <1>2, <1>4, <3>1 DEF NamesClaimer
    <3>3. k - 1 \in 1..Len(log)
      BY <1>1, <3>1, <3>2
    <3> QED
      BY <1>2, <3>1, <3>2, <3>3
  <2> QED
    BY <2>1, <2>2
<1> QED
  BY <1>2, <1>4 DEF NamesClaimer, new

(* Every step keeps the invariant: only claims and ends of attempts log a worker. *)
LEMMA NamesStep ==
  ASSUME TypeOK, NamesInv, [Next]_vars
  PROVE  NamesInv'
<1>0. \A i \in Present : task_audit_log[i] \in Seq(AuditRow) /\ i \in Tasks
  BY DEF TypeOK
<1>1. ASSUME NEW i \in Present
      PROVE  NamesClaimer(task_audit_log'[i]) /\ ClaimerLogged(i)'
  <2> DEFINE log == task_audit_log[i]
  <2>1. NamesClaimer(log) /\ ClaimerLogged(i) /\ log \in Seq(AuditRow)
    BY <1>0 DEF NamesInv
  <2>2. CASE CountsKept(i)
    BY <2>1, <2>2 DEF CountsKept, ClaimerLogged
  <2>3. CASE AttemptBegins(i)
    <3>1. PICK e : Logs(i, e, "pending", "running") /\ e.worker_id = tasks'[i].claimed_by
      BY <2>3 DEF AttemptBegins
    <3> QED
      BY <2>1, <3>1, NamesExtended DEF Logs, ClaimerLogged
  <2>4. CASE AttemptEnds(i)
    <3>1. PICK e, b : Logs(i, e, "running", b) /\ e.worker_id \in {NULL, tasks[i].claimed_by}
      BY <2>4 DEF AttemptEnds
    <3>2. tasks[i].status = "running" /\ tasks'[i].status # "running"
      BY <2>4 DEF AttemptEnds
    <3>3. CASE AuditLog
      <4>1. NamesClaimer(Append(log, e))
        BY <2>1, <3>1, <3>2, <3>3, NamesExtended DEF Logs, ClaimerLogged
      <4> QED
        BY <3>1, <3>2, <3>3, <4>1 DEF Logs, ClaimerLogged
    <3>4. CASE ~AuditLog
      BY <2>1, <3>1, <3>2, <3>4 DEF Logs, ClaimerLogged
    <3> QED
      BY <3>3, <3>4
  <2>5. CASE OtherMove(i)
    <3>1. PICK e, a, b : Logs(i, e, a, b) /\ a # "running"
      BY <2>5 DEF OtherMove
    <3> QED
      BY <2>1, <2>5, <3>1, NamesExtended DEF OtherMove, Logs, ClaimerLogged
  <2> QED
    BY <2>2, <2>3, <2>4, <2>5, StepCounts DEF RowCounts
<1>2. ASSUME NEW i, NewRow(i)
      PROVE  NamesClaimer(task_audit_log'[i]) /\ ClaimerLogged(i)'
  <2>1. PICK e : Logs(i, e, NULL, "pending")
    BY <1>2 DEF NewRow
  <2>2. task_audit_log[i] = << >> /\ << >> \in Seq(AuditRow) /\ NamesClaimer(<< >>)
    BY <1>2 DEF NewRow, TypeOK, NamesClaimer
  <2>3. NULL # "running"
    BY NullAssumption DEF Statuses
  <2>4. NamesClaimer(Append(<< >>, e))
    BY <2>1, <2>2, <2>3, NamesExtended DEF Logs
  <2> QED
    BY <1>2, <2>1, <2>2, <2>4 DEF NewRow, Logs, ClaimerLogged
<1> QED
  BY <1>1, <1>2, StepCounts DEF NamesInv, NewRow

(* A worker named for the end of an attempt is the one that made it: what   *)
(* complete, fail and release_leases_for_worker write to the audit log is   *)
(* the claimer of the row, whoever reports.                                 *)
THEOREM AuditNamesCorrect == Spec => []AuditNamesClaimer
<1>1. Init => NamesInv
  BY DEF Init, NamesInv, Present
<1>2. TypeOK /\ NamesInv /\ [Next]_vars => NamesInv'
  BY NamesStep
<1>3. NamesInv => AuditNamesClaimer
  BY DEF NamesInv, NamesClaimer, AuditNamesClaimer
<1> QED
  BY <1>1, <1>2, <1>3, TypeCorrect, PTL DEF Spec

-----------------------------------------------------------------------------
(* Attempts against claims *)

(* The audit rows of the trail that record a claim. *)
ClaimRows(log) == {k \in DOMAIN log : log[k].to_status = "running"}

(* They are finitely many, and one more audit row makes one more of them,   *)
(* or none.                                                                 *)
LEMMA ClaimRowsExtended ==
  ASSUME NEW log \in Seq(AuditRow), NEW e \in AuditRow
  PROVE  /\ IsFiniteSet(ClaimRows(log))
         /\ Cardinality(ClaimRows(log)) \in Nat
         /\ Cardinality(ClaimRows(Append(log, e))) =
              IF e.to_status = "running" THEN Cardinality(ClaimRows(log)) + 1
                                         ELSE Cardinality(ClaimRows(log))
<1> DEFINE new == Append(log, e)
<1>1. Len(log) \in Nat
  OBVIOUS
<1>2. /\ DOMAIN new = 1..(Len(log) + 1) /\ new[Len(log) + 1] = e
      /\ DOMAIN log = 1..Len(log)
      /\ \A k \in 1..Len(log) : new[k] = log[k]
  OBVIOUS
<1> HIDE DEF new
<1>3. IsFiniteSet(ClaimRows(log))
  <2>1. IsFiniteSet(1..Len(log))
    BY <1>1, FS_Interval
  <2>2. ClaimRows(log) \in SUBSET (1..Len(log))
    BY <1>2 DEF ClaimRows
  <2> QED
    BY <2>1, <2>2, FS_Subset
<1>4. Cardinality(ClaimRows(log)) \in Nat
  BY <1>3, FS_CardinalityType
<1>5. CASE e.to_status = "running"
  <2>1. ClaimRows(new) = ClaimRows(log) \cup {Len(log) + 1}
    BY <1>1, <1>2, <1>5 DEF ClaimRows
  <2>2. Len(log) + 1 \notin ClaimRows(log)
    BY <1>1, <1>2 DEF ClaimRows
  <2> QED
    BY <1>3, <1>4, <1>5, <2>1, <2>2, FS_AddElement DEF new
<1>6. CASE e.to_status # "running"
  <2>1. ClaimRows(new) = ClaimRows(log)
    BY <1>1, <1>2, <1>6 DEF ClaimRows
  <2> QED
    BY <1>3, <1>4, <1>6, <2>1 DEF new
<1> QED
  BY <1>5, <1>6

(* The inductive invariant: the release an attempt still has ahead of it is *)
(* not counted yet.                                                         *)
AttemptsInv ==
    AuditLog => \A i \in Present :
        /\ Claims(i) <= tasks[i].attempts
        /\ tasks[i].attempts <= 2 * Claims(i)
        /\ tasks[i].status = "running" => tasks[i].attempts + 1 <= 2 * Claims(i)

(* Every step keeps the invariant: a claim counts one, a release one more. *)
LEMMA AttemptsStep ==
  ASSUME TypeOK, AttemptsInv, [Next]_vars
  PROVE  AttemptsInv'
<1> SUFFICES ASSUME AuditLog
             PROVE  \A i \in Present' :
                      /\ Claims(i)' <= tasks'[i].attempts
                      /\ tasks'[i].attempts <= 2 * Claims(i)'
                      /\ tasks'[i].status = "running" => tasks'[i].attempts + 1 <= 2 * Claims(i)'
  BY DEF AttemptsInv
<1>1. \A i : Claims(i) = Cardinality(ClaimRows(task_audit_log[i]))
  BY DEF Claims, ClaimRows
<1>2. \A i : Claims(i)' = Cardinality(ClaimRows(task_audit_log'[i]))
  BY DEF Claims, ClaimRows
<1>3. ASSUME NEW i \in Tasks, NEW e, NEW a, NEW b, Logs(i, e, a, b)
      PROVE  /\ Claims(i) \in Nat
             /\ Claims(i)' = IF b = "running" THEN Claims(i) + 1 ELSE Claims(i)
  BY <1>1, <1>2, <1>3, ClaimRowsExtended DEF Logs, TypeOK
<1>4. ASSUME NEW i \in Present
      PROVE  /\ Claims(i)' <= tasks'[i].attempts
             /\ tasks'[i].attempts <= 2 * Claims(i)'
             /\ tasks'[i].status = "running" => tasks'[i].attempts + 1 <= 2 * Claims(i)'
  <2>1. /\ i \in Tasks /\ tasks[i].attempts \in Nat
        /\ Claims(i) <= tasks[i].attempts
        /\ tasks[i].attempts <= 2 * Claims(i)
        /\ tasks[i].status = "running" => tasks[i].attempts + 1 <= 2 * Claims(i)
    BY DEF TypeOK, Row, AttemptsInv
  <2>2. CASE CountsKept(i)
    BY <1>1, <1>2, <2>1, <2>2 DEF CountsKept
  <2>3. CASE AttemptBegins(i)
    <3>1. Claims(i) \in Nat /\ Claims(i)' = Claims(i) + 1
      BY <1>3, <2>1, <2>3 DEF AttemptBegins
    <3> QED
      BY <2>1, <2>3, <3>1 DEF AttemptBegins
  <2>4. CASE AttemptEnds(i)
    <3>1. Claims(i) \in Nat /\ Claims(i)' = Claims(i)
      BY <1>3, <2>1, <2>4 DEF AttemptEnds
    <3> QED
      BY <2>1, <2>4, <3>1 DEF AttemptEnds
  <2>5. CASE OtherMove(i)
    <3>1. Claims(i) \in Nat /\ Claims(i)' = Claims(i)
      BY <1>3, <2>1, <2>5 DEF OtherMove
    <3> QED
      BY <2>1, <2>5, <3>1 DEF OtherMove
  <2> QED
    BY <2>2, <2>3, <2>4, <2>5, StepCounts DEF RowCounts
<1>5. ASSUME NEW i, NewRow(i)
      PROVE  Claims(i)' = 0 /\ tasks'[i].attempts = 0 /\ tasks'[i].status = "pending"
  <2>1. i \in Tasks /\ task_audit_log[i] = << >>
    BY <1>5 DEF NewRow, TypeOK
  <2>2. ClaimRows(<< >>) = {}
    BY DEF ClaimRows
  <2>3. Claims(i) = 0
    BY <1>1, <2>1, <2>2, FS_EmptySet
  <2>4. PICK e : Logs(i, e, NULL, "pending")
    BY <1>5 DEF NewRow
  <2>5. Claims(i)' = Claims(i)
    BY <1>3, <2>1, <2>4
  <2> QED
    BY <1>5, <2>3, <2>5 DEF NewRow
<1>6. ASSUME NEW i, NewRow(i)
      PROVE  /\ Claims(i)' <= tasks'[i].attempts
             /\ tasks'[i].attempts <= 2 * Claims(i)'
             /\ tasks'[i].status = "running" => tasks'[i].attempts + 1 <= 2 * Claims(i)'
  BY <1>5, <1>6
<1> QED
  BY <1>4, <1>6, StepCounts DEF NewRow

(* The attempt counter of a task lies between the number of its claims and  *)
(* twice that number: claim_next counts one, a graceful release one more.   *)
THEOREM AttemptsCorrect == Spec => []AttemptsTrackClaims
<1>1. Init => AttemptsInv
  BY DEF Init, AttemptsInv, Present
<1>2. TypeOK /\ AttemptsInv /\ [Next]_vars => AttemptsInv'
  BY AttemptsStep
<1>3. AttemptsInv => AttemptsTrackClaims
  BY DEF AttemptsInv, AttemptsTrackClaims
<1> QED
  BY <1>1, <1>2, <1>3, TypeCorrect, PTL DEF Spec

-----------------------------------------------------------------------------
(* The two views of a queue *)

(* The rows of queue q that worker w holds, and what `iron-defer workers`   *)
(* shows of them.                                                           *)
HeldIn(q, w) == {i \in HeldBy(w) : tasks[i].queue = q}

StatusLine(q, w) == [worker_id |-> w, tasks_in_flight |-> Cardinality(HeldIn(q, w))]

ActiveIn(q) == {w \in Workers : HeldIn(q, w) # {}}

(* The rows of queue q that run, in regions R. *)
RunningIn(q, R) == {i \in InStatus("running") : tasks[i].queue = q /\ tasks[i].region \in R}

(* What the two queries count. *)
LEMMA ViewFacts ==
  ASSUME NEW q, NEW R
  PROVE  /\ worker_status(q) = {StatusLine(q, w) : w \in ActiveIn(q)}
         /\ queue_statistics(q, R).running = Cardinality(RunningIn(q, R))
         /\ queue_statistics(q, R).active_workers =
              Cardinality({tasks[i].claimed_by : i \in RunningIn(q, R)} \ {NULL})
  BY DEF worker_status, StatusLine, ActiveIn, HeldIn, queue_statistics, RunningIn

(* A status line names its worker. *)
LEMMA LineNames ==
  ASSUME NEW q, NEW w
  PROVE  /\ StatusLine(q, w).worker_id = w
         /\ StatusLine(q, w).tasks_in_flight = Cardinality(HeldIn(q, w))
  BY DEF StatusLine

(* Every running row is held by exactly one worker. *)
LEMMA RunningHeld ==
  ASSUME TypeOK, RowsInv, NEW q, NEW i \in Present
  PROVE  /\ i \in RunningIn(q, Regions \cup {NULL}) =>
              /\ tasks[i].claimed_by \in Workers
              /\ i \in HeldIn(q, tasks[i].claimed_by)
         /\ \A w \in Workers : i \in HeldIn(q, w) =>
              tasks[i].claimed_by = w /\ i \in RunningIn(q, Regions \cup {NULL})
<1>1. /\ tasks[i].claimed_by \in Workers \cup {NULL}
      /\ tasks[i].region \in Regions \cup {NULL}
  BY DEF TypeOK, Row
<1>2. tasks[i].status = "running" => tasks[i].claimed_by # NULL
  BY DEF RowsInv, RowInv, ClaimMatches
<1> QED
  BY <1>1, <1>2 DEF RunningIn, HeldIn, HeldBy, InStatus

(* The rows a worker holds are finitely many, and can be numbered. *)
LEMMA HeldNumbered ==
  ASSUME IsFiniteSet(Present), NEW q, NEW w
  PROVE  /\ IsFiniteSet(HeldIn(q, w)) /\ Cardinality(HeldIn(q, w)) \in Nat
         /\ Cardinality(HeldIn(q, w)) <= Cardinality(Present)
         /\ \E f : f \in Bijection(1..Cardinality(HeldIn(q, w)), HeldIn(q, w))
<1>1. HeldIn(q, w) \in SUBSET Present
  BY DEF HeldIn, HeldBy, InStatus
<1>2. IsFiniteSet(HeldIn(q, w)) /\ Cardinality(HeldIn(q, w)) <= Cardinality(Present)
  BY <1>1, FS_Subset
<1> QED
  BY <1>2, FS_CardinalityType DEF ExistsBijection

(* The tasks in flight add up: numbering the rows of each worker gives a    *)
(* one-to-one map from pairs of a status line and a number up to its        *)
(* tasks_in_flight to the running rows.                                     *)
LEMMA InFlightAddsUp ==
  ASSUME TypeOK, RowsInv, IsFiniteSet(Present), NEW q
  PROVE  Cardinality(RunningIn(q, Regions \cup {NULL})) =
           Cardinality({p \in worker_status(q) \X (1 .. Cardinality(Present)) :
                           p[2] <= p[1].tasks_in_flight})
<1> DEFINE T == RunningIn(q, Regions \cup {NULL})
           n == Cardinality(Present)
           P == {p \in worker_status(q) \X (1..n) : p[2] <= p[1].tasks_in_flight}
           num == [w \in Workers |->
                     CHOOSE f : f \in Bijection(1..Cardinality(HeldIn(q, w)), HeldIn(q, w))]
           g == [p \in P |-> num[p[1].worker_id][p[2]]]
<1>0. n \in Nat
  BY FS_CardinalityType
<1>a. \A w \in Workers : num[w] \in Bijection(1..Cardinality(HeldIn(q, w)), HeldIn(q, w))
  BY HeldNumbered
<1> HIDE DEF num
<1>1. ASSUME NEW w \in Workers
      PROVE  /\ num[w] \in [1..Cardinality(HeldIn(q, w)) -> HeldIn(q, w)]
             /\ \A j, k \in 1..Cardinality(HeldIn(q, w)) : num[w][j] = num[w][k] => j = k
             /\ \A i \in HeldIn(q, w) : \E k \in 1..Cardinality(HeldIn(q, w)) : num[w][k] = i
  <2> DEFINE f == num[w]
             H == HeldIn(q, w)
             S == 1..Cardinality(HeldIn(q, w))
  <2>1. f \in Bijection(S, H)
    BY <1>a
  <2> HIDE DEF f, S, H
  <2>2. /\ f \in [S -> H]
        /\ \A x, y \in S : f[x] = f[y] => x = y
        /\ \A t \in H : \E x \in S : f[x] = t
    <3>1. f \in [S -> H]
      BY <2>1 DEF Bijection, Injection
    <3>2. \A x, y \in S : f[x] = f[y] => x = y
      BY <2>1 DEF Bijection, Injection, IsInjective
    <3>3. \A t \in H : \E x \in S : f[x] = t
      BY <2>1 DEF Bijection, Surjection
    <3> QED
      BY <3>1, <3>2, <3>3
  <2> QED
    BY <2>2 DEF f, S, H
<1>2. ASSUME NEW p \in P
      PROVE  /\ p[1].worker_id \in Workers
             /\ p[1] = StatusLine(q, p[1].worker_id)
             /\ p[2] \in 1..Cardinality(HeldIn(q, p[1].worker_id))
             /\ p = <<p[1], p[2]>>
  <2>1. p[1] \in worker_status(q) /\ p[2] \in 1..n /\ p[2] <= p[1].tasks_in_flight
        /\ p = <<p[1], p[2]>>
    OBVIOUS
  <2>2. PICK w \in ActiveIn(q) : p[1] = StatusLine(q, w)
    <3>1. worker_status(q) = {StatusLine(q, w) : w \in ActiveIn(q)}
      BY ViewFacts
    <3> QED
      BY <2>1, <3>1
  <2>3. Cardinality(HeldIn(q, w)) \in Nat
    BY HeldNumbered
  <2> QED
    BY <1>0, <2>1, <2>2, <2>3, LineNames DEF ActiveIn
<1>3. ASSUME NEW p \in P
      PROVE  g[p] \in HeldIn(q, p[1].worker_id) /\ g[p] \in Present /\ g[p] \in T
  <2> DEFINE w == p[1].worker_id
  <2>1. g[p] = num[w][p[2]] /\ w \in Workers
    BY <1>2
  <2>2. g[p] \in HeldIn(q, w)
    <3>1. num[w] \in [1..Cardinality(HeldIn(q, w)) -> HeldIn(q, w)]
      BY <1>1, <2>1
    <3>2. p[2] \in 1..Cardinality(HeldIn(q, w))
      BY <1>2
    <3> HIDE DEF w
    <3> QED
      BY <2>1, <3>1, <3>2
  <2>3. g[p] \in Present
    BY <2>2 DEF HeldIn, HeldBy, InStatus
  <2> QED
    BY <1>2, <2>2, <2>3, RunningHeld
<1>4. ASSUME NEW p \in P, NEW o \in P, g[p] = g[o]
      PROVE  p = o
  <2>1. p[1].worker_id = o[1].worker_id
    BY <1>2, <1>3, <1>4, RunningHeld
  <2>2. num[p[1].worker_id][p[2]] = num[p[1].worker_id][o[2]]
    BY <1>4, <2>1
  <2>3. p[2] = o[2]
    BY <1>1, <1>2, <2>1, <2>2
  <2>4. p[1] = o[1]
    BY <1>2, <2>1
  <2> QED
    BY <1>2, <2>3, <2>4
<1>5. ASSUME NEW i \in T
      PROVE  \E p \in P : g[p] = i
  <2>1. i \in Present
    BY DEF RunningIn, InStatus
  <2> DEFINE w == tasks[i].claimed_by
  <2>2. w \in Workers /\ i \in HeldIn(q, w)
    BY <2>1, RunningHeld
  <2>3. PICK k \in 1..Cardinality(HeldIn(q, w)) : num[w][k] = i
    BY <1>1, <2>2
  <2>4. Cardinality(HeldIn(q, w)) \in Nat /\ Cardinality(HeldIn(q, w)) <= n
    BY HeldNumbered
  <2>5. k \in 1..n /\ k <= Cardinality(HeldIn(q, w))
    BY <1>0, <2>4
  <2>6. StatusLine(q, w) \in worker_status(q)
    BY <2>2, ViewFacts DEF ActiveIn
  <2> DEFINE p == <<StatusLine(q, w), k>>
  <2>7. p \in P
    BY <2>5, <2>6, LineNames
  <2>8. g[p] = num[w][k]
    BY <2>7, LineNames
  <2> QED
    BY <2>3, <2>7, <2>8
<1>6. IsFiniteSet(T)
  <2>1. T \in SUBSET Present
    BY DEF RunningIn, InStatus
  <2> QED
    BY <2>1, FS_Subset
<1>7. g \in [P -> T]
  BY <1>3
<1> HIDE DEF g, P, T
<1>8. g \in Injection(P, T) /\ g \in Surjection(P, T)
  <2>1. \A p, o \in P : g[p] = g[o] => p = o
    BY <1>4
  <2>2. \A i \in T : \E p \in P : g[p] = i
    BY <1>5
  <2> QED
    BY <1>7, <2>1, <2>2, Fun_IsInj, Fun_IsSurj
<1>9. Cardinality(P) = Cardinality(T)
  BY <1>6, <1>8, FS_Injection
<1> QED
  BY <1>9 DEF P, T, n

(* The workers with a status line are those that claimed a running row, and *)
(* they are finitely many.                                                  *)
LEMMA ActiveClaimed ==
  ASSUME TypeOK, RowsInv, IsFiniteSet(Present), NEW q
  PROVE  /\ ActiveIn(q) =
              {tasks[i].claimed_by : i \in RunningIn(q, Regions \cup {NULL})} \ {NULL}
         /\ IsFiniteSet(ActiveIn(q))
<1> DEFINE T == RunningIn(q, Regions \cup {NULL})
           f == [i \in T |-> tasks[i].claimed_by]
<1>1. T \in SUBSET Present
  BY DEF RunningIn, InStatus
<1>2. \A i \in T : tasks[i].claimed_by \in ActiveIn(q)
  BY <1>1, RunningHeld DEF ActiveIn
<1>3. ASSUME NEW w \in ActiveIn(q)
      PROVE  \E i \in T : tasks[i].claimed_by = w
  <2>1. PICK i \in HeldIn(q, w) : TRUE
    BY DEF ActiveIn
  <2>2. i \in Present /\ w \in Workers
    BY <2>1 DEF HeldIn, HeldBy, InStatus, ActiveIn
  <2> QED
    BY <2>1, <2>2, RunningHeld
<1>4. NULL \notin ActiveIn(q)
  BY NullAssumption DEF ActiveIn
<1>5. IsFiniteSet(T)
  BY <1>1, FS_Subset
<1> HIDE DEF T
<1>6. f \in Surjection(T, ActiveIn(q))
  <2>1. f \in [T -> ActiveIn(q)]
    BY <1>2
  <2>2. \A w \in ActiveIn(q) : \E i \in T : f[i] = w
    BY <1>3
  <2> QED
    BY <2>1, <2>2, Fun_IsSurj
<1>7. IsFiniteSet(ActiveIn(q))
  BY <1>5, <1>6, FS_Surjection
<1>8. ActiveIn(q) = {tasks[i].claimed_by : i \in T} \ {NULL}
  BY <1>2, <1>3, <1>4
<1> QED
  BY <1>7, <1>8 DEF T

(* There is one status line for each of them. *)
LEMMA LinesCounted ==
  ASSUME TypeOK, RowsInv, IsFiniteSet(Present), NEW q
  PROVE  /\ IsFiniteSet(worker_status(q))
         /\ Cardinality(worker_status(q)) = Cardinality(ActiveIn(q))
<1> DEFINE A == ActiveIn(q)
           h == [w \in A |-> StatusLine(q, w)]
<1>1. worker_status(q) = {StatusLine(q, w) : w \in A}
  BY ViewFacts
<1>2. IsFiniteSet(A)
  BY ActiveClaimed
<1>3. \A v, w \in A : h[v] = h[w] => v = w
  BY LineNames
<1> HIDE DEF A
<1>4. h \in [A -> worker_status(q)] /\ \A s \in worker_status(q) : \E w \in A : h[w] = s
  BY <1>1
<1> HIDE DEF h
<1>5. h \in Bijection(A, worker_status(q))
  BY <1>3, <1>4, Fun_IsBij
<1>6. ExistsBijection(A, worker_status(q))
  BY <1>5 DEF ExistsBijection
<1> QED
  BY <1>2, <1>6, FS_Bijection DEF A

(* The workers counted for a region are workers of that region, each with a *)
(* status line.                                                             *)
LEMMA RegionCounted ==
  ASSUME TypeOK, RowsInv, IsFiniteSet(Present), NEW q, NEW r \in Regions
  PROVE  Cardinality({tasks[i].claimed_by : i \in RunningIn(q, {r})} \ {NULL})
           <= Cardinality({s \in worker_status(q) : WorkerRegion[s.worker_id] = r})
<1> DEFINE W == {tasks[i].claimed_by : i \in RunningIn(q, {r})} \ {NULL}
           L == {s \in worker_status(q) : WorkerRegion[s.worker_id] = r}
           h == [w \in W |-> StatusLine(q, w)]
<1>1. ASSUME NEW w \in W
      PROVE  w \in ActiveIn(q) /\ WorkerRegion[w] = r
  <2>1. PICK i \in RunningIn(q, {r}) : tasks[i].claimed_by = w
    OBVIOUS
  <2>2. i \in Present /\ tasks[i].region = r /\ i \in RunningIn(q, Regions \cup {NULL})
    BY <2>1 DEF RunningIn, InStatus
  <2>3. w \in ActiveIn(q)
    BY <2>1, <2>2, RunningHeld DEF ActiveIn
  <2>4. tasks[i].region \in {NULL, WorkerRegion[w]}
    BY <2>1, <2>2, <2>3, NullAssumption DEF RowsInv, RowInv, RegionMatches, ActiveIn
  <2> QED
    BY <2>2, <2>3, <2>4, NullAssumption
<1>2. worker_status(q) = {StatusLine(q, w) : w \in ActiveIn(q)}
  BY ViewFacts
<1>3. IsFiniteSet(L)
  <2>1. L \in SUBSET worker_status(q)
    OBVIOUS
  <2> QED
    BY <2>1, LinesCounted, FS_Subset
<1> HIDE DEF W
<1>4. \A v, w \in W : h[v] = h[w] => v = w
  BY LineNames
<1>5. ASSUME NEW w \in W
      PROVE  h[w] \in L
  <2>1. StatusLine(q, w) \in worker_status(q)
    BY <1>1, <1>2
  <2>2. WorkerRegion[StatusLine(q, w).worker_id] = r
    BY <1>1, LineNames
  <2>3. h[w] = StatusLine(q, w)
    OBVIOUS
  <2> HIDE DEF h
  <2> QED
    BY <2>1, <2>2, <2>3
<1> HIDE DEF L
<1>6. h \in [W -> L]
  BY <1>5
<1> HIDE DEF h
<1>7. h \in Injection(W, L)
  BY <1>4, <1>6, Fun_IsInj
<1>8. Cardinality(W) <= Cardinality(L)
  BY <1>3, <1>7, FS_Injection
<1> QED
  BY <1>8 DEF W, L

(* The two views operators have of a queue agree, however many tasks,       *)
(* workers and regions there are: what `iron-defer workers` lists adds up   *)
(* to the running tasks and the active workers that the queue statistics    *)
(* count, and no region counts a worker of another.                         *)
THEOREM StatisticsCorrect == Spec => []StatisticsAgree
<1>1. TypeOK /\ RowsInv /\ IsFiniteSet(Present) => StatisticsAgree
  <2> SUFFICES ASSUME TypeOK, RowsInv, IsFiniteSet(Present), NEW q \in Queues
               PROVE  /\ queue_statistics(q, Regions \cup {NULL}).running =
                           Cardinality({p \in worker_status(q) \X (1 .. Cardinality(Present)) :
                                           p[2] <= p[1].tasks_in_flight})
                      /\ queue_statistics(q, Regions \cup {NULL}).active_workers =
                           Cardinality(worker_status(q))
                      /\ \A r \in Regions :
                           queue_statistics(q, {r}).active_workers
                             <= Cardinality({s \in worker_status(q) :
                                                WorkerRegion[s.worker_id] = r})
    BY DEF StatisticsAgree
  <2>1. queue_statistics(q, Regions \cup {NULL}).running =
           Cardinality(RunningIn(q, Regions \cup {NULL}))
    BY ViewFacts
  <2>2. queue_statistics(q, Regions \cup {NULL}).active_workers =
           Cardinality({tasks[i].claimed_by : i \in RunningIn(q, Regions \cup {NULL})} \ {NULL})
    BY ViewFacts
  <2>3. queue_statistics(q, Regions \cup {NULL}).active_workers = Cardinality(worker_status(q))
    BY <2>2, ActiveClaimed, LinesCounted
  <2>4. ASSUME NEW r \in Regions
        PROVE  queue_statistics(q, {r}).active_workers
                 <= Cardinality({s \in worker_status(q) : WorkerRegion[s.worker_id] = r})
    <3>1. queue_statistics(q, {r}).active_workers =
            Cardinality({tasks[i].claimed_by : i \in RunningIn(q, {r})} \ {NULL})
      BY ViewFacts
    <3> QED
      BY <3>1, RegionCounted
  <2> QED
    BY <2>1, <2>3, <2>4, InFlightAddsUp
<1> QED
  BY <1>1, TypeCorrect, RowsInvariant, FiniteTable, PTL

-----------------------------------------------------------------------------
(* The attempts the engines hold *)

(* The row of an attempt is in the table and in the queue of its worker,    *)
(* and has counted it.                                                      *)
Standing(e) ==
    /\ e.task \in Present
    /\ e.attempt <= tasks[e.task].attempts
    /\ tasks[e.task].queue = WorkerQueue[e.worker]

(* The inductive invariant.  That a dispatched handler takes a permit of    *)
(* its own needs that its attempt is not among the running ones, which no   *)
(* lease says when it is over: it is the attempt counter, which only grows, *)
(* that tells a new attempt from every earlier one.                         *)
HeldInv ==
    /\ \A e \in Held : Standing(e)
    /\ \A w \in Workers : returned[w] # NULL =>
          returned[w].awaited /\ returned[w].worker = w /\ returned[w] \notin runs

(* No step removes a row, moves it to another queue or lowers its counter. *)
LEMMA RowsGrow ==
  ASSUME TypeOK, EngineTypes, [EngineNext]_allVars, NEW i \in Present
  PROVE  /\ i \in Present'
         /\ tasks[i].attempts <= tasks'[i].attempts
         /\ tasks'[i].queue = tasks[i].queue
<1>1. [Next]_vars
  BY StepImplementsStore
<1>2. RowCounts(i) /\ (Present' = Present \/ \E j : NewRow(j))
  BY <1>1, StepCounts
<1>3. i \in Present'
  BY <1>2 DEF NewRow
<1>4. tasks[i].attempts \in Nat
  BY DEF TypeOK, Row
<1>5. tasks'[i].attempts \in {tasks[i].attempts, tasks[i].attempts + 1}
  BY <1>2 DEF RowCounts, CountsKept, AttemptBegins, AttemptEnds, OtherMove
<1> QED
  BY <1>2, <1>3, <1>4, <1>5 DEF RowCounts

(* So what stands keeps standing. *)
LEMMA StandingKept ==
  ASSUME TypeOK, EngineTypes, [EngineNext]_allVars,
         NEW e \in Attempt, Standing(e),
         NEW f, f.worker = e.worker, f.task = e.task, f.attempt = e.attempt
  PROVE  Standing(f)'
<1>1. e.attempt \in Nat /\ tasks[e.task].attempts \in Nat
  BY DEF Attempt, Standing, TypeOK, Row
<1>2. /\ e.task \in Present'
      /\ tasks[e.task].attempts <= tasks'[e.task].attempts
      /\ tasks'[e.task].queue = tasks[e.task].queue
  BY RowsGrow DEF Standing
<1>3. tasks'[e.task].attempts \in Nat
  <2>1. TypeOK'
    BY StepImplementsStore, TypeStep
  <2> QED
    BY <1>2, <2>1 DEF TypeOK, Row
<1>4. e.attempt <= tasks'[e.task].attempts
  BY <1>1, <1>2, <1>3 DEF Standing
<1> QED
  BY <1>2, <1>4 DEF Standing

(* The steps that start no attempt and dispatch none. *)
LEMMA HeldFewer ==
  ASSUME TypeOK, EngineTypes, [EngineNext]_allVars, HeldInv,
         runs' \subseteq runs, \A w \in Workers : returned'[w] \in {returned[w], NULL}
  PROVE  HeldInv'
<1>1. Held' \subseteq Held /\ Held \subseteq Attempt
  BY HeldTypes DEF Held, InTransit
<1>2. \A e \in Held' : Standing(e)'
  BY <1>1, StandingKept DEF HeldInv
<1> QED
  BY <1>2 DEF HeldInv

(* claim_next counts the attempt it returns, so no earlier attempt has its  *)
(* number.                                                                  *)
LEMMA HeldClaim ==
  ASSUME TypeOK, EngineTypes, [EngineNext]_allVars, HeldInv,
         NEW w \in Workers, NEW i \in Tasks, claim(w, i)
  PROVE  HeldInv'
<1>1. PICK rec : /\ rec.worker = w /\ rec.task = i /\ rec.attempt = tasks[i].attempts + 1
                 /\ rec.awaited
                 /\ returned' = [returned EXCEPT ![w] = rec]
  BY Zenon DEF claim
<1>2. returned' = [returned EXCEPT ![w] = rec] /\ rec.awaited /\ rec.worker = w
  BY <1>1
<1>3. /\ i \in Present /\ tasks[i].queue = WorkerQueue[w]
      /\ Present' = Present /\ tasks'[i] = Claimed(tasks[i], w)
      /\ runs' = runs
  BY DEF claim, claim_next, Claimable, InStatus, UpdateRows, Present
<1>4. tasks[i] \in Row /\ tasks[i].attempts \in Nat
  BY <1>3 DEF TypeOK, Row
<1>5. tasks'[i].attempts = tasks[i].attempts + 1 /\ tasks'[i].queue = tasks[i].queue
  BY <1>3, <1>4 DEF Claimed, Row
<1>6. Standing(rec)'
  BY <1>1, <1>3, <1>4, <1>5 DEF Standing
<1>7. Held' \subseteq Held \cup {rec} /\ Held \subseteq Attempt
  BY <1>2, <1>3, HeldTypes DEF Held, InTransit, EngineTypes
<1>8. \A e \in Held' : Standing(e)'
  BY <1>6, <1>7, StandingKept DEF HeldInv
<1>9. rec \notin runs
  BY <1>1, <1>4 DEF HeldInv, Held, Standing
<1>10. \A v \in Workers : returned'[v] # NULL =>
          returned'[v].awaited /\ returned'[v].worker = v /\ returned'[v] \notin runs'
  BY <1>2, <1>3, <1>9 DEF HeldInv, EngineTypes
<1> QED
  BY <1>8, <1>10 DEF HeldInv

(* dispatch_task hands its attempt over to a handler. *)
LEMMA HeldDispatch ==
  ASSUME TypeOK, EngineTypes, [EngineNext]_allVars, HeldInv,
         NEW w \in Workers, dispatch_task(w)
  PROVE  HeldInv'
<1>1. /\ runs' = runs \cup {returned[w]}
      /\ returned' = [returned EXCEPT ![w] = NULL]
      /\ returned[w] \in Attempt
  BY DEF dispatch_task, Delivered, Received, EngineTypes
<1>2. returned[w] # NULL
  BY <1>1, EngineAssumption
<1>3. Held' \subseteq Held /\ Held \subseteq Attempt
  BY <1>1, <1>2, HeldTypes DEF Held, InTransit, EngineTypes
<1>4. \A e \in Held' : Standing(e)'
  BY <1>3, StandingKept DEF HeldInv
<1>5. \A v \in Workers : returned'[v] # NULL =>
          returned'[v].awaited /\ returned'[v].worker = v /\ returned'[v] \notin runs'
  BY <1>1, <1>2 DEF HeldInv, EngineTypes
<1> QED
  BY <1>4, <1>5 DEF HeldInv

(* abort_all leaves the attempts, unawaited. *)
LEMMA HeldAbort ==
  ASSUME TypeOK, EngineTypes, [EngineNext]_allVars, HeldInv,
         NEW w \in Workers, drain_timeout(w)
  PROVE  HeldInv'
<1>1. /\ runs' = (runs \ Awaited(w)) \cup {[e EXCEPT !.awaited = FALSE] : e \in Awaited(w)}
      /\ returned' = returned
  BY DEF drain_timeout
<1>2. Held \subseteq Attempt /\ Awaited(w) \subseteq runs /\ runs \subseteq Held
  BY HeldTypes DEF Awaited, Held
<1>3. ASSUME NEW e \in Awaited(w)
      PROVE  /\ Standing([e EXCEPT !.awaited = FALSE])'
             /\ [e EXCEPT !.awaited = FALSE].awaited = FALSE
  <2> DEFINE f == [e EXCEPT !.awaited = FALSE]
  <2>1. e \in Attempt /\ Standing(e)
    BY <1>2 DEF HeldInv
  <2>2. f.worker = e.worker /\ f.task = e.task /\ f.attempt = e.attempt /\ f.awaited = FALSE
    BY <2>1 DEF Attempt
  <2> HIDE DEF f
  <2>3. Standing(f)'
    BY <2>1, <2>2, StandingKept
  <2> QED
    BY <2>2, <2>3 DEF f
<1>4. \A e \in Held : Standing(e)'
  BY <1>2, StandingKept DEF HeldInv
<1>5. \A e \in Held' : Standing(e)'
  BY <1>1, <1>3, <1>4 DEF Held, InTransit
<1>6. \A v \in Workers : returned'[v] # NULL =>
          returned'[v].awaited /\ returned'[v].worker = v /\ returned'[v] \notin runs'
  BY <1>1, <1>3 DEF HeldInv
<1> QED
  BY <1>5, <1>6 DEF HeldInv

(* Every step of the engines keeps the invariant. *)
LEMMA HeldStep ==
  ASSUME TypeOK, EngineTypes, HeldInv, [EngineNext]_allVars
  PROVE  HeldInv'
<1>1. CASE \E w \in Workers : \E i \in Tasks : claim(w, i)
  BY <1>1, HeldClaim
<1>2. CASE \E w \in Workers : dispatch_task(w)
  BY <1>2, HeldDispatch
<1>3. CASE \E w \in Workers : drain_timeout(w)
  BY <1>3, HeldAbort
<1>4. ASSUME runs' \subseteq runs, \A w \in Workers : returned'[w] \in {returned[w], NULL}
      PROVE  HeldInv'
  BY <1>4, HeldFewer
<1>5. ASSUME NEW w \in Workers,
             \/ tick(w) \/ claim_nothing(w) \/ claim_cancelled(w) \/ claim_backoff(w)
             \/ claim_dropped(w) \/ stop_polling(w)
      PROVE  HeldInv'
  BY <1>4, <1>5 DEF tick, claim_nothing, claim_cancelled, claim_backoff, claim_dropped,
                    stop_polling, Received, EngineTypes
<1>6. ASSUME NEW w \in Workers, drained(w) \/ release_leases(w) \/ cancel_token(w) \/ crash(w)
      PROVE  HeldInv'
  BY <1>4, <1>6 DEF drained, release_leases, cancel_token, crash, Received, EngineTypes
<1>7. ASSUME NEW e \in runs, report(e) \/ end_unawaited(e)
      PROVE  HeldInv'
  BY <1>4, <1>7 DEF report, end_unawaited
<1>8. ASSUME UNCHANGED engine
      PROVE  HeldInv'
  BY <1>4, <1>8 DEF engine
<1> QED
  BY <1>1, <1>2, <1>3, <1>5, <1>6, <1>7, <1>8
     DEF EngineNext, PollStep, DrainStep, allVars, checkpoint, recover, cleanup, expire, client,
         enqueue_raw, delete_task, signal_task, pass_time

-----------------------------------------------------------------------------
(* Permits *)

(* The phases in which the poll loop, or its drain, still owns the permits, *)
(* and the claim that holds one without a handler.                          *)
Looping == {"polling", "claiming", "claimed", "draining"}

InFlight(w) == IF phase[w] \in {"claiming", "claimed"} THEN 1 ELSE 0

(* The inductive invariant.  The sum alone says nothing of an engine that   *)
(* stopped; that none of its handlers returns a permit once too often needs *)
(* that it awaits none.                                                     *)
WorkerInv(w) ==
    /\ IsFiniteSet(Awaited(w))
    /\ phase[w] \in Looping =>
          permits[w] + Cardinality(Awaited(w)) + InFlight(w) = Concurrency
    /\ phase[w] \notin Looping => Awaited(w) = {} /\ permits[w] = Concurrency

PermitsInv ==
    /\ permits \in [Workers -> Nat]
    /\ \A w \in Workers : WorkerInv(w)

(* What a step leaves alone keeps its count. *)
LEMMA WorkerKept ==
  ASSUME NEW w \in Workers, WorkerInv(w),
         permits'[w] = permits[w], phase'[w] = phase[w], Awaited(w)' = Awaited(w)
  PROVE  WorkerInv(w)'
  BY DEF WorkerInv, InFlight

(* A step of the loop of one worker concerns no other. *)
LEMMA OneWorkerMoves ==
  ASSUME PermitsInv, EngineTypes, NEW w \in Workers, NEW p, NEW n \in Nat,
         phase' = [phase EXCEPT ![w] = p],
         permits' = [permits EXCEPT ![w] = n],
         \A v \in Workers \ {w} : Awaited(v)' = Awaited(v),
         WorkerInv(w)'
  PROVE  PermitsInv'
<1>1. permits' \in [Workers -> Nat]
  BY DEF PermitsInv
<1>2. \A v \in Workers \ {w} : permits'[v] = permits[v] /\ phase'[v] = phase[v]
  BY DEF PermitsInv, EngineTypes
<1>3. \A v \in Workers \ {w} : WorkerInv(v)'
  BY <1>2, WorkerKept DEF PermitsInv
<1> QED
  BY <1>1, <1>3 DEF PermitsInv

(* The loop moves on and its handlers stay: the permits change by what the  *)
(* claim in flight does.                                                    *)
LEMMA LoopMoves ==
  ASSUME PermitsInv, EngineTypes, NEW w \in Workers, NEW p \in Looping, NEW n \in Nat,
         phase[w] \in Looping,
         phase' = [phase EXCEPT ![w] = p],
         permits' = [permits EXCEPT ![w] = n],
         runs' = runs,
         n + (IF p \in {"claiming", "claimed"} THEN 1 ELSE 0) = permits[w] + InFlight(w)
  PROVE  PermitsInv'
<1>1. \A v \in Workers : Awaited(v)' = Awaited(v)
  BY DEF Awaited
<1>2. permits'[w] = n /\ phase'[w] = p /\ permits[w] \in Nat
  BY DEF PermitsInv, EngineTypes
<1>3. /\ IsFiniteSet(Awaited(w)) /\ Cardinality(Awaited(w)) \in Nat
      /\ permits[w] + Cardinality(Awaited(w)) + InFlight(w) = Concurrency
  BY FS_CardinalityType DEF PermitsInv, WorkerInv
<1>4. n + Cardinality(Awaited(w)) + InFlight(w)' = Concurrency
  BY <1>2, <1>3 DEF InFlight
<1>5. WorkerInv(w)'
  BY <1>1, <1>2, <1>3, <1>4 DEF WorkerInv
<1> QED
  BY <1>1, <1>5, OneWorkerMoves

(* The loop ends, and with it every handler the worker awaits. *)
LEMMA LoopEnds ==
  ASSUME PermitsInv, EngineTypes, NEW w \in Workers, NEW p \in Phases \ Looping,
         phase' = [phase EXCEPT ![w] = p],
         permits' = [permits EXCEPT ![w] = Concurrency],
         \A v \in Workers \ {w} : Awaited(v)' = Awaited(v),
         Awaited(w)' = {}
  PROVE  PermitsInv'
<1>1. permits'[w] = Concurrency /\ phase'[w] = p
  BY DEF PermitsInv, EngineTypes
<1>2. WorkerInv(w)'
  BY <1>1, FS_EmptySet DEF WorkerInv
<1>3. Concurrency \in Nat
  BY EngineAssumption
<1> QED
  BY <1>2, <1>3, OneWorkerMoves

(* The steps of the poll loop. *)
LEMMA PermitsPoll ==
  ASSUME TypeOK, EngineTypes, HeldInv, PermitsInv, NEW w \in Workers, PollStep(w)
  PROVE  PermitsInv'
<1>0. permits[w] \in Nat /\ permits[w] + 1 \in Nat
  BY DEF PermitsInv
<1>1. CASE tick(w)
  <2>1. /\ phase[w] = "polling" /\ permits[w] - 1 \in Nat
        /\ phase' = [phase EXCEPT ![w] = "claiming"]
        /\ permits' = [permits EXCEPT ![w] = permits[w] - 1]
        /\ runs' = runs
    BY <1>0, <1>1 DEF tick, Become
  <2>2. (permits[w] - 1) + 1 = permits[w] + InFlight(w)
    BY <1>0, <2>1 DEF InFlight
  <2> QED
    BY <2>1, <2>2, LoopMoves DEF Looping
<1>2. ASSUME NEW p \in {"polling", "draining"},
             phase[w] \in {"claiming", "claimed"}, Become(w, p), DropPermit(w), runs' = runs
      PROVE  PermitsInv'
  <2>1. /\ phase' = [phase EXCEPT ![w] = p]
        /\ permits' = [permits EXCEPT ![w] = permits[w] + 1]
    BY <1>2 DEF Become, DropPermit
  <2>2. (permits[w] + 1) + 0 = permits[w] + InFlight(w)
    BY <1>0, <1>2 DEF InFlight
  <2> QED
    BY <1>0, <1>2, <2>1, <2>2, LoopMoves DEF Looping
<1>3. CASE claim_nothing(w) \/ claim_cancelled(w) \/ claim_backoff(w) \/ claim_dropped(w)
  BY <1>2, <1>3 DEF claim_nothing, claim_cancelled, claim_backoff, claim_dropped, Delivered
<1>4. CASE stop_polling(w)
  <2>1. CASE phase[w] = "claiming" /\ DropPermit(w)
    BY <1>2, <1>4, <2>1 DEF stop_polling
  <2>2. CASE phase[w] = "polling" /\ UNCHANGED permits
    <3>1. /\ phase' = [phase EXCEPT ![w] = "draining"]
          /\ permits' = [permits EXCEPT ![w] = permits[w]]
          /\ runs' = runs
      BY <1>4, <2>2 DEF stop_polling, Become, PermitsInv
    <3>2. permits[w] + 0 = permits[w] + InFlight(w)
      BY <1>0, <2>2 DEF InFlight
    <3> QED
      BY <1>0, <2>2, <3>1, <3>2, LoopMoves DEF Looping
  <2> QED
    BY <1>4, <2>1, <2>2 DEF stop_polling
<1>5. CASE dispatch_task(w)
  <2> DEFINE e == returned[w]
  <2>1. /\ phase[w] = "claimed"
        /\ phase' = [phase EXCEPT ![w] = "polling"]
        /\ permits' = [permits EXCEPT ![w] = permits[w]]
        /\ runs' = runs \cup {e}
    BY <1>5 DEF dispatch_task, Delivered, Become, PermitsInv
  <2>2. e \in Attempt /\ e # NULL
    BY <2>1, EngineAssumption DEF EngineTypes
  <2>3. e.worker = w /\ e.awaited /\ e \notin runs
    BY <2>2 DEF HeldInv
  <2>4. \A v \in Workers \ {w} : Awaited(v)' = Awaited(v)
    BY <2>1, <2>3 DEF Awaited
  <2>5. Awaited(w)' = Awaited(w) \cup {e} /\ e \notin Awaited(w)
    BY <2>1, <2>3 DEF Awaited
  <2>6. /\ IsFiniteSet(Awaited(w)) /\ Cardinality(Awaited(w)) \in Nat
        /\ permits[w] + Cardinality(Awaited(w)) + 1 = Concurrency
    BY <2>1, FS_CardinalityType DEF PermitsInv, WorkerInv, Looping, InFlight
  <2> HIDE DEF e
  <2>7. IsFiniteSet(Awaited(w)') /\ Cardinality(Awaited(w)') = Cardinality(Awaited(w)) + 1
    BY <2>5, <2>6, FS_AddElement
  <2>8. phase'[w] = "polling" /\ permits'[w] = permits[w]
    BY <2>1 DEF EngineTypes, PermitsInv
  <2>9. permits'[w] + Cardinality(Awaited(w)') + InFlight(w)' = Concurrency
    BY <1>0, <2>6, <2>7, <2>8 DEF InFlight
  <2>10. WorkerInv(w)'
    BY <2>7, <2>8, <2>9 DEF WorkerInv, Looping
  <2> QED
    BY <1>0, <2>1, <2>4, <2>10, OneWorkerMoves
<1> QED
  BY <1>1, <1>3, <1>4, <1>5 DEF PollStep

(* A handler that ends returns its permit, if somebody awaits it. *)
LEMMA PermitsReport ==
  ASSUME TypeOK, EngineTypes, PermitsInv, NEW e \in runs, report(e) \/ end_unawaited(e)
  PROVE  PermitsInv'
<1>1. e \in Attempt /\ e.worker \in Workers
  BY DEF EngineTypes, Attempt
<1>2. CASE end_unawaited(e)
  <2>1. \A v \in Workers : Awaited(v)' = Awaited(v)
    BY <1>2 DEF end_unawaited, Awaited
  <2> QED
    BY <1>2, <2>1, WorkerKept DEF end_unawaited, PermitsInv
<1>3. CASE report(e)
  <2> DEFINE w == e.worker
  <2>1. /\ runs' = runs \ {e} /\ e.awaited
        /\ phase' = phase
        /\ permits' = [permits EXCEPT ![w] = permits[w] + 1]
    BY <1>3 DEF report, DropPermit
  <2>2. phase' = [phase EXCEPT ![w] = phase[w]]
    BY <1>1, <2>1 DEF EngineTypes
  <2>3. \A v \in Workers \ {w} : Awaited(v)' = Awaited(v)
    BY <2>1 DEF Awaited
  <2>4. Awaited(w)' = Awaited(w) \ {e} /\ e \in Awaited(w)
    BY <2>1 DEF Awaited
  <2>5. WorkerInv(w) /\ permits[w] \in Nat
    BY <1>1 DEF PermitsInv
  <2>6. phase[w] \in Looping
    BY <2>4, <2>5 DEF WorkerInv
  <2>7. /\ IsFiniteSet(Awaited(w)) /\ Cardinality(Awaited(w)) \in Nat
        /\ permits[w] + Cardinality(Awaited(w)) + InFlight(w) = Concurrency
    BY <2>5, <2>6, FS_CardinalityType DEF WorkerInv
  <2>8. permits'[w] = permits[w] + 1 /\ InFlight(w)' = InFlight(w) /\ InFlight(w) \in {0, 1}
    BY <1>1, <2>1 DEF PermitsInv, InFlight
  <2> HIDE DEF w
  <2>9. IsFiniteSet(Awaited(w)') /\ Cardinality(Awaited(w)') = Cardinality(Awaited(w)) - 1
    BY <2>4, <2>7, FS_RemoveElement
  <2>10. permits'[w] + Cardinality(Awaited(w)') + InFlight(w)' = Concurrency
    BY <2>5, <2>7, <2>8, <2>9
  <2>11. WorkerInv(w)'
    BY <2>1, <2>6, <2>9, <2>10 DEF WorkerInv
  <2>12. w \in Workers /\ permits[w] + 1 \in Nat
    BY <1>1, <2>5 DEF w
  <2> QED
    BY <2>1, <2>2, <2>3, <2>11, <2>12, OneWorkerMoves
<1> QED
  BY <1>2, <1>3

(* The drain and the crash: abort_all drops the JoinSet, and with it every  *)
(* permit its tasks hold.                                                   *)
LEMMA PermitsDrain ==
  ASSUME TypeOK, EngineTypes, PermitsInv, NEW w \in Workers, DrainStep(w) \/ crash(w)
  PROVE  PermitsInv'
<1>0. permits[w] \in Nat /\ WorkerInv(w) /\ Concurrency \in Nat
  BY EngineAssumption DEF PermitsInv
<1>1. CASE drained(w)
  <2>1. /\ phase[w] = "draining" /\ Awaited(w) = {}
        /\ phase' = [phase EXCEPT ![w] = "stopped"]
        /\ permits' = permits /\ runs' = runs
    BY <1>1 DEF drained, Become
  <2>2. permits[w] = Concurrency
    <3>1. permits[w] + Cardinality({}) + 0 = Concurrency
      BY <1>0, <2>1 DEF WorkerInv, Looping, InFlight
    <3> QED
      BY <1>0, <3>1, FS_EmptySet
  <2>3. permits' = [permits EXCEPT ![w] = Concurrency]
    BY <2>1, <2>2 DEF PermitsInv
  <2>4. \A v \in Workers : Awaited(v)' = Awaited(v)
    BY <2>1 DEF Awaited
  <2> QED
    BY <2>1, <2>3, <2>4, LoopEnds DEF Phases, Looping
<1>2. CASE drain_timeout(w)
  <2>1. /\ phase' = [phase EXCEPT ![w] = "aborted"]
        /\ permits' = [permits EXCEPT ![w] = Concurrency]
        /\ runs' = (runs \ Awaited(w)) \cup {[e EXCEPT !.awaited = FALSE] : e \in Awaited(w)}
    BY <1>2 DEF drain_timeout, Become
  <2>2. \A e \in Awaited(w) : ~[e EXCEPT !.awaited = FALSE].awaited /\ e.worker = w
    BY DEF Awaited, EngineTypes, Attempt
  <2>3. \A v \in Workers \ {w} : Awaited(v)' = Awaited(v)
    BY <2>1, <2>2 DEF Awaited
  <2>4. Awaited(w)' = {}
    BY <2>1, <2>2 DEF Awaited
  <2> QED
    BY <2>1, <2>3, <2>4, LoopEnds DEF Phases, Looping
<1>3. CASE release_leases(w)
  <2>1. /\ phase[w] = "aborted"
        /\ phase' = [phase EXCEPT ![w] = "stopped"]
        /\ permits' = permits /\ runs' = runs
    BY <1>3 DEF release_leases, Become
  <2>2. permits[w] = Concurrency /\ Awaited(w) = {}
    BY <1>0, <2>1 DEF WorkerInv, Looping
  <2>3. permits' = [permits EXCEPT ![w] = Concurrency]
    BY <2>1, <2>2 DEF PermitsInv
  <2>4. \A v \in Workers : Awaited(v)' = Awaited(v)
    BY <2>1 DEF Awaited
  <2> QED
    BY <2>1, <2>2, <2>3, <2>4, LoopEnds DEF Phases, Looping
<1>4. CASE crash(w)
  <2>1. /\ phase' = [phase EXCEPT ![w] = "stopped"]
        /\ permits' = [permits EXCEPT ![w] = Concurrency]
        /\ runs' = {e \in runs : e.worker # w}
    BY <1>4 DEF crash, Become
  <2>2. Awaited(w)' = {} /\ \A v \in Workers \ {w} : Awaited(v)' = Awaited(v)
    BY <2>1 DEF Awaited
  <2> QED
    BY <2>1, <2>2, LoopEnds DEF Phases, Looping
<1> QED
  BY <1>1, <1>2, <1>3, <1>4 DEF DrainStep

(* Every step of the engines keeps the count of permits. *)
LEMMA PermitsStep ==
  ASSUME TypeOK, EngineTypes, HeldInv, PermitsInv, [EngineNext]_allVars
  PROVE  PermitsInv'
<1>1. ASSUME NEW w \in Workers, NEW i \in Tasks, claim(w, i)
      PROVE  PermitsInv'
  <2>1. /\ phase[w] = "claiming"
        /\ phase' = [phase EXCEPT ![w] = "claimed"]
        /\ permits' = [permits EXCEPT ![w] = permits[w]]
        /\ runs' = runs
    BY <1>1 DEF claim, Become, PermitsInv
  <2>2. permits[w] \in Nat /\ permits[w] + 1 = permits[w] + InFlight(w)
    BY <2>1 DEF PermitsInv, InFlight
  <2> QED
    BY <2>1, <2>2, LoopMoves DEF Looping
<1>2. ASSUME NEW w \in Workers, PollStep(w)
      PROVE  PermitsInv'
  BY <1>2, PermitsPoll
<1>3. ASSUME NEW w \in Workers, DrainStep(w) \/ crash(w)
      PROVE  PermitsInv'
  BY <1>3, PermitsDrain
<1>4. ASSUME NEW e \in runs, report(e) \/ end_unawaited(e)
      PROVE  PermitsInv'
  BY <1>4, PermitsReport
<1>5. ASSUME phase' = phase, permits' = permits, runs' = runs
      PROVE  PermitsInv'
  BY <1>5, WorkerKept DEF PermitsInv, Awaited
<1> QED
  BY <1>1, <1>2, <1>3, <1>4, <1>5
     DEF EngineNext, allVars, engine, cancel_token, checkpoint, recover, cleanup, expire, client,
         enqueue_raw, delete_task, signal_task, pass_time

(* What the engines hold and count, always. *)
LEMMA HeldInvariant == EngineSpec => [](HeldInv /\ PermitsInv)
<1>1. EngineInit => HeldInv /\ PermitsInv
  <2> SUFFICES ASSUME EngineInit PROVE HeldInv /\ PermitsInv
    OBVIOUS
  <2>1. runs = {} /\ \A w \in Workers : returned[w] = NULL
    BY DEF EngineInit
  <2>2. HeldInv
    BY <2>1 DEF HeldInv, Held, InTransit
  <2>3. ASSUME NEW w \in Workers
        PROVE  WorkerInv(w)
    <3>1. Awaited(w) = {} /\ IsFiniteSet({}) /\ Cardinality({}) = 0
      BY <2>1, FS_EmptySet DEF Awaited
    <3>2. phase[w] = "polling" /\ permits[w] = Concurrency
      BY DEF EngineInit
    <3>3. permits[w] + Cardinality(Awaited(w)) + InFlight(w) = Concurrency
      BY <3>1, <3>2, EngineAssumption DEF InFlight
    <3> QED
      BY <3>1, <3>2, <3>3 DEF WorkerInv, Looping
  <2>4. permits \in [Workers -> Nat]
    BY EngineAssumption DEF EngineInit
  <2> QED
    BY <2>2, <2>3, <2>4 DEF PermitsInv
<1>2. TypeOK /\ EngineTypes /\ HeldInv /\ PermitsInv /\ [EngineNext]_allVars
        => (HeldInv /\ PermitsInv)'
  BY HeldStep, PermitsStep
<1> QED
  BY <1>1, <1>2, EngineTypesCorrect, PTL DEF EngineSpec

(* No path through the poll loop, the dispatch, the drain, an abort or a    *)
(* crash leaks a permit or returns one twice, so a worker never runs more   *)
(* handlers it awaits than WorkerConfig.concurrency.                        *)
THEOREM PermitsCorrect == EngineSpec => []PermitsAccounted
<1>1. PermitsInv => PermitsAccounted
  BY DEF PermitsInv, WorkerInv, PermitsAccounted, Looping, InFlight
<1> QED
  BY <1>1, HeldInvariant, PTL

(* The token and the two histories name workers and tasks that exist. *)
HistoryTypes == token \subseteq Workers /\ executed \subseteq Tasks /\ strayed \subseteq Tasks

(* The steps keep the types of the token and the histories. *)
LEMMA HistoryStep ==
  ASSUME TypeOK, EngineTypes, HistoryTypes, [EngineNext]_allVars
  PROVE  HistoryTypes'
<1>0. \A e \in runs \cup InTransit : e.task \in Tasks
  BY DEF EngineTypes, InTransit, Attempt
<1>1. ASSUME NEW w \in Workers, dispatch_task(w)
      PROVE  HistoryTypes'
  <2>1. returned[w] \in Attempt
    BY <1>1 DEF dispatch_task, Delivered, EngineTypes
  <2>2. returned[w].task \in Tasks
    BY <2>1 DEF Attempt
  <2> QED
    BY <1>1, <2>2 DEF dispatch_task, HistoryTypes
<1>2. ASSUME NEW w \in Workers, drain_timeout(w)
      PROVE  HistoryTypes'
  <2>1. {e.task : e \in Awaited(w)} \subseteq Tasks
    BY <1>0 DEF Awaited
  <2> QED
    BY <1>2, <2>1 DEF drain_timeout, HistoryTypes
<1>3. CASE pass_time
  <2>1. {e.task : e \in {f \in runs \cup InTransit : f.until < now + 1}} \subseteq Tasks
    BY <1>0
  <2> QED
    BY <1>3, <2>1 DEF pass_time, engine, HistoryTypes
<1>4. ASSUME NEW w \in Workers, cancel_token(w)
      PROVE  HistoryTypes'
  BY <1>4 DEF cancel_token, history, HistoryTypes
<1>5. ASSUME token' = token, UNCHANGED history
      PROVE  HistoryTypes'
  BY <1>5 DEF history, HistoryTypes
<1>6. ASSUME NEW w \in Workers, PollStep(w), ~dispatch_task(w)
      PROVE  HistoryTypes'
  BY <1>5, <1>6 DEF PollStep, tick, claim_nothing, claim_cancelled, claim_backoff,
                    claim_dropped, stop_polling
<1>7. ASSUME NEW w \in Workers, drained(w) \/ release_leases(w) \/ crash(w)
      PROVE  HistoryTypes'
  BY <1>5, <1>7 DEF drained, release_leases, crash
<1>8. ASSUME NEW w \in Workers, NEW i \in Tasks, claim(w, i)
      PROVE  HistoryTypes'
  BY <1>5, <1>8 DEF claim
<1>9. ASSUME NEW e \in runs, report(e) \/ end_unawaited(e)
      PROVE  HistoryTypes'
  BY <1>5, <1>9 DEF report, end_unawaited
<1> QED
  BY <1>1, <1>2, <1>3, <1>4, <1>5, <1>6, <1>7, <1>8, <1>9
     DEF EngineNext, DrainStep, allVars, engine, checkpoint, recover, cleanup, expire, client,
         enqueue_raw, delete_task, signal_task

(* The free permits of a worker are between none and all. *)
LEMMA PermitsBounded ==
  ASSUME PermitsInv
  PROVE  permits \in [Workers -> 0..Concurrency]
<1>1. ASSUME NEW w \in Workers
      PROVE  permits[w] \in 0..Concurrency
  <2>1. permits[w] \in Nat /\ WorkerInv(w) /\ Concurrency \in Nat
    BY EngineAssumption DEF PermitsInv
  <2>2. Cardinality(Awaited(w)) \in Nat
    BY <2>1, FS_CardinalityType DEF WorkerInv
  <2>3. InFlight(w) \in {0, 1}
    BY DEF InFlight
  <2> QED
    BY <2>1, <2>2, <2>3 DEF WorkerInv
<1> QED
  BY <1>1 DEF PermitsInv

(* Every variable of the engines keeps its type: the semaphore of a worker  *)
(* never has more free permits than it was made with.                       *)
THEOREM EngineTypeCorrect == EngineSpec => []EngineTypeOK
<1>1. EngineInit => HistoryTypes
  BY DEF EngineInit, HistoryTypes
<1>2. TypeOK /\ EngineTypes /\ HistoryTypes /\ [EngineNext]_allVars => HistoryTypes'
  BY HistoryStep
<1>3. EngineTypes /\ HistoryTypes /\ PermitsInv => EngineTypeOK
  BY PermitsBounded DEF EngineTypes, HistoryTypes, EngineTypeOK
<1> QED
  BY <1>1, <1>2, <1>3, EngineTypesCorrect, HeldInvariant, PTL DEF EngineSpec

-----------------------------------------------------------------------------
(* What operators see of the attempts *)

(* The attempts a worker makes on time each hold a row of its queue, and no *)
(* two the same, so its status line counts at least as many.                *)
LEMMA AttemptsShown ==
  ASSUME TypeOK, EngineTypes, AttemptInv, HeldInv, IsFiniteSet(Present), NEW w \in Workers
  PROVE  LET made == {e \in Held : e.worker = w /\ e.task \notin strayed}
         IN  made # {} =>
               \E s \in worker_status(WorkerQueue[w]) :
                  s.worker_id = w /\ s.tasks_in_flight >= Cardinality(made)
<1> DEFINE made == {e \in Held : e.worker = w /\ e.task \notin strayed}
           q == WorkerQueue[w]
           H == HeldIn(q, w)
           f == [e \in made |-> e.task]
<1> SUFFICES ASSUME made # {}
             PROVE  \E s \in worker_status(q) :
                       s.worker_id = w /\ s.tasks_in_flight >= Cardinality(made)
  OBVIOUS
<1>1. ASSUME NEW e \in made
      PROVE  e \in Attempt /\ Good(e) /\ e.task \in H
  <2>1. e \in Attempt /\ Good(e) /\ Standing(e) /\ e.worker = w
    BY HeldTypes DEF AttemptInv, HeldInv
  <2> QED
    BY <2>1 DEF Good, Owns, Standing, HeldIn, HeldBy, InStatus
<1>2. \A e, g \in made : e.task = g.task => e = g
  BY <1>1, GoodUnique
<1>3. IsFiniteSet(H) /\ Cardinality(H) \in Nat
  BY HeldNumbered
<1>4. H # {}
  BY <1>1
<1>5. worker_status(q) = {StatusLine(q, v) : v \in ActiveIn(q)}
  BY ViewFacts
<1>6. StatusLine(q, w) \in worker_status(q)
  BY <1>4, <1>5 DEF ActiveIn
<1>7. StatusLine(q, w).worker_id = w /\ StatusLine(q, w).tasks_in_flight = Cardinality(H)
  BY LineNames
<1> HIDE DEF made, H, q
<1>8. f \in Injection(made, H)
  <2>1. f \in [made -> H]
    BY <1>1
  <2>2. \A e, g \in made : f[e] = f[g] => e = g
    BY <1>2
  <2> QED
    BY <2>1, <2>2, Fun_IsInj
<1>9. IsFiniteSet(made) /\ Cardinality(made) <= Cardinality(H)
  BY <1>3, <1>8, FS_Injection
<1>10. Cardinality(made) \in Nat
  BY <1>9, FS_CardinalityType
<1> QED
  BY <1>3, <1>6, <1>7, <1>9, <1>10

(* `iron-defer workers` never hides an attempt that still owns its row: for *)
(* every worker it shows at least as many tasks in flight as the worker     *)
(* makes attempts on time, the claims not yet dispatched included.          *)
THEOREM StatusCorrect == EngineSpec => []StatusShowsAttempts
<1>1. TypeOK /\ EngineTypes /\ AttemptInv /\ HeldInv /\ IsFiniteSet(Present)
        => StatusShowsAttempts
  BY AttemptsShown DEF StatusShowsAttempts, Held
<1>2. EngineInit => AttemptInv
  BY DEF EngineInit, AttemptInv, Held, InTransit
<1>3. TypeOK /\ EngineTypes /\ AttemptInv /\ [EngineNext]_allVars => AttemptInv'
  BY AttemptInvStep
<1>4. EngineSpec => []IsFiniteSet(Present)
  BY EngineImplementsStore, FiniteTable, PTL DEF ImplementsStore
<1> QED
  BY <1>1, <1>2, <1>3, <1>4, EngineTypesCorrect, HeldInvariant, PTL DEF EngineSpec

(* The counts of the tables hold of the engines too, whoever calls. *)
THEOREM EngineKeepsCounts ==
  EngineSpec => [](AuditNamesClaimer /\ AttemptsTrackClaims /\ StatisticsAgree)
  BY EngineImplementsStore, AuditNamesCorrect, AttemptsCorrect, StatisticsCorrect, PTL
     DEF ImplementsStore

=============================================================================
