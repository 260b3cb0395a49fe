---------------------------- MODULE EngineProofs ----------------------------
(***************************************************************************)
(* Proofs about Engine, for any number of engines, tasks and permits.      *)
(*                                                                         *)
(* Every step of the engines is a step of TaskStore or leaves the tables   *)
(* alone, so the theorems of TaskStoreProofs, which hold for any callers   *)
(* of the repository, hold of the engines.  What callers matter for is     *)
(* exclusion: AttemptInv below is the inductive invariant behind it.       *)
(***************************************************************************)
EXTENDS Engine, TaskStoreProofs

(* What the steps need to know of the engines' variables. *)
EngineTypes ==
    /\ phase \in [Workers -> Phases]
    /\ returned \in [Workers -> Attempt \cup {NULL}]
    /\ \A w \in Workers : /\ phase[w] = "claimed" => returned[w] \in Attempt
                          /\ phase[w] # "claimed" => returned[w] = NULL
    /\ runs \subseteq Attempt

(* A step of the engines is a step of the tables: a row they change was    *)
(* found by its status, so it exists.                                      *)
LEMMA StepImplementsStore ==
  ASSUME TypeOK, EngineTypes, [EngineNext]_allVars
  PROVE  [Next]_vars
<1>1. \A st : InStatus(st) \subseteq Tasks
  BY DEF InStatus, TypeOK
<1>2. ASSUME NEW w \in Workers, NEW i \in Tasks, claim(w, i)
      PROVE  Next
  <2>1. WorkerQueue[w] \in Queues
    BY EngineAssumption
  <2> QED
    BY <1>2, <2>1 DEF claim, Next
<1>3. ASSUME NEW w \in Workers, PollStep(w)
      PROVE  [Next]_vars
  <2>1. CASE claim_cancelled(w)
    <3>1. CASE release_lease_for_task(returned[w].task)
      BY <1>1, <3>1 DEF release_lease_for_task, Next
    <3> QED
      BY <2>1, <3>1 DEF claim_cancelled
  <2>2. CASE ~claim_cancelled(w)
    BY <1>3, <2>2 DEF PollStep, tick, claim_nothing, dispatch_task, claim_backoff,
                      claim_dropped, stop_polling
  <2> QED
    BY <2>1, <2>2
<1>4. ASSUME NEW w \in Workers, DrainStep(w)
      PROVE  [Next]_vars
  BY <1>4 DEF DrainStep, drained, drain_timeout, release_leases, Next
<1>5. ASSUME NEW w \in Workers, cancel_token(w) \/ crash(w)
      PROVE  [Next]_vars
  BY <1>5 DEF cancel_token, crash
<1>6. ASSUME NEW e \in runs, report(e)
      PROVE  [Next]_vars
  <2>1. ASSUME NEW outcome \in Outcomes, Report(e.task, outcome)
        PROVE  Next
    <3>1. e.task \in Tasks
      BY <1>1, <2>1 DEF Report, handle_task_failure, complete, fail, suspend
    <3> QED
      BY <2>1, <3>1 DEF Report, handle_task_failure, Next
  <2> QED
    BY <1>6, <2>1 DEF report
<1>7. ASSUME NEW e \in runs, end_unawaited(e) \/ checkpoint(e)
      PROVE  [Next]_vars
  <2>1. e.task \in Tasks /\ e.worker \in Workers
    BY DEF EngineTypes, Attempt
  <2> QED
    BY <1>7, <2>1 DEF end_unawaited, checkpoint, Next
<1>8. ASSUME NEW w \in Workers, recover(w) \/ cleanup(w) \/ expire(w)
      PROVE  Next
  BY <1>8 DEF recover, cleanup, expire, Next
<1>9. ASSUME NEW i \in Tasks, client(i)
      PROVE  Next
  BY <1>9 DEF client, enqueue_raw, delete_task, signal_task, Next
<1>10. CASE pass_time
  BY <1>10 DEF pass_time, Next
<1>11. CASE UNCHANGED allVars
  BY <1>11 DEF allVars
<1> QED
  BY <1>2, <1>3, <1>4, <1>5, <1>6, <1>7, <1>8, <1>9, <1>10, <1>11 DEF EngineNext

(* The steps keep the types of the engines' variables. *)
LEMMA EngineTypesStep ==
  ASSUME TypeOK, EngineTypes, [EngineNext]_allVars
  PROVE  EngineTypes'
<1>1. ASSUME NEW w \in Workers, NEW i \in Tasks, claim(w, i)
      PROVE  EngineTypes'
  <2> DEFINE rec == [worker |-> w, task |-> i, attempt |-> tasks[i].attempts + 1,
                     until |-> now + LeaseDuration, awaited |-> TRUE]
  <2>1. tasks[i] \in Row
    BY <1>1 DEF claim, claim_next, Claimable, InStatus, TypeOK
  <2>2. tasks[i].attempts + 1 \in Nat /\ now + LeaseDuration \in Nat
    BY <2>1, ConfigAssumption DEF Row, TypeOK
  <2>3. rec \in Attempt
    BY <2>2 DEF Attempt
  <2> HIDE DEF rec
  <2>4. /\ returned' = [returned EXCEPT ![w] = rec]
        /\ phase' = [phase EXCEPT ![w] = "claimed"]
        /\ runs' = runs
    BY <1>1 DEF claim, Become, rec
  <2> QED
    BY <2>3, <2>4 DEF EngineTypes, Phases
<1>2. ASSUME NEW w \in Workers, PollStep(w)
      PROVE  EngineTypes'
  <2>1. CASE tick(w)
    BY <2>1 DEF tick, Become, EngineTypes, Phases
  <2>2. CASE claim_nothing(w)
    BY <2>2 DEF claim_nothing, Become, EngineTypes, Phases
  <2>3. CASE dispatch_task(w)
    BY <2>3 DEF dispatch_task, Delivered, Become, Received, EngineTypes, Phases
  <2>4. CASE claim_cancelled(w)
    BY <2>4 DEF claim_cancelled, Become, Received, EngineTypes, Phases
  <2>5. CASE claim_backoff(w)
    BY <2>5 DEF claim_backoff, Become, Received, EngineTypes, Phases
  <2>6. CASE claim_dropped(w)
    BY <2>6 DEF claim_dropped, Become, Received, EngineTypes, Phases
  <2>7. CASE stop_polling(w)
    BY <2>7 DEF stop_polling, Become, EngineTypes, Phases
  <2> QED
    BY <1>2, <2>1, <2>2, <2>3, <2>4, <2>5, <2>6, <2>7 DEF PollStep
<1>3. ASSUME NEW w \in Workers, DrainStep(w)
      PROVE  EngineTypes'
  <2>1. CASE drained(w)
    BY <2>1 DEF drained, Become, EngineTypes, Phases
  <2>2. CASE drain_timeout(w)
    <3>1. \A e \in Awaited(w) : [e EXCEPT !.awaited = FALSE] \in Attempt
      BY DEF Awaited, EngineTypes, Attempt
    <3>2. runs' \subseteq Attempt
      BY <2>2, <3>1 DEF drain_timeout, EngineTypes
    <3> QED
      BY <2>2, <3>2 DEF drain_timeout, Become, EngineTypes, Phases
  <2>3. CASE release_leases(w)
    BY <2>3 DEF release_leases, Become, EngineTypes, Phases
  <2> QED
    BY <1>3, <2>1, <2>2, <2>3 DEF DrainStep
<1>4. ASSUME NEW w \in Workers, cancel_token(w)
      PROVE  EngineTypes'
  BY <1>4 DEF cancel_token, EngineTypes
<1>5. ASSUME NEW w \in Workers, crash(w)
      PROVE  EngineTypes'
  BY <1>5 DEF crash, Become, Received, EngineTypes, Phases
<1>6. ASSUME NEW e \in runs, report(e) \/ end_unawaited(e)
      PROVE  EngineTypes'
  BY <1>6 DEF report, end_unawaited, EngineTypes
<1>7. ASSUME UNCHANGED engine
      PROVE  EngineTypes'
  BY <1>7 DEF engine, EngineTypes
<1> QED
  BY <1>1, <1>2, <1>3, <1>4, <1>5, <1>6, <1>7
     DEF EngineNext, allVars, checkpoint, recover, cleanup, expire, client,
         enqueue_raw, delete_task, signal_task, pass_time

(* The engines' variables keep their types. *)
LEMMA EngineTypesCorrect == EngineSpec => [](TypeOK /\ EngineTypes)
<1>1. EngineInit => TypeOK /\ EngineTypes
  BY DEF EngineInit, Init, TypeOK, Present, EngineTypes, Phases
<1>2. TypeOK /\ EngineTypes /\ [EngineNext]_allVars => (TypeOK /\ EngineTypes)'
  BY StepImplementsStore, EngineTypesStep, TypeStep
<1> QED
  BY <1>1, <1>2, PTL DEF EngineSpec

(* The engines use the tables as TaskStore allows: the detailed            *)
(* specification of worker, sweeper and shutdown implements that of the    *)
(* repository, so that its theorems carry over.                            *)
THEOREM EngineImplementsStore == EngineSpec => ImplementsStore
<1>1. EngineInit => Init
  BY DEF EngineInit
<1>2. TypeOK /\ EngineTypes /\ [EngineNext]_allVars => [Next]_vars
  BY StepImplementsStore
<1> QED
  BY <1>1, <1>2, EngineTypesCorrect, PTL DEF EngineSpec, ImplementsStore, Spec
-----------------------------------------------------------------------------
(* Exclusion *)

(* An attempt that is still good: its row shows its worker, its number and *)
(* its lease, the lease is not over, and dispatch_task awaits it.          *)
Good(e) ==
    /\ e.task \in Present
    /\ Owns(e)
    /\ tasks[e.task].claimed_until = e.until
    /\ now <= e.until
    /\ e.awaited

Held == runs \cup InTransit

(* The inductive invariant.  Owns alone is not inductive: that the sweeper *)
(* spares an attempt needs its lease, that another attempt's report spares *)
(* it needs that two good attempts of one task are the same, and that the  *)
(* release after a drain timeout spares it needs that the engine has no    *)
(* good attempt left by then.                                              *)
AttemptInv ==
    /\ \A e \in Held : e.task \notin strayed => Good(e)
    /\ \A w \in Workers : \A e \in runs :
          (phase[w] = "aborted" /\ e.worker = w) => e.task \in strayed
    /\ \A w \in Workers : returned[w] # NULL => returned[w].worker = w
    /\ \A w \in Workers :
          (returned[w] # NULL /\ returned[w].task \notin strayed) => returned[w] \notin runs

(* The step leaves alone what Good says of the row. *)
Kept(i) ==
    /\ i \in Present'
    /\ tasks'[i].status = tasks[i].status
    /\ tasks'[i].claimed_by = tasks[i].claimed_by
    /\ tasks'[i].claimed_until = tasks[i].claimed_until
    /\ tasks'[i].attempts = tasks[i].attempts

(* A good attempt stays good when its row is kept and the clock stands. *)
LEMMA KeptGood ==
  ASSUME NEW e, Good(e), Kept(e.task), now' = now
  PROVE  Good(e)'
  BY DEF Good, Owns, Kept

(* Two good attempts of one task are the same attempt. *)
LEMMA GoodUnique ==
  ASSUME NEW e \in Attempt, NEW f \in Attempt, Good(e), Good(f), e.task = f.task
  PROVE  e = f
<1>1. e.worker = f.worker /\ e.attempt = f.attempt /\ e.until = f.until
  BY DEF Good, Owns
<1>2. e.awaited = TRUE /\ f.awaited = TRUE
  BY DEF Good, Attempt
<1> QED
  BY <1>1, <1>2 DEF Attempt

(* Which rows each operation of the repository keeps. *)
LEMMA OneRowKeeps ==
  ASSUME NEW i,
         \/ complete(i) \/ fail(i) \/ suspend(i) \/ release_lease_for_task(i)
         \/ cancel(i) \/ signal(i) \/ (\E w \in Workers, q \in Queues : claim_next(w, q, i)),
         NEW j \in Present, j # i
  PROVE  Kept(j) /\ now' = now
<1>1. /\ Present' = Present
      /\ tasks'[j] = tasks[j]
      /\ now' = now
  BY DEF complete, fail, suspend, release_lease_for_task, cancel, signal, claim_next,
         UpdateRows, Present
<1> QED
  BY <1>1 DEF Kept

(* release_leases_for_worker leaves the rows of the other workers alone. *)
LEMMA ReleaseKeeps ==
  ASSUME NEW w, release_leases_for_worker(w), NEW j \in Present, j \notin HeldBy(w)
  PROVE  Kept(j) /\ now' = now
<1>1. /\ Present' = Present
      /\ tasks'[j] = tasks[j]
      /\ now' = now
  BY DEF release_leases_for_worker, UpdateRows, Present
<1> QED
  BY <1>1 DEF Kept

(* The sweeper leaves a running row alone until its lease is over. *)
LEMMA SweepKeeps ==
  ASSUME recover_zombie_tasks \/ cleanup_expired_idempotency_keys \/ expire_suspended_tasks,
         TypeOK, NEW j \in Present, tasks[j].status = "running", ~Zombie(tasks[j])
  PROVE  Kept(j) /\ now' = now
<1>1. CASE recover_zombie_tasks
  BY <1>1 DEF recover_zombie_tasks, UpdateRows, Present, Kept
<1>2. CASE cleanup_expired_idempotency_keys
  BY <1>2 DEF cleanup_expired_idempotency_keys, UpdateRows, Present, Kept, Live, Terminal
<1>3. CASE expire_suspended_tasks
  BY <1>3 DEF expire_suspended_tasks, UpdateRows, InStatus, Present, Kept
<1> QED
  BY <1>1, <1>2, <1>3

(* Clients cannot touch a running row. *)
LEMMA ClientKeeps ==
  ASSUME NEW i \in Tasks, save(i) \/ save_idempotent(i) \/ cancel(i) \/ signal(i),
         NEW j \in Present, tasks[j].status = "running"
  PROVE  Kept(j) /\ now' = now
<1>1. CASE save(i) \/ save_idempotent(i)
  BY <1>1 DEF save, save_idempotent, InsertRow, Present, Kept
<1>2. CASE cancel(i) \/ signal(i)
  <2>1. j # i
    BY <1>2 DEF cancel, signal, InStatus
  <2> QED
    BY <1>2, <2>1, OneRowKeeps
<1> QED
  BY <1>1, <1>2

(* A checkpoint leaves the claim of every row alone. *)
LEMMA CheckpointKeeps ==
  ASSUME NEW i, NEW w, write_checkpoint(i, w), TypeOK, NEW j \in Present
  PROVE  Kept(j) /\ now' = now
  BY DEF write_checkpoint, UpdateRows, Present, Kept, TypeOK, Row

(* Members of Held are attempts. *)
LEMMA HeldTypes ==
  ASSUME EngineTypes
  PROVE  Held \subseteq Attempt
  BY DEF EngineTypes, Held, InTransit

(* Steps that add no attempt, keep the rows of the good ones that remain   *)
(* and stop the clock preserve the invariant.                              *)
LEMMA FewerAttempts ==
  ASSUME AttemptInv, EngineTypes,
         runs' \subseteq runs,
         \A w \in Workers : returned'[w] \in {returned[w], NULL},
         strayed' = strayed,
         \A w \in Workers : phase'[w] = "aborted" => phase[w] = "aborted",
         \A e \in Held' : e.task \notin strayed => Kept(e.task) /\ now' = now
  PROVE  AttemptInv'
<1>1. Held' \subseteq Held
  BY DEF Held, InTransit
<1>2. ASSUME NEW e \in Held', e.task \notin strayed'
      PROVE  Good(e)'
  BY <1>1, <1>2, KeptGood DEF AttemptInv
<1>3. \A w \in Workers : \A e \in runs' :
         (phase'[w] = "aborted" /\ e.worker = w) => e.task \in strayed'
  BY DEF AttemptInv
<1>4. \A w \in Workers : returned'[w] # NULL => returned'[w].worker = w
  BY DEF AttemptInv
<1>5. \A w \in Workers :
         (returned'[w] # NULL /\ returned'[w].task \notin strayed') => returned'[w] \notin runs'
  BY DEF AttemptInv
<1> QED
  BY <1>2, <1>3, <1>4, <1>5 DEF AttemptInv

(* claim: no good attempt has a pending row, so the new one is alone. *)
LEMMA ClaimKeepsInv ==
  ASSUME TypeOK, EngineTypes, AttemptInv, NEW w \in Workers, NEW i \in Tasks, claim(w, i)
  PROVE  AttemptInv'
<1>1. PICK rec : /\ rec.worker = w /\ rec.task = i /\ rec.attempt = tasks[i].attempts + 1
                 /\ rec.until = now + LeaseDuration /\ rec.awaited
                 /\ returned' = [returned EXCEPT ![w] = rec]
  BY Zenon DEF claim
<1>2. returned' = [returned EXCEPT ![w] = rec]
  BY <1>1
<1>3. /\ i \in Present
      /\ tasks[i].status = "pending"
      /\ Present' = Present
      /\ now' = now
      /\ tasks'[i] = Claimed(tasks[i], w)
  BY DEF claim, claim_next, Claimable, InStatus, UpdateRows, Present
<1>4. /\ runs' = runs /\ strayed' = strayed
      /\ phase' = [phase EXCEPT ![w] = "claimed"]
  BY DEF claim, history, Become
<1>5. \A e \in Held : e.task \notin strayed => e.task # i
  BY <1>3 DEF AttemptInv, Good, Owns
<1>6. WorkerQueue[w] \in Queues
  BY EngineAssumption
<1>7. \A j \in Present : j # i => Kept(j)
  BY <1>6, OneRowKeeps DEF claim
<1>8. Good(rec)'
  <2>1. tasks[i] \in Row
    BY <1>3 DEF TypeOK
  <2>2. /\ tasks'[i].status = "running"
        /\ tasks'[i].claimed_by = w
        /\ tasks'[i].claimed_until = now + LeaseDuration
        /\ tasks'[i].attempts = tasks[i].attempts + 1
    BY <1>3, <2>1 DEF Claimed, Row
  <2>3. now <= now + LeaseDuration
    BY ConfigAssumption DEF TypeOK
  <2> QED
    BY <1>1, <1>3, <2>2, <2>3 DEF Good, Owns
<1>9. Held' \subseteq Held \cup {rec}
  BY <1>2, <1>4 DEF Held, InTransit, EngineTypes
<1>10. ASSUME NEW e \in Held', e.task \notin strayed'
       PROVE  Good(e)'
  <2>1. CASE e = rec
    BY <1>8, <2>1
  <2>2. CASE e \in Held
    <3>1. Good(e) /\ e.task # i
      BY <1>4, <1>5, <1>10, <2>2 DEF AttemptInv
    <3>2. Kept(e.task)
      BY <1>7, <3>1 DEF Good
    <3> QED
      BY <1>3, <3>1, <3>2, KeptGood
  <2> QED
    BY <1>9, <1>10, <2>1, <2>2
<1>11. \A v \in Workers : \A e \in runs' :
          (phase'[v] = "aborted" /\ e.worker = v) => e.task \in strayed'
  BY <1>4 DEF AttemptInv, EngineTypes
<1>12. \A v \in Workers : returned'[v] # NULL => returned'[v].worker = v
  BY <1>1, <1>2 DEF AttemptInv, EngineTypes
<1>13. \A v \in Workers :
          (returned'[v] # NULL /\ returned'[v].task \notin strayed') => returned'[v] \notin runs'
  BY <1>1, <1>2, <1>4, <1>5 DEF AttemptInv, EngineTypes, Held
<1> QED
  BY <1>10, <1>11, <1>12, <1>13 DEF AttemptInv

(* The rest of the poll loop: an attempt moves from the call to the        *)
(* handler, or ends.                                                       *)
LEMMA PollKeepsInv ==
  ASSUME TypeOK, EngineTypes, AttemptInv, NEW w \in Workers, PollStep(w)
  PROVE  AttemptInv'
<1>1. ASSUME UNCHANGED vars
      PROVE  \A e : Good(e) => Good(e)'
  BY <1>1 DEF vars, Good, Owns, Present
<1>2. CASE tick(w)
  <2>1. \A v \in Workers : phase'[v] = "aborted" => phase[v] = "aborted"
    BY <1>2 DEF tick, Become, EngineTypes
  <2>2. \A e \in Held' : e.task \notin strayed => Good(e)'
    BY <1>1, <1>2 DEF tick, AttemptInv, Held, InTransit
  <2> QED
    BY <1>2, <2>1, <2>2 DEF tick, history, AttemptInv
<1>3. CASE claim_nothing(w)
  <2>1. \A v \in Workers : phase'[v] = "aborted" => phase[v] = "aborted"
    BY <1>3 DEF claim_nothing, Become, EngineTypes
  <2>2. \A e \in Held' : e.task \notin strayed => Good(e)'
    BY <1>1, <1>3 DEF claim_nothing, AttemptInv, Held, InTransit
  <2> QED
    BY <1>3, <2>1, <2>2 DEF claim_nothing, history, AttemptInv
<1>4. CASE dispatch_task(w)
  <2>1. /\ runs' = runs \cup {returned[w]}
        /\ returned' = [returned EXCEPT ![w] = NULL]
        /\ phase' = [phase EXCEPT ![w] = "polling"]
        /\ strayed' = strayed
        /\ UNCHANGED vars
    BY <1>4 DEF dispatch_task, Become, Received
  <2>2. returned[w] \in Attempt /\ returned[w] # NULL /\ returned[w].worker = w
    BY <1>4, EngineAssumption DEF dispatch_task, Delivered, EngineTypes, AttemptInv
  <2>3. Held' \subseteq Held
    BY <2>1, <2>2 DEF Held, InTransit, EngineTypes
  <2>4. \A e \in Held' : e.task \notin strayed' => Good(e)'
    BY <1>1, <2>1, <2>3 DEF AttemptInv
  <2>5. \A v \in Workers : \A e \in runs' :
           (phase'[v] = "aborted" /\ e.worker = v) => e.task \in strayed'
    BY <2>1, <2>2 DEF AttemptInv, EngineTypes
  <2>6. \A v \in Workers : returned'[v] # NULL => returned'[v].worker = v
    BY <2>1 DEF AttemptInv, EngineTypes
  <2>7. \A v \in Workers :
           (returned'[v] # NULL /\ returned'[v].task \notin strayed') => returned'[v] \notin runs'
    BY <2>1, <2>2 DEF AttemptInv, EngineTypes
  <2> QED
    BY <2>4, <2>5, <2>6, <2>7 DEF AttemptInv
<1>5. CASE claim_cancelled(w)
  <2>1. /\ runs' = runs
        /\ returned' = [returned EXCEPT ![w] = NULL]
        /\ phase' = [phase EXCEPT ![w] = "draining"]
        /\ strayed' = strayed
    BY <1>5 DEF claim_cancelled, Become, Received, history
  <2>2. returned[w] \in Attempt /\ returned[w] # NULL /\ returned[w].worker = w
    BY <1>5, EngineAssumption DEF claim_cancelled, Delivered, EngineTypes, AttemptInv
  <2>3. /\ \A v \in Workers : returned'[v] \in {returned[v], NULL}
        /\ \A v \in Workers : phase'[v] = "aborted" => phase[v] = "aborted"
    BY <2>1 DEF EngineTypes
  <2>4. ASSUME NEW e \in Held', e.task \notin strayed
        PROVE  Kept(e.task) /\ now' = now
    <3>1. Good(e) /\ e \in Held /\ e \in Attempt
      BY <2>1, <2>3, <2>4, HeldTypes DEF Held, InTransit, AttemptInv
    <3>2. CASE UNCHANGED vars
      BY <3>1, <3>2 DEF vars, Kept, Good, Present
    <3>3. CASE release_lease_for_task(returned[w].task)
      <4>1. e.task # returned[w].task
        <5>1. SUFFICES ASSUME e.task = returned[w].task
                       PROVE  FALSE
          OBVIOUS
        <5>2. Good(returned[w])
          BY <2>2, <2>4, <5>1 DEF AttemptInv, Held, InTransit
        <5>3. e = returned[w]
          BY <2>2, <3>1, <5>1, <5>2, GoodUnique
        <5>4. e \notin runs
          BY <2>2, <2>4, <5>3 DEF AttemptInv
        <5>5. PICK v \in Workers : e = returned'[v] /\ e # NULL
          BY <2>1, <2>4, <5>4 DEF Held, InTransit
        <5>6. v # w /\ e = returned[v]
          BY <2>1, <5>5 DEF EngineTypes
        <5> QED
          BY <2>2, <5>3, <5>5, <5>6 DEF AttemptInv
      <4> QED
        BY <3>1, <3>3, <4>1, OneRowKeeps DEF Good
    <3> QED
      BY <1>5, <3>2, <3>3 DEF claim_cancelled
  <2> QED
    BY <2>1, <2>3, <2>4, FewerAttempts
<1>6. CASE claim_backoff(w) \/ claim_dropped(w)
  <2>1. /\ runs' = runs
        /\ returned' = [returned EXCEPT ![w] = NULL]
        /\ phase' \in {[phase EXCEPT ![w] = "draining"], [phase EXCEPT ![w] = "polling"]}
        /\ strayed' = strayed
        /\ UNCHANGED vars
    BY <1>6 DEF claim_backoff, claim_dropped, Become, Received, history
  <2>2. /\ \A v \in Workers : returned'[v] \in {returned[v], NULL}
        /\ \A v \in Workers : phase'[v] = "aborted" => phase[v] = "aborted"
    BY <2>1 DEF EngineTypes
  <2>3. \A e \in Held' : e.task \notin strayed => Kept(e.task) /\ now' = now
    <3>1. Held' \subseteq Held
      BY <2>1, <2>2 DEF Held, InTransit
    <3> QED
      BY <2>1, <3>1 DEF vars, Kept, Good, Present, AttemptInv
  <2> QED
    BY <2>1, <2>2, <2>3, FewerAttempts
<1>7. CASE stop_polling(w)
  <2>1. \A v \in Workers : phase'[v] = "aborted" => phase[v] = "aborted"
    BY <1>7 DEF stop_polling, Become, EngineTypes
  <2>2. \A e \in Held' : e.task \notin strayed => Good(e)'
    BY <1>1, <1>7 DEF stop_polling, AttemptInv, Held, InTransit
  <2> QED
    BY <1>7, <2>1, <2>2 DEF stop_polling, history, AttemptInv
<1> QED
  BY <1>2, <1>3, <1>4, <1>5, <1>6, <1>7 DEF PollStep

(* A handler ends: its report can only hit the row of its own attempt. *)
LEMMA ReportKeepsInv ==
  ASSUME TypeOK, EngineTypes, AttemptInv, NEW e \in runs, report(e) \/ end_unawaited(e)
  PROVE  AttemptInv'
<1>1. /\ runs' = runs \ {e}
      /\ returned' = returned /\ phase' = phase /\ strayed' = strayed
  BY DEF report, end_unawaited, history
<1>2. Held' \subseteq Held
  BY <1>1 DEF Held, InTransit
<1>3. ASSUME NEW f \in Held', f.task \notin strayed
      PROVE  Kept(f.task) /\ now' = now
  <2>1. Good(f) /\ f \in Attempt /\ e \in Attempt
    BY <1>2, <1>3, HeldTypes DEF AttemptInv, EngineTypes
  <2>2. CASE UNCHANGED vars
    BY <2>1, <2>2 DEF vars, Kept, Good, Present
  <2>3. CASE complete(e.task) \/ fail(e.task) \/ suspend(e.task)
    <3>1. f.task # e.task
      <4>1. SUFFICES ASSUME f.task = e.task
                     PROVE  FALSE
        OBVIOUS
      <4>2. f = e
        BY <1>3, <2>1, <4>1, GoodUnique DEF AttemptInv, Held
      <4>3. PICK v \in Workers : f = returned[v] /\ f # NULL
        BY <1>1, <1>3, <4>2 DEF Held, InTransit
      <4> QED
        BY <1>3, <4>2, <4>3 DEF AttemptInv
    <3> QED
      BY <2>1, <2>3, <3>1, OneRowKeeps DEF Good
  <2> QED
    BY <2>2, <2>3 DEF report, end_unawaited, Report, handle_task_failure
<1> QED
  BY <1>1, <1>3, FewerAttempts

(* Shutdown: by the time the leases are released no attempt of the engine  *)
(* is good any more.                                                       *)
LEMMA DrainKeepsInv ==
  ASSUME TypeOK, EngineTypes, AttemptInv, NEW w \in Workers, DrainStep(w)
  PROVE  AttemptInv'
<1>1. CASE drained(w)
  <2>1. /\ runs' = runs /\ returned' = returned /\ strayed' = strayed
        /\ UNCHANGED vars
        /\ \A v \in Workers : phase'[v] = "aborted" => phase[v] = "aborted"
    BY <1>1 DEF drained, Become, history, EngineTypes
  <2>2. \A e \in Held' : e.task \notin strayed => Kept(e.task) /\ now' = now
    BY <2>1 DEF vars, Kept, Good, Present, AttemptInv, Held, InTransit
  <2> QED
    BY <2>1, <2>2, FewerAttempts
<1>2. CASE drain_timeout(w)
  <2>1. /\ runs' = (runs \ Awaited(w)) \cup {[e EXCEPT !.awaited = FALSE] : e \in Awaited(w)}
        /\ strayed' = strayed \cup {e.task : e \in Awaited(w)}
        /\ returned' = returned
        /\ phase' = [phase EXCEPT ![w] = "aborted"]
        /\ UNCHANGED vars
    BY <1>2 DEF drain_timeout, Become
  <2>2. \A e \in runs' : e \in runs \/ e.task \in strayed'
    BY <2>1 DEF Awaited, EngineTypes, Attempt
  <2>3. ASSUME NEW e \in Held', e.task \notin strayed'
        PROVE  Good(e)'
    <3>1. e \in Held /\ e.task \notin strayed
      BY <2>1, <2>2, <2>3 DEF Held, InTransit
    <3> QED
      BY <2>1, <3>1 DEF AttemptInv, Good, Owns, vars, Present
  <2>4. ASSUME NEW v \in Workers, NEW e \in runs', phase'[v] = "aborted", e.worker = v
        PROVE  e.task \in strayed'
    <3>1. SUFFICES ASSUME e \in runs
                   PROVE  e.task \in strayed'
      BY <2>2
    <3>2. CASE v = w /\ e \in Awaited(w)
      BY <2>1, <3>2
    <3>3. CASE v = w /\ e \notin Awaited(w)
      BY <2>1, <2>4, <3>1, <3>3 DEF Awaited, AttemptInv, Good, Held
    <3>4. CASE v # w
      BY <2>1, <2>4, <3>1, <3>4 DEF AttemptInv, EngineTypes
    <3> QED
      BY <3>2, <3>3, <3>4
  <2>5. \A v \in Workers : returned'[v] # NULL => returned'[v].worker = v
    BY <2>1 DEF AttemptInv
  <2>6. \A v \in Workers :
           (returned'[v] # NULL /\ returned'[v].task \notin strayed') => returned'[v] \notin runs'
    BY <2>1, <2>2 DEF AttemptInv
  <2> QED
    BY <2>3, <2>4, <2>5, <2>6 DEF AttemptInv
<1>3. CASE release_leases(w)
  <2>1. /\ runs' = runs /\ returned' = returned /\ strayed' = strayed
        /\ phase[w] = "aborted"
        /\ \A v \in Workers : phase'[v] = "aborted" => phase[v] = "aborted"
    BY <1>3 DEF release_leases, Become, history, EngineTypes
  <2>2. ASSUME NEW e \in Held', e.task \notin strayed
        PROVE  Kept(e.task) /\ now' = now
    <3>1. e \in Held /\ Good(e)
      BY <2>1, <2>2 DEF Held, InTransit, AttemptInv
    <3>2. e.task \notin HeldBy(w)
      <4>1. SUFFICES ASSUME e.worker = w
                     PROVE  FALSE
        BY <3>1 DEF HeldBy, Good, Owns
      <4>2. e \notin runs
        BY <2>1, <2>2, <4>1 DEF AttemptInv
      <4>3. PICK v \in Workers : e = returned[v] /\ e # NULL
        BY <3>1, <4>2 DEF Held, InTransit
      <4>4. v = w
        BY <4>1, <4>3 DEF AttemptInv
      <4> QED
        BY <2>1, <4>3, <4>4 DEF EngineTypes
    <3>3. CASE UNCHANGED vars
      BY <3>1, <3>3 DEF vars, Kept, Good, Present
    <3>4. CASE release_leases_for_worker(w)
      BY <3>1, <3>2, <3>4, ReleaseKeeps DEF Good
    <3> QED
      BY <1>3, <3>3, <3>4 DEF release_leases
  <2> QED
    BY <2>1, <2>2, FewerAttempts
<1> QED
  BY <1>1, <1>2, <1>3 DEF DrainStep

(* Sweepers, clients and checkpoints spare the row of a good attempt. *)
LEMMA OthersKeepInv ==
  ASSUME TypeOK, EngineTypes, AttemptInv, UNCHANGED <<engine, history>>,
         \/ \E w \in Workers : recover(w) \/ cleanup(w) \/ expire(w)
         \/ \E e \in runs : checkpoint(e)
         \/ \E i \in Tasks : client(i)
  PROVE  AttemptInv'
<1>1. runs' = runs /\ returned' = returned /\ phase' = phase /\ strayed' = strayed
  BY DEF engine, history
<1>2. ASSUME NEW e \in Held', e.task \notin strayed
      PROVE  Kept(e.task) /\ now' = now
  <2>1. Good(e) /\ e \in Attempt
    BY <1>1, <1>2, HeldTypes DEF Held, InTransit, AttemptInv
  <2>2. e.task \in Present /\ tasks[e.task].status = "running"
    BY <2>1 DEF Good, Owns
  <2>3. ~Zombie(tasks[e.task])
    BY <2>1 DEF Good, Zombie, Attempt, TypeOK
  <2> QED
    BY <2>2, <2>3, SweepKeeps, CheckpointKeeps, ClientKeeps
       DEF recover, cleanup, expire, checkpoint, client, enqueue_raw, delete_task, signal_task
<1> QED
  BY <1>1, <1>2, FewerAttempts

(* Every step of the engines preserves the invariant. *)
LEMMA AttemptInvStep ==
  ASSUME TypeOK, EngineTypes, AttemptInv, [EngineNext]_allVars
  PROVE  AttemptInv'
<1>1. CASE \E w \in Workers : \E i \in Tasks : claim(w, i)
  BY <1>1, ClaimKeepsInv
<1>2. CASE \E w \in Workers : PollStep(w)
  BY <1>2, PollKeepsInv
<1>3. CASE \E w \in Workers : DrainStep(w)
  BY <1>3, DrainKeepsInv
<1>4. ASSUME NEW w \in Workers, cancel_token(w)
      PROVE  AttemptInv'
  <2>1. /\ runs' = runs /\ returned' = returned /\ strayed' = strayed /\ phase' = phase
        /\ UNCHANGED vars
    BY <1>4 DEF cancel_token, history
  <2>2. \A e \in Held' : e.task \notin strayed => Kept(e.task) /\ now' = now
    BY <2>1 DEF vars, Kept, Good, Present, AttemptInv, Held, InTransit
  <2> QED
    BY <2>1, <2>2, FewerAttempts
<1>5. ASSUME NEW w \in Workers, crash(w)
      PROVE  AttemptInv'
  <2>1. /\ runs' \subseteq runs /\ strayed' = strayed
        /\ \A v \in Workers : returned'[v] \in {returned[v], NULL}
        /\ \A v \in Workers : phase'[v] = "aborted" => phase[v] = "aborted"
        /\ UNCHANGED vars
    BY <1>5 DEF crash, Become, Received, history, EngineTypes
  <2>2. Held' \subseteq Held
    BY <2>1 DEF Held, InTransit
  <2>3. \A e \in Held' : e.task \notin strayed => Kept(e.task) /\ now' = now
    BY <2>1, <2>2 DEF vars, Kept, Good, Present, AttemptInv
  <2> QED
    BY <2>1, <2>3, FewerAttempts
<1>6. CASE \E e \in runs : report(e) \/ end_unawaited(e)
  BY <1>6, ReportKeepsInv
<1>7. CASE \/ \E w \in Workers : recover(w) \/ cleanup(w) \/ expire(w)
           \/ \E e \in runs : checkpoint(e)
           \/ \E i \in Tasks : client(i)
  <2>1. UNCHANGED <<engine, history>>
    BY <1>7 DEF recover, cleanup, expire, checkpoint, client, enqueue_raw, delete_task, signal_task
  <2> QED
    BY <1>7, <2>1, OthersKeepInv
<1>8. CASE pass_time
  <2>1. /\ runs' = runs /\ returned' = returned /\ phase' = phase
        /\ tasks' = tasks /\ now' = now + 1
        /\ strayed' = strayed \cup {e.task : e \in {f \in Held : f.until < now + 1}}
    BY <1>8 DEF pass_time, Tick, engine, Held
  <2>2. Held' = Held
    BY <2>1 DEF Held, InTransit
  <2>3. ASSUME NEW e \in Held', e.task \notin strayed'
        PROVE  Good(e)'
    <3>1. Good(e) /\ ~(e.until < now + 1)
      BY <2>1, <2>2, <2>3 DEF AttemptInv
    <3>2. e.until \in Nat /\ now \in Nat
      BY <2>2, <2>3, HeldTypes DEF Attempt, TypeOK
    <3> QED
      BY <2>1, <3>1, <3>2 DEF Good, Owns, Present
  <2> QED
    BY <2>1, <2>3 DEF AttemptInv
<1>9. CASE UNCHANGED allVars
  <2>1. /\ runs' = runs /\ returned' = returned /\ phase' = phase /\ strayed' = strayed
        /\ tasks' = tasks /\ now' = now
    BY <1>9 DEF allVars, vars, engine, history
  <2>2. \A e \in Held' : e.task \notin strayed => Kept(e.task) /\ now' = now
    BY <2>1 DEF Kept, Good, Present, AttemptInv, Held, InTransit
  <2> QED
    BY <2>1, <2>2, FewerAttempts
<1> QED
  BY <1>1, <1>2, <1>3, <1>4, <1>5, <1>6, <1>7, <1>8, <1>9 DEF EngineNext

(* An attempt that kept its lease and its drain holds the row of its task, *)
(* so no two such attempts of a task run at once and each reports for      *)
(* itself: for any engines, concurrency and handlers, with crashes,        *)
(* shutdowns and storage errors anywhere.                                  *)
THEOREM AttemptsExclusive == EngineSpec => []OnTimeAttemptOwnsRow
<1>1. EngineInit => AttemptInv
  BY DEF EngineInit, AttemptInv, Held, InTransit
<1>2. TypeOK /\ EngineTypes /\ AttemptInv /\ [EngineNext]_allVars => AttemptInv'
  BY AttemptInvStep
<1>3. AttemptInv => OnTimeAttemptOwnsRow
  BY DEF AttemptInv, OnTimeAttemptOwnsRow, Held, Good
<1> QED
  BY <1>1, <1>2, <1>3, EngineTypesCorrect, PTL DEF EngineSpec

(* The engines never leave two live tasks of a queue with one key, never   *)
(* touch a finished task and never break the audit trail.                  *)
THEOREM EngineKeepsStore ==
  EngineSpec => []OneLiveTaskPerKey /\ FinishedRowsFrozen /\ []AuditTrailComplete
  BY EngineImplementsStore, KeysUnique, FinishedFrozen, AuditTrailCorrect, PTL
     DEF ImplementsStore
=============================================================================
