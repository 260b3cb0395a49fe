----------------------------- MODULE Submission -----------------------------
(***************************************************************************)
(* Submitting tasks, statement by statement.  TaskStore takes a submission *)
(* as one step; here PostgresTaskRepository::save, save_idempotent,        *)
(* save_in_tx and save_idempotent_in_tx are the sequences of statements    *)
(* they really are, each with the snapshot READ COMMITTED gives it, in a   *)
(* transaction of the engine's or of the caller's.                         *)
(*                                                                         *)
(* Workers, sweepers and other clients change the rows meanwhile.  What    *)
(* they may do is what TaskLifecycle allows; that TaskStore does no more   *)
(* is shown there.                                                         *)
(*                                                                         *)
(* A client stands for one database connection: the pool's, while an       *)
(* engine's transaction runs on it, or the caller's own.                   *)
(***************************************************************************)
EXTENDS Admission, FiniteSets

CONSTANTS
    Tasks,      \* the ids TaskId::new may draw
    Clients,    \* connections
    Queues,     \* queue names
    Finals      \* terminal statuses; a submission does not tell them apart,
                \* so that one of them will do

VARIABLES
    rows,    \* the committed rows of tasks, a function from their ids
    conn,    \* client -> the transaction it has open and the call it makes
    reply    \* the answer a call got in the last step, or NULL

subVars == <<rows, conn, reply>>

Terminal == {"completed", "failed", "cancelled"}

(* The life cycle, with the status each id has in the committed table. *)
Life == INSTANCE TaskLifecycle WITH
            status <- [i \in Tasks |-> IF i \in DOMAIN rows THEN rows[i].status ELSE "none"]

Statuses == {e[2] : e \in Life!Edges}

StoredKeys == Keys \cup {NULL}

(* The columns of a row that count here.  Two are history variables, which  *)
(* say of the request the row comes from that its task is workable, and     *)
(* that its region is NULL or one validate_region_authorization accepts.    *)
SubRow ==
    [status : Statuses, queue : Queues, key : StoredKeys,
     workable : BOOLEAN, authorized : BOOLEAN]

(* What a call answers: created or duplicate, with the task, or an error.   *)
(* A conflict is TaskError::NotInExpectedState, "storage" TaskError::Storage;  *)
(* holder is the row the call's INSERT ran into.                             *)
Reply ==
    [is : {"created", "duplicate"}, task : Tasks]
      \cup [is : {"conflict"}, holder : Tasks]
      \cup [is : {"storage", "invalid"}]

(* No answer is not an answer. *)
ASSUME NoReplyAssumption == NULL \notin Reply

(* A call: its arguments, the statement it is at, the row its INSERT ran     *)
(* into.                                                                     *)
Call ==
    [queue : Queues, key : StoredKeys, workable : BOOLEAN, authorized : BOOLEAN,
     at : {"insert", "select", "commit"}, holder : Tasks \cup {NULL}]

(* No transaction, no call.  mine are the rows inserted and not committed. *)
Idle == [tx |-> "none", aborted |-> FALSE, mine |-> << >>, call |-> NULL]

-----------------------------------------------------------------------------
(* Reading *)

Present == DOMAIN rows

Mine(c) == DOMAIN conn[c].mine

Uncommitted == UNION {Mine(c) : c \in Clients}

Live(r) == r.status \notin Terminal

At(c, step) == conn[c].call # NULL /\ conn[c].call.at = step

(* Faulty: the index predicate was not extended to the suspended status. *)
HoldersUnsuspended(T, q, k) ==
    {i \in DOMAIN T : T[i].status \in {"pending", "running"} /\ T[i].queue = q /\ T[i].key = k}

(* Rows of the table T in the partial unique index idx_tasks_idempotency   *)
(* under this queue and key.                                               *)
Holders(T, q, k) ==
    {i \in DOMAIN T : Live(T[i]) /\ T[i].queue = q /\ T[i].key = k}

(* Another transaction has inserted the key and not ended: an INSERT of the *)
(* same key waits for it.                                                   *)
KeyInDoubt(c, q, k) ==
    \E d \in Clients \ {c} : Holders(conn[d].mine, q, k) # {}

(* The calls that get past the checks of some entry point, in the caller's  *)
(* transaction or in the engine's.  The command line also lets in keys that *)
(* are too long; to the index they are keys like any other, and Keys stands *)
(* for them.                                                                *)
Admitted(transactional) ==
    {[key |-> p[2].key, workable |-> Workable(p[2]),
      authorized |-> validate_region_authorization(p[2])] :
        p \in {p \in EntryPoints \X Request :
                  /\ (p[1] \in Transactional) = transactional
                  /\ p[2].key # BadKey /\ Admits(p[1], p[2])}}
AdmittedInTx == Admitted(TRUE)
AdmittedOnPool == Admitted(FALSE)

(* Some request does not get past them. *)
Refuses(transactional) ==
    \E e \in EntryPoints, r \in Request :
        /\ (e \in Transactional) = transactional
        /\ Expressible(e, r) /\ ~Admits(e, r)
RefusesInTx == Refuses(TRUE)
RefusesOnPool == Refuses(FALSE)

-----------------------------------------------------------------------------
(* Writing *)

(* COMMIT: the transaction's rows become visible. *)
Committed(c) ==
    rows' = [i \in Present \cup Mine(c) |->
                IF i \in Mine(c) THEN conn[c].mine[i] ELSE rows[i]]

-----------------------------------------------------------------------------
(* Steps of a submission *)

SubInit ==
    /\ rows = << >>
    /\ conn = [c \in Clients |-> Idle]
    /\ reply = NULL

NewCall(q, s) ==
    [queue |-> q, key |-> s.key, workable |-> s.workable, authorized |-> s.authorized,
     at |-> "insert", holder |-> NULL]

(* A request the checks of its entry point do not let through: 422, or exit *)
(* code 1, and nothing else.                                                *)
reject(c) ==
    /\ conn[c].call = NULL
    /\ IF conn[c].tx = "caller" THEN RefusesInTx ELSE RefusesOnPool
    /\ reply' = [is |-> "invalid"]
    /\ UNCHANGED <<rows, conn>>

(* enqueue, POST /tasks, submit ...: a transaction of the engine's begins. *)
begin_on_pool(c) ==
    /\ conn[c] = Idle
    /\ \E q \in Queues, s \in AdmittedOnPool :
         conn' = [conn EXCEPT ![c].tx = "engine", ![c].call = NewCall(q, s)]
    /\ reply' = NULL
    /\ UNCHANGED rows

(* The caller begins a transaction of its own. *)
begin_caller(c) ==
    /\ conn[c] = Idle
    /\ conn' = [conn EXCEPT ![c].tx = "caller"]
    /\ reply' = NULL
    /\ UNCHANGED rows

(* enqueue_in_tx or enqueue_in_tx_idempotent on the caller's transaction. *)
call_in_tx(c) ==
    /\ conn[c].tx = "caller" /\ conn[c].call = NULL
    /\ \E q \in Queues, s \in AdmittedInTx :
         conn' = [conn EXCEPT ![c].call = NewCall(q, s)]
    /\ reply' = NULL
    /\ UNCHANGED rows

(* The call's INSERT can be decided: it waits for no other transaction. *)
Decidable(c) ==
    LET call == conn[c].call
    IN  /\ At(c, "insert") /\ ~conn[c].aborted
        /\ call.key # NULL => ~KeyInDoubt(c, call.queue, call.key)

(* The rows in the way of the call's INSERT, and those its SELECT finds. *)
InTheWay(c) ==
    LET call == conn[c].call
    IN  IF call.key = NULL THEN {}
        ELSE Holders(rows, call.queue, call.key)
               \cup Holders(conn[c].mine, call.queue, call.key)

(* Faulty: the INSERT runs on the pool, so the row is there at once. *)
insert_row_on_pool(c, i) ==
    LET call == conn[c].call
        row == [status |-> "pending", queue |-> call.queue, key |-> call.key,
                workable |-> call.workable, authorized |-> call.authorized]
        in_tx == conn[c].tx = "caller"
    IN  /\ Decidable(c) /\ InTheWay(c) = {}
        /\ i \notin Present \cup Uncommitted
        /\ rows' = [j \in Present \cup {i} |-> IF j = i THEN row ELSE rows[j]]
        /\ conn' = [conn EXCEPT
             ![c].call = IF in_tx THEN NULL ELSE [call EXCEPT !.at = "commit"]]
        /\ reply' = IF in_tx THEN [is |-> "created", task |-> i] ELSE NULL

(* The row INSERT writes, with the audit row in the same transaction.  The  *)
(* engine's transaction goes on to its COMMIT, the caller's call returns.   *)
insert_row(c, i) ==
    LET call == conn[c].call
        row == [status |-> "pending", queue |-> call.queue, key |-> call.key,
                workable |-> call.workable, authorized |-> call.authorized]
        in_tx == conn[c].tx = "caller"
    IN  /\ Decidable(c) /\ InTheWay(c) = {}
        /\ i \notin Present \cup Uncommitted
        /\ conn' = [conn EXCEPT
             ![c].mine = [j \in Mine(c) \cup {i} |-> IF j = i THEN row ELSE @[j]],
             ![c].call = IF in_tx THEN NULL ELSE [call EXCEPT !.at = "commit"]]
        /\ reply' = IF in_tx THEN [is |-> "created", task |-> i] ELSE NULL
        /\ UNCHANGED rows

(* ON CONFLICT DO NOTHING: a live row, committed or of this transaction,    *)
(* has the key.                                                             *)
insert_conflict(c) ==
    /\ Decidable(c)
    /\ \E h \in InTheWay(c) :
         conn' = [conn EXCEPT ![c].call.at = "select", ![c].call.holder = h]
    /\ reply' = NULL
    /\ UNCHANGED rows

(* Faulty: the SELECT does not leave out finished tasks. *)
select_any_status(c) ==
    LET call == conn[c].call
        found == {i \in Present : rows[i].queue = call.queue /\ rows[i].key = call.key}
    IN  /\ At(c, "select")
        /\ \E h \in found : reply' = [is |-> "duplicate", task |-> h]
        /\ conn' = [conn EXCEPT ![c] = IF conn[c].tx = "caller" THEN [@ EXCEPT !.call = NULL] ELSE Idle]
        /\ UNCHANGED rows

(* The SELECT after a conflict has a snapshot of its own: it may find the   *)
(* holder, a newer one, or none.  The engine then ends its transaction; in  *)
(* the caller's, finding none is a storage error.                           *)
select_existing(c) ==
    LET in_tx == conn[c].tx = "caller"
    IN  /\ At(c, "select")
        /\ \/ \E h \in InTheWay(c) :
                reply' = [is |-> "duplicate", task |-> h]
           \/ /\ InTheWay(c) = {}
              /\ reply' = IF in_tx THEN [is |-> "storage"]
                          ELSE [is |-> "conflict", holder |-> conn[c].call.holder]
        /\ conn' = [conn EXCEPT ![c] = IF in_tx THEN [@ EXCEPT !.call = NULL] ELSE Idle]
        /\ UNCHANGED rows

(* Faulty: the connection goes back to the pool with its rows. *)
commit_on_pool_again(c) ==
    /\ At(c, "commit")
    /\ Committed(c)
    /\ conn' = [conn EXCEPT ![c].tx = "none", ![c].call = NULL]
    /\ \E i \in Mine(c) : reply' = [is |-> "created", task |-> i]

(* tx.commit() of the engine's transaction; its answer may be lost. *)
commit_on_pool(c) ==
    /\ At(c, "commit")
    /\ Committed(c)
    /\ conn' = [conn EXCEPT ![c] = Idle]
    /\ \/ \E i \in Mine(c) : reply' = [is |-> "created", task |-> i]
       \/ reply' = [is |-> "storage"]

(* A statement fails, or the connection does; any error aborts the          *)
(* transaction.  The caller still has to end its own.                       *)
statement_fails(c) ==
    /\ conn[c].call # NULL
    /\ reply' = [is |-> "storage"]
    /\ \/ /\ conn[c].tx = "engine"
          /\ conn' = [conn EXCEPT ![c] = Idle]
       \/ /\ conn[c].tx = "caller"
          /\ conn' = [conn EXCEPT ![c] = [Idle EXCEPT !.tx = "caller", !.aborted = TRUE]]
    /\ UNCHANGED rows

(* The caller commits; of an aborted transaction COMMIT keeps nothing. *)
caller_commits(c) ==
    /\ conn[c].tx = "caller" /\ conn[c].call = NULL
    /\ Committed(c)
    /\ conn' = [conn EXCEPT ![c] = Idle]
    /\ reply' = NULL

(* Faulty: the connection is dropped and its transaction stays open. *)
caller_forgets(c) ==
    /\ conn[c].tx = "caller" /\ conn[c].call = NULL
    /\ conn' = [conn EXCEPT ![c].tx = "none"]
    /\ reply' = NULL
    /\ UNCHANGED rows

(* The caller rolls back, or goes away. *)
caller_rolls_back(c) ==
    /\ conn[c].tx = "caller" /\ conn[c].call = NULL
    /\ conn' = [conn EXCEPT ![c] = Idle]
    /\ reply' = NULL
    /\ UNCHANGED rows

-----------------------------------------------------------------------------
(* What the rest of the system does to committed rows *)

(* Any other operation of TaskRepository on a task. *)
progress(i) ==
    /\ \E e \in Life!Edges :
         /\ rows[i].status = e[1]
         /\ e[2] \in Terminal => e[2] \in Finals
         /\ rows' = [rows EXCEPT ![i].status = e[2]]
    /\ reply' = NULL
    /\ UNCHANGED conn

(* Faulty: keys of unfinished tasks expire too. *)
cleanup_any_key ==
    /\ \E S \in (SUBSET {i \in Present : rows[i].key # NULL}) \ {{}} :
         rows' = [i \in Present |-> IF i \in S THEN [rows[i] EXCEPT !.key = NULL] ELSE rows[i]]
    /\ reply' = NULL
    /\ UNCHANGED conn

(* The sweeper's cleanup_expired_idempotency_keys; S are the rows whose      *)
(* retention is over.                                                       *)
cleanup_expired_idempotency_keys ==
    /\ \E S \in (SUBSET {i \in Present : ~Live(rows[i]) /\ rows[i].key # NULL}) \ {{}} :
         rows' = [i \in Present |-> IF i \in S THEN [rows[i] EXCEPT !.key = NULL] ELSE rows[i]]
    /\ reply' = NULL
    /\ UNCHANGED conn

SubNext ==
    \/ \E c \in Clients :
         \/ reject(c)
         \/ begin_on_pool(c)
         \/ begin_caller(c)
         \/ call_in_tx(c)
         \/ \E i \in Tasks : insert_row(c, i)
         \/ insert_conflict(c)
         \/ select_existing(c)
         \/ commit_on_pool(c)
         \/ statement_fails(c)
         \/ caller_commits(c)
         \/ caller_rolls_back(c)
    \/ \E i \in Present : progress(i)
    \/ cleanup_expired_idempotency_keys

SubSpec == SubInit /\ [][SubNext]_subVars

-----------------------------------------------------------------------------
(* Fairness *)

(* The next statement of a call that is not waiting. *)
CallStep(c) ==
    \/ \E i \in Tasks : insert_row(c, i)
    \/ insert_conflict(c)
    \/ select_existing(c)
    \/ commit_on_pool(c)

(* The INSERT of c waits for the transaction of d. *)
WaitsFor(c, d) ==
    /\ At(c, "insert") /\ conn[c].call.key # NULL
    /\ d # c /\ Holders(conn[d].mine, conn[c].call.queue, conn[c].call.key) # {}

(* c waits in a cycle. *)
Deadlocked(c) ==
    \E S \in SUBSET Clients :
        c \in S /\ \A d \in S : \E e \in S : WaitsFor(d, e)

(* The bound on the ids leaves none for the INSERT. *)
OutOfIds(c) ==
    Decidable(c) /\ InTheWay(c) = {} /\ Tasks \subseteq Present \cup Uncommitted

(* Postgres breaks a cycle of waiting transactions by failing one of them;  *)
(* a statement on an aborted transaction fails too.                         *)
MustFail(c) ==
    /\ \/ Deadlocked(c)
       \/ conn[c].aborted
       \/ OutOfIds(c)
    /\ statement_fails(c)

(* A waiting INSERT gets its turn when the transaction it waits for ends,   *)
(* and callers end their transactions.                                      *)
SubFairness ==
    \A c \in Clients :
        /\ SF_subVars(CallStep(c))
        /\ WF_subVars(MustFail(c))
        /\ SF_subVars(caller_commits(c) \/ caller_rolls_back(c))

FairSubSpec == SubSpec /\ SubFairness

-----------------------------------------------------------------------------
(* Properties *)

(* Types; a call is made only inside a transaction, and no row is both      *)
(* committed and not, or in two transactions.                               *)
SubTypeOK ==
    /\ Present \subseteq Tasks /\ \A i \in Present : rows[i] \in SubRow
    /\ reply \in Reply \cup {NULL}
    /\ \A c \in Clients :
         /\ conn[c].tx \in {"none", "engine", "caller"}
         /\ conn[c].aborted \in BOOLEAN
         /\ \A i \in Mine(c) : i \in Tasks /\ conn[c].mine[i] \in SubRow
         /\ conn[c].call \in Call \cup {NULL}
         /\ conn[c].tx = "none" => conn[c] = Idle
         /\ \A d \in Clients \ {c} : Mine(c) \cap (Present \cup Mine(d)) = {}

(* However a task gets in, by any of the eleven entry points with their     *)
(* different selections of checks, made once or twice: what is committed is *)
(* a task TryFrom<TaskRow> can give back and a worker can claim.            *)
OnlyWorkableTasks == \A i \in Present : rows[i].workable

(* A task pinned to a region has a well-formed region of the producer's     *)
(* allow-list: "Non-empty list enforces an allowlist for region-pinned      *)
(* enqueue operations" (docs/guides/configuration.md:73).  The two          *)
(* transactional calls and enqueue_idempotent_with_region do not ask.       *)
PinnedRegionsAllowed == \A i \in Present : rows[i].authorized

(* Whatever transactions are open, an idempotency key of a queue belongs to *)
(* at most one row that is unfinished: committed, or inserted in any open   *)
(* transaction.  (idx_tasks_idempotency; ON CONFLICT of save_idempotent.)   *)
OneHolderPerKey ==
    \A q \in Queues, k \in Keys :
        Cardinality(Holders(rows, q, k)
                      \cup UNION {Holders(conn[c].mine, q, k) : c \in Clients}) <= 1

(* save_idempotent answers NotInExpectedState only when the task its INSERT *)
(* ran into has finished since: never because of a key that is still taken. *)
ConflictMeansRace ==
    reply # NULL /\ reply.is = "conflict" =>
        reply.holder \in Present /\ ~Live(rows[reply.holder])

(* Tasks become visible only when a transaction commits, and then all that  *)
(* it inserted: nobody sees a row of a transaction that may still be rolled *)
(* back (save_in_tx writes through the caller's transaction).               *)
TasksAppearAtomically ==
    [][LET new == DOMAIN rows' \ Present
       IN  new # {} => \E c \in Clients : new = Mine(c) /\ conn'[c] = Idle]_subVars

(* The statement sequences implement the atomic submission of the contract; *)
(* what a caller is told inside its own transaction is no answer yet.       *)
Contract == INSTANCE SubmissionContract WITH
    answer <- IF reply # NULL /\ reply.is \in {"created", "duplicate"}
                 /\ reply.task \notin Present THEN NULL ELSE reply
ImplementsContract == Contract!Spec

(* Every call is answered, as long as callers end their transactions: no    *)
(* INSERT waits for a key for ever, not even when transactions wait for     *)
(* each other.                                                              *)
CallsAreAnswered ==
    \A c \in Clients : (conn[c].call # NULL) ~> (conn[c].call = NULL)
=============================================================================
