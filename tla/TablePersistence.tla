-------------------------- MODULE TablePersistence --------------------------
(***************************************************************************)
(* Building an engine: IronDeferBuilder::build validates the               *)
(* configuration, runs the migrations and brings the tasks table to the    *)
(* persistence the configuration asks for (reconcile_table_persistence,    *)
(* set_table_persistence), one autocommitted statement after the other.    *)
(* Several engines build against the same database, every statement may    *)
(* fail and what was done before it stays; Postgres may crash, which       *)
(* empties an UNLOGGED table.                                              *)
(***************************************************************************)
EXTENDS Naturals

CONSTANTS
    Engines,       \* engines that share the database
    Tasks,         \* ids of tasks
    Configs,       \* configurations the deployment uses
    MaxRepairs     \* how often an operator steps in

VARIABLES
    table,      \* the tasks table: whether it exists, is UNLOGGED, and is
                \* referenced by the foreign key of task_audit_log
    present,    \* the tasks in it
    audited,    \* the tasks with rows in task_audit_log
    config,     \* engine -> its configuration
    build,      \* engine -> the statement its build is at, and fk_name
    repairs     \* how often an operator has restored the foreign key

tableVars == <<table, present, audited, config, build, repairs>>

Config ==
    [unlogged_tables : BOOLEAN, audit_log : BOOLEAN, skip_migrations : BOOLEAN,
     worker : {"valid", "invalid"}]

ASSUME ConfigAssumption == Configs \subseteq Config /\ MaxRepairs \in Nat

(* The places of a build, in order; "down" is before it, "up" behind it. *)
Switching == {"look_up_fk", "drop_fk", "alter", "delete", "add_fk"}
Statements == {"migrate", "reconcile"} \cup Switching

NoBuild == [at |-> "down", fk_name |-> FALSE]

-----------------------------------------------------------------------------
(* Reading *)

WorkerConfig_validate(c) == c.worker = "valid"

(* Faulty: the two settings are taken together. *)
DatabaseConfig_validate_any(c) == c.unlogged_tables \in BOOLEAN

DatabaseConfig_validate(c) == ~(c.unlogged_tables /\ c.audit_log)

(* Rows of task_audit_log whose task is gone. *)
Orphans == audited \ present

(* The engine is where it can submit and run tasks. *)
Up(e) == build[e].at = "up" /\ table.exists

-----------------------------------------------------------------------------
(* The statements of a build *)

GoTo(e, s) == build' = [build EXCEPT ![e].at = s]

(* A database as earlier deployments may have left it. *)
TableInit ==
    /\ table \in [exists : BOOLEAN, unlogged : BOOLEAN, fk : BOOLEAN]
    /\ table.fk => table.exists /\ ~table.unlogged
    /\ table.unlogged => table.exists
    /\ present = {} /\ audited = {}
    /\ config \in [Engines -> Configs]
    /\ build = [e \in Engines |-> NoBuild]
    /\ repairs = 0

(* build: an invalid configuration is refused. *)
begin_build(e) ==
    /\ build[e].at = "down"
    /\ WorkerConfig_validate(config[e]) /\ DatabaseConfig_validate(config[e])
    /\ GoTo(e, IF config[e].skip_migrations THEN "reconcile" ELSE "migrate")
    /\ UNCHANGED <<table, present, audited, config, repairs>>

(* Faulty: the migrations start over and create the table anew. *)
migrate_again(e) ==
    /\ build[e].at = "migrate"
    /\ table' = [exists |-> TRUE, unlogged |-> FALSE, fk |-> TRUE]
    /\ present' = {}
    /\ GoTo(e, "reconcile")
    /\ UNCHANGED <<audited, config, repairs>>

(* MIGRATOR.run, which holds an advisory lock: the tables are created       *)
(* LOGGED, with the foreign key.                                            *)
migrate(e) ==
    /\ build[e].at = "migrate"
    /\ table' = IF table.exists THEN table
                ELSE [exists |-> TRUE, unlogged |-> FALSE, fk |-> TRUE]
    /\ GoTo(e, "reconcile")
    /\ UNCHANGED <<present, audited, config, repairs>>

(* Faulty: only the way to UNLOGGED is taken. *)
reconcile_one_way(e) ==
    /\ build[e].at = "reconcile"
    /\ GoTo(e, IF table.exists /\ config[e].unlogged_tables /\ ~table.unlogged
               THEN "look_up_fk" ELSE "up")
    /\ UNCHANGED <<table, present, audited, config, repairs>>

(* reconcile_table_persistence: nothing to do without a table, or when it   *)
(* has the persistence already.                                             *)
reconcile_table_persistence(e) ==
    /\ build[e].at = "reconcile"
    /\ GoTo(e, IF table.exists /\ config[e].unlogged_tables # table.unlogged
               THEN "look_up_fk" ELSE "up")
    /\ UNCHANGED <<table, present, audited, config, repairs>>

(* set_table_persistence: fk_name as pg_constraint has it now. *)
look_up_fk(e) ==
    /\ build[e].at = "look_up_fk"
    /\ build' = [build EXCEPT ![e] = [at |-> IF table.fk THEN "drop_fk" ELSE "alter",
                                      fk_name |-> table.fk]]
    /\ UNCHANGED <<table, present, audited, config, repairs>>

(* DROP CONSTRAINT IF EXISTS *)
drop_fk(e) ==
    /\ build[e].at = "drop_fk"
    /\ table' = [table EXCEPT !.fk = FALSE]
    /\ GoTo(e, "alter")
    /\ UNCHANGED <<present, audited, config, repairs>>

(* ALTER TABLE tasks SET ...; Postgres refuses UNLOGGED for a table a       *)
(* LOGGED one refers to.                                                    *)
alter_table(e) ==
    LET unlogged == config[e].unlogged_tables
    IN  /\ build[e].at = "alter"
        /\ unlogged => ~table.fk
        /\ table' = [table EXCEPT !.unlogged = unlogged]
        /\ GoTo(e, IF ~unlogged /\ build[e].fk_name THEN "delete" ELSE "up")
        /\ UNCHANGED <<present, audited, config, repairs>>

(* DELETE of the orphans; the trigger audit_log_immutable raises an error   *)
(* for every row it would delete.                                           *)
delete_orphans(e) ==
    /\ build[e].at = "delete"
    /\ Orphans = {}
    /\ GoTo(e, "add_fk")
    /\ UNCHANGED <<table, present, audited, config, repairs>>

(* ADD CONSTRAINT: Postgres refuses a second one of the name, one that does *)
(* not hold, and one on an UNLOGGED table.                                  *)
add_fk(e) ==
    /\ build[e].at = "add_fk"
    /\ ~table.fk /\ ~table.unlogged /\ Orphans = {}
    /\ table' = [table EXCEPT !.fk = TRUE]
    /\ GoTo(e, "up")
    /\ UNCHANGED <<present, audited, config, repairs>>

(* A statement fails: build returns the error, and what was done stays. *)
statement_fails(e) ==
    /\ build[e].at \in Statements
    /\ build' = [build EXCEPT ![e] = NoBuild]
    /\ UNCHANGED <<table, present, audited, config, repairs>>

BuildStep(e) ==
    \/ begin_build(e)
    \/ migrate(e)
    \/ reconcile_table_persistence(e)
    \/ look_up_fk(e)
    \/ drop_fk(e)
    \/ alter_table(e)
    \/ delete_orphans(e)
    \/ add_fk(e)
    \/ statement_fails(e)

-----------------------------------------------------------------------------
(* What happens to the tables otherwise *)

(* A task is submitted, with its audit row if the engine keeps the log. *)
submit_task(e, t) ==
    /\ Up(e)
    /\ t \notin present \cup audited
    /\ present' = present \cup {t}
    /\ audited' = IF config[e].audit_log THEN audited \cup {t} ELSE audited
    /\ UNCHANGED <<table, config, build, repairs>>

(* A task changes its status, with its audit row. *)
audit_transition(e, t) ==
    /\ Up(e) /\ config[e].audit_log
    /\ t \in present \ audited
    /\ audited' = audited \cup {t}
    /\ UNCHANGED <<table, present, config, build, repairs>>

(* Postgres crashes and recovers; of an UNLOGGED table nothing is left. *)
postgres_crashes ==
    /\ table.exists
    /\ present' = IF table.unlogged THEN {} ELSE present
    /\ UNCHANGED <<table, audited, config, build, repairs>>

(* An operator makes the table LOGGED and adds the foreign key. *)
operator_restores_key ==
    /\ repairs < MaxRepairs
    /\ table.exists /\ ~table.fk /\ Orphans = {}
    /\ table' = [table EXCEPT !.unlogged = FALSE, !.fk = TRUE]
    /\ repairs' = repairs + 1
    /\ UNCHANGED <<present, audited, config, build>>

TableStep ==
    \/ \E e \in Engines, t \in Tasks : submit_task(e, t) \/ audit_transition(e, t)
    \/ postgres_crashes
    \/ operator_restores_key

(* The engine is dropped. *)
stop(e) ==
    /\ build[e].at = "up"
    /\ build' = [build EXCEPT ![e] = NoBuild]
    /\ UNCHANGED <<table, present, audited, config, repairs>>

TableNext == (\E e \in Engines : BuildStep(e) \/ stop(e)) \/ TableStep

TableSpec == TableInit /\ [][TableNext]_tableVars

-----------------------------------------------------------------------------
(* Properties *)

(* Types; the foreign key holds while it is there, and only on a LOGGED     *)
(* table.                                                                   *)
TableTypeOK ==
    /\ table \in [exists : BOOLEAN, unlogged : BOOLEAN, fk : BOOLEAN]
    /\ table.fk => table.exists /\ ~table.unlogged /\ Orphans = {}
    /\ table.unlogged => table.exists
    /\ present \in SUBSET Tasks /\ audited \in SUBSET Tasks
    /\ present \cup audited # {} => table.exists
    /\ config \in [Engines -> Configs]
    /\ build \in [Engines -> [at : Statements \cup {"down", "up"}, fk_name : BOOLEAN]]
    /\ \A e \in Engines : build[e].at \in Switching => table.exists
    /\ repairs \in 0 .. MaxRepairs

(* As long as the engines of a deployment agree on unlogged_tables, every   *)
(* row of the audit log has its task, though nothing but two checks stands  *)
(* for the foreign key once that is dropped: validate refuses an UNLOGGED   *)
(* engine that keeps the log, and reconcile_table_persistence makes the     *)
(* table LOGGED before an engine that may keep it is up.                    *)
AuditedTasksExist ==
    (\A d, e \in Engines : config[d].unlogged_tables = config[e].unlogged_tables)
        => Orphans = {}

(* A build that has restored the table to LOGGED leaves it with the foreign *)
(* key: "When restoring to LOGGED we re-add the FK so audit log integrity   *)
(* is preserved" (set_table_persistence, lib.rs 1542).  On the way back it  *)
(* looks up the name of a key that the way to UNLOGGED has dropped.         *)
RestoredWithKey ==
    [][\A e \in Engines :
          /\ build[e].at \in {"alter", "add_fk"} /\ build'[e].at = "up"
          /\ ~config[e].unlogged_tables
          => table'.fk]_tableVars

(* If no engine of the deployment is configured UNLOGGED, then from when    *)
(* one of them is up no crash of Postgres loses a task, whatever state the  *)
(* table was in before and whichever builds failed half way.                *)
DurableTasksKept ==
    [][/\ \A e \in Engines : ~config[e].unlogged_tables
       /\ \E e \in Engines : Up(e)
       => present \subseteq present']_tableVars
=============================================================================
