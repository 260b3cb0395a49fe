----------------------- MODULE TablePersistenceProofs -----------------------
(* Theorems about the builds of engines that share a database, for any      *)
(* number of engines, tasks and repairs.                                    *)
EXTENDS TablePersistence, TLAPS

-----------------------------------------------------------------------------
(* The type invariant *)

Tables == [exists : BOOLEAN, unlogged : BOOLEAN, fk : BOOLEAN]
Builds == [Engines -> [at : Statements \cup {"down", "up"}, fk_name : BOOLEAN]]

(* Every state a deployment may start from is well typed. *)
LEMMA InitTypes == TableInit => TableTypeOK
BY ConfigAssumption DEF TableInit, TableTypeOK, Statements, Switching, NoBuild, Orphans

(* What a statement of a build does to the build itself. *)
LEMMA BuildMoves ==
    ASSUME TableTypeOK, NEW e \in Engines, BuildStep(e) \/ stop(e)
    PROVE  /\ build' \in Builds
           /\ \A d \in Engines \ {e} : build'[d] = build[d]
           /\ UNCHANGED <<present, audited, config, repairs>>
<1> USE DEF TableTypeOK, Statements, Switching, Builds, GoTo, NoBuild
<1>1. CASE begin_build(e) \/ reconcile_table_persistence(e) \/ delete_orphans(e)
  BY <1>1 DEF begin_build, reconcile_table_persistence, delete_orphans
<1>2. CASE migrate(e) \/ drop_fk(e) \/ add_fk(e)
  BY <1>2 DEF migrate, drop_fk, add_fk
<1>3. CASE look_up_fk(e)
  BY <1>3 DEF look_up_fk
<1>4. CASE alter_table(e)
  BY <1>4 DEF alter_table
<1>5. CASE statement_fails(e) \/ stop(e)
  <2>1. /\ build' = [build EXCEPT ![e] = NoBuild]
        /\ UNCHANGED <<present, audited, config, repairs>>
    BY <1>5 DEF statement_fails, stop
  <2>2. NoBuild \in [at : Statements \cup {"down", "up"}, fk_name : BOOLEAN]
    OBVIOUS
  <2>3. build \in Builds
    OBVIOUS
  <2> QED
    BY ONLY <2>1, <2>2, <2>3, e \in Engines DEF Builds
<1> QED
  BY <1>1, <1>2, <1>3, <1>4, <1>5 DEF BuildStep

(* What it does to the table. *)
LEMMA TableMoves ==
    ASSUME TableTypeOK, NEW e \in Engines, BuildStep(e) \/ stop(e)
    PROVE  /\ table' \in Tables
           /\ table'.fk => table'.exists /\ ~table'.unlogged /\ Orphans = {}
           /\ table'.unlogged => table'.exists
           /\ table.exists => table'.exists
           /\ build'[e].at \in Switching => table'.exists
<1> USE DEF TableTypeOK, Switching, Tables, GoTo
<1>1. CASE begin_build(e)
  BY <1>1 DEF begin_build
<1>2. CASE migrate(e)
  BY <1>2 DEF migrate, Orphans
<1>3. CASE reconcile_table_persistence(e)
  BY <1>3 DEF reconcile_table_persistence
<1>4. CASE look_up_fk(e)
  BY <1>4 DEF look_up_fk
<1>5. CASE drop_fk(e)
  BY <1>5 DEF drop_fk
<1>6. CASE alter_table(e)
  <2>1. config[e] \in Config
    BY ConfigAssumption
  <2>2. config[e].unlogged_tables \in BOOLEAN
    BY <2>1 DEF Config
  <2>3. /\ table' = [table EXCEPT !.unlogged = config[e].unlogged_tables]
        /\ config[e].unlogged_tables => ~table.fk
        /\ table.exists
    BY <1>6 DEF alter_table
  <2> QED
    BY <2>2, <2>3
<1>7. CASE delete_orphans(e)
  BY <1>7 DEF delete_orphans
<1>8. CASE add_fk(e)
  BY <1>8 DEF add_fk
<1>9. CASE statement_fails(e) \/ stop(e)
  BY <1>9 DEF statement_fails, stop, NoBuild
<1> QED
  BY <1>1, <1>2, <1>3, <1>4, <1>5, <1>6, <1>7, <1>8, <1>9 DEF BuildStep

(* Every statement, crash and repair keeps the types. *)
LEMMA TypesStep ==
    ASSUME TableTypeOK, [TableNext]_tableVars
    PROVE  TableTypeOK'
<1>1. CASE \E e \in Engines : BuildStep(e) \/ stop(e)
  <2>1. PICK e \in Engines : BuildStep(e) \/ stop(e)
    BY <1>1
  <2>2. /\ build' \in Builds
        /\ \A d \in Engines \ {e} : build'[d] = build[d]
        /\ UNCHANGED <<present, audited, config, repairs>>
    BY <2>1, BuildMoves
  <2>3. /\ table' \in Tables
        /\ table'.fk => table'.exists /\ ~table'.unlogged /\ Orphans = {}
        /\ table'.unlogged => table'.exists
        /\ table.exists => table'.exists
        /\ build'[e].at \in Switching => table'.exists
    BY <2>1, TableMoves
  <2>4. \A d \in Engines : build'[d].at \in Switching => table'.exists
    BY <2>2, <2>3 DEF TableTypeOK
  <2> QED
    BY <2>2, <2>3, <2>4 DEF TableTypeOK, Tables, Builds, Orphans
<1>2. CASE \E e \in Engines, t \in Tasks : submit_task(e, t) \/ audit_transition(e, t)
  <2>1. PICK e \in Engines, t \in Tasks : submit_task(e, t) \/ audit_transition(e, t)
    BY <1>2
  <2>2. /\ table.exists
        /\ UNCHANGED <<table, config, build, repairs>>
        /\ present' \in SUBSET Tasks /\ audited' \in SUBSET Tasks
        /\ audited' \ present' \subseteq audited \ present
    BY <2>1 DEF submit_task, audit_transition, Up, TableTypeOK
  <2> QED
    BY <2>2 DEF TableTypeOK, Orphans
<1>3. CASE postgres_crashes
  BY <1>3 DEF postgres_crashes, TableTypeOK, Orphans
<1>4. CASE operator_restores_key
  <2>1. repairs' \in 0 .. MaxRepairs
    BY <1>4, ConfigAssumption DEF operator_restores_key, TableTypeOK
  <2>2. /\ table' = [table EXCEPT !.unlogged = FALSE, !.fk = TRUE]
        /\ table.exists /\ Orphans = {}
        /\ UNCHANGED <<present, audited, config, build>>
    BY <1>4 DEF operator_restores_key
  <2> QED
    BY <2>1, <2>2 DEF TableTypeOK, Orphans
<1>5. CASE UNCHANGED tableVars
  BY <1>5 DEF tableVars, TableTypeOK, Orphans
<1> QED
  BY <1>1, <1>2, <1>3, <1>4, <1>5 DEF TableNext, TableStep

(* The tables hold what the schema allows, whatever builds, crashes and     *)
(* repairs happen: TableTypeOK of the run `process`.                        *)
THEOREM TableTypes == TableSpec => []TableTypeOK
<1> QED
  BY InitTypes, TypesStep, PTL DEF TableSpec

-----------------------------------------------------------------------------
(* The foreign key *)

(* Why the run `key_restored` finds RestoredWithKey violated: unless an     *)
(* operator puts the key back, no build gets to the statements behind the   *)
(* ALTER TABLE that would restore it.                                       *)
RestoreNeedsOperator ==
    repairs = 0 => \A e \in Engines : build[e].at \notin {"delete", "add_fk"}

(* Without an operator: a build towards LOGGED has seen an UNLOGGED table,  *)
(* on which there is no key, and a key that was dropped stays dropped.      *)
KeyIsGone ==
    repairs = 0 =>
        \A e \in Engines :
            /\ build[e].at \notin {"delete", "add_fk"}
            /\ ~config[e].unlogged_tables =>
                 /\ build[e].at = "look_up_fk" => ~table.fk
                 /\ build[e].at # "drop_fk"
                 /\ build[e].at = "alter" => ~build[e].fk_name

(* No statement of the code brings the foreign key back. *)
LEMMA KeyStaysGone ==
    ASSUME TableTypeOK, KeyIsGone, [TableNext]_tableVars
    PROVE  KeyIsGone'
<1> SUFFICES ASSUME repairs' = 0, NEW e \in Engines
             PROVE  /\ build'[e].at \notin {"delete", "add_fk"}
                    /\ ~config'[e].unlogged_tables =>
                         /\ build'[e].at = "look_up_fk" => ~table'.fk
                         /\ build'[e].at # "drop_fk"
                         /\ build'[e].at = "alter" => ~build'[e].fk_name
  BY DEF KeyIsGone
<1>1. CASE \E d \in Engines : BuildStep(d) \/ stop(d)
  <2>1. PICK d \in Engines : BuildStep(d) \/ stop(d)
    BY <1>1
  <2>2. /\ \A f \in Engines \ {d} : build'[f] = build[f]
        /\ config' = config /\ repairs = 0
    BY <2>1, BuildMoves
  <2>3. table.exists /\ ~table.fk => ~table'.fk
    BY <2>1, <2>2 DEF KeyIsGone, BuildStep, begin_build, migrate, reconcile_table_persistence,
         look_up_fk, drop_fk, alter_table, delete_orphans, add_fk, statement_fails, stop,
         TableTypeOK
  <2>4. CASE e # d
    BY <2>2, <2>3, <2>4 DEF KeyIsGone, TableTypeOK, Switching
  <2>5. CASE e = d
    <3> USE DEF TableTypeOK, GoTo, KeyIsGone
    <3>1. CASE begin_build(d) \/ migrate(d)
      BY <2>2, <2>5, <3>1 DEF begin_build, migrate
    <3>2. CASE reconcile_table_persistence(d)
      <4>1. config[d] \in Config
        BY ConfigAssumption
      <4>2. config[d].unlogged_tables \in BOOLEAN /\ table.unlogged \in BOOLEAN
        BY <4>1 DEF Config
      <4>3. /\ build'[d].at \in {"look_up_fk", "up"} /\ table' = table
            /\ build'[d].at = "look_up_fk" => config[d].unlogged_tables # table.unlogged
        BY <3>2 DEF reconcile_table_persistence
      <4> QED
        BY <2>2, <2>5, <4>2, <4>3
    <3>3. CASE look_up_fk(d)
      BY <2>2, <2>5, <3>3 DEF look_up_fk
    <3>4. CASE drop_fk(d)
      BY <2>2, <2>5, <3>4 DEF drop_fk
    <3>5. CASE alter_table(d)
      BY <2>2, <2>5, <3>5 DEF alter_table
    <3>6. CASE delete_orphans(d) \/ add_fk(d)
      BY <2>2, <2>5, <3>6 DEF delete_orphans, add_fk
    <3>7. CASE statement_fails(d) \/ stop(d)
      BY <2>2, <2>5, <3>7 DEF statement_fails, stop, NoBuild
    <3> QED
      BY <2>1, <3>1, <3>2, <3>3, <3>4, <3>5, <3>6, <3>7 DEF BuildStep
  <2> QED
    BY <2>4, <2>5
<1>2. CASE \E d \in Engines, t \in Tasks : submit_task(d, t) \/ audit_transition(d, t)
  BY <1>2 DEF submit_task, audit_transition, KeyIsGone
<1>3. CASE postgres_crashes
  BY <1>3 DEF postgres_crashes, KeyIsGone
<1>4. CASE operator_restores_key
  BY <1>4 DEF operator_restores_key, TableTypeOK
<1>5. CASE UNCHANGED tableVars
  BY <1>5 DEF tableVars, KeyIsGone
<1> QED
  BY <1>1, <1>2, <1>3, <1>4, <1>5 DEF TableNext, TableStep

(* Whatever engines build, in any order and with any failures: the DELETE   *)
(* and the ADD CONSTRAINT of set_table_persistence are never reached unless *)
(* an operator has restored the key by hand between two of its statements.  *)
THEOREM RestoreIsDead == TableSpec => []RestoreNeedsOperator
<1>1. TableInit => KeyIsGone
  <2> SUFFICES ASSUME TableInit, NEW e \in Engines
               PROVE  build[e].at \notin {"delete", "add_fk", "look_up_fk", "drop_fk", "alter"}
    BY DEF KeyIsGone
  <2>1. build[e] = NoBuild
    BY DEF TableInit
  <2> QED
    BY <2>1 DEF NoBuild
<1>2. KeyIsGone => RestoreNeedsOperator
  BY DEF KeyIsGone, RestoreNeedsOperator
<1> QED
  BY <1>1, <1>2, TableTypes, KeyStaysGone, PTL DEF TableSpec

-----------------------------------------------------------------------------
(* The rows *)

(* In a deployment without UNLOGGED engines, the table is LOGGED as soon as *)
(* an engine has got past its ALTER TABLE.                                  *)
DurableOnceUp ==
    (\A e \in Engines : ~config[e].unlogged_tables) =>
        \A e \in Engines :
            build[e].at \in {"delete", "add_fk", "up"} => ~table.unlogged

(* Among engines configured LOGGED, one that is past its switch has seen LOGGED. *)
LEMMA DurableStays ==
    ASSUME TableTypeOK, DurableOnceUp, [TableNext]_tableVars
    PROVE  DurableOnceUp'
<1> SUFFICES ASSUME \A f \in Engines : ~config'[f].unlogged_tables, NEW e \in Engines,
                    build'[e].at \in {"delete", "add_fk", "up"}
             PROVE  ~table'.unlogged
  BY DEF DurableOnceUp
<1>1. CASE \E d \in Engines : BuildStep(d) \/ stop(d)
  <2>1. PICK d \in Engines : BuildStep(d) \/ stop(d)
    BY <1>1
  <2>2. /\ \A f \in Engines \ {d} : build'[f] = build[f]
        /\ config' = config /\ \A f \in Engines : ~config[f].unlogged_tables
    BY <2>1, BuildMoves
  <2>3. ~table.unlogged => ~table'.unlogged
    BY <2>1, <2>2 DEF BuildStep, begin_build, migrate, reconcile_table_persistence,
         look_up_fk, drop_fk, alter_table, delete_orphans, add_fk, statement_fails, stop,
         TableTypeOK
  <2>4. CASE e # d
    BY <2>2, <2>3, <2>4 DEF DurableOnceUp
  <2>5. CASE e = d
    <3> USE DEF TableTypeOK, GoTo, DurableOnceUp
    <3>1. CASE begin_build(d) \/ migrate(d) \/ look_up_fk(d) \/ drop_fk(d)
      BY <2>2, <2>5, <3>1 DEF begin_build, migrate, look_up_fk, drop_fk
    <3>2. CASE reconcile_table_persistence(d)
      <4>1. build'[d].at = "up"
        BY <2>5, <3>2 DEF reconcile_table_persistence
      <4>2. ~(table.exists /\ config[d].unlogged_tables # table.unlogged)
        BY <3>2, <4>1 DEF reconcile_table_persistence
      <4>3. config[d] \in Config
        BY ConfigAssumption
      <4>4. config[d].unlogged_tables = FALSE
        BY <2>2, <4>3 DEF Config
      <4> QED
        BY <3>2, <4>2, <4>4 DEF reconcile_table_persistence
    <3>3. CASE alter_table(d)
      BY <2>2, <3>3 DEF alter_table
    <3>4. CASE delete_orphans(d) \/ add_fk(d)
      BY <2>2, <2>3, <3>4 DEF delete_orphans, add_fk
    <3>5. CASE statement_fails(d) \/ stop(d)
      BY <2>5, <3>5 DEF statement_fails, stop, NoBuild
    <3> QED
      BY <2>1, <3>1, <3>2, <3>3, <3>4, <3>5 DEF BuildStep
  <2> QED
    BY <2>4, <2>5
<1>2. CASE \E d \in Engines, t \in Tasks : submit_task(d, t) \/ audit_transition(d, t)
  BY <1>2 DEF submit_task, audit_transition, DurableOnceUp
<1>3. CASE postgres_crashes
  BY <1>3 DEF postgres_crashes, DurableOnceUp
<1>4. CASE operator_restores_key
  BY <1>4 DEF operator_restores_key, TableTypeOK
<1>5. CASE UNCHANGED tableVars
  BY <1>5 DEF tableVars, DurableOnceUp
<1> QED
  BY <1>1, <1>2, <1>3, <1>4, <1>5 DEF TableNext, TableStep

(* A crash of Postgres empties no table that is LOGGED. *)
LEMMA DurableStep ==
    ASSUME TableTypeOK, DurableOnceUp, [TableNext]_tableVars,
           \A e \in Engines : ~config[e].unlogged_tables, \E e \in Engines : Up(e)
    PROVE  present \subseteq present'
<1>1. ~table.unlogged
  BY DEF DurableOnceUp, Up
<1>2. CASE \E e \in Engines : BuildStep(e) \/ stop(e)
  BY <1>2, BuildMoves
<1>3. CASE TableStep
  BY <1>1, <1>3
  DEF TableStep, submit_task, audit_transition, postgres_crashes, operator_restores_key
<1>4. CASE UNCHANGED tableVars
  BY <1>4 DEF tableVars
<1> QED
  BY <1>2, <1>3, <1>4 DEF TableNext

(* A deployment without UNLOGGED engines loses no task once an engine is    *)
(* up, however builds and crashes interleave: DurableTasksKept of the run   *)
(* `process`.                                                               *)
THEOREM DurableIsKept == TableSpec => DurableTasksKept
<1>1. TableInit => DurableOnceUp
  BY DEF TableInit, DurableOnceUp, NoBuild
<1> QED
  BY <1>1, TableTypes, DurableStays, DurableStep, PTL DEF TableSpec, DurableTasksKept

-----------------------------------------------------------------------------
(* The audit log *)

(* Every engine that builds has a configuration that validate accepts; if   *)
(* all are UNLOGGED nobody writes the log, and if none is, a table with     *)
(* audited tasks is LOGGED.                                                 *)
AuditInv ==
    /\ \A e \in Engines : build[e].at # "down" => DatabaseConfig_validate(config[e])
    /\ (\A e \in Engines : config[e].unlogged_tables) => audited = {}
    /\ (\A e \in Engines : ~config[e].unlogged_tables) =>
         audited \subseteq present /\ (audited # {} => ~table.unlogged)

(* An engine that is not down was let through by validate, in every step. *)
LEMMA ValidatedStays ==
    ASSUME TableTypeOK, AuditInv, [TableNext]_tableVars, NEW e \in Engines,
           build'[e].at # "down"
    PROVE  DatabaseConfig_validate(config'[e])
<1>1. CASE \E d \in Engines : BuildStep(d) \/ stop(d)
  <2>1. PICK d \in Engines : BuildStep(d) \/ stop(d)
    BY <1>1
  <2>2. (\A f \in Engines \ {d} : build'[f] = build[f]) /\ config' = config
    BY <2>1, BuildMoves
  <2>3. CASE e # d
    BY <2>2, <2>3 DEF AuditInv
  <2>4. CASE e = d /\ begin_build(d)
    BY <2>2, <2>4 DEF begin_build
  <2>5. CASE e = d /\ build[d].at # "down"
    BY <2>2, <2>5 DEF AuditInv
  <2>6. begin_build(d) \/ build[d].at # "down"
    BY <2>1 DEF BuildStep, migrate, reconcile_table_persistence, look_up_fk, drop_fk,
         alter_table, delete_orphans, add_fk, statement_fails, stop, Statements, Switching
  <2> QED
    BY <2>3, <2>4, <2>5, <2>6
<1>2. CASE TableStep \/ UNCHANGED tableVars
  <2>1. build' = build /\ config' = config
    BY <1>2 DEF TableStep, submit_task, audit_transition, postgres_crashes,
         operator_restores_key, tableVars
  <2> QED
    BY <2>1 DEF AuditInv
<1> QED
  BY <1>1, <1>2 DEF TableNext

(* Where all are UNLOGGED, the log stays empty. *)
LEMMA NoLogStays ==
    ASSUME TableTypeOK, AuditInv, [TableNext]_tableVars,
           \A e \in Engines : config'[e].unlogged_tables
    PROVE  audited' = {}
<1>1. config' = config
  <2>1. CASE \E d \in Engines : BuildStep(d) \/ stop(d)
    BY <2>1, BuildMoves
  <2>2. CASE TableStep \/ UNCHANGED tableVars
    BY <2>2 DEF TableStep, submit_task, audit_transition, postgres_crashes,
         operator_restores_key, tableVars
  <2> QED
    BY <2>1, <2>2 DEF TableNext
<1>2. audited = {} /\ \A e \in Engines : config[e].unlogged_tables
  BY <1>1 DEF AuditInv
<1>3. \A e \in Engines : Up(e) => ~config[e].audit_log
  BY <1>2 DEF AuditInv, Up, DatabaseConfig_validate
<1>4. CASE \E d \in Engines : BuildStep(d) \/ stop(d)
  BY <1>2, <1>4, BuildMoves
<1>5. CASE \E d \in Engines, t \in Tasks : submit_task(d, t) \/ audit_transition(d, t)
  BY <1>2, <1>3, <1>5 DEF submit_task, audit_transition
<1>6. CASE postgres_crashes \/ operator_restores_key \/ UNCHANGED tableVars
  BY <1>2, <1>6 DEF postgres_crashes, operator_restores_key, tableVars
<1> QED
  BY <1>4, <1>5, <1>6 DEF TableNext, TableStep

(* Where none is, the tasks of the log are in a table that is LOGGED. *)
LEMMA LogStays ==
    ASSUME TableTypeOK, DurableOnceUp, AuditInv, [TableNext]_tableVars,
           \A e \in Engines : ~config'[e].unlogged_tables
    PROVE  audited' \subseteq present' /\ (audited' # {} => ~table'.unlogged)
<1>1. CASE \E d \in Engines : BuildStep(d) \/ stop(d)
  <2>1. PICK d \in Engines : BuildStep(d) \/ stop(d)
    BY <1>1
  <2>2. UNCHANGED <<present, audited, config>>
    BY <2>1, BuildMoves
  <2>3. ~table.unlogged => ~table'.unlogged
    BY <2>1, <2>2 DEF BuildStep, begin_build, migrate, reconcile_table_persistence,
         look_up_fk, drop_fk, alter_table, delete_orphans, add_fk, statement_fails, stop,
         TableTypeOK
  <2> QED
    BY <2>2, <2>3 DEF AuditInv
<1>2. CASE \E d \in Engines, t \in Tasks : submit_task(d, t) \/ audit_transition(d, t)
  <2>1. PICK d \in Engines, t \in Tasks : submit_task(d, t) \/ audit_transition(d, t)
    BY <1>2
  <2>2. Up(d) /\ UNCHANGED <<table, config>>
    BY <2>1 DEF submit_task, audit_transition
  <2>3. ~table.unlogged /\ audited \subseteq present
    BY <2>2 DEF DurableOnceUp, Up, AuditInv
  <2> QED
    BY <2>1, <2>2, <2>3 DEF submit_task, audit_transition
<1>3. CASE postgres_crashes
  BY <1>3 DEF postgres_crashes, AuditInv
<1>4. CASE operator_restores_key
  BY <1>4 DEF operator_restores_key, AuditInv, TableTypeOK
<1>5. CASE UNCHANGED tableVars
  BY <1>5 DEF tableVars, AuditInv
<1> QED
  BY <1>1, <1>2, <1>3, <1>4, <1>5 DEF TableNext, TableStep

(* As long as the engines agree on unlogged_tables, every audited task is   *)
(* in the table, foreign key or not: AuditedTasksExist of the run `process`. *)
THEOREM AuditedTasksAreKept == TableSpec => []AuditedTasksExist
<1>1. TableInit => DurableOnceUp /\ AuditInv
  BY DEF TableInit, DurableOnceUp, AuditInv, NoBuild
<1>2. ASSUME TableTypeOK, DurableOnceUp, AuditInv, [TableNext]_tableVars
      PROVE  DurableOnceUp' /\ AuditInv'
  BY <1>2, DurableStays, ValidatedStays, NoLogStays, LogStays DEF AuditInv
<1>3. ASSUME TableTypeOK, AuditInv
      PROVE  AuditedTasksExist
  <2> SUFFICES ASSUME \A d, e \in Engines :
                          config[d].unlogged_tables = config[e].unlogged_tables
               PROVE  Orphans = {}
    BY DEF AuditedTasksExist
  <2>1. CASE \A e \in Engines : config[e].unlogged_tables
    BY <1>3, <2>1 DEF AuditInv, Orphans
  <2>2. CASE \A e \in Engines : ~config[e].unlogged_tables
    BY <1>3, <2>2 DEF AuditInv, Orphans
  <2> QED
    BY <2>1, <2>2
<1> QED
  BY <1>1, <1>2, <1>3, TableTypes, PTL DEF TableSpec
=============================================================================
