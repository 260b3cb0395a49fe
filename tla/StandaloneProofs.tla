-------------------------- MODULE StandaloneProofs --------------------------
(* Theorems about the standalone binary, for any number of binaries and any *)
(* shutdown_timeout.                                                        *)
EXTENDS Standalone, TablePersistenceProofs

-----------------------------------------------------------------------------
(* The invariant: how the timers and the background tasks go together *)

ProcessOK(p) ==
    /\ proc[p] \in Process
    /\ proc[p].main = "off" <=> proc[p] = Exited
    /\ proc[p].main # "off" => build[p].at = "up"
    /\ proc[p].worker = "ended" => ~proc[p].lease

(* Main's timer runs from the cancellation on, the drain's began later. *)
TimersOK(p) ==
    /\ proc[p].main = "joining" => proc[p].main_timer # Off
    /\ proc[p].worker \in {"draining", "releasing"} => proc[p].main = "joining"
    /\ proc[p].worker = "draining" =>
         proc[p].drain_timer # Off /\ proc[p].main_timer <= proc[p].drain_timer
    /\ proc[p].worker = "releasing" => proc[p].main_timer = 0

StandInv ==
    /\ proc \in [Binaries -> Process] /\ stray \in BOOLEAN
    /\ \A p \in Binaries : ProcessOK(p) /\ TimersOK(p)

(* The invariant holds before any binary is started. *)
LEMMA InitInv == StandInit => StandInv
<1> SUFFICES ASSUME StandInit PROVE StandInv
  OBVIOUS
<1>1. Exited \in Process
  BY DEF Exited, Process, Timer
<1>2. \A p \in Binaries : proc[p] = Exited
  BY DEF StandInit
<1>3. proc \in [Binaries -> Process] /\ stray \in BOOLEAN
  BY <1>1 DEF StandInit
<1>4. Exited.main = "off" /\ Exited.worker = "none"
  BY DEF Exited
<1> QED
  BY <1>1, <1>2, <1>3, <1>4 DEF StandInv, ProcessOK, TimersOK

(* A step of one process leaves the others alone. *)
LEMMA OneProcess ==
    ASSUME StandInv, NEW p \in Binaries, NEW q, q \in Process, Set(p, q),
           stray' \in BOOLEAN,
           \A b \in Binaries \ {p} : build'[b] = build[b],
           ProcessOK(p)', TimersOK(p)'
    PROVE  StandInv'
<1>1. proc' \in [Binaries -> Process] /\ \A b \in Binaries \ {p} : proc'[b] = proc[b]
  BY DEF Set, StandInv
<1>2. \A b \in Binaries \ {p} : ProcessOK(b)' /\ TimersOK(b)'
  BY <1>1 DEF StandInv, ProcessOK, TimersOK
<1> QED
  BY <1>1, <1>2 DEF StandInv

-----------------------------------------------------------------------------
(* The steps *)

(* The end of a process, for whatever reason. *)
LEMMA ExitInv ==
    ASSUME TableTypeOK, StandInv, NEW p \in Binaries, Exit(p)
    PROVE  StandInv'
<1>1. Exited \in Process /\ Exited.main = "off" /\ Exited.worker = "none"
  BY DEF Exited, Process, Timer
<1>2. Set(p, Exited) /\ stray' \in BOOLEAN
  BY DEF Exit, StandInv
<1>3. \A b \in Binaries \ {p} : build'[b] = build[b]
  BY DEF Exit, TableTypeOK
<1>4. proc'[p] = Exited
  BY <1>2 DEF Set, StandInv
<1>5. ProcessOK(p)' /\ TimersOK(p)'
  BY <1>1, <1>4 DEF ProcessOK, TimersOK
<1> QED
  BY <1>1, <1>2, <1>3, <1>5, OneProcess

(* A build, another program or the table moves. *)
LEMMA TableInv ==
    ASSUME TableTypeOK, StandInv, proc' = proc, stray' \in BOOLEAN,
           \A b \in Binaries : build[b].at = "up" => build'[b].at = "up" \/ proc[b].main = "off"
    PROVE  StandInv'
BY DEF StandInv, ProcessOK, TimersOK

(* A statement of a build moves one engine, and none that is up. *)
LEMMA BuildKeepsUp ==
    ASSUME TableTypeOK, NEW e \in Engines, BuildStep(e)
    PROVE  /\ build[e].at # "up"
           /\ \A d \in Engines \ {e} : build'[d] = build[d]
<1>1. build[e].at # "up"
  BY DEF BuildStep, begin_build, migrate, reconcile_table_persistence, look_up_fk, drop_fk,
         alter_table, delete_orphans, add_fk, statement_fails, Statements, Switching
<1> QED
  BY <1>1, BuildMoves

(* A process that runs, as a value. *)
Timed(timer) == timer \in 0 .. ShutdownTimeout
LiveOK(q) ==
    /\ q \in Process
    /\ q.main # "off"
    /\ q.worker = "ended" => ~q.lease
    /\ q.main = "joining" => Timed(q.main_timer)
    /\ q.worker \in {"draining", "releasing"} => q.main = "joining"
    /\ q.worker = "draining" => Timed(q.drain_timer) /\ q.main_timer <= q.drain_timer
    /\ q.worker = "releasing" => q.main_timer = 0

(* The invariant of a process, read off while the process lives ... *)
LEMMA LiveBefore ==
    ASSUME NEW p \in Binaries, ProcessOK(p), TimersOK(p), proc[p].main # "off"
    PROVE  LiveOK(proc[p])
<1>1. \A t \in Timer : t # Off => Timed(t)
  BY DEF Timer, Timed
<1>2. proc[p].main_timer \in Timer /\ proc[p].drain_timer \in Timer
  BY DEF ProcessOK, Process
<1> QED
  BY <1>1, <1>2 DEF ProcessOK, TimersOK, LiveOK

(* ... and established again when a step of main changes only the process. *)
LEMMA LiveAfter ==
    ASSUME StandInv, NEW p \in Binaries, NEW q, Set(p, q), LiveOK(q),
           UNCHANGED <<tableVars, stray>>, build[p].at = "up"
    PROVE  StandInv'
<1>1. proc'[p] = q /\ q \in Process
  BY DEF Set, StandInv, LiveOK
<1>2. build' = build /\ stray' \in BOOLEAN
  BY DEF tableVars, StandInv
<1>3. ProcessOK(p)'
  BY <1>1, <1>2 DEF ProcessOK, LiveOK, Exited
<1>4. \A t : Timed(t) => t # Off
  BY StandaloneAssumption DEF Timed
<1>5. TimersOK(p)'
  BY <1>1, <1>4 DEF TimersOK, LiveOK
<1> QED
  BY <1>1, <1>2, <1>3, <1>5, OneProcess

(* The main function and the background tasks, one step at a time. *)
LEMMA ProcessInv ==
    ASSUME StandInv, NEW p \in Binaries,
           \/ bind_listener(p) \/ shutdown_signal(p) \/ attempt_ends(p)
           \/ claim(p) \/ drain_begins(p) \/ drained(p) \/ drain_times_out(p)
           \/ release_leases(p) \/ server_drains(p)
    PROVE  StandInv'
<1>0. /\ UNCHANGED <<tableVars, stray>>
      /\ proc[p] \in Process /\ ProcessOK(p) /\ TimersOK(p)
  BY DEF StandInv, bind_listener, shutdown_signal, attempt_ends, claim, drain_begins,
         drained, drain_times_out, release_leases, server_drains
<1>t. ShutdownTimeout \in Timer /\ Off \in Timer /\ Timed(ShutdownTimeout)
  BY StandaloneAssumption DEF Timer, Timed
<1>1. CASE bind_listener(p)
  <2> DEFINE q == [proc[p] EXCEPT !.main = "waiting", !.server = "serving"]
  <2>1. Set(p, q) /\ proc[p].main = "binding"
    BY <1>1 DEF bind_listener
  <2>2. proc[p].main # "off"
    BY <1>0, <2>1 DEF ProcessOK, Exited
  <2>3. LiveOK(proc[p])
    BY <1>0, <2>2, LiveBefore
  <2>4. q \in Process
    BY <1>0, <1>t DEF Process
  <2>5. /\ q.main = "waiting" /\ q.worker = proc[p].worker
        /\ q.main_timer = proc[p].main_timer /\ q.drain_timer = proc[p].drain_timer
        /\ q.lease = proc[p].lease
    BY <1>0 DEF Process
  <2>6. LiveOK(q)
    BY <1>0, <1>t, <2>1, <2>3, <2>4, <2>5 DEF LiveOK, Timed
  <2> QED
    BY <1>0, <2>1, <2>2, <2>6, LiveAfter DEF ProcessOK
<1>2. CASE shutdown_signal(p)
  <2> DEFINE q == [proc[p] EXCEPT !.main = "joining", !.main_timer = ShutdownTimeout]
  <2>1. Set(p, q) /\ proc[p].main = "waiting"
    BY <1>2 DEF shutdown_signal
  <2>2. proc[p].main # "off"
    BY <1>0, <2>1 DEF ProcessOK, Exited
  <2>3. LiveOK(proc[p])
    BY <1>0, <2>2, LiveBefore
  <2>4. q \in Process
    BY <1>0, <1>t DEF Process
  <2>5. /\ q.main = "joining" /\ q.worker = proc[p].worker
        /\ q.main_timer = ShutdownTimeout /\ q.drain_timer = proc[p].drain_timer
        /\ q.lease = proc[p].lease
    BY <1>0 DEF Process
  <2>6. LiveOK(q)
    BY <1>0, <1>t, <2>1, <2>3, <2>4, <2>5 DEF LiveOK, Timed
  <2> QED
    BY <1>0, <2>1, <2>2, <2>6, LiveAfter DEF ProcessOK
<1>3. CASE attempt_ends(p)
  <2> DEFINE q == [proc[p] EXCEPT !.lease = FALSE]
  <2>1. Set(p, q) /\ proc[p].worker \in {"polling", "draining"}
    BY <1>3 DEF attempt_ends
  <2>2. proc[p].main # "off"
    BY <1>0, <2>1 DEF ProcessOK, Exited
  <2>3. LiveOK(proc[p])
    BY <1>0, <2>2, LiveBefore
  <2>4. q \in Process
    BY <1>0, <1>t DEF Process
  <2>5. /\ q.main = proc[p].main /\ q.worker = proc[p].worker
        /\ q.main_timer = proc[p].main_timer /\ q.drain_timer = proc[p].drain_timer
        /\ q.lease = FALSE
    BY <1>0 DEF Process
  <2>6. LiveOK(q)
    BY <1>0, <1>t, <2>1, <2>3, <2>4, <2>5 DEF LiveOK, Timed
  <2> QED
    BY <1>0, <2>1, <2>2, <2>6, LiveAfter DEF ProcessOK
<1>4. CASE claim(p)
  <2> DEFINE q == [proc[p] EXCEPT !.lease = TRUE]
  <2>1. Set(p, q) /\ proc[p].worker = "polling"
    BY <1>4 DEF claim
  <2>2. proc[p].main # "off"
    BY <1>0, <2>1 DEF ProcessOK, Exited
  <2>3. LiveOK(proc[p])
    BY <1>0, <2>2, LiveBefore
  <2>4. q \in Process
    BY <1>0, <1>t DEF Process
  <2>5. /\ q.main = proc[p].main /\ q.worker = proc[p].worker
        /\ q.main_timer = proc[p].main_timer /\ q.drain_timer = proc[p].drain_timer
        /\ q.lease = TRUE
    BY <1>0 DEF Process
  <2>6. LiveOK(q)
    BY <1>0, <1>t, <2>1, <2>3, <2>4, <2>5 DEF LiveOK, Timed
  <2> QED
    BY <1>0, <2>1, <2>2, <2>6, LiveAfter DEF ProcessOK
<1>5. CASE drain_begins(p)
  <2> DEFINE q == [proc[p] EXCEPT !.worker = "draining", !.drain_timer = ShutdownTimeout]
  <2>1. Set(p, q) /\ proc[p].main = "joining"
    BY <1>5 DEF drain_begins, Cancelled
  <2>2. proc[p].main # "off"
    BY <1>0, <2>1 DEF ProcessOK, Exited
  <2>3. LiveOK(proc[p])
    BY <1>0, <2>2, LiveBefore
  <2>4. q \in Process
    BY <1>0, <1>t DEF Process
  <2>5. /\ q.main = proc[p].main /\ q.worker = "draining"
        /\ q.main_timer = proc[p].main_timer /\ q.drain_timer = ShutdownTimeout
        /\ q.lease = proc[p].lease
    BY <1>0 DEF Process
  <2>6. LiveOK(q)
    BY <1>0, <1>t, <2>1, <2>3, <2>4, <2>5 DEF LiveOK, Timed
  <2> QED
    BY <1>0, <2>1, <2>2, <2>6, LiveAfter DEF ProcessOK
<1>6. CASE drained(p)
  <2> DEFINE q == [proc[p] EXCEPT !.worker = "ended", !.drain_timer = Off]
  <2>1. Set(p, q) /\ proc[p].worker = "draining" /\ ~proc[p].lease
    BY <1>6 DEF drained
  <2>2. proc[p].main # "off"
    BY <1>0, <2>1 DEF ProcessOK, Exited
  <2>3. LiveOK(proc[p])
    BY <1>0, <2>2, LiveBefore
  <2>4. q \in Process
    BY <1>0, <1>t DEF Process
  <2>5. /\ q.main = proc[p].main /\ q.worker = "ended"
        /\ q.main_timer = proc[p].main_timer /\ q.drain_timer = Off
        /\ q.lease = proc[p].lease
    BY <1>0 DEF Process
  <2>6. LiveOK(q)
    BY <1>0, <1>t, <2>1, <2>3, <2>4, <2>5 DEF LiveOK, Timed
  <2> QED
    BY <1>0, <2>1, <2>2, <2>6, LiveAfter DEF ProcessOK
<1>7. CASE drain_times_out(p)
  <2> DEFINE q == [proc[p] EXCEPT !.worker = "releasing", !.drain_timer = Off]
  <2>1. Set(p, q) /\ proc[p].worker = "draining" /\ proc[p].drain_timer = 0
    BY <1>7 DEF drain_times_out
  <2>2. proc[p].main # "off"
    BY <1>0, <2>1 DEF ProcessOK, Exited
  <2>3. LiveOK(proc[p])
    BY <1>0, <2>2, LiveBefore
  <2>4. q \in Process
    BY <1>0, <1>t DEF Process
  <2>5. /\ q.main = proc[p].main /\ q.worker = "releasing"
        /\ q.main_timer = proc[p].main_timer /\ q.drain_timer = Off
        /\ q.lease = proc[p].lease
    BY <1>0 DEF Process
  <2>6. LiveOK(q)
    BY <1>0, <1>t, <2>1, <2>3, <2>4, <2>5 DEF LiveOK, Timed
  <2> QED
    BY <1>0, <2>1, <2>2, <2>6, LiveAfter DEF ProcessOK
<1>8. CASE server_drains(p)
  <2> DEFINE q == [proc[p] EXCEPT !.server = "ended"]
  <2>1. Set(p, q) /\ proc[p].main = "joining"
    BY <1>8 DEF server_drains, Cancelled
  <2>2. proc[p].main # "off"
    BY <1>0, <2>1 DEF ProcessOK, Exited
  <2>3. LiveOK(proc[p])
    BY <1>0, <2>2, LiveBefore
  <2>4. q \in Process
    BY <1>0, <1>t DEF Process
  <2>5. /\ q.main = proc[p].main /\ q.worker = proc[p].worker
        /\ q.main_timer = proc[p].main_timer /\ q.drain_timer = proc[p].drain_timer
        /\ q.lease = proc[p].lease
    BY <1>0 DEF Process
  <2>6. LiveOK(q)
    BY <1>0, <1>t, <2>1, <2>3, <2>4, <2>5 DEF LiveOK, Timed
  <2> QED
    BY <1>0, <2>1, <2>2, <2>6, LiveAfter DEF ProcessOK
<1>9. CASE release_leases(p)
  <2>1. proc[p].worker = "releasing"
    BY <1>9 DEF release_leases
  <2>2. proc[p].main # "off"
    BY <1>0, <2>1 DEF ProcessOK, Exited
  <2>3. LiveOK(proc[p])
    BY <1>0, <2>2, LiveBefore
  <2>4. CASE Set(p, [proc[p] EXCEPT !.worker = "ended", !.lease = FALSE])
    <3> DEFINE q == [proc[p] EXCEPT !.worker = "ended", !.lease = FALSE]
    <3>1. q \in Process /\ q.main = proc[p].main /\ q.worker = "ended"
          /\ q.main_timer = proc[p].main_timer /\ q.lease = FALSE
      BY <1>0 DEF Process
    <3>2. LiveOK(q)
      BY <2>3, <3>1 DEF LiveOK
    <3> QED
      BY <1>0, <2>2, <2>4, <3>2, LiveAfter DEF ProcessOK
  <2>5. CASE Set(p, [proc[p] EXCEPT !.worker = "unreleased"])
    <3> DEFINE q == [proc[p] EXCEPT !.worker = "unreleased"]
    <3>1. q \in Process /\ q.main = proc[p].main /\ q.worker = "unreleased"
          /\ q.main_timer = proc[p].main_timer
      BY <1>0 DEF Process
    <3>2. LiveOK(q)
      BY <2>3, <3>1 DEF LiveOK
    <3> QED
      BY <1>0, <2>2, <2>5, <3>2, LiveAfter DEF ProcessOK
  <2> QED
    BY <1>9, <2>4, <2>5 DEF release_leases
<1> QED
  BY <1>1, <1>2, <1>3, <1>4, <1>5, <1>6, <1>7, <1>8, <1>9

(* main spawns the worker: it polls, and no timer runs yet. *)
LEMMA SpawnInv ==
    ASSUME StandInv, NEW p \in Binaries, spawn_worker(p)
    PROVE  StandInv'
<1> DEFINE q == [proc[p] EXCEPT !.main = "binding", !.worker = "polling"]
<1>1. /\ Set(p, q) /\ UNCHANGED <<tableVars, stray>> /\ build[p].at = "up"
      /\ proc[p] \in Process
  BY DEF spawn_worker, StandInv
<1>2. q \in Process /\ q.main = "binding" /\ q.worker = "polling"
  BY <1>1 DEF Process
<1>3. LiveOK(q)
  BY <1>2 DEF LiveOK
<1> QED
  BY <1>1, <1>3, LiveAfter

(* Time passes for both timers alike. *)
LEMMA LessTimer ==
    ASSUME NEW t \in Timer
    PROVE  /\ Less(t) \in Timer
           /\ Timed(t) => Timed(Less(t))
           /\ t = 0 => Less(t) = 0
           /\ \A u \in Timer : Timed(t) /\ Timed(u) /\ t <= u => Less(t) <= Less(u)
BY StandaloneAssumption DEF Timer, Timed, Less

(* The timers run side by side, so their order is kept. *)
LEMMA TickInv ==
    ASSUME StandInv, tick
    PROVE  StandInv'
<1>1. UNCHANGED <<build, stray>>
  BY DEF tick, tableVars
<1>2. ASSUME NEW p \in Binaries
      PROVE  proc'[p] \in Process /\ ProcessOK(p)' /\ TimersOK(p)'
  <2> DEFINE q == [proc[p] EXCEPT !.main_timer = Less(@), !.drain_timer = Less(@)]
  <2>1. proc'[p] = q
    BY DEF tick
  <2>2. /\ proc[p] \in Process /\ ProcessOK(p) /\ TimersOK(p)
        /\ proc[p].main_timer \in Timer /\ proc[p].drain_timer \in Timer
    BY DEF StandInv, Process
  <2>3. /\ q.main = proc[p].main /\ q.worker = proc[p].worker /\ q.lease = proc[p].lease
        /\ q.main_timer = Less(proc[p].main_timer)
        /\ q.drain_timer = Less(proc[p].drain_timer)
    BY <2>2 DEF Process
  <2>4. q \in Process
    BY <2>2, LessTimer DEF Process
  <2>5. CASE proc[p].main = "off"
    <3>1. proc[p] = Exited
      BY <2>2, <2>5 DEF ProcessOK
    <3>2. Less(Off) = Off
      BY DEF Less
    <3>3. q = Exited
      <4>1. /\ proc[p].main = "off" /\ proc[p].worker = "none" /\ proc[p].server = "none"
            /\ proc[p].main_timer = Off /\ proc[p].drain_timer = Off /\ proc[p].lease = FALSE
        BY <3>1 DEF Exited
      <4>2. q.server = proc[p].server
        BY <2>2 DEF Process
      <4> HIDE DEF q
      <4>3. q = [main |-> q.main, worker |-> q.worker, server |-> q.server,
                 main_timer |-> q.main_timer, drain_timer |-> q.drain_timer,
                 lease |-> q.lease]
        BY <2>4 DEF Process
      <4> QED
        BY <2>3, <3>2, <4>1, <4>2, <4>3 DEF Exited
    <3>4. Exited.main = "off" /\ Exited.worker = "none"
      BY DEF Exited
    <3> QED
      BY <2>1, <2>4, <3>3, <3>4 DEF ProcessOK, TimersOK
  <2>6. CASE proc[p].main # "off"
    <3>1. LiveOK(proc[p])
      BY <2>2, <2>6, LiveBefore
    <3>2. LiveOK(q)
      BY <2>2, <2>3, <2>4, <3>1, LessTimer DEF LiveOK
    <3>3. \A t : Timed(t) => t # Off
      BY StandaloneAssumption DEF Timed
    <3>4. ProcessOK(p)'
      <4>1. q # Exited /\ q.main # "off"
        BY <2>3, <2>6 DEF Exited
      <4>2. build'[p].at = "up"
        BY <1>1, <2>2, <2>6 DEF ProcessOK
      <4>3. q.worker = "ended" => ~q.lease
        BY <2>2, <2>3 DEF ProcessOK
      <4> HIDE DEF q
      <4> QED
        BY <2>1, <2>4, <4>1, <4>2, <4>3 DEF ProcessOK
    <3>5. TimersOK(p)'
      BY <2>1, <3>2, <3>3 DEF TimersOK, LiveOK
    <3> QED
      BY <2>1, <2>4, <3>4, <3>5
  <2> QED
    BY <2>5, <2>6
<1>3. proc' \in [Binaries -> Process]
  <2>1. proc' = [p \in Binaries |-> proc'[p]]
    BY DEF tick
  <2> QED
    BY <1>2, <2>1
<1> QED
  BY <1>1, <1>2, <1>3 DEF StandInv

-----------------------------------------------------------------------------
(* The standalone binary builds as TablePersistence says *)

(* To the tables, the exit of a process is a failed statement or a stop. *)
LEMMA ExitIsTableStep ==
    ASSUME TableTypeOK, NEW p \in Binaries, Exit(p), build[p].at # "down"
    PROVE  TableNext
<1>1. p \in Engines
  BY StandaloneAssumption
<1>2. build[p].at \in Statements \cup {"up"}
  BY <1>1 DEF TableTypeOK
<1>3. statement_fails(p) \/ stop(p)
  BY <1>2 DEF Exit, statement_fails, stop
<1> QED
  BY <1>1, <1>3 DEF TableNext, BuildStep

(* Every step around the binary is one of TablePersistence, or none. *)
LEMMA StepIsTableStep ==
    ASSUME TableTypeOK, StandInv, [StandNext]_standVars
    PROVE  [TableNext]_tableVars
<1>1. CASE \E e \in Engines : BuildStep(e) \/ stop(e)
  BY <1>1 DEF TableNext
<1>2. CASE TableStep
  BY <1>2 DEF TableNext
<1>3. ASSUME NEW p \in Binaries,
             joined(p) \/ shutdown_times_out(p) \/ bind_fails(p) \/ process_dies(p)
      PROVE  TableNext
  <2>1. Exit(p) /\ (proc[p].main # "off" \/ build[p].at # "down")
    BY <1>3 DEF joined, shutdown_times_out, bind_fails, process_dies
  <2>2. build[p].at # "down"
    BY <2>1 DEF StandInv, ProcessOK
  <2> QED
    BY <2>1, <2>2, ExitIsTableStep
<1>4. CASE UNCHANGED tableVars
  BY <1>4
<1>5. CASE UNCHANGED standVars
  BY <1>5 DEF standVars
<1> QED
  BY <1>1, <1>2, <1>3, <1>4, <1>5
  DEF StandNext, spawn_worker, bind_listener, shutdown_signal, claim, attempt_ends,
      drain_begins, drained, drain_times_out, release_leases, server_drains,
      recover_zombie_tasks, tick

(* Every step keeps the invariant. *)
LEMMA StepInv ==
    ASSUME TableTypeOK, StandInv, [StandNext]_standVars
    PROVE  StandInv'
<1>1. ASSUME NEW e \in Engines, BuildStep(e), UNCHANGED <<proc, stray>>
      PROVE  StandInv'
  <2>1. \A b \in Binaries : build[b].at = "up" => build'[b].at = "up"
    BY <1>1, BuildKeepsUp, StandaloneAssumption
  <2> QED
    BY <1>1, <2>1, TableInv DEF StandInv
<1>2. ASSUME NEW e \in Engines \ Binaries, stop(e), UNCHANGED <<proc, stray>>
      PROVE  StandInv'
  <2>1. \A b \in Binaries : build'[b] = build[b]
    BY <1>2, BuildMoves, StandaloneAssumption
  <2> QED
    BY <1>2, <2>1, TableInv DEF StandInv
<1>3. ASSUME TableStep, UNCHANGED proc, stray' = (stray /\ present' # {})
      PROVE  StandInv'
  <2>1. build' = build /\ stray' \in BOOLEAN
    BY <1>3 DEF TableStep, submit_task, audit_transition, postgres_crashes, operator_restores_key
  <2> QED
    BY <1>3, <2>1, TableInv
<1>4. ASSUME NEW p \in Binaries,
             joined(p) \/ shutdown_times_out(p) \/ bind_fails(p) \/ process_dies(p)
      PROVE  StandInv'
  BY <1>4, ExitInv DEF joined, shutdown_times_out, bind_fails, process_dies
<1>5. ASSUME NEW p \in Binaries,
             \/ bind_listener(p) \/ shutdown_signal(p) \/ attempt_ends(p)
             \/ claim(p) \/ drain_begins(p) \/ drained(p) \/ drain_times_out(p)
             \/ release_leases(p) \/ server_drains(p)
      PROVE  StandInv'
  BY <1>5, ProcessInv
<1>6. ASSUME NEW p \in Binaries, spawn_worker(p)
      PROVE  StandInv'
  BY <1>6, SpawnInv
<1>7. ASSUME NEW p \in Binaries, recover_zombie_tasks(p)
      PROVE  StandInv'
  <2>1. proc' = proc /\ build' = build /\ stray' \in BOOLEAN
    BY <1>7 DEF recover_zombie_tasks, tableVars
  <2> QED
    BY <2>1, TableInv
<1>8. CASE tick
  BY <1>8, TickInv
<1>9. CASE UNCHANGED standVars
  <2>1. proc' = proc /\ build' = build /\ stray' = stray
    BY <1>9 DEF standVars, tableVars
  <2> QED
    BY <2>1, TableInv DEF StandInv
<1> QED
  BY <1>1, <1>2, <1>3, <1>4, <1>5, <1>6, <1>7, <1>8, <1>9 DEF StandNext

-----------------------------------------------------------------------------
(* The theorems *)

(* The binary's process life does nothing to the tables that the builds of  *)
(* engines do not: every exit, at any place, is a build that fails or an    *)
(* engine that is dropped.  What is proved of TableSpec holds for it.       *)
THEOREM StandaloneImplementsTable == StandSpec => TableSpec /\ []StandInv
<1>1. StandInit => TableInit /\ StandInv
  BY InitInv DEF StandInit
<1>2. TableInit => TableTypeOK
  BY InitTypes
<1>3. ASSUME TableTypeOK, [TableNext]_tableVars
      PROVE  TableTypeOK'
  BY <1>3, TypesStep
<1> QED
  BY <1>1, <1>2, <1>3, StepIsTableStep, StepInv, PTL DEF StandSpec, TableSpec

(* Types, and a worker that ended in order holds no lease: StandTypeOK of   *)
(* the run `process`.                                                       *)
THEOREM StandTypes == StandSpec => []StandTypeOK
<1>1. StandInv => StandTypeOK
  BY DEF StandInv, StandTypeOK, ProcessOK
<1> QED
  BY <1>1, StandaloneImplementsTable, PTL

(* Why the run `drain_release` finds DrainTimeoutReleases violated: main's  *)
(* timeout begins when the token is cancelled, the drain's when the poll    *)
(* loop has noticed, and when start() gets to its release main's time is    *)
(* over too.                                                                *)
ReleaseRacesExit ==
    \A p \in Binaries : proc[p].worker = "releasing" => proc[p].main_timer = 0

(* For every shutdown_timeout, and however late the poll loop notices: the  *)
(* release of leases behind the drain timeout races the exit of the process *)
(* (main.rs 148, lib.rs 856).                                               *)
THEOREM ReleaseIsRaced == StandSpec => []ReleaseRacesExit
<1>1. StandInv => ReleaseRacesExit
  BY DEF StandInv, ReleaseRacesExit, TimersOK
<1> QED
  BY <1>1, StandaloneImplementsTable, PTL
=============================================================================
