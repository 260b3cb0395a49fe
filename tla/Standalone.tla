----------------------------- MODULE Standalone -----------------------------
(***************************************************************************)
(* The life of the standalone binary (`iron-defer serve`, run_serve in     *)
(* main.rs) from its start to its exit: build the engine, spawn start() as *)
(* a background task, bind the HTTP listener, serve until a signal, cancel *)
(* the token and wait for both background tasks, but no longer than        *)
(* shutdown_timeout.  start() has a drain timeout of the same length of    *)
(* its own, behind which it releases the worker's leases.                  *)
(*                                                                         *)
(* The module Engine has start() in detail; here it is reduced to what the *)
(* main function and the leases show of it.  Engines that are not binaries *)
(* are embedded in other programs.                                         *)
(***************************************************************************)
EXTENDS TablePersistence

CONSTANTS
    Binaries,           \* the engines that run as the standalone binary
    Killable,           \* the ones whose process may be killed
    ShutdownTimeout,    \* worker.shutdown_timeout, in ticks
    Off                 \* a timer that is not set

VARIABLES
    proc,     \* binary -> what its main function, background tasks and timers do
    stray     \* a lease is left of a worker that no longer runs

standVars == <<tableVars, proc, stray>>

ASSUME StandaloneAssumption ==
    /\ Binaries \subseteq Engines /\ Killable \subseteq Binaries
    /\ ShutdownTimeout \in Nat \ {0}
    /\ Off \notin Nat

Timer == 0 .. ShutdownTimeout \cup {Off}

(* main_timer and drain_timer are the ticks left of the two timeouts, lease  *)
(* says that the worker has claimed a task and not reported its end.         *)
Process ==
    [main : {"off", "binding", "waiting", "joining"},
     worker : {"none", "polling", "draining", "releasing", "ended", "unreleased"},
     server : {"none", "serving", "ended"},
     main_timer : Timer, drain_timer : Timer, lease : BOOLEAN]

Exited ==
    [main |-> "off", worker |-> "none", server |-> "none",
     main_timer |-> Off, drain_timer |-> Off, lease |-> FALSE]

Set(p, q) == proc' = [proc EXCEPT ![p] = q]

(* token.cancel() *)
Cancelled(p) == proc[p].main = "joining"

(* The process ends, and with it every task of its runtime. *)
Exit(p) ==
    /\ Set(p, Exited)
    /\ stray' = (stray \/ (proc[p].lease /\ present # {}))
    /\ build' = [build EXCEPT ![p] = NoBuild]
    /\ UNCHANGED <<table, present, audited, config, repairs>>

-----------------------------------------------------------------------------
(* The main function *)

StandInit ==
    /\ TableInit
    /\ proc = [p \in Binaries |-> Exited]
    /\ stray = FALSE

(* tokio::spawn of engine.start(): it has not yet bound the listener. *)
spawn_worker(p) ==
    /\ build[p].at = "up" /\ proc[p].main = "off"
    /\ Set(p, [proc[p] EXCEPT !.main = "binding", !.worker = "polling"])
    /\ UNCHANGED <<tableVars, stray>>

(* TcpListener::bind, and tokio::spawn of the server. *)
bind_listener(p) ==
    /\ proc[p].main = "binding"
    /\ Set(p, [proc[p] EXCEPT !.main = "waiting", !.server = "serving"])
    /\ UNCHANGED <<tableVars, stray>>

(* The address is in use: main returns the error, the worker running. *)
bind_fails(p) ==
    /\ proc[p].main = "binding"
    /\ Exit(p)

(* shutdown_signal returns, the token is cancelled and the timeout begins. *)
shutdown_signal(p) ==
    /\ proc[p].main = "waiting"
    /\ Set(p, [proc[p] EXCEPT !.main = "joining", !.main_timer = ShutdownTimeout])
    /\ UNCHANGED <<tableVars, stray>>

(* Both background tasks are joined. *)
joined(p) ==
    /\ proc[p].main = "joining"
    /\ proc[p].worker \in {"ended", "unreleased"} /\ proc[p].server = "ended"
    /\ Exit(p)

(* Faulty: the limit is on the server only. *)
shutdown_times_out_serving(p) ==
    /\ proc[p].main = "joining" /\ proc[p].main_timer = 0
    /\ proc[p].worker \in {"ended", "unreleased"}
    /\ Exit(p)

(* "Graceful shutdown timed out; process exiting abruptly" *)
shutdown_times_out(p) ==
    /\ proc[p].main = "joining" /\ proc[p].main_timer = 0
    /\ Exit(p)

(* The process is killed. *)
process_dies(p) ==
    /\ p \in Killable /\ build[p].at # "down"
    /\ Exit(p)

-----------------------------------------------------------------------------
(* The background tasks *)

claim(p) ==
    /\ proc[p].worker = "polling" /\ ~Cancelled(p) /\ ~proc[p].lease /\ present # {}
    /\ Set(p, [proc[p] EXCEPT !.lease = TRUE])
    /\ UNCHANGED <<tableVars, stray>>

(* The handler returns and the worker reports it. *)
attempt_ends(p) ==
    /\ proc[p].worker \in {"polling", "draining"} /\ proc[p].lease
    /\ Set(p, [proc[p] EXCEPT !.lease = FALSE])
    /\ UNCHANGED <<tableVars, stray>>

(* run_poll_loop returns, which may take as long as the claim it is in. *)
drain_begins(p) ==
    /\ proc[p].worker = "polling" /\ Cancelled(p)
    /\ Set(p, [proc[p] EXCEPT !.worker = "draining", !.drain_timer = ShutdownTimeout])
    /\ UNCHANGED <<tableVars, stray>>

(* Faulty: the drain does not wait for the attempts. *)
drained_at_once(p) ==
    /\ proc[p].worker = "draining"
    /\ Set(p, [proc[p] EXCEPT !.worker = "ended", !.drain_timer = Off])
    /\ UNCHANGED <<tableVars, stray>>

(* drain_join_set is through, the sweeper is joined, start() returns. *)
drained(p) ==
    /\ proc[p].worker = "draining" /\ ~proc[p].lease
    /\ Set(p, [proc[p] EXCEPT !.worker = "ended", !.drain_timer = Off])
    /\ UNCHANGED <<tableVars, stray>>

(* The drain timeout: attempts are aborted, their leases are still there. *)
drain_times_out(p) ==
    /\ proc[p].worker = "draining" /\ proc[p].drain_timer = 0
    /\ Set(p, [proc[p] EXCEPT !.worker = "releasing", !.drain_timer = Off])
    /\ UNCHANGED <<tableVars, stray>>

(* release_leases_for_worker, or its failure, which is logged. *)
release_leases(p) ==
    /\ proc[p].worker = "releasing"
    /\ \/ Set(p, [proc[p] EXCEPT !.worker = "ended", !.lease = FALSE])
       \/ Set(p, [proc[p] EXCEPT !.worker = "unreleased"])
    /\ UNCHANGED <<tableVars, stray>>

(* axum's graceful shutdown: no connection is open any more. *)
server_drains(p) ==
    /\ proc[p].server = "serving" /\ Cancelled(p)
    /\ Set(p, [proc[p] EXCEPT !.server = "ended"])
    /\ UNCHANGED <<tableVars, stray>>

(* The sweeper of a running worker recovers what others have left. *)
recover_zombie_tasks(p) ==
    /\ proc[p].worker = "polling" /\ ~Cancelled(p) /\ stray
    /\ stray' = FALSE
    /\ UNCHANGED <<tableVars, proc>>

Less(timer) == IF timer \in {0, Off} THEN timer ELSE timer - 1

(* Time passes. *)
tick ==
    /\ \E p \in Binaries : {proc[p].main_timer, proc[p].drain_timer} \ {0, Off} # {}
    /\ proc' = [p \in Binaries |->
                   [proc[p] EXCEPT !.main_timer = Less(@), !.drain_timer = Less(@)]]
    /\ UNCHANGED <<tableVars, stray>>

StandNext ==
    \/ \E e \in Engines :
         \/ BuildStep(e) /\ UNCHANGED <<proc, stray>>
         \/ e \notin Binaries /\ stop(e) /\ UNCHANGED <<proc, stray>>
    \/ TableStep /\ UNCHANGED proc /\ stray' = (stray /\ present' # {})
    \/ \E p \in Binaries :
         \/ spawn_worker(p)
         \/ bind_listener(p)
         \/ bind_fails(p)
         \/ shutdown_signal(p)
         \/ joined(p)
         \/ shutdown_times_out(p)
         \/ process_dies(p)
         \/ claim(p)
         \/ attempt_ends(p)
         \/ drain_begins(p)
         \/ drained(p)
         \/ drain_times_out(p)
         \/ release_leases(p)
         \/ server_drains(p)
         \/ recover_zombie_tasks(p)
    \/ tick

StandSpec == StandInit /\ [][StandNext]_standVars

(* Time passes and the runtime polls the main function when its timeout is  *)
(* over.  Nothing is assumed of the handlers and of the connections.        *)
FairStandSpec ==
    /\ StandSpec
    /\ WF_standVars(tick)
    /\ \A p \in Binaries : WF_standVars(shutdown_times_out(p))

-----------------------------------------------------------------------------
(* Properties *)

(* Types; the background tasks run only in a process whose engine is built, *)
(* and a worker that has ended in order holds no lease.                     *)
StandTypeOK ==
    /\ proc \in [Binaries -> Process] /\ stray \in BOOLEAN
    /\ \A p \in Binaries :
         /\ proc[p].main = "off" <=> proc[p] = Exited
         /\ proc[p].main # "off" => build[p].at = "up"
         /\ proc[p].worker = "ended" => ~proc[p].lease

(* A process that has used up its drain timeout leaves no lease behind:     *)
(* "If the timeout expires, all leases held by this worker are released     *)
(* back to Pending" (start, lib.rs 777).  Main's timeout is as long, and    *)
(* began before.                                                            *)
DrainTimeoutReleases ==
    [][\A p \in Binaries :
          /\ proc[p].worker \in {"draining", "releasing"} /\ proc[p].drain_timer \in {0, Off}
          /\ proc'[p].main = "off"
          => (stray' => stray)]_standVars

(* A signal ends the process, whatever handlers and connections do. *)
SignalEndsProcess ==
    \A p \in Binaries : (proc[p].main = "joining") ~> (proc[p].main = "off")
=============================================================================
