---------------------------- MODULE MCTaskStore ----------------------------
(* Instances of TaskStore for TLC. *)
EXTENDS TaskStore, TLC

CONSTANTS t1, t2, w1, w2, east

(* One worker of each kind: w1 serves a region, w2 serves none. *)
MCWorkerRegion == (w1 :> east) @@ (w2 :> NULL)

(* Tasks are interchangeable: nothing compares their ids. *)
TaskSymmetry == Permutations({t1, t2})
=============================================================================
