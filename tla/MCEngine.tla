------------------------------ MODULE MCEngine ------------------------------
(* Instances of Engine for TLC. *)
EXTENDS Engine, TLC

CONSTANTS t1, t2, w1, w2

(* Both engines poll the one queue, for no region. *)
MCWorkerRegion == [w \in Workers |-> NULL]
MCWorkerQueue == [w \in Workers |-> "q"]
=============================================================================
