----------------------------- MODULE MCQueries -----------------------------
(* Instances of Queries for TLC. *)
EXTENDS Queries, TLC

CONSTANTS t1, t2, t3, t4

(* Only the order distinguishes tasks. *)
TaskSymmetry == Permutations(Tasks)

(* By queue, by a status that changes and by one that does not. *)
MCFilters ==
    {[queue |-> "q", status |-> NULL],
     [queue |-> NULL, status |-> "pending"],
     [queue |-> "q", status |-> "completed"]}
=============================================================================
