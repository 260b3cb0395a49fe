--------------------------- MODULE TaskLifecycle ---------------------------
(***************************************************************************)
(* What the queue promises about the life of a task, whatever workers,     *)
(* sweepers and clients do: a task is created pending, moves only along    *)
(* the edges below, and never leaves completed, failed or cancelled.       *)
(* Several tasks may move in one step (the sweeper's bulk updates).        *)
(***************************************************************************)
CONSTANT Tasks

VARIABLE status    \* task -> its status, "none" before it is submitted

(* The edges of TaskStatus's life cycle. *)
Edges ==
    {<<"none", "pending">>,
     <<"pending", "running">>, <<"pending", "cancelled">>,
     <<"running", "pending">>, <<"running", "completed">>,
     <<"running", "failed">>, <<"running", "suspended">>,
     <<"suspended", "pending">>, <<"suspended", "cancelled">>,
     <<"suspended", "failed">>}

Init == status = [i \in Tasks |-> "none"]

Next ==
    /\ DOMAIN status' = Tasks
    /\ \A i \in Tasks : status'[i] # status[i] => <<status[i], status'[i]>> \in Edges

Spec == Init /\ [][Next]_status
=============================================================================
