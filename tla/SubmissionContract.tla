------------------------- MODULE SubmissionContract -------------------------
(***************************************************************************)
(* What a submitter may rely on, as if every submission were one step: new *)
(* tasks appear together, pending, under keys no unfinished task has; a    *)
(* call that answers "created" has its task stored, one that answers       *)
(* "duplicate" names an unfinished task.  Meanwhile tasks move along their *)
(* life cycle, and finished ones lose their keys.                          *)
(***************************************************************************)
CONSTANTS Tasks, NULL

VARIABLES
    rows,     \* the tasks that exist
    answer    \* the answer given in the last step, or NULL

Terminal == {"completed", "failed", "cancelled"}

Life == INSTANCE TaskLifecycle WITH
            status <- [i \in Tasks |-> IF i \in DOMAIN rows THEN rows[i].status ELSE "none"]

SameKey(r, s) == r.key # NULL /\ r.queue = s.queue /\ r.key = s.key

Init == rows = << >> /\ answer = NULL

(* The tasks of S appear, all of them or none. *)
Create(S) ==
    /\ S # {} /\ S \cap DOMAIN rows = {}
    /\ DOMAIN rows' = DOMAIN rows \cup S
    /\ \A i \in DOMAIN rows : rows'[i] = rows[i]
    /\ \A i \in S :
         /\ rows'[i].status = "pending"
         /\ \A j \in DOMAIN rows' \ {i} :
              SameKey(rows'[i], rows'[j]) => rows'[j].status \in Terminal
    /\ \/ answer' = NULL
       \/ answer'.is = "storage"
       \/ answer'.is = "created" /\ answer'.task \in S

(* A call is answered without effect. *)
Refuse ==
    /\ UNCHANGED rows /\ answer' # NULL
    /\ \/ answer'.is \in {"storage", "invalid"}
       \/ answer'.is = "conflict" /\ rows[answer'.holder].status \in Terminal
       \/ answer'.is = "duplicate" /\ rows[answer'.task].status \notin Terminal

Progress ==
    /\ answer' = NULL
    /\ DOMAIN rows' = DOMAIN rows
    /\ \E e \in Life!Edges, i \in DOMAIN rows :
         /\ rows[i].status = e[1]
         /\ rows' = [rows EXCEPT ![i].status = e[2]]

ForgetKeys ==
    /\ answer' = NULL
    /\ DOMAIN rows' = DOMAIN rows
    /\ \A i \in DOMAIN rows :
         \/ rows'[i] = rows[i]
         \/ rows[i].status \in Terminal /\ rows'[i] = [rows[i] EXCEPT !.key = NULL]

Next == (\E S \in SUBSET Tasks : Create(S)) \/ Refuse \/ Progress \/ ForgetKeys

Spec == Init /\ [][Next]_<<rows, answer>>
=============================================================================
