------------------------------ MODULE Queries ------------------------------
(***************************************************************************)
(* Listing tasks page by page (GET /tasks, `iron-defer tasks` and the      *)
(* library's list_tasks) while tasks are submitted and worked on.  A page  *)
(* is one SELECT; an empty page behind the first is followed by a SELECT   *)
(* of the total, which has a snapshot of its own.                          *)
(*                                                                         *)
(* created_at is the start of the transaction that inserts the row, so a   *)
(* transaction that commits late puts its rows before others that readers  *)
(* have seen.  The module Submission has the transactions; here a row      *)
(* enters the order at any place when its transaction commits.             *)
(*                                                                         *)
(* The reader is a client that asks for pages of Limit tasks until it has  *)
(* as many as the last answer's total.                                     *)
(***************************************************************************)
EXTENDS Integers, FiniteSets

CONSTANTS
    Tasks,                    \* the ids of tasks
    Queues,                   \* queue names
    NULL,                     \* an absent filter
    Limit,                    \* page size, after the clamp to 1..100
    MAX_PAGINATION_OFFSET,    \* the largest offset the repository uses
    Filters                   \* the filters the reader uses

VARIABLES
    rows,     \* the committed rows of tasks, a function from their ids
    before,   \* which of two tasks comes first by created_at and id
    walk      \* the reader: the filter and offset of its next page, what it
              \* does, and the tasks it was to see and has not seen

queryVars == <<rows, before, walk>>

Terminal == {"completed", "failed", "cancelled"}

Life == INSTANCE TaskLifecycle WITH
            status <- [i \in Tasks |-> IF i \in DOMAIN rows THEN rows[i].status ELSE "none"]

Statuses == {e[2] : e \in Life!Edges}

(* The filters of ListTasksFilter: by queue, by status, by both.  GET /tasks *)
(* refuses a request with neither; the command line and the library do not. *)
Filter == [queue : Queues \cup {NULL}, status : Statuses \cup {NULL}]

ASSUME PagingAssumption ==
    /\ Limit \in Nat \ {0}
    /\ MAX_PAGINATION_OFFSET \in Nat
    /\ Filters \subseteq Filter
    /\ NULL \notin Filter

Walk ==
    [at : {"idle", "page", "count", "ended"},
     filter : Filter \cup {NULL},
     offset : Nat,
     due : SUBSET Tasks]

NoWalk == [at |-> "idle", filter |-> NULL, offset |-> 0, due |-> {}]

-----------------------------------------------------------------------------
(* list_tasks *)

Matches(f, r) ==
    /\ f.queue # NULL => r.queue = f.queue
    /\ f.status # NULL => r.status = f.status

(* WHERE ..., without LIMIT. *)
Listing(f) == {i \in DOMAIN rows : Matches(f, rows[i])}

(* ORDER BY created_at, id: the place of a task in the listing, from 1. *)
Place(f, i) == Cardinality({j \in Listing(f) : <<j, i>> \in before}) + 1

Smaller(a, b) == IF a < b THEN a ELSE b

(* Faulty: the page starts one row late. *)
PageLate(f, offset) ==
    LET from == Smaller(offset, MAX_PAGINATION_OFFSET) + 1
    IN  {i \in Listing(f) : Place(f, i) \in from + 1 .. from + Limit}

(* LIMIT and OFFSET, the offset capped. *)
Page(f, offset) ==
    LET from == Smaller(offset, MAX_PAGINATION_OFFSET)
    IN  {i \in Listing(f) : Place(f, i) \in from + 1 .. from + Limit}

(* A filter a task never stops to match: by queue, or by a final status. *)
Lasting(f) == f.status \in Terminal \cup {NULL}

-----------------------------------------------------------------------------
(* What happens to the table meanwhile *)

(* A transaction that inserted the task commits: the tasks in `earlier`     *)
(* come before it, the others behind it.                                    *)
submission_commits(i, q) ==
    /\ i \notin DOMAIN rows
    /\ rows' = [j \in DOMAIN rows \cup {i} |->
                   IF j = i THEN [queue |-> q, status |-> "pending"] ELSE rows[j]]
    /\ \E earlier \in SUBSET DOMAIN rows :
         /\ \A j \in earlier, k \in DOMAIN rows \ earlier : <<j, k>> \in before
         /\ before' = before \cup (earlier \X {i}) \cup ({i} \X (DOMAIN rows \ earlier))
    /\ UNCHANGED walk

(* Any other operation of TaskRepository on a task. *)
progress(i) ==
    /\ \E e \in Life!Edges :
         /\ rows[i].status = e[1]
         /\ rows' = [rows EXCEPT ![i].status = e[2]]
    /\ UNCHANGED <<before, walk>>

-----------------------------------------------------------------------------
(* The reader *)

QueryInit ==
    /\ rows = << >>
    /\ before = {}
    /\ walk = NoWalk

(* The first page is asked for; the tasks that match now are due. *)
walk_begins ==
    /\ walk.at = "idle"
    /\ \E f \in Filters :
         walk' = [at |-> "page", filter |-> f, offset |-> 0, due |-> Listing(f)]
    /\ UNCHANGED <<rows, before>>

(* Faulty: every empty page is followed by the count, the first one too. *)
list_tasks_counting_first ==
    LET page == Page(walk.filter, walk.offset)
        seen == walk.offset + Cardinality(page)
    IN  /\ walk.at = "page"
        /\ walk' = [walk EXCEPT !.at = IF page = {} THEN "count"
                                       ELSE IF seen >= Cardinality(Listing(walk.filter)) THEN "ended"
                                       ELSE "page",
                                !.offset = seen,
                                !.due = @ \ page]
        /\ UNCHANGED <<rows, before>>

(* The SELECT of a page; its window count gives the total with every row. *)
list_tasks ==
    LET page == Page(walk.filter, walk.offset)
        total == Cardinality(Listing(walk.filter))
        seen == walk.offset + Cardinality(page)
    IN  /\ walk.at = "page"
        /\ \/ /\ page # {}
              /\ walk' = [walk EXCEPT !.at = IF seen >= total THEN "ended" ELSE "page",
                                      !.offset = seen,
                                      !.due = @ \ page]
           \/ /\ page = {} /\ walk.offset = 0
              /\ walk' = [walk EXCEPT !.at = "ended"]
           \/ /\ page = {} /\ walk.offset > 0
              /\ walk' = [walk EXCEPT !.at = "count"]
        /\ UNCHANGED <<rows, before>>

(* The count query behind an empty page. *)
count_tasks ==
    /\ walk.at = "count"
    /\ walk' = [walk EXCEPT !.at = IF walk.offset >= Cardinality(Listing(walk.filter))
                                   THEN "ended" ELSE "page"]
    /\ UNCHANGED <<rows, before>>

(* The query fails, or a row of the page cannot be mapped to a record: the  *)
(* whole page is a storage error, and the reader gives up.                  *)
list_fails ==
    /\ walk.at \in {"page", "count"}
    /\ walk' = NoWalk
    /\ UNCHANGED <<rows, before>>

walk_is_over ==
    /\ walk.at = "ended"
    /\ walk' = NoWalk
    /\ UNCHANGED <<rows, before>>

QueryNext ==
    \/ \E i \in Tasks, q \in Queues : submission_commits(i, q)
    \/ \E i \in DOMAIN rows : progress(i)
    \/ walk_begins
    \/ list_tasks
    \/ count_tasks
    \/ list_fails
    \/ walk_is_over

QuerySpec == QueryInit /\ [][QueryNext]_queryVars

-----------------------------------------------------------------------------
(* Properties *)

(* Types; a page or a count is only asked for in a walk with a filter, and  *)
(* the count never for the first page.                                      *)
QueryTypeOK ==
    /\ DOMAIN rows \subseteq Tasks
    /\ before \subseteq (DOMAIN rows) \X (DOMAIN rows)
    /\ \A i \in DOMAIN rows : rows[i] \in [queue : Queues, status : Statuses]
    /\ walk \in Walk
    /\ walk.at = "idle" <=> walk.filter = NULL
    /\ walk.at = "count" => walk.offset > 0

(* Pages cut from different snapshots lose nothing: under a filter a task   *)
(* does not stop to match, a reader that got to the end of the total saw    *)
(* every task that was there when it began, however many were submitted,    *)
(* and committed late, in between (ORDER BY created_at, id: late rows only  *)
(* move others behind the next page).  The exception is the capped offset:  *)
(* tasks beyond it are never shown.                                         *)
WalkMissesNothing ==
    walk.at = "ended" /\ Lasting(walk.filter) =>
        \A i \in walk.due :
            /\ i \in Listing(walk.filter)
            /\ Place(walk.filter, i) > MAX_PAGINATION_OFFSET + Limit
=============================================================================
