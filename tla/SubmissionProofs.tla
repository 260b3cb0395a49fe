-------------------------- MODULE SubmissionProofs --------------------------
(* What the statement sequences of a submission guarantee, for any number   *)
(* of connections, tasks, queues and keys.                                  *)
EXTENDS Submission, AdmissionProofs, FiniteSetTheorems

-----------------------------------------------------------------------------
(* Types *)

(* A table of rows: the committed one, or the rows of a transaction. *)
Tables == UNION {[S -> SubRow] : S \in SUBSET Tasks}

Conn ==
    [tx : {"none", "engine", "caller"}, aborted : BOOLEAN, mine : Tables,
     call : Call \cup {NULL}]

SubTypes ==
    /\ rows \in Tables
    /\ conn \in [Clients -> Conn]
    /\ reply \in Reply \cup {NULL}

(* The table without rows. *)
LEMMA EmptyTable == << >> \in Tables /\ DOMAIN << >> = {}
<1>1. << >> \in [{} -> SubRow]
  OBVIOUS
<1> QED
  BY <1>1 DEF Tables

(* What a table is. *)
LEMMA TableFacts ==
    ASSUME NEW T \in Tables
    PROVE  /\ DOMAIN T \subseteq Tasks
           /\ \A i \in DOMAIN T : T[i] \in SubRow
           /\ T = [i \in DOMAIN T |-> T[i]]
BY DEF Tables

(* What makes a table. *)
LEMMA TableMade ==
    ASSUME NEW T, T = [i \in DOMAIN T |-> T[i]], DOMAIN T \subseteq Tasks,
           \A i \in DOMAIN T : T[i] \in SubRow
    PROVE  T \in Tables
<1>1. T \in [DOMAIN T -> SubRow]
  OBVIOUS
<1> QED
  BY <1>1 DEF Tables

(* A connection without a transaction is well typed. *)
LEMMA IdleType == Idle \in Conn
BY EmptyTable DEF Idle, Conn

(* The statuses of a row, and the edges between them. *)
LEMMA StatusSet ==
    Statuses = {"pending", "running", "cancelled", "completed", "failed", "suspended"}
BY DEF Statuses, Life!Edges

(* A call that gets past the checks comes from a workable request. *)
LEMMA AdmittedWorkable ==
    ASSUME NEW transactional \in BOOLEAN, NEW s \in Admitted(transactional)
    PROVE  s.key \in StoredKeys /\ s.workable = TRUE /\ s.authorized \in BOOLEAN
<1>1. PICK p \in EntryPoints \X Request :
           /\ p[2].key # BadKey /\ Admits(p[1], p[2])
           /\ s = [key |-> p[2].key, workable |-> Workable(p[2]),
                   authorized |-> validate_region_authorization(p[2])]
  BY DEF Admitted
<1>2. Workable(p[2])
  BY <1>1, AdmissionIsSound DEF AdmissionSound
<1>3. Workable(p[2]) \in BOOLEAN /\ validate_region_authorization(p[2]) \in BOOLEAN
  BY DEF Workable, validate_region_authorization
<1>4. p[2].key \in StoredKeys
  BY <1>1 DEF Request, StoredKeys
<1> QED
  BY <1>1, <1>2, <1>3, <1>4

(* A new call has its type, and is at its INSERT. *)
LEMMA NewCallType ==
    ASSUME NEW transactional \in BOOLEAN, NEW s \in Admitted(transactional),
           NEW q \in Queues
    PROVE  /\ NewCall(q, s) \in Call
           /\ NewCall(q, s).at = "insert" /\ NewCall(q, s).workable = TRUE
BY AdmittedWorkable DEF NewCall, Call

(* The table a commit leaves. *)
LEMMA CommittedTable ==
    ASSUME SubTypes, NEW c \in Clients, Committed(c)
    PROVE  /\ rows' \in Tables
           /\ DOMAIN rows' = Present \cup Mine(c)
           /\ \A i \in Mine(c) : rows'[i] = conn[c].mine[i]
           /\ \A i \in Present \ Mine(c) : rows'[i] = rows[i]
<1>1. conn[c].mine \in Tables
  BY DEF SubTypes, Conn
<1>2. /\ Present \cup Mine(c) \subseteq Tasks
      /\ \A i \in Present : rows[i] \in SubRow
      /\ \A i \in Mine(c) : conn[c].mine[i] \in SubRow
  BY <1>1, TableFacts DEF SubTypes, Present, Mine
<1>3. /\ DOMAIN rows' = Present \cup Mine(c)
      /\ \A i \in Mine(c) : rows'[i] = conn[c].mine[i]
      /\ \A i \in Present \ Mine(c) : rows'[i] = rows[i]
      /\ rows' = [i \in DOMAIN rows' |-> rows'[i]]
  BY DEF Committed
<1>4. \A i \in DOMAIN rows' : rows'[i] \in SubRow
  BY <1>2, <1>3
<1>5. rows' \in Tables
  BY <1>2, <1>3, <1>4, TableMade
<1> QED
  BY <1>3, <1>5

(* The rows of the table are the ones before, each as it was, one step on   *)
(* in its life, or finished and without its key.                            *)
RowsMove ==
    /\ rows' \in Tables /\ DOMAIN rows' = Present
    /\ \A i \in Present :
         /\ rows'[i].queue = rows[i].queue /\ rows'[i].workable = rows[i].workable
         /\ Live(rows'[i]) => Live(rows[i]) /\ rows'[i].key = rows[i].key
         /\ rows'[i].key \in {rows[i].key, NULL}

(* The work on a task moves its status along an edge ... *)
LEMMA ProgressMoves ==
    ASSUME SubTypes, NEW i \in Present, progress(i)
    PROVE  RowsMove
<1>1. PICK e \in Life!Edges :
           rows[i].status = e[1] /\ rows' = [rows EXCEPT ![i].status = e[2]]
  BY DEF progress
<1>2. e[1] \notin Terminal /\ e[2] \in Statuses
  BY DEF Life!Edges, Terminal, Statuses
<1>3. rows = [j \in Present |-> rows[j]] /\ Present \subseteq Tasks
      /\ \A j \in Present : rows[j] \in SubRow
  BY TableFacts DEF SubTypes, Present
<1>4. /\ DOMAIN rows' = Present /\ rows' = [j \in DOMAIN rows' |-> rows'[j]]
      /\ rows'[i] = [rows[i] EXCEPT !.status = e[2]]
      /\ \A j \in Present \ {i} : rows'[j] = rows[j]
  BY <1>1, <1>3
<1>5. rows'[i] \in SubRow
  BY <1>2, <1>3, <1>4 DEF SubRow
<1>6. rows' \in Tables
  BY <1>3, <1>4, <1>5, TableMade
<1>7. /\ rows'[i].queue = rows[i].queue /\ rows'[i].workable = rows[i].workable
      /\ rows'[i].key = rows[i].key
  BY <1>3, <1>4 DEF SubRow
<1>8. Live(rows[i])
  BY <1>1, <1>2 DEF Live
<1> QED
  BY <1>4, <1>6, <1>7, <1>8 DEF RowsMove

(* ... and the cleanup takes keys from finished rows only. *)
LEMMA CleanupMoves ==
    ASSUME SubTypes, cleanup_expired_idempotency_keys
    PROVE  RowsMove
<1>1. PICK S \in SUBSET {i \in Present : ~Live(rows[i]) /\ rows[i].key # NULL} :
           rows' = [i \in Present |-> IF i \in S THEN [rows[i] EXCEPT !.key = NULL] ELSE rows[i]]
  BY DEF cleanup_expired_idempotency_keys
<1>2. Present \subseteq Tasks /\ \A j \in Present : rows[j] \in SubRow
  BY TableFacts DEF SubTypes, Present
<1>3. /\ DOMAIN rows' = Present /\ rows' = [j \in DOMAIN rows' |-> rows'[j]]
      /\ \A i \in Present : rows'[i] = IF i \in S THEN [rows[i] EXCEPT !.key = NULL] ELSE rows[i]
  BY <1>1
<1>4. \A i \in Present : rows'[i] \in SubRow
  BY <1>2, <1>3 DEF SubRow, StoredKeys
<1>5. rows' \in Tables
  BY <1>2, <1>3, <1>4, TableMade
<1>6. \A i \in Present :
         /\ rows'[i].queue = rows[i].queue /\ rows'[i].workable = rows[i].workable
         /\ rows'[i].status = rows[i].status
         /\ i \in S => rows'[i].key = NULL
         /\ i \notin S => rows'[i].key = rows[i].key
  BY <1>2, <1>3 DEF SubRow
<1>7. \A i \in S : ~Live(rows[i])
  BY <1>1
<1> QED
  BY <1>3, <1>5, <1>6, <1>7 DEF RowsMove, Live

-----------------------------------------------------------------------------
(* The inductive invariant *)

(* A connection k: idle without a transaction; only the engine's            *)
(* transaction commits by itself, and it has inserted nothing before; what  *)
(* it has inserted is pending, and comes from requests to admit.            *)
Sane(k) ==
    /\ k.tx = "none" => k = Idle
    /\ k.call # NULL =>
         /\ k.call.workable = TRUE
         /\ k.call.at = "commit" => k.tx = "engine"
         /\ k.tx = "engine" /\ k.call.at # "commit" => DOMAIN k.mine = {}
    /\ \A i \in DOMAIN k.mine : k.mine[i].status = "pending" /\ k.mine[i].workable = TRUE

(* An engine's call at its SELECT ran into a row of the table T, which has  *)
(* its queue and key as long as it is live.                                 *)
HolderKnown(k, T) ==
    k.call # NULL /\ k.call.at = "select" /\ k.tx = "engine" =>
        /\ k.call.holder \in DOMAIN T /\ k.call.key # NULL
        /\ Live(T[k.call.holder]) =>
             /\ T[k.call.holder].queue = k.call.queue
             /\ T[k.call.holder].key = k.call.key

(* No id is used twice. *)
IdsApart ==
    \A c \in Clients :
        /\ Mine(c) \cap Present = {}
        /\ \A d \in Clients \ {c} : Mine(c) \cap Mine(d) = {}

(* Rows r and s compete for a key. *)
Compete(r, s) ==
    Live(r) /\ Live(s) /\ r.key # NULL /\ r.key = s.key /\ r.queue = s.queue

(* No two rows compete, wherever they are. *)
KeysApart ==
    /\ \A i, j \in Present : Compete(rows[i], rows[j]) => i = j
    /\ \A c \in Clients : \A j \in Mine(c) :
         /\ \A i \in Present : ~Compete(rows[i], conn[c].mine[j])
         /\ \A d \in Clients : \A i \in Mine(d) :
              Compete(conn[d].mine[i], conn[c].mine[j]) => i = j

SubInv ==
    /\ SubTypes
    /\ \A i \in Present : rows[i].workable = TRUE
    /\ \A c \in Clients : Sane(conn[c]) /\ HolderKnown(conn[c], rows)
    /\ IdsApart
    /\ KeysApart

-----------------------------------------------------------------------------
(* Steps of one connection *)

(* The connection inserts row i: no row anywhere has its key. *)
Inserts(c, i) ==
    /\ i \in Tasks /\ i \notin Present \cup Uncommitted
    /\ DOMAIN conn'[c].mine = Mine(c) \cup {i}
    /\ \A j \in Mine(c) : conn'[c].mine[j] = conn[c].mine[j]
    /\ \A j \in Present : ~Compete(rows[j], conn'[c].mine[i])
    /\ \A d \in Clients : \A j \in Mine(d) : ~Compete(conn[d].mine[j], conn'[c].mine[i])

(* A step that changes connection c and no row of the table. *)
ConnStep(c) ==
    /\ UNCHANGED rows
    /\ conn' = [conn EXCEPT ![c] = conn'[c]]
    /\ conn'[c] \in Conn /\ Sane(conn'[c]) /\ HolderKnown(conn'[c], rows)
    /\ \/ conn'[c].mine = conn[c].mine
       \/ DOMAIN conn'[c].mine = {}
       \/ \E i \in Tasks : Inserts(c, i)

CommitStep(c) == Committed(c) /\ conn' = [conn EXCEPT ![c] = Idle]

(* What is known of connection c. *)
LEMMA ConnFacts ==
    ASSUME SubInv, NEW c \in Clients
    PROVE  /\ conn[c] \in Conn /\ Sane(conn[c]) /\ HolderKnown(conn[c], rows)
           /\ conn[c].mine \in Tables
           /\ conn[c].call = NULL \/ conn[c].call \in Call
BY DEF SubInv, SubTypes, Conn

(* The idle connection is as it should be. *)
LEMMA IdleSane == Idle \in Conn /\ Sane(Idle) /\ HolderKnown(Idle, rows)
BY IdleType, EmptyTable DEF Sane, HolderKnown, Idle

(* A transaction that ends without a trace. *)
LEMMA BecomesIdle ==
    ASSUME SubInv, NEW c \in Clients, conn' = [conn EXCEPT ![c] = Idle], UNCHANGED rows
    PROVE  ConnStep(c)
<1>1. conn'[c] = Idle
  BY DEF SubInv, SubTypes
<1>2. conn'[c] \in Conn /\ Sane(conn'[c]) /\ HolderKnown(conn'[c], rows)
  BY <1>1, IdleSane
<1>3. DOMAIN conn'[c].mine = {}
  BY <1>1, EmptyTable DEF Idle
<1> QED
  BY <1>1, <1>2, <1>3 DEF ConnStep

(* A call begins, on a connection that makes none. *)
LEMMA CallBegins ==
    ASSUME SubInv, NEW c \in Clients, NEW q \in Queues, NEW transactional \in BOOLEAN,
           NEW s \in Admitted(transactional), UNCHANGED rows,
           \/ conn[c] = Idle /\ conn' = [conn EXCEPT ![c].tx = "engine", ![c].call = NewCall(q, s)]
           \/ conn[c].tx = "caller" /\ conn' = [conn EXCEPT ![c].call = NewCall(q, s)]
    PROVE  ConnStep(c)
<1> DEFINE n == NewCall(q, s)
<1>1. n \in Call /\ n.at = "insert" /\ n.workable = TRUE
  BY NewCallType
<1> HIDE DEF n
<1>2. conn[c] \in Conn /\ Sane(conn[c])
  BY ConnFacts
<1>3. PICK t \in {"engine", "caller"} :
           /\ conn'[c] = [conn[c] EXCEPT !.tx = t, !.call = n]
           /\ t = "engine" => DOMAIN conn[c].mine = {}
  <2>1. CASE conn[c] = Idle /\ conn' = [conn EXCEPT ![c].tx = "engine", ![c].call = n]
    BY <2>1, EmptyTable DEF SubInv, SubTypes, Idle
  <2>2. CASE conn[c].tx = "caller" /\ conn' = [conn EXCEPT ![c].call = n]
    BY <1>2, <2>2 DEF SubInv, SubTypes, Conn
  <2> QED
    BY <2>1, <2>2 DEF n
<1>4. /\ conn'[c] \in Conn /\ conn'[c].mine = conn[c].mine
      /\ conn'[c].tx = t /\ conn'[c].call = n
  BY <1>1, <1>2, <1>3 DEF Conn
<1>5. Sane(conn'[c]) /\ HolderKnown(conn'[c], rows)
  BY <1>1, <1>2, <1>3, <1>4 DEF Sane, HolderKnown
<1>6. conn' = [conn EXCEPT ![c] = conn'[c]]
  BY DEF SubInv, SubTypes
<1> QED
  BY <1>4, <1>5, <1>6 DEF ConnStep

(* The INSERT writes the call's row: nobody has its key. *)
LEMMA InsertIsConnStep ==
    ASSUME SubInv, NEW c \in Clients, NEW i \in Tasks, insert_row(c, i)
    PROVE  ConnStep(c)
<1> DEFINE call == conn[c].call
           row == [status |-> "pending", queue |-> call.queue, key |-> call.key,
                   workable |-> call.workable, authorized |-> call.authorized]
           next == IF conn[c].tx = "caller" THEN NULL ELSE [call EXCEPT !.at = "commit"]
           mine == [j \in Mine(c) \cup {i} |-> IF j = i THEN row ELSE conn[c].mine[j]]
<1>1. /\ conn[c] \in Conn /\ Sane(conn[c]) /\ conn[c].mine \in Tables
      /\ call # NULL /\ call \in Call /\ call.at = "insert"
  BY ConnFacts DEF insert_row, Decidable, At
<1>2. row \in SubRow /\ row.workable = TRUE /\ row.status = "pending"
      /\ row.queue = call.queue /\ row.key = call.key
  BY <1>1, StatusSet DEF Call, SubRow, Sane
<1>3. next = NULL \/ (next \in Call /\ next.at = "commit" /\ next.workable = TRUE)
  BY <1>1 DEF Call, Sane
<1>4. conn[c].tx = "caller" => next = NULL
  OBVIOUS
<1>5. conn[c].tx \in {"engine", "caller"}
  BY <1>1 DEF Conn, Sane, Idle
<1>6. /\ UNCHANGED rows /\ i \notin Present \cup Uncommitted
      /\ Decidable(c) /\ InTheWay(c) = {}
      /\ conn' = [conn EXCEPT ![c] = [conn[c] EXCEPT !.mine = mine, !.call = next]]
  BY <1>1 DEF insert_row, SubInv, SubTypes, Conn, Mine
<1>7. /\ DOMAIN mine = Mine(c) \cup {i} /\ mine[i] = row
      /\ \A j \in Mine(c) : mine[j] = conn[c].mine[j]
      /\ mine = [j \in DOMAIN mine |-> mine[j]]
  BY <1>6 DEF Uncommitted
<1> HIDE DEF row, next, mine
<1>8. mine \in Tables
  <2>1. Mine(c) \subseteq Tasks /\ \A j \in Mine(c) : conn[c].mine[j] \in SubRow
    BY <1>1, TableFacts DEF Mine
  <2>2. DOMAIN mine \subseteq Tasks
    BY <1>7, <2>1
  <2>3. \A j \in DOMAIN mine : mine[j] \in SubRow
    BY <1>2, <1>7, <2>1
  <2> QED
    BY <1>7, <2>2, <2>3, TableMade
<1>9. /\ conn'[c] \in Conn /\ conn'[c].mine = mine /\ conn'[c].call = next
      /\ conn'[c].tx = conn[c].tx
      /\ conn' = [conn EXCEPT ![c] = conn'[c]]
  BY <1>1, <1>3, <1>6, <1>8 DEF SubInv, SubTypes, Conn
<1>10. Sane(conn'[c])
  <2>1. \A j \in DOMAIN mine : mine[j].status = "pending" /\ mine[j].workable = TRUE
    BY <1>1, <1>2, <1>7 DEF Sane, Mine
  <2> QED
    BY <1>3, <1>4, <1>5, <1>9, <2>1 DEF Sane
<1>11. HolderKnown(conn'[c], rows)
  BY <1>3, <1>9 DEF HolderKnown
<1>12. Inserts(c, i)
  <2>1. \A j \in Present : ~Compete(rows[j], row)
    BY <1>2, <1>6 DEF InTheWay, Holders, Present, Compete
  <2>2. ASSUME NEW d \in Clients, NEW j \in Mine(d)
        PROVE  ~Compete(conn[d].mine[j], row)
    <3>1. CASE d = c
      BY <1>2, <1>6, <3>1 DEF InTheWay, Holders, Mine, Compete
    <3>2. CASE d # c
      <4>1. call.key # NULL => Holders(conn[d].mine, call.queue, call.key) = {}
        BY <1>6, <3>2 DEF Decidable, KeyInDoubt
      <4> QED
        BY <1>2, <4>1 DEF Holders, Mine, Compete
    <3> QED
      BY <3>1, <3>2
  <2> QED
    BY <1>6, <1>7, <1>9, <2>1, <2>2 DEF Inserts
<1> QED
  BY <1>6, <1>9, <1>10, <1>11, <1>12 DEF ConnStep

(* The INSERT does nothing; the call remembers the row in its way. *)
LEMMA ConflictIsConnStep ==
    ASSUME SubInv, NEW c \in Clients, insert_conflict(c)
    PROVE  ConnStep(c)
<1> DEFINE call == conn[c].call
<1>1. /\ conn[c] \in Conn /\ Sane(conn[c]) /\ conn[c].mine \in Tables
      /\ call # NULL /\ call \in Call /\ call.at = "insert"
  BY ConnFacts DEF insert_conflict, Decidable, At
<1>2. PICK h \in InTheWay(c) :
           conn' = [conn EXCEPT ![c].call.at = "select", ![c].call.holder = h]
  BY DEF insert_conflict
<1>3. /\ call.key # NULL
      /\ \/ h \in DOMAIN rows /\ rows[h].queue = call.queue /\ rows[h].key = call.key
         \/ h \in Mine(c)
  BY DEF InTheWay, Holders, Mine
<1>4. h \in Tasks
  BY <1>1, <1>3, TableFacts DEF SubInv, SubTypes, Mine
<1> DEFINE next == [call EXCEPT !.at = "select", !.holder = h]
<1>5. /\ next \in Call /\ next.at = "select" /\ next.holder = h
      /\ next.workable = call.workable /\ next.key = call.key /\ next.queue = call.queue
  BY <1>1, <1>4 DEF Call
<1> HIDE DEF next
<1>6. /\ conn'[c] \in Conn /\ conn'[c].mine = conn[c].mine /\ conn'[c].call = next
      /\ conn'[c].tx = conn[c].tx
      /\ conn' = [conn EXCEPT ![c] = conn'[c]]
  BY <1>1, <1>2, <1>5 DEF SubInv, SubTypes, Conn, next
<1>7. conn[c].tx # "none"
  BY <1>1 DEF Sane, Idle
<1>8. Sane(conn'[c])
  BY <1>1, <1>5, <1>6, <1>7 DEF Sane
<1>9. conn[c].tx = "engine" => Mine(c) = {}
  BY <1>1 DEF Sane, Mine
<1>10. HolderKnown(conn'[c], rows)
  BY <1>3, <1>5, <1>6, <1>9 DEF HolderKnown
<1>11. UNCHANGED rows
  BY DEF insert_conflict
<1> QED
  BY <1>6, <1>8, <1>10, <1>11 DEF ConnStep

(* A call returns and leaves the caller's transaction open. *)
LEMMA ReturnIsConnStep ==
    ASSUME SubInv, NEW c \in Clients, conn[c].tx = "caller", UNCHANGED rows,
           \/ conn' = [conn EXCEPT ![c] = [@ EXCEPT !.call = NULL]]
           \/ conn' = [conn EXCEPT ![c] = [Idle EXCEPT !.tx = "caller", !.aborted = TRUE]]
    PROVE  ConnStep(c)
<1>1. conn[c] \in Conn /\ Sane(conn[c])
  BY ConnFacts
<1>2. conn' = [conn EXCEPT ![c] = conn'[c]]
  BY DEF SubInv, SubTypes
<1>3. CASE conn' = [conn EXCEPT ![c] = [@ EXCEPT !.call = NULL]]
  <2>1. /\ conn'[c] \in Conn /\ conn'[c].call = NULL /\ conn'[c].mine = conn[c].mine
        /\ conn'[c].tx = "caller"
    BY <1>1, <1>3 DEF SubInv, SubTypes, Conn
  <2>2. Sane(conn'[c]) /\ HolderKnown(conn'[c], rows)
    BY <1>1, <2>1 DEF Sane, HolderKnown
  <2> QED
    BY <1>2, <2>1, <2>2 DEF ConnStep
<1>4. CASE conn' = [conn EXCEPT ![c] = [Idle EXCEPT !.tx = "caller", !.aborted = TRUE]]
  <2>1. /\ conn'[c] \in Conn /\ conn'[c].call = NULL /\ DOMAIN conn'[c].mine = {}
        /\ conn'[c].tx = "caller"
    BY <1>4, EmptyTable DEF SubInv, SubTypes, Conn, Idle
  <2>2. Sane(conn'[c]) /\ HolderKnown(conn'[c], rows)
    BY <2>1 DEF Sane, HolderKnown
  <2> QED
    BY <1>2, <2>1, <2>2 DEF ConnStep
<1> QED
  BY <1>3, <1>4

-----------------------------------------------------------------------------
(* The cases of a step *)

(* An answer is an answer, and a conflict names a finished task. *)
AnswerOK ==
    /\ reply \in Reply \cup {NULL}
    /\ reply # NULL /\ reply.is = "conflict" =>
         reply.holder \in Present /\ ~Live(rows[reply.holder])

(* The SELECT's answer.  When it finds no row, the holder that the call     *)
(* remembers is not live any more.                                          *)
LEMMA SelectAnswers ==
    ASSUME SubInv, NEW c \in Clients, select_existing(c)
    PROVE  ConnStep(c) /\ AnswerOK'
<1> DEFINE call == conn[c].call
<1>1. /\ conn[c] \in Conn /\ Sane(conn[c]) /\ HolderKnown(conn[c], rows)
      /\ conn[c].mine \in Tables
      /\ call # NULL /\ call \in Call /\ call.at = "select"
  BY ConnFacts DEF select_existing, At
<1>2. conn[c].tx \in {"engine", "caller"}
  BY <1>1 DEF Conn, Sane, Idle
<1>3. ConnStep(c)
  <2>1. CASE conn[c].tx = "caller"
    BY <2>1, ReturnIsConnStep DEF select_existing
  <2>2. CASE conn[c].tx # "caller"
    BY <2>2, BecomesIdle DEF select_existing
  <2> QED
    BY <2>1, <2>2
<1>4. CASE \E h \in InTheWay(c) : reply' = [is |-> "duplicate", task |-> h]
  <2>1. InTheWay(c) \subseteq Tasks
    BY <1>1, TableFacts DEF InTheWay, Holders, SubInv, SubTypes
  <2> QED
    BY <1>3, <1>4, <2>1 DEF AnswerOK, Reply
<1>5. CASE /\ InTheWay(c) = {}
           /\ reply' = IF conn[c].tx = "caller" THEN [is |-> "storage"]
                       ELSE [is |-> "conflict", holder |-> call.holder]
  <2>1. CASE conn[c].tx = "caller"
    BY <1>3, <1>5, <2>1 DEF AnswerOK, Reply
  <2>2. CASE conn[c].tx = "engine"
    <3>1. call.holder \in Present /\ call.key # NULL
      BY <1>1, <2>2 DEF HolderKnown, Present
    <3>2. ~Live(rows[call.holder])
      BY <1>1, <1>5, <2>2, <3>1 DEF HolderKnown, InTheWay, Holders, Present
    <3>3. call.holder \in Tasks
      BY <3>1, TableFacts DEF SubInv, SubTypes, Present
    <3>4. reply' = [is |-> "conflict", holder |-> call.holder] /\ rows' = rows
      BY <1>3, <1>5, <2>2 DEF ConnStep
    <3> QED
      BY <1>3, <3>1, <3>2, <3>3, <3>4 DEF AnswerOK, Reply, Present
  <2> QED
    BY <1>2, <2>1, <2>2
<1> QED
  BY <1>4, <1>5 DEF select_existing

(* Every step changes one connection and no row, commits the rows of one,   *)
(* or moves committed rows on.                                              *)
LEMMA SubStepCases ==
    ASSUME SubInv, SubNext
    PROVE  /\ \/ \E c \in Clients : ConnStep(c) \/ CommitStep(c)
              \/ RowsMove /\ UNCHANGED conn
           /\ AnswerOK'
<1>1. ASSUME NEW c \in Clients, reject(c)
      PROVE  ConnStep(c) /\ AnswerOK'
  <2>1. ConnStep(c)
    BY <1>1, ConnFacts DEF reject, ConnStep, SubInv, SubTypes
  <2> QED
    BY <1>1, <2>1 DEF reject, AnswerOK, Reply
<1>2. ASSUME NEW c \in Clients, begin_on_pool(c)
      PROVE  ConnStep(c) /\ AnswerOK'
  <2>1. PICK q \in Queues, s \in Admitted(FALSE) :
             conn' = [conn EXCEPT ![c].tx = "engine", ![c].call = NewCall(q, s)]
    BY <1>2 DEF begin_on_pool, AdmittedOnPool
  <2>2. ConnStep(c)
    BY <1>2, <2>1, CallBegins DEF begin_on_pool
  <2> QED
    BY <1>2, <2>2 DEF begin_on_pool, AnswerOK
<1>3. ASSUME NEW c \in Clients, begin_caller(c)
      PROVE  ConnStep(c) /\ AnswerOK'
  <2>1. conn[c] = Idle /\ conn' = [conn EXCEPT ![c] = [Idle EXCEPT !.tx = "caller"]]
    BY <1>3 DEF begin_caller
  <2>2. /\ conn'[c] \in Conn /\ conn'[c].call = NULL /\ DOMAIN conn'[c].mine = {}
        /\ conn'[c].tx = "caller" /\ conn' = [conn EXCEPT ![c] = conn'[c]]
    BY <2>1, EmptyTable DEF SubInv, SubTypes, Conn, Idle
  <2>3. Sane(conn'[c]) /\ HolderKnown(conn'[c], rows)
    BY <2>2 DEF Sane, HolderKnown
  <2> QED
    BY <1>3, <2>2, <2>3 DEF begin_caller, AnswerOK, ConnStep
<1>4. ASSUME NEW c \in Clients, call_in_tx(c)
      PROVE  ConnStep(c) /\ AnswerOK'
  <2>1. PICK q \in Queues, s \in Admitted(TRUE) :
             conn' = [conn EXCEPT ![c].call = NewCall(q, s)]
    BY <1>4 DEF call_in_tx, AdmittedInTx
  <2>2. ConnStep(c)
    BY <1>4, <2>1, CallBegins DEF call_in_tx
  <2> QED
    BY <1>4, <2>2 DEF call_in_tx, AnswerOK
<1>5. ASSUME NEW c \in Clients, NEW i \in Tasks, insert_row(c, i)
      PROVE  ConnStep(c) /\ AnswerOK'
  <2>1. reply' = NULL \/ reply' = [is |-> "created", task |-> i]
    BY <1>5 DEF insert_row
  <2> QED
    BY <1>5, <2>1, InsertIsConnStep DEF AnswerOK, Reply
<1>6. ASSUME NEW c \in Clients, insert_conflict(c)
      PROVE  ConnStep(c) /\ AnswerOK'
  BY <1>6, ConflictIsConnStep DEF insert_conflict, AnswerOK
<1>7. ASSUME NEW c \in Clients, select_existing(c)
      PROVE  ConnStep(c) /\ AnswerOK'
  BY <1>7, SelectAnswers
<1>8. ASSUME NEW c \in Clients, commit_on_pool(c)
      PROVE  CommitStep(c) /\ AnswerOK'
  <2>1. Mine(c) \subseteq Tasks
    BY ConnFacts, TableFacts DEF Mine
  <2> QED
    BY <1>8, <2>1 DEF commit_on_pool, CommitStep, AnswerOK, Reply
<1>9. ASSUME NEW c \in Clients, statement_fails(c)
      PROVE  ConnStep(c) /\ AnswerOK'
  <2>1. CASE conn' = [conn EXCEPT ![c] = Idle]
    BY <1>9, <2>1, BecomesIdle DEF statement_fails, AnswerOK, Reply
  <2>2. CASE conn[c].tx = "caller" /\
             conn' = [conn EXCEPT ![c] = [Idle EXCEPT !.tx = "caller", !.aborted = TRUE]]
    BY <1>9, <2>2, ReturnIsConnStep DEF statement_fails, AnswerOK, Reply
  <2> QED
    BY <1>9, <2>1, <2>2 DEF statement_fails
<1>10. ASSUME NEW c \in Clients, caller_commits(c)
       PROVE  CommitStep(c) /\ AnswerOK'
  BY <1>10 DEF caller_commits, CommitStep, AnswerOK
<1>11. ASSUME NEW c \in Clients, caller_rolls_back(c)
       PROVE  ConnStep(c) /\ AnswerOK'
  BY <1>11, BecomesIdle DEF caller_rolls_back, AnswerOK
<1>12. ASSUME NEW i \in Present, progress(i)
       PROVE  RowsMove /\ UNCHANGED conn /\ AnswerOK'
  BY <1>12, ProgressMoves DEF SubInv, progress, AnswerOK
<1>13. ASSUME cleanup_expired_idempotency_keys
       PROVE  RowsMove /\ UNCHANGED conn /\ AnswerOK'
  BY <1>13, CleanupMoves DEF SubInv, cleanup_expired_idempotency_keys, AnswerOK
<1> QED
  BY <1>1, <1>2, <1>3, <1>4, <1>5, <1>6, <1>7, <1>8, <1>9, <1>10, <1>11, <1>12, <1>13
  DEF SubNext

-----------------------------------------------------------------------------
(* The invariant is kept *)

(* A step of one connection keeps ids and keys apart: its rows are as       *)
(* before, gone, or as before with one that nobody competes with.           *)
LEMMA ConnStepKeeps ==
    ASSUME SubInv, NEW c \in Clients, ConnStep(c), AnswerOK'
    PROVE  SubInv'
<1>1. /\ rows' = rows /\ Present' = Present
      /\ conn' = [conn EXCEPT ![c] = conn'[c]]
      /\ conn'[c] \in Conn /\ Sane(conn'[c]) /\ HolderKnown(conn'[c], rows)
  BY DEF ConnStep, Present
<1>2. \A d \in Clients \ {c} : conn'[d] = conn[d] /\ Mine(d)' = Mine(d)
  BY <1>1 DEF SubInv, SubTypes, Mine
<1>3. SubTypes'
  BY <1>1 DEF SubInv, SubTypes, AnswerOK
<1>4. \A d \in Clients : Sane(conn'[d]) /\ HolderKnown(conn'[d], rows')
  BY <1>1, <1>2 DEF SubInv
<1>5. Mine(c)' = DOMAIN conn'[c].mine
  BY DEF Mine
<1>6. CASE /\ Mine(c)' \subseteq Mine(c)
           /\ \A j \in Mine(c)' : conn'[c].mine[j] = conn[c].mine[j]
  <2>1. /\ \A d \in Clients : Mine(d)' \subseteq Mine(d)
        /\ \A d \in Clients : \A j \in Mine(d)' : conn'[d].mine[j] = conn[d].mine[j]
    BY <1>2, <1>6
  <2>2. IdsApart'
    BY <1>1, <2>1 DEF SubInv, IdsApart
  <2>3. KeysApart'
    BY <1>1, <2>1 DEF SubInv, KeysApart
  <2> QED
    BY <1>1, <1>3, <1>4, <2>2, <2>3 DEF SubInv
<1>7. CASE \E i \in Tasks : Inserts(c, i)
  <2>1. PICK i \in Tasks : Inserts(c, i)
    BY <1>7
  <2>2. /\ i \notin Present /\ \A d \in Clients : i \notin Mine(d)
        /\ Mine(c)' = Mine(c) \cup {i}
        /\ \A j \in Mine(c) : conn'[c].mine[j] = conn[c].mine[j]
        /\ \A j \in Present : ~Compete(rows[j], conn'[c].mine[i])
        /\ \A d \in Clients : \A j \in Mine(d) : ~Compete(conn[d].mine[j], conn'[c].mine[i])
    BY <1>5, <2>1 DEF Inserts, Uncommitted
  <2>3. IdsApart'
    BY <1>1, <1>2, <2>2 DEF SubInv, IdsApart
  <2>4. \A r, s : Compete(r, s) => Compete(s, r)
    BY DEF Compete
  <2>5. \A d \in Clients : \A j \in Mine(d)' :
           \/ j = i /\ d = c
           \/ j \in Mine(d) /\ conn'[d].mine[j] = conn[d].mine[j]
    BY <1>2, <2>2
  <2>6. ASSUME NEW d \in Clients, NEW j \in Mine(d)', NEW m \in Present
        PROVE  ~Compete(rows[m], conn'[d].mine[j])
    BY <2>2, <2>5 DEF SubInv, KeysApart
  <2>7. ASSUME NEW d \in Clients, NEW j \in Mine(d)', NEW f \in Clients, NEW m \in Mine(f)',
               Compete(conn'[f].mine[m], conn'[d].mine[j])
        PROVE  m = j
    <3>1. CASE j = i /\ d = c
      BY <2>2, <2>5, <2>7, <3>1
    <3>2. CASE m = i /\ f = c
      BY <2>2, <2>4, <2>5, <2>7, <3>2
    <3>3. CASE /\ j \in Mine(d) /\ conn'[d].mine[j] = conn[d].mine[j]
               /\ m \in Mine(f) /\ conn'[f].mine[m] = conn[f].mine[m]
      BY <2>7, <3>3 DEF SubInv, KeysApart
    <3> QED
      BY <2>5, <3>1, <3>2, <3>3
  <2>8. KeysApart'
    BY <1>1, <2>6, <2>7 DEF SubInv, KeysApart
  <2> QED
    BY <1>1, <1>3, <1>4, <2>3, <2>8 DEF SubInv
<1> QED
  BY <1>5, <1>6, <1>7 DEF ConnStep, Mine

(* A commit moves rows from a transaction to the table. *)
LEMMA CommitStepKeeps ==
    ASSUME SubInv, NEW c \in Clients, CommitStep(c), AnswerOK'
    PROVE  SubInv'
<1>1. conn' = [conn EXCEPT ![c] = Idle] /\ conn \in [Clients -> Conn] /\ SubTypes
  BY DEF CommitStep, SubInv, SubTypes
<1>2. /\ rows' \in Tables
      /\ Present' = Present \cup Mine(c)
      /\ \A i \in Mine(c) : rows'[i] = conn[c].mine[i]
      /\ \A i \in Present \ Mine(c) : rows'[i] = rows[i]
  BY <1>1, CommittedTable DEF CommitStep, Present
<1>3. Mine(c) \cap Present = {}
  BY DEF SubInv, IdsApart
<1>4. \A i \in Present : rows'[i] = rows[i]
  BY <1>2, <1>3
<1>5. \A d \in Clients \ {c} : conn'[d] = conn[d] /\ Mine(d)' = Mine(d)
  BY <1>1 DEF Mine
<1>6. conn'[c] = Idle /\ Mine(c)' = {}
  BY <1>1, EmptyTable DEF Mine, Idle
<1>7. SubTypes'
  BY <1>1, <1>2, IdleType DEF SubTypes, AnswerOK
<1>8. \A i \in Present' : rows'[i].workable = TRUE
  BY <1>2, <1>4, ConnFacts DEF SubInv, Sane, Mine
<1>9. ASSUME NEW d \in Clients
      PROVE  Sane(conn'[d]) /\ HolderKnown(conn'[d], rows')
  <2>1. CASE d = c
    BY <1>6, <2>1, IdleSane DEF HolderKnown, Idle
  <2>2. CASE d # c
    <3>1. Sane(conn[d]) /\ HolderKnown(conn[d], rows) /\ conn'[d] = conn[d]
      BY <1>5, <2>2, ConnFacts
    <3>2. HolderKnown(conn[d], rows')
      BY <1>2, <1>4, <3>1 DEF HolderKnown, Present
    <3> QED
      BY <3>1, <3>2
  <2> QED
    BY <2>1, <2>2
<1>10. IdsApart'
  BY <1>2, <1>5, <1>6 DEF SubInv, IdsApart
<1>11. \A r, s : Compete(r, s) => Compete(s, r)
  BY DEF Compete
<1>12. KeysApart'
  <2>1. ASSUME NEW i \in Present', NEW j \in Present', Compete(rows'[i], rows'[j])
        PROVE  i = j
    <3>1. CASE i \in Present /\ j \in Present
      BY <1>4, <2>1, <3>1 DEF SubInv, KeysApart
    <3>2. CASE i \in Present /\ j \in Mine(c)
      BY <1>2, <1>4, <2>1, <3>2 DEF SubInv, KeysApart
    <3>3. CASE i \in Mine(c) /\ j \in Present
      BY <1>2, <1>4, <1>11, <2>1, <3>3 DEF SubInv, KeysApart
    <3>4. CASE i \in Mine(c) /\ j \in Mine(c)
      BY <1>2, <2>1, <3>4 DEF SubInv, KeysApart
    <3> QED
      BY <1>2, <3>1, <3>2, <3>3, <3>4
  <2>2. ASSUME NEW d \in Clients \ {c}, NEW j \in Mine(d), NEW i \in Present',
               Compete(rows'[i], conn[d].mine[j])
        PROVE  FALSE
    <3>1. CASE i \in Present
      BY <1>4, <2>2, <3>1 DEF SubInv, KeysApart
    <3>2. CASE i \in Mine(c)
      <4>1. i = j
        BY <1>2, <2>2, <3>2 DEF SubInv, KeysApart
      <4> QED
        BY <3>2, <4>1, <2>2 DEF SubInv, IdsApart
    <3> QED
      BY <1>2, <3>1, <3>2
  <2>3. ASSUME NEW d \in Clients, NEW f \in Clients, NEW i \in Mine(f)', NEW j \in Mine(d)',
               Compete(conn'[f].mine[i], conn'[d].mine[j])
        PROVE  i = j
    BY <1>5, <1>6, <2>3 DEF SubInv, KeysApart
  <2> QED
    BY <1>5, <1>6, <2>1, <2>2, <2>3 DEF KeysApart
<1> QED
  BY <1>7, <1>8, <1>9, <1>10, <1>12 DEF SubInv

(* The rest of the system gives no key to a row. *)
LEMMA RowsMoveKeeps ==
    ASSUME SubInv, RowsMove, UNCHANGED conn, AnswerOK'
    PROVE  SubInv'
<1>1. Present' = Present /\ \A c \in Clients : Mine(c)' = Mine(c)
  BY DEF RowsMove, Present, Mine
<1>2. SubTypes'
  BY DEF SubInv, SubTypes, RowsMove, AnswerOK
<1>3. \A i \in Present' : rows'[i].workable = TRUE
  BY <1>1 DEF SubInv, RowsMove
<1>4. \A c \in Clients : Sane(conn'[c]) /\ HolderKnown(conn'[c], rows')
  <2> SUFFICES ASSUME NEW c \in Clients
               PROVE  HolderKnown(conn[c], rows')
    BY DEF SubInv
  <2> QED
    BY DEF SubInv, RowsMove, HolderKnown, Present
<1>5. IdsApart'
  BY <1>1 DEF SubInv, IdsApart
<1>6. \A i \in Present : \A r : Compete(rows'[i], r) => Compete(rows[i], r)
  BY DEF RowsMove, Compete
<1>7. \A i \in Present : \A r : Compete(r, rows'[i]) => Compete(r, rows[i])
  BY DEF RowsMove, Compete
<1>8. KeysApart'
  BY <1>1, <1>6, <1>7 DEF SubInv, KeysApart
<1> QED
  BY <1>2, <1>3, <1>4, <1>5, <1>8 DEF SubInv

(* The invariant holds before the first call. *)
LEMMA SubInvInit == SubInit => SubInv /\ AnswerOK
<1> SUFFICES ASSUME SubInit PROVE SubInv /\ AnswerOK
  OBVIOUS
<1>1. rows \in Tables /\ Present = {}
  BY EmptyTable DEF SubInit, Present
<1>2. conn \in [Clients -> Conn] /\ \A c \in Clients : conn[c] = Idle /\ Mine(c) = {}
  BY IdleType, EmptyTable DEF SubInit, Mine, Idle
<1>3. AnswerOK
  BY DEF SubInit, AnswerOK
<1> QED
  BY <1>1, <1>2, <1>3, IdleSane DEF SubInv, SubTypes, AnswerOK, IdsApart, KeysApart

(* Every statement, and every step of the rest of the system, keeps it. *)
LEMMA SubInvStep == SubInv /\ AnswerOK /\ [SubNext]_subVars => SubInv' /\ AnswerOK'
<1> SUFFICES ASSUME SubInv, AnswerOK, [SubNext]_subVars PROVE SubInv' /\ AnswerOK'
  OBVIOUS
<1>1. CASE SubNext
  BY <1>1, SubStepCases, ConnStepKeeps, CommitStepKeeps, RowsMoveKeeps
<1>2. CASE UNCHANGED subVars
  BY <1>2 DEF subVars, SubInv, SubTypes, AnswerOK, IdsApart, KeysApart, Present, Mine
<1> QED
  BY <1>1, <1>2

(* So it holds always. *)
LEMMA SubInvariant == SubSpec => [](SubInv /\ AnswerOK)
BY SubInvInit, SubInvStep, PTL DEF SubSpec

-----------------------------------------------------------------------------
(* What follows *)

(* Types, a call is made only inside a transaction, and no row is in two    *)
(* places.  (The transactions of PostgresTaskRepository's save methods.)    *)
THEOREM SubTypesCorrect == SubSpec => []SubTypeOK
<1>1. SubInv => SubTypeOK
  <2> SUFFICES ASSUME SubInv PROVE SubTypeOK
    OBVIOUS
  <2>1. Present \subseteq Tasks /\ \A i \in Present : rows[i] \in SubRow
    BY TableFacts DEF SubInv, SubTypes, Present
  <2>2. ASSUME NEW c \in Clients
        PROVE  /\ conn[c].tx \in {"none", "engine", "caller"}
               /\ conn[c].aborted \in BOOLEAN
               /\ \A i \in Mine(c) : i \in Tasks /\ conn[c].mine[i] \in SubRow
               /\ conn[c].call \in Call \cup {NULL}
               /\ conn[c].tx = "none" => conn[c] = Idle
    <3>1. conn[c] \in Conn /\ Sane(conn[c]) /\ conn[c].mine \in Tables
      BY ConnFacts
    <3>2. \A i \in Mine(c) : i \in Tasks /\ conn[c].mine[i] \in SubRow
      BY <3>1, TableFacts DEF Mine
    <3> QED
      BY <3>1, <3>2 DEF Conn, Sane
  <2>3. \A c \in Clients : \A d \in Clients \ {c} : Mine(c) \cap (Present \cup Mine(d)) = {}
    BY DEF SubInv, IdsApart
  <2> QED
    BY <2>1, <2>2, <2>3 DEF SubTypeOK, SubInv, SubTypes
<1> QED
  BY <1>1, SubInvariant, PTL

(* Whatever entry point a task came in by, and however transactions         *)
(* interleave, every row can be read back and lies in a region a worker can *)
(* have: OnlyWorkableTasks of the run `submission`.                         *)
THEOREM OnlyWorkableTasksStored == SubSpec => []OnlyWorkableTasks
<1>1. SubInv => OnlyWorkableTasks
  BY DEF SubInv, OnlyWorkableTasks
<1> QED
  BY <1>1, SubInvariant, PTL

(* A set whose members are all equal has at most one. *)
LEMMA AtMostOne ==
    ASSUME NEW S, \A x, y \in S : x = y
    PROVE  Cardinality(S) <= 1
<1>1. CASE S = {}
  BY <1>1, FS_EmptySet
<1>2. CASE S # {}
  <2>1. PICK x \in S : TRUE
    BY <1>2
  <2>2. S = {x}
    BY <2>1
  <2> QED
    BY <2>2, FS_Singleton
<1> QED
  BY <1>1, <1>2

(* An idempotency key belongs to at most one unfinished row, whether it is  *)
(* committed or not: save_idempotent's ON CONFLICT waits for the            *)
(* transactions that hold the key.                                          *)
THEOREM OneHolderCorrect == SubSpec => []OneHolderPerKey
<1>1. SubInv => OneHolderPerKey
  <2> SUFFICES ASSUME SubInv, NEW q \in Queues, NEW k \in Keys
               PROVE  Cardinality(Holders(rows, q, k)
                        \cup UNION {Holders(conn[c].mine, q, k) : c \in Clients}) <= 1
    BY DEF OneHolderPerKey
  <2> DEFINE C == Holders(rows, q, k)
             U == UNION {Holders(conn[c].mine, q, k) : c \in Clients}
  <2>1. k # NULL
    BY ArgumentAssumption
  <2>2. \A i \in C : i \in Present /\ Live(rows[i]) /\ rows[i].queue = q /\ rows[i].key = k
    BY DEF Holders, Present
  <2>3. \A i \in U : \E c \in Clients :
           /\ i \in Mine(c) /\ Live(conn[c].mine[i])
           /\ conn[c].mine[i].queue = q /\ conn[c].mine[i].key = k
    BY DEF Holders, Mine
  <2>4. \A i, j \in C : i = j
    BY <2>1, <2>2 DEF SubInv, KeysApart, Compete
  <2>5. ASSUME NEW i \in U, NEW j \in U PROVE i = j
    <3>1. PICK c \in Clients : /\ i \in Mine(c) /\ Live(conn[c].mine[i])
                               /\ conn[c].mine[i].queue = q /\ conn[c].mine[i].key = k
      BY <2>3
    <3>2. PICK d \in Clients : /\ j \in Mine(d) /\ Live(conn[d].mine[j])
                               /\ conn[d].mine[j].queue = q /\ conn[d].mine[j].key = k
      BY <2>3
    <3>3. Compete(conn[c].mine[i], conn[d].mine[j])
      BY <2>1, <3>1, <3>2 DEF Compete
    <3> QED
      BY <3>1, <3>2, <3>3 DEF SubInv, KeysApart
  <2>6. \A i \in C, j \in U : FALSE
    BY <2>1, <2>2, <2>3 DEF SubInv, KeysApart, Compete
  <2>7. \A i, j \in C \cup U : i = j
    BY <2>4, <2>5, <2>6
  <2> QED
    BY <2>7, AtMostOne
<1> QED
  BY <1>1, SubInvariant, PTL

(* save_idempotent answers NotInExpectedState only if the task in the way   *)
(* of its INSERT has finished since.                                        *)
THEOREM ConflictsAreRaces == SubSpec => []ConflictMeansRace
<1>1. AnswerOK => ConflictMeansRace
  BY DEF AnswerOK, ConflictMeansRace
<1> QED
  BY <1>1, SubInvariant, PTL

(* Rows become visible when a transaction commits, and all of its rows at   *)
(* once.                                                                    *)
THEOREM TasksAppearTogether == SubSpec => TasksAppearAtomically
<1>1. ASSUME SubInv, SubNext
      PROVE  LET new == DOMAIN rows' \ Present
             IN  new # {} => \E c \in Clients : new = Mine(c) /\ conn'[c] = Idle
  <2>1. CASE \E c \in Clients : ConnStep(c)
    BY <2>1 DEF ConnStep, Present
  <2>2. ASSUME NEW c \in Clients, CommitStep(c)
        PROVE  DOMAIN rows' \ Present = Mine(c) /\ conn'[c] = Idle
    <3>1. DOMAIN rows' = Present \cup Mine(c) /\ Mine(c) \cap Present = {}
      BY <1>1, <2>2, CommittedTable DEF SubInv, IdsApart, CommitStep
    <3>2. conn'[c] = Idle
      BY <1>1, <2>2 DEF CommitStep, SubInv, SubTypes
    <3> QED
      BY <3>1, <3>2
  <2>3. CASE RowsMove
    BY <2>3 DEF RowsMove
  <2> QED
    BY <1>1, <2>1, <2>2, <2>3, SubStepCases
<1>2. SubInv /\ [SubNext]_subVars =>
        [LET new == DOMAIN rows' \ Present
         IN  new # {} => \E c \in Clients : new = Mine(c) /\ conn'[c] = Idle]_subVars
  BY <1>1
<1> QED
  BY <1>2, SubInvariant, PTL DEF SubSpec, TasksAppearAtomically

-----------------------------------------------------------------------------
(* The contract *)

(* The answer as the contract sees it. *)
Answer ==
    IF reply # NULL /\ reply.is \in {"created", "duplicate"} /\ reply.task \notin Present
      THEN NULL ELSE reply

(* A step that answers nothing, or an error, and changes no row. *)
LEMMA QuietStep ==
    ASSUME UNCHANGED rows, Answer' = NULL \/ Answer' \in [is : {"storage", "invalid"}]
    PROVE  Contract!Next
<1>1. CASE Answer' = NULL
  <2>1. Contract!ForgetKeys
    BY <1>1 DEF Contract!ForgetKeys, Answer, Present
  <2> QED
    BY <2>1 DEF Contract!Next
<1>2. CASE Answer' \in [is : {"storage", "invalid"}]
  <2>1. Answer' # NULL
    BY <1>2, NoReplyAssumption DEF Reply
  <2>2. Contract!Refuse
    BY <1>2, <2>1 DEF Contract!Refuse, Answer, Present
  <2> QED
    BY <2>2 DEF Contract!Next
<1> QED
  BY <1>1, <1>2

(* The SELECT of a call maps to an answer without effect. *)
LEMMA SelectImplements ==
    ASSUME SubInv, NEW c \in Clients, select_existing(c)
    PROVE  Contract!Next
<1>1. AnswerOK' /\ rows' = rows /\ Present' = Present
  BY SelectAnswers DEF ConnStep, Present
<1>2. ASSUME NEW h \in InTheWay(c), reply' = [is |-> "duplicate", task |-> h]
      PROVE  Contract!Next
  <2>1. CASE h \notin Present
    <3>1. Answer' = NULL
      BY <1>1, <1>2, <2>1, NoReplyAssumption DEF Answer, AnswerOK
    <3> QED
      BY <1>1, <3>1, QuietStep
  <2>2. CASE h \in Present
    <3>1. h \in Holders(rows, conn[c].call.queue, conn[c].call.key)
      <4>1. h \notin Mine(c)
        BY <2>2 DEF SubInv, IdsApart
      <4> QED
        BY <4>1 DEF InTheWay, Holders, Mine
    <3>2. rows[h].status \notin Terminal
      BY <3>1 DEF Holders, Live
    <3>3. reply' # NULL /\ Answer' = reply'
      <4>1. h \in Tasks
        BY <2>2, TableFacts DEF SubInv, SubTypes, Present
      <4> QED
        BY <1>1, <1>2, <2>2, <4>1, NoReplyAssumption DEF Answer, Reply
    <3>4. Contract!Refuse
      BY <1>1, <1>2, <3>2, <3>3
      DEF Contract!Refuse, Contract!Terminal, Terminal, Answer, Present
    <3> QED
      BY <3>4 DEF Contract!Next
  <2> QED
    BY <2>1, <2>2
<1>3. ASSUME reply' = [is |-> "storage"]
      PROVE  Contract!Next
  <2>1. Answer' = [is |-> "storage"]
    BY <1>3 DEF Answer
  <2> QED
    BY <1>1, <2>1, QuietStep
<1>4. ASSUME reply' = [is |-> "conflict", holder |-> conn[c].call.holder],
             conn[c].tx # "caller"
      PROVE  Contract!Next
  <2>1. reply' # NULL
    <3>1. /\ conn[c].call # NULL /\ conn[c].call.at = "select"
          /\ conn[c] \in Conn /\ Sane(conn[c]) /\ HolderKnown(conn[c], rows)
      BY ConnFacts DEF select_existing, At
    <3>2. conn[c].tx = "engine"
      BY <1>4, <3>1 DEF Conn, Sane, Idle
    <3>3. conn[c].call.holder \in Tasks
      BY <3>1, <3>2, TableFacts DEF HolderKnown, SubInv, SubTypes
    <3> QED
      BY <1>4, <3>3, NoReplyAssumption DEF Reply
  <2>2. Answer' = reply'
    BY <1>4 DEF Answer
  <2>3. rows[reply'.holder].status \in Terminal
    BY <1>1, <1>4, <2>1 DEF AnswerOK, Live
  <2>4. Contract!Refuse
    BY <1>1, <1>4, <2>1, <2>2, <2>3
    DEF Contract!Refuse, Contract!Terminal, Terminal, Answer, Present
  <2> QED
    BY <2>4 DEF Contract!Next
<1> QED
  BY <1>2, <1>3, <1>4 DEF select_existing

(* A commit maps to the creation of all its tasks; without one, to an       *)
(* answer without effect.                                                   *)
LEMMA CommitImplements ==
    ASSUME SubInv, NEW c \in Clients, CommitStep(c),
           \/ reply' = NULL
           \/ reply' = [is |-> "storage"]
           \/ \E i \in Mine(c) : reply' = [is |-> "created", task |-> i]
    PROVE  Contract!Next
<1>1. /\ rows' \in Tables
      /\ DOMAIN rows' = Present \cup Mine(c)
      /\ \A i \in Mine(c) : rows'[i] = conn[c].mine[i]
      /\ \A i \in Present \ Mine(c) : rows'[i] = rows[i]
      /\ Mine(c) \cap Present = {}
  BY CommittedTable DEF CommitStep, SubInv, IdsApart
<1>2. Answer' = reply'
  BY <1>1 DEF Answer, Present
<1>3. CASE Mine(c) = {}
  <2>1. rows' = rows
    BY <1>1, <1>3, TableFacts DEF SubInv, SubTypes, Present
  <2> QED
    BY <1>2, <1>3, <2>1, QuietStep
<1>4. CASE Mine(c) # {}
  <2>1. Mine(c) \subseteq Tasks
    BY ConnFacts, TableFacts DEF Mine
  <2>2. \A i \in Mine(c) : rows'[i].status = "pending"
    <3>1. Sane(conn[c])
      BY ConnFacts
    <3> QED
      BY <1>1, <3>1 DEF Sane, Mine
  <2>3. ASSUME NEW i \in Mine(c), NEW j \in DOMAIN rows' \ {i},
               rows'[i].key # NULL, rows'[i].queue = rows'[j].queue, rows'[i].key = rows'[j].key
        PROVE  rows'[j].status \in Terminal
    <3>1. Live(rows'[i])
      BY <2>2 DEF Live, Terminal
    <3>2. CASE j \in Mine(c)
      <4>1. ~Compete(conn[c].mine[i], conn[c].mine[j])
        BY <2>3, <3>2 DEF SubInv, KeysApart
      <4> QED
        BY <1>1, <2>3, <3>1, <3>2, <4>1 DEF Compete, Live
    <3>3. CASE j \in Present
      <4>1. ~Compete(rows[j], conn[c].mine[i])
        BY <3>3 DEF SubInv, KeysApart
      <4>2. rows'[j] = rows[j]
        BY <1>1, <3>3
      <4> QED
        BY <1>1, <2>3, <3>1, <4>1, <4>2 DEF Compete, Live
    <3> QED
      BY <1>1, <3>2, <3>3
  <2>4. \A i \in Present : rows'[i] = rows[i]
    BY <1>1
  <2>5. Contract!Create(Mine(c))
    BY <1>1, <1>2, <1>4, <2>2, <2>3, <2>4
    DEF Contract!Create, Contract!SameKey, Contract!Terminal, Terminal, Answer, Present
  <2> QED
    BY <2>1, <2>5 DEF Contract!Next
<1> QED
  BY <1>3, <1>4

(* Every step of a submission implements a step of the contract. *)
LEMMA ContractStep ==
    ASSUME SubInv, SubNext
    PROVE  Contract!Next
<1>1. ASSUME reply' = NULL, UNCHANGED rows
      PROVE  Contract!Next
  <2>1. Answer' = NULL
    BY <1>1 DEF Answer
  <2> QED
    BY <1>1, <2>1, QuietStep
<1>2. ASSUME reply' = [is |-> "storage"] \/ reply' = [is |-> "invalid"], UNCHANGED rows
      PROVE  Contract!Next
  <2>1. Answer' = reply'
    BY <1>2 DEF Answer
  <2> QED
    BY <1>2, <2>1, QuietStep
<1>3. ASSUME NEW c \in Clients, NEW i \in Tasks, insert_row(c, i)
      PROVE  Contract!Next
  <2>1. /\ UNCHANGED rows /\ i \notin Present
        /\ reply' = NULL \/ reply' = [is |-> "created", task |-> i]
    BY <1>3 DEF insert_row
  <2>2. Answer' = NULL
    BY <2>1 DEF Answer, Present
  <2> QED
    BY <2>1, <2>2, QuietStep
<1>4. ASSUME NEW c \in Clients, commit_on_pool(c) \/ caller_commits(c)
      PROVE  Contract!Next
  BY <1>4, CommitImplements DEF commit_on_pool, caller_commits, CommitStep
<1>5. ASSUME NEW i \in Present, progress(i)
      PROVE  Contract!Next
  <2>1. PICK e \in Life!Edges :
             rows[i].status = e[1] /\ rows' = [rows EXCEPT ![i].status = e[2]]
    BY <1>5 DEF progress
  <2>2. Answer' = NULL /\ DOMAIN rows' = DOMAIN rows
    BY <1>5, <2>1 DEF progress, Answer
  <2>3. e \in Contract!Life!Edges
    BY DEF Life!Edges, Contract!Life!Edges
  <2>4. Contract!Progress
    BY <2>1, <2>2, <2>3 DEF Contract!Progress, Answer, Present
  <2> QED
    BY <2>4 DEF Contract!Next
<1>6. ASSUME cleanup_expired_idempotency_keys
      PROVE  Contract!Next
  <2>1. PICK S \in SUBSET {i \in Present : ~Live(rows[i]) /\ rows[i].key # NULL} :
             rows' = [i \in Present |-> IF i \in S THEN [rows[i] EXCEPT !.key = NULL] ELSE rows[i]]
    BY <1>6 DEF cleanup_expired_idempotency_keys
  <2>2. Answer' = NULL
    BY <1>6 DEF cleanup_expired_idempotency_keys, Answer
  <2>3. Contract!ForgetKeys
    BY <2>1, <2>2 DEF Contract!ForgetKeys, Contract!Terminal, Terminal, Live, Answer, Present
  <2> QED
    BY <2>3 DEF Contract!Next
<1> QED
  BY <1>1, <1>2, <1>3, <1>4, <1>5, <1>6, SelectImplements
  DEF SubNext, reject, begin_on_pool, begin_caller, call_in_tx, insert_conflict,
      statement_fails, caller_rolls_back

(* The statements of save, save_idempotent and their _in_tx forms, with     *)
(* their own snapshots and in transactions that interleave, implement the   *)
(* submission that takes one step.                                          *)
THEOREM SubmissionImplementsContract == SubSpec => ImplementsContract
<1>1. SubInit => Contract!Init
  BY DEF SubInit, Contract!Init
<1>2. SubInv /\ [SubNext]_subVars => [Contract!Next]_<<rows, Answer>>
  <2>1. UNCHANGED subVars => UNCHANGED <<rows, Answer>>
    BY DEF subVars, Answer, Present
  <2> QED
    BY <2>1, ContractStep
<1> QED
  BY <1>1, <1>2, SubInvariant, PTL DEF SubSpec, ImplementsContract, Contract!Spec, Answer
=============================================================================
