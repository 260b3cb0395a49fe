--------------------------- MODULE QueriesProofs ---------------------------
(***************************************************************************)
(* Proofs about Queries, for any number of tasks, any page size and any    *)
(* cap of the offset: a reader that walks through the pages of a listing   *)
(* misses nothing, although every page comes from another snapshot.        *)
(***************************************************************************)
EXTENDS Queries, FunctionTheorems, FiniteSetTheorems, TLAPS

(* The columns of a row that a listing looks at. *)
QueryRow == [queue : Queues, status : Statuses]

(* created_at and id order the finitely many rows of the table. *)
Ordered ==
    /\ IsFiniteSet(DOMAIN rows)
    /\ \A i \in DOMAIN rows : <<i, i>> \notin before
    /\ \A i, j \in DOMAIN rows : i # j => <<i, j>> \in before \/ <<j, i>> \in before
    /\ \A i, j, k \in DOMAIN rows :
          <<i, j>> \in before /\ <<j, k>> \in before => <<i, k>> \in before

(* How far the pages have shown the listing. *)
Reach ==
    IF walk.at = "ended" THEN MAX_PAGINATION_OFFSET + Limit
    ELSE Smaller(walk.offset, MAX_PAGINATION_OFFSET + Limit)

(* The inductive invariant: what the reader has not seen is still in the    *)
(* listing, behind every place the pages have shown.                        *)
DueBehind ==
    walk.at # "idle" /\ Lasting(walk.filter) =>
        \A i \in walk.due : /\ i \in Listing(walk.filter)
                            /\ Place(walk.filter, i) > Reach

-----------------------------------------------------------------------------
(* Places in a listing *)

(* The tasks of a listing that come before task i. *)
Ahead(f, i) == {j \in Listing(f) : <<j, i>> \in before}

(* A listing is finite, and so is what is ahead of a task. *)
LEMMA ListingFinite ==
  ASSUME Ordered, NEW f, NEW i
  PROVE  /\ IsFiniteSet(Listing(f)) /\ Cardinality(Listing(f)) \in Nat
         /\ IsFiniteSet(Ahead(f, i)) /\ Cardinality(Ahead(f, i)) \in Nat
         /\ Place(f, i) = Cardinality(Ahead(f, i)) + 1
<1>1. Listing(f) \in SUBSET DOMAIN rows /\ Ahead(f, i) \in SUBSET Listing(f)
  BY DEF Listing, Ahead
<1>2. IsFiniteSet(Listing(f))
  BY <1>1, FS_Subset DEF Ordered
<1>3. IsFiniteSet(Ahead(f, i))
  BY <1>1, <1>2, FS_Subset
<1> QED
  BY <1>2, <1>3, FS_CardinalityType DEF Place, Ahead

(* Of two tasks the earlier has the lower place. *)
LEMMA PlaceOrdered ==
  ASSUME Ordered, NEW f, NEW i \in Listing(f), NEW j \in Listing(f), <<i, j>> \in before
  PROVE  Place(f, i) < Place(f, j)
<1>1. i \in DOMAIN rows /\ j \in DOMAIN rows /\ Listing(f) \subseteq DOMAIN rows
  BY DEF Listing
<1>2. Ahead(f, i) \in SUBSET Ahead(f, j)
  BY <1>1 DEF Ordered, Ahead
<1>3. i \in Ahead(f, j) /\ i \notin Ahead(f, i)
  BY <1>1 DEF Ordered, Ahead
<1>4. /\ Cardinality(Ahead(f, i)) <= Cardinality(Ahead(f, j))
      /\ Cardinality(Ahead(f, j)) # Cardinality(Ahead(f, i))
  BY <1>2, <1>3, ListingFinite, FS_Subset
<1>5. /\ Cardinality(Ahead(f, i)) \in Nat /\ Place(f, i) = Cardinality(Ahead(f, i)) + 1
      /\ Cardinality(Ahead(f, j)) \in Nat /\ Place(f, j) = Cardinality(Ahead(f, j)) + 1
  BY ListingFinite
<1> QED
  BY <1>4, <1>5

(* Places go from 1 to the length of the listing, and no two tasks share one. *)
LEMMA PlaceFacts ==
  ASSUME Ordered, NEW f
  PROVE  /\ \A i \in Listing(f) : Place(f, i) \in 1..Cardinality(Listing(f))
         /\ \A i, j \in Listing(f) : Place(f, i) = Place(f, j) => i = j
<1>1. ASSUME NEW i \in Listing(f)
      PROVE  Place(f, i) \in 1..Cardinality(Listing(f))
  <2>1. Ahead(f, i) \in SUBSET Listing(f) /\ i \notin Ahead(f, i)
    BY DEF Ordered, Ahead, Listing
  <2>2. /\ Cardinality(Ahead(f, i)) <= Cardinality(Listing(f))
        /\ Cardinality(Listing(f)) # Cardinality(Ahead(f, i))
    BY <2>1, ListingFinite, FS_Subset
  <2>3. /\ Cardinality(Ahead(f, i)) \in Nat /\ Cardinality(Listing(f)) \in Nat
        /\ Place(f, i) = Cardinality(Ahead(f, i)) + 1
    BY ListingFinite
  <2> QED
    BY <2>2, <2>3
<1>2. ASSUME NEW i \in Listing(f), NEW j \in Listing(f), i # j
      PROVE  Place(f, i) # Place(f, j)
  <2>1. <<i, j>> \in before \/ <<j, i>> \in before
    BY <1>2 DEF Ordered, Listing
  <2>2. Place(f, i) < Place(f, j) \/ Place(f, j) < Place(f, i)
    BY <2>1, PlaceOrdered
  <2>3. Place(f, i) \in Nat /\ Place(f, j) \in Nat
    <3>1. \A n \in Nat : 1..n \subseteq Nat
      OBVIOUS
    <3> QED
      BY <1>1, <3>1, ListingFinite
  <2> QED
    BY <2>2, <2>3
<1> QED
  BY <1>1, <1>2

(* Every place of the listing is taken: the places are as many as the tasks. *)
LEMMA PlaceTaken ==
  ASSUME Ordered, NEW f, NEW n \in 1..Cardinality(Listing(f))
  PROVE  \E i \in Listing(f) : Place(f, i) = n
<1> DEFINE L == Listing(f)
           N == 1..Cardinality(L)
           g == [i \in L |-> Place(f, i)]
<1>1. IsFiniteSet(L) /\ Cardinality(L) \in Nat
  BY ListingFinite
<1>2. \A i \in L : Place(f, i) \in N
  BY PlaceFacts
<1>3. \A i, j \in L : Place(f, i) = Place(f, j) => i = j
  BY PlaceFacts
<1>4. IsFiniteSet(N) /\ Cardinality(N) = Cardinality(L)
  <2> DEFINE c == Cardinality(L)
  <2>1. c \in Nat
    BY <1>1
  <2> HIDE DEF c
  <2>2. IsFiniteSet(1..c) /\ Cardinality(1..c) = IF 1 > c THEN 0 ELSE c - 1 + 1
    BY <2>1, FS_Interval
  <2>3. IsFiniteSet(1..c) /\ Cardinality(1..c) = c
    BY <2>1, <2>2
  <2> QED
    BY <2>3 DEF c
<1> HIDE DEF L, N
<1>5. g \in [L -> N] /\ \A i, j \in L : g[i] = g[j] => i = j
  BY <1>2, <1>3
<1>6. \A i \in L : g[i] = Place(f, i)
  OBVIOUS
<1> HIDE DEF g
<1>7. g \in Injection(L, N)
  BY <1>5, Fun_IsInj
<1>8. g \in Surjection(L, N)
  BY <1>4, <1>7, FS_Injection
<1>9. \E i \in L : g[i] = n
  <2>1. n \in N
    BY DEF N, L
  <2> QED
    BY <1>8, <2>1 DEF Surjection
<1> QED
  BY <1>6, <1>9 DEF L

(* A page has at most Limit tasks, those at the places behind the offset. *)
LEMMA PageFacts ==
  ASSUME Ordered, NEW f, NEW o \in Nat
  PROVE  /\ Page(f, o) \subseteq Listing(f)
         /\ \A i \in Listing(f) : i \in Page(f, o) <=>
               Place(f, i) \in Smaller(o, MAX_PAGINATION_OFFSET) + 1
                                 .. Smaller(o, MAX_PAGINATION_OFFSET) + Limit
         /\ Cardinality(Page(f, o)) \in 0..Limit
<1> DEFINE P == Page(f, o)
           from == Smaller(o, MAX_PAGINATION_OFFSET)
           N == from + 1 .. from + Limit
           g == [i \in P |-> Place(f, i)]
<1>1. from \in Nat /\ Limit \in Nat \ {0}
  BY PagingAssumption DEF Smaller
<1>2. P = {i \in Listing(f) : Place(f, i) \in N}
  BY DEF Page
<1> HIDE DEF P, from
<1>3. IsFiniteSet(N) /\ Cardinality(N) = Limit
  <2>1. from + 1 \in Int /\ from + Limit \in Int
    BY <1>1
  <2>2. /\ IsFiniteSet(N)
        /\ Cardinality(N) = IF from + 1 > from + Limit THEN 0
                            ELSE (from + Limit) - (from + 1) + 1
    BY <2>1, FS_Interval
  <2> QED
    BY <1>1, <2>2
<1> HIDE DEF N
<1>4. g \in [P -> N] /\ \A i, j \in P : g[i] = g[j] => i = j
  BY <1>2, PlaceFacts
<1> HIDE DEF g
<1>5. g \in Injection(P, N)
  BY <1>4, Fun_IsInj
<1>6. IsFiniteSet(P) /\ Cardinality(P) <= Limit
  BY <1>3, <1>5, FS_Injection
<1>7. Cardinality(P) \in Nat
  BY <1>6, FS_CardinalityType
<1> QED
  BY <1>1, <1>2, <1>6, <1>7 DEF P, N, from

-----------------------------------------------------------------------------
(* The table *)

(* The edges of the life cycle lead to statuses, and from none that is final. *)
LEMMA EdgeFacts ==
  /\ "pending" \in Statuses
  /\ \A e \in Life!Edges : e[2] \in Statuses /\ e[1] \notin Terminal
  BY DEF Statuses, Life!Edges, Terminal

(* What the table says of itself. *)
TableOK ==
    /\ DOMAIN rows \subseteq Tasks
    /\ before \subseteq (DOMAIN rows) \X (DOMAIN rows)
    /\ \A i \in DOMAIN rows : rows[i] \in QueryRow
    /\ Ordered

(* A late commit puts its row somewhere into the order. *)
LEMMA CommitStep ==
  ASSUME TableOK, NEW i \in Tasks, NEW q \in Queues, submission_commits(i, q)
  PROVE  /\ TableOK' /\ before \subseteq before' /\ walk' = walk
         /\ \A f : Listing(f) \subseteq Listing(f)'
<1> DEFINE D == DOMAIN rows
<1>1. /\ i \notin D
      /\ rows' = [j \in D \cup {i} |->
                     IF j = i THEN [queue |-> q, status |-> "pending"] ELSE rows[j]]
      /\ walk' = walk
  BY DEF submission_commits
<1>2. PICK earlier \in SUBSET D :
         /\ \A j \in earlier, k \in D \ earlier : <<j, k>> \in before
         /\ before' = before \cup (earlier \X {i}) \cup ({i} \X (D \ earlier))
  BY DEF submission_commits
<1>3. DOMAIN rows' = D \cup {i} /\ \A j \in D : rows'[j] = rows[j]
  BY <1>1
<1>4. \A j \in DOMAIN rows' : rows'[j] \in QueryRow
  <2>1. rows'[i] = [queue |-> q, status |-> "pending"]
    BY <1>1
  <2>2. rows'[i] \in QueryRow
    BY <2>1, EdgeFacts DEF QueryRow
  <2> QED
    BY <1>3, <2>2 DEF TableOK
<1>5. before \subseteq D \X D /\ D \subseteq Tasks /\ Ordered
  BY DEF TableOK
<1>6. \A j, k : <<j, k>> \in before' <=>
         \/ <<j, k>> \in before
         \/ j \in earlier /\ k = i
         \/ j = i /\ k \in D \ earlier
  BY <1>2
<1>7. \A j, k : <<j, k>> \in before => j \in D /\ k \in D
  BY <1>5
<1>8. IsFiniteSet(D \cup {i})
  BY <1>5, FS_AddElement DEF Ordered
<1> HIDE DEF D
<1>9. \A j \in D \cup {i} : <<j, j>> \notin before'
  BY <1>1, <1>5, <1>6, <1>7 DEF Ordered, D
<1>10. \A j, k \in D \cup {i} : j # k => <<j, k>> \in before' \/ <<k, j>> \in before'
  BY <1>2, <1>5, <1>6 DEF Ordered, D
<1>11. ASSUME NEW j \in D \cup {i}, NEW k \in D \cup {i}, NEW l \in D \cup {i},
              <<j, k>> \in before', <<k, l>> \in before'
       PROVE  <<j, l>> \in before'
  <2>1. \A a, b, c \in D : <<a, b>> \in before /\ <<b, c>> \in before => <<a, c>> \in before
    BY <1>5 DEF Ordered, D
  <2>2. \A a, b \in D : <<a, b>> \in before /\ b \in earlier => a \in earlier
    <3>1. \A a, b \in D : <<a, b>> \in before => <<b, a>> \notin before
      BY <2>1, <1>5 DEF Ordered, D
    <3> QED
      BY <1>2, <3>1
  <2>3. \A a, b \in D : <<a, b>> \in before /\ a \notin earlier => b \notin earlier
    BY <2>2
  <2>4. CASE j = i
    BY <1>1, <1>6, <1>7, <1>11, <2>3, <2>4
  <2>5. CASE k = i
    BY <1>1, <1>2, <1>6, <1>7, <1>11, <2>5
  <2>6. CASE l = i
    BY <1>1, <1>6, <1>7, <1>11, <2>2, <2>6
  <2>7. CASE j # i /\ k # i /\ l # i
    BY <1>6, <1>7, <1>11, <2>1, <2>7
  <2> QED
    BY <2>4, <2>5, <2>6, <2>7
<1>12. Ordered'
  BY <1>3, <1>8, <1>9, <1>10, <1>11 DEF Ordered
<1>13. before' \subseteq (D \cup {i}) \X (D \cup {i})
  BY <1>2, <1>5
<1>14. TableOK'
  BY <1>3, <1>4, <1>5, <1>12, <1>13 DEF TableOK
<1>15. \A f : Listing(f) \subseteq Listing(f)'
  BY <1>3 DEF Listing, Matches, D
<1> QED
  BY <1>1, <1>2, <1>14, <1>15

(* The work on a task changes its status only. *)
LEMMA ProgressStep ==
  ASSUME TableOK, NEW i \in DOMAIN rows, progress(i)
  PROVE  /\ TableOK' /\ before' = before /\ walk' = walk
         /\ \A f : Lasting(f) => Listing(f) \subseteq Listing(f)'
<1>1. PICK e \in Life!Edges : /\ rows[i].status = e[1]
                              /\ rows' = [rows EXCEPT ![i].status = e[2]]
  BY DEF progress
<1>2. before' = before /\ walk' = walk
  BY DEF progress
<1>3. rows[i] \in QueryRow
  BY DEF TableOK
<1>4. /\ DOMAIN rows' = DOMAIN rows
      /\ \A j \in DOMAIN rows : j # i => rows'[j] = rows[j]
      /\ rows'[i] = [rows[i] EXCEPT !.status = e[2]]
  BY <1>1
<1>5. rows'[i] \in QueryRow /\ rows'[i].queue = rows[i].queue
  BY <1>3, <1>4, EdgeFacts DEF QueryRow
<1>6. TableOK'
  BY <1>2, <1>4, <1>5 DEF TableOK, Ordered
<1>7. ASSUME NEW f, Lasting(f), NEW j \in Listing(f)
      PROVE  j \in Listing(f)'
  <2>1. j \in DOMAIN rows /\ Matches(f, rows[j])
    BY DEF Listing
  <2>2. Matches(f, rows'[j])
    <3>1. CASE j # i
      BY <1>4, <2>1, <3>1
    <3>2. CASE j = i
      <4>1. f.status # NULL => f.status \in Terminal
        BY <1>7 DEF Lasting
      <4>2. f.status # NULL => rows[i].status \in Terminal
        BY <2>1, <3>2, <4>1 DEF Matches
      <4>3. f.status = NULL
        BY <1>1, <4>2, EdgeFacts
      <4> QED
        BY <1>5, <2>1, <3>2, <4>3 DEF Matches
    <3> QED
      BY <3>1, <3>2
  <2> QED
    BY <1>4, <2>1, <2>2 DEF Listing, Matches
<1> QED
  BY <1>2, <1>6, <1>7

(* In a listing that only grows, places only move back. *)
LEMMA PlacesGrow ==
  ASSUME Ordered, Ordered', NEW f, Listing(f) \subseteq Listing(f)', before \subseteq before', NEW i
  PROVE  Place(f, i) \in Nat /\ Place(f, i)' \in Nat /\ Place(f, i) <= Place(f, i)'
<1>1. Ahead(f, i) \in SUBSET Ahead(f, i)'
  BY DEF Ahead
<1>2. /\ Cardinality(Ahead(f, i)) \in Nat
      /\ Place(f, i) = Cardinality(Ahead(f, i)) + 1
  BY ListingFinite
<1>3. /\ IsFiniteSet(Ahead(f, i)') /\ Cardinality(Ahead(f, i)') \in Nat
      /\ Place(f, i)' = Cardinality(Ahead(f, i)') + 1
  <2>1. Listing(f)' \in SUBSET DOMAIN rows' /\ Ahead(f, i)' \in SUBSET Listing(f)'
    BY DEF Listing, Ahead
  <2>2. IsFiniteSet(DOMAIN rows')
    BY DEF Ordered
  <2>3. IsFiniteSet(Listing(f)')
    BY <2>1, <2>2, FS_Subset
  <2>4. IsFiniteSet(Ahead(f, i)')
    BY <2>1, <2>3, FS_Subset
  <2> QED
    BY <2>4, FS_CardinalityType DEF Place, Ahead
<1>4. Cardinality(Ahead(f, i)) <= Cardinality(Ahead(f, i)')
  BY <1>1, <1>3, FS_Subset
<1> QED
  BY <1>2, <1>3, <1>4

-----------------------------------------------------------------------------
(* The reader *)

(* A page or a count belongs to a walk with a filter, the count to one that *)
(* has seen a page.                                                         *)
WalkOK ==
    /\ walk \in Walk
    /\ walk.at = "idle" <=> walk.filter = NULL
    /\ walk.at = "count" => walk.offset > 0

(* The fields of a walk. *)
LEMMA WalkFields ==
  ASSUME NEW w \in Walk
  PROVE  /\ w.at \in {"idle", "page", "count", "ended"}
         /\ w.filter \in Filter \cup {NULL} /\ w.offset \in Nat /\ w.due \subseteq Tasks
  BY DEF Walk

(* The reader asks for the first page, and has seen nothing. *)
LEMMA BeginStep ==
  ASSUME TableOK, WalkOK, walk_begins
  PROVE  WalkOK' /\ DueBehind'
<1>1. rows' = rows /\ before' = before
  BY DEF walk_begins
<1>2. PICK f \in Filters :
         walk' = [at |-> "page", filter |-> f, offset |-> 0, due |-> Listing(f)]
  BY DEF walk_begins
<1>3. walk'.at = "page" /\ walk'.filter = f /\ walk'.offset = 0 /\ walk'.due = Listing(f)
  BY <1>2
<1>4. f \in Filter /\ f # NULL
  BY PagingAssumption
<1>5. Listing(f) \subseteq Tasks
  BY DEF Listing, TableOK
<1>6. WalkOK'
  BY <1>2, <1>3, <1>4, <1>5 DEF WalkOK, Walk
<1>7. Reach' = 0
  BY <1>3, PagingAssumption DEF Reach, Smaller
<1>8. ASSUME NEW i \in Listing(f)
      PROVE  i \in Listing(f)' /\ Place(f, i)' > 0
  <2>1. Listing(f)' = Listing(f) /\ Place(f, i)' = Place(f, i)
    BY <1>1 DEF Listing, Place
  <2>2. Place(f, i) \in 1..Cardinality(Listing(f)) /\ Cardinality(Listing(f)) \in Nat
    BY PlaceFacts, ListingFinite DEF TableOK
  <2> QED
    BY <2>1, <2>2
<1>9. DueBehind'
  BY <1>3, <1>7, <1>8 DEF DueBehind
<1> QED
  BY <1>6, <1>9

(* A walk that ends at or behind the total has only tasks beyond the capped *)
(* offset left.                                                             *)
LEMMA EndReached ==
  ASSUME TableOK, NEW f, NEW i \in Listing(f), NEW o \in Nat,
         o >= Cardinality(Listing(f)),
         Place(f, i) > Smaller(o, MAX_PAGINATION_OFFSET + Limit)
  PROVE  Place(f, i) > MAX_PAGINATION_OFFSET + Limit
<1>1. Cardinality(Listing(f)) \in Nat /\ Place(f, i) \in 1..Cardinality(Listing(f))
  BY ListingFinite, PlaceFacts DEF TableOK
<1>2. MAX_PAGINATION_OFFSET + Limit \in Nat
  BY PagingAssumption
<1> QED
  BY <1>1, <1>2 DEF Smaller

(* What a page does not show of the tasks behind the offset is behind the   *)
(* next offset.                                                             *)
LEMMA PagePassed ==
  ASSUME TableOK, NEW f, NEW i \in Listing(f), NEW o \in Nat,
         i \notin Page(f, o), Place(f, i) > Smaller(o, MAX_PAGINATION_OFFSET + Limit)
  PROVE  Place(f, i) > Smaller(o + Cardinality(Page(f, o)), MAX_PAGINATION_OFFSET + Limit)
<1> DEFINE M == MAX_PAGINATION_OFFSET
           c == Cardinality(Page(f, o))
           p == Place(f, i)
           from == Smaller(o, M)
<1>1. c \in 0..Limit /\ p \notin from + 1 .. from + Limit
  BY PageFacts DEF TableOK
<1>2. p \in Nat
  <2>1. Cardinality(Listing(f)) \in Nat /\ p \in 1..Cardinality(Listing(f))
    BY ListingFinite, PlaceFacts DEF TableOK
  <2> QED
    BY <2>1
<1>3. M \in Nat /\ Limit \in Nat \ {0}
  BY PagingAssumption
<1> HIDE DEF M, c, p
<1>4. CASE o < M
  <2>1. p > o + Limit
    BY <1>1, <1>2, <1>3, <1>4 DEF Smaller, p, M
  <2> QED
    BY <1>1, <1>2, <1>3, <2>1 DEF Smaller, c, p, M
<1>5. CASE o >= M
  <2>1. p > M + Limit
    BY <1>1, <1>2, <1>3, <1>5 DEF Smaller, p, M
  <2> QED
    BY <1>1, <1>2, <1>3, <2>1 DEF Smaller, c, p, M
<1> QED
  BY <1>3, <1>4, <1>5

(* One page. *)
LEMMA PageStep ==
  ASSUME TableOK, WalkOK, DueBehind, list_tasks
  PROVE  WalkOK' /\ DueBehind'
<1>0. PICK f, o : f = walk.filter /\ o = walk.offset
  OBVIOUS
<1> DEFINE page == Page(f, o)
           total == Cardinality(Listing(f))
           seen == o + Cardinality(page)
<1>1. rows' = rows /\ before' = before /\ walk.at = "page"
  BY DEF list_tasks
<1>2. walk \in Walk /\ f # NULL /\ o \in Nat /\ walk.due \subseteq Tasks
  BY <1>0, <1>1, WalkFields DEF WalkOK
<1>3. Listing(f)' = Listing(f) /\ \A i : Place(f, i)' = Place(f, i)
  <2>1. \A g : Listing(g)' = {i \in DOMAIN rows : Matches(g, rows[i])}
    BY <1>1 DEF Listing, Matches
  <2> QED
    BY <1>1, <2>1 DEF Listing, Place
<1>4. Cardinality(page) \in 0..Limit /\ total \in Nat
  BY <1>2, PageFacts, ListingFinite DEF TableOK
<1>5. seen \in Nat
  BY <1>2, <1>4
<1>6. ASSUME Lasting(f), NEW i \in walk.due
      PROVE  i \in Listing(f) /\ Place(f, i) > Smaller(o, MAX_PAGINATION_OFFSET + Limit)
  BY <1>0, <1>1, <1>6 DEF DueBehind, Reach
<1>7. CASE page # {} /\ walk' = [walk EXCEPT !.at = IF seen >= total THEN "ended" ELSE "page",
                                             !.offset = seen, !.due = @ \ page]
  <2>1. /\ walk' \in Walk
        /\ walk'.at = (IF seen >= total THEN "ended" ELSE "page")
        /\ walk'.filter = f /\ walk'.offset = seen /\ walk'.due = walk.due \ page
    BY <1>0, <1>2, <1>5, <1>7 DEF Walk
  <2>2. ASSUME Lasting(f), NEW i \in walk.due \ page
        PROVE  i \in Listing(f) /\ Place(f, i) > Reach'
    <3>1. i \in Listing(f) /\ Place(f, i) > Smaller(seen, MAX_PAGINATION_OFFSET + Limit)
      BY <1>2, <1>6, <2>2, PagePassed
    <3>2. CASE seen >= total
      <4>1. Reach' = MAX_PAGINATION_OFFSET + Limit
        BY <2>1, <3>2 DEF Reach
      <4> HIDE DEF seen
      <4> QED
        BY <1>5, <3>1, <3>2, <4>1, EndReached
    <3>3. CASE ~(seen >= total)
      BY <2>1, <3>1, <3>3 DEF Reach
    <3> QED
      BY <3>1, <3>2, <3>3
  <2>3. DueBehind'
    BY <1>3, <2>1, <2>2 DEF DueBehind
  <2>4. WalkOK'
    BY <1>2, <2>1 DEF WalkOK
  <2> QED
    BY <2>3, <2>4
<1>8. CASE page = {} /\ o = 0 /\ walk' = [walk EXCEPT !.at = "ended"]
  <2>1. /\ walk' \in Walk
        /\ walk'.at = "ended" /\ walk'.filter = f /\ walk'.due = walk.due
    BY <1>0, <1>2, <1>8 DEF Walk
  <2>2. ~ Lasting(f) \/ walk.due = {}
    <3> SUFFICES ASSUME Lasting(f), NEW i \in walk.due PROVE FALSE
      OBVIOUS
    <3>1. i \in Listing(f) /\ Place(f, i) \in 1..total
      BY <1>6, PlaceFacts DEF TableOK
    <3>2. 1 \in 1..total
      BY <1>4, <3>1
    <3>3. PICK j \in Listing(f) : Place(f, j) = 1
      BY <3>2, PlaceTaken DEF TableOK
    <3>4. 1 \in Smaller(o, MAX_PAGINATION_OFFSET) + 1
                  .. Smaller(o, MAX_PAGINATION_OFFSET) + Limit
      BY <1>8, PagingAssumption DEF Smaller
    <3>5. j \in page
      BY <1>2, <3>3, <3>4, PageFacts DEF TableOK
    <3> QED
      BY <1>8, <3>5
  <2>3. DueBehind'
    BY <2>1, <2>2 DEF DueBehind
  <2>4. WalkOK'
    BY <1>2, <2>1 DEF WalkOK
  <2> QED
    BY <2>3, <2>4
<1>9. CASE page = {} /\ o > 0 /\ walk' = [walk EXCEPT !.at = "count"]
  <2>1. /\ walk' \in Walk
        /\ walk'.at = "count" /\ walk'.filter = f /\ walk'.offset = o /\ walk'.due = walk.due
    BY <1>0, <1>2, <1>9 DEF Walk
  <2>2. Reach' = Smaller(o, MAX_PAGINATION_OFFSET + Limit)
    BY <2>1 DEF Reach
  <2>3. DueBehind'
    BY <1>3, <1>6, <2>1, <2>2 DEF DueBehind
  <2>4. WalkOK'
    BY <1>2, <1>9, <2>1 DEF WalkOK
  <2> QED
    BY <2>3, <2>4
<1> QED
  BY <1>0, <1>7, <1>8, <1>9 DEF list_tasks

(* The count behind an empty page, from a snapshot of its own. *)
LEMMA CountStep ==
  ASSUME TableOK, WalkOK, DueBehind, count_tasks
  PROVE  WalkOK' /\ DueBehind'
<1>0. PICK f, o : f = walk.filter /\ o = walk.offset
  OBVIOUS
<1> DEFINE total == Cardinality(Listing(f))
<1>1. /\ rows' = rows /\ before' = before /\ walk.at = "count"
      /\ walk' = [walk EXCEPT !.at = IF o >= total THEN "ended" ELSE "page"]
  BY <1>0 DEF count_tasks
<1>2. walk \in Walk /\ f # NULL /\ o \in Nat
  BY <1>0, <1>1, WalkFields DEF WalkOK
<1>3. /\ walk' \in Walk
      /\ walk'.at = (IF o >= total THEN "ended" ELSE "page")
      /\ walk'.filter = f /\ walk'.offset = o /\ walk'.due = walk.due
  BY <1>0, <1>1, <1>2 DEF Walk
<1>4. Listing(f)' = Listing(f) /\ \A i : Place(f, i)' = Place(f, i)
  <2>1. \A g : Listing(g)' = {i \in DOMAIN rows : Matches(g, rows[i])}
    BY <1>1 DEF Listing, Matches
  <2> QED
    BY <1>1, <2>1 DEF Listing, Place
<1>5. ASSUME Lasting(f), NEW i \in walk.due
      PROVE  i \in Listing(f) /\ Place(f, i) > Reach'
  <2>1. i \in Listing(f) /\ Place(f, i) > Smaller(o, MAX_PAGINATION_OFFSET + Limit)
    BY <1>0, <1>1, <1>5 DEF DueBehind, Reach
  <2>2. CASE o >= total
    <3>1. Reach' = MAX_PAGINATION_OFFSET + Limit
      BY <1>3, <2>2 DEF Reach
    <3> QED
      BY <1>2, <2>1, <2>2, <3>1, EndReached
  <2>3. CASE ~(o >= total)
    BY <1>3, <2>1, <2>3 DEF Reach
  <2> QED
    BY <2>1, <2>2, <2>3
<1>6. DueBehind'
  BY <1>3, <1>4, <1>5 DEF DueBehind
<1>7. WalkOK'
  BY <1>2, <1>3 DEF WalkOK
<1> QED
  BY <1>6, <1>7

(* While the table moves, what is due stays behind what was shown. *)
LEMMA DueKept ==
  ASSUME TableOK, TableOK', DueBehind, WalkOK, walk' = walk, before \subseteq before',
         \A f : Lasting(f) => Listing(f) \subseteq Listing(f)'
  PROVE  DueBehind'
<1> SUFFICES ASSUME walk.at # "idle", Lasting(walk.filter), NEW i \in walk.due
             PROVE  i \in Listing(walk.filter)' /\ Place(walk.filter, i)' > Reach
  BY DEF DueBehind, Reach, Lasting
<1>0. PICK f : f = walk.filter
  OBVIOUS
<1>1. i \in Listing(f) /\ Place(f, i) > Reach
  BY <1>0 DEF DueBehind
<1>2. Listing(f) \subseteq Listing(f)'
  BY <1>0
<1>3. Ordered /\ Ordered'
  BY DEF TableOK
<1>4. Place(f, i) \in Nat /\ Place(f, i)' \in Nat /\ Place(f, i) <= Place(f, i)'
  BY <1>2, <1>3, PlacesGrow
<1>5. Reach \in Nat
  BY WalkFields, PagingAssumption DEF Reach, Smaller, WalkOK
<1> QED
  BY <1>0, <1>1, <1>2, <1>4, <1>5

(* Every step keeps the table, the walk and what is due in order. *)
LEMMA QueryStep ==
  ASSUME TableOK, WalkOK, DueBehind, [QueryNext]_queryVars
  PROVE  TableOK' /\ WalkOK' /\ DueBehind'
<1>1. ASSUME NEW i \in Tasks, NEW q \in Queues, submission_commits(i, q)
      PROVE  TableOK' /\ WalkOK' /\ DueBehind'
  BY <1>1, CommitStep, DueKept DEF WalkOK
<1>2. ASSUME NEW i \in DOMAIN rows, progress(i)
      PROVE  TableOK' /\ WalkOK' /\ DueBehind'
  BY <1>2, ProgressStep, DueKept DEF WalkOK
<1>3. ASSUME rows' = rows, before' = before
      PROVE  TableOK'
  BY <1>3 DEF TableOK, Ordered
<1>4. CASE walk_begins
  BY <1>3, <1>4, BeginStep DEF walk_begins
<1>5. CASE list_tasks
  BY <1>3, <1>5, PageStep DEF list_tasks
<1>6. CASE count_tasks
  BY <1>3, <1>6, CountStep DEF count_tasks
<1>7. ASSUME walk' = NoWalk, rows' = rows, before' = before
      PROVE  TableOK' /\ WalkOK' /\ DueBehind'
  <2>1. NoWalk \in Walk /\ NoWalk.at = "idle" /\ NoWalk.filter = NULL
    BY DEF NoWalk, Walk
  <2> QED
    BY <1>3, <1>7, <2>1 DEF WalkOK, DueBehind
<1>8. CASE list_fails \/ walk_is_over
  BY <1>7, <1>8 DEF list_fails, walk_is_over
<1>9. CASE UNCHANGED queryVars
  <2>1. rows' = rows /\ before' = before /\ walk' = walk
    BY <1>9 DEF queryVars
  <2> QED
    BY <1>3, <2>1 DEF WalkOK, DueBehind, Reach, Lasting, Listing, Matches, Place
<1> QED
  BY <1>1, <1>2, <1>4, <1>5, <1>6, <1>8, <1>9 DEF QueryNext

(* The table, the walk and what is due are always in order. *)
LEMMA QueryInvariant == QuerySpec => [](TableOK /\ WalkOK /\ DueBehind)
<1>1. QueryInit => TableOK /\ WalkOK /\ DueBehind
  <2> SUFFICES ASSUME QueryInit PROVE TableOK /\ WalkOK /\ DueBehind
    OBVIOUS
  <2>1. DOMAIN rows = {} /\ before = {} /\ walk = NoWalk
    BY DEF QueryInit
  <2>2. TableOK
    BY <2>1, FS_EmptySet DEF TableOK, Ordered
  <2>3. NoWalk \in Walk /\ NoWalk.at = "idle" /\ NoWalk.filter = NULL
    BY DEF NoWalk, Walk
  <2> QED
    BY <2>1, <2>2, <2>3 DEF WalkOK, DueBehind
<1>2. TableOK /\ WalkOK /\ DueBehind /\ [QueryNext]_queryVars
        => (TableOK /\ WalkOK /\ DueBehind)'
  BY QueryStep
<1> QED
  BY <1>1, <1>2, PTL DEF QuerySpec

(* Types: a page or a count is only asked for in a walk with a filter, and  *)
(* the count query of list_tasks never for the first page.                  *)
THEOREM QueryTypeCorrect == QuerySpec => []QueryTypeOK
<1>1. TableOK /\ WalkOK => QueryTypeOK
  BY DEF TableOK, WalkOK, QueryRow, QueryTypeOK
<1> QED
  BY <1>1, QueryInvariant, PTL

(* A reader that follows offset and total to the end has been shown every   *)
(* task that matched a lasting filter when it began, whatever commits late  *)
(* between its pages, for any page size: only tasks beyond the capped       *)
(* offset may be missing.                                                   *)
THEOREM NothingMissed == QuerySpec => []WalkMissesNothing
<1>1. DueBehind => WalkMissesNothing
  BY DEF DueBehind, Reach, WalkMissesNothing
<1> QED
  BY <1>1, QueryInvariant, PTL
=============================================================================
