--------------------------- MODULE Listings_proofs ----------------------------
(***************************************************************************)
(* Listings for any number of rows, any limits and any number of writes:   *)
(* a reader by offset who reaches the end has missed at most as many rows  *)
(* as have left or moved, and one by cursor none; and no reader is shown   *)
(* more rows again than have arrived or moved.                             *)
(***************************************************************************)
EXTENDS Listings, FiniteSetTheorems, TLAPS

Here == Listed(walk.list)

\* The rows before row r.
Ahead(r) == {s \in Here : Precedes(walk.list, s, r)}
Rank(r) == Cardinality(Ahead(r))

\* Rows that belong to the first n of the listing and have been missed, unless
\* they are on the page that has been fetched.
Overdue(page, n) == {r \in Missed \ page : Rank(r) < n}

ByOffset == {"owner", "page", "count"}

Inv ==
  /\ TypeOK
  /\ IF walk.list = None THEN walk.pc = "idle" ELSE seen.steady \subseteq Here
  /\ walk.pc \in ByOffset =>
       /\ walk.list \in Routes \cup Calls
       /\ walk.list \in Routes \/ walk.ask \in Limits
       /\ Cardinality(Overdue({}, walk.offset)) <= seen.departures
  /\ walk.pc = "count" =>
       \A q \in Query : Cardinality(Overdue(walk.page, walk.offset + q.limit)) <= seen.departures
  /\ walk.pc = "cursor" => walk.ask \in Limits
  /\ walk.pc = "done" => Cardinality(Missed) <= seen.departures

-----------------------------------------------------------------------------
(* Listings and their order. *)

\* The cursor methods change the order, never the table.
LEMMA Resorted ==
  ASSUME NEW l, "table" \in DOMAIN l, NEW field, NEW down
  PROVE  /\ [l EXCEPT !.order = down].table = l.table
         /\ [l EXCEPT !.first = field, !.order = down].table = l.table
<1> DEFINE m == [l EXCEPT !.first = field]
<1>1. "table" \in DOMAIN m /\ m.table = l.table
  OBVIOUS
<1>2. [m EXCEPT !.order = down].table = m.table
  <2> HIDE DEF m
  <2> QED  BY <1>1
<1>3. [l EXCEPT !.order = down].table = l.table
  OBVIOUS
<1> QED  BY <1>1, <1>2, <1>3

LEMMA Tables ==
  /\ \A of : "table" \in DOMAIN GetByUserID(of) /\ GetByUserID(of).table = Tasks
  /\ \A of : "table" \in DOMAIN GetByStatus(of) /\ GetByStatus(of).table = Tasks
  /\ "table" \in DOMAIN List /\ List.table = Tasks
  /\ \A of : "table" \in DOMAIN GetByTaskID(of) /\ GetByTaskID(of).table = Executions
  /\ \A of : /\ "table" \in DOMAIN GetExecutionsByStatus(of)
            /\ GetExecutionsByStatus(of).table = Executions
  /\ "table" \in DOMAIN ListExecutions /\ ListExecutions.table = Executions
  BY DEF GetByUserID, GetByStatus, List, GetByTaskID, GetExecutionsByStatus, ListExecutions

LEMMA ListingShape ==
  ASSUME NEW l \in Listings
  PROVE  l.table \in {Tasks, Executions} /\ l # None
<1>1. l # None
  BY NoneAssumption
<1>2. CASE l \in Routes \cup Calls
  BY <1>1, <1>2, Tables DEF Routes, Calls, GetTasksWithExecutionCount, GetTasksWithLatestExecution
<1>3. CASE \E field, order : l \in CursorCalls(field, order)
  <2>1. PICK field, order : l \in CursorCalls(field, order)
    BY <1>3
  <2>2. CASE l = GetByUserIDCursor(Caller, field, order)
    BY <1>1, <2>2, Tables, Resorted DEF GetByUserIDCursor
  <2>3. CASE l = ListCursor(field, order)
    BY <1>1, <2>3, Tables, Resorted DEF ListCursor
  <2>4. CASE l = ListExecutionsCursor(order)
    BY <1>1, <2>4, Tables, Resorted DEF ListExecutionsCursor
  <2>5. CASE \E status \in Statuses : l = GetByStatusCursor(status, field, order)
    BY <1>1, <2>5, Tables, Resorted DEF GetByStatusCursor
  <2>6. CASE \E status \in Statuses : l = GetExecutionsByStatusCursor(status, order)
    BY <1>1, <2>6, Tables, Resorted DEF GetExecutionsByStatusCursor
  <2>7. CASE \E t \in Tasks : l = GetByTaskIDCursor(t, order)
    BY <1>1, <2>7, Tables, Resorted DEF GetByTaskIDCursor
  <2>8. \/ l \in {GetByUserIDCursor(Caller, field, order), ListCursor(field, order),
                ListExecutionsCursor(order)}
        \/ \E status \in Statuses : l = GetByStatusCursor(status, field, order)
        \/ \E status \in Statuses : l = GetExecutionsByStatusCursor(status, order)
        \/ \E t \in Tasks : l = GetByTaskIDCursor(t, order)
    BY <2>1 DEF CursorCalls
  <2> QED  BY <1>1, <2>2, <2>3, <2>4, <2>5, <2>6, <2>7, <2>8
<1>4. \/ l \in Routes \cup Calls
      \/ \E field, order : l \in CursorCalls(field, order)
  BY DEF Listings
<1> QED  BY <1>2, <1>3, <1>4

\* The listings by offset are sorted by priority or age, newest first.
LEMMA OffsetShape ==
  ASSUME NEW l \in Routes \cup Calls
  PROVE  l \in Listings /\ l.order # "asc" /\ l.first \in {"priority", "created_at"}
  BY DEF Listings, Routes, Calls, List, ListExecutions, GetByUserID,
     GetByStatus, GetByTaskID, GetExecutionsByStatus, GetTasksWithExecutionCount,
     GetTasksWithLatestExecution

LEMMA HereType ==
  ASSUME TypeOK, walk.list # None
  PROVE  Here \subseteq Rows /\ IsFiniteSet(Here) /\ Cardinality(Here) \in Nat
<1>1. Here \subseteq Rows
  BY ListingShape DEF TypeOK, Here, Listed, Rows
<1> QED  BY <1>1, RowsAssumption, FS_Subset, FS_CardinalityType

LEMMA OffsetHere ==
  ASSUME walk.list \in Routes \cup Calls
  PROVE  walk.list # None
  BY OffsetShape, ListingShape

LEMMA Finite ==
  ASSUME NEW S \in SUBSET Rows
  PROVE  IsFiniteSet(S) /\ Cardinality(S) \in Nat
  BY RowsAssumption, FS_Subset, FS_CardinalityType

LEMMA Smaller ==
  ASSUME NEW T \in SUBSET Rows, NEW S \in SUBSET T
  PROVE  Cardinality(S) <= Cardinality(T)
  BY Finite, FS_Subset

\* One more element.
LEMMA Larger ==
  ASSUME NEW T \in SUBSET Rows, NEW S \in SUBSET T, NEW x \in T \ S
  PROVE  Cardinality(S) < Cardinality(T)
<1>1. Cardinality(S \cup {x}) = Cardinality(S) + 1
  BY Finite, FS_AddElement
<1> QED  BY <1>1, Smaller, Finite

LEMMA RowType ==
  ASSUME TypeOK, NEW r \in Rows
  PROVE  row[r].created \in Nat /\ row[r].priority \in Nat
<1>1. MaxChanges \in Nat
  BY LimitAssumption
<1>2. row[r].created \in Nat
  <2>1. row[r].created \in 0..(MaxChanges + 1)
    BY DEF TypeOK
  <2> QED  BY <1>1, <2>1
<1>3. row[r].priority \in Nat
  <2>1. row[r].priority \in Priorities \cup {0}
    BY DEF TypeOK
  <2>2. CASE row[r].priority \in Priorities
    BY <2>2, SortAssumption
  <2>3. CASE row[r].priority = 0
    BY <2>3
  <2> QED  BY <2>1, <2>2, <2>3
<1> QED  BY <1>2, <1>3

LEMMA PrecedesMeans ==
  ASSUME NEW l, NEW r, NEW s, l.order # "asc"
  PROVE  Precedes(l, r, s) <=>
           \/ l.first = "created_at" /\ row[r].created > row[s].created
           \/ /\ l.first = "priority"
              /\ \/ row[r].priority > row[s].priority
                 \/ row[r].priority = row[s].priority /\ row[r].created > row[s].created
  BY DEF Precedes

\* The order is total on rows of which one is untied.
LEMMA OrderIsTotal ==
  ASSUME TypeOK, walk.list \in Routes \cup Calls,
         NEW r \in Here, Untied(r), NEW s \in Here \ {r}
  PROVE  Precedes(walk.list, r, s) \/ Precedes(walk.list, s, r)
<1>1. r \in Rows /\ s \in Rows /\ row[s].state = "present"
  <2>1. Here \subseteq Rows
    BY HereType, OffsetHere
  <2> QED  BY <2>1 DEF Here, Listed
<1>2. row[r].created # row[s].created
  BY <1>1 DEF Untied
<1>3. /\ row[r].created \in Nat /\ row[s].created \in Nat
      /\ row[r].priority \in Nat /\ row[s].priority \in Nat
  BY <1>1, RowType
<1>4. walk.list.order # "asc" /\ walk.list.first \in {"priority", "created_at"}
  BY OffsetShape
<1>5. CASE row[r].priority = row[s].priority \/ walk.list.first = "created_at"
  BY <1>2, <1>3, <1>4, <1>5, PrecedesMeans
<1>6. CASE walk.list.first = "priority" /\ row[r].priority > row[s].priority
  BY <1>4, <1>6, PrecedesMeans
<1>7. CASE walk.list.first = "priority" /\ row[s].priority > row[r].priority
  BY <1>4, <1>7, PrecedesMeans
<1> QED  BY <1>3, <1>4, <1>5, <1>6, <1>7

LEMMA OrderIsPartial ==
  ASSUME TypeOK, walk.list \in Routes \cup Calls, NEW r \in Rows, NEW s \in Rows, NEW t \in Rows
  PROVE  /\ ~Precedes(walk.list, r, r)
         /\ Precedes(walk.list, r, s) /\ Precedes(walk.list, s, t) => Precedes(walk.list, r, t)
  BY RowType, OffsetShape DEF Precedes

LEMMA AheadType ==
  ASSUME TypeOK, walk.list # None, NEW r
  PROVE  Ahead(r) \in SUBSET Rows /\ Ahead(r) \subseteq Here /\ Rank(r) \in Nat
  BY HereType, Finite DEF Ahead, Rank

LEMMA RanksDiffer ==
  ASSUME TypeOK, walk.list \in Routes \cup Calls,
         NEW r \in Here, Untied(r), NEW s \in Here, r # s
  PROVE  Rank(r) # Rank(s)
<1>0. walk.list # None /\ Here \subseteq Rows
  BY HereType, OffsetHere
<1>1. ASSUME NEW x \in Here, NEW y \in Here, Precedes(walk.list, x, y)
      PROVE  Rank(x) < Rank(y)
  <2>1. Ahead(x) \subseteq Ahead(y)
    BY <1>0, <1>1, OrderIsPartial DEF Ahead
  <2>2. x \in Ahead(y) \ Ahead(x)
    BY <1>0, <1>1, OrderIsPartial DEF Ahead
  <2>3. Ahead(y) \in SUBSET Rows
    BY <1>0, AheadType
  <2> QED  BY <2>1, <2>2, <2>3, Larger DEF Rank
<1>2. Rank(r) \in Nat /\ Rank(s) \in Nat
  BY <1>0, AheadType
<1> QED  BY <1>1, <1>2, OrderIsTotal

-----------------------------------------------------------------------------
(* A page. *)

\* What is not among the leading rows comes after them.
LEMMA LeadingComesFirst ==
  ASSUME TypeOK, walk.list \in Routes \cup Calls,
         NEW S \in SUBSET Here, NEW n \in Nat, NEW P \in Leading(walk.list, S, n),
         NEW r \in S \ P, Untied(r)
  PROVE  P \subseteq Ahead(r) /\ Cardinality(P) = n
<1>0. walk.list # None /\ Here \subseteq Rows
  BY HereType, OffsetHere
<1>1. P \subseteq S /\ \A p \in P : ~Precedes(walk.list, r, p)
  BY DEF Leading
<1>2. P \subseteq Ahead(r)
  BY <1>0, <1>1, OrderIsTotal DEF Ahead
<1>3. Cardinality(P) < Cardinality(S)
  BY <1>0, <1>1, Larger
<1>4. Cardinality(P) \in Nat /\ Cardinality(S) \in Nat
  BY <1>0, <1>1, Finite
<1>5. Cardinality(P) = IF n < Cardinality(S) THEN n ELSE Cardinality(S)
  BY DEF Leading
<1> QED  BY <1>2, <1>3, <1>4, <1>5

\* A row that has its place among the first ones was skipped or is on the page.
LEMMA PageHasItsRows ==
  ASSUME TypeOK, walk.list \in Routes \cup Calls, NEW limit \in Nat, NEW offset \in Nat,
         NEW page \in Pages(walk.list, limit, offset),
         NEW r \in Here \ page, Untied(r), Rank(r) < offset + limit
  PROVE  Rank(r) < offset
<1>0. walk.list # None /\ Here \subseteq Rows
  BY HereType, OffsetHere
<1>1. PICK skipped \in Leading(walk.list, Here, offset) :
        page \in Leading(walk.list, Here \ skipped, limit)
  BY DEF Pages, Here
<1>2. skipped \subseteq Here /\ page \subseteq Here \ skipped
  BY <1>1 DEF Leading
<1>3. CASE r \notin skipped
  <2>1. skipped \subseteq Ahead(r) /\ Cardinality(skipped) = offset
    <3>1. Here \in SUBSET Here /\ r \in Here \ skipped  BY <1>3
    <3> QED  BY <3>1, <1>1, LeadingComesFirst
  <2>2. page \subseteq Ahead(r) /\ Cardinality(page) = limit
    <3>1. Here \ skipped \in SUBSET Here /\ r \in (Here \ skipped) \ page  BY <1>3
    <3> QED  BY <3>1, <1>1, LeadingComesFirst
  <2>3. Cardinality(skipped \cup page) = offset + limit
    <3>1. IsFiniteSet(skipped) /\ IsFiniteSet(page)  BY <1>0, <1>2, Finite
    <3>2. skipped \cap page = {}  BY <1>2
    <3>3. Cardinality(skipped \cap page) = 0  BY <3>2, FS_EmptySet
    <3>4. Cardinality(skipped \cup page) =
            Cardinality(skipped) + Cardinality(page) - Cardinality(skipped \cap page)
      BY <3>1, FS_Union
    <3> QED  BY <2>1, <2>2, <3>3, <3>4
  <2>4. Cardinality(skipped \cup page) <= Rank(r)
    <3>1. Ahead(r) \in SUBSET Rows  BY <1>0, AheadType
    <3>2. skipped \cup page \in SUBSET Ahead(r)  BY <2>1, <2>2
    <3> QED  BY <3>1, <3>2, Smaller DEF Rank
  <2> QED  BY <1>0, <2>3, <2>4, AheadType
<1>4. CASE r \in skipped
  <2>1. Ahead(r) \subseteq skipped
    BY <1>4 DEF Leading, Ahead
  <2>2. r \notin Ahead(r)
    BY <1>0, OrderIsPartial DEF Ahead
  <2>3. Rank(r) < Cardinality(skipped)
    <3>1. skipped \in SUBSET Rows /\ Ahead(r) \in SUBSET skipped /\ r \in skipped \ Ahead(r)
      BY <1>0, <1>2, <1>4, <2>1, <2>2
    <3> QED  BY <3>1, Larger DEF Rank
  <2>4. Cardinality(skipped) = IF offset < Cardinality(Here) THEN offset ELSE Cardinality(Here)
    BY DEF Leading
  <2>5. Cardinality(Here) \in Nat /\ Rank(r) \in Nat
    BY <1>0, HereType, AheadType
  <2> QED  BY <2>3, <2>4, <2>5
<1> QED  BY <1>3, <1>4

-----------------------------------------------------------------------------
(* The writes of others. *)

Moved == {r \in Here \cap Here' : Key(r)' # Key(r)}
Gone == (Here \ Here') \cup Moved
Fresh == (Here' \ Here) \cup Moved

\* What every write does.
Evolves ==
  /\ TypeOK'
  /\ walk' = walk
  /\ \A r \in Rows : row[r].state # "absent" =>
       row'[r].state # "absent" /\ row'[r].created = row[r].created
  /\ IF walk.list = None THEN seen' = seen
     ELSE seen' = [seen EXCEPT !.steady = @ \ Gone,
                               !.arrivals = @ + Cardinality(Fresh),
                               !.departures = @ + Cardinality(Gone)]

LEMMA PresentRows ==
  ASSUME TypeOK, walk.list # None, NEW r \in Here
  PROVE  r \in Rows /\ row[r].state = "present"
  BY HereType DEF Here, Listed

\* Rows that leave the listing do not last, and ties never come undone.
LEMMA LastingShrinks ==
  ASSUME TypeOK, walk.list # None, seen.steady \subseteq Here, Evolves
  PROVE  /\ seen'.steady \subseteq Here' /\ seen'.shown = seen.shown
         /\ Lasting' \subseteq Lasting \ Gone
         /\ Missed' \subseteq Missed \ Gone
<1>1. seen'.steady = seen.steady \ Gone /\ seen'.shown = seen.shown
  BY DEF Evolves, TypeOK
<1>2. seen'.steady \subseteq Here'
  BY <1>1 DEF Gone
<1>3. ASSUME NEW r \in Here, Untied(r)'
      PROVE  Untied(r)
  <2>1. row'[r].created = row[r].created
    BY PresentRows DEF Evolves
  <2> QED  BY <1>3, <2>1 DEF Untied, Evolves
<1>4. Lasting' \subseteq Lasting \ Gone
  BY <1>1, <1>2, <1>3 DEF Lasting
<1> QED  BY <1>1, <1>2, <1>4 DEF Missed

LEMMA AheadKept ==
  ASSUME TypeOK, walk.list # None, Evolves, NEW r \in Here \cap Here', r \notin Gone
  PROVE  Ahead(r) \subseteq Ahead(r)' \cup Gone
<1> SUFFICES ASSUME NEW s \in Ahead(r), s \notin Gone
             PROVE  s \in Ahead(r)'
  OBVIOUS
<1>1. s \in Here /\ s \in Here' /\ Precedes(walk.list, s, r)
  BY DEF Ahead, Gone
<1>2. Key(s)' = Key(s) /\ Key(r)' = Key(r)
  BY <1>1 DEF Gone, Moved
<1>3. /\ row'[s].priority = row[s].priority /\ row'[s].created = row[s].created
      /\ row'[r].priority = row[r].priority /\ row'[r].created = row[r].created
  BY <1>2 DEF Key
<1>4. walk'.list = walk.list
  BY DEF Evolves
<1>5. Precedes(walk.list, s, r)'
  BY <1>1, <1>3, <1>4 DEF Precedes
<1> QED  BY <1>1, <1>5 DEF Ahead

LEMMA GoneType ==
  ASSUME TypeOK, walk.list # None, Evolves
  PROVE  /\ Gone \in SUBSET Rows /\ Cardinality(Gone) \in Nat
         /\ Fresh \in SUBSET Rows /\ Cardinality(Fresh) \in Nat
         /\ seen'.departures = seen.departures + Cardinality(Gone)
<1>1. Here \subseteq Rows /\ Here' \subseteq Rows
  <2>1. TypeOK' /\ walk'.list # None
    BY DEF Evolves
  <2>2. Here' \subseteq Rows
    BY <2>1, ListingShape DEF TypeOK, Here, Listed, Rows
  <2> QED  BY <2>2, HereType
<1>2. Gone \in SUBSET Rows /\ Fresh \in SUBSET Rows
  BY <1>1 DEF Gone, Fresh, Moved
<1> QED  BY <1>2, Finite DEF Evolves, TypeOK

LEMMA UnionBound ==
  ASSUME NEW S \in SUBSET Rows, NEW T \in SUBSET Rows, NEW U \in SUBSET (S \cup T)
  PROVE  Cardinality(U) <= Cardinality(S) + Cardinality(T)
<1>1. Cardinality(S \cup T) = Cardinality(S) + Cardinality(T) - Cardinality(S \cap T)
  BY Finite, FS_Union
<1>2. Cardinality(U) <= Cardinality(S \cup T)
  <2>1. S \cup T \in SUBSET Rows  OBVIOUS
  <2> QED  BY <2>1, Smaller
<1>3. /\ Cardinality(U) \in Nat /\ Cardinality(S) \in Nat /\ Cardinality(T) \in Nat
      /\ Cardinality(S \cap T) \in Nat
  BY Finite
<1> QED  BY <1>1, <1>2, <1>3

\* At most one lasting row has each rank.
LEMMA FewPerRank ==
  ASSUME TypeOK, walk.list \in Routes \cup Calls, seen.steady \subseteq Here,
         NEW S \in SUBSET Lasting, NEW n \in Int, NEW k \in Nat,
         \A r \in S : n <= Rank(r) /\ Rank(r) < n + k
  PROVE  Cardinality(S) <= k
<1> DEFINE ranks == n..(n + k - 1)
           f == [r \in S |-> Rank(r)]
<1>1. walk.list # None
  BY OffsetHere
<1>2. \A r \in S : r \in Here /\ Untied(r) /\ Rank(r) \in Nat
  BY <1>1, AheadType DEF Lasting
<1>3. f \in [S -> ranks]
  BY <1>2
<1>4. \A r, s \in S : f[r] = f[s] => r = s
  BY <1>2, RanksDiffer
<1>5. f \in Injection(S, ranks)
  <2> HIDE DEF f, ranks
  <2> QED  BY <1>3, <1>4 DEF Injection, IsInjective
<1>6. IsFiniteSet(ranks) /\ Cardinality(ranks) = k
  BY FS_Interval
<1>7. Cardinality(S) <= Cardinality(ranks)
  <2> HIDE DEF f, ranks
  <2> QED  BY <1>5, <1>6, FS_Injection
<1> QED  BY <1>6, <1>7

\* A row that leaves can make one more row overdue: the one that comes to stand
\* where the reader has been already.
LEMMA OverdueGrows ==
  ASSUME TypeOK, walk.list \in Routes \cup Calls, seen.steady \subseteq Here, Evolves,
         NEW page, NEW n \in Nat
  PROVE  Cardinality(Overdue(page, n)') <= Cardinality(Overdue(page, n)) + Cardinality(Gone)
<1> DEFINE k == Cardinality(Gone)
           band == {r \in Missed : n <= Rank(r) /\ Rank(r) < n + k}
<1>1. walk.list # None /\ k \in Nat
  BY OffsetHere, GoneType
<1>2. TypeOK' /\ walk'.list # None
  BY <1>1 DEF Evolves
<1>3. seen'.steady \subseteq Here' /\ Missed' \subseteq Missed \ Gone
  BY <1>1, LastingShrinks
<1>4. ASSUME NEW r \in Missed'
      PROVE  Rank(r) <= Rank(r)' + k /\ Rank(r) \in Nat /\ Rank(r)' \in Nat
  <2>1. r \in Here \cap Here' /\ r \notin Gone
    BY <1>3 DEF Missed, Lasting
  <2>2. Ahead(r) \subseteq Ahead(r)' \cup Gone
    BY <1>1, <2>1, AheadKept
  <2>3. Ahead(r) \in SUBSET Rows /\ Rank(r) \in Nat
    BY <1>1, AheadType
  <2>4. Ahead(r)' \in SUBSET Rows /\ Rank(r)' \in Nat
    <3>1. Here' \subseteq Rows
      BY <1>2, ListingShape DEF TypeOK, Here, Listed, Rows
    <3>2. Ahead(r)' \in SUBSET Rows
      BY <3>1 DEF Ahead
    <3> QED  BY <3>2, Finite DEF Rank
  <2>5. Cardinality(Ahead(r)) <= Cardinality(Ahead(r)') + k
    BY <1>1, <2>2, <2>3, <2>4, GoneType, UnionBound
  <2> QED  BY <2>3, <2>4, <2>5 DEF Rank
<1>5. Overdue(page, n)' \subseteq Overdue(page, n) \cup band
  <2> SUFFICES ASSUME NEW r \in Missed' \ page, Rank(r)' < n
               PROVE  r \in Overdue(page, n) \cup band
    BY DEF Overdue
  <2>1. r \in Missed \ page
    BY <1>3
  <2>2. Rank(r) < n \/ (n <= Rank(r) /\ Rank(r) < n + k)
    BY <1>1, <1>4
  <2> QED  BY <2>1, <2>2 DEF Overdue
<1>6. Missed \subseteq Rows
  BY <1>1, HereType DEF Missed, Lasting
<1>7. Overdue(page, n) \in SUBSET Rows /\ band \in SUBSET Rows
  BY <1>6 DEF Overdue
<1>8. Cardinality(Overdue(page, n)') <= Cardinality(Overdue(page, n)) + Cardinality(band)
  <2> HIDE DEF band
  <2> QED  BY <1>5, <1>7, UnionBound
<1>9. Cardinality(band) <= k
  <2>1. band \in SUBSET Lasting
    BY DEF Missed, Lasting
  <2>2. \A r \in band : n <= Rank(r) /\ Rank(r) < n + k
    OBVIOUS
  <2> HIDE DEF band, k
  <2> QED  BY <1>1, <2>1, <2>2, FewPerRank
<1>10. /\ Cardinality(band) \in Nat /\ Cardinality(Overdue(page, n)) \in Nat
       /\ Cardinality(Overdue(page, n)') \in Nat
  <2>1. Overdue(page, n)' \in SUBSET Rows
    BY <1>5, <1>7
  <2> QED  BY <2>1, <1>7, Finite
<1> QED  BY <1>1, <1>8, <1>9, <1>10

RowSet == [Rows -> [state : {"absent", "present", "deleted"},
                   status : Statuses \cup {None},
                   priority : Priorities \cup {0},
                   created : 0..(MaxChanges + 1)]]

LEMMA WriteEvolves ==
  ASSUME TypeOK, NEW new \in RowSet, Write(new),
         \A r \in Rows : row[r].state # "absent" =>
           new[r].state # "absent" /\ new[r].created = row[r].created
  PROVE  Evolves
<1>1. row' = new /\ walk' = walk /\ changes' = changes + 1 /\ changes < MaxChanges
  BY DEF Write
<1>2. IF walk.list = None THEN seen' = seen
      ELSE seen' = [seen EXCEPT !.steady = @ \ Gone,
                                !.arrivals = @ + Cardinality(Fresh),
                                !.departures = @ + Cardinality(Gone)]
  <2>1. Watch
    BY DEF Write
  <2> QED  BY <2>1 DEF Watch, Gone, Fresh, Moved, Here
<1>3. changes' \in 0..MaxChanges
  BY <1>1, LimitAssumption DEF TypeOK
<1>4. seen' \in [shown : [Rows -> Nat], steady : SUBSET Rows, arrivals : Nat, departures : Nat]
  <2>1. CASE walk.list = None
    BY <1>2, <2>1 DEF TypeOK
  <2>2. CASE walk.list # None
    <3>1. Here \subseteq Rows /\ Here' \subseteq Rows
      BY <1>1, <2>2, ListingShape DEF TypeOK, Here, Listed, Rows
    <3>2. Gone \in SUBSET Rows /\ Fresh \in SUBSET Rows
      BY <3>1 DEF Gone, Fresh, Moved
    <3>3. Cardinality(Gone) \in Nat /\ Cardinality(Fresh) \in Nat
      BY <3>2, Finite
    <3>4. /\ seen.shown \in [Rows -> Nat] /\ seen.steady \in SUBSET Rows
          /\ seen.arrivals \in Nat /\ seen.departures \in Nat
      BY DEF TypeOK
    <3>5. /\ seen.arrivals + Cardinality(Fresh) \in Nat
          /\ seen.departures + Cardinality(Gone) \in Nat
          /\ seen.steady \ Gone \in SUBSET Rows
      BY <3>3, <3>4
    <3> QED  BY <1>2, <2>2, <3>4, <3>5 DEF TypeOK
  <2> QED  BY <2>1, <2>2
<1>5. TypeOK'
  BY <1>1, <1>3, <1>4 DEF TypeOK, RowSet
<1> QED  BY <1>1, <1>2, <1>5 DEF Evolves

LEMMA CreateEvolves ==
  ASSUME TypeOK, NEW r \in Rows, NEW priority \in Priorities \cup {0}, Create(r, priority)
  PROVE  Evolves
<1>1. PICK now \in {changes, changes + 1} :
        Write([row EXCEPT ![r] = [state |-> "present",
                                  status |-> CHOOSE status \in Statuses : TRUE,
                                  priority |-> priority, created |-> now]])
  BY DEF Create
<1> DEFINE born == [state |-> "present", status |-> CHOOSE status \in Statuses : TRUE,
                    priority |-> priority, created |-> now]
           new == [row EXCEPT ![r] = born]
<1>2. (CHOOSE status \in Statuses : TRUE) \in Statuses
  BY StatusAssumption
<1>3. now \in 0..(MaxChanges + 1)
  <2>1. changes \in 0..MaxChanges /\ MaxChanges \in Nat
    BY LimitAssumption DEF TypeOK
  <2> QED  BY <2>1
<1>4. new \in RowSet
  BY <1>2, <1>3 DEF TypeOK, RowSet
<1>5. \A s \in Rows : row[s].state # "absent" =>
        new[s].state # "absent" /\ new[s].created = row[s].created
  BY DEF TypeOK, Create
<1> QED
  <2> HIDE DEF new
  <2> QED  BY <1>1, <1>4, <1>5, WriteEvolves DEF new

LEMMA SetPriorityEvolves ==
  ASSUME TypeOK, NEW t \in Tasks, NEW priority \in Priorities, SetPriority(t, priority)
  PROVE  Evolves
<1> DEFINE new == [row EXCEPT ![t].priority = priority]
<1>1. Write(new)
  BY DEF SetPriority
<1>2. new \in RowSet
  BY DEF TypeOK, RowSet, Rows
<1>3. \A s \in Rows : row[s].state # "absent" =>
        new[s].state # "absent" /\ new[s].created = row[s].created
  BY DEF TypeOK
<1> QED
  <2> HIDE DEF new
  <2> QED  BY <1>1, <1>2, <1>3, WriteEvolves

LEMMA SetStatusEvolves ==
  ASSUME TypeOK, NEW r \in Rows, NEW status \in Statuses, SetStatus(r, status)
  PROVE  Evolves
<1> DEFINE new == [row EXCEPT ![r].status = status]
<1>1. Write(new)
  BY DEF SetStatus
<1>2. new \in RowSet
  BY DEF TypeOK, RowSet
<1>3. \A s \in Rows : row[s].state # "absent" =>
        new[s].state # "absent" /\ new[s].created = row[s].created
  BY DEF TypeOK
<1> QED
  <2> HIDE DEF new
  <2> QED  BY <1>1, <1>2, <1>3, WriteEvolves

LEMMA DeleteEvolves ==
  ASSUME TypeOK, NEW t \in Tasks, Delete(t)
  PROVE  Evolves
<1> DEFINE new == [r \in Rows |->
             IF row[r].state = "present" /\ (r = t \/ (r \in Executions /\ ParentOf[r] = t))
               THEN [row[r] EXCEPT !.state = "deleted"] ELSE row[r]]
<1>1. Write(new)
  BY DEF Delete
<1>2. \A r \in Rows : new[r] = row[r] \/ new[r] = [row[r] EXCEPT !.state = "deleted"]
  OBVIOUS
<1>3. new \in RowSet
  <2>1. \A r \in Rows : new[r] \in [state : {"absent", "present", "deleted"},
                                   status : Statuses \cup {None},
                                   priority : Priorities \cup {0},
                                   created : 0..(MaxChanges + 1)]
    BY <1>2 DEF TypeOK
  <2> QED  BY <2>1 DEF RowSet
<1>4. \A s \in Rows : row[s].state # "absent" =>
        new[s].state # "absent" /\ new[s].created = row[s].created
  <2> SUFFICES ASSUME NEW s \in Rows, row[s].state # "absent"
               PROVE  new[s].state # "absent" /\ new[s].created = row[s].created
    OBVIOUS
  <2> HIDE DEF new
  <2>1. CASE new[s] = row[s]
    BY <2>1
  <2>2. CASE new[s] = [row[s] EXCEPT !.state = "deleted"]
    BY <2>2 DEF TypeOK
  <2> QED  BY <1>2, <2>1, <2>2
<1> QED
  <2> HIDE DEF new
  <2> QED  BY <1>1, <1>3, <1>4, WriteEvolves

LEMMA ChangeEvolves ==
  ASSUME TypeOK, Change
  PROVE  Evolves
  BY CreateEvolves, SetPriorityEvolves, SetStatusEvolves, DeleteEvolves DEF Change

LEMMA MissedType ==
  ASSUME TypeOK
  PROVE  /\ Missed \in SUBSET Rows /\ Cardinality(Missed) \in Nat
         /\ \A page, n : /\ Overdue(page, n) \in SUBSET Rows
                        /\ Cardinality(Overdue(page, n)) \in Nat
<1>1. Missed \in SUBSET Rows
  BY DEF TypeOK, Missed, Lasting
<1>2. \A page, n : Overdue(page, n) \in SUBSET Rows
  BY <1>1 DEF Overdue
<1> QED  BY <1>1, <1>2, Finite

\* The limits of a request by offset.
LEMMA QueryType ==
  ASSUME TypeOK, walk.list \in Routes \/ walk.ask \in Limits, NEW q \in Query
  PROVE  q.limit \in Nat /\ q.offset = walk.offset /\ walk.offset \in Nat
<1>1. CASE walk.list \in Routes
  BY <1>1, LimitAssumption DEF Query, ParsePagination, TypeOK
<1>2. CASE walk.list \notin Routes
  <2>1. q.limit = (IF walk.ask < 1 THEN RepositoryLimit ELSE walk.ask) /\ q.offset = walk.offset
    BY <1>2 DEF Query, Bounds
  <2>2. walk.ask \in Int /\ RepositoryLimit \in Nat
    BY <1>2, LimitAssumption
  <2>3. walk.offset \in Nat
    BY DEF TypeOK
  <2> QED  BY <2>1, <2>2, <2>3
<1> QED  BY <1>1, <1>2

LEMMA ChangeInv ==
  ASSUME Inv, Change
  PROVE  Inv'
<1>1. TypeOK /\ Evolves /\ TypeOK' /\ walk' = walk
  BY ChangeEvolves DEF Inv, Evolves
<1>2. CASE walk.list = None
  BY <1>1, <1>2 DEF Inv, ByOffset
<1>3. CASE walk.list # None
  <2>1. seen.steady \subseteq Here
    BY <1>3 DEF Inv
  <2>2. seen'.steady \subseteq Here' /\ Missed' \subseteq Missed
    BY <1>1, <1>3, <2>1, LastingShrinks
  <2>3. seen'.departures = seen.departures + Cardinality(Gone) /\ Cardinality(Gone) \in Nat
    BY <1>1, <1>3, GoneType
  <2>4. seen.departures \in Nat
    BY <1>1 DEF TypeOK
  <2>5. ASSUME walk.pc \in ByOffset, NEW page, NEW n \in Nat,
               Cardinality(Overdue(page, n)) <= seen.departures
        PROVE  Cardinality(Overdue(page, n)') <= seen'.departures
    <3>1. Cardinality(Overdue(page, n)') <= Cardinality(Overdue(page, n)) + Cardinality(Gone)
      BY <1>1, <2>1, <2>5, OverdueGrows DEF Inv
    <3>2. Cardinality(Overdue(page, n)) \in Nat
      BY <1>1, MissedType
    <3>3. Cardinality(Overdue(page, n)') \in Nat
      <4>1. Overdue(page, n)' \in SUBSET Rows
        BY <1>1 DEF TypeOK, Overdue, Missed, Lasting
      <4> QED  BY <4>1, Finite
    <3> QED  BY <2>3, <2>4, <2>5, <3>1, <3>2, <3>3
  <2>6. ASSUME walk.pc \in ByOffset
        PROVE  Cardinality(Overdue({}, walk.offset)') <= seen'.departures
    <3>1. walk.offset \in Nat /\ Cardinality(Overdue({}, walk.offset)) <= seen.departures
      BY <1>1, <2>6 DEF Inv, TypeOK
    <3> QED  BY <1>1, <2>5, <2>6, <3>1 DEF Overdue
  <2>7. ASSUME walk.pc = "count", NEW q \in Query
        PROVE  Cardinality(Overdue(walk.page, walk.offset + q.limit)') <= seen'.departures
    <3>1. Cardinality(Overdue(walk.page, walk.offset + q.limit)) <= seen.departures
      BY <2>7 DEF Inv
    <3>2. walk.offset + q.limit \in Nat
      BY <1>1, <2>7, QueryType DEF Inv, ByOffset
    <3> QED  BY <1>1, <2>5, <2>7, <3>1, <3>2 DEF Overdue, ByOffset
  <2>8. ASSUME walk.pc = "done"
        PROVE  Cardinality(Missed') <= seen'.departures
    <3>1. Cardinality(Missed) <= seen.departures
      BY <2>8 DEF Inv
    <3>2. Cardinality(Missed') <= Cardinality(Missed)
      BY <1>1, <2>2, MissedType, Smaller
    <3>3. Cardinality(Missed) \in Nat /\ Cardinality(Missed') \in Nat
      <4>1. Missed' \in SUBSET Rows
        BY <1>1, <2>2, MissedType
      <4> QED  BY <1>1, <4>1, MissedType, Finite
    <3> QED  BY <2>3, <2>4, <3>1, <3>2, <3>3
  <2>9. Query' = Query
    BY <1>1 DEF Query
  <2> QED  BY <1>1, <1>3, <2>2, <2>6, <2>7, <2>8, <2>9 DEF Inv
<1> QED  BY <1>2, <1>3

-----------------------------------------------------------------------------
(* The reader. *)

\* Steps that do not touch the rows leave places in the order alone.
LEMMA SameRanks ==
  ASSUME UNCHANGED row, walk'.list = walk.list, NEW r
  PROVE  Rank(r)' = Rank(r) /\ Here' = Here /\ (Untied(r)' <=> Untied(r))
<1>1. Here' = Here
  BY DEF Here, Listed, Selects
<1>2. Ahead(r)' = Ahead(r)
  BY <1>1 DEF Ahead, Precedes
<1> QED  BY <1>1, <1>2 DEF Rank, Untied

LEMMA SamePlace ==
  ASSUME UNCHANGED <<row, seen>>, walk'.list = walk.list, walk'.offset = walk.offset, NEW n
  PROVE  /\ Here' = Here
         /\ Overdue({}, walk.offset)' = Overdue({}, walk.offset)
         /\ Overdue(walk.page, walk.offset + n)' = Overdue(walk'.page, walk.offset + n)
<1>1. Missed' = Missed
  BY DEF Missed, Lasting, Untied
<1>2. Here' = Here /\ \A r : Rank(r)' = Rank(r)
  BY SameRanks
<1> QED  BY <1>1, <1>2 DEF Overdue

LEMMA StartType ==
  ASSUME TypeOK, NEW l \in Listings, NEW ask \in Limits \cup {None, Junk},
         NEW pc \in {"owner", "page", "cursor"}, NEW cursor \in {None, Junk},
         walk' = [pc |-> pc, list |-> l, ask |-> ask, offset |-> 0, page |-> {},
                  cursor |-> cursor],
         seen' = [shown |-> [r \in Rows |-> 0], steady |-> Listed(l), arrivals |-> 0,
                  departures |-> 0],
         UNCHANGED <<row, changes>>
  PROVE  /\ TypeOK'
         /\ walk'.pc = pc /\ walk'.list = l /\ walk'.ask = ask /\ walk'.offset = 0
         /\ walk'.list # None
         /\ seen'.steady = Here'
         /\ seen'.departures = 0
<1>1. /\ walk'.pc = pc /\ walk'.list = l /\ walk'.ask = ask /\ walk'.offset = 0
      /\ walk'.list # None
  BY ListingShape
<1>2. [r \in Rows |-> 0] \in [Rows -> Nat]
  OBVIOUS
<1>3. Listed(l) \subseteq Rows
  BY ListingShape DEF Listed, Rows
<1>4. Here' = Listed(l)
  BY <1>1 DEF Here, Listed, Selects
<1>5. walk' \in [pc : {"idle", "owner", "page", "count", "cursor", "done", "refused"},
                list : Listings \cup {None}, ask : Limits \cup {None, Junk}, offset : Nat,
                page : SUBSET Rows, cursor : Cursors \cup {None, Junk}]
  OBVIOUS
<1>6. seen' \in [shown : [Rows -> Nat], steady : SUBSET Rows, arrivals : Nat, departures : Nat]
  BY <1>2, <1>3
<1>7. TypeOK'
  BY <1>5, <1>6 DEF TypeOK
<1> QED  BY <1>1, <1>4, <1>7

LEMMA StartWalkInv ==
  ASSUME Inv, NEW l \in Routes \cup Calls, NEW ask \in Limits \cup {None, Junk},
         l \in Routes \/ ask \in Limits, StartWalk(l, ask)
  PROVE  Inv'
<1> DEFINE pc == FirstStatement(l)
<1>1. pc \in {"owner", "page"}
  BY DEF FirstStatement
<1>2. l \in Listings
  BY OffsetShape
<1>3. walk' = [pc |-> pc, list |-> l, ask |-> ask, offset |-> 0, page |-> {}, cursor |-> None]
  BY DEF StartWalk, Away
<1>4. seen' = [shown |-> [r \in Rows |-> 0], steady |-> Listed(l), arrivals |-> 0,
               departures |-> 0]
  BY DEF StartWalk, Nothing
<1>5. /\ TypeOK'
      /\ walk'.pc = pc /\ walk'.list = l /\ walk'.ask = ask /\ walk'.offset = 0
      /\ walk'.list # None
      /\ seen'.steady = Here'
      /\ seen'.departures = 0
  <2> HIDE DEF pc
  <2> QED  BY <1>1, <1>2, <1>3, <1>4, StartType DEF StartWalk, Inv
<1>6. Overdue({}, 0)' = {}
  <2>1. ASSUME NEW r  PROVE  Rank(r)' \in Nat
    <3>1. Here' \subseteq Rows
      BY <1>5, ListingShape DEF TypeOK, Here, Listed, Rows
    <3>2. Ahead(r)' \in SUBSET Rows
      BY <3>1 DEF Ahead
    <3> QED  BY <3>2, Finite DEF Rank
  <2> QED  BY <2>1 DEF Overdue
<1>7. Cardinality(Overdue({}, walk.offset)') <= seen'.departures
  BY <1>5, <1>6, FS_EmptySet DEF Overdue
<1> QED  BY <1>1, <1>5, <1>7 DEF Inv, ByOffset

LEMMA StartCursorInv ==
  ASSUME Inv, NEW l \in Listings, NEW ask \in Limits, NEW cursor \in {None, Junk},
         StartCursor(l, ask, cursor)
  PROVE  Inv'
<1>1. /\ TypeOK'
      /\ walk'.pc = "cursor" /\ walk'.ask = ask
      /\ walk'.list # None
      /\ seen'.steady = Here'
  <2>1. walk' = [pc |-> "cursor", list |-> l, ask |-> ask, offset |-> 0, page |-> {},
                 cursor |-> cursor]
    BY DEF StartCursor, Away
  <2>2. seen' = [shown |-> [r \in Rows |-> 0], steady |-> Listed(l), arrivals |-> 0,
                 departures |-> 0]
    BY DEF StartCursor, Nothing
  <2> QED  BY <2>1, <2>2, StartType DEF StartCursor, Inv
<1> QED  BY <1>1 DEF Inv, ByOffset

LEMMA CursorCallsAreListings ==
  ASSUME NEW field \in Fields, NEW order \in Directions, NEW ask,
         NEW l \in CursorCalls(ValidatePaginationRequest(ask, field).first, order)
  PROVE  l \in Listings
<1>1. ValidatePaginationRequest(ask, field).first
        \in {"created_at", "priority", "updated_at", "name"}
  BY SortAssumption DEF ValidatePaginationRequest
<1> QED  BY <1>1, SortAssumption DEF Listings

LEMMA StartInv ==
  ASSUME Inv, Start
  PROVE  Inv'
<1>1. CASE \E l \in Routes, ask \in Limits \cup {None, Junk} : StartWalk(l, ask)
  BY <1>1, StartWalkInv
<1>2. CASE \E l \in Calls, ask \in Limits : StartWalk(l, ask)
  BY <1>2, StartWalkInv
<1>3. CASE \E field \in Fields, order \in Directions, ask \in Limits, cursor \in {None, Junk} :
             \E l \in CursorCalls(ValidatePaginationRequest(ask, field).first, order) :
               StartCursor(l, ask, cursor)
  BY <1>3, CursorCallsAreListings, StartCursorInv
<1> QED  BY <1>1, <1>2, <1>3 DEF Start

\* A request that goes on, is refused, or starts over after a failure.
LEMMA StayInv ==
  ASSUME Inv, walk.pc \in ByOffset, UNCHANGED <<row, changes, seen>>,
         NEW pc \in {"owner", "page", "refused"},
         \/ walk' = [walk EXCEPT !.pc = pc]
         \/ walk' = [walk EXCEPT !.pc = pc, !.page = {}]
  PROVE  Inv'
<1>1. TypeOK'
  BY DEF Inv, TypeOK
<1>2. walk'.pc = pc /\ walk'.list = walk.list /\ walk'.ask = walk.ask /\ walk'.offset = walk.offset
  BY DEF Inv, TypeOK
<1>3. walk.list # None
  BY DEF Inv, ByOffset
<1>4. Here' = Here /\ Overdue({}, walk.offset)' = Overdue({}, walk.offset)
  BY <1>2, SamePlace
<1> QED  BY <1>1, <1>2, <1>3, <1>4 DEF Inv, ByOffset

LEMMA CheckOwnerInv ==
  ASSUME Inv, CheckOwner
  PROVE  Inv'
<1>1. \E pc \in {"page", "refused"} : walk' = [walk EXCEPT !.pc = pc]
  BY DEF CheckOwner
<1> QED  BY <1>1, StayInv DEF CheckOwner, ByOffset

LEMMA RejectQueryInv ==
  ASSUME Inv, RejectQuery
  PROVE  Inv'
  BY StayInv DEF RejectQuery, ByOffset

LEMMA FailInv ==
  ASSUME Inv, Fail
  PROVE  Inv'
<1> DEFINE pc == FirstStatement(walk.list)
<1>1. pc \in {"owner", "page"} /\ walk' = [walk EXCEPT !.pc = pc, !.page = {}]
  BY DEF Fail, FirstStatement
<1> QED
  <2> HIDE DEF pc
  <2> QED  BY <1>1, StayInv DEF Fail, ByOffset

LEMMA OneQuery ==
  ASSUME NEW p \in Query, NEW q \in Query
  PROVE  p = q
  BY DEF Query, ParsePagination, Bounds

LEMMA FetchPageInv ==
  ASSUME Inv, FetchPage
  PROVE  Inv'
<1>1. PICK q \in Query : \E page \in Pages(walk.list, q.limit, q.offset) :
        walk' = [walk EXCEPT !.pc = "count", !.page = page]
  BY DEF FetchPage
<1>2. PICK page \in Pages(walk.list, q.limit, q.offset) :
        walk' = [walk EXCEPT !.pc = "count", !.page = page]
  BY <1>1
<1>3. /\ TypeOK /\ walk.pc = "page" /\ UNCHANGED <<row, changes, seen>>
      /\ walk.list \in Routes \cup Calls
      /\ walk.list \in Routes \/ walk.ask \in Limits
      /\ Cardinality(Overdue({}, walk.offset)) <= seen.departures
  BY DEF FetchPage, Inv, ByOffset
<1>4. walk.list # None /\ Here \subseteq Rows /\ seen.steady \subseteq Here
  BY <1>3, OffsetHere, HereType DEF Inv
<1>5. q.limit \in Nat /\ q.offset = walk.offset /\ walk.offset \in Nat
  BY <1>3, QueryType
<1>6. page \in SUBSET Rows
  BY <1>4 DEF Pages, Leading, Here
<1>7. /\ walk'.pc = "count" /\ walk'.list = walk.list /\ walk'.ask = walk.ask
      /\ walk'.offset = walk.offset /\ walk'.page = page
  BY <1>2, <1>3 DEF TypeOK
<1>8. TypeOK'
  BY <1>2, <1>3, <1>6 DEF TypeOK
<1>9. Overdue(page, walk.offset + q.limit) \subseteq Overdue({}, walk.offset)
  <2> SUFFICES ASSUME NEW r \in Missed \ page, Rank(r) < walk.offset + q.limit
               PROVE  Rank(r) < walk.offset
    BY DEF Overdue
  <2>1. r \in Here \ page /\ Untied(r)
    BY <1>4 DEF Missed, Lasting
  <2> QED  BY <1>3, <1>5, <2>1, PageHasItsRows
<1>10. Cardinality(Overdue(page, walk.offset + q.limit)) <= seen.departures
  <2>1. Cardinality(Overdue(page, walk.offset + q.limit)) <= Cardinality(Overdue({}, walk.offset))
    BY <1>3, <1>9, MissedType, Smaller
  <2>2. /\ Cardinality(Overdue(page, walk.offset + q.limit)) \in Nat
        /\ Cardinality(Overdue({}, walk.offset)) \in Nat /\ seen.departures \in Nat
    BY <1>3, MissedType DEF TypeOK
  <2> QED  BY <1>3, <2>1, <2>2
<1>11. /\ Here' = Here
       /\ Overdue({}, walk.offset)' = Overdue({}, walk.offset)
       /\ Overdue(walk.page, walk.offset + q.limit)' = Overdue(page, walk.offset + q.limit)
  BY <1>3, <1>7, SamePlace
<1>12. Query' = Query
  BY <1>7 DEF Query
<1>13. ASSUME NEW p \in Query'
       PROVE  Cardinality(Overdue(walk.page, walk.offset + p.limit)') <= seen'.departures
  <2>1. p = q
    BY <1>12, OneQuery
  <2> QED  BY <1>3, <1>10, <1>11, <2>1
<1> QED  BY <1>3, <1>4, <1>7, <1>8, <1>11, <1>13 DEF Inv, ByOffset

LEMMA ShowType ==
  ASSUME TypeOK, NEW page, Show(page)
  PROVE  /\ seen' \in [shown : [Rows -> Nat], steady : SUBSET Rows,
                      arrivals : Nat, departures : Nat]
         /\ seen'.steady = seen.steady /\ seen'.departures = seen.departures
         /\ \A r \in Rows : seen'.shown[r] = IF r \in page THEN seen.shown[r] + 1 ELSE seen.shown[r]
<1> DEFINE shown == [r \in Rows |-> IF r \in page THEN seen.shown[r] + 1 ELSE seen.shown[r]]
<1>1. seen' = [seen EXCEPT !.shown = shown]
  BY DEF Show
<1>2. \A r \in Rows : seen.shown[r] \in Nat
  BY DEF TypeOK
<1>3. shown \in [Rows -> Nat]
  BY <1>2
<1>4. \A r \in Rows : shown[r] = IF r \in page THEN seen.shown[r] + 1 ELSE seen.shown[r]
  OBVIOUS
<1> HIDE DEF shown
<1> QED  BY <1>1, <1>3, <1>4 DEF TypeOK

\* What is shown is missed no longer.
LEMMA ShownIsNotMissed ==
  ASSUME TypeOK, NEW page, Show(page), UNCHANGED row
  PROVE  Missed' \subseteq Missed \ page
<1> SUFFICES ASSUME NEW r \in Missed'
             PROVE  r \in Missed \ page
  OBVIOUS
<1>1. r \in seen.steady /\ r \in Rows /\ Untied(r) /\ seen'.shown[r] = 0
  BY ShowType DEF Missed, Lasting, Untied, TypeOK
<1>2. seen.shown[r] \in Nat
  BY <1>1 DEF TypeOK
<1> QED  BY <1>1, <1>2, ShowType DEF Missed, Lasting

LEMMA CountTotalInv ==
  ASSUME Inv, CountTotal
  PROVE  Inv'
<1> DEFINE first == FirstStatement(walk.list)
           page == walk.page
<1>1. PICK q \in Query :
        walk' = [walk EXCEPT !.offset = @ + q.limit, !.page = {},
                             !.pc = IF q.offset + q.limit >= Total(walk.list)
                                      THEN "done" ELSE first]
  BY DEF CountTotal
<1>2. /\ TypeOK /\ walk.pc = "count" /\ UNCHANGED <<row, changes>> /\ Show(page)
      /\ walk.list \in Routes \cup Calls
      /\ walk.list \in Routes \/ walk.ask \in Limits
      /\ Cardinality(Overdue(page, walk.offset + q.limit)) <= seen.departures
  BY DEF CountTotal, Inv, ByOffset
<1>3. walk.list # None /\ Here \subseteq Rows /\ seen.steady \subseteq Here
  BY <1>2, OffsetHere, HereType DEF Inv
<1>4. q.limit \in Nat /\ q.offset = walk.offset /\ walk.offset \in Nat
  BY <1>2, QueryType
<1>5. first \in {"owner", "page"}
  BY DEF FirstStatement
<1> HIDE DEF first, page
<1>6. /\ walk'.pc = IF q.offset + q.limit >= Total(walk.list) THEN "done" ELSE first
      /\ walk'.list = walk.list /\ walk'.ask = walk.ask
      /\ walk'.offset = walk.offset + q.limit /\ walk'.page = {} /\ walk'.cursor = walk.cursor
  BY <1>1, <1>2 DEF TypeOK
<1>7. TypeOK'
  <2>1. seen' \in [shown : [Rows -> Nat], steady : SUBSET Rows, arrivals : Nat, departures : Nat]
    BY <1>2, ShowType
  <2>2. walk'.pc \in {"owner", "page", "done"} /\ walk.offset + q.limit \in Nat
    BY <1>4, <1>5, <1>6
  <2>3. walk' \in [pc : {"idle", "owner", "page", "count", "cursor", "done", "refused"},
                  list : Listings \cup {None}, ask : Limits \cup {None, Junk}, offset : Nat,
                  page : SUBSET Rows, cursor : Cursors \cup {None, Junk}]
    BY <1>1, <1>2, <1>5, <2>2 DEF TypeOK
  <2> QED  BY <1>2, <2>1, <2>3 DEF TypeOK
<1>8. Missed' \subseteq Missed \ page
  BY <1>2, ShownIsNotMissed
<1>9. Here' = Here /\ \A r : Rank(r)' = Rank(r)
  BY <1>2, <1>6, SameRanks
<1>10. seen'.steady = seen.steady /\ seen'.departures = seen.departures /\ seen.departures \in Nat
  BY <1>2, ShowType DEF TypeOK
<1>11. ASSUME NEW S \in SUBSET Overdue(page, walk.offset + q.limit)
       PROVE  Cardinality(S) <= seen'.departures
  <2>1. Overdue(page, walk.offset + q.limit) \in SUBSET Rows
    BY <1>2, MissedType
  <2>2. Cardinality(S) <= Cardinality(Overdue(page, walk.offset + q.limit))
    BY <2>1, Smaller
  <2>3. Cardinality(S) \in Nat /\ Cardinality(Overdue(page, walk.offset + q.limit)) \in Nat
    BY <2>1, Finite
  <2> QED  BY <1>2, <1>10, <2>2, <2>3
<1>12. Cardinality(Overdue({}, walk.offset)') <= seen'.departures
  <2>1. Overdue({}, walk.offset)' \in SUBSET Overdue(page, walk.offset + q.limit)
    BY <1>6, <1>8, <1>9 DEF Overdue
  <2> QED  BY <1>11, <2>1
<1>13. ASSUME walk'.pc = "done"
       PROVE  Cardinality(Missed') <= seen'.departures
  <2>1. Cardinality(Here) <= walk.offset + q.limit
    <3>1. q.offset + q.limit >= Cardinality(Here)
      BY <1>5, <1>6, <1>13 DEF Total, Here
    <3> QED  BY <1>3, <1>4, <3>1, HereType
  <2>2. ASSUME NEW r \in Missed
        PROVE  Rank(r) < walk.offset + q.limit
    <3>1. r \in Here /\ r \notin Ahead(r)
      BY <1>2, <1>3, OrderIsPartial DEF Missed, Lasting, Ahead
    <3>2. Ahead(r) \in SUBSET Here /\ Rank(r) \in Nat
      BY <1>2, <1>3, AheadType
    <3>3. Rank(r) < Cardinality(Here)
      BY <1>3, <3>1, <3>2, Larger DEF Rank
    <3>4. Cardinality(Here) \in Nat
      BY <1>2, <1>3, HereType
    <3> QED  BY <1>4, <2>1, <3>2, <3>3, <3>4
  <2>3. Missed' \in SUBSET Overdue(page, walk.offset + q.limit)
    BY <1>8, <2>2 DEF Overdue
  <2> QED  BY <1>11, <2>3
<1>14. walk'.pc \in {"owner", "page", "done"}
  BY <1>5, <1>6
<1> QED  BY <1>2, <1>3, <1>6, <1>7, <1>9, <1>10, <1>12, <1>13, <1>14 DEF Inv, ByOffset

\* The statements with a cursor bind more arguments than they name, in another
\* order, so that none is accepted: the second placeholder of the condition names
\* the type of a later argument.
THEOREM NoCursorIsPrepared ==
  ASSUME NEW l, NEW cursor, Prepared(BuildCursorWhere(l, cursor))
  PROVE  cursor = None
<1> SUFFICES ASSUME cursor # None PROVE FALSE
  OBVIOUS
<1> DEFINE filter == IF l.by = "all" THEN <<>> ELSE <<"filter">>
           n == Len(filter)
           where == BuildCursorCondition(l, n + 1)
           statement == BuildCursorWhere(l, cursor)
           second == IF l.first = "priority" THEN "int" ELSE "time"
<1>1. ASSUME l.by = "all", l.first = "priority"
      PROVE  n + 2 \in 1..Len(statement.args) /\ statement.args[n + 2] = second
  <2>1. filter = <<>> /\ second = "int" /\ where.args = <<"int", "int", "time", "int", "time", "uuid">>
    BY <1>1 DEF BuildCursorCondition
  <2>2. statement.args = Append(filter \o where.args, "limit")
    BY DEF BuildCursorWhere
  <2> HIDE DEF filter, where, statement, second
  <2>3. n = 0
    BY <2>1
  <2> HIDE DEF n
  <2>4. Len(statement.args) = 7
    BY <2>1, <2>2
  <2>5. statement.args[2] = "int"
    BY <2>1, <2>2
  <2> QED  BY <2>1, <2>3, <2>4, <2>5
<1>2. ASSUME l.by = "all", l.first # "priority"
      PROVE  n + 2 \in 1..Len(statement.args) /\ statement.args[n + 2] = second
  <2>1. filter = <<>> /\ second = "time" /\ where.args = <<"time", "time", "uuid">>
    BY <1>2 DEF BuildCursorCondition
  <2>2. statement.args = Append(filter \o where.args, "limit")
    BY DEF BuildCursorWhere
  <2> HIDE DEF filter, where, statement, second
  <2>3. n = 0
    BY <2>1
  <2> HIDE DEF n
  <2>4. Len(statement.args) = 4
    BY <2>1, <2>2
  <2>5. statement.args[2] = "time"
    BY <2>1, <2>2
  <2> QED  BY <2>1, <2>3, <2>4, <2>5
<1>3. ASSUME l.by # "all", l.first = "priority"
      PROVE  n + 2 \in 1..Len(statement.args) /\ statement.args[n + 2] = second
  <2>1. filter = <<"filter">> /\ second = "int" /\ where.args = <<"int", "int", "time", "int", "time", "uuid">>
    BY <1>3 DEF BuildCursorCondition
  <2>2. statement.args = Append(filter \o where.args, "limit")
    BY DEF BuildCursorWhere
  <2> HIDE DEF filter, where, statement, second
  <2>3. n = 1
    BY <2>1
  <2> HIDE DEF n
  <2>4. Len(statement.args) = 8
    BY <2>1, <2>2
  <2>5. statement.args[3] = "int"
    BY <2>1, <2>2
  <2> QED  BY <2>1, <2>3, <2>4, <2>5
<1>4. ASSUME l.by # "all", l.first # "priority"
      PROVE  n + 2 \in 1..Len(statement.args) /\ statement.args[n + 2] = second
  <2>1. filter = <<"filter">> /\ second = "time" /\ where.args = <<"time", "time", "uuid">>
    BY <1>4 DEF BuildCursorCondition
  <2>2. statement.args = Append(filter \o where.args, "limit")
    BY DEF BuildCursorWhere
  <2> HIDE DEF filter, where, statement, second
  <2>3. n = 1
    BY <2>1
  <2> HIDE DEF n
  <2>4. Len(statement.args) = 5
    BY <2>1, <2>2
  <2>5. statement.args[3] = "time"
    BY <2>1, <2>2
  <2> QED  BY <2>1, <2>3, <2>4, <2>5
<1>5. n \in Nat /\ second # "limit"
  <2>1. filter \in {<<>>, <<"filter">>}
    OBVIOUS
  <2> HIDE DEF filter
  <2> QED  BY <2>1
<1>6. \A type : <<n + 2, type>> \in where.uses => type # second
  <2> HIDE DEF n
  <2>1. CASE l.first = "priority"
    BY <1>5, <2>1 DEF BuildCursorCondition
  <2>2. CASE l.first # "priority"
    BY <1>5, <2>2 DEF BuildCursorCondition
  <2> QED  BY <2>1, <2>2
<1>7. PICK last : statement.uses = ({<<i, filter[i]>> : i \in 1..n} \cup where.uses)
                                     \cup {<<last, "limit">>}
  <2> HIDE DEF where
  <2> QED  BY DEF BuildCursorWhere, where
<1> HIDE DEF filter, n, where, statement, second
<1>8. <<n + 2, second>> \in statement.uses
  BY <1>1, <1>2, <1>3, <1>4 DEF Prepared, statement
<1>9. <<n + 2, second>> \notin statement.uses
  BY <1>5, <1>6, <1>7
<1> QED  BY <1>8, <1>9

LEMMA FetchCursorPageInv ==
  ASSUME Inv, FetchCursorPage
  PROVE  Inv'
<1> DEFINE l == walk.list
           limit == ValidatePaginationRequest(walk.ask, l.first).limit
<1>1. /\ TypeOK /\ walk.pc = "cursor" /\ walk.ask \in Limits /\ walk.list # None
      /\ seen.steady \subseteq Here /\ UNCHANGED <<row, changes>>
      /\ walk.cursor = None
  BY NoCursorIsPrepared DEF FetchCursorPage, Inv
<1>2. limit \in Nat
  <2>1. /\ walk.ask \in Int /\ DefaultLimit \in Nat /\ MaxLimit \in Nat
    BY <1>1, LimitAssumption
  <2> QED  BY <2>1 DEF ValidatePaginationRequest
<1>3. PICK page \in Leading(l, Here, limit) :
        /\ Show(page)
        /\ \/ ~(Cardinality(Here) > limit) /\ walk' = [walk EXCEPT !.pc = "done"]
           \/ \E last \in page : walk' = [walk EXCEPT !.cursor = CursorOf(last)]
  BY <1>1 DEF FetchCursorPage, Behind, Here
<1> HIDE DEF limit
<1>4. page \subseteq Here /\ Here \subseteq Rows /\ IsFiniteSet(Here)
  BY <1>1, <1>3, HereType DEF Leading
<1>5. /\ seen' \in [shown : [Rows -> Nat], steady : SUBSET Rows, arrivals : Nat, departures : Nat]
      /\ seen'.steady = seen.steady /\ seen'.departures = seen.departures
      /\ seen.departures \in Nat
  BY <1>1, <1>3, ShowType DEF TypeOK
<1>6. Missed' \subseteq Missed \ page
  BY <1>1, <1>3, ShownIsNotMissed
<1>7. CASE ~(Cardinality(Here) > limit) /\ walk' = [walk EXCEPT !.pc = "done"]
  <2>1. walk'.pc = "done" /\ walk'.list = walk.list /\ TypeOK'
    BY <1>1, <1>5, <1>7 DEF TypeOK
  <2>2. Cardinality(page) = Cardinality(Here)
    <3>1. Cardinality(Here) \in Nat
      BY <1>1, HereType
    <3> QED  BY <1>2, <1>3, <1>7, <3>1 DEF Leading
  <2>3. page = Here
    BY <1>4, <2>2, FS_Subset
  <2>4. Missed' = {}
    BY <1>1, <1>6, <2>3 DEF Missed, Lasting
  <2>5. Cardinality(Missed') = 0
    BY <2>4, FS_EmptySet
  <2>6. Here' = Here
    BY <1>1, <2>1, SameRanks
  <2> QED  BY <1>1, <1>5, <2>1, <2>5, <2>6 DEF Inv, ByOffset
<1>8. CASE \E last \in page : walk' = [walk EXCEPT !.cursor = CursorOf(last)]
  <2>1. PICK last \in page : walk' = [walk EXCEPT !.cursor = CursorOf(last)]
    BY <1>8
  <2>2. CursorOf(last) \in Cursors
    <3>1. last \in Rows
      BY <1>4
    <3>2. row[last].created \in Nat /\ row[last].priority \in Priorities \cup {0}
      BY <1>1, <3>1, RowType DEF TypeOK
    <3> QED  BY <3>1, <3>2 DEF CursorOf, Cursors
  <2>3. walk'.pc = "cursor" /\ walk'.list = walk.list /\ walk'.ask = walk.ask
    BY <1>1, <2>1 DEF TypeOK
  <2>4. TypeOK'
    BY <1>1, <1>5, <2>1, <2>2 DEF TypeOK
  <2>5. Here' = Here
    BY <1>1, <2>3, SameRanks
  <2> QED  BY <1>1, <1>5, <2>3, <2>4, <2>5 DEF Inv, ByOffset
<1> QED  BY <1>3, <1>7, <1>8

LEMMA RefuseCursorInv ==
  ASSUME Inv, RefuseCursor
  PROVE  Inv'
<1>1. TypeOK' /\ walk'.pc = "refused" /\ walk'.list = walk.list
  BY DEF RefuseCursor, Inv, TypeOK
<1>2. Here' = Here /\ walk.list # None
  BY <1>1, SameRanks DEF RefuseCursor, Inv
<1> QED  BY <1>1, <1>2 DEF RefuseCursor, Inv, ByOffset

LEMMA RestIsFine ==
  ASSUME TypeOK, walk = Away
  PROVE  Inv
  BY DEF Inv, Away, ByOffset

LEMMA RestType ==
  /\ Away \in [pc : {"idle", "owner", "page", "count", "cursor", "done", "refused"},
               list : Listings \cup {None}, ask : Limits \cup {None, Junk}, offset : Nat,
               page : SUBSET Rows, cursor : Cursors \cup {None, Junk}]
  /\ Nothing \in [shown : [Rows -> Nat], steady : SUBSET Rows, arrivals : Nat, departures : Nat]
  BY DEF Away, Nothing

LEMMA LeaveInv ==
  ASSUME Inv, Leave
  PROVE  Inv'
<1>1. TypeOK'
  BY RestType DEF Leave, Inv, TypeOK
<1> QED  BY <1>1 DEF Leave, Inv, Away, ByOffset

-----------------------------------------------------------------------------
(* Theorems. *)

LEMMA InitInv == Init => Inv
<1> SUFFICES ASSUME Init PROVE Inv
  OBVIOUS
<1>1. Unborn \in [state : {"absent", "present", "deleted"}, status : Statuses \cup {None},
                  priority : Priorities \cup {0}, created : 0..(MaxChanges + 1)]
  BY LimitAssumption DEF Unborn
<1>2. changes \in 0..MaxChanges
  BY LimitAssumption DEF Init
<1>3. TypeOK
  BY <1>1, <1>2, RestType DEF Init, TypeOK
<1> QED  BY <1>3, RestIsFine DEF Init

LEMMA NextInv == Inv /\ [Next]_vars => Inv'
<1> SUFFICES ASSUME Inv, [Next]_vars PROVE Inv'
  OBVIOUS
<1>1. CASE UNCHANGED vars
  <2>1. Here' = Here /\ Missed' = Missed /\ \A r : Rank(r)' = Rank(r)
    BY <1>1, SameRanks DEF vars, Missed, Lasting, Untied
  <2>2. /\ Overdue({}, walk.offset)' = Overdue({}, walk.offset)
        /\ \A n : Overdue(walk.page, walk.offset + n)' = Overdue(walk.page, walk.offset + n)
    BY <1>1, SamePlace DEF vars
  <2>3. TypeOK' /\ Query' = Query
    BY <1>1 DEF vars, Inv, TypeOK, Query
  <2>4. ASSUME walk.pc = "count", NEW q \in Query
        PROVE  Cardinality(Overdue(walk.page, walk.offset + q.limit)') <= seen'.departures
    BY <1>1, <2>2, <2>4 DEF vars, Inv
  <2> QED  BY <1>1, <2>1, <2>2, <2>3, <2>4 DEF vars, Inv
<1> QED  BY <1>1, ChangeInv, StartInv, CheckOwnerInv, RejectQueryInv, FetchPageInv, CountTotalInv,
            FailInv, FetchCursorPageInv, RefuseCursorInv, LeaveInv DEF Next

\* The inductive invariant: what a reader by offset has missed and will not come
\* to, or would not find on the page it holds, are no more rows than have left.
THEOREM Invariance == Spec => []Inv
  BY InitInv, NextInv, PTL DEF Spec

\* Type correctness.
THEOREM TypeCorrect == Spec => []TypeOK
<1>1. Inv => TypeOK
  BY DEF Inv
<1> QED  BY <1>1, Invariance, PTL

\* Whatever changes between the statements of a walk, and for all limits: a
\* reader who reaches the end has missed no more rows than have left or moved.
THEOREM FewSkips == Spec => []SkipsNeedDepartures
<1>1. Inv => SkipsNeedDepartures
  BY DEF Inv, SkipsNeedDepartures
<1> QED  BY <1>1, Invariance, PTL

-----------------------------------------------------------------------------
(* Rows that are shown twice. *)

\* How often a row has been shown once the page is.
Times(r, page) == IF r \in page THEN seen.shown[r] + 1 ELSE seen.shown[r]
Again(page) == UNION {{r} \X (2..Times(r, page)) : r \in Lasting}

\* Rows that the reader has seen or holds, and that stand where it reads on: the
\* ones it would see once more.
Due(page, n) == {r \in Lasting : Times(r, page) # 0 /\ n <= Rank(r)}

Repaid(page, n) ==
  IsFiniteSet(Again(page)) /\ Cardinality(Again(page)) + Cardinality(Due(page, n)) <= seen.arrivals

RInv ==
  /\ walk.list = None => seen = Nothing
  /\ IsFiniteSet(Again({})) /\ Cardinality(Again({})) <= seen.arrivals
  /\ walk.pc \in ByOffset => Repaid({}, walk.offset)
  /\ walk.pc = "count" => \A q \in Query : Repaid(walk.page, walk.offset + q.limit)
  /\ walk.pc = "cursor" =>
       /\ Again({}) = {}
       /\ walk.cursor = None => \A r \in Rows : seen.shown[r] = 0

LEMMA LastingType ==
  ASSUME TypeOK
  PROVE  /\ Lasting \in SUBSET Rows
         /\ \A page, n : Due(page, n) \in SUBSET Rows /\ Cardinality(Due(page, n)) \in Nat
         /\ \A page : \A r \in Rows : Times(r, page) \in Nat
         /\ seen.arrivals \in Nat
<1>1. Lasting \in SUBSET Rows
  BY DEF TypeOK, Lasting
<1>2. \A page, n : Due(page, n) \in SUBSET Rows
  BY <1>1 DEF Due
<1>3. \A page : \A r \in Rows : Times(r, page) \in Nat
  <2>1. \A r \in Rows : seen.shown[r] \in Nat
    BY DEF TypeOK
  <2> QED  BY <2>1 DEF Times
<1> QED  BY <1>1, <1>2, <1>3, Finite DEF TypeOK

LEMMA AgainMember ==
  ASSUME NEW page, NEW x
  PROVE  x \in Again(page) <=> \E r \in Lasting : \E k \in 2..Times(r, page) : x = <<r, k>>
  BY DEF Again

LEMMA RepeatsAreAgain == Repeats(Lasting) = Again({})
  BY DEF Repeats, Again, Times

\* A row that enters the listing can bring one more row back: the one that it
\* pushes to where the reader has not been yet.
LEMMA NewcomersAhead ==
  ASSUME TypeOK, walk.list # None, Evolves, NEW r \in Here \cap Here', r \notin Gone
  PROVE  Ahead(r)' \subseteq Ahead(r) \cup Fresh
<1> SUFFICES ASSUME NEW s \in Ahead(r)', s \notin Fresh
             PROVE  s \in Ahead(r)
  OBVIOUS
<1>1. walk'.list = walk.list
  BY DEF Evolves
<1>2. s \in Here' /\ s \in Here /\ Precedes(walk.list, s, r)'
  BY DEF Ahead, Fresh
<1>3. Key(s)' = Key(s) /\ Key(r)' = Key(r)
  BY <1>2 DEF Gone, Fresh, Moved
<1>4. /\ row'[s].priority = row[s].priority /\ row'[s].created = row[s].created
      /\ row'[r].priority = row[r].priority /\ row'[r].created = row[r].created
  BY <1>3 DEF Key
<1>5. Precedes(walk.list, s, r)
  BY <1>1, <1>2, <1>4 DEF Precedes
<1> QED  BY <1>2, <1>5 DEF Ahead

LEMMA DueGrows ==
  ASSUME TypeOK, walk.list \in Routes \cup Calls, seen.steady \subseteq Here, Evolves,
         NEW page, NEW n \in Nat
  PROVE  Cardinality(Due(page, n)') <= Cardinality(Due(page, n)) + Cardinality(Fresh)
<1> DEFINE k == Cardinality(Fresh)
           band == {r \in Lasting : n - k <= Rank(r) /\ Rank(r) < n}
<1>1. walk.list # None /\ k \in Nat
  BY OffsetHere, GoneType
<1>2. TypeOK' /\ walk'.list # None
  BY <1>1 DEF Evolves
<1>3. /\ seen'.steady \subseteq Here' /\ seen'.shown = seen.shown
      /\ Lasting' \subseteq Lasting \ Gone
  BY <1>1, LastingShrinks
<1>4. ASSUME NEW r \in Lasting'
      PROVE  Rank(r)' <= Rank(r) + k /\ Rank(r) \in Nat /\ Rank(r)' \in Nat
  <2>1. r \in Here \cap Here' /\ r \notin Gone
    BY <1>3 DEF Lasting
  <2>2. Ahead(r)' \subseteq Ahead(r) \cup Fresh
    BY <1>1, <2>1, NewcomersAhead
  <2>3. Ahead(r) \in SUBSET Rows /\ Rank(r) \in Nat
    BY <1>1, AheadType
  <2>4. Cardinality(Ahead(r)') <= Cardinality(Ahead(r)) + k
    BY <1>1, <2>2, <2>3, GoneType, UnionBound
  <2>5. Rank(r)' \in Nat
    <3>1. Here' \subseteq Rows
      BY <1>2, ListingShape DEF TypeOK, Here, Listed, Rows
    <3>2. Ahead(r)' \in SUBSET Rows
      BY <3>1 DEF Ahead
    <3> QED  BY <3>2, Finite DEF Rank
  <2> QED  BY <2>3, <2>4, <2>5 DEF Rank
<1>5. Due(page, n)' \subseteq Due(page, n) \cup band
  <2> SUFFICES ASSUME NEW r \in Lasting', Times(r, page)' # 0, n <= Rank(r)'
               PROVE  r \in Due(page, n) \cup band
    BY DEF Due
  <2>1. r \in Lasting /\ Times(r, page) # 0
    BY <1>3 DEF Times
  <2>2. n <= Rank(r) \/ (n - k <= Rank(r) /\ Rank(r) < n)
    BY <1>1, <1>4
  <2> QED  BY <2>1, <2>2 DEF Due
<1>6. Due(page, n) \in SUBSET Rows /\ band \in SUBSET Rows
  <2>1. \A m : Due(page, m) \in SUBSET Rows
    BY LastingType
  <2>2. Lasting \in SUBSET Rows
    BY LastingType
  <2> QED  BY <2>1, <2>2
<1>7. Cardinality(Due(page, n)') <= Cardinality(Due(page, n)) + Cardinality(band)
  <2> HIDE DEF band
  <2> QED  BY <1>5, <1>6, UnionBound
<1>8. Cardinality(band) <= k
  <2>1. band \in SUBSET Lasting /\ n - k \in Int
    BY <1>1
  <2>2. \A r \in band : n - k <= Rank(r) /\ Rank(r) < n - k + k
    BY <1>1, <1>6, AheadType
  <2> HIDE DEF band, k
  <2> QED  BY <1>1, <2>1, <2>2, FewPerRank
<1>9. /\ Cardinality(band) \in Nat /\ Cardinality(Due(page, n)) \in Nat
      /\ Cardinality(Due(page, n)') \in Nat
  <2>1. Due(page, n)' \in SUBSET Rows
    BY <1>5, <1>6
  <2> QED  BY <2>1, <1>6, Finite
<1> QED  BY <1>1, <1>7, <1>8, <1>9

LEMMA NothingIsRepaid ==
  ASSUME walk'.pc \notin ByOffset \cup {"cursor"}, seen' = Nothing
  PROVE  RInv'
<1>1. Lasting' = {} /\ seen'.arrivals = 0
  BY DEF Nothing, Lasting
<1>2. Again({})' = {}
  BY <1>1 DEF Again
<1>3. IsFiniteSet(Again({})') /\ Cardinality(Again({})') = 0
  BY <1>2, FS_EmptySet
<1> QED  BY <1>1, <1>3 DEF RInv, ByOffset

LEMMA ChangeRInv ==
  ASSUME Inv, RInv, Change
  PROVE  RInv'
<1>1. TypeOK /\ Evolves /\ walk' = walk
  BY ChangeEvolves DEF Inv, Evolves
<1>2. CASE walk.list = None
  <2>1. walk'.list = None /\ walk'.pc = "idle" /\ seen' = Nothing
    BY <1>1, <1>2 DEF Inv, RInv, Evolves
  <2> QED  BY <2>1, NothingIsRepaid DEF ByOffset
<1>3. CASE walk.list # None
  <2>1. seen.steady \subseteq Here
    BY <1>3 DEF Inv
  <2>2. Lasting' \subseteq Lasting /\ seen'.shown = seen.shown
    BY <1>1, <1>3, <2>1, LastingShrinks
  <2>3. /\ seen'.arrivals = seen.arrivals + Cardinality(Fresh) /\ Cardinality(Fresh) \in Nat
        /\ seen.arrivals \in Nat
    BY <1>1, <1>3, GoneType DEF Evolves, TypeOK
  <2>4. ASSUME NEW page, IsFiniteSet(Again(page))
        PROVE  /\ IsFiniteSet(Again(page)') /\ Cardinality(Again(page)') <= Cardinality(Again(page))
               /\ Cardinality(Again(page)) \in Nat /\ Cardinality(Again(page)') \in Nat
               /\ Again(page)' \subseteq Again(page)
    <3>1. \A r : Times(r, page)' = Times(r, page)
      BY <2>2 DEF Times
    <3>2. Again(page)' \subseteq Again(page)
      BY <2>2, <3>1 DEF Again
    <3> QED  BY <2>4, <3>2, FS_Subset, FS_CardinalityType
  <2>5. ASSUME walk.pc \in ByOffset, NEW page, NEW n \in Nat, Repaid(page, n)
        PROVE  Repaid(page, n)'
    <3>1. Cardinality(Due(page, n)') <= Cardinality(Due(page, n)) + Cardinality(Fresh)
      BY <1>1, <2>1, <2>5, DueGrows DEF Inv
    <3>2. Cardinality(Due(page, n)) \in Nat /\ Cardinality(Due(page, n)') \in Nat
      <4>1. Due(page, n)' \in SUBSET Rows
        BY <1>1, <2>2, LastingType DEF Due
      <4> QED  BY <1>1, <4>1, LastingType, Finite
    <3>3. /\ IsFiniteSet(Again(page)') /\ Cardinality(Again(page)') <= Cardinality(Again(page))
          /\ Cardinality(Again(page)) \in Nat /\ Cardinality(Again(page)') \in Nat
      BY <2>4, <2>5 DEF Repaid
    <3>4. Cardinality(Again(page)) + Cardinality(Due(page, n)) <= seen.arrivals
      BY <2>5 DEF Repaid
    <3> QED  BY <2>3, <3>1, <3>2, <3>3, <3>4 DEF Repaid
  <2>6. walk.pc \in ByOffset => Repaid({}, walk.offset)'
    <3>1. walk.offset \in Nat
      BY <1>1 DEF TypeOK
    <3> QED  BY <1>1, <2>5, <3>1 DEF RInv
  <2>7. ASSUME walk.pc = "count", NEW q \in Query
        PROVE  Repaid(walk.page, walk.offset + q.limit)'
    <3>1. walk.offset + q.limit \in Nat
      BY <1>1, <2>7, QueryType DEF Inv, ByOffset
    <3>2. Repaid(walk.page, walk.offset + q.limit)
      BY <2>7 DEF RInv
    <3> QED  BY <1>1, <2>5, <2>7, <3>1, <3>2 DEF ByOffset
  <2>8. IsFiniteSet(Again({})') /\ Cardinality(Again({})') <= seen'.arrivals
    BY <2>3, <2>4 DEF RInv
  <2>9. Query' = Query
    BY <1>1 DEF Query
  <2>10. Again({}) = {} => Again({})' = {}
    BY <2>4 DEF RInv
  <2> QED  BY <1>1, <1>3, <2>2, <2>6, <2>7, <2>8, <2>9, <2>10 DEF RInv
<1> QED  BY <1>2, <1>3

\* A step that leaves the rows and what has been seen alone.
LEMMA SameDue ==
  ASSUME UNCHANGED <<row, seen>>, walk'.list = walk.list
  PROVE  /\ \A page : Again(page)' = Again(page)
         /\ \A page, n : Due(page, n)' = Due(page, n)
         /\ \A page, n : Repaid(page, n)' <=> Repaid(page, n)
         /\ walk'.offset = walk.offset =>
              /\ Repaid({}, walk.offset)' <=> Repaid({}, walk.offset)
              /\ \A page, n : Repaid(page, walk.offset + n)' <=> Repaid(page, walk.offset + n)
<1>1. Lasting' = Lasting
  BY DEF Lasting, Untied
<1>2. \A r : Rank(r)' = Rank(r)
  BY SameRanks
<1>3. \A r, page : Times(r, page)' = Times(r, page)
  BY DEF Times
<1>4. \A page : Again(page)' = Again(page)
  BY <1>1, <1>3 DEF Again
<1>5. \A page, n : Due(page, n)' = Due(page, n)
  BY <1>1, <1>2, <1>3 DEF Due
<1>6. \A page, n : Repaid(page, n)' <=> Repaid(page, n)
  BY <1>4, <1>5 DEF Repaid
<1>7. ASSUME walk'.offset = walk.offset
      PROVE  /\ Repaid({}, walk.offset)' <=> Repaid({}, walk.offset)
             /\ \A page, n : Repaid(page, walk.offset + n)' <=> Repaid(page, walk.offset + n)
  BY <1>4, <1>5, <1>7 DEF Repaid, Due
<1> QED  BY <1>4, <1>5, <1>6, <1>7

\* Nothing has been shown at the start of a walk.
LEMMA StartRInv ==
  ASSUME TypeOK', walk'.list # None, walk'.offset \in Nat, walk'.pc # "count",
         \A r \in Rows : seen'.shown[r] = 0, seen'.arrivals = 0
  PROVE  RInv'
<1>1. Lasting' \subseteq Rows
  BY DEF TypeOK, Lasting
<1>2. Again({})' = {} /\ \A n : Due({}, n)' = {}
  BY <1>1 DEF Again, Due, Times
<1>3. IsFiniteSet(Again({})') /\ Cardinality(Again({})') = 0 /\ \A n : Cardinality(Due({}, n)') = 0
  BY <1>2, FS_EmptySet
<1>4. \A n : Repaid({}, n)'
  BY <1>3 DEF Repaid
<1> QED  BY <1>2, <1>3, <1>4 DEF RInv

\* A row on a page has its place where the page begins or later, and before the
\* next page begins.
LEMMA PageIsInPlace ==
  ASSUME TypeOK, walk.list \in Routes \cup Calls, NEW limit \in Nat, NEW offset \in Nat,
         NEW page \in Pages(walk.list, limit, offset), NEW r \in page, Untied(r)
  PROVE  offset <= Rank(r) /\ Rank(r) < offset + limit
<1>0. walk.list # None /\ Here \subseteq Rows
  BY HereType, OffsetHere
<1>1. PICK skipped \in Leading(walk.list, Here, offset) :
        page \in Leading(walk.list, Here \ skipped, limit)
  BY DEF Pages, Here
<1>2. skipped \subseteq Here /\ page \subseteq Here \ skipped
  BY <1>1 DEF Leading
<1>3. Ahead(r) \in SUBSET Rows /\ Ahead(r) \subseteq Here /\ Rank(r) \in Nat
  BY <1>0, AheadType
<1>4. skipped \subseteq Ahead(r) /\ Cardinality(skipped) = offset
  <2>1. Here \in SUBSET Here /\ r \in Here \ skipped
    BY <1>2
  <2> QED  BY <1>1, <2>1, LeadingComesFirst
<1>5. Ahead(r) \subseteq skipped \cup (page \ {r})
  <2> SUFFICES ASSUME NEW s \in Ahead(r), s \notin skipped
               PROVE  s \in page \ {r}
    OBVIOUS
  <2>1. s \in Here \ skipped /\ Precedes(walk.list, s, r)
    BY <1>3 DEF Ahead
  <2>2. s \in page
    BY <1>1, <2>1 DEF Leading
  <2>3. s # r
    BY <1>0, <2>1, OrderIsPartial
  <2> QED  BY <2>2, <2>3
<1>6. Cardinality(page \ {r}) < limit
  <2>1. page \in SUBSET Rows /\ page \ {r} \in SUBSET page /\ r \in page \ (page \ {r})
    BY <1>0, <1>2
  <2>2. Cardinality(page \ {r}) < Cardinality(page)
    BY <2>1, Larger
  <2>3. Cardinality(page) <= limit
    <3>1. Cardinality(Here \ skipped) \in Nat
      BY <1>0, Finite
    <3>2. Cardinality(page) = IF limit < Cardinality(Here \ skipped)
                                THEN limit ELSE Cardinality(Here \ skipped)
      BY <1>1 DEF Leading
    <3> QED  BY <3>1, <3>2
  <2>4. Cardinality(page) \in Nat /\ Cardinality(page \ {r}) \in Nat
    BY <2>1, Finite
  <2> QED  BY <2>2, <2>3, <2>4
<1>7. Rank(r) <= offset + Cardinality(page \ {r})
  <2>1. skipped \in SUBSET Rows /\ page \ {r} \in SUBSET Rows
    BY <1>0, <1>2
  <2> QED  BY <1>4, <1>5, <2>1, UnionBound DEF Rank
<1>8. Cardinality(page \ {r}) \in Nat
  <2>1. page \ {r} \in SUBSET Rows
    BY <1>0, <1>2
  <2> QED  BY <2>1, Finite
<1>9. offset <= Rank(r)
  BY <1>3, <1>4, Smaller DEF Rank
<1> QED  BY <1>3, <1>6, <1>7, <1>8, <1>9

\* The reader pays with a row that is due for each row it gets once more.
LEMMA PageIsRepaid ==
  ASSUME TypeOK, walk.list \in Routes \cup Calls, seen.steady \subseteq Here,
         NEW limit \in Nat, NEW offset \in Nat, NEW page \in Pages(walk.list, limit, offset),
         Repaid({}, offset)
  PROVE  Repaid(page, offset + limit)
<1> DEFINE due == Due({}, offset)
           paid == due \cap page
           pair == [r \in paid |-> <<r, seen.shown[r] + 1>>]
           pairs == {pair[r] : r \in paid}
<1>1. \A r \in Lasting : r \in Rows /\ Untied(r) /\ Rank(r) \in Nat /\ seen.shown[r] \in Nat
  <2>1. walk.list # None
    BY OffsetHere
  <2> QED  BY <2>1, AheadType DEF TypeOK, Lasting
<1>2. due \in SUBSET Rows /\ paid \in SUBSET Rows /\ due \ paid \in SUBSET Rows
  BY <1>1 DEF Due
<1>3. Again(page) \subseteq Again({}) \cup pairs
  <2> SUFFICES ASSUME NEW r \in Lasting, NEW k \in 2..Times(r, page), <<r, k>> \notin Again({})
               PROVE  <<r, k>> \in pairs
    BY AgainMember
  <2>1. seen.shown[r] \in Nat /\ k \in Nat
    BY <1>1 DEF Times
  <2>2. Times(r, {}) = seen.shown[r]
    BY DEF Times
  <2>3. k \notin 2..seen.shown[r]
    BY <2>2, AgainMember
  <2>4. r \in page /\ k = seen.shown[r] + 1
    BY <2>1, <2>3 DEF Times
  <2>5. seen.shown[r] # 0
    BY <2>1, <2>4
  <2>6. r \in paid
    BY <1>1, <2>2, <2>4, <2>5, PageIsInPlace DEF Due
  <2> QED  BY <2>4, <2>6
<1>4. IsFiniteSet(pairs) /\ Cardinality(pairs) <= Cardinality(paid)
  <2>1. pair \in Surjection(paid, pairs)
    BY DEF Surjection
  <2>2. IsFiniteSet(paid)
    BY <1>2, Finite
  <2> HIDE DEF pairs, pair, paid
  <2> QED  BY <2>1, <2>2, FS_Surjection
<1>5. Due(page, offset + limit) \subseteq due \ paid
  <2> SUFFICES ASSUME NEW r \in Lasting, Times(r, page) # 0, offset + limit <= Rank(r)
               PROVE  r \in due \ page
    BY DEF Due
  <2>1. r \notin page
    <3>1. r \in page => Rank(r) < offset + limit
      BY <1>1, PageIsInPlace
    <3> QED  BY <1>1, <3>1
  <2>2. offset <= Rank(r)
    BY <1>1
  <2> QED  BY <2>1, <2>2 DEF Due, Times
<1>6. Cardinality(paid) + Cardinality(due \ paid) = Cardinality(due)
  <2>1. IsFiniteSet(due) /\ paid \in SUBSET due
    BY <1>2, Finite
  <2>2. Cardinality(due \ paid) = Cardinality(due) - Cardinality(due \cap paid)
    <3> HIDE DEF due, paid
    <3> QED  BY <2>1, FS_Difference
  <2>3. Cardinality(due \cap paid) = Cardinality(paid)
    <3>1. due \cap paid = paid
      OBVIOUS
    <3> QED  BY <3>1
  <2>4. Cardinality(due) \in Nat /\ Cardinality(paid) \in Nat
    BY <1>2, Finite
  <2> HIDE DEF due, paid, pair, pairs
  <2> QED  BY <2>2, <2>3, <2>4
<1> HIDE DEF due, paid, pair, pairs
<1>7. Cardinality(Due(page, offset + limit)) <= Cardinality(due \ paid)
  BY <1>2, <1>5, Smaller
<1>8. IsFiniteSet(Again({})) /\ Cardinality(Again({})) + Cardinality(due) <= seen.arrivals
  BY DEF Repaid, due
<1>9. /\ IsFiniteSet(Again(page))
      /\ Cardinality(Again(page)) <= Cardinality(Again({})) + Cardinality(pairs)
  <2>1. /\ IsFiniteSet(Again({}) \cup pairs)
        /\ Cardinality(Again({}) \cup pairs) =
             Cardinality(Again({})) + Cardinality(pairs) - Cardinality(Again({}) \cap pairs)
    BY <1>4, <1>8, FS_Union
  <2>2. IsFiniteSet(Again(page)) /\ Cardinality(Again(page)) <= Cardinality(Again({}) \cup pairs)
    BY <1>3, <2>1, FS_Subset
  <2>3. IsFiniteSet(Again({}) \cap pairs)
    BY <1>4, FS_Intersection
  <2> QED  BY <1>4, <1>8, <2>1, <2>2, <2>3, FS_CardinalityType
<1>10. /\ Cardinality(Again(page)) \in Nat /\ Cardinality(Again({})) \in Nat
       /\ Cardinality(pairs) \in Nat
  BY <1>4, <1>8, <1>9, FS_CardinalityType
<1>11. /\ Cardinality(due) \in Nat /\ Cardinality(paid) \in Nat /\ Cardinality(due \ paid) \in Nat
       /\ Cardinality(Due(page, offset + limit)) \in Nat /\ seen.arrivals \in Nat
  BY <1>2, Finite, LastingType
<1> QED  BY <1>4, <1>6, <1>7, <1>8, <1>9, <1>10, <1>11 DEF Repaid

LEMMA FetchPageRInv ==
  ASSUME Inv, RInv, FetchPage
  PROVE  RInv'
<1>1. PICK q \in Query : \E page \in Pages(walk.list, q.limit, q.offset) :
        walk' = [walk EXCEPT !.pc = "count", !.page = page]
  BY DEF FetchPage
<1>2. PICK page \in Pages(walk.list, q.limit, q.offset) :
        walk' = [walk EXCEPT !.pc = "count", !.page = page]
  BY <1>1
<1>3. /\ TypeOK /\ walk.pc = "page" /\ UNCHANGED <<row, seen>>
      /\ walk.list \in Routes \cup Calls
      /\ walk.list \in Routes \/ walk.ask \in Limits
      /\ Repaid({}, walk.offset) /\ IsFiniteSet(Again({})) /\ Cardinality(Again({})) <= seen.arrivals
  BY DEF FetchPage, Inv, RInv, ByOffset
<1>4. walk.list # None /\ seen.steady \subseteq Here
  BY <1>3, OffsetHere DEF Inv
<1>5. q.limit \in Nat /\ q.offset = walk.offset /\ walk.offset \in Nat
  BY <1>3, QueryType
<1>6. Repaid(page, walk.offset + q.limit)
  <2>1. page \in Pages(walk.list, q.limit, walk.offset)
    BY <1>5
  <2> QED  BY <1>3, <1>4, <1>5, <2>1, PageIsRepaid
<1>7. /\ walk'.pc = "count" /\ walk'.list = walk.list /\ walk'.ask = walk.ask
      /\ walk'.offset = walk.offset /\ walk'.page = page
  BY <1>2, <1>3 DEF TypeOK
<1>8. /\ \A p : Again(p)' = Again(p)
      /\ Repaid({}, walk.offset)' <=> Repaid({}, walk.offset)
      /\ \A p, n : Repaid(p, walk.offset + n)' <=> Repaid(p, walk.offset + n)
  BY <1>3, <1>7, SameDue
<1>9. ASSUME NEW p \in Query'
      PROVE  Repaid(page, walk.offset + p.limit)'
  <2>1. p = q
    BY <1>7, OneQuery DEF Query
  <2> QED  BY <1>6, <1>8, <2>1
<1> QED  BY <1>3, <1>4, <1>7, <1>8, <1>9 DEF RInv

\* A reply.
LEMMA ShowAgain ==
  ASSUME TypeOK, NEW page, Show(page), UNCHANGED row, walk'.list = walk.list
  PROVE  /\ Again({})' = Again(page)
         /\ \A n : Due({}, n)' = Due(page, n)
         /\ seen'.arrivals = seen.arrivals
         /\ \A n : Repaid({}, n)' <=> Repaid(page, n)
<1>1. seen'.steady = seen.steady /\ seen'.arrivals = seen.arrivals
  BY DEF Show, TypeOK
<1>2. Lasting' = Lasting /\ Lasting \subseteq Rows
  BY <1>1, LastingType DEF Lasting, Untied
<1>3. \A r \in Rows : Times(r, {})' = Times(r, page)
  BY ShowType DEF Times
<1>4. Again({})' = Again(page)
  BY <1>2, <1>3 DEF Again
<1>5. \A r : Rank(r)' = Rank(r)
  BY SameRanks
<1>6. \A n : Due({}, n)' = Due(page, n)
  BY <1>2, <1>3, <1>5 DEF Due
<1> QED  BY <1>1, <1>4, <1>6 DEF Repaid

LEMMA RepaidIsEnough ==
  ASSUME TypeOK, NEW page, NEW n, Repaid(page, n)
  PROVE  IsFiniteSet(Again(page)) /\ Cardinality(Again(page)) <= seen.arrivals
<1>1. IsFiniteSet(Again(page)) /\ Cardinality(Again(page)) + Cardinality(Due(page, n)) <= seen.arrivals
  BY DEF Repaid
<1>2. /\ Cardinality(Again(page)) \in Nat /\ Cardinality(Due(page, n)) \in Nat
      /\ seen.arrivals \in Nat
  BY <1>1, LastingType, FS_CardinalityType
<1> QED  BY <1>1, <1>2

LEMMA CountTotalRInv ==
  ASSUME Inv, RInv, CountTotal
  PROVE  RInv'
<1> DEFINE first == FirstStatement(walk.list)
           page == walk.page
<1>1. PICK q \in Query :
        walk' = [walk EXCEPT !.offset = @ + q.limit, !.page = {},
                             !.pc = IF q.offset + q.limit >= Total(walk.list)
                                      THEN "done" ELSE first]
  BY DEF CountTotal
<1>2. /\ TypeOK /\ walk.pc = "count" /\ UNCHANGED row /\ Show(page)
      /\ Repaid(page, walk.offset + q.limit) /\ walk.list # None
  BY OffsetHere DEF CountTotal, Inv, RInv, ByOffset
<1>3. first \in {"owner", "page"}
  BY DEF FirstStatement
<1> HIDE DEF first, page
<1>4. /\ walk'.pc \in {"owner", "page", "done"} /\ walk'.list = walk.list
      /\ walk'.offset = walk.offset + q.limit
  BY <1>1, <1>2, <1>3 DEF TypeOK
<1>5. /\ Again({})' = Again(page) /\ seen'.arrivals = seen.arrivals
      /\ \A n : Repaid({}, n)' <=> Repaid(page, n)
      /\ \A n : Due({}, n)' = Due(page, n)
  BY <1>2, <1>4, ShowAgain
<1>6. IsFiniteSet(Again(page)) /\ Cardinality(Again(page)) <= seen.arrivals
  BY <1>2, RepaidIsEnough
<1>7. Repaid({}, walk.offset)'
  <2>1. Due({}, walk.offset)' = Due(page, walk.offset + q.limit)
    BY <1>4, <1>5 DEF Due
  <2> QED  BY <1>2, <1>5, <2>1 DEF Repaid
<1> QED  BY <1>2, <1>4, <1>5, <1>6, <1>7 DEF RInv

LEMMA StayRInv ==
  ASSUME Inv, RInv, walk.pc \in ByOffset, UNCHANGED <<row, seen>>,
         NEW pc \in {"owner", "page", "refused"},
         \/ walk' = [walk EXCEPT !.pc = pc]
         \/ walk' = [walk EXCEPT !.pc = pc, !.page = {}]
  PROVE  RInv'
<1>1. /\ walk'.pc = pc /\ walk'.list = walk.list /\ walk'.offset = walk.offset
      /\ walk.list # None
  BY OffsetHere DEF Inv, TypeOK
<1>2. Again({})' = Again({}) /\ (Repaid({}, walk.offset)' <=> Repaid({}, walk.offset))
  BY <1>1, SameDue
<1> QED  BY <1>1, <1>2 DEF RInv

LEMMA CheckOwnerRInv ==
  ASSUME Inv, RInv, CheckOwner
  PROVE  RInv'
<1>1. \E pc \in {"page", "refused"} : walk' = [walk EXCEPT !.pc = pc]
  BY DEF CheckOwner
<1> QED  BY <1>1, StayRInv DEF CheckOwner, ByOffset

LEMMA FailRInv ==
  ASSUME Inv, RInv, Fail
  PROVE  RInv'
<1> DEFINE pc == FirstStatement(walk.list)
<1>1. pc \in {"owner", "page"} /\ walk' = [walk EXCEPT !.pc = pc, !.page = {}]
  BY DEF Fail, FirstStatement
<1> QED
  <2> HIDE DEF pc
  <2> QED  BY <1>1, StayRInv DEF Fail, ByOffset

LEMMA RejectQueryRInv ==
  ASSUME Inv, RInv, RejectQuery
  PROVE  RInv'
  BY StayRInv DEF RejectQuery, ByOffset

\* Of a walk by cursor, only the first page is served.
LEMMA FetchCursorPageRInv ==
  ASSUME Inv, RInv, FetchCursorPage
  PROVE  RInv'
<1> DEFINE limit == ValidatePaginationRequest(walk.ask, walk.list.first).limit
<1>1. /\ TypeOK /\ walk.pc = "cursor" /\ walk.list # None /\ UNCHANGED row
      /\ walk.cursor = None /\ \A r \in Rows : seen.shown[r] = 0
  BY NoCursorIsPrepared DEF FetchCursorPage, Inv, RInv
<1>2. PICK page \in Leading(walk.list, Here, limit) :
        /\ Show(page)
        /\ \/ walk' = [walk EXCEPT !.pc = "done"]
           \/ \E last \in page : walk' = [walk EXCEPT !.cursor = CursorOf(last)]
  BY <1>1 DEF FetchCursorPage, Behind, Here
<1>3. walk'.list = walk.list /\ (walk'.pc = "done" \/ (walk'.pc = "cursor" /\ walk'.cursor # None))
  <2>1. CASE walk' = [walk EXCEPT !.pc = "done"]
    BY <1>1, <2>1 DEF TypeOK
  <2>2. CASE \E last \in page : walk' = [walk EXCEPT !.cursor = CursorOf(last)]
    <3>1. PICK last \in page : walk' = [walk EXCEPT !.cursor = CursorOf(last)]
      BY <2>2
    <3>2. last \in Rows
      BY <1>1, HereType DEF Leading
    <3>3. CursorOf(last) # None
      <4>1. row[last].created \in Nat /\ row[last].priority \in Priorities \cup {0}
        BY <1>1, <3>2, RowType DEF TypeOK
      <4>2. CursorOf(last) \in Cursors
        BY <3>2, <4>1 DEF CursorOf, Cursors
      <4> QED  BY <4>2, NoneAssumption
    <3>4. walk'.list = walk.list /\ walk'.pc = "cursor" /\ walk'.cursor = CursorOf(last)
      BY <1>1, <3>1 DEF TypeOK
    <3> QED  BY <3>3, <3>4
  <2> QED  BY <1>2, <2>1, <2>2
<1>4. Again({})' = Again(page) /\ seen'.arrivals = seen.arrivals /\ seen.arrivals \in Nat
  BY <1>1, <1>2, <1>3, ShowAgain, LastingType
<1>5. Again(page) = {}
  <2>1. \A r \in Rows : Times(r, page) \in {0, 1}
    BY <1>1 DEF Times
  <2> QED  BY <1>1, <2>1, LastingType DEF Again
<1>6. IsFiniteSet(Again({})') /\ Cardinality(Again({})') = 0
  BY <1>4, <1>5, FS_EmptySet
<1> QED  BY <1>1, <1>3, <1>4, <1>5, <1>6 DEF RInv, ByOffset

LEMMA RefuseCursorRInv ==
  ASSUME Inv, RInv, RefuseCursor
  PROVE  RInv'
<1>1. /\ walk'.pc = "refused" /\ walk'.list = walk.list /\ walk.list # None
      /\ UNCHANGED <<row, seen>>
  BY DEF RefuseCursor, Inv, TypeOK
<1>2. Again({})' = Again({})
  BY <1>1, SameDue
<1> QED  BY <1>1, <1>2 DEF RInv, ByOffset

LEMMA StartsRInv ==
  ASSUME Inv', Start
  PROVE  RInv'
<1>1. PICK l, ask, cursor :
        /\ l \in Listings
        /\ StartWalk(l, ask) \/ StartCursor(l, ask, cursor)
  BY OffsetShape, CursorCallsAreListings DEF Start
<1>2. seen' = [shown |-> [r \in Rows |-> 0], steady |-> Listed(l), arrivals |-> 0, departures |-> 0]
  BY <1>1 DEF StartWalk, StartCursor, Nothing
<1>3. /\ walk'.pc \in {"owner", "page", "cursor"}
      /\ walk'.list = l /\ walk'.offset = 0 /\ l # None
  <2>1. l # None
    BY <1>1, ListingShape
  <2>2. CASE StartWalk(l, ask)
    BY <2>1, <2>2 DEF StartWalk, FirstStatement, Away
  <2>3. CASE StartCursor(l, ask, cursor)
    BY <2>1, <2>3 DEF StartCursor, Away
  <2> QED  BY <1>1, <2>2, <2>3
<1>4. (\A r \in Rows : seen'.shown[r] = 0) /\ seen'.arrivals = 0
  BY <1>2
<1> QED  BY <1>3, <1>4, StartRInv DEF Inv

LEMMA LeaveRInv ==
  ASSUME RInv, Leave
  PROVE  RInv'
<1>1. walk'.pc = "idle"
  BY DEF Leave, Away
<1> QED  BY <1>1, NothingIsRepaid DEF Leave, ByOffset

LEMMA InitRInv == Init => RInv
<1> SUFFICES ASSUME Init PROVE RInv
  OBVIOUS
<1>1. walk.pc = "idle" /\ seen = Nothing
  BY DEF Init, Away
<1>2. Lasting = {} /\ seen.arrivals = 0
  BY <1>1 DEF Nothing, Lasting
<1>3. Again({}) = {}
  BY <1>2 DEF Again
<1>4. IsFiniteSet(Again({})) /\ Cardinality(Again({})) = 0
  BY <1>3, FS_EmptySet
<1> QED  BY <1>1, <1>2, <1>4 DEF RInv, ByOffset

LEMMA NextRInv == Inv /\ Inv' /\ RInv /\ [Next]_vars => RInv'
<1> SUFFICES ASSUME Inv, Inv', RInv, [Next]_vars PROVE RInv'
  OBVIOUS
<1>1. CASE UNCHANGED vars
  <2>1. UNCHANGED <<row, seen, walk>>
    BY <1>1 DEF vars
  <2>2. /\ Again({})' = Again({})
        /\ Repaid({}, walk.offset)' <=> Repaid({}, walk.offset)
        /\ \A page, n : Repaid(page, walk.offset + n)' <=> Repaid(page, walk.offset + n)
    BY <2>1, SameDue
  <2>3. Query' = Query
    BY <2>1 DEF Query
  <2>4. ASSUME walk.pc = "count", NEW q \in Query
        PROVE  Repaid(walk.page, walk.offset + q.limit)'
    <3>1. Repaid(walk.page, walk.offset + q.limit)
      BY <2>4 DEF RInv
    <3> QED
      BY <2>1, <3>1 DEF Repaid, Again, Due, Times, Lasting, Untied, Rank, Ahead, Here, Listed,
                        Selects, Precedes
  <2> QED  BY <2>1, <2>2, <2>3, <2>4 DEF RInv
<1> QED  BY <1>1, ChangeRInv, StartsRInv, CheckOwnerRInv, RejectQueryRInv, FetchPageRInv,
            CountTotalRInv, FailRInv, FetchCursorPageRInv, RefuseCursorRInv, LeaveRInv DEF Next

\* Whatever changes between the statements of a walk, and for all limits: the
\* reader has been shown no more rows again than have arrived or moved.
THEOREM FewRepeats == Spec => []RepeatsNeedArrivals
<1>1. RInv => RepeatsNeedArrivals
  BY RepeatsAreAgain DEF RInv, RepeatsNeedArrivals
<1>2. Spec => []RInv
  BY InitInv, NextInv, InitRInv, NextRInv, PTL DEF Spec
<1> QED  BY <1>1, <1>2, PTL

=============================================================================
