---------------------------- MODULE MergeProofs -----------------------------
(***************************************************************************)
(* Theorems about Merge: what importing catalogs into one another keeps,   *)
(* for any number of catalogs, drives and scans, any flows between them    *)
(* and any order of scans, imports, previews and rollbacks.                *)
(*                                                                         *)
(* TablesOK says what is true of the tables of a catalog and of those an   *)
(* import works on; ImportKnows what the two loops have achieved when they *)
(* are where they are; MergeInv puts them together, and WritersInv says    *)
(* what a running scan may rely on, its row and its lock. TraceInv follows *)
(* each scan through the catalogs that import it.                          *)
(***************************************************************************)
EXTENDS Merge, FiniteSetTheorems, TLAPS

-----------------------------------------------------------------------------
(* Rows.                                                                   *)

UnfinishedRows == [status : {"scanning", "failed"}, drive : Drives]

LEMMA RowKinds ==
    ASSUME NEW row \in Rows
    PROVE  /\ row.status = "complete" <=> row \in CompleteRows
           /\ row.status \in {"scanning", "failed"} <=> row \in UnfinishedRows
           /\ row.status # "absent" <=> row # NoRow
           /\ row # NoRow => row.drive \in Drives
BY DEF Rows, NoRow, CompleteRows, UnfinishedRows

\* The row that the hash policy makes of an imported one.
UnderPolicy(row, trust) ==
    [row EXCEPT !.claim = KeptClaim(row, trust), !.mode = KeptMode(row, trust)]

LEMMA PolicyKeeps ==
    ASSUME NEW row \in CompleteRows, NEW trust \in BOOLEAN
    PROVE  /\ UnderPolicy(row, trust) \in CompleteRows
           /\ UnderPolicy(row, trust).drive = row.drive
           /\ UnderPolicy(row, trust).status = "complete"
           /\ UnderPolicy(row, trust).completedAt = row.completedAt
           /\ UnderPolicy(row, trust).claim = KeptClaim(row, trust)
           /\ UnderPolicy(row, trust).mode = KeptMode(row, trust)
<1>1. KeptClaim(row, trust) \in BOOLEAN /\ KeptMode(row, trust) \in Modes
  BY DEF KeptClaim, KeptMode, CompleteRows, Modes
<1> DEFINE claim == KeptClaim(row, trust)
           mode == KeptMode(row, trust)
<1>2. claim \in BOOLEAN /\ mode \in Modes
  BY <1>1
<1>3. UnderPolicy(row, trust) = [row EXCEPT !.claim = claim, !.mode = mode]
  BY DEF UnderPolicy
<1> HIDE DEF claim, mode
<1>4. /\ UnderPolicy(row, trust) \in CompleteRows
      /\ UnderPolicy(row, trust).drive = row.drive
      /\ UnderPolicy(row, trust).status = "complete"
      /\ UnderPolicy(row, trust).completedAt = row.completedAt
      /\ UnderPolicy(row, trust).claim = claim
      /\ UnderPolicy(row, trust).mode = mode
  BY <1>2, <1>3 DEF CompleteRows
<1>5. QED
  BY <1>4 DEF claim, mode

\* Once more under another policy is as if only under the other.
LEMMA PolicyAgain ==
    ASSUME NEW row \in CompleteRows, NEW old \in BOOLEAN, NEW new \in BOOLEAN
    PROVE  [UnderPolicy(row, old) EXCEPT !.claim = KeptClaim(row, new),
                                         !.mode = KeptMode(row, new)]
               = UnderPolicy(row, new)
<1> DEFINE claim == KeptClaim(row, new)
           mode == KeptMode(row, new)
           c0 == KeptClaim(row, old)
           m0 == KeptMode(row, old)
<1>1. /\ UnderPolicy(row, old) = [row EXCEPT !.claim = c0, !.mode = m0]
      /\ UnderPolicy(row, new) = [row EXCEPT !.claim = claim, !.mode = mode]
  BY DEF UnderPolicy
<1> HIDE DEF claim, mode, c0, m0
<1>2. [UnderPolicy(row, old) EXCEPT !.claim = claim, !.mode = mode]
          = UnderPolicy(row, new)
  BY <1>1 DEF CompleteRows
<1>3. QED
  BY <1>2 DEF claim, mode

-----------------------------------------------------------------------------
(* What is true of the tables of a catalog, and of those of an import.     *)

Tables == [name     : [Drives -> Names],
           latest   : [Drives -> 0 .. MaxRows],
           rows     : [SnapshotIds -> Rows],
           lastId   : 0 .. MaxRows,
           receipts : SUBSET Receipts]

RowsNumbered(t) ==
    \A s \in SnapshotIds :
        /\ t.rows[s] # NoRow <=> s <= t.lastId
        /\ s <= t.lastId => t.name[t.rows[s].drive] # NoName

ReceiptsTrue(t) ==
    \A r \in t.receipts :
        /\ r.snapshot <= t.lastId
        /\ t.rows[r.snapshot] = UnderPolicy(r.digest.row, r.trusted)
        /\ \A q \in t.receipts :
               q.digest = r.digest \/ q.snapshot = r.snapshot => q = r

ViewOf(t, d) ==
    t.latest[d] # NoSnapshot =>
        /\ t.latest[d] \in SnapshotIds /\ IsComplete(t, t.latest[d])
        /\ t.latest[d] <= t.lastId

\* Complete rows stay what they are, but for the hash policy.
CompleteKept(t, u) ==
    \A s \in SnapshotIds : IsComplete(t, s) =>
        /\ IsComplete(u, s) /\ u.rows[s].drive = t.rows[s].drive
        /\ u.rows[s].completedAt = t.rows[s].completedAt

\* From t to u the views have moved forward.
Forward(t, u) ==
    /\ CompleteKept(t, u)
    /\ \A d \in Drives, s \in SnapshotIds :
           \/ IsComplete(u, s) /\ ~IsComplete(t, s) /\ u.rows[s].drive = d
           \/ s = t.latest[d]
           => ViewReaches(u, d, s)

\* All dates are in the past of now.
DatedBefore(t, now) ==
    \A s \in SnapshotIds : IsComplete(t, s) => t.rows[s].completedAt <= now

TablesOK(t) ==
    /\ t \in Tables
    /\ RowsNumbered(t) /\ ReceiptsTrue(t)
    /\ \A d \in Drives : ViewOf(t, d)

LEMMA EmptyOK == TablesOK(EmptyTables) /\ \A now : DatedBefore(EmptyTables, now)
<1>1. EmptyTables \in Tables
  BY SizeAssumption DEF EmptyTables, Tables, Names, NoSnapshot, Rows, Drives
<1>2. /\ EmptyTables.rows = [s \in SnapshotIds |-> NoRow] /\ EmptyTables.lastId = 0
      /\ EmptyTables.receipts = {} /\ EmptyTables.latest = [d \in Drives |-> NoSnapshot]
  BY DEF EmptyTables
<1>3. \A s \in SnapshotIds : ~(s <= 0) /\ ~IsComplete(EmptyTables, s)
  BY <1>2, SizeAssumption DEF SnapshotIds, IsComplete, NoRow
<1>4. QED
  BY <1>1, <1>2, <1>3 DEF TablesOK, RowsNumbered, ReceiptsTrue, ViewOf, DatedBefore

LEMMA CompleteRowsHere ==
    ASSUME NEW t, TablesOK(t), NEW s \in SnapshotIds
    PROVE  /\ IsComplete(t, s) => t.rows[s] \in CompleteRows /\ s <= t.lastId
           /\ s <= t.lastId => t.rows[s].drive \in Drives
           /\ t.rows[s] \in Rows
<1>1. t.rows[s] \in Rows
  BY DEF TablesOK, Tables
<1>2. QED
  BY <1>1, RowKinds DEF TablesOK, RowsNumbered, IsComplete, NoRow

\* A row that a receipt leads to is a complete one.
LEMMA ReceiptRows ==
    ASSUME NEW t, TablesOK(t), NEW r \in t.receipts
    PROVE  /\ r \in Receipts /\ r.snapshot \in SnapshotIds /\ r.trusted \in BOOLEAN
           /\ r.digest.row \in CompleteRows
           /\ t.rows[r.snapshot] \in CompleteRows /\ IsComplete(t, r.snapshot)
           /\ t.rows[r.snapshot] = UnderPolicy(r.digest.row, r.trusted)
<1>1. r \in Receipts
  BY DEF TablesOK, Tables
<1>2. r.snapshot \in SnapshotIds /\ r.trusted \in BOOLEAN /\ r.digest.row \in CompleteRows
  BY <1>1 DEF Receipts
<1>3. t.rows[r.snapshot] = UnderPolicy(r.digest.row, r.trusted)
  BY DEF TablesOK, ReceiptsTrue
<1>4. QED
  BY <1>1, <1>2, <1>3, PolicyKeeps DEF IsComplete

\* The view of a drive, if it has one, is a complete row with a date.
LEMMA ViewIsComplete ==
    ASSUME NEW t, TablesOK(t), NEW d \in Drives, t.latest[d] # NoSnapshot
    PROVE  /\ t.latest[d] \in SnapshotIds /\ IsComplete(t, t.latest[d])
           /\ t.rows[t.latest[d]].completedAt \in Int
<1>1. t.latest[d] \in SnapshotIds /\ IsComplete(t, t.latest[d])
  BY DEF TablesOK, ViewOf
<1>2. QED
  BY <1>1, CompleteRowsHere DEF CompleteRows

\* Where nothing becomes complete and no view changes, views move forward.
LEMMA ForwardHere ==
    ASSUME NEW t, TablesOK(t), NEW u, u.latest = t.latest, CompleteKept(t, u),
           \A s \in SnapshotIds : IsComplete(u, s) => IsComplete(t, s)
    PROVE  Forward(t, u)
<1>1. ASSUME NEW d \in Drives, NEW s \in SnapshotIds, s = t.latest[d]
      PROVE  ViewReaches(u, d, s)
  <2>1. s # NoSnapshot
    BY SizeAssumption DEF SnapshotIds, NoSnapshot
  <2>2. IsComplete(t, s) /\ t.rows[s].completedAt \in Int
    BY <1>1, <2>1, ViewIsComplete
  <2>3. QED
    BY <1>1, <2>1, <2>2 DEF ViewReaches, CompleteKept
<1>2. QED
  BY <1>1 DEF Forward

\* Forward, and forward again.
LEMMA ForwardOn ==
    ASSUME NEW t, NEW u, NEW v, TablesOK(t), TablesOK(u), TablesOK(v),
           Forward(t, u), Forward(u, v)
    PROVE  Forward(t, v)
<1>1. CompleteKept(t, v)
  BY DEF Forward, CompleteKept
<1>2. ASSUME NEW d \in Drives, NEW s \in SnapshotIds,
             IsComplete(u, s), ViewReaches(u, d, s)
      PROVE  ViewReaches(v, d, s)
  <2> DEFINE x == u.latest[d]
             y == v.latest[d]
  <2>1. /\ x \in SnapshotIds /\ IsComplete(u, x) /\ u.rows[x].completedAt \in Int
        /\ u.rows[s].completedAt \in Int /\ u.rows[s].completedAt <= u.rows[x].completedAt
    BY <1>2, ViewIsComplete, CompleteRowsHere DEF ViewReaches, CompleteRows
  <2>2. y # NoSnapshot /\ v.rows[x].completedAt <= v.rows[y].completedAt
    BY <2>1 DEF Forward, ViewReaches
  <2>3. v.rows[y].completedAt \in Int
    BY <2>2, ViewIsComplete
  <2>4. /\ v.rows[s].completedAt = u.rows[s].completedAt
        /\ v.rows[x].completedAt = u.rows[x].completedAt
    BY <1>2, <2>1 DEF Forward, CompleteKept
  <2>5. QED
    BY <2>1, <2>2, <2>3, <2>4 DEF ViewReaches
<1>3. ASSUME NEW d \in Drives, NEW s \in SnapshotIds,
             \/ IsComplete(v, s) /\ ~IsComplete(t, s) /\ v.rows[s].drive = d
             \/ s = t.latest[d]
      PROVE  ViewReaches(v, d, s)
  <2>1. CASE ~IsComplete(u, s)
    <3>1. s # t.latest[d]
      BY <2>1, ViewIsComplete, SizeAssumption
         DEF SnapshotIds, NoSnapshot, Forward, CompleteKept
    <3>2. QED
      BY <1>3, <2>1, <3>1 DEF Forward
  <2>2. CASE IsComplete(u, s)
    <3>1. u.rows[s].drive = v.rows[s].drive
      BY <2>2 DEF Forward, CompleteKept
    <3>2. ViewReaches(u, d, s)
      BY <1>3, <2>2, <3>1 DEF Forward
    <3>3. QED
      BY <1>2, <2>2, <3>2
  <2>3. QED
    BY <2>1, <2>2
<1>4. QED
  BY <1>1, <1>3 DEF Forward

-----------------------------------------------------------------------------
(* What is done to tables.                                                 *)

\* A drive gets a name.
LEMMA NamedOK ==
    ASSUME NEW t, TablesOK(t), NEW d \in Drives, NEW name \in Names, name # NoName,
           NEW now, DatedBefore(t, now)
    PROVE  LET u == [t EXCEPT !.name[d] = name]
           IN  TablesOK(u) /\ DatedBefore(u, now)
<1> DEFINE u == [t EXCEPT !.name[d] = name]
<1>1. /\ u \in Tables /\ u.name = [t.name EXCEPT ![d] = name] /\ u.latest = t.latest
      /\ u.rows = t.rows /\ u.lastId = t.lastId /\ u.receipts = t.receipts
  BY DEF TablesOK, Tables
<1> HIDE DEF u
<1>2. \A e \in Drives : t.name[e] # NoName => u.name[e] # NoName
  BY <1>1 DEF TablesOK, Tables
<1>3. RowsNumbered(u)
  BY <1>1, <1>2, CompleteRowsHere DEF TablesOK, RowsNumbered
<1>4. ReceiptsTrue(u)
  BY <1>1 DEF TablesOK, ReceiptsTrue
<1>5. \A e \in Drives : ViewOf(u, e)
  BY <1>1 DEF TablesOK, ViewOf, IsComplete
<1>6. DatedBefore(u, now)
  BY <1>1 DEF DatedBefore, IsComplete
<1>7. QED
  BY <1>1, <1>3, <1>4, <1>5, <1>6 DEF TablesOK, u

\* Interrupted scans are marked failed.
LEMMA MigratedOK ==
    ASSUME NEW t, TablesOK(t), NEW S \in SUBSET UnfinishedIn(t),
           NEW now, DatedBefore(t, now)
    PROVE  /\ TablesOK(Migrated(t, S)) /\ DatedBefore(Migrated(t, S), now)
           /\ Migrated(t, S).name = t.name /\ Migrated(t, S).lastId = t.lastId
           /\ Migrated(t, S).receipts = t.receipts
           /\ Forward(t, Migrated(t, S))
           /\ \A s \in SnapshotIds :
                  /\ IsComplete(Migrated(t, S), s) <=> IsComplete(t, s)
                  /\ IsComplete(t, s) => Migrated(t, S).rows[s] = t.rows[s]
                  /\ Migrated(t, S).rows[s].drive = t.rows[s].drive
<1> DEFINE u == Migrated(t, S)
           rows == [s \in SnapshotIds |->
                      IF s \in S THEN UnfinishedRow(t.rows[s].drive, "failed")
                                 ELSE t.rows[s]]
<1>1. \A s \in S : s \in SnapshotIds /\ s <= t.lastId /\ t.rows[s].status = "scanning"
  <2>1. t.lastId \in 0 .. MaxRows
    BY DEF TablesOK, Tables
  <2>2. 1 .. t.lastId \subseteq SnapshotIds
    BY <2>1, SizeAssumption DEF SnapshotIds
  <2>3. QED
    BY <2>1, <2>2 DEF UnfinishedIn
<1>2. \A s \in S : t.rows[s].drive \in Drives
  BY <1>1, CompleteRowsHere
<1>3. \A s \in S : UnfinishedRow(t.rows[s].drive, "failed") \in Rows
  BY <1>2 DEF UnfinishedRow, Rows
<1>4. rows \in [SnapshotIds -> Rows]
  BY <1>3 DEF TablesOK, Tables
<1>5. u = [t EXCEPT !.rows = rows]
  BY DEF Migrated
<1>6. /\ \A s \in S : rows[s].drive = t.rows[s].drive /\ rows[s].status = "failed"
                      /\ rows[s] # NoRow
      /\ \A s \in SnapshotIds \ S : rows[s] = t.rows[s]
  BY <1>1 DEF UnfinishedRow, NoRow
<1> HIDE DEF rows
<1>7. /\ u \in Tables /\ u.rows = rows /\ u.name = t.name /\ u.latest = t.latest
      /\ u.lastId = t.lastId /\ u.receipts = t.receipts
  BY <1>4, <1>5 DEF TablesOK, Tables
<1> HIDE DEF u
<1>8. \A s \in SnapshotIds : /\ IsComplete(u, s) <=> IsComplete(t, s)
                             /\ IsComplete(t, s) => u.rows[s] = t.rows[s]
                             /\ u.rows[s].drive = t.rows[s].drive
  BY <1>1, <1>6, <1>7 DEF IsComplete
<1>9. RowsNumbered(u)
  BY <1>1, <1>6, <1>7 DEF TablesOK, RowsNumbered, NoRow
<1>10. ReceiptsTrue(u)
  BY <1>7, <1>8, ReceiptRows DEF TablesOK, ReceiptsTrue
<1>11. \A d \in Drives : ViewOf(u, d)
  BY <1>7, <1>8 DEF TablesOK, ViewOf
<1>12. DatedBefore(u, now) /\ Forward(t, u)
  <2>1. CompleteKept(t, u)
    BY <1>8 DEF CompleteKept
  <2>2. QED
    BY <1>7, <1>8, <2>1, ForwardHere DEF DatedBefore
<1>13. QED
  BY <1>7, <1>8, <1>9, <1>10, <1>11, <1>12 DEF TablesOK, u

\* A row is inserted.
LEMMA NewRow ==
    ASSUME NEW t, TablesOK(t), t.lastId < MaxRows
    PROVE  /\ t.lastId + 1 \in SnapshotIds /\ ~(t.lastId + 1 <= t.lastId)
           /\ t.lastId \in Nat /\ t.rows[t.lastId + 1] = NoRow
           /\ \A r \in t.receipts : r.snapshot # t.lastId + 1
           /\ \A s \in SnapshotIds : s <= t.lastId + 1 <=> s = t.lastId + 1 \/ s <= t.lastId
<1>1. t.lastId \in 0 .. MaxRows
  BY DEF TablesOK, Tables
<1>2. /\ t.lastId + 1 \in SnapshotIds /\ ~(t.lastId + 1 <= t.lastId) /\ t.lastId \in Nat
      /\ \A s \in SnapshotIds : s <= t.lastId + 1 <=> s = t.lastId + 1 \/ s <= t.lastId
  BY <1>1, SizeAssumption DEF SnapshotIds
<1>3. \A r \in t.receipts : r.snapshot <= t.lastId
  BY DEF TablesOK, ReceiptsTrue
<1>4. QED
  BY <1>2, <1>3 DEF TablesOK, RowsNumbered

LEMMA InsertedRow ==
    ASSUME NEW t, TablesOK(t), t.lastId < MaxRows, NEW row \in Rows
    PROVE  /\ InsertRow(t, row) \in Tables
           /\ InsertRow(t, row).rows = [t.rows EXCEPT ![t.lastId + 1] = row]
           /\ InsertRow(t, row).lastId = t.lastId + 1
           /\ InsertRow(t, row).name = t.name /\ InsertRow(t, row).latest = t.latest
           /\ InsertRow(t, row).receipts = t.receipts
<1>1. t.lastId + 1 \in SnapshotIds /\ t.lastId + 1 \in 0 .. MaxRows
  BY NewRow DEF SnapshotIds
<1>2. [t.rows EXCEPT ![t.lastId + 1] = row] \in [SnapshotIds -> Rows]
  BY <1>1 DEF TablesOK, Tables
<1> DEFINE rows == [t.rows EXCEPT ![t.lastId + 1] = row]
           n == t.lastId + 1
<1>3. InsertRow(t, row) = [t EXCEPT !.rows = rows, !.lastId = n]
  BY DEF InsertRow, TablesOK, Tables
<1>4. rows \in [SnapshotIds -> Rows] /\ n \in 0 .. MaxRows
  BY <1>1, <1>2
<1> HIDE DEF rows, n
<1>5. /\ InsertRow(t, row) \in Tables
      /\ InsertRow(t, row).rows = rows /\ InsertRow(t, row).lastId = n
      /\ InsertRow(t, row).name = t.name /\ InsertRow(t, row).latest = t.latest
      /\ InsertRow(t, row).receipts = t.receipts
  BY <1>3, <1>4 DEF TablesOK, Tables
<1>6. QED
  BY <1>5 DEF rows, n

LEMMA UnfinishedOK ==
    ASSUME NEW t, TablesOK(t), t.lastId < MaxRows,
           NEW row \in UnfinishedRows, t.name[row.drive] # NoName,
           NEW now, DatedBefore(t, now)
    PROVE  /\ TablesOK(InsertRow(t, row)) /\ DatedBefore(InsertRow(t, row), now)
           /\ \A s \in SnapshotIds :
                  /\ IsComplete(InsertRow(t, row), s) <=> IsComplete(t, s)
                  /\ s <= t.lastId => InsertRow(t, row).rows[s] = t.rows[s]
<1> DEFINE u == InsertRow(t, row)
           n == t.lastId + 1
<1>1. row \in Rows /\ row # NoRow /\ row.status # "complete" /\ row.drive \in Drives
  BY DEF Rows, UnfinishedRows, NoRow
<1>2. /\ n \in SnapshotIds /\ ~(n <= t.lastId) /\ t.rows[n] = NoRow
      /\ \A r \in t.receipts : r.snapshot # n
      /\ \A s \in SnapshotIds : s <= n <=> s = n \/ s <= t.lastId
  BY NewRow
<1>3. /\ u \in Tables /\ u.rows = [t.rows EXCEPT ![n] = row] /\ u.lastId = n
      /\ u.name = t.name /\ u.latest = t.latest /\ u.receipts = t.receipts
  BY <1>1, InsertedRow
<1> HIDE DEF u, n
<1>4. u.rows[n] = row /\ \A s \in SnapshotIds : s # n => u.rows[s] = t.rows[s]
  BY <1>2, <1>3 DEF TablesOK, Tables
<1>5. /\ \A s \in SnapshotIds : IsComplete(u, s) <=> IsComplete(t, s)
      /\ \A s \in SnapshotIds : IsComplete(t, s) => u.rows[s] = t.rows[s]
  BY <1>1, <1>2, <1>4 DEF IsComplete, NoRow
<1>6. RowsNumbered(u)
  BY <1>1, <1>2, <1>3, <1>4 DEF TablesOK, RowsNumbered
<1>7. ReceiptsTrue(u)
  <2>1. ASSUME NEW r \in t.receipts
        PROVE  u.rows[r.snapshot] = t.rows[r.snapshot] /\ r.snapshot <= n
    BY <1>2, <1>4, ReceiptRows DEF TablesOK, ReceiptsTrue
  <2>2. QED
    BY <1>3, <2>1 DEF TablesOK, ReceiptsTrue
<1>8. \A d \in Drives : ViewOf(u, d)
  BY <1>2, <1>3, <1>5 DEF TablesOK, ViewOf
<1>9. DatedBefore(u, now)
  BY <1>3, <1>5 DEF DatedBefore
<1>10. \A s \in SnapshotIds : s <= t.lastId => u.rows[s] = t.rows[s]
  BY <1>2, <1>4
<1>11. QED
  BY <1>3, <1>5, <1>6, <1>7, <1>8, <1>9, <1>10 DEF TablesOK, u

\* Row k, a new one or that of a running scan, becomes complete, and the view
\* unless that is to stay.
Completed(t, u, k, row, becomes) ==
    /\ ~IsComplete(t, k) /\ t.name[row.drive] # NoName /\ u.name = t.name
    /\ \A s \in SnapshotIds : s <= u.lastId <=> s = k \/ s <= t.lastId
    /\ u.rows = [t.rows EXCEPT ![k] = row]
    /\ u.latest = [t.latest EXCEPT ![row.drive] = IF becomes THEN k ELSE @]

LEMMA CompleteOK ==
    ASSUME NEW t, TablesOK(t), NEW k \in SnapshotIds, NEW row \in CompleteRows,
           NEW now, DatedBefore(t, now), row.completedAt <= now,
           NEW becomes \in BOOLEAN, NEW u \in Tables, ReceiptsTrue(u),
           Completed(t, u, k, row, becomes)
    PROVE  /\ TablesOK(u) /\ DatedBefore(u, now) /\ CompleteKept(t, u)
           /\ u.latest[row.drive] = (IF becomes THEN k ELSE t.latest[row.drive])
           /\ u.rows[k] = row
           /\ \A s \in SnapshotIds :
                  /\ s # k => u.rows[s] = t.rows[s]
                  /\ IsComplete(u, s) <=> s = k \/ IsComplete(t, s)
           /\ \A d \in Drives : d # row.drive => u.latest[d] = t.latest[d]
<1> USE DEF Completed
<1>1. /\ row \in Rows /\ row # NoRow /\ row.status = "complete" /\ row.drive \in Drives
      /\ row.completedAt \in Int
  BY DEF Rows, CompleteRows, NoRow
<1>2. k # NoSnapshot
  BY SizeAssumption DEF NoSnapshot, SnapshotIds
<1>3. u.rows[k] = row /\ \A s \in SnapshotIds : s # k => u.rows[s] = t.rows[s]
  BY DEF TablesOK, Tables
<1>4. /\ \A d \in Drives : d # row.drive => u.latest[d] = t.latest[d]
      /\ u.latest[row.drive] = IF becomes THEN k ELSE t.latest[row.drive]
  BY <1>1 DEF TablesOK, Tables
<1>5. \A s \in SnapshotIds : IsComplete(u, s) <=> s = k \/ IsComplete(t, s)
  BY <1>1, <1>3 DEF IsComplete
<1>6. RowsNumbered(u)
  BY <1>1, <1>3 DEF TablesOK, RowsNumbered
<1>7. ASSUME NEW d \in Drives PROVE ViewOf(u, d)
  <2>1. CASE u.latest[d] = k
    BY <1>5, <2>1 DEF ViewOf
  <2>2. CASE u.latest[d] # k
    <3>1. u.latest[d] = t.latest[d] /\ ViewOf(t, d)
      BY <1>4, <2>2 DEF TablesOK
    <3>2. QED
      BY <1>5, <2>2, <3>1 DEF ViewOf
  <2>3. QED
    BY <2>1, <2>2
<1>8. DatedBefore(u, now) /\ CompleteKept(t, u)
  BY <1>3, <1>5 DEF DatedBefore, CompleteKept
<1>9. QED
  BY <1>3, <1>4, <1>5, <1>6, <1>7, <1>8 DEF TablesOK

\* The row that becomes complete is as new as the view, or does not become it.
LEMMA CompleteForward ==
    ASSUME NEW t, TablesOK(t), NEW u, TablesOK(u), CompleteKept(t, u),
           NEW k \in SnapshotIds, NEW row \in CompleteRows, u.rows[k] = row,
           NEW becomes \in BOOLEAN,
           becomes => \/ t.latest[row.drive] = NoSnapshot
                      \/ t.rows[t.latest[row.drive]].completedAt <= row.completedAt,
           ~becomes => /\ t.latest[row.drive] # NoSnapshot
                       /\ row.completedAt <= t.rows[t.latest[row.drive]].completedAt,
           u.latest[row.drive] = (IF becomes THEN k ELSE t.latest[row.drive]),
           \A s \in SnapshotIds : IsComplete(u, s) => s = k \/ IsComplete(t, s),
           \A d \in Drives : d # row.drive => u.latest[d] = t.latest[d]
    PROVE  Forward(t, u)
<1>1. k # NoSnapshot /\ row.drive \in Drives /\ row.completedAt \in Int
  BY SizeAssumption DEF NoSnapshot, SnapshotIds, CompleteRows
<1>2. ASSUME NEW d \in Drives, t.latest[d] # NoSnapshot
      PROVE  /\ t.latest[d] \in SnapshotIds /\ IsComplete(t, t.latest[d])
             /\ t.rows[t.latest[d]].completedAt \in Int
             /\ u.rows[t.latest[d]].completedAt = t.rows[t.latest[d]].completedAt
  BY <1>2, ViewIsComplete DEF CompleteKept
<1>3. ASSUME NEW d \in Drives, NEW s \in SnapshotIds, s = t.latest[d]
      PROVE  ViewReaches(u, d, s)
  <2>1. s # NoSnapshot
    BY SizeAssumption DEF SnapshotIds, NoSnapshot
  <2>2. CASE d = row.drive /\ becomes
    BY <1>1, <1>2, <1>3, <2>1, <2>2 DEF ViewReaches
  <2>3. CASE u.latest[d] = t.latest[d]
    BY <1>2, <1>3, <2>1, <2>3 DEF ViewReaches
  <2>4. QED
    BY <2>2, <2>3
<1>4. ASSUME NEW d \in Drives, NEW s \in SnapshotIds, IsComplete(u, s), ~IsComplete(t, s),
             u.rows[s].drive = d
      PROVE  ViewReaches(u, d, s)
  <2>1. s = k /\ d = row.drive
    BY <1>4
  <2>2. CASE becomes
    BY <1>1, <2>1, <2>2 DEF ViewReaches
  <2>3. CASE ~becomes
    BY <1>1, <1>2, <2>1, <2>3 DEF ViewReaches
  <2>4. QED
    BY <2>2, <2>3
<1>5. QED
  BY <1>3, <1>4 DEF Forward

\* A row that is not complete is marked failed.
LEMMA FailedOK ==
    ASSUME NEW t, TablesOK(t), NEW k \in SnapshotIds, k <= t.lastId, ~IsComplete(t, k),
           NEW row \in UnfinishedRows, row.drive = t.rows[k].drive,
           NEW now, DatedBefore(t, now),
           NEW u \in Tables, u.name = t.name, u.lastId = t.lastId, u.latest = t.latest,
           u.receipts = t.receipts, u.rows = [t.rows EXCEPT ![k] = row]
    PROVE  /\ TablesOK(u) /\ DatedBefore(u, now)
           /\ \A s \in SnapshotIds : /\ IsComplete(u, s) <=> IsComplete(t, s)
                                     /\ IsComplete(t, s) => u.rows[s] = t.rows[s]
                                     /\ u.rows[s].drive = t.rows[s].drive
<1>1. row # NoRow /\ row.status # "complete"
  BY DEF UnfinishedRows, NoRow
<1>2. u.rows[k] = row /\ \A s \in SnapshotIds : s # k => u.rows[s] = t.rows[s]
  BY DEF TablesOK, Tables
<1>3. \A s \in SnapshotIds : /\ IsComplete(u, s) <=> IsComplete(t, s)
                             /\ IsComplete(t, s) => u.rows[s] = t.rows[s]
                             /\ u.rows[s].drive = t.rows[s].drive
  BY <1>1, <1>2 DEF IsComplete
<1>4. RowsNumbered(u)
  BY <1>1, <1>2, <1>3 DEF TablesOK, RowsNumbered
<1>5. ReceiptsTrue(u)
  BY <1>3, ReceiptRows DEF TablesOK, ReceiptsTrue
<1>6. \A d \in Drives : ViewOf(u, d)
  BY <1>3 DEF TablesOK, ViewOf
<1>7. DatedBefore(u, now)
  BY <1>3 DEF DatedBefore
<1>8. QED
  BY <1>3, <1>4, <1>5, <1>6, <1>7 DEF TablesOK

\* An imported row is put under another policy, and its receipt says so.
LEMMA PolicyOK ==
    ASSUME NEW t, TablesOK(t), NEW r \in t.receipts, NEW trust \in BOOLEAN,
           NEW now, DatedBefore(t, now),
           NEW u \in Tables, u.name = t.name, u.lastId = t.lastId, u.latest = t.latest,
           u.rows = [t.rows EXCEPT ![r.snapshot] = UnderPolicy(r.digest.row, trust)],
           u.receipts = (t.receipts \ {r}) \cup {[r EXCEPT !.trusted = trust]}
    PROVE  /\ TablesOK(u) /\ DatedBefore(u, now) /\ Forward(t, u)
           /\ \A s \in SnapshotIds : /\ IsComplete(u, s) <=> IsComplete(t, s)
                                     /\ u.rows[s].drive = t.rows[s].drive
<1> DEFINE n == r.snapshot
           old == r.digest.row
           new == UnderPolicy(old, trust)
           x == [r EXCEPT !.trusted = trust]
<1>1. /\ n \in SnapshotIds /\ old \in CompleteRows /\ IsComplete(t, n)
      /\ t.rows[n] = UnderPolicy(old, r.trusted) /\ r.trusted \in BOOLEAN /\ r \in Receipts
  BY ReceiptRows
<1>2. /\ new \in CompleteRows /\ new.status = "complete"
      /\ new.drive = old.drive /\ new.completedAt = old.completedAt
      /\ t.rows[n].drive = old.drive /\ t.rows[n].completedAt = old.completedAt
  BY <1>1, PolicyKeeps
<1>3. x.snapshot = n /\ x.digest = r.digest /\ x.digest.row = old /\ x.trusted = trust
  BY <1>1 DEF Receipts
<1>4. u.rows[n] = new /\ \A s \in SnapshotIds : s # n => u.rows[s] = t.rows[s]
  BY <1>1 DEF TablesOK, Tables
<1>5. u.receipts = (t.receipts \ {r}) \cup {x}
  OBVIOUS
<1>6. new # NoRow
  BY <1>2 DEF NoRow
<1> HIDE DEF x, new, n, old
<1>7. \A s \in SnapshotIds :
          /\ IsComplete(u, s) <=> IsComplete(t, s)
          /\ IsComplete(t, s) => /\ u.rows[s].drive = t.rows[s].drive
                                 /\ u.rows[s].completedAt = t.rows[s].completedAt
          /\ u.rows[s] # NoRow <=> t.rows[s] # NoRow
          /\ u.rows[s].drive = t.rows[s].drive
  BY <1>1, <1>2, <1>4, <1>6 DEF IsComplete, NoRow
<1>8. RowsNumbered(u)
  BY <1>7 DEF TablesOK, RowsNumbered
<1>9. ASSUME NEW q \in u.receipts
      PROVE  /\ q.snapshot <= u.lastId
             /\ u.rows[q.snapshot] = UnderPolicy(q.digest.row, q.trusted)
             /\ \A p \in u.receipts :
                    p.digest = q.digest \/ p.snapshot = q.snapshot => p = q
  <2>1. \A p \in t.receipts \ {r} : p.digest # r.digest /\ p.snapshot # n
    BY DEF TablesOK, ReceiptsTrue, n
  <2>2. CASE q = x
    <3>1. q.snapshot <= u.lastId
      BY <1>3, <2>2 DEF TablesOK, ReceiptsTrue, n
    <3>2. u.rows[q.snapshot] = UnderPolicy(q.digest.row, q.trusted)
      BY <1>3, <1>4, <2>2 DEF new
    <3>3. QED
      BY <1>3, <1>5, <2>1, <2>2, <3>1, <3>2
  <2>3. CASE q # x
    <3>1. q \in t.receipts /\ q.snapshot # n /\ q.digest # r.digest
      BY <1>5, <2>1, <2>3
    <3>2. q.snapshot \in SnapshotIds /\ u.rows[q.snapshot] = t.rows[q.snapshot]
      BY <1>4, <3>1, ReceiptRows
    <3>3. /\ q.snapshot <= t.lastId
          /\ t.rows[q.snapshot] = UnderPolicy(q.digest.row, q.trusted)
          /\ \A p \in t.receipts :
                 p.digest = q.digest \/ p.snapshot = q.snapshot => p = q
      BY <3>1 DEF TablesOK, ReceiptsTrue
    <3>4. QED
      BY <1>3, <1>5, <3>1, <3>2, <3>3
  <2>4. QED
    BY <2>2, <2>3
<1>10. \A d \in Drives : ViewOf(u, d)
  BY <1>7 DEF TablesOK, ViewOf
<1>11. CompleteKept(t, u)
  BY <1>7 DEF CompleteKept
<1>12. DatedBefore(u, now) /\ Forward(t, u)
  BY <1>7, <1>11, ForwardHere DEF DatedBefore
<1>13. QED
  BY <1>7, <1>8, <1>9, <1>10, <1>12 DEF TablesOK, ReceiptsTrue

-----------------------------------------------------------------------------
(* A running import.                                                       *)

Import == [phase  : {"drives", "snapshots", "ready"}, into : Catalogs,
           source : Tables, base : Tables, work : Tables,
           trust  : BOOLEAN, rename : BOOLEAN, dry : BOOLEAN,
           drive  : 1 .. NumDrives + 1, done : 0 .. MaxRows]

\* The rows of the source that the two loops have been at.
Visited(m) ==
    {s \in 1 .. m.source.lastId :
        \/ m.source.rows[s].drive < m.drive
        \/ m.source.rows[s].drive = m.drive /\ m.phase = "snapshots" /\ s <= m.done}

Position(m) ==
    /\ m.phase \in {"drives", "snapshots"} => m.drive \in Drives
    /\ m.phase = "ready" => m.drive = NumDrives + 1

NamesArrived(m) ==
    \A d \in Drives :
        /\ d < m.drive \/ (d = m.drive /\ m.phase = "snapshots")
        /\ m.source.name[d] # NoName
        => m.work.name[d] # NoName

Receipted(m, s) ==
    \E r \in m.work.receipts : r.digest = Digest(m.source, s)

RowsArrived(m) ==
    \A s \in Visited(m) : IsComplete(m.source, s) =>
        \E r \in m.work.receipts : r.digest = Digest(m.source, s) /\ r.trusted = m.trust

\* A row is inserted at most once for each row of the source.
Room(m) ==
    \/ /\ m.source.lastId + m.base.lastId <= MaxRows
       /\ m.work.lastId <= m.base.lastId + Cardinality(Visited(m))
    \/ \A s \in 1 .. m.source.lastId : IsComplete(m.source, s) => Receipted(m, s)

\* The names and the complete rows that the target had of its own.
OwnKept(m) ==
    /\ m.base.lastId <= m.work.lastId
    /\ \A d \in Drives : m.base.name[d] # NoName => m.work.name[d] = m.base.name[d]
    /\ \A r \in m.work.receipts : r.snapshot <= m.base.lastId =>
           \E q \in m.base.receipts : q.snapshot = r.snapshot
    /\ \A s \in 1 .. m.base.lastId :
           IsComplete(m.base, s) /\ (\A r \in m.base.receipts : r.snapshot # s)
               => m.work.rows[s] = m.base.rows[s]

\* No import completes a row that the target had, or gives it to another drive.
UnfinishedKept(m) ==
    \A s \in 1 .. m.base.lastId : ~IsComplete(m.base, s) =>
        /\ ~IsComplete(m.work, s)
        /\ m.work.rows[s].drive = m.base.rows[s].drive

ImportKnows(m, now) ==
    /\ m \in Import
    /\ TablesOK(m.source) /\ TablesOK(m.base) /\ TablesOK(m.work)
    /\ DatedBefore(m.source, now) /\ DatedBefore(m.work, now)
    /\ Position(m) /\ NamesArrived(m) /\ RowsArrived(m) /\ Room(m) /\ OwnKept(m)
    /\ Forward(m.base, m.work) /\ UnfinishedKept(m)

MergeInv ==
    /\ tables \in [Catalogs -> Tables]
    /\ \A c \in Catalogs : TablesOK(tables[c]) /\ DatedBefore(tables[c], clock)
    /\ scans \in 0 .. MaxScans /\ clock \in 1 .. MaxTime
    /\ \/ merge = NoMerge
       \/ /\ ImportKnows(merge, clock)
          /\ ~merge.dry => tables[merge.into] = merge.base

\* No import that is not a preview writes to c.
NoImportInto(c) == merge.phase # "idle" /\ merge.into = c => merge.dry

\* The row of a running scan is there and not complete, whoever has marked it
\* failed meanwhile; no date in its catalog is after that of a scan which has
\* the lock.
WriterOK(w, t, now, begun) ==
    /\ w.row <= t.lastId /\ ~IsComplete(t, w.row) /\ t.rows[w.row].drive = w.drive
    /\ w.at <= now /\ w.scan <= begun
    /\ w.stored /\ w.at # 0 => DatedBefore(t, w.at)

WritersInv ==
    /\ writers \subseteq Writers
    /\ \A w \in writers : /\ WriterOK(w, tables[w.into], clock, scans)
                          /\ w.stored => NoImportInto(w.into)
    /\ \A w, x \in writers : w # x =>
           /\ w.scan # x.scan
           /\ w.into = x.into => w.row # x.row /\ ~(w.stored /\ x.stored)

LEMMA Running ==
    ASSUME MergeInv, merge.phase # "idle"
    PROVE  /\ ImportKnows(merge, clock) /\ merge \in Import
           /\ ~merge.dry => tables[merge.into] = merge.base
BY DEF MergeInv, NoMerge, ImportKnows

LEMMA IdsInRange ==
    ASSUME NEW t, TablesOK(t)
    PROVE  t.lastId \in 0 .. MaxRows /\ t.lastId \in Nat /\ 1 .. t.lastId \subseteq SnapshotIds
<1>1. t.lastId \in 0 .. MaxRows
  BY DEF TablesOK, Tables
<1>2. QED
  BY <1>1, SizeAssumption DEF SnapshotIds

LEMMA VisitedFinite ==
    ASSUME NEW m, TablesOK(m.source)
    PROVE  /\ IsFiniteSet(Visited(m)) /\ Cardinality(Visited(m)) \in Nat
           /\ Cardinality(Visited(m)) <= m.source.lastId
           /\ \A s \in (1 .. m.source.lastId) \ Visited(m) :
                  /\ Cardinality(Visited(m) \cup {s}) = Cardinality(Visited(m)) + 1
                  /\ Cardinality(Visited(m)) + 1 <= m.source.lastId
<1>1. m.source.lastId \in Nat
  BY IdsInRange
<1>2. IsFiniteSet(1 .. m.source.lastId) /\ Cardinality(1 .. m.source.lastId) = m.source.lastId
  <2>1. m.source.lastId \in Int /\ 1 \in Int
    BY <1>1
  <2>2. /\ IsFiniteSet(1 .. m.source.lastId)
        /\ Cardinality(1 .. m.source.lastId) =
               IF 1 > m.source.lastId THEN 0 ELSE m.source.lastId - 1 + 1
    BY <2>1, FS_Interval
  <2>3. QED
    BY <1>1, <2>2
<1>3. Visited(m) \subseteq 1 .. m.source.lastId
  BY DEF Visited
<1>4. /\ IsFiniteSet(Visited(m)) /\ Cardinality(Visited(m)) \in Nat
      /\ Cardinality(Visited(m)) <= m.source.lastId
  BY <1>2, <1>3, FS_Subset, FS_CardinalityType
<1>5. ASSUME NEW s \in (1 .. m.source.lastId) \ Visited(m)
      PROVE  /\ Cardinality(Visited(m) \cup {s}) = Cardinality(Visited(m)) + 1
             /\ Cardinality(Visited(m)) + 1 <= m.source.lastId
  <2>1. Cardinality(Visited(m) \cup {s}) = Cardinality(Visited(m)) + 1
    BY <1>4, <1>5, FS_AddElement
  <2>2. Visited(m) \cup {s} \subseteq 1 .. m.source.lastId
    BY <1>3
  <2>3. Cardinality(Visited(m) \cup {s}) <= m.source.lastId
    BY <1>2, <2>2, FS_Subset
  <2>4. QED
    BY <2>1, <2>3
<1>6. QED
  BY <1>4, <1>5

-----------------------------------------------------------------------------
(* The steps of the import.                                                *)

LEMMA BeginKnows ==
    ASSUME MergeInv, NEW source \in Catalogs, NEW c \in Catalogs,
           NEW trust \in BOOLEAN, NEW rename \in BOOLEAN, NEW dry \in BOOLEAN,
           BeginImport(source, c, trust, rename, dry)
    PROVE  ImportKnows(merge', clock) /\ merge'.base = tables[merge'.into]
<1> DEFINE s0 == tables[source]
           t0 == tables[c]
<1>1. /\ TablesOK(s0) /\ DatedBefore(s0, clock)
      /\ TablesOK(t0) /\ DatedBefore(t0, clock)
      /\ RoomFor(s0, t0) /\ s0 \in Tables /\ t0 \in Tables
  BY DEF MergeInv, BeginImport, TablesOK
<1>2. PICK S \in SUBSET UnfinishedIn(t0) :
          merge' = [phase |-> "drives", into |-> c, source |-> s0,
                    base |-> t0, work |-> Migrated(t0, S),
                    trust |-> trust, rename |-> rename, dry |-> dry,
                    drive |-> 1, done |-> 0]
  BY DEF BeginImport
<1> DEFINE u == Migrated(t0, S)
<1>3. /\ TablesOK(u) /\ DatedBefore(u, clock) /\ u \in Tables
      /\ u.name = t0.name /\ u.lastId = t0.lastId /\ u.receipts = t0.receipts
      /\ Forward(t0, u)
      /\ \A s \in SnapshotIds : /\ IsComplete(u, s) <=> IsComplete(t0, s)
                                /\ IsComplete(t0, s) => u.rows[s] = t0.rows[s]
                                /\ u.rows[s].drive = t0.rows[s].drive
  <2>1. TablesOK(u) => u \in Tables
    BY DEF TablesOK
  <2>2. QED
    BY <1>1, <2>1, MigratedOK
<1> HIDE DEF s0, t0, u
<1>4. /\ merge'.source = s0 /\ merge'.base = t0 /\ merge'.work = u
      /\ merge'.phase = "drives" /\ merge'.drive = 1 /\ merge'.into = c
      /\ merge'.trust = trust /\ merge'.done = 0
  BY <1>2 DEF s0, t0, u
<1>5. merge' \in Import
  BY <1>1, <1>2, <1>3, SizeAssumption DEF Import, s0, t0, u
<1>6. Position(merge')
  BY <1>4, SizeAssumption DEF Position, Drives
<1>7. Visited(merge') = {} /\ \A d \in Drives : ~(d < 1)
  <2>1. ASSUME NEW s \in 1 .. s0.lastId PROVE ~(s0.rows[s].drive < 1)
    <3>1. s0.rows[s].drive \in Drives
      BY <1>1, CompleteRowsHere, IdsInRange
    <3>2. QED
      BY <3>1, SizeAssumption DEF Drives
  <2>2. QED
    BY <1>4, <2>1, SizeAssumption DEF Visited, Drives
<1>8. NamesArrived(merge') /\ RowsArrived(merge')
  BY <1>4, <1>7 DEF NamesArrived, RowsArrived
<1>9. Room(merge')
  <2>1. Cardinality({}) = 0 /\ s0.lastId \in Nat /\ t0.lastId \in Nat
    BY <1>1, FS_EmptySet, IdsInRange
  <2>2. QED
    BY <1>1, <1>3, <1>4, <1>7, <2>1 DEF Room, Receipted, RoomFor
<1>10. OwnKept(merge') /\ UnfinishedKept(merge') /\ Forward(merge'.base, merge'.work)
  <2>1. t0.lastId <= u.lastId /\ 1 .. t0.lastId \subseteq SnapshotIds
    BY <1>1, <1>3, IdsInRange
  <2>2. QED
    BY <1>3, <1>4, <2>1 DEF OwnKept, UnfinishedKept
<1>11. QED
  BY <1>1, <1>3, <1>4, <1>5, <1>6, <1>8, <1>9, <1>10 DEF ImportKnows, t0

\* The loop over the snapshots is at row s.
NextRow(m, s) ==
    /\ s \in 1 .. m.source.lastId /\ m.source.rows[s].drive = m.drive /\ s > m.done
    /\ \A x \in 1 .. m.source.lastId :
           m.source.rows[x].drive = m.drive /\ x > m.done => s <= x

\* A row of the source has been dealt with.
LEMMA RowVisited ==
    ASSUME NEW m \in Import, TablesOK(m.source), m.phase = "snapshots",
           NEW s, NextRow(m, s),
           NEW n \in Import, n.source = m.source, n.drive = m.drive, n.phase = m.phase, n.done = s
    PROVE  Visited(n) = Visited(m) \cup {s} /\ s \notin Visited(m)
<1>1. m.done \in Nat /\ m.drive \in Nat /\ m.source.lastId \in Nat
  BY IdsInRange, SizeAssumption DEF Import
<1> USE DEF NextRow
<1>2. s \notin Visited(m)
  BY <1>1 DEF Visited
<1>3. ASSUME NEW x \in 1 .. m.source.lastId
      PROVE  x \in Visited(n) <=> x \in Visited(m) \/ x = s
  BY <1>1 DEF Visited
<1>4. QED
  BY <1>2, <1>3 DEF Visited

LEMMA AtSnapshotMeans ==
    ASSUME MergeInv, NEW s, AtSnapshot(s)
    PROVE  /\ ImportKnows(merge, clock) /\ merge \in Import /\ merge.phase = "snapshots"
           /\ TablesOK(merge.source) /\ TablesOK(merge.work)
           /\ s \in 1 .. merge.source.lastId /\ s \in SnapshotIds
           /\ merge.source.rows[s].drive = merge.drive /\ NextRow(merge, s)
           /\ merge.drive \in Drives /\ s \in 0 .. MaxRows
<1>1. merge.phase = "snapshots" /\ merge.phase # "idle"
  BY DEF AtSnapshot
<1>2. ImportKnows(merge, clock) /\ merge \in Import
  BY <1>1, Running
<1>3. TablesOK(merge.source) /\ TablesOK(merge.work) /\ merge.drive \in Drives
  BY <1>1, <1>2 DEF ImportKnows, Position
<1>4. s \in 1 .. merge.source.lastId => s \in SnapshotIds /\ s \in 0 .. MaxRows
  BY <1>3, IdsInRange, SizeAssumption DEF SnapshotIds
<1>5. QED
  BY <1>1, <1>2, <1>3, <1>4 DEF AtSnapshot, Remaining, RowsOf, NextRow

LEMMA RowPassed ==
    ASSUME MergeInv, NEW s, AtSnapshot(s), merge' \in Import,
           merge'.source = merge.source, merge'.drive = merge.drive,
           merge'.phase = merge.phase, merge'.done = s
    PROVE  Visited(merge') = Visited(merge) \cup {s} /\ s \notin Visited(merge)
<1> DEFINE m == merge
           n == merge'
<1>1. /\ m \in Import /\ TablesOK(m.source) /\ m.phase = "snapshots" /\ NextRow(m, s)
      /\ n \in Import /\ n.source = m.source /\ n.drive = m.drive
      /\ n.phase = m.phase /\ n.done = s
  BY AtSnapshotMeans
<1> HIDE DEF m, n
<1>2. Visited(n) = Visited(m) \cup {s} /\ s \notin Visited(m)
  BY <1>1, RowVisited
<1>3. QED
  BY <1>2 DEF m, n

\* Nothing is done for a row of the source but to go past it.
LEMMA SkipKnows ==
    ASSUME MergeInv, NEW s \in SnapshotIds, AtSnapshot(s),
           merge' = [merge EXCEPT !.done = s],
           IsComplete(merge.source, s) =>
               \E r \in merge.work.receipts :
                   r.digest = Digest(merge.source, s) /\ r.trusted = merge.trust
    PROVE  ImportKnows(merge', clock)
<1>1. ImportKnows(merge, clock) /\ merge \in Import /\ merge.phase = "snapshots"
      /\ TablesOK(merge.source) /\ s \in 1 .. merge.source.lastId /\ s \in 0 .. MaxRows
      /\ s \in SnapshotIds
  BY AtSnapshotMeans
<1>2. /\ merge' \in Import /\ merge'.done = s /\ merge'.phase = merge.phase
      /\ merge'.source = merge.source /\ merge'.base = merge.base
      /\ merge'.work = merge.work /\ merge'.drive = merge.drive
      /\ merge'.trust = merge.trust
  BY <1>1 DEF Import
<1>3. Visited(merge') = Visited(merge) \cup {s} /\ s \notin Visited(merge)
  BY <1>2, RowPassed
<1>4. RowsArrived(merge')
  BY <1>1, <1>2, <1>3 DEF ImportKnows, RowsArrived
<1>5. Room(merge')
  <2>1. Cardinality(Visited(merge')) = Cardinality(Visited(merge)) + 1
        /\ Cardinality(Visited(merge)) \in Nat
    BY <1>1, <1>3, VisitedFinite
  <2>2. merge.work.lastId \in Nat /\ merge.base.lastId \in Nat
    BY <1>1, IdsInRange DEF ImportKnows
  <2>3. QED
    BY <1>1, <1>2, <2>1, <2>2 DEF ImportKnows, Room, Receipted
<1>6. NamesArrived(merge') /\ Position(merge') /\ OwnKept(merge') /\ UnfinishedKept(merge')
  BY <1>1, <1>2 DEF ImportKnows, NamesArrived, Position, OwnKept, UnfinishedKept
<1>7. QED
  BY <1>1, <1>2, <1>4, <1>5, <1>6 DEF ImportKnows

\* A row that an earlier import brought is put under another policy.
LEMMA UpdateKnows ==
    ASSUME MergeInv, NEW s \in SnapshotIds, UpdateHashPolicy(s)
    PROVE  ImportKnows(merge', clock)
<1>1. AtSnapshot(s) /\ IsComplete(merge.source, s)
  BY DEF UpdateHashPolicy
<1>2. /\ ImportKnows(merge, clock) /\ merge \in Import /\ merge.phase = "snapshots"
      /\ TablesOK(merge.source) /\ TablesOK(merge.work)
      /\ s \in 1 .. merge.source.lastId /\ s \in 0 .. MaxRows
  BY <1>1, AtSnapshotMeans
<1> DEFINE t == merge.work
           row == merge.source.rows[s]
           trust == merge.trust
           claim == KeptClaim(row, trust)
           mode == KeptMode(row, trust)
<1>3. PICK r \in ReceiptsOf(s) :
          /\ r.trusted # trust
          /\ merge' = [merge EXCEPT !.done = s, !.work =
                 [t EXCEPT !.rows[r.snapshot] = [@ EXCEPT !.claim = claim, !.mode = mode],
                           !.receipts = (@ \ {r}) \cup {[r EXCEPT !.trusted = trust]}]]
  BY DEF UpdateHashPolicy
<1> DEFINE k == r.snapshot
           x == [r EXCEPT !.trusted = trust]
           new == [t.rows[k] EXCEPT !.claim = claim, !.mode = mode]
           rows == [t.rows EXCEPT ![k] = new]
           receipts == (t.receipts \ {r}) \cup {x}
           u == [t EXCEPT !.rows = rows, !.receipts = receipts]
<1>4. /\ r \in t.receipts /\ r.digest = Digest(merge.source, s) /\ r.digest.row = row
      /\ row \in CompleteRows
  BY <1>1, <1>2, <1>3, CompleteRowsHere DEF ReceiptsOf, Digest
<1>5. /\ r \in Receipts /\ k \in SnapshotIds /\ t.rows[k] = UnderPolicy(row, r.trusted)
      /\ r.trusted \in BOOLEAN /\ trust \in BOOLEAN
  BY <1>2, <1>4, ReceiptRows DEF Import
<1>6. new = UnderPolicy(row, trust) /\ new \in CompleteRows
  <2>1. new = [UnderPolicy(row, r.trusted) EXCEPT !.claim = KeptClaim(row, trust),
                                                  !.mode = KeptMode(row, trust)]
    BY <1>5
  <2>4. row \in CompleteRows /\ r.trusted \in BOOLEAN /\ trust \in BOOLEAN
    BY <1>4, <1>5
  <2> HIDE DEF new, row, trust, k, t
  <2>2. new = UnderPolicy(row, trust)
    BY <2>1, <2>4, PolicyAgain
  <2>3. QED
    BY <1>4, <1>5, <2>2, PolicyKeeps
<1>7. merge' = [merge EXCEPT !.done = s, !.work = u]
  BY <1>3
<1>8. rows \in [SnapshotIds -> Rows] /\ rows[k] = new
      /\ \A i \in SnapshotIds : i # k => rows[i] = t.rows[i]
  BY <1>2, <1>5, <1>6 DEF TablesOK, Tables, Rows
<1>9. x \in Receipts /\ x.snapshot = k /\ x.digest = r.digest /\ x.trusted = trust
  BY <1>5 DEF Receipts
<1>10. receipts \in SUBSET Receipts
  BY <1>2, <1>9 DEF TablesOK, Tables
<1> HIDE DEF rows, receipts, x, new
<1>11. /\ u \in Tables /\ u.rows = rows /\ u.receipts = receipts /\ u.name = t.name
       /\ u.lastId = t.lastId /\ u.latest = t.latest
  BY <1>2, <1>8, <1>10 DEF TablesOK, Tables
<1> HIDE DEF u
<1>12. /\ TablesOK(u) /\ DatedBefore(u, clock) /\ Forward(t, u)
       /\ \A i \in SnapshotIds : /\ IsComplete(u, i) <=> IsComplete(t, i)
                                 /\ u.rows[i].drive = t.rows[i].drive
  <2>1. u.rows = [t.rows EXCEPT ![r.snapshot] = UnderPolicy(r.digest.row, trust)]
    BY <1>4, <1>6, <1>11 DEF rows
  <2>2. u.receipts = (t.receipts \ {r}) \cup {[r EXCEPT !.trusted = trust]}
    BY <1>11 DEF receipts, x
  <2>3. TablesOK(t) /\ DatedBefore(t, clock)
    BY <1>2 DEF ImportKnows
  <2> HIDE DEF t, k, trust
  <2>4. QED
    BY <1>4, <1>5, <1>11, <2>1, <2>2, <2>3, PolicyOK
<1>13. /\ merge' \in Import /\ merge'.done = s /\ merge'.phase = merge.phase
       /\ merge'.source = merge.source /\ merge'.base = merge.base
       /\ merge'.work = u /\ merge'.drive = merge.drive
       /\ merge'.trust = merge.trust
  BY <1>2, <1>7, <1>11 DEF Import
<1>14. Visited(merge') = Visited(merge) \cup {s} /\ s \notin Visited(merge)
  BY <1>1, <1>13, RowPassed
<1>15. receipts = (t.receipts \ {r}) \cup {x}
  BY DEF receipts
<1>16. RowsArrived(merge')
  <2> SUFFICES ASSUME NEW y \in Visited(merge'), IsComplete(merge.source, y)
               PROVE  \E q \in receipts : q.digest = Digest(merge.source, y)
                                          /\ q.trusted = trust
    BY <1>11, <1>13 DEF RowsArrived
  <2>1. CASE y = s
    BY <1>4, <1>9, <1>15, <2>1
  <2>2. CASE y # s
    <3>1. y \in Visited(merge)
      BY <1>14, <2>2
    <3>2. PICK q \in t.receipts : q.digest = Digest(merge.source, y) /\ q.trusted = trust
      BY <1>2, <3>1 DEF ImportKnows, RowsArrived
    <3>3. q # r
      BY <1>3, <3>2
    <3>4. QED
      BY <1>15, <3>2, <3>3
  <2>3. QED
    BY <2>1, <2>2
<1>17. \A y : Receipted(merge, y) => Receipted(merge', y)
  <2> SUFFICES ASSUME NEW y, NEW q \in t.receipts, q.digest = Digest(merge.source, y)
               PROVE  \E p \in receipts : p.digest = Digest(merge.source, y)
    BY <1>11, <1>13 DEF Receipted
  <2>1. QED
    BY <1>9, <1>15
<1>18. Room(merge')
  <2>1. Cardinality(Visited(merge')) = Cardinality(Visited(merge)) + 1
        /\ Cardinality(Visited(merge)) \in Nat
    BY <1>2, <1>14, VisitedFinite
  <2>2. merge.work.lastId \in Nat /\ merge.base.lastId \in Nat
    BY <1>2, IdsInRange DEF ImportKnows
  <2>3. QED
    BY <1>2, <1>11, <1>13, <1>17, <2>1, <2>2 DEF ImportKnows, Room
<1>19. OwnKept(merge')
  <2>1. OwnKept(merge)
    BY <1>2 DEF ImportKnows
  <2>2. \A q \in receipts : q.snapshot <= merge.base.lastId =>
            \E p \in merge.base.receipts : p.snapshot = q.snapshot
    BY <1>4, <1>9, <1>15, <2>1 DEF OwnKept
  <2>3. ASSUME NEW i \in 1 .. merge.base.lastId, IsComplete(merge.base, i),
               \A q \in merge.base.receipts : q.snapshot # i
        PROVE  rows[i] = merge.base.rows[i]
    <3>1. i # k
      BY <1>4, <2>1, <2>3 DEF OwnKept
    <3>2. i \in SnapshotIds
      BY <1>2, IdsInRange DEF ImportKnows
    <3>3. QED
      BY <1>8, <2>1, <2>3, <3>1, <3>2 DEF OwnKept
  <2>4. QED
    BY <1>11, <1>13, <2>1, <2>2, <2>3 DEF OwnKept
<1>20. NamesArrived(merge') /\ Position(merge')
  BY <1>2, <1>11, <1>13 DEF ImportKnows, NamesArrived, Position
<1>21. UnfinishedKept(merge') /\ Forward(merge'.base, merge'.work)
  <2>1. /\ UnfinishedKept(merge) /\ Forward(merge.base, t)
        /\ TablesOK(merge.base) /\ TablesOK(t) /\ 1 .. merge.base.lastId \subseteq SnapshotIds
    BY <1>2, IdsInRange DEF ImportKnows
  <2>2. Forward(merge.base, u)
    BY <1>12, <2>1, ForwardOn
  <2>3. QED
    BY <1>12, <1>13, <2>1, <2>2 DEF UnfinishedKept
<1>22. QED
  BY <1>2, <1>12, <1>13, <1>16, <1>18, <1>19, <1>20, <1>21 DEF ImportKnows

\* There is room for the row that an import inserts.
LEMMA ImportHasRoom ==
    ASSUME MergeInv, NEW s \in SnapshotIds, ImportSnapshot(s)
    PROVE  s \notin Visited(merge) /\ merge.work.lastId < MaxRows
<1>1. AtSnapshot(s) /\ IsComplete(merge.source, s) /\ ReceiptsOf(s) = {}
  BY DEF ImportSnapshot
<1>2. /\ ImportKnows(merge, clock) /\ merge \in Import
      /\ TablesOK(merge.source) /\ TablesOK(merge.work)
      /\ s \in 1 .. merge.source.lastId
  BY <1>1, AtSnapshotMeans
<1> DEFINE t == merge.work
<1>3. s \notin Visited(merge)
  BY <1>2, AtSnapshotMeans, <1>1, RowVisited DEF Visited, NextRow, Import
<1>4. ~Receipted(merge, s)
  BY <1>1 DEF ReceiptsOf, Receipted
<1>5. merge.source.lastId + merge.base.lastId <= MaxRows
      /\ t.lastId <= merge.base.lastId + Cardinality(Visited(merge))
  BY <1>1, <1>2, <1>4 DEF ImportKnows, Room
<1>6. Cardinality(Visited(merge)) + 1 <= merge.source.lastId
      /\ Cardinality(Visited(merge)) \in Nat
  BY <1>2, <1>3, VisitedFinite
<1>7. t.lastId \in Nat /\ merge.base.lastId \in Nat /\ merge.source.lastId \in Nat
  BY <1>2, IdsInRange DEF ImportKnows
<1>8. QED
  BY <1>3, <1>5, <1>6, <1>7, SizeAssumption

\* A row is copied, with a receipt, and perhaps becomes the view.
LEMMA ImportSnapshotKnows ==
    ASSUME MergeInv, NEW s \in SnapshotIds, ImportSnapshot(s)
    PROVE  ImportKnows(merge', clock)
<1>1. AtSnapshot(s) /\ IsComplete(merge.source, s) /\ ReceiptsOf(s) = {}
  BY DEF ImportSnapshot
<1>2. /\ ImportKnows(merge, clock) /\ merge \in Import /\ merge.phase = "snapshots"
      /\ TablesOK(merge.source) /\ TablesOK(merge.work)
      /\ s \in 1 .. merge.source.lastId /\ s \in 0 .. MaxRows
      /\ merge.source.rows[s].drive = merge.drive /\ merge.drive \in Drives
  BY <1>1, AtSnapshotMeans
<1> DEFINE t == merge.work
           row == merge.source.rows[s]
           trust == merge.trust
           n == t.lastId + 1
           d == merge.drive
           copy == UnderPolicy(row, trust)
           becomes == BecomesView(t, d, row.completedAt)
           receipt == [digest |-> Digest(merge.source, s), snapshot |-> n, trusted |-> trust]
           latest == [t.latest EXCEPT ![d] = IF becomes THEN n ELSE @]
           receipts == t.receipts \cup {receipt}
           rows == [t.rows EXCEPT ![n] = copy]
           v == InsertRow(t, copy)
           u == [v EXCEPT !.receipts = @ \cup {receipt},
                          !.latest[d] = IF becomes THEN n ELSE @]
<1>3. merge' = [merge EXCEPT !.done = s, !.work = u]
  BY DEF ImportSnapshot, UnderPolicy
<1>4. row \in CompleteRows /\ trust \in BOOLEAN /\ row.completedAt <= clock
      /\ row.completedAt \in Int
  <2>1. row \in CompleteRows
    BY <1>1, <1>2, CompleteRowsHere
  <2>2. row.completedAt <= clock
    BY <1>1, <1>2 DEF ImportKnows, DatedBefore
  <2>3. QED
    BY <1>2, <2>1, <2>2 DEF Import, CompleteRows
<1>5. /\ copy \in CompleteRows /\ copy.drive = d /\ copy.status = "complete"
      /\ copy.completedAt = row.completedAt
  BY <1>2, <1>4, PolicyKeeps
<1>6. s \notin Visited(merge)
  BY ImportHasRoom
<1>7. t.lastId < MaxRows
  BY ImportHasRoom
<1>8. /\ n \in SnapshotIds /\ ~(n <= t.lastId) /\ t.lastId \in Nat /\ t.rows[n] = NoRow
      /\ \A r \in t.receipts : r.snapshot # n
  BY <1>2, <1>7, NewRow
<1>9. /\ v \in Tables /\ v.rows = rows /\ v.lastId = n
      /\ v.name = t.name /\ v.latest = t.latest /\ v.receipts = t.receipts
  <2>1. copy \in Rows
    BY <1>5 DEF Rows
  <2>2. QED
    BY <1>2, <1>7, <2>1, InsertedRow
<1>10. receipt \in Receipts /\ receipt.digest = Digest(merge.source, s)
       /\ receipt.snapshot = n /\ receipt.trusted = trust /\ receipt.digest.row = row
  BY <1>4, <1>8 DEF Receipts, Digest
<1>11. latest \in [Drives -> 0 .. MaxRows] /\ receipts \in SUBSET Receipts
       /\ becomes \in BOOLEAN
  <2>1. n \in 0 .. MaxRows
    BY <1>8 DEF SnapshotIds
  <2>2. becomes \in BOOLEAN
    BY DEF BecomesView
  <2> HIDE DEF n, becomes, receipt
  <2>3. QED
    BY <1>2, <1>10, <2>1, <2>2 DEF TablesOK, Tables
<1>12. u = [v EXCEPT !.receipts = receipts, !.latest = latest]
  BY <1>9
<1>13. rows[n] = copy /\ \A i \in SnapshotIds : i # n => rows[i] = t.rows[i]
  BY <1>2, <1>8 DEF TablesOK, Tables
<1>14. /\ latest = [t.latest EXCEPT ![d] = IF becomes THEN n ELSE @]
       /\ receipts = t.receipts \cup {receipt} /\ rows = [t.rows EXCEPT ![n] = copy]
  OBVIOUS
<1> HIDE DEF latest, receipts, rows, v, receipt, becomes, copy
<1>15. /\ u \in Tables /\ u.rows = rows /\ u.lastId = n /\ u.name = t.name
       /\ u.latest = latest /\ u.receipts = receipts
  BY <1>9, <1>11, <1>12 DEF Tables
<1> HIDE DEF u
<1>16. /\ merge' \in Import /\ merge'.done = s /\ merge'.phase = merge.phase
       /\ merge'.source = merge.source /\ merge'.base = merge.base
       /\ merge'.work = u /\ merge'.drive = merge.drive
       /\ merge'.trust = merge.trust
  BY <1>2, <1>3, <1>15 DEF Import
<1>17. Visited(merge') = Visited(merge) \cup {s}
  BY <1>1, <1>16, RowPassed
<1>18. ReceiptsTrue(u)
  <2>1. \A r \in t.receipts : r.digest # receipt.digest
    BY <1>1, <1>10 DEF ReceiptsOf
  <2>2. ASSUME NEW r \in receipts
        PROVE  /\ r.snapshot <= n /\ rows[r.snapshot] = UnderPolicy(r.digest.row, r.trusted)
               /\ \A q \in receipts :
                      q.digest = r.digest \/ q.snapshot = r.snapshot => q = r
    <3>1. CASE r = receipt
      BY <1>8, <1>10, <1>13, <1>14, <2>1, <3>1 DEF copy
    <3>2. CASE r # receipt
      <4>1. r \in t.receipts
        BY <1>14, <3>2, <2>2
      <4>2. r.snapshot \in SnapshotIds /\ t.rows[r.snapshot] = UnderPolicy(r.digest.row, r.trusted)
        BY <1>2, <4>1, ReceiptRows
      <4>3. r.snapshot <= t.lastId /\ \A q \in t.receipts :
                      q.digest = r.digest \/ q.snapshot = r.snapshot => q = r
        BY <1>2, <4>1 DEF TablesOK, ReceiptsTrue
      <4>4. r.snapshot <= n
        BY <1>8, <4>2, <4>3 DEF SnapshotIds
      <4>5. QED
        BY <1>8, <1>10, <1>13, <1>14, <2>1, <4>1, <4>2, <4>3, <4>4
    <3>3. QED
      BY <3>1, <3>2
  <2>3. QED
    BY <1>15, <2>2 DEF ReceiptsTrue
<1>19. /\ TablesOK(u) /\ DatedBefore(u, clock) /\ Forward(t, u)
       /\ \A i \in SnapshotIds : IsComplete(u, i) <=> i = n \/ IsComplete(t, i)
  <2>1. TablesOK(t) /\ DatedBefore(t, clock)
    BY <1>2 DEF ImportKnows
  <2>2. t.name[d] # NoName
    <3>1. merge.source.name[d] # NoName
      BY <1>2 DEF TablesOK, RowsNumbered
    <3>2. QED
      BY <1>2, <3>1 DEF ImportKnows, NamesArrived
  <2>3. becomes => \/ t.latest[d] = NoSnapshot
                   \/ t.rows[t.latest[d]].completedAt <= row.completedAt
    <3> SUFFICES ASSUME t.latest[d] # NoSnapshot,
                        row.completedAt >= t.rows[t.latest[d]].completedAt
                 PROVE  t.rows[t.latest[d]].completedAt <= row.completedAt
      BY DEF becomes, BecomesView
    <3>1. t.rows[t.latest[d]].completedAt \in Int
      BY <1>2, <2>1, ViewIsComplete
    <3>2. QED
      BY <1>4, <3>1
  <2>4. ~becomes => /\ t.latest[d] # NoSnapshot
                    /\ row.completedAt <= t.rows[t.latest[d]].completedAt
    <3> SUFFICES ASSUME ~becomes
                 PROVE  /\ t.latest[d] # NoSnapshot
                        /\ row.completedAt <= t.rows[t.latest[d]].completedAt
      OBVIOUS
    <3>1. t.latest[d] # NoSnapshot /\ ~(row.completedAt >= t.rows[t.latest[d]].completedAt)
      BY DEF becomes, BecomesView
    <3>2. t.rows[t.latest[d]].completedAt \in Int
      BY <1>2, <2>1, <3>1, ViewIsComplete
    <3>3. QED
      BY <1>4, <3>1, <3>2
  <2>5. /\ copy.drive = d /\ copy.completedAt = row.completedAt
        /\ u.latest = [t.latest EXCEPT ![copy.drive] = IF becomes THEN n ELSE @]
        /\ u.rows = [t.rows EXCEPT ![n] = copy] /\ u.name = t.name
        /\ ~IsComplete(t, n)
    BY <1>5, <1>8, <1>14, <1>15 DEF IsComplete, NoRow
  <2>6. copy.completedAt <= clock /\ t.name[copy.drive] # NoName
    BY <1>4, <2>2, <2>5
  <2>7. /\ becomes => \/ t.latest[copy.drive] = NoSnapshot
                      \/ t.rows[t.latest[copy.drive]].completedAt <= copy.completedAt
        /\ ~becomes => /\ t.latest[copy.drive] # NoSnapshot
                       /\ copy.completedAt <= t.rows[t.latest[copy.drive]].completedAt
    BY <2>3, <2>4, <2>5
  <2>8. \A i \in SnapshotIds : i <= u.lastId <=> i = n \/ i <= t.lastId
    BY <1>2, <1>7, <1>15, NewRow
  <2> HIDE DEF t, d, n, row, trust
  <2>9. /\ TablesOK(u) /\ DatedBefore(u, clock) /\ CompleteKept(t, u)
        /\ u.latest[copy.drive] = (IF becomes THEN n ELSE t.latest[copy.drive])
        /\ u.rows[n] = copy
        /\ \A i \in SnapshotIds : IsComplete(u, i) <=> i = n \/ IsComplete(t, i)
        /\ \A e \in Drives : e # copy.drive => u.latest[e] = t.latest[e]
    <3>1. /\ copy \in CompleteRows /\ n \in SnapshotIds /\ becomes \in BOOLEAN
          /\ u \in Tables /\ ReceiptsTrue(u)
      BY <1>5, <1>8, <1>11, <1>15, <1>18
    <3>2. Completed(t, u, n, copy, becomes)
      BY <2>5, <2>6, <2>8 DEF Completed
    <3>3. QED
      BY <2>1, <2>6, <3>1, <3>2, CompleteOK
  <2>10. Forward(t, u)
    BY <1>5, <1>8, <1>11, <2>1, <2>7, <2>9, CompleteForward
  <2>11. QED
    BY <2>9, <2>10
<1>20. \A y : Receipted(merge, y) => Receipted(merge', y)
  BY <1>14, <1>15, <1>16 DEF Receipted
<1>21. RowsArrived(merge')
  BY <1>2, <1>10, <1>14, <1>15, <1>16, <1>17 DEF ImportKnows, RowsArrived
<1>22. Room(merge')
  <2>1. Cardinality(Visited(merge')) = Cardinality(Visited(merge)) + 1
        /\ Cardinality(Visited(merge)) \in Nat
    BY <1>2, <1>6, <1>17, VisitedFinite
  <2>2. t.lastId \in Nat /\ merge.base.lastId \in Nat
    BY <1>2, IdsInRange DEF ImportKnows
  <2>3. QED
    BY <1>2, <1>15, <1>16, <1>20, <2>1, <2>2 DEF ImportKnows, Room
<1>23. OwnKept(merge')
  <2>1. OwnKept(merge) /\ merge.base.lastId \in Nat /\ 1 .. merge.base.lastId \subseteq SnapshotIds
    BY <1>2, IdsInRange DEF ImportKnows
  <2>2. merge.base.lastId <= n /\ ~(n <= merge.base.lastId)
    BY <1>8, <2>1 DEF OwnKept
  <2>3. \A r \in receipts : r.snapshot <= merge.base.lastId =>
            \E q \in merge.base.receipts : q.snapshot = r.snapshot
    BY <1>10, <1>14, <2>1, <2>2 DEF OwnKept
  <2>4. \A i \in 1 .. merge.base.lastId : rows[i] = t.rows[i]
    BY <1>13, <2>1, <2>2
  <2>5. QED
    BY <1>15, <1>16, <2>1, <2>2, <2>3, <2>4 DEF OwnKept
<1>24. NamesArrived(merge') /\ Position(merge')
  BY <1>2, <1>15, <1>16 DEF ImportKnows, NamesArrived, Position
<1>25. UnfinishedKept(merge') /\ Forward(merge'.base, merge'.work)
  <2>1. /\ UnfinishedKept(merge) /\ Forward(merge.base, t) /\ OwnKept(merge)
        /\ TablesOK(merge.base) /\ TablesOK(t)
        /\ 1 .. merge.base.lastId \subseteq SnapshotIds /\ merge.base.lastId \in Nat
    BY <1>2, IdsInRange DEF ImportKnows
  <2>2. Forward(merge.base, u)
    BY <1>19, <2>1, ForwardOn
  <2>3. \A i \in 1 .. merge.base.lastId : i # n /\ u.rows[i] = t.rows[i]
    BY <1>8, <1>13, <1>15, <2>1 DEF OwnKept
  <2>4. QED
    BY <1>16, <1>19, <2>1, <2>2, <2>3 DEF UnfinishedKept
<1>26. QED
  BY <1>2, <1>16, <1>19, <1>21, <1>22, <1>23, <1>24, <1>25 DEF ImportKnows

\* The loop over the drives comes to a drive, and leaves it.
LEMMA NextDriveKnows ==
    ASSUME MergeInv, NextDrive
    PROVE  ImportKnows(merge', clock)
<1>1. merge.phase = "snapshots" /\ merge.phase # "idle" /\ Remaining = {}
  BY DEF NextDrive
<1>2. /\ ImportKnows(merge, clock) /\ merge \in Import /\ TablesOK(merge.source)
      /\ merge.drive \in Drives
  BY <1>1, Running DEF ImportKnows, Position
<1>3. merge.drive \in Nat /\ merge.drive + 1 \in 1 .. NumDrives + 1 /\ NumDrives \in Nat
      /\ (merge.drive # NumDrives => merge.drive + 1 \in Drives)
  BY <1>2, SizeAssumption DEF Drives
<1>4. /\ merge' \in Import /\ merge'.drive = merge.drive + 1
      /\ merge'.phase = (IF merge.drive = NumDrives THEN "ready" ELSE "drives")
      /\ merge'.source = merge.source /\ merge'.base = merge.base
      /\ merge'.work = merge.work /\ merge'.trust = merge.trust
  BY <1>2, <1>3 DEF NextDrive, Import
<1>5. Visited(merge') = Visited(merge)
  <2>1. ASSUME NEW x \in 1 .. merge.source.lastId
        PROVE  x \in Visited(merge') <=> x \in Visited(merge)
    <3>1. merge.source.rows[x].drive \in Drives /\ merge.source.rows[x].drive \in Nat
      BY <1>2, CompleteRowsHere, IdsInRange DEF Drives
    <3>2. merge.source.rows[x].drive = merge.drive => ~(x > merge.done)
      BY <1>1 DEF Remaining, RowsOf
    <3>3. x \in Nat /\ merge.done \in Nat
      BY <1>2, SizeAssumption DEF Import
    <3>4. QED
      BY <1>1, <1>3, <1>4, <3>1, <3>2, <3>3 DEF Visited
  <2>2. QED
    BY <1>4, <2>1 DEF Visited
<1>6. RowsArrived(merge') /\ Room(merge')
  BY <1>2, <1>4, <1>5 DEF ImportKnows, RowsArrived, Room, Receipted
<1>7. NamesArrived(merge')
  BY <1>1, <1>2, <1>3, <1>4 DEF ImportKnows, NamesArrived, Drives
<1>8. Position(merge') /\ OwnKept(merge') /\ UnfinishedKept(merge')
  BY <1>2, <1>3, <1>4 DEF ImportKnows, Position, OwnKept, UnfinishedKept
<1>9. QED
  BY <1>2, <1>4, <1>6, <1>7, <1>8 DEF ImportKnows

LEMMA ImportedNameOK ==
    ASSUME NEW name \in Names, name # NoName, NEW d \in Drives
    PROVE  ImportedName(d, name) \in Names /\ ImportedName(d, name) # NoName
<1>1. PICK e \in Drives, x \in 0 .. NumDrives : name = <<OwnName[e], x>>
  BY DEF Names
<1>2. ImportedName(d, name) = <<OwnName[e], d>> /\ d \in 0 .. NumDrives
  BY <1>1, SizeAssumption DEF ImportedName, Drives
<1>3. QED
  BY <1>2, NameAssumption DEF Names

LEMMA EnsureDriveKnows ==
    ASSUME MergeInv, EnsureDrive
    PROVE  ImportKnows(merge', clock)
<1>1. merge.phase = "drives" /\ merge.phase # "idle" /\ merge.drive \in Drives
  BY DEF EnsureDrive, AtDrive
<1>2. /\ ImportKnows(merge, clock) /\ merge \in Import
      /\ TablesOK(merge.source) /\ TablesOK(merge.work) /\ DatedBefore(merge.work, clock)
  BY <1>1, Running DEF ImportKnows
<1> DEFINE t == merge.work
           d == merge.drive
           name == merge.source.name[d]
           given == IF name \notin Taken(t) THEN name ELSE ImportedName(d, name)
           u == IF t.name[d] # NoName \/ name = NoName THEN t
                ELSE [t EXCEPT !.name[d] = given]
<1>3. merge' = [merge EXCEPT !.phase = "snapshots", !.work = u, !.done = 0]
  BY DEF EnsureDrive
<1>4. name \in Names
  BY <1>1, <1>2 DEF TablesOK, Tables
<1>5. name # NoName => given \in Names /\ given # NoName
  BY <1>1, <1>4, ImportedNameOK
<1> HIDE DEF given
<1>6. /\ TablesOK(u) /\ DatedBefore(u, clock) /\ u \in Tables
      /\ u.lastId = t.lastId /\ u.rows = t.rows /\ u.receipts = t.receipts
      /\ u.latest = t.latest
      /\ \A e \in Drives : t.name[e] # NoName => u.name[e] = t.name[e]
      /\ name # NoName => u.name[d] # NoName
  <2>1. CASE t.name[d] # NoName \/ name = NoName
    BY <1>2, <2>1 DEF TablesOK
  <2>2. CASE t.name[d] = NoName /\ name # NoName
    <3>1. u = [t EXCEPT !.name[d] = given]
      BY <2>2
    <3>2. /\ u.lastId = t.lastId /\ u.rows = t.rows /\ u.receipts = t.receipts
          /\ u.latest = t.latest /\ u.name = [t.name EXCEPT ![d] = given]
      BY <1>2, <3>1 DEF TablesOK, Tables
    <3>3. TablesOK(u) /\ DatedBefore(u, clock)
      <4>1. given \in Names /\ given # NoName /\ TablesOK(t) /\ DatedBefore(t, clock)
            /\ d \in Drives
        BY <1>1, <1>2, <1>5, <2>2
      <4> HIDE DEF t, d
      <4>2. TablesOK([t EXCEPT !.name[d] = given])
            /\ DatedBefore([t EXCEPT !.name[d] = given], clock)
        BY <4>1, NamedOK
      <4>3. QED
        BY <3>1, <4>2
    <3>4. /\ \A e \in Drives : t.name[e] # NoName => u.name[e] = t.name[e]
          /\ u.name[d] = given
      BY <1>1, <1>2, <2>2, <3>2 DEF TablesOK, Tables
    <3>5. QED
      BY <1>5, <2>2, <3>2, <3>3, <3>4 DEF TablesOK
  <2>3. QED
    BY <2>1, <2>2
<1> HIDE DEF u
<1>7. /\ merge' \in Import /\ merge'.drive = d /\ merge'.phase = "snapshots"
      /\ merge'.done = 0 /\ merge'.work = u
      /\ merge'.source = merge.source /\ merge'.base = merge.base
      /\ merge'.trust = merge.trust
  <2>1. 0 \in 0 .. MaxRows /\ u \in Tables
    BY <1>6, SizeAssumption
  <2>2. merge' \in Import
    BY <1>2, <1>3, <2>1 DEF Import
  <2>3. QED
    BY <1>2, <1>3, <2>2 DEF Import
<1>8. Visited(merge') = Visited(merge)
  BY <1>1, <1>7 DEF Visited
<1>9. RowsArrived(merge') /\ Room(merge')
  BY <1>2, <1>6, <1>7, <1>8 DEF ImportKnows, RowsArrived, Room, Receipted
<1>10. NamesArrived(merge')
  BY <1>1, <1>2, <1>6, <1>7 DEF ImportKnows, NamesArrived, Drives
<1>11. /\ Position(merge') /\ OwnKept(merge') /\ UnfinishedKept(merge')
       /\ Forward(merge'.base, merge'.work)
  BY <1>1, <1>2, <1>6, <1>7
     DEF ImportKnows, Position, OwnKept, UnfinishedKept, Forward, CompleteKept,
         ViewReaches, IsComplete
<1>12. QED
  BY <1>2, <1>6, <1>7, <1>9, <1>10, <1>11 DEF ImportKnows

-----------------------------------------------------------------------------
(* The steps of scans.                                                     *)

\* What no step but an import undoes: u has all that t has.
Stays(t, u) ==
    /\ TablesOK(u) /\ DatedBefore(u, clock) /\ u.receipts = t.receipts
    /\ t.lastId <= u.lastId
    /\ \A d \in Drives : t.name[d] # NoName => u.name[d] = t.name[d]
    /\ \A s \in SnapshotIds : /\ IsComplete(t, s) => u.rows[s] = t.rows[s]
                              /\ s <= t.lastId => u.rows[s].drive = t.rows[s].drive

NothingCompleted(t, u) ==
    /\ u.latest = t.latest
    /\ \A s \in SnapshotIds : IsComplete(u, s) => IsComplete(t, s)

\* Only the tables of c change, to what they were and perhaps a name, a row
\* of a scan that has begun, or the status of one that has failed.
LEMMA CreateDriveDoes ==
    ASSUME MergeInv, NEW c \in Catalogs, NEW d \in Drives, CreateDrive(c, d)
    PROVE  \E u : /\ tables' = [tables EXCEPT ![c] = u]
                  /\ Stays(tables[c], u) /\ NothingCompleted(tables[c], u)
<1> DEFINE t == tables[c]
           name == <<OwnName[d], 0>>
           u == [t EXCEPT !.name[d] = name]
<1>1. name \in Names /\ name # NoName
  BY SizeAssumption, NameAssumption DEF Names
<1>2. TablesOK(t) /\ DatedBefore(t, clock) /\ t \in Tables /\ t.lastId \in Nat
  BY IdsInRange DEF MergeInv, TablesOK
<1>3. tables' = [tables EXCEPT ![c] = u] /\ t.name[d] = NoName
  BY DEF CreateDrive
<1> HIDE DEF t, name
<1>4. TablesOK(u) /\ DatedBefore(u, clock)
  BY <1>1, <1>2, NamedOK
<1>5. /\ u.rows = t.rows /\ u.latest = t.latest /\ u.receipts = t.receipts
      /\ u.lastId = t.lastId /\ u.name = [t.name EXCEPT ![d] = name]
      /\ t.name \in [Drives -> Names]
  BY <1>2 DEF Tables
<1> HIDE DEF u
<1>6. Stays(t, u) /\ NothingCompleted(t, u)
  BY <1>2, <1>3, <1>4, <1>5 DEF Stays, NothingCompleted, IsComplete
<1>7. QED
  BY <1>3, <1>6 DEF t

LEMMA StartDoes ==
    ASSUME MergeInv, NEW c \in Catalogs, NEW d \in Drives, StartSnapshot(c, d)
    PROVE  LET n == tables[c].lastId + 1 IN
           /\ scans' = scans + 1 /\ scans' \in 0 .. MaxScans /\ scans' \in 1 .. MaxScans
           /\ Writer(c, d, n, scans') \in Writers /\ ~(n <= tables[c].lastId)
           /\ \E u : /\ tables' = [tables EXCEPT ![c] = u]
                     /\ Stays(tables[c], u) /\ NothingCompleted(tables[c], u)
                     /\ n <= u.lastId /\ ~IsComplete(u, n) /\ u.rows[n].drive = d
<1> DEFINE t == tables[c]
           n == t.lastId + 1
           row == UnfinishedRow(d, "scanning")
           u == InsertRow(t, row)
<1>1. TablesOK(t) /\ DatedBefore(t, clock)
  BY DEF MergeInv
<1>2. /\ tables' = [tables EXCEPT ![c] = u] /\ t.name[d] # NoName /\ t.lastId < MaxRows
      /\ scans' = scans + 1 /\ scans < MaxScans
  BY DEF StartSnapshot
<1>3. scans' \in 0 .. MaxScans /\ scans' \in 1 .. MaxScans
  BY <1>2, SizeAssumption DEF MergeInv
<1>4. /\ row \in UnfinishedRows /\ row.drive = d /\ t.name[row.drive] # NoName
      /\ row \in Rows
  BY <1>2 DEF UnfinishedRow, UnfinishedRows, Rows
<1>5. Writer(c, d, n, scans') \in Writers /\ n \in SnapshotIds /\ ~(n <= t.lastId)
      /\ t.lastId \in Nat /\ t.rows[n] = NoRow
  <2>1. n \in SnapshotIds /\ ~(n <= t.lastId) /\ t.lastId \in Nat /\ t.rows[n] = NoRow
    BY <1>1, <1>2, NewRow
  <2>2. 0 \in 0 .. MaxTime
    BY SizeAssumption
  <2> HIDE DEF n
  <2>3. QED
    BY <1>3, <2>1, <2>2 DEF Writer, Writers
<1> HIDE DEF t, row
<1>6. /\ TablesOK(u) /\ DatedBefore(u, clock)
      /\ \A s \in SnapshotIds : /\ IsComplete(u, s) <=> IsComplete(t, s)
                                /\ s <= t.lastId => u.rows[s] = t.rows[s]
  BY <1>1, <1>2, <1>4, UnfinishedOK
<1>7. /\ u.rows = [t.rows EXCEPT ![n] = row] /\ u.lastId = n
      /\ u.name = t.name /\ u.latest = t.latest /\ u.receipts = t.receipts
  BY <1>1, <1>2, <1>4, InsertedRow
<1> HIDE DEF u
<1>8. u.rows[n] = row /\ ~IsComplete(t, n)
  BY <1>1, <1>5, <1>7 DEF TablesOK, Tables, IsComplete, NoRow
<1>9. \A s \in SnapshotIds : IsComplete(t, s) => s <= t.lastId
  BY <1>1, CompleteRowsHere
<1>10. n <= u.lastId /\ t.lastId <= u.lastId /\ ~IsComplete(u, n) /\ u.rows[n].drive = d
  BY <1>4, <1>5, <1>6, <1>7, <1>8
<1>11. Stays(t, u) /\ NothingCompleted(t, u)
  BY <1>6, <1>7, <1>9, <1>10 DEF Stays, NothingCompleted
<1>12. QED
  BY <1>2, <1>3, <1>5, <1>10, <1>11 DEF t

\* What a running scan is.
LEMMA WriterHere ==
    ASSUME MergeInv, WritersInv, NEW w \in writers
    PROVE  /\ w \in Writers /\ w.into \in Catalogs /\ w.drive \in Drives
           /\ w.row \in SnapshotIds /\ w.scan \in 1 .. MaxScans /\ w.stored \in BOOLEAN
           /\ w.at \in 0 .. MaxTime /\ w.at \in Int /\ w.scan \in Int
           /\ WriterOK(w, tables[w.into], clock, scans)
           /\ TablesOK(tables[w.into]) /\ DatedBefore(tables[w.into], clock)
           /\ MayWrite(w) => NoImportInto(w.into)
<1>1. w \in Writers /\ WriterOK(w, tables[w.into], clock, scans)
      /\ (w.stored => NoImportInto(w.into))
  BY DEF WritersInv
<1>2. /\ w.into \in Catalogs /\ w.drive \in Drives
      /\ w.row \in SnapshotIds /\ w.scan \in 1 .. MaxScans /\ w.stored \in BOOLEAN
      /\ w.at \in 0 .. MaxTime
  BY <1>1 DEF Writers
<1>3. w.at \in Int /\ w.scan \in Int
  BY <1>2
<1>4. QED
  BY <1>1, <1>2, <1>3 DEF MergeInv, MayWrite, Unlocked, NoImportInto

\* A scan is committed: its row is complete, and the view.
LEMMA CommitDoes ==
    ASSUME MergeInv, WritersInv, NEW w \in writers, NEW mode \in {"none", "full"},
           CommitScan(w, mode)
    PROVE  LET t == tables[w.into] IN
           \E u : /\ tables' = [tables EXCEPT ![w.into] = u] /\ Stays(t, u)
                  /\ CompleteKept(t, u)
                  /\ u.latest[w.drive] = w.row
                  /\ u.rows[w.row] \in CompleteRows /\ u.rows[w.row].scan = w.scan
                  /\ u.rows[w.row].drive = w.drive /\ u.rows[w.row].completedAt = w.at
                  /\ \A s \in SnapshotIds : IsComplete(u, s) <=> s = w.row \/ IsComplete(t, s)
                  /\ \A d \in Drives : d # w.drive => u.latest[d] = t.latest[d]
<1> DEFINE c == w.into
           k == w.row
           d == w.drive
           t == tables[c]
           claim == mode = "full" /\ w.stored
           row == CompleteRow(d, w.scan, mode, claim, w.at)
           rows == [t.rows EXCEPT ![k] = row]
           latest == [t.latest EXCEPT ![d] = k]
           u == [t EXCEPT !.rows = rows, !.latest = latest]
<1>1. /\ c \in Catalogs /\ d \in Drives /\ k \in SnapshotIds /\ w.scan \in 1 .. MaxScans
      /\ w.stored \in BOOLEAN /\ w.at \in 0 .. MaxTime /\ w.at <= clock
      /\ TablesOK(t) /\ DatedBefore(t, clock) /\ t \in Tables
      /\ k <= t.lastId /\ ~IsComplete(t, k) /\ t.rows[k].drive = d
  BY WriterHere DEF WriterOK, TablesOK
<1>2. w.at # 0 /\ tables' = [tables EXCEPT ![c] =
          [t EXCEPT !.rows[k] = row, !.latest[d] = k]]
  BY DEF CommitScan
<1>3. claim \in BOOLEAN /\ w.at \in 1 .. MaxTime
  BY <1>1, <1>2, SizeAssumption
<1>4. /\ row \in CompleteRows /\ row.drive = d /\ row.scan = w.scan
      /\ row.completedAt = w.at
  BY <1>1, <1>3 DEF CompleteRow, CompleteRows, Modes
<1>5. row \in Rows /\ t.name[row.drive] # NoName /\ t.lastId \in Nat
  BY <1>1, <1>4, IdsInRange DEF Rows, TablesOK, RowsNumbered
<1> HIDE DEF row, t, c, d, k
<1>6. rows \in [SnapshotIds -> Rows] /\ latest \in [Drives -> 0 .. MaxRows]
  BY <1>1, <1>5 DEF Tables, SnapshotIds
<1>7. tables' = [tables EXCEPT ![c] = u]
  BY <1>1, <1>2 DEF Tables
<1>8. /\ u \in Tables /\ u.rows = rows /\ u.latest = latest /\ u.lastId = t.lastId
      /\ u.name = t.name /\ u.receipts = t.receipts
  BY <1>1, <1>6 DEF Tables
<1>9. rows = [t.rows EXCEPT ![k] = row] /\ latest = [t.latest EXCEPT ![d] = k]
  OBVIOUS
<1> HIDE DEF u, rows, latest
<1>10. ReceiptsTrue(u)
  <2>1. ASSUME NEW r \in t.receipts PROVE u.rows[r.snapshot] = t.rows[r.snapshot]
    BY <1>1, <1>8, <1>9, ReceiptRows DEF Tables
  <2>2. QED
    BY <1>1, <1>8, <2>1 DEF TablesOK, ReceiptsTrue
<1> DEFINE becomes == k = k
<1>11. Completed(t, u, k, row, becomes) /\ becomes \in BOOLEAN /\ becomes
  BY <1>1, <1>4, <1>5, <1>8, <1>9 DEF Completed
<1> HIDE DEF becomes
<1>12. /\ TablesOK(t) /\ DatedBefore(t, clock) /\ k \in SnapshotIds
       /\ row \in CompleteRows /\ row.completedAt <= clock /\ row.drive = d
       /\ u \in Tables /\ ReceiptsTrue(u)
       /\ Completed(t, u, k, row, becomes) /\ becomes \in BOOLEAN
  BY <1>1, <1>4, <1>8, <1>10, <1>11
<1>13. /\ TablesOK(u) /\ DatedBefore(u, clock) /\ CompleteKept(t, u)
       /\ u.latest[d] = k /\ u.rows[k] = row
       /\ \A s \in SnapshotIds : /\ s # k => u.rows[s] = t.rows[s]
                                 /\ IsComplete(u, s) <=> s = k \/ IsComplete(t, s)
       /\ \A e \in Drives : e # d => u.latest[e] = t.latest[e]
  <2>1. /\ TablesOK(u) /\ DatedBefore(u, clock) /\ CompleteKept(t, u)
        /\ u.latest[row.drive] = (IF becomes THEN k ELSE t.latest[row.drive])
        /\ u.rows[k] = row
        /\ \A s \in SnapshotIds : /\ s # k => u.rows[s] = t.rows[s]
                                  /\ IsComplete(u, s) <=> s = k \/ IsComplete(t, s)
        /\ \A e \in Drives : e # row.drive => u.latest[e] = t.latest[e]
    BY <1>12, CompleteOK
  <2>2. QED
    BY <1>11, <1>12, <2>1
<1>14. Stays(t, u)
  <2>1. \A s \in SnapshotIds : /\ IsComplete(t, s) => u.rows[s] = t.rows[s]
                               /\ u.rows[s].drive = t.rows[s].drive
    BY <1>1, <1>4, <1>13
  <2>2. QED
    BY <1>5, <1>8, <1>13, <2>1 DEF Stays
<1>15. QED
  BY <1>4, <1>7, <1>13, <1>14 DEF c, d, k, t

\* A scan ends without a snapshot.
LEMMA EndDoes ==
    ASSUME MergeInv, WritersInv, NEW w \in writers, EndScan(w)
    PROVE  \/ tables' = tables
           \/ /\ MayWrite(w)
              /\ \E u : /\ tables' = [tables EXCEPT ![w.into] = u]
                        /\ Stays(tables[w.into], u) /\ NothingCompleted(tables[w.into], u)
<1> SUFFICES ASSUME tables' # tables
             PROVE  /\ MayWrite(w)
                    /\ \E u : /\ tables' = [tables EXCEPT ![w.into] = u]
                              /\ Stays(tables[w.into], u)
                              /\ NothingCompleted(tables[w.into], u)
  OBVIOUS
<1> DEFINE c == w.into
           k == w.row
           t == tables[c]
           row == UnfinishedRow(w.drive, "failed")
           rows == [t.rows EXCEPT ![k] = row]
           u == [t EXCEPT !.rows = rows]
<1>1. /\ c \in Catalogs /\ k \in SnapshotIds /\ w.drive \in Drives
      /\ TablesOK(t) /\ DatedBefore(t, clock) /\ t \in Tables
      /\ k <= t.lastId /\ ~IsComplete(t, k) /\ t.rows[k].drive = w.drive
  BY WriterHere DEF WriterOK, TablesOK
<1>2. MayWrite(w) /\ tables' = [tables EXCEPT ![c] = [t EXCEPT !.rows[k] = row]]
  BY DEF EndScan
<1>3. /\ row \in UnfinishedRows /\ row \in Rows /\ row.drive = t.rows[k].drive
      /\ t.lastId \in Nat
  BY <1>1, IdsInRange DEF UnfinishedRow, UnfinishedRows, Rows
<1> HIDE DEF row, t, c, k
<1>4. rows \in [SnapshotIds -> Rows] /\ rows = [t.rows EXCEPT ![k] = row]
  BY <1>1, <1>3 DEF Tables
<1>5. tables' = [tables EXCEPT ![c] = u]
  BY <1>1, <1>2 DEF Tables
<1> HIDE DEF rows
<1>6. /\ u \in Tables /\ u.rows = rows /\ u.latest = t.latest /\ u.lastId = t.lastId
      /\ u.name = t.name /\ u.receipts = t.receipts
  BY <1>1, <1>4 DEF Tables
<1> HIDE DEF u
<1>7. /\ TablesOK(u) /\ DatedBefore(u, clock)
      /\ \A s \in SnapshotIds : /\ IsComplete(u, s) <=> IsComplete(t, s)
                                /\ IsComplete(t, s) => u.rows[s] = t.rows[s]
                                /\ u.rows[s].drive = t.rows[s].drive
  BY <1>1, <1>3, <1>4, <1>6, FailedOK
<1>8. Stays(t, u) /\ NothingCompleted(t, u)
  BY <1>3, <1>6, <1>7 DEF Stays, NothingCompleted
<1>9. QED
  BY <1>2, <1>5, <1>8 DEF c, t

-----------------------------------------------------------------------------
(* The invariant.                                                          *)

LEMMA InitMergeInv == ASSUME Init PROVE MergeInv
<1>1. \A c \in Catalogs : TablesOK(tables[c]) /\ DatedBefore(tables[c], clock)
  BY EmptyOK DEF Init
<1>2. tables \in [Catalogs -> Tables]
  BY EmptyOK DEF Init, TablesOK
<1>3. QED
  BY <1>1, <1>2, SizeAssumption DEF Init, MergeInv

\* A step of one catalog, to which no import writes.
LEMMA OneCatalog ==
    ASSUME MergeInv, NEW c \in Catalogs, NoImportInto(c),
           NEW u, TablesOK(u), DatedBefore(u, clock),
           tables' = [tables EXCEPT ![c] = u],
           merge' = merge, clock' = clock, scans' \in 0 .. MaxScans
    PROVE  MergeInv'
<1>1. u \in Tables
  BY DEF TablesOK
<1>2. tables' \in [Catalogs -> Tables]
      /\ \A x \in Catalogs : tables'[x] = IF x = c THEN u ELSE tables[x]
  BY <1>1 DEF MergeInv
<1>3. \A x \in Catalogs : TablesOK(tables'[x]) /\ DatedBefore(tables'[x], clock')
  BY <1>2 DEF MergeInv
<1>4. \/ merge' = NoMerge
      \/ /\ ImportKnows(merge', clock')
         /\ ~merge'.dry => tables'[merge'.into] = merge'.base
  <2>1. CASE merge = NoMerge
    BY <2>1
  <2>2. CASE merge # NoMerge
    <3>1. /\ ImportKnows(merge, clock) /\ merge \in Import
          /\ ~merge.dry => tables[merge.into] = merge.base
      BY <2>2 DEF MergeInv, ImportKnows
    <3>2. merge.phase # "idle" /\ merge.into \in Catalogs
      BY <3>1 DEF Import
    <3>3. ~merge.dry => merge.into # c
      BY <3>2 DEF NoImportInto
    <3>4. QED
      BY <1>2, <3>1, <3>2, <3>3
  <2>3. QED
    BY <2>1, <2>2
<1>5. clock' \in 1 .. MaxTime
  BY DEF MergeInv
<1>6. QED
  BY <1>2, <1>3, <1>4, <1>5 DEF MergeInv

\* A step of the import: only its own transaction changes.
LEMMA OwnTransaction ==
    ASSUME MergeInv, merge.phase # "idle", ImportKnows(merge', clock),
           merge'.base = merge.base, merge'.into = merge.into, merge'.dry = merge.dry,
           UNCHANGED <<tables, scans, clock>>
    PROVE  MergeInv'
<1>1. ~merge'.dry => tables'[merge'.into] = merge'.base
  BY Running
<1>2. QED
  BY <1>1 DEF MergeInv

LEMMA ScanInv ==
    ASSUME MergeInv, WritersInv,
           \/ \E c \in Catalogs, d \in Drives : CreateDrive(c, d) \/ StartSnapshot(c, d)
           \/ \E w \in writers : \/ Add(w) \/ Complete(w) \/ EndScan(w)
                                 \/ \E mode \in {"none", "full"} : CommitScan(w, mode)
    PROVE  MergeInv'
<1>1. \A c \in Catalogs : Unlocked(c) => NoImportInto(c)
  BY DEF Unlocked, NoImportInto
<1>2. \A t, u : Stays(t, u) => TablesOK(u) /\ DatedBefore(u, clock)
  BY DEF Stays
<1>3. scans \in 0 .. MaxScans
  BY DEF MergeInv
<1>4. ASSUME NEW c \in Catalogs, NEW d \in Drives, CreateDrive(c, d) PROVE MergeInv'
  <2>1. UNCHANGED <<merge, scans, clock>> /\ NoImportInto(c)
    BY <1>1, <1>4 DEF CreateDrive
  <2>2. QED
    BY <1>2, <1>3, <1>4, <2>1, CreateDriveDoes, OneCatalog
<1>5. ASSUME NEW c \in Catalogs, NEW d \in Drives, StartSnapshot(c, d) PROVE MergeInv'
  <2>1. UNCHANGED <<merge, clock>> /\ NoImportInto(c)
    BY <1>1, <1>5 DEF StartSnapshot
  <2>2. scans' \in 0 .. MaxScans /\ \E u : Stays(tables[c], u)
                                       /\ tables' = [tables EXCEPT ![c] = u]
    BY <1>5, StartDoes
  <2>3. QED
    BY <1>2, <2>1, <2>2, OneCatalog
<1>6. ASSUME NEW w \in writers, Add(w) \/ Complete(w) PROVE MergeInv'
  BY <1>6 DEF Add, Complete, MergeInv
<1>7. ASSUME NEW w \in writers, EndScan(w) PROVE MergeInv'
  <2>1. UNCHANGED <<merge, scans, clock>>
    BY <1>7 DEF EndScan
  <2>2. CASE tables' = tables
    BY <2>1, <2>2 DEF MergeInv
  <2>3. CASE tables' # tables
    <3>1. w.into \in Catalogs /\ NoImportInto(w.into)
      BY <1>7, <2>3, EndDoes, WriterHere
    <3>2. QED
      BY <1>2, <1>3, <1>7, <2>1, <2>3, <3>1, EndDoes, OneCatalog
  <2>4. QED
    BY <2>2, <2>3
<1>8. ASSUME NEW w \in writers, NEW mode \in {"none", "full"}, CommitScan(w, mode)
      PROVE  MergeInv'
  <2>1. UNCHANGED <<merge, scans, clock>> /\ w.into \in Catalogs /\ NoImportInto(w.into)
    BY <1>8, WriterHere DEF CommitScan
  <2>2. \E u : tables' = [tables EXCEPT ![w.into] = u] /\ Stays(tables[w.into], u)
    BY <1>8, CommitDoes
  <2>3. QED
    BY <1>2, <1>3, <2>1, <2>2, OneCatalog
<1>9. QED
  BY <1>4, <1>5, <1>6, <1>7, <1>8

\* The clock ticks: what was dated before now still is.
LEMMA TickInv ==
    ASSUME MergeInv, Tick PROVE MergeInv'
<1>1. clock' \in 1 .. MaxTime /\ clock <= clock' /\ clock \in Int /\ clock' \in Int
  BY SizeAssumption DEF Tick, MergeInv
<1>2. ASSUME NEW t, TablesOK(t), DatedBefore(t, clock) PROVE DatedBefore(t, clock')
  <2>1. ASSUME NEW s \in SnapshotIds, IsComplete(t, s)
        PROVE  t.rows[s].completedAt <= clock'
    <3>1. t.rows[s].completedAt \in Int
      BY <1>2, <2>1, CompleteRowsHere DEF CompleteRows
    <3>2. t.rows[s].completedAt <= clock
      BY <1>2, <2>1 DEF DatedBefore
    <3>3. QED
      BY <1>1, <3>1, <3>2
  <2>2. QED
    BY <2>1 DEF DatedBefore
<1>3. ImportKnows(merge, clock) => ImportKnows(merge, clock')
  BY <1>2 DEF ImportKnows
<1>4. \A c \in Catalogs : TablesOK(tables[c]) /\ DatedBefore(tables[c], clock')
  BY <1>2 DEF MergeInv
<1>5. UNCHANGED <<tables, merge, scans>>
  BY DEF Tick
<1>6. QED
  BY <1>1, <1>3, <1>4, <1>5 DEF MergeInv

LEMMA CommitInv ==
    ASSUME MergeInv, Commit PROVE MergeInv'
<1>1. merge.phase # "idle" /\ merge' = NoMerge /\ UNCHANGED <<scans, clock>>
      /\ tables' = [tables EXCEPT ![merge.into] = merge.work]
  BY DEF Commit
<1>2. TablesOK(merge.work) /\ DatedBefore(merge.work, clock) /\ merge.work \in Tables
  BY <1>1, Running DEF ImportKnows, TablesOK
<1>3. QED
  BY <1>1, <1>2 DEF MergeInv

\* Every step keeps what an import has promised its target and its caller.
LEMMA NextMergeInv ==
    ASSUME MergeInv, WritersInv, [Next]_vars PROVE MergeInv'
<1>1. ASSUME \/ \E c \in Catalogs, d \in Drives : CreateDrive(c, d) \/ StartSnapshot(c, d)
             \/ \E w \in writers : \/ Add(w) \/ Complete(w) \/ EndScan(w)
                                   \/ \E mode \in {"none", "full"} : CommitScan(w, mode)
      PROVE  MergeInv'
  BY <1>1, ScanInv
<1>2. ASSUME NEW s \in Catalogs, NEW c \in Catalogs,
             NEW trust \in BOOLEAN, NEW rename \in BOOLEAN, NEW dry \in BOOLEAN,
             BeginImport(s, c, trust, rename, dry)
      PROVE  MergeInv'
  <2>1. ImportKnows(merge', clock) /\ merge'.base = tables[merge'.into]
    BY <1>2, BeginKnows
  <2>2. UNCHANGED <<tables, scans, clock>>
    BY <1>2 DEF BeginImport
  <2>3. QED
    BY <2>1, <2>2 DEF MergeInv
<1>3. CASE EnsureDrive
  <2>1. /\ merge.phase # "idle" /\ UNCHANGED <<tables, scans, clock>>
        /\ \E u : merge' = [merge EXCEPT !.phase = "snapshots", !.work = u, !.done = 0]
    BY <1>3 DEF EnsureDrive, AtDrive
  <2>2. merge \in Import
    BY <2>1, Running
  <2>3. merge'.base = merge.base /\ merge'.into = merge.into /\ merge'.dry = merge.dry
    BY <2>1, <2>2 DEF Import
  <2>4. QED
    BY <1>3, <2>1, <2>3, EnsureDriveKnows, OwnTransaction
<1>4. CASE NextDrive
  <2>1. /\ merge.phase # "idle" /\ UNCHANGED <<tables, scans, clock>>
        /\ \E x, p : merge' = [merge EXCEPT !.drive = x, !.phase = p]
    BY <1>4 DEF NextDrive
  <2>2. merge \in Import
    BY <2>1, Running
  <2>3. merge'.base = merge.base /\ merge'.into = merge.into /\ merge'.dry = merge.dry
    BY <2>1, <2>2 DEF Import
  <2>4. QED
    BY <1>4, <2>1, <2>3, NextDriveKnows, OwnTransaction
<1>5. ASSUME NEW s \in SnapshotIds, SkipIncomplete(s) \/ SkipImported(s) PROVE MergeInv'
  <2>1. /\ merge.phase # "idle" /\ UNCHANGED <<tables, scans, clock>>
        /\ merge' = [merge EXCEPT !.done = s]
    BY <1>5 DEF SkipIncomplete, SkipImported, AtSnapshot
  <2>2. merge \in Import
    BY <2>1, Running
  <2>3. merge'.base = merge.base /\ merge'.into = merge.into /\ merge'.dry = merge.dry
    BY <2>1, <2>2 DEF Import
  <2>4. /\ AtSnapshot(s)
        /\ IsComplete(merge.source, s) =>
               \E r \in merge.work.receipts :
                   r.digest = Digest(merge.source, s) /\ r.trusted = merge.trust
    BY <1>5 DEF SkipIncomplete, SkipImported, ReceiptsOf
  <2>5. ImportKnows(merge', clock)
    BY <2>1, <2>4, SkipKnows
  <2>6. QED
    BY <2>1, <2>3, <2>5, OwnTransaction
<1>6. ASSUME NEW s \in SnapshotIds, UpdateHashPolicy(s) \/ ImportSnapshot(s) PROVE MergeInv'
  <2>1. /\ merge.phase # "idle" /\ UNCHANGED <<tables, scans, clock>>
        /\ \E u : merge' = [merge EXCEPT !.done = s, !.work = u]
    BY <1>6 DEF UpdateHashPolicy, ImportSnapshot, AtSnapshot
  <2>2. merge \in Import
    BY <2>1, Running
  <2>3. merge'.base = merge.base /\ merge'.into = merge.into /\ merge'.dry = merge.dry
    BY <2>1, <2>2 DEF Import
  <2>4. QED
    BY <1>6, <2>1, <2>3, UpdateKnows, ImportSnapshotKnows, OwnTransaction
<1>7. CASE Commit
  BY <1>7, CommitInv
<1>8. CASE Rollback
  BY <1>8 DEF Rollback, MergeInv
<1>9. CASE Tick
  BY <1>9, TickInv
<1>10. CASE UNCHANGED vars
  BY <1>10 DEF MergeInv, vars
<1>11. QED
  BY <1>1, <1>2, <1>3, <1>4, <1>5, <1>6, <1>7, <1>8, <1>9, <1>10
     DEF Next, ImportStep

-----------------------------------------------------------------------------
(* The running scans.                                                      *)

\* The step of an import that is not its commit.
LEMMA ImportGoesOn ==
    ASSUME MergeInv,
           \/ EnsureDrive \/ NextDrive
           \/ \E s \in SnapshotIds : \/ SkipIncomplete(s) \/ SkipImported(s)
                                     \/ UpdateHashPolicy(s) \/ ImportSnapshot(s)
    PROVE  /\ UNCHANGED <<tables, writers, scans, clock>> /\ merge.phase # "idle"
           /\ merge'.into = merge.into /\ merge'.dry = merge.dry
<1>1. /\ UNCHANGED <<tables, writers, scans, clock>> /\ merge.phase # "idle"
      /\ \/ \E u : merge' = [merge EXCEPT !.phase = "snapshots", !.work = u, !.done = 0]
         \/ \E x, y : merge' = [merge EXCEPT !.drive = x, !.phase = y]
         \/ \E x : merge' = [merge EXCEPT !.done = x]
         \/ \E x, u : merge' = [merge EXCEPT !.done = x, !.work = u]
  BY DEF EnsureDrive, AtDrive, NextDrive, SkipIncomplete, SkipImported,
         UpdateHashPolicy, ImportSnapshot, AtSnapshot
<1>2. merge \in Import
  BY <1>1, Running
<1>3. QED
  BY <1>1, <1>2 DEF Import

\* A running scan keeps its row while others work on its catalog, and while it
\* has the lock nothing there becomes complete.
LEMMA WriterStays ==
    ASSUME MergeInv, WritersInv, NEW x \in writers,
           NEW u, Stays(tables[x.into], u),
           \/ NothingCompleted(tables[x.into], u)
           \/ ~x.stored /\ ~IsComplete(u, x.row),
           NEW now \in Int, clock <= now, NEW begun \in Int, scans <= begun
    PROVE  WriterOK(x, u, now, begun)
<1> DEFINE t == tables[x.into]
<1>1. /\ WriterOK(x, t, clock, scans) /\ TablesOK(t) /\ x.row \in SnapshotIds
      /\ x.at \in Int /\ x.scan \in Int
  BY WriterHere
<1>2. TablesOK(u) /\ t.lastId \in Int /\ u.lastId \in Int /\ x.row \in Int
      /\ clock \in Int /\ scans \in Int
  BY <1>1, IdsInRange DEF Stays, SnapshotIds, MergeInv
<1> HIDE DEF t
<1>3. x.row <= u.lastId /\ u.rows[x.row].drive = x.drive
  BY <1>1, <1>2 DEF WriterOK, Stays, t
<1>4. x.at <= now /\ x.scan <= begun
  BY <1>1, <1>2 DEF WriterOK
<1>5. ~IsComplete(u, x.row)
  BY <1>1 DEF WriterOK, NothingCompleted, t
<1>6. ASSUME x.stored, x.at # 0 PROVE DatedBefore(u, x.at)
  BY <1>1, <1>6 DEF WriterOK, NothingCompleted, DatedBefore, Stays, t
<1>7. QED
  BY <1>3, <1>4, <1>5, <1>6 DEF WriterOK

LEMMA TablesStay ==
    ASSUME MergeInv, NEW c \in Catalogs
    PROVE  Stays(tables[c], tables[c]) /\ NothingCompleted(tables[c], tables[c])
<1>1. TablesOK(tables[c]) /\ DatedBefore(tables[c], clock) /\ tables[c].lastId \in Int
  BY IdsInRange DEF MergeInv
<1>2. QED
  BY <1>1 DEF Stays, NothingCompleted

\* What WritersInv asks of one scan after a step that works on catalog c.
LEMMA OthersStay ==
    ASSUME MergeInv, WritersInv, NEW c \in Catalogs, NEW u, Stays(tables[c], u),
           tables' = [tables EXCEPT ![c] = u], UNCHANGED <<merge, clock>>,
           scans' \in Int, scans <= scans', NEW x \in writers,
           x.into = c => \/ NothingCompleted(tables[c], u)
                         \/ ~x.stored /\ ~IsComplete(u, x.row)
    PROVE  /\ x \in Writers /\ WriterOK(x, tables'[x.into], clock', scans')
           /\ x.stored => NoImportInto(x.into)'
<1>1. x \in Writers /\ x.into \in Catalogs /\ (x.stored => NoImportInto(x.into))
  BY WriterHere DEF MayWrite, WritersInv
<1>2. tables'[x.into] = IF x.into = c THEN u ELSE tables[x.into]
  BY <1>1 DEF MergeInv
<1>3. clock \in Int /\ clock <= clock
  BY DEF MergeInv
<1>4. WriterOK(x, tables'[x.into], clock, scans')
  <2>1. CASE x.into = c
    BY <1>2, <1>3, <2>1, WriterStays
  <2>2. CASE x.into # c
    BY <1>1, <1>2, <1>3, <2>2, WriterStays, TablesStay
  <2>3. QED
    BY <2>1, <2>2
<1>5. QED
  BY <1>1, <1>4 DEF NoImportInto

\* The same after a step that leaves the tables alone.
LEMMA AllStay ==
    ASSUME MergeInv, WritersInv, UNCHANGED <<tables, scans>>, clock' \in Int, clock <= clock',
           NEW x \in writers, x.stored => NoImportInto(x.into)'
    PROVE  /\ x \in Writers /\ WriterOK(x, tables'[x.into], clock', scans')
           /\ x.stored => NoImportInto(x.into)'
<1>1. x \in Writers /\ x.into \in Catalogs
  BY WriterHere
<1>2. scans \in Int /\ scans <= scans
  BY DEF MergeInv
<1>3. WriterOK(x, tables[x.into], clock', scans)
  BY <1>1, <1>2, TablesStay, WriterStays
<1>4. QED
  BY <1>1, <1>3

\* Two scans of one catalog have different rows, and one of them the lock.
LEMMA WritersDiffer ==
    ASSUME WritersInv, NEW w \in writers, NEW x \in writers, w # x
    PROVE  /\ w.scan # x.scan
           /\ w.into = x.into => w.row # x.row /\ ~(w.stored /\ x.stored)
           /\ w.into = x.into /\ MayWrite(w) => ~x.stored
BY DEF WritersInv, MayWrite, Unlocked

LEMMA CreateDriveWriters ==
    ASSUME MergeInv, WritersInv, NEW c \in Catalogs, NEW d \in Drives, CreateDrive(c, d)
    PROVE  WritersInv'
<1>1. UNCHANGED <<writers, merge, scans, clock>> /\ scans \in Int /\ scans <= scans
  BY DEF CreateDrive, MergeInv
<1>2. PICK u : /\ tables' = [tables EXCEPT ![c] = u]
               /\ Stays(tables[c], u) /\ NothingCompleted(tables[c], u)
  BY CreateDriveDoes
<1>3. \A x \in writers : /\ x \in Writers /\ WriterOK(x, tables'[x.into], clock', scans')
                         /\ x.stored => NoImportInto(x.into)'
  BY <1>1, <1>2, OthersStay
<1>4. QED
  BY <1>1, <1>3, WritersDiffer DEF WritersInv

LEMMA StartWriters ==
    ASSUME MergeInv, WritersInv, NEW c \in Catalogs, NEW d \in Drives, StartSnapshot(c, d)
    PROVE  WritersInv'
<1> DEFINE n == tables[c].lastId + 1
           v == Writer(c, d, n, scans')
<1>1. /\ UNCHANGED <<merge, clock>> /\ writers' = writers \cup {v}
      /\ scans' = scans + 1 /\ scans \in Int /\ scans' \in Int /\ scans <= scans'
      /\ v \in Writers /\ ~(n <= tables[c].lastId) /\ clock \in 1 .. MaxTime
  <2>1. UNCHANGED <<merge, clock>> /\ writers' = writers \cup {v}
    BY DEF StartSnapshot
  <2>2. scans' = scans + 1 /\ v \in Writers /\ ~(n <= tables[c].lastId)
    BY StartDoes
  <2>3. scans \in Int /\ clock \in 1 .. MaxTime
    BY DEF MergeInv
  <2> HIDE DEF v, n
  <2>4. QED
    BY <2>1, <2>2, <2>3
<1>2. PICK u : /\ tables' = [tables EXCEPT ![c] = u]
               /\ Stays(tables[c], u) /\ NothingCompleted(tables[c], u)
               /\ n <= u.lastId /\ ~IsComplete(u, n) /\ u.rows[n].drive = d
  BY StartDoes
<1>3. \A x \in writers : /\ x \in Writers /\ WriterOK(x, tables'[x.into], clock', scans')
                         /\ x.stored => NoImportInto(x.into)'
  BY <1>1, <1>2, OthersStay
<1> HIDE DEF n
<1>4. /\ v.into = c /\ v.drive = d /\ v.row = n /\ v.scan = scans'
      /\ v.stored = FALSE /\ v.at = 0
  BY DEF Writer
<1>5. tables'[c] = u
  BY <1>2 DEF MergeInv
<1> HIDE DEF v
<1>6. WriterOK(v, tables'[v.into], clock', scans') /\ ~v.stored
  BY <1>1, <1>2, <1>4, <1>5 DEF WriterOK
<1>7. \A x \in writers : x.scan # v.scan /\ (x.into = v.into => x.row # v.row)
  <2>1. ASSUME NEW x \in writers PROVE x.scan # v.scan
    BY <1>1, <1>4, WriterHere DEF WriterOK
  <2>2. ASSUME NEW x \in writers, x.into = v.into PROVE x.row # v.row
    BY <1>1, <1>4, <2>2, WriterHere DEF WriterOK
  <2>3. QED
    BY <2>1, <2>2
<1>8. \A x \in writers' : /\ x \in Writers /\ WriterOK(x, tables'[x.into], clock', scans')
                          /\ x.stored => NoImportInto(x.into)'
  BY <1>1, <1>3, <1>6
<1>9. \A w, x \in writers' : w # x =>
          /\ w.scan # x.scan
          /\ w.into = x.into => w.row # x.row /\ ~(w.stored /\ x.stored)
  BY <1>1, <1>6, <1>7, WritersDiffer
<1>10. QED
  BY <1>8, <1>9 DEF WritersInv

\* Add and Complete: w becomes v, and keeps its row.
LEMMA WriterMoves ==
    ASSUME MergeInv, WritersInv, UNCHANGED <<tables, merge, scans, clock>>,
           NEW w \in writers, NEW v \in Writers, writers' = (writers \ {w}) \cup {v},
           v.into = w.into, v.row = w.row, v.scan = w.scan,
           v.stored => MayWrite(w),
           WriterOK(v, tables[w.into], clock, scans)
    PROVE  WritersInv'
<1>1. \A x \in writers : /\ x \in Writers /\ WriterOK(x, tables'[x.into], clock', scans')
                         /\ x.stored => NoImportInto(x.into)'
  BY DEF WritersInv, NoImportInto
<1>2. v.stored => NoImportInto(v.into)'
  BY WriterHere DEF NoImportInto
<1>3. \A x \in writers' : /\ x \in Writers /\ WriterOK(x, tables'[x.into], clock', scans')
                          /\ x.stored => NoImportInto(x.into)'
  BY <1>1, <1>2
<1>4. \A x \in writers \ {w} :
          /\ v.scan # x.scan
          /\ v.into = x.into => v.row # x.row /\ ~(v.stored /\ x.stored)
  BY WritersDiffer
<1>5. \A y, x \in writers' : y # x =>
          /\ y.scan # x.scan
          /\ y.into = x.into => y.row # x.row /\ ~(y.stored /\ x.stored)
  BY <1>4, WritersDiffer
<1>6. QED
  BY <1>3, <1>5 DEF WritersInv

LEMMA AddWriters ==
    ASSUME MergeInv, WritersInv, NEW w \in writers, Add(w)
    PROVE  WritersInv'
<1> DEFINE v == [w EXCEPT !.stored = TRUE]
<1>1. /\ w.at = 0 /\ MayWrite(w) /\ writers' = (writers \ {w}) \cup {v}
      /\ UNCHANGED <<tables, merge, scans, clock>>
  BY DEF Add, MayWrite
<1>2. w \in Writers /\ WriterOK(w, tables[w.into], clock, scans)
  BY WriterHere
<1>3. /\ v \in Writers /\ v.into = w.into /\ v.row = w.row /\ v.scan = w.scan
      /\ v.drive = w.drive /\ v.at = w.at
  BY <1>2 DEF Writers
<1> HIDE DEF v
<1>4. WriterOK(v, tables[w.into], clock, scans)
  BY <1>1, <1>2, <1>3 DEF WriterOK
<1>5. QED
  BY <1>1, <1>3, <1>4, WriterMoves

LEMMA CompleteWriters ==
    ASSUME MergeInv, WritersInv, NEW w \in writers, Complete(w)
    PROVE  WritersInv'
<1> DEFINE v == [w EXCEPT !.at = clock]
<1>1. /\ writers' = (writers \ {w}) \cup {v} /\ UNCHANGED <<tables, merge, scans, clock>>
      /\ clock \in 0 .. MaxTime /\ clock \in Int
  BY DEF Complete, MergeInv
<1>2. /\ w \in Writers /\ WriterOK(w, tables[w.into], clock, scans)
      /\ DatedBefore(tables[w.into], clock)
  BY WriterHere
<1>3. /\ v \in Writers /\ v.into = w.into /\ v.row = w.row /\ v.scan = w.scan
      /\ v.drive = w.drive /\ v.at = clock /\ v.stored = w.stored
  BY <1>1, <1>2 DEF Writers
<1> HIDE DEF v
<1>4. WriterOK(v, tables[w.into], clock, scans)
  BY <1>1, <1>2, <1>3 DEF WriterOK
<1>5. QED
  BY <1>1, <1>3, <1>4, WriterMoves DEF MayWrite

\* A scan is over: the others have rows of their own, and none of them the lock
\* of the catalog that was written to.
LEMMA CommitWriters ==
    ASSUME MergeInv, WritersInv, NEW w \in writers, NEW mode \in {"none", "full"},
           CommitScan(w, mode)
    PROVE  WritersInv'
<1>1. /\ UNCHANGED <<merge, scans, clock>> /\ writers' = writers \ {w} /\ MayWrite(w)
      /\ scans \in Int /\ scans <= scans
  BY DEF CommitScan, MergeInv
<1>2. w.into \in Catalogs
  BY WriterHere
<1> DEFINE t == tables[w.into]
<1>3. PICK u : /\ tables' = [tables EXCEPT ![w.into] = u] /\ Stays(t, u)
               /\ CompleteKept(t, u)
               /\ u.latest[w.drive] = w.row
               /\ u.rows[w.row] \in CompleteRows /\ u.rows[w.row].scan = w.scan
               /\ u.rows[w.row].drive = w.drive /\ u.rows[w.row].completedAt = w.at
               /\ \A s \in SnapshotIds : IsComplete(u, s) <=> s = w.row \/ IsComplete(t, s)
               /\ \A d \in Drives : d # w.drive => u.latest[d] = t.latest[d]
  BY CommitDoes
<1>4. ASSUME NEW x \in writers', x.into = w.into
      PROVE  ~x.stored /\ ~IsComplete(u, x.row)
  <2>1. x \in writers /\ x.row \in SnapshotIds /\ ~IsComplete(tables[w.into], x.row)
    BY <1>1, <1>4, WriterHere DEF WriterOK
  <2>2. ~x.stored /\ x.row # w.row
    BY <1>1, <1>4, <2>1, WritersDiffer
  <2>3. QED
    BY <1>3, <2>1, <2>2
<1>5. \A x \in writers' : /\ x \in Writers /\ WriterOK(x, tables'[x.into], clock', scans')
                          /\ x.stored => NoImportInto(x.into)'
  BY <1>1, <1>2, <1>3, <1>4, OthersStay
<1>6. QED
  BY <1>1, <1>5, WritersDiffer DEF WritersInv

LEMMA EndWriters ==
    ASSUME MergeInv, WritersInv, NEW w \in writers, EndScan(w)
    PROVE  WritersInv'
<1>1. /\ UNCHANGED <<merge, scans, clock>> /\ writers' = writers \ {w}
      /\ scans \in Int /\ scans <= scans /\ clock \in Int /\ clock <= clock
  BY DEF EndScan, MergeInv
<1>2. w.into \in Catalogs
  BY WriterHere
<1>3. \A x \in writers' : /\ x \in Writers /\ WriterOK(x, tables'[x.into], clock', scans')
                          /\ x.stored => NoImportInto(x.into)'
  <2>1. CASE tables' = tables
    BY <1>1, <2>1 DEF WritersInv, NoImportInto
  <2>2. CASE tables' # tables
    <3>1. PICK u : /\ tables' = [tables EXCEPT ![w.into] = u]
                   /\ Stays(tables[w.into], u) /\ NothingCompleted(tables[w.into], u)
      BY <2>2, EndDoes
    <3>2. QED
      BY <1>1, <1>2, <3>1, OthersStay
  <2>3. QED
    BY <2>1, <2>2
<1>4. QED
  BY <1>1, <1>3, WritersDiffer DEF WritersInv

\* No scan has the lock of a catalog that an import is committed to; those that
\* have only their rows keep them.
LEMMA CommitImportWriters ==
    ASSUME MergeInv, WritersInv, Commit
    PROVE  WritersInv'
<1>1. /\ merge.phase # "idle" /\ ~merge.dry /\ merge'.phase = "idle"
      /\ tables' = [tables EXCEPT ![merge.into] = merge.work]
      /\ UNCHANGED <<writers, scans, clock>>
  BY DEF Commit, NoMerge
<1>2. ImportKnows(merge, clock) /\ tables[merge.into] = merge.base
  BY <1>1, Running
<1>3. ASSUME NEW x \in writers
      PROVE  WriterOK(x, tables'[x.into], clock, scans)
  <2>1. /\ WriterOK(x, tables[x.into], clock, scans) /\ x.into \in Catalogs
        /\ x.row \in SnapshotIds
    BY WriterHere
  <2>2. CASE x.into # merge.into
    BY <1>1, <2>1, <2>2 DEF MergeInv
  <2>3. CASE x.into = merge.into
    <3>1. ~x.stored
      BY <1>1, <2>3 DEF WritersInv, NoImportInto
    <3>2. tables'[x.into] = merge.work /\ tables[x.into] = merge.base
      BY <1>1, <1>2, <2>1, <2>3 DEF MergeInv
    <3>3. /\ merge.base.lastId \in Nat /\ merge.work.lastId \in Nat /\ x.row \in Int
          /\ merge.base.lastId <= merge.work.lastId
      BY <1>2, <2>1, IdsInRange DEF ImportKnows, OwnKept, SnapshotIds
    <3>4. /\ x.row <= merge.base.lastId /\ ~IsComplete(merge.base, x.row)
          /\ merge.base.rows[x.row].drive = x.drive
      BY <2>1, <3>2 DEF WriterOK
    <3>5. x.row \in 1 .. merge.base.lastId /\ x.row <= merge.work.lastId
      BY <2>1, <3>3, <3>4 DEF SnapshotIds
    <3>6. ~IsComplete(merge.work, x.row) /\ merge.work.rows[x.row].drive = x.drive
      BY <1>2, <3>4, <3>5 DEF ImportKnows, UnfinishedKept
    <3>7. QED
      BY <2>1, <3>1, <3>2, <3>5, <3>6 DEF WriterOK
  <2>4. QED
    BY <2>2, <2>3
<1>4. \A c : NoImportInto(c)'
  BY <1>1 DEF NoImportInto
<1>5. QED
  BY <1>1, <1>3, <1>4 DEF WritersInv

LEMMA NextWritersInv ==
    ASSUME MergeInv, WritersInv, [Next]_vars PROVE WritersInv'
<1>1. clock \in Int /\ clock <= clock
  BY DEF MergeInv
<1>2. ASSUME UNCHANGED <<tables, writers, scans>>, clock' \in Int, clock <= clock',
             \A x \in writers : x.stored => NoImportInto(x.into)'
      PROVE  WritersInv'
  <2>1. \A x \in writers : /\ x \in Writers /\ WriterOK(x, tables'[x.into], clock', scans')
                           /\ x.stored => NoImportInto(x.into)'
    BY <1>2, AllStay
  <2>2. QED
    BY <1>2, <2>1, WritersDiffer DEF WritersInv
<1>3. ASSUME NEW s \in Catalogs, NEW c \in Catalogs,
             NEW trust \in BOOLEAN, NEW rename \in BOOLEAN, NEW dry \in BOOLEAN,
             BeginImport(s, c, trust, rename, dry)
      PROVE  WritersInv'
  <2>1. /\ UNCHANGED <<tables, writers, scans, clock>> /\ merge'.into = c
        /\ merge'.dry = dry /\ (dry \/ Unlocked(c))
    BY <1>3 DEF BeginImport
  <2>2. \A x \in writers : x.stored => NoImportInto(x.into)'
    BY <2>1 DEF NoImportInto, Unlocked
  <2>3. QED
    BY <1>1, <1>2, <2>1, <2>2
<1>4. CASE \/ EnsureDrive \/ NextDrive
           \/ \E s \in SnapshotIds : \/ SkipIncomplete(s) \/ SkipImported(s)
                                     \/ UpdateHashPolicy(s) \/ ImportSnapshot(s)
  <2>1. /\ UNCHANGED <<tables, writers, scans, clock>> /\ merge.phase # "idle"
        /\ merge'.into = merge.into /\ merge'.dry = merge.dry
    BY <1>4, ImportGoesOn
  <2>2. \A x \in writers : x.stored => NoImportInto(x.into)'
    BY <2>1 DEF NoImportInto, WritersInv
  <2>3. QED
    BY <1>1, <1>2, <2>1, <2>2
<1>5. CASE Rollback \/ UNCHANGED vars
  <2>1. UNCHANGED <<tables, writers, scans, clock>>
        /\ (merge' = merge \/ merge'.phase = "idle")
    BY <1>5 DEF Rollback, vars, NoMerge
  <2>2. \A x \in writers : x.stored => NoImportInto(x.into)'
    BY <2>1 DEF NoImportInto, WritersInv
  <2>3. QED
    BY <1>1, <1>2, <2>1, <2>2
<1>6. CASE Tick
  <2>1. UNCHANGED <<tables, writers, merge, scans>> /\ clock' \in Int /\ clock <= clock'
    BY <1>1, <1>6 DEF Tick
  <2>2. \A x \in writers : x.stored => NoImportInto(x.into)'
    BY <2>1 DEF NoImportInto, WritersInv
  <2>3. QED
    BY <1>2, <2>1, <2>2
<1>7. QED
  BY <1>3, <1>4, <1>5, <1>6, CreateDriveWriters, StartWriters, AddWriters,
     CompleteWriters, CommitWriters, EndWriters, CommitImportWriters
  DEF Next, ImportStep

\* What a step does to the tables.
LEMMA StepDoes ==
    ASSUME MergeInv, WritersInv, [Next]_vars
    PROVE  \/ tables' = tables
           \/ Commit
           \/ \E w \in writers, mode \in {"none", "full"} : CommitScan(w, mode)
           \/ \E c \in Catalogs : \E u :
                  /\ tables' = [tables EXCEPT ![c] = u]
                  /\ Stays(tables[c], u) /\ NothingCompleted(tables[c], u)
<1>1. ASSUME NEW c \in Catalogs, NEW d \in Drives, CreateDrive(c, d)
      PROVE  \E u : /\ tables' = [tables EXCEPT ![c] = u]
                    /\ Stays(tables[c], u) /\ NothingCompleted(tables[c], u)
  BY <1>1, CreateDriveDoes
<1>2. ASSUME NEW c \in Catalogs, NEW d \in Drives, StartSnapshot(c, d)
      PROVE  \E u : /\ tables' = [tables EXCEPT ![c] = u]
                    /\ Stays(tables[c], u) /\ NothingCompleted(tables[c], u)
  BY <1>2, StartDoes
<1>3. ASSUME NEW w \in writers, EndScan(w), tables' # tables
      PROVE  /\ w.into \in Catalogs
             /\ \E u : /\ tables' = [tables EXCEPT ![w.into] = u]
                       /\ Stays(tables[w.into], u)
                       /\ NothingCompleted(tables[w.into], u)
  BY <1>3, EndDoes, WriterHere
<1>4. QED
  BY <1>1, <1>2, <1>3
     DEF Next, Add, Complete, ImportStep, BeginImport, EnsureDrive, NextDrive,
         SkipIncomplete, SkipImported, UpdateHashPolicy, ImportSnapshot, Rollback,
         Tick, vars

-----------------------------------------------------------------------------
(* The theorems.                                                           *)

\* In every state of any number of catalogs, drives, scans and imports the
\* tables and a running import (ImportCatalog) are as MergeInv says, and the
\* running scans (SnapshotWriter) as WritersInv says.
THEOREM Invariance == Spec => [](MergeInv /\ WritersInv)
<1>1. Init => MergeInv /\ WritersInv
  BY InitMergeInv DEF Init, WritersInv
<1>2. MergeInv /\ WritersInv /\ [Next]_vars => MergeInv' /\ WritersInv'
  BY NextMergeInv, NextWritersInv
<1>3. QED
  BY <1>1, <1>2, PTL DEF Spec

LEMMA TablesShaped == ASSUME NEW t, TablesOK(t) PROVE IsTables(t)
<1>1. t \in Tables
  BY DEF TablesOK
<1>2. t.lastId \in 0 .. MaxRows
  BY <1>1 DEF Tables
<1>3. t.latest \in [Drives -> 0 .. t.lastId]
  <2>1. ASSUME NEW d \in Drives PROVE t.latest[d] \in 0 .. t.lastId
    <3>1. t.latest[d] \in 0 .. MaxRows
      BY <1>1 DEF Tables
    <3>2. t.latest[d] # NoSnapshot => t.latest[d] <= t.lastId
      BY DEF TablesOK, ViewOf
    <3>3. QED
      BY <1>2, <3>1, <3>2, SizeAssumption DEF NoSnapshot
  <2>2. QED
    BY <1>1, <2>1 DEF Tables
<1>4. QED
  BY <1>1, <1>2, <1>3 DEF IsTables, Tables

\* The tables, the running scans, and the position of a running import in its
\* two loops, always have the shape that the schema, the code of SnapshotWriter
\* and that of ImportCatalog give them.
THEOREM TypeCorrect == Spec => []TypeOK
<1>1. ASSUME MergeInv, WritersInv PROVE TypeOK
  <2>1. \A c \in Catalogs : IsTables(tables[c])
    BY <1>1, TablesShaped DEF MergeInv
  <2>2. ASSUME merge.phase # "idle"
        PROVE  /\ IsTables(merge.source) /\ IsTables(merge.base)
               /\ IsTables(merge.work)
               /\ merge.phase \in {"drives", "snapshots"} => merge.drive \in Drives
               /\ merge.phase = "ready" => merge.drive = NumDrives + 1
    <3>1. ImportKnows(merge, clock)
      BY <1>1, <2>2, Running
    <3>2. QED
      BY <3>1, TablesShaped DEF ImportKnows, Position
  <2>3. QED
    BY <1>1, <2>1, <2>2 DEF TypeOK, MergeInv, WritersInv
<1>2. QED
  BY <1>1, Invariance, PTL

\* However often catalogs are imported and under whatever hash policies, a
\* receipt is the key of one snapshot and says what its row was made of.
THEOREM ReceiptsAreTrue == Spec => []ReceiptsTellTheTruth
<1>1. ASSUME MergeInv PROVE ReceiptsTellTheTruth
  BY <1>1 DEF MergeInv, TablesOK, ReceiptsTrue, ReceiptsTellTheTruth, UnderPolicy
<1>2. QED
  BY <1>1, Invariance, PTL

\* An import that is about to commit has brought every complete snapshot of
\* its source, under the policy that was asked for, and its drive
\* (the two loops of ImportCatalog).
THEOREM ImportIsWhole == Spec => []EveryCompleteArrives
<1>1. ASSUME MergeInv PROVE EveryCompleteArrives
  <2>1. ASSUME merge.phase = "ready",
               NEW s \in 1 .. merge.source.lastId, IsComplete(merge.source, s)
        PROVE  /\ merge.work.name[merge.source.rows[s].drive] # NoName
               /\ \E r \in merge.work.receipts :
                      r.digest = Digest(merge.source, s) /\ r.trusted = merge.trust
    <3>1. ImportKnows(merge, clock)
      BY <1>1, <2>1, Running
    <3>2. TablesOK(merge.source) /\ merge.drive = NumDrives + 1
      BY <2>1, <3>1 DEF ImportKnows, Position
    <3>3. s \in SnapshotIds /\ s <= merge.source.lastId
      BY <3>2, IdsInRange
    <3>4. /\ merge.source.rows[s].drive \in Drives
          /\ merge.source.name[merge.source.rows[s].drive] # NoName
      BY <3>2, <3>3, CompleteRowsHere DEF TablesOK, RowsNumbered
    <3>5. merge.source.rows[s].drive < merge.drive
      BY <3>2, <3>4, SizeAssumption DEF Drives
    <3>6. s \in Visited(merge)
      BY <3>5 DEF Visited
    <3>7. QED
      BY <2>1, <3>1, <3>4, <3>5, <3>6 DEF ImportKnows, NamesArrived, RowsArrived
  <2>2. QED
    BY <2>1 DEF EveryCompleteArrives
<1>2. QED
  BY <1>1, Invariance, PTL

\* Only a commit changes receipts.
LEMMA ReceiptsStay ==
    ASSUME MergeInv, WritersInv, [Next]_vars, NEW c \in Catalogs,
           ~(Commit /\ merge.into = c)
    PROVE  tables'[c].receipts = tables[c].receipts
<1>1. tables \in [Catalogs -> Tables]
  BY DEF MergeInv
<1>2. ASSUME NEW x, NEW u, tables' = [tables EXCEPT ![x] = u],
             x = c => u.receipts = tables[c].receipts
      PROVE  tables'[c].receipts = tables[c].receipts
  BY <1>1, <1>2
<1>3. CASE Commit
  BY <1>2, <1>3 DEF Commit
<1>4. ASSUME NEW w \in writers, NEW mode \in {"none", "full"}, CommitScan(w, mode)
      PROVE  tables'[c].receipts = tables[c].receipts
  <2>1. \E u : tables' = [tables EXCEPT ![w.into] = u] /\ Stays(tables[w.into], u)
    BY <1>4, CommitDoes
  <2>2. QED
    BY <1>2, <2>1 DEF Stays
<1>5. ASSUME NEW x \in Catalogs, NEW u, tables' = [tables EXCEPT ![x] = u],
             Stays(tables[x], u)
      PROVE  tables'[c].receipts = tables[c].receipts
  BY <1>2, <1>5 DEF Stays
<1>6. QED
  BY <1>3, <1>4, <1>5, StepDoes

\* An import is one step for everybody else, and what it was decided on is
\* what it replaces: no scan committed meanwhile is lost.
THEOREM ImportIsAtomic == Spec => MergeIsAtomic
<1>1. ASSUME MergeInv, WritersInv, [Next]_vars
      PROVE  \A c \in Catalogs : tables'[c].receipts # tables[c].receipts =>
                 /\ merge.phase = "ready" /\ merge.into = c /\ ~merge.dry
                 /\ tables[c] = merge.base
  <2>1. ASSUME NEW c \in Catalogs, tables'[c].receipts # tables[c].receipts
        PROVE  /\ merge.phase = "ready" /\ merge.into = c /\ ~merge.dry
               /\ tables[c] = merge.base
    <3>1. Commit /\ merge.into = c
      BY <1>1, <2>1, ReceiptsStay
    <3>2. merge.phase = "ready" /\ ~merge.dry
      BY <3>1 DEF Commit
    <3>3. QED
      BY <1>1, <3>1, <3>2, Running
  <2>2. QED
    BY <2>1
<1>2. ASSUME MergeInv, WritersInv, [Next]_vars
      PROVE  [\A c \in Catalogs : tables'[c].receipts # tables[c].receipts =>
                 /\ merge.phase = "ready" /\ merge.into = c /\ ~merge.dry
                 /\ tables[c] = merge.base]_vars
  BY <1>1, <1>2
<1>3. QED
  BY <1>2, Invariance, PTL DEF Spec, MergeIsAtomic

\* What OwnRowsStay asks of one catalog.
OwnStay(t, u) ==
    /\ \A d \in Drives : t.name[d] # NoName => u.name[d] = t.name[d]
    /\ \A s \in 1 .. t.lastId :
           /\ IsComplete(t, s)
           /\ \A r \in t.receipts : r.snapshot # s
           => u.rows[s] = t.rows[s]

LEMMA StepStays ==
    ASSUME MergeInv, WritersInv, [Next]_vars, NEW c \in Catalogs
    PROVE  OwnStay(tables[c], tables'[c])
<1>1. /\ tables \in [Catalogs -> Tables]
      /\ \A x \in Catalogs : 1 .. tables[x].lastId \subseteq SnapshotIds
  BY IdsInRange DEF MergeInv
<1>2. \A t : OwnStay(t, t)
  BY DEF OwnStay
<1>3. ASSUME NEW x \in Catalogs, NEW u, OwnStay(tables[x], u),
             tables' = [tables EXCEPT ![x] = u]
      PROVE  OwnStay(tables[c], tables'[c])
  <2>1. tables'[c] = IF c = x THEN u ELSE tables[c]
    BY <1>1, <1>3
  <2>2. QED
    BY <1>2, <1>3, <2>1
<1>4. ASSUME NEW x \in Catalogs, NEW u, Stays(tables[x], u)
      PROVE  OwnStay(tables[x], u)
  BY <1>1, <1>4 DEF Stays, OwnStay
<1>5. ASSUME NEW w \in writers, NEW mode \in {"none", "full"}, CommitScan(w, mode)
      PROVE  OwnStay(tables[c], tables'[c])
  <2>1. \E u : tables' = [tables EXCEPT ![w.into] = u] /\ Stays(tables[w.into], u)
    BY <1>5, CommitDoes
  <2>2. w.into \in Catalogs
    BY WriterHere
  <2>3. QED
    BY <1>3, <1>4, <2>1, <2>2
<1>6. CASE Commit
  <2>1. /\ ImportKnows(merge, clock) /\ merge \in Import
        /\ tables[merge.into] = merge.base
        /\ tables' = [tables EXCEPT ![merge.into] = merge.work]
    BY <1>6, Running DEF Commit
  <2>2. merge.into \in Catalogs
    BY <2>1 DEF Import
  <2>3. OwnStay(merge.base, merge.work)
    BY <2>1 DEF ImportKnows, OwnKept, OwnStay
  <2>4. QED
    BY <1>3, <2>1, <2>2, <2>3
<1>7. CASE tables' = tables
  BY <1>2, <1>7
<1>8. QED
  BY <1>3, <1>4, <1>5, <1>6, <1>7, StepDoes

\* No scan and no import, whatever it is asked to do, renames a drive of a
\* catalog or touches a complete snapshot that was scanned into it.
THEOREM OwnRowsAreKept == Spec => OwnRowsStay
<1>1. ASSUME MergeInv, WritersInv, [Next]_vars
      PROVE  \A c \in Catalogs :
          /\ \A d \in Drives : tables[c].name[d] # NoName =>
                 tables'[c].name[d] = tables[c].name[d]
          /\ \A s \in 1 .. tables[c].lastId :
                 /\ IsComplete(tables[c], s)
                 /\ \A r \in tables[c].receipts : r.snapshot # s
                 => tables'[c].rows[s] = tables[c].rows[s]
  BY <1>1, StepStays DEF OwnStay
<1>2. ASSUME MergeInv, WritersInv, [Next]_vars
      PROVE  [\A c \in Catalogs :
          /\ \A d \in Drives : tables[c].name[d] # NoName =>
                 tables'[c].name[d] = tables[c].name[d]
          /\ \A s \in 1 .. tables[c].lastId :
                 /\ IsComplete(tables[c], s)
                 /\ \A r \in tables[c].receipts : r.snapshot # s
                 => tables'[c].rows[s] = tables[c].rows[s]]_vars
  BY <1>1, <1>2
<1>3. QED
  BY <1>2, Invariance, PTL DEF Spec, OwnRowsStay

-----------------------------------------------------------------------------
(* The view moves forward.                                                 *)

\* What ViewMovesForward asks of a step from t to u that is not its exception.
ViewStep(t, u, d) ==
    \A s \in Fresh(t, u, d) \cup ({t.latest[d]} \ {NoSnapshot}) : ViewReaches(u, d, s)

LEMMA ForwardReaches ==
    ASSUME NEW t, TablesOK(t), NEW u, TablesOK(u), Forward(t, u), NEW d \in Drives
    PROVE  ViewStep(t, u, d)
<1>1. ASSUME NEW s \in Fresh(t, u, d) PROVE ViewReaches(u, d, s)
  <2>1. s \in SnapshotIds /\ u.rows[s].drive = d /\ IsComplete(u, s) /\ ~IsComplete(t, s)
    BY <1>1, IdsInRange DEF Fresh, RowsOf
  <2>2. QED
    BY <2>1 DEF Forward
<1>2. ASSUME t.latest[d] # NoSnapshot PROVE ViewReaches(u, d, t.latest[d])
  <2>1. t.latest[d] \in SnapshotIds
    BY <1>2, ViewIsComplete
  <2>2. QED
    BY <2>1 DEF Forward
<1>3. QED
  BY <1>1, <1>2 DEF ViewStep

\* Nothing is done to the views where nothing becomes complete.
LEMMA QuietStep ==
    ASSUME NEW t, TablesOK(t), NEW u, Stays(t, u), NothingCompleted(t, u), NEW d \in Drives
    PROVE  ViewStep(t, u, d)
<1>1. TablesOK(u) /\ u.latest = t.latest
  BY DEF Stays, NothingCompleted
<1>2. CompleteKept(t, u)
  BY DEF Stays, CompleteKept, IsComplete
<1>3. Forward(t, u)
  BY <1>1, <1>2, ForwardHere DEF NothingCompleted
<1>4. QED
  BY <1>1, <1>3, ForwardReaches

\* A scan with entries had the lock when it took its date; without, the view
\* of its drive is what it is, but it is the one snapshot that is new there.
LEMMA CommitStep ==
    ASSUME MergeInv, WritersInv, NEW w \in writers, NEW mode \in {"none", "full"},
           CommitScan(w, mode), NEW d \in Drives
    PROVE  \/ ~w.stored /\ Fresh(tables[w.into], tables'[w.into], d) = {w.row}
           \/ ViewStep(tables[w.into], tables'[w.into], d)
<1> DEFINE t == tables[w.into]
           k == w.row
<1>1. PICK u : /\ tables' = [tables EXCEPT ![w.into] = u] /\ Stays(t, u)
               /\ CompleteKept(t, u)
               /\ u.latest[w.drive] = w.row
               /\ u.rows[w.row] \in CompleteRows /\ u.rows[w.row].scan = w.scan
               /\ u.rows[w.row].drive = w.drive /\ u.rows[w.row].completedAt = w.at
               /\ \A s \in SnapshotIds : IsComplete(u, s) <=> s = w.row \/ IsComplete(t, s)
               /\ \A e \in Drives : e # w.drive => u.latest[e] = t.latest[e]
  BY CommitDoes
<1>2. /\ TablesOK(t) /\ k \in SnapshotIds /\ w.into \in Catalogs
      /\ WriterOK(w, t, clock, scans) /\ w.at # 0 /\ w.drive \in Drives
  BY WriterHere DEF CommitScan
<1>3. tables'[w.into] = u
  BY <1>1, <1>2 DEF MergeInv
<1>4. TablesOK(u) /\ ~IsComplete(t, k)
  BY <1>1, <1>2 DEF Stays, WriterOK
<1> HIDE DEF t, k
<1>5. \A s \in SnapshotIds : IsComplete(u, s) <=> s = k \/ IsComplete(t, s)
  BY <1>1 DEF t, k
<1>6. CASE w.stored
  <2> DEFINE row == u.rows[k]
             becomes == k = k
  <2>1. /\ row \in CompleteRows /\ row.drive = w.drive /\ row.completedAt = w.at
        /\ u.latest[row.drive] = k
        /\ \A e \in Drives : e # row.drive => u.latest[e] = t.latest[e]
        /\ CompleteKept(t, u)
    BY <1>1 DEF t, k
  <2>2. \/ t.latest[row.drive] = NoSnapshot
        \/ t.rows[t.latest[row.drive]].completedAt <= row.completedAt
    <3>1. DatedBefore(t, w.at)
      BY <1>2, <1>6 DEF WriterOK
    <3>2. QED
      BY <1>2, <2>1, <3>1, ViewIsComplete DEF DatedBefore
  <2>3. becomes /\ becomes \in BOOLEAN
    OBVIOUS
  <2> HIDE DEF becomes
  <2>4. u.latest[row.drive] = (IF becomes THEN k ELSE t.latest[row.drive])
    BY <2>1, <2>3
  <2>5. \A s \in SnapshotIds : IsComplete(u, s) => s = k \/ IsComplete(t, s)
    BY <1>5
  <2>6. u.rows[k] = row
    OBVIOUS
  <2> HIDE DEF row
  <2>7. Forward(t, u)
    <3>1. /\ becomes => \/ t.latest[row.drive] = NoSnapshot
                        \/ t.rows[t.latest[row.drive]].completedAt <= row.completedAt
          /\ ~becomes => /\ t.latest[row.drive] # NoSnapshot
                         /\ row.completedAt <= t.rows[t.latest[row.drive]].completedAt
      BY <2>2, <2>3
    <3>2. /\ TablesOK(t) /\ TablesOK(u) /\ CompleteKept(t, u) /\ k \in SnapshotIds
          /\ row \in CompleteRows /\ becomes \in BOOLEAN
          /\ \A e \in Drives : e # row.drive => u.latest[e] = t.latest[e]
      BY <1>2, <1>4, <2>1, <2>3
    <3>3. QED
      BY <2>4, <2>5, <2>6, <3>1, <3>2, CompleteForward
  <2>8. QED
    BY <1>2, <1>3, <1>4, <2>7, ForwardReaches DEF t
<1>7. CASE ~w.stored /\ d = w.drive
  <2>1. k \in 1 .. u.lastId /\ u.lastId \in Nat
    BY <1>1, <1>2, <1>4, <1>5, CompleteRowsHere, IdsInRange DEF SnapshotIds
  <2>2. u.rows[k].drive = d
    BY <1>1, <1>7 DEF k
  <2>3. 1 .. u.lastId \subseteq SnapshotIds
    BY <1>4, IdsInRange
  <2>4. Fresh(t, u, d) = {k}
    BY <1>2, <1>4, <1>5, <2>1, <2>2, <2>3 DEF Fresh, RowsOf
  <2>5. QED
    BY <1>3, <1>7, <2>4 DEF t, k
<1>8. CASE d # w.drive
  <2>1. u.latest[d] = t.latest[d] /\ u.rows[k].drive # d
    BY <1>1, <1>8 DEF t, k
  <2>2. 1 .. u.lastId \subseteq SnapshotIds
    BY <1>4, IdsInRange
  <2>3. Fresh(t, u, d) = {}
    BY <1>5, <2>1, <2>2 DEF Fresh, RowsOf
  <2>4. ASSUME t.latest[d] # NoSnapshot PROVE ViewReaches(u, d, t.latest[d])
    <3>1. /\ u.rows[t.latest[d]].completedAt = t.rows[t.latest[d]].completedAt
          /\ t.rows[t.latest[d]].completedAt \in Int
      BY <1>1, <1>2, <2>4, ViewIsComplete DEF CompleteKept, t
    <3>2. QED
      BY <2>1, <2>4, <3>1 DEF ViewReaches
  <2>5. ViewStep(t, u, d)
    BY <2>3, <2>4 DEF ViewStep
  <2>6. QED
    BY <1>3, <2>5 DEF t
<1>9. QED
  BY <1>6, <1>7, <1>8

\* Whatever is scanned and imported in whatever order, the view of a drive only
\* moves forward, but for an empty scan that took its date before it waited for
\* the lock (SnapshotWriter's Complete, the end of ImportCatalog's loop).
THEOREM ViewGoesForward == Spec => ViewMovesForward
<1>1. ASSUME MergeInv, WritersInv, [Next]_vars, NEW c \in Catalogs, NEW d \in Drives
      PROVE  \/ \E w \in writers : /\ w.into = c /\ ~w.stored
                                   /\ Fresh(tables[c], tables'[c], d) = {w.row}
             \/ ViewStep(tables[c], tables'[c], d)
  <2>1. tables \in [Catalogs -> Tables] /\ TablesOK(tables[c])
    BY <1>1 DEF MergeInv
  <2>2. ViewStep(tables[c], tables[c], d)
    BY <1>1, <2>1, TablesStay, QuietStep
  <2>3. CASE Commit
    <3>1. /\ ImportKnows(merge, clock) /\ tables[merge.into] = merge.base
          /\ tables' = [tables EXCEPT ![merge.into] = merge.work]
      BY <1>1, <2>3, Running DEF Commit
    <3>2. tables'[c] = IF c = merge.into THEN merge.work ELSE tables[c]
      BY <2>1, <3>1
    <3>3. ViewStep(merge.base, merge.work, d)
      BY <3>1, ForwardReaches DEF ImportKnows
    <3>4. QED
      BY <2>2, <3>1, <3>2, <3>3
  <2>4. ASSUME NEW w \in writers, NEW mode \in {"none", "full"}, CommitScan(w, mode)
        PROVE  \/ \E x \in writers : /\ x.into = c /\ ~x.stored
                                     /\ Fresh(tables[c], tables'[c], d) = {x.row}
               \/ ViewStep(tables[c], tables'[c], d)
    <3>1. CASE w.into = c
      BY <1>1, <2>4, <3>1, CommitStep
    <3>2. CASE w.into # c
      <4>1. \E u : tables' = [tables EXCEPT ![w.into] = u]
        BY <2>4 DEF CommitScan
      <4>2. tables'[c] = tables[c]
        BY <2>1, <3>2, <4>1
      <4>3. QED
        BY <2>2, <4>2
    <3>3. QED
      BY <3>1, <3>2
  <2>5. ASSUME NEW x \in Catalogs, NEW u, tables' = [tables EXCEPT ![x] = u],
               Stays(tables[x], u), NothingCompleted(tables[x], u)
        PROVE  ViewStep(tables[c], tables'[c], d)
    <3>1. tables'[c] = IF c = x THEN u ELSE tables[c]
      BY <2>1, <2>5
    <3>2. c = x => ViewStep(tables[c], u, d)
      BY <2>1, <2>5, QuietStep
    <3>3. QED
      BY <2>2, <3>1, <3>2
  <2>6. QED
    BY <1>1, <2>2, <2>3, <2>4, <2>5, StepDoes
<1>2. ASSUME MergeInv, WritersInv, [Next]_vars
      PROVE  [\A c \in Catalogs, d \in Drives :
                 LET t == tables[c]
                     u == tables'[c]
                 IN  \/ \E w \in writers : /\ w.into = c /\ ~w.stored
                                           /\ Fresh(t, u, d) = {w.row}
                     \/ \A s \in Fresh(t, u, d) \cup ({t.latest[d]} \ {NoSnapshot}) :
                            ViewReaches(u, d, s)]_vars
  BY <1>1, <1>2 DEF ViewStep
<1>3. QED
  BY <1>2, Invariance, PTL DEF Spec, ViewMovesForward

-----------------------------------------------------------------------------
(* Importing again.                                                        *)

\* All that the source has to give is in the target already.
NothingNew(m) ==
    /\ \A d \in Drives : m.source.name[d] # NoName => m.base.name[d] # NoName
    /\ \A s \in 1 .. m.source.lastId : IsComplete(m.source, s) =>
           \E r \in m.base.receipts :
               r.digest = Digest(m.source, s) /\ r.trusted = m.trust

OnlyMigrated(m) ==
    \E S \in SUBSET UnfinishedIn(m.base) : m.work = Migrated(m.base, S)

RepeatInv == merge.phase # "idle" /\ NothingNew(merge) => OnlyMigrated(merge)

\* A snapshot that is visited has its receipt, with the policy asked for.
LEMMA RepeatHasReceipt ==
    ASSUME MergeInv, RepeatInv, NEW s \in SnapshotIds, AtSnapshot(s),
           IsComplete(merge.source, s), NothingNew(merge)
    PROVE  /\ ReceiptsOf(s) # {}
           /\ \A r \in ReceiptsOf(s) : r.trusted = merge.trust
<1>1. /\ merge.phase # "idle" /\ s \in 1 .. merge.source.lastId
      /\ TablesOK(merge.base) /\ TablesOK(merge.work)
  BY AtSnapshotMeans DEF AtSnapshot, ImportKnows
<1>2. PICK q \in merge.base.receipts :
          q.digest = Digest(merge.source, s) /\ q.trusted = merge.trust
  BY <1>1 DEF NothingNew
<1>3. merge.work.receipts = merge.base.receipts
  <2>1. PICK S \in SUBSET UnfinishedIn(merge.base) : merge.work = Migrated(merge.base, S)
    BY <1>1 DEF RepeatInv, OnlyMigrated
  <2>2. Migrated(merge.base, S).receipts = merge.base.receipts
    BY <1>1 DEF Migrated, TablesOK, Tables
  <2>3. QED
    BY <2>1, <2>2
<1>4. QED
  BY <1>1, <1>2, <1>3 DEF ReceiptsOf, TablesOK, ReceiptsTrue

LEMMA NextRepeatInv ==
    ASSUME MergeInv, RepeatInv, [Next]_vars PROVE RepeatInv'
<1>1. SUFFICES ASSUME merge'.phase # "idle", NothingNew(merge') PROVE OnlyMigrated(merge')
  BY DEF RepeatInv
<1>2. ASSUME NEW s \in Catalogs, NEW c \in Catalogs,
             NEW trust \in BOOLEAN, NEW rename \in BOOLEAN, NEW dry \in BOOLEAN,
             BeginImport(s, c, trust, rename, dry)
      PROVE  OnlyMigrated(merge')
  BY <1>2 DEF BeginImport, OnlyMigrated
<1>3. ASSUME merge.phase # "idle",
             merge'.source = merge.source, merge'.base = merge.base,
             merge'.trust = merge.trust, NothingNew(merge) => merge'.work = merge.work
      PROVE  OnlyMigrated(merge')
  BY <1>1, <1>3 DEF RepeatInv, NothingNew, OnlyMigrated
<1>4. CASE EnsureDrive
  <2>1. merge.phase # "idle" /\ merge.drive \in Drives
    BY <1>4 DEF EnsureDrive, AtDrive
  <2>2. merge \in Import /\ OwnKept(merge)
    BY <2>1, Running DEF ImportKnows
  <2>3. /\ \E u : /\ merge' = [merge EXCEPT !.phase = "snapshots", !.work = u, !.done = 0]
                  /\ (\/ merge.work.name[merge.drive] # NoName
                      \/ merge.source.name[merge.drive] = NoName) => u = merge.work
    BY <1>4 DEF EnsureDrive
  <2>4. NothingNew(merge) => \/ merge.work.name[merge.drive] # NoName
                             \/ merge.source.name[merge.drive] = NoName
    BY <2>1, <2>2 DEF NothingNew, OwnKept
  <2>5. /\ merge'.source = merge.source /\ merge'.base = merge.base
        /\ merge'.trust = merge.trust
        /\ NothingNew(merge) => merge'.work = merge.work
    BY <2>2, <2>3, <2>4 DEF Import
  <2>6. QED
    BY <1>3, <2>1, <2>5
<1>5. ASSUME NEW s \in SnapshotIds, UpdateHashPolicy(s) \/ ImportSnapshot(s)
      PROVE  OnlyMigrated(merge')
  <2>1. /\ merge.phase # "idle" /\ AtSnapshot(s) /\ IsComplete(merge.source, s)
        /\ \E u : merge' = [merge EXCEPT !.done = s, !.work = u]
        /\ \/ \E r \in ReceiptsOf(s) : r.trusted # merge.trust
           \/ ReceiptsOf(s) = {}
    BY <1>5 DEF UpdateHashPolicy, ImportSnapshot, AtSnapshot
  <2>2. ~NothingNew(merge)
    BY <2>1, RepeatHasReceipt
  <2>3. merge \in Import
    BY <2>1, Running
  <2>4. /\ merge'.source = merge.source /\ merge'.base = merge.base
        /\ merge'.trust = merge.trust
    BY <2>1, <2>3 DEF Import
  <2>5. QED
    BY <1>3, <2>1, <2>2, <2>4
<1>6. ASSUME NEW s \in SnapshotIds, SkipIncomplete(s) \/ SkipImported(s)
      PROVE  OnlyMigrated(merge')
  <2>1. merge.phase # "idle" /\ merge' = [merge EXCEPT !.done = s]
    BY <1>6 DEF SkipIncomplete, SkipImported, AtSnapshot
  <2>2. merge \in Import
    BY <2>1, Running
  <2>3. QED
    BY <1>3, <2>1, <2>2 DEF Import
<1>7. CASE NextDrive
  <2>1. /\ merge.phase # "idle"
        /\ \E x, p : merge' = [merge EXCEPT !.drive = x, !.phase = p]
    BY <1>7 DEF NextDrive
  <2>2. merge \in Import
    BY <2>1, Running
  <2>3. QED
    BY <1>3, <2>1, <2>2 DEF Import
<1>8. CASE Commit \/ Rollback
  BY <1>1, <1>8 DEF Commit, Rollback, NoMerge
<1>9. ASSUME merge' = merge PROVE OnlyMigrated(merge')
  BY <1>1, <1>9 DEF RepeatInv
<1>10. QED
  BY <1>2, <1>4, <1>5, <1>6, <1>7, <1>8, <1>9
     DEF Next, ImportStep, CreateDrive, StartSnapshot, Add, Complete, CommitScan,
         EndScan, Tick, vars

\* Importing again what is already there, under the policy it has, changes
\* nothing but the scans that were interrupted (ImportCatalog's receipts).
THEOREM RepeatIsIdle == Spec => []RepeatChangesNothing
<1>1. Init => RepeatInv
  BY DEF Init, RepeatInv, NoMerge
<1>2. MergeInv /\ RepeatInv /\ [Next]_vars => RepeatInv'
  BY NextRepeatInv
<1>3. RepeatInv => RepeatChangesNothing
  BY DEF RepeatInv, RepeatChangesNothing, NothingNew, OnlyMigrated
<1>4. QED
  BY <1>1, <1>2, <1>3, Invariance, PTL DEF Spec

-----------------------------------------------------------------------------
(* No scan twice.                                                          *)

\* Nothing is imported into a catalog that is imported from.
NoChains == \A f, g \in Flows : f[2] # g[1]

\* Nothing is imported into c.
OnlyScanned(c) == \A f \in Flows : f[2] # c

\* Scan n is over: it has the snapshot it will ever have, or none.
Over(n, begun, running) == n \in 1 .. begun /\ \A w \in running : w.scan # n
Ended(n) == Over(n, scans, writers)

\* Row i of t was scanned here, not imported.
Original(t, i) ==
    i \in SnapshotIds /\ IsComplete(t, i) /\ \A r \in t.receipts : r.snapshot # i

\* A digest of a row that is still there, in a catalog that has all its rows
\* from scans.
OfOriginal(digest) ==
    \E c \in Catalogs :
        /\ OnlyScanned(c) /\ digest.id \in SnapshotIds
        /\ IsComplete(tables[c], digest.id)
        /\ digest = Digest(tables[c], digest.id)

Traced(t) ==
    /\ \A i, k \in SnapshotIds :
           IsComplete(t, i) /\ IsComplete(t, k) /\ t.rows[i].scan = t.rows[k].scan => i = k
    /\ \A i \in SnapshotIds : IsComplete(t, i) => Ended(t.rows[i].scan)
    /\ \A r \in t.receipts : OfOriginal(r.digest)

ImportTraced(m) ==
    /\ ~OnlyScanned(m.into) /\ Traced(m.work)
    /\ \E c \in Catalogs :
           /\ OnlyScanned(c)
           /\ \A i \in SnapshotIds : IsComplete(m.source, i) =>
                  IsComplete(tables[c], i) /\ tables[c].rows[i] = m.source.rows[i]
    /\ \A i \in SnapshotIds : Original(m.work, i) =>
           /\ Original(tables[m.into], i)
           /\ tables[m.into].rows[i].scan = m.work.rows[i].scan

\* Each scan is in the one catalog it was made in, and elsewhere behind a receipt.
TraceInv ==
    /\ \A c \in Catalogs : Traced(tables[c])
    /\ \A c \in Catalogs : OnlyScanned(c) => tables[c].receipts = {}
    /\ \A c, e \in Catalogs : \A i, k \in SnapshotIds :
           /\ Original(tables[c], i) /\ Original(tables[e], k)
           /\ tables[c].rows[i].scan = tables[e].rows[k].scan
           => c = e
    /\ merge.phase # "idle" => ImportTraced(merge)

\* What u has besides t, if anything, is one row of that scan.
Grows(t, u, scan) ==
    /\ u.receipts = t.receipts
    /\ \A i \in SnapshotIds : IsComplete(t, i) => IsComplete(u, i) /\ u.rows[i] = t.rows[i]
    /\ \A i, k \in SnapshotIds :
           /\ IsComplete(u, i) /\ ~IsComplete(t, i) => u.rows[i].scan = scan
           /\ IsComplete(u, i) /\ ~IsComplete(t, i) /\ IsComplete(u, k) /\ ~IsComplete(t, k)
                  => i = k

LEMMA PolicyKeepsScan ==
    ASSUME NEW row \in CompleteRows, NEW trust \in BOOLEAN
    PROVE  UnderPolicy(row, trust).scan = row.scan
<1> DEFINE claim == KeptClaim(row, trust)
           mode == KeptMode(row, trust)
<1>1. UnderPolicy(row, trust) = [row EXCEPT !.claim = claim, !.mode = mode]
  BY DEF UnderPolicy
<1> HIDE DEF claim, mode
<1>2. QED
  BY <1>1 DEF CompleteRows

\* Something happens in one catalog, between imports or beside one: a scan that
\* was running may end there, with a snapshot.
LEMMA CatalogTraced ==
    ASSUME MergeInv, TraceInv, NEW c \in Catalogs, NEW u,
           tables' = [tables EXCEPT ![c] = u], merge' = merge,
           NEW scan, ~Ended(scan), \A n : Ended(n) => Ended(n)',
           Grows(tables[c], u, scan),
           \/ Ended(scan)'
           \/ \A i \in SnapshotIds : IsComplete(u, i) => IsComplete(tables[c], i)
    PROVE  TraceInv'
<1>1. /\ \A e \in Catalogs : TablesOK(tables[e])
      /\ \A e \in Catalogs : tables'[e] = IF e = c THEN u ELSE tables[e]
  BY DEF MergeInv
<1>2. ASSUME NEW e \in Catalogs
      PROVE  /\ Grows(tables[e], tables'[e], scan)
             /\ \/ Ended(scan)'
                \/ \A i \in SnapshotIds : IsComplete(tables'[e], i) => IsComplete(tables[e], i)
  BY <1>1 DEF Grows
<1>3. ASSUME NEW digest, OfOriginal(digest) PROVE OfOriginal(digest)'
  <2>1. PICK e \in Catalogs :
            /\ OnlyScanned(e) /\ digest.id \in SnapshotIds
            /\ IsComplete(tables[e], digest.id)
            /\ digest = Digest(tables[e], digest.id)
    BY <1>3 DEF OfOriginal
  <2>2. /\ IsComplete(tables'[e], digest.id)
        /\ tables'[e].rows[digest.id] = tables[e].rows[digest.id]
    BY <1>2, <2>1 DEF Grows
  <2>3. QED
    BY <2>1, <2>2 DEF OfOriginal, Digest, IsComplete
<1>4. ASSUME NEW t, Traced(t) PROVE Traced(t)'
  BY <1>3, <1>4 DEF Traced, IsComplete
<1>5. ASSUME NEW e \in Catalogs PROVE Traced(tables[e])'
  <2> DEFINE t == tables[e]
             v == tables'[e]
  <2>1. Traced(t) /\ TablesOK(t) /\ Grows(t, v, scan)
    BY <1>1, <1>2 DEF TraceInv
  <2>2. ASSUME NEW i \in SnapshotIds, IsComplete(v, i)
        PROVE  \/ IsComplete(t, i) /\ v.rows[i].scan = t.rows[i].scan /\ Ended(t.rows[i].scan)
               \/ ~IsComplete(t, i) /\ v.rows[i].scan = scan /\ Ended(scan)'
    BY <1>2, <2>1, <2>2 DEF Grows, Traced
  <2>3. ASSUME NEW i \in SnapshotIds, NEW k \in SnapshotIds,
               IsComplete(v, i), IsComplete(v, k), v.rows[i].scan = v.rows[k].scan
        PROVE  i = k
    <3>1. CASE IsComplete(t, i) /\ IsComplete(t, k)
      BY <2>1, <2>3, <3>1 DEF Grows, Traced
    <3>2. CASE ~IsComplete(t, i) /\ ~IsComplete(t, k)
      BY <2>1, <2>3, <3>2 DEF Grows
    <3>3. CASE IsComplete(t, i) /\ ~IsComplete(t, k)
      BY <2>2, <2>3, <3>3
    <3>4. CASE ~IsComplete(t, i) /\ IsComplete(t, k)
      BY <2>2, <2>3, <3>4
    <3>5. QED
      BY <3>1, <3>2, <3>3, <3>4
  <2>4. ASSUME NEW i \in SnapshotIds, IsComplete(v, i)
        PROVE  Over(v.rows[i].scan, scans', writers')
    <3>1. \A n : Ended(n)' <=> Over(n, scans', writers')
      BY DEF Ended
    <3>2. QED
      BY <2>2, <2>4, <3>1
  <2>5. \A r \in v.receipts : OfOriginal(r.digest)'
    BY <1>3, <2>1 DEF Grows, Traced
  <2>6. QED
    BY <2>3, <2>4, <2>5 DEF Traced, Ended, IsComplete
<1>6. ASSUME NEW e \in Catalogs, OnlyScanned(e) PROVE tables'[e].receipts = {}
  BY <1>2, <1>6 DEF Grows, TraceInv
<1>7. ASSUME NEW e \in Catalogs, NEW f \in Catalogs,
             NEW i \in SnapshotIds, NEW k \in SnapshotIds,
             Original(tables'[e], i), Original(tables'[f], k),
             tables'[e].rows[i].scan = tables'[f].rows[k].scan
      PROVE  e = f
  <2> SUFFICES ASSUME e # f PROVE FALSE
    OBVIOUS
  <2>1. ASSUME NEW g \in Catalogs, NEW n \in SnapshotIds, Original(tables'[g], n)
        PROVE  \/ /\ Original(tables[g], n) /\ tables'[g].rows[n].scan = tables[g].rows[n].scan
                  /\ Ended(tables[g].rows[n].scan)
               \/ g = c /\ tables'[g].rows[n].scan = scan
    <3>1. CASE IsComplete(tables[g], n)
      BY <1>2, <2>1, <3>1 DEF Original, Grows, TraceInv, Traced
    <3>2. CASE ~IsComplete(tables[g], n)
      BY <1>1, <1>2, <2>1, <3>2 DEF Original, Grows
    <3>3. QED
      BY <3>1, <3>2
  <2>2. CASE Original(tables[e], i) /\ Original(tables[f], k)
    BY <1>7, <2>1, <2>2 DEF TraceInv, Original
  <2>3. QED
    BY <1>7, <2>1, <2>2
<1>8. merge.phase # "idle" => ImportTraced(merge)'
  <2> SUFFICES ASSUME merge.phase # "idle" PROVE ImportTraced(merge)'
    OBVIOUS
  <2>1. ImportTraced(merge) /\ merge.into \in Catalogs
    BY Running DEF TraceInv, Import
  <2>2. Traced(merge.work)'
    BY <1>4, <2>1 DEF ImportTraced, Traced, OfOriginal, Ended, Over, IsComplete
  <2>3. \E e \in Catalogs :
           /\ OnlyScanned(e)
           /\ \A i \in SnapshotIds : IsComplete(merge.source, i) =>
                  IsComplete(tables'[e], i) /\ tables'[e].rows[i] = merge.source.rows[i]
    BY <1>2, <2>1 DEF ImportTraced, Grows
  <2>4. \A i \in SnapshotIds : Original(merge.work, i) =>
           /\ Original(tables'[merge.into], i)
           /\ tables'[merge.into].rows[i].scan = merge.work.rows[i].scan
    BY <1>2, <2>1 DEF ImportTraced, Grows, Original
  <2>5. QED
    BY <2>1, <2>2, <2>3, <2>4 DEF ImportTraced, Original, IsComplete
<1>9. QED
  BY <1>5, <1>6, <1>7, <1>8 DEF TraceInv, Original, IsComplete

\* Where no row becomes complete, it is as if the scan to come had done nothing.
LEMMA QuietTraced ==
    ASSUME MergeInv, TraceInv, NEW c \in Catalogs, NEW u,
           tables' = [tables EXCEPT ![c] = u], merge' = merge,
           Stays(tables[c], u), NothingCompleted(tables[c], u),
           \A n : Ended(n) => Ended(n)'
    PROVE  TraceInv'
<1>1. ~Ended(scans + 1)
  BY DEF Ended, Over, MergeInv
<1>2. Grows(tables[c], u, scans + 1)
  BY DEF Grows, Stays, NothingCompleted, IsComplete
<1>3. \A i \in SnapshotIds : IsComplete(u, i) => IsComplete(tables[c], i)
  BY DEF NothingCompleted
<1>4. QED
  BY <1>1, <1>2, <1>3, CatalogTraced

LEMMA ScanTraced ==
    ASSUME MergeInv, WritersInv, TraceInv,
           \/ \E c \in Catalogs, d \in Drives : CreateDrive(c, d) \/ StartSnapshot(c, d)
           \/ \E w \in writers : \/ Add(w) \/ Complete(w) \/ EndScan(w)
                                 \/ \E mode \in {"none", "full"} : CommitScan(w, mode)
    PROVE  TraceInv'
<1>1. tables \in [Catalogs -> Tables]
  BY DEF MergeInv
<1>2. ASSUME NEW c \in Catalogs, tables' = tables, merge' = merge,
             \A n : Ended(n) => Ended(n)'
      PROVE  TraceInv'
  <2>1. tables' = [tables EXCEPT ![c] = tables[c]]
    BY <1>1, <1>2
  <2>2. QED
    BY <1>2, <2>1, TablesStay, QuietTraced
<1>3. ASSUME NEW c \in Catalogs, NEW d \in Drives, CreateDrive(c, d) PROVE TraceInv'
  <2>1. UNCHANGED <<writers, merge, scans>>
    BY <1>3 DEF CreateDrive
  <2>2. \A n : Ended(n) => Ended(n)'
    BY <2>1 DEF Ended, Over
  <2>3. QED
    BY <1>3, <2>1, <2>2, CreateDriveDoes, QuietTraced
<1>4. ASSUME NEW c \in Catalogs, NEW d \in Drives, StartSnapshot(c, d) PROVE TraceInv'
  <2> DEFINE v == Writer(c, d, tables[c].lastId + 1, scans')
  <2>1. merge' = merge /\ scans' = scans + 1 /\ writers' = writers \cup {v}
        /\ scans \in Int /\ v.scan = scans + 1
    BY <1>4 DEF StartSnapshot, MergeInv, Writer
  <2> HIDE DEF v
  <2>2. ASSUME NEW n, Ended(n) PROVE Ended(n)'
    BY <2>1, <2>2 DEF Ended, Over
  <2>3. \E u : /\ tables' = [tables EXCEPT ![c] = u]
               /\ Stays(tables[c], u) /\ NothingCompleted(tables[c], u)
    BY <1>4, StartDoes
  <2>4. QED
    BY <2>1, <2>2, <2>3, QuietTraced
<1>5. ASSUME NEW w \in writers, Add(w) \/ Complete(w) PROVE TraceInv'
  <2>1. /\ UNCHANGED <<tables, merge, scans>> /\ w \in Writers
        /\ \/ writers' = (writers \ {w}) \cup {[w EXCEPT !.stored = TRUE]}
           \/ writers' = (writers \ {w}) \cup {[w EXCEPT !.at = clock]}
    BY <1>5, WriterHere DEF Add, Complete
  <2>2. \A x \in writers' : \E y \in writers : x.scan = y.scan
    BY <2>1 DEF Writers
  <2>3. \A n : Ended(n) => Ended(n)'
    BY <2>1, <2>2 DEF Ended, Over
  <2>4. QED
    BY <1>2, <2>1, <2>3, WriterHere
<1>6. ASSUME NEW w \in writers, EndScan(w) PROVE TraceInv'
  <2>1. UNCHANGED <<merge, scans>> /\ writers' = writers \ {w} /\ w.into \in Catalogs
    BY <1>6, WriterHere DEF EndScan
  <2>2. \A n : Ended(n) => Ended(n)'
    BY <2>1 DEF Ended, Over
  <2>3. QED
    BY <1>2, <1>6, <2>1, <2>2, EndDoes, QuietTraced
<1>7. ASSUME NEW w \in writers, NEW mode \in {"none", "full"}, CommitScan(w, mode)
      PROVE  TraceInv'
  <2> DEFINE t == tables[w.into]
  <2>1. PICK u : /\ tables' = [tables EXCEPT ![w.into] = u] /\ Stays(t, u)
                 /\ CompleteKept(t, u)
                 /\ u.latest[w.drive] = w.row
                 /\ u.rows[w.row] \in CompleteRows /\ u.rows[w.row].scan = w.scan
                 /\ u.rows[w.row].drive = w.drive /\ u.rows[w.row].completedAt = w.at
                 /\ \A s \in SnapshotIds : IsComplete(u, s) <=> s = w.row \/ IsComplete(t, s)
                 /\ \A d \in Drives : d # w.drive => u.latest[d] = t.latest[d]
    BY <1>7, CommitDoes
  <2>2. UNCHANGED <<merge, scans>> /\ writers' = writers \ {w} /\ scans \in Int
    <3>1. UNCHANGED <<merge, scans>> /\ writers' = writers \ {w}
      BY <1>7 DEF CommitScan
    <3>2. scans \in Int
      BY DEF MergeInv
    <3>3. QED
      BY <3>1, <3>2
  <2>3. w.into \in Catalogs /\ w.row \in SnapshotIds /\ w.scan \in 1 .. scans
    <3>1. /\ w.into \in Catalogs /\ w.row \in SnapshotIds /\ w.scan \in 1 .. MaxScans
          /\ WriterOK(w, tables[w.into], clock, scans)
      BY WriterHere
    <3>2. w.scan <= scans
      BY <3>1 DEF WriterOK
    <3>3. QED
      BY <2>2, <3>1, <3>2, SizeAssumption
  <2>4. ~Ended(w.scan) /\ Ended(w.scan)'
    BY <2>2, <2>3, WritersDiffer DEF Ended, Over
  <2>5. \A n : Ended(n) => Ended(n)'
    BY <2>2 DEF Ended, Over
  <2>6. Grows(t, u, w.scan)
    BY <2>1 DEF Grows, Stays, CompleteKept
  <2>7. QED
    BY <2>1, <2>2, <2>3, <2>4, <2>5, <2>6, CatalogTraced
<1>8. QED
  BY <1>3, <1>4, <1>5, <1>6, <1>7

\* Rows and receipts of u tell of the same scans as those of t.
SameScans(t, u) ==
    /\ \A i \in SnapshotIds :
           /\ IsComplete(u, i) <=> IsComplete(t, i)
           /\ IsComplete(t, i) => u.rows[i].scan = t.rows[i].scan
    /\ \A r \in u.receipts : \E q \in t.receipts : q.digest = r.digest
    /\ \A q \in t.receipts : \E r \in u.receipts : r.snapshot = q.snapshot

\* A step of the import that inserts no row.
LEMMA NothingInserted ==
    ASSUME TraceInv, merge.phase # "idle", UNCHANGED <<tables, writers, scans>>,
           merge'.into = merge.into, merge'.source = merge.source,
           SameScans(merge.work, merge'.work)
    PROVE  TraceInv'
<1>1. ImportTraced(merge)
  BY DEF TraceInv
<1>2. \A digest : OfOriginal(digest) => OfOriginal(digest)'
  BY DEF OfOriginal
<1>3. Traced(merge.work)'
  BY <1>1, <1>2 DEF ImportTraced, Traced, SameScans, Ended, Over, IsComplete
<1>4. \A i \in SnapshotIds : Original(merge'.work, i) =>
          Original(merge.work, i) /\ merge'.work.rows[i].scan = merge.work.rows[i].scan
  BY DEF SameScans, Original
<1>5. ImportTraced(merge)'
  BY <1>1, <1>3, <1>4 DEF ImportTraced, Original, IsComplete
<1>6. QED
  BY <1>2, <1>5 DEF TraceInv, Traced, Original, Ended, Over, IsComplete

LEMMA BeginTraced ==
    ASSUME NoChains, MergeInv, TraceInv, NEW s \in Catalogs, NEW c \in Catalogs,
           NEW trust, NEW rename, NEW dry, BeginImport(s, c, trust, rename, dry)
    PROVE  TraceInv'
<1>1. PICK S \in SUBSET UnfinishedIn(tables[c]) :
          /\ merge'.into = c /\ merge'.source = tables[s]
          /\ merge'.work = Migrated(tables[c], S)
  BY DEF BeginImport
<1>2. <<s, c>> \in Flows /\ UNCHANGED <<tables, writers, scans>>
  BY DEF BeginImport
<1>3. OnlyScanned(s) /\ ~OnlyScanned(c)
  BY <1>2 DEF NoChains, OnlyScanned
<1> DEFINE t == tables[c]
           u == Migrated(tables[c], S)
<1>4. TablesOK(t) /\ DatedBefore(t, clock) /\ Traced(t)
  BY DEF MergeInv, TraceInv
<1>5. /\ u.receipts = t.receipts
      /\ \A i \in SnapshotIds : IsComplete(t, i) => u.rows[i] = t.rows[i]
  BY <1>4, MigratedOK
<1>6. \A i \in SnapshotIds : IsComplete(u, i) => IsComplete(t, i)
  BY <1>4 DEF Migrated, UnfinishedRow, IsComplete, TablesOK, Tables
<1> HIDE DEF u
<1>7. \A digest : OfOriginal(digest) => OfOriginal(digest)'
  BY <1>2 DEF OfOriginal
<1>8. Traced(merge.work)'
  BY <1>1, <1>2, <1>4, <1>5, <1>6, <1>7 DEF Traced, Ended, Over, IsComplete, u
<1>9. \A i \in SnapshotIds : Original(merge'.work, i) =>
          Original(t, i) /\ t.rows[i].scan = merge'.work.rows[i].scan
  BY <1>1, <1>5, <1>6 DEF Original, u
<1>10. ImportTraced(merge)'
  BY <1>1, <1>2, <1>3, <1>8, <1>9 DEF ImportTraced, Original, IsComplete
<1>11. QED
  BY <1>2, <1>7, <1>10 DEF TraceInv, Traced, Original, Ended, Over, IsComplete

LEMMA UpdateTraced ==
    ASSUME MergeInv, TraceInv, NEW s \in SnapshotIds, UpdateHashPolicy(s)
    PROVE  TraceInv'
<1>1. /\ AtSnapshot(s) /\ IsComplete(merge.source, s) /\ UNCHANGED <<tables, writers, scans>>
  BY DEF UpdateHashPolicy
<1>2. /\ merge \in Import /\ merge.phase # "idle" /\ TablesOK(merge.work)
  BY <1>1, AtSnapshotMeans
<1> DEFINE t == merge.work
           claim == KeptClaim(merge.source.rows[s], merge.trust)
           mode == KeptMode(merge.source.rows[s], merge.trust)
<1>3. PICK r \in ReceiptsOf(s) :
          merge' = [merge EXCEPT !.done = s, !.work =
                 [t EXCEPT !.rows[r.snapshot] = [@ EXCEPT !.claim = claim, !.mode = mode],
                           !.receipts = (@ \ {r}) \cup {[r EXCEPT !.trusted = merge.trust]}]]
  BY DEF UpdateHashPolicy
<1> DEFINE k == r.snapshot
           x == [r EXCEPT !.trusted = merge.trust]
           new == [t.rows[k] EXCEPT !.claim = claim, !.mode = mode]
           rows == [t.rows EXCEPT ![k] = new]
           receipts == (t.receipts \ {r}) \cup {x}
           u == [t EXCEPT !.rows = rows, !.receipts = receipts]
<1>4. /\ r \in t.receipts /\ r \in Receipts /\ k \in SnapshotIds
      /\ t.rows[k] \in CompleteRows
  BY <1>2, <1>3, ReceiptRows DEF ReceiptsOf
<1>5. merge' = [merge EXCEPT !.done = s, !.work = u]
  BY <1>3
<1>6. new.status = "complete" /\ new.scan = t.rows[k].scan /\ t.rows[k].status = "complete"
  <2> HIDE DEF claim, mode
  <2>1. QED
    BY <1>4 DEF CompleteRows
<1>7. x.snapshot = k /\ x.digest = r.digest
  BY <1>4 DEF Receipts
<1> HIDE DEF new
<1>8. rows[k] = new /\ \A i \in SnapshotIds : i # k => rows[i] = t.rows[i]
  BY <1>2, <1>4 DEF TablesOK, Tables
<1> HIDE DEF rows, x
<1>9. u.rows = rows /\ u.receipts = receipts
  BY <1>2 DEF TablesOK, Tables
<1> HIDE DEF u
<1>10. \A i \in SnapshotIds : /\ IsComplete(u, i) <=> IsComplete(t, i)
                              /\ IsComplete(t, i) => u.rows[i].scan = t.rows[i].scan
  BY <1>6, <1>8, <1>9 DEF IsComplete
<1>11. /\ \A q \in u.receipts : \E p \in t.receipts : p.digest = q.digest
       /\ \A q \in t.receipts : \E p \in u.receipts : p.snapshot = q.snapshot
  BY <1>4, <1>7, <1>9
<1>12. SameScans(t, u)
  BY <1>10, <1>11 DEF SameScans
<1>13. merge'.into = merge.into /\ merge'.source = merge.source /\ merge'.work = u
  BY <1>2, <1>5 DEF Import
<1>14. QED
  BY <1>1, <1>2, <1>12, <1>13, NothingInserted

\* The row that is inserted is not there yet: its scan has one original, which
\* is the one in the source, and no receipt says that that was imported.
LEMMA ImportTracedRow ==
    ASSUME NoChains, MergeInv, TraceInv, NEW s \in SnapshotIds, ImportSnapshot(s)
    PROVE  TraceInv'
<1>1. /\ AtSnapshot(s) /\ IsComplete(merge.source, s) /\ ReceiptsOf(s) = {}
      /\ UNCHANGED <<tables, writers, scans>>
  BY DEF ImportSnapshot
<1>2. /\ merge \in Import /\ merge.phase # "idle"
      /\ TablesOK(merge.work) /\ TablesOK(merge.source)
      /\ merge.trust \in BOOLEAN /\ merge.into \in Catalogs
      /\ \A c \in Catalogs : TablesOK(tables[c])
  BY <1>1, AtSnapshotMeans DEF Import, MergeInv
<1>3. ImportTraced(merge)
  BY <1>2 DEF TraceInv
<1> DEFINE t == merge.work
           row == merge.source.rows[s]
           n == t.lastId + 1
           digest == Digest(merge.source, s)
           copy == UnderPolicy(row, merge.trust)
           x == [digest |-> digest, snapshot |-> n, trusted |-> merge.trust]
           v == InsertRow(t, copy)
           latest == IF BecomesView(t, merge.drive, row.completedAt)
                       THEN n ELSE v.latest[merge.drive]
           u == [v EXCEPT !.receipts = @ \cup {x}, !.latest[merge.drive] = latest]
<1>4. merge' = [merge EXCEPT !.done = s, !.work = u]
  BY DEF ImportSnapshot, UnderPolicy
<1>5. /\ row \in CompleteRows /\ copy \in CompleteRows /\ copy.scan = row.scan
      /\ copy.status = "complete"
  <2>1. row \in CompleteRows
    BY <1>1, <1>2, CompleteRowsHere
  <2>2. QED
    BY <1>2, <2>1, PolicyKeeps, PolicyKeepsScan
<1>6. t.lastId < MaxRows
  BY ImportHasRoom
<1> HIDE DEF copy
<1>7. n \in SnapshotIds /\ t.rows[n] = NoRow /\ \A r \in t.receipts : r.snapshot # n
  BY <1>2, <1>6, NewRow
<1>8. v \in Tables /\ v.rows = [t.rows EXCEPT ![n] = copy] /\ v.receipts = t.receipts
  <2>1. copy \in Rows
    BY <1>5 DEF Rows
  <2>2. QED
    BY <1>2, <1>6, <2>1, InsertedRow
<1> HIDE DEF v, latest, x
<1>9. u.rows = [t.rows EXCEPT ![n] = copy] /\ u.receipts = t.receipts \cup {x}
  BY <1>8 DEF Tables
<1>10. x.digest = digest /\ x.snapshot = n
  BY DEF x
<1> HIDE DEF u
<1>11. merge'.into = merge.into /\ merge'.source = merge.source /\ merge'.work = u
  BY <1>2, <1>4 DEF Import
<1>12. u.rows[n] = copy /\ \A i \in SnapshotIds : i # n => u.rows[i] = t.rows[i]
  BY <1>2, <1>7, <1>9 DEF TablesOK, Tables
<1>13. PICK c \in Catalogs :
           /\ OnlyScanned(c)
           /\ \A i \in SnapshotIds : IsComplete(merge.source, i) =>
                  IsComplete(tables[c], i) /\ tables[c].rows[i] = merge.source.rows[i]
  BY <1>3 DEF ImportTraced
<1>14. /\ Original(tables[c], s) /\ tables[c].rows[s] = row
       /\ digest.id = s /\ digest = Digest(tables[c], s) /\ Ended(row.scan)
  BY <1>1, <1>13 DEF TraceInv, Traced, Original, Digest
<1>15. OfOriginal(digest)
  BY <1>13, <1>14 DEF OfOriginal, Original
<1>16. ASSUME NEW i \in SnapshotIds, IsComplete(t, i), t.rows[i].scan = row.scan
       PROVE  FALSE
  <2>1. CASE Original(t, i)
    <3>1. Original(tables[merge.into], i) /\ tables[merge.into].rows[i].scan = row.scan
      BY <1>3, <1>16, <2>1 DEF ImportTraced
    <3>2. merge.into = c
      BY <1>2, <1>14, <3>1 DEF TraceInv
    <3>3. QED
      BY <1>3, <1>13, <3>2 DEF ImportTraced
  <2>2. CASE ~Original(t, i)
    <3>1. PICK r \in t.receipts : r.snapshot = i
      BY <1>16, <2>2 DEF Original
    <3>2. r.digest.row.scan = row.scan
      BY <1>2, <1>16, <3>1, ReceiptRows, PolicyKeepsScan
    <3>3. PICK e \in Catalogs :
              /\ OnlyScanned(e) /\ r.digest.id \in SnapshotIds
              /\ IsComplete(tables[e], r.digest.id)
              /\ r.digest = Digest(tables[e], r.digest.id)
      BY <1>3, <3>1 DEF ImportTraced, Traced, OfOriginal
    <3>4. /\ Original(tables[e], r.digest.id)
          /\ tables[e].rows[r.digest.id].scan = row.scan
      BY <3>2, <3>3 DEF TraceInv, Original, Digest
    <3>5. e = c
      BY <1>14, <3>3, <3>4 DEF TraceInv
    <3>6. r.digest.id = s
      BY <1>14, <3>3, <3>4, <3>5 DEF TraceInv, Traced, Original
    <3>7. r.digest = digest
      BY <1>14, <3>3, <3>5, <3>6
    <3>8. QED
      BY <1>1, <3>1, <3>7 DEF ReceiptsOf
  <2>3. QED
    BY <2>1, <2>2
<1>17. \A dg : OfOriginal(dg) => OfOriginal(dg)'
  BY <1>1 DEF OfOriginal
<1>18. Traced(merge.work)'
  <2>1. ASSUME NEW i \in SnapshotIds, NEW k \in SnapshotIds,
               IsComplete(u, i), IsComplete(u, k), u.rows[i].scan = u.rows[k].scan
        PROVE  i = k
    BY <1>3, <1>5, <1>12, <1>16, <2>1 DEF ImportTraced, Traced, IsComplete
  <2>2. \A i \in SnapshotIds : IsComplete(u, i) => Ended(u.rows[i].scan)
    BY <1>3, <1>5, <1>12, <1>14 DEF ImportTraced, Traced, IsComplete
  <2>3. \A r \in u.receipts : OfOriginal(r.digest)'
    BY <1>3, <1>9, <1>10, <1>15, <1>17 DEF ImportTraced, Traced
  <2>4. QED
    BY <1>1, <1>11, <2>1, <2>2, <2>3 DEF Traced, Ended, Over, IsComplete
<1>19. \A i \in SnapshotIds : Original(u, i) =>
           Original(t, i) /\ u.rows[i].scan = t.rows[i].scan
  BY <1>9, <1>10, <1>12 DEF Original, IsComplete
<1>20. ImportTraced(merge)'
  <2>1. \A i \in SnapshotIds : Original(u, i) =>
            /\ Original(tables[merge.into], i)
            /\ tables[merge.into].rows[i].scan = u.rows[i].scan
    BY <1>3, <1>19 DEF ImportTraced
  <2>2. QED
    BY <1>1, <1>3, <1>11, <1>18, <2>1 DEF ImportTraced, Original, IsComplete
<1>21. QED
  BY <1>1, <1>17, <1>20 DEF TraceInv, Traced, Original, Ended, Over, IsComplete

LEMMA CommitTraced ==
    ASSUME MergeInv, TraceInv, Commit
    PROVE  TraceInv'
<1>1. /\ merge.phase # "idle" /\ merge.into \in Catalogs
      /\ tables' = [tables EXCEPT ![merge.into] = merge.work]
      /\ merge' = NoMerge /\ UNCHANGED <<writers, scans>> /\ merge'.phase = "idle"
  BY Running DEF Commit, Import, NoMerge
<1>2. ImportTraced(merge)
  BY <1>1 DEF TraceInv
<1> DEFINE c == merge.into
           u == merge.work
<1>3. \A e \in Catalogs : tables'[e] = IF e = c THEN u ELSE tables[e]
  BY <1>1 DEF MergeInv
<1>4. ~OnlyScanned(c)
  BY <1>2 DEF ImportTraced
<1> HIDE DEF c, u
<1>5. ASSUME NEW e \in Catalogs, OnlyScanned(e) PROVE tables'[e] = tables[e]
  BY <1>3, <1>4, <1>5
<1>6. ASSUME NEW digest, OfOriginal(digest) PROVE OfOriginal(digest)'
  BY <1>5, <1>6 DEF OfOriginal, Digest, IsComplete
<1>7. ASSUME NEW e \in Catalogs PROVE Traced(tables[e])'
  <2>1. Traced(tables'[e])
    BY <1>2, <1>3 DEF ImportTraced, TraceInv, c, u
  <2>2. QED
    BY <1>1, <1>6, <2>1 DEF Traced, Ended, Over, IsComplete
<1>8. ASSUME NEW e \in Catalogs, NEW i \in SnapshotIds, Original(tables'[e], i)
      PROVE  Original(tables[e], i) /\ tables'[e].rows[i].scan = tables[e].rows[i].scan
  BY <1>2, <1>3, <1>8 DEF ImportTraced, c, u
<1>9. QED
  BY <1>1, <1>5, <1>7, <1>8 DEF TraceInv, Original, IsComplete

LEMMA NextTraceInv ==
    ASSUME NoChains, MergeInv, WritersInv, TraceInv, [Next]_vars
    PROVE  TraceInv'
<1>1. ASSUME NEW u, SameScans(merge.work, u), merge.phase # "idle",
             UNCHANGED <<tables, writers, scans>>, merge'.into = merge.into,
             merge'.source = merge.source, merge'.work = u
      PROVE  TraceInv'
  BY <1>1, NothingInserted
<1>2. ASSUME NEW t PROVE SameScans(t, t)
  BY DEF SameScans
<1>3. CASE EnsureDrive
  <2>1. /\ merge.phase # "idle" /\ UNCHANGED <<tables, writers, scans>>
        /\ \E u, name :
               /\ merge' = [merge EXCEPT !.phase = "snapshots", !.work = u, !.done = 0]
               /\ u = merge.work \/ u = [merge.work EXCEPT !.name[merge.drive] = name]
    BY <1>3 DEF EnsureDrive, AtDrive
  <2>2. PICK u, name :
            /\ merge' = [merge EXCEPT !.phase = "snapshots", !.work = u, !.done = 0]
            /\ u = merge.work \/ u = [merge.work EXCEPT !.name[merge.drive] = name]
    BY <2>1
  <2>3. merge \in Import /\ merge.work \in Tables
    BY <2>1, Running DEF Import
  <2>4. u.rows = merge.work.rows /\ u.receipts = merge.work.receipts
    BY <2>2, <2>3 DEF Tables
  <2>5. SameScans(merge.work, u)
    BY <2>4 DEF SameScans, IsComplete
  <2>6. merge'.into = merge.into /\ merge'.source = merge.source /\ merge'.work = u
    BY <2>2, <2>3 DEF Import
  <2>7. QED
    BY <1>1, <2>1, <2>5, <2>6
<1>4. CASE NextDrive \/ \E s \in SnapshotIds : SkipIncomplete(s) \/ SkipImported(s)
  <2>1. /\ merge.phase # "idle" /\ UNCHANGED <<tables, writers, scans>>
        /\ \/ \E x, p : merge' = [merge EXCEPT !.drive = x, !.phase = p]
           \/ \E x : merge' = [merge EXCEPT !.done = x]
    BY <1>4 DEF NextDrive, SkipIncomplete, SkipImported, AtSnapshot
  <2>2. merge \in Import
    BY <2>1, Running
  <2>3. merge'.into = merge.into /\ merge'.source = merge.source
        /\ merge'.work = merge.work
    BY <2>1, <2>2 DEF Import
  <2>4. QED
    BY <1>1, <1>2, <2>1, <2>3
<1>5. CASE Rollback \/ Tick \/ UNCHANGED vars
  <2>1. /\ UNCHANGED <<tables, writers, scans>>
        /\ merge' = merge \/ merge'.phase = "idle"
    BY <1>5 DEF Rollback, Tick, vars, NoMerge
  <2>2. \A digest : OfOriginal(digest) => OfOriginal(digest)'
    BY <2>1 DEF OfOriginal
  <2>3. \A t : Traced(t) => /\ \A r \in t.receipts : OfOriginal(r.digest)'
                            /\ \A i \in SnapshotIds :
                                   IsComplete(t, i) => Ended(t.rows[i].scan)'
    BY <2>1, <2>2 DEF Traced, Ended
  <2>4. \A e \in Catalogs : Traced(tables[e])'
    BY <2>1, <2>3 DEF TraceInv, Traced, IsComplete
  <2>5. merge'.phase # "idle" => ImportTraced(merge)'
    BY <2>1, <2>3 DEF TraceInv, ImportTraced, Traced, Original, IsComplete
  <2>6. QED
    BY <2>1, <2>4, <2>5 DEF TraceInv, Original, IsComplete
<1>6. QED
  BY <1>3, <1>4, <1>5, ScanTraced, BeginTraced, UpdateTraced, ImportTracedRow,
     CommitTraced
  DEF Next, ImportStep

\* While nothing is imported into a catalog that is imported from, no catalog
\* ever holds one scan twice, for any number of catalogs, drives and imports,
\* whatever policies those asked for (ImportCatalog's receipts).
THEOREM ScansArriveOnce ==
    ASSUME NoChains
    PROVE  Spec => []NoScanTwice
<1>1. Init => TraceInv
  <2> SUFFICES ASSUME Init PROVE TraceInv
    OBVIOUS
  <2>1. \A c \in Catalogs : tables[c] = EmptyTables /\ merge.phase = "idle"
    BY DEF Init, NoMerge
  <2>2. EmptyTables.receipts = {} /\ \A i \in SnapshotIds : ~IsComplete(EmptyTables, i)
    BY DEF EmptyTables, IsComplete, NoRow
  <2>3. merge.phase = "idle"
    BY DEF Init, NoMerge
  <2>4. QED
    BY <2>1, <2>2, <2>3 DEF TraceInv, Traced, Original
<1>2. MergeInv /\ WritersInv /\ TraceInv /\ [Next]_vars => TraceInv'
  BY NextTraceInv
<1>3. MergeInv /\ TraceInv => NoScanTwice
  <2> SUFFICES ASSUME MergeInv, TraceInv PROVE NoScanTwice
    OBVIOUS
  <2>1. \A c \in Catalogs : 1 .. tables[c].lastId \subseteq SnapshotIds /\ Traced(tables[c])
    BY IdsInRange DEF MergeInv, TraceInv
  <2>2. QED
    BY <2>1 DEF NoScanTwice, Traced
<1>4. QED
  BY <1>1, <1>2, <1>3, Invariance, PTL DEF Spec
=============================================================================
