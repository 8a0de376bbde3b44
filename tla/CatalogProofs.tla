--------------------------- MODULE CatalogProofs ---------------------------
(***************************************************************************)
(* Theorems about Catalog for every number of drives, writers, processes,  *)
(* paths and snapshots, and every length of the clock.                     *)
(***************************************************************************)
EXTENDS Catalog, FiniteSetTheorems, TLAPS

-----------------------------------------------------------------------------
(* Counting staged rows.                                                   *)

\* What one more staged path does to the two totals a writer keeps.
LEMMA CountAdded ==
    ASSUME NEW tree \in SUBSET Paths, NEW p \in Paths, p \notin tree
    PROVE  /\ Cardinality(FilesIn(tree \cup {p}))
                = IF Kind[p] = "file" THEN Cardinality(FilesIn(tree)) + 1
                                      ELSE Cardinality(FilesIn(tree))
           /\ Cardinality(DirectoriesIn(tree \cup {p}))
                = IF Kind[p] = "directory"
                    THEN Cardinality(DirectoriesIn(tree)) + 1
                    ELSE Cardinality(DirectoriesIn(tree))
<1>1. IsFiniteSet(tree)
  BY PathsAssumption, FS_Subset
<1>2. IsFiniteSet(FilesIn(tree)) /\ IsFiniteSet(DirectoriesIn(tree))
  BY <1>1, FS_Subset DEF FilesIn, DirectoriesIn
<1>3. FilesIn(tree \cup {p}) = IF Kind[p] = "file" THEN FilesIn(tree) \cup {p}
                                                   ELSE FilesIn(tree)
  BY DEF FilesIn
<1>4. DirectoriesIn(tree \cup {p})
        = IF Kind[p] = "directory" THEN DirectoriesIn(tree) \cup {p}
                                   ELSE DirectoriesIn(tree)
  BY DEF DirectoriesIn
<1>5. p \notin FilesIn(tree) /\ p \notin DirectoriesIn(tree)
  BY DEF FilesIn, DirectoriesIn
<1>6. QED
  BY <1>2, <1>3, <1>4, <1>5, FS_AddElement

\* An empty tree has no files and no directories.
LEMMA CountEmpty ==
    Cardinality(FilesIn({})) = 0 /\ Cardinality(DirectoriesIn({})) = 0
<1>1. FilesIn({}) = {} /\ DirectoriesIn({}) = {}
  BY DEF FilesIn, DirectoriesIn
<1>2. QED
  BY <1>1, FS_EmptySet

-----------------------------------------------------------------------------
(* The inductive invariant.                                                *)

LEMMA InitIInv == Init => IInv
<1> SUFFICES ASSUME Init PROVE IInv
  OBVIOUS
<1>1. TypeOK
  BY BoundsAssumption
  DEF Init, TypeOK, Row, Writer, NoRow, Idle, Calls, Scanning, InTransaction,
      Ticks, NoTick, NoSnapshot, SnapshotIds
<1>2. LatestIsComplete /\ NoPartialTree /\ CountsMatchEntries
  BY DEF Init, LatestIsComplete, NoPartialTree, CountsMatchEntries, IsComplete,
         NoRow
<1>3. RowsNumbered /\ WriterHasRow /\ RowsNotShared
  BY DEF Init, RowsNumbered, WriterHasRow, RowsNotShared, Busy, NoRow, Idle,
         SnapshotIds
<1>4. LockHeldInTransaction /\ CountsMatchStaged
  BY SentinelAssumption
  DEF Init, LockHeldInTransaction, CountsMatchStaged, Idle, Scanning,
      InTransaction
<1>5. QED
  BY <1>1, <1>2, <1>3, <1>4 DEF IInv

-----------------------------------------------------------------------------
(* What the three ways to update one writer do to its fields.              *)

OthersUnchanged(w) == \A v \in Writers \ {w} : writers'[v] = writers[v]

\* The fields of writer w that no step of its own calls but Add changes.
ScanUnchanged(w) ==
    /\ writers'[w].snapshot = writers[w].snapshot
    /\ writers'[w].drive = writers[w].drive
    /\ writers'[w].staged = writers[w].staged
    /\ writers'[w].fileCount = writers[w].fileCount
    /\ writers'[w].directoryCount = writers[w].directoryCount

TablesUnchanged == UNCHANGED <<clock, drives, latest, lastId, snapshots, entries>>

\* Goto moves one writer to another call and does nothing else.
LEMMA GotoEffect ==
    ASSUME TypeOK, NEW w \in Writers, NEW c \in Calls, Goto(w, c)
    PROVE  /\ writers' \in [Writers -> Writer]
           /\ OthersUnchanged(w) /\ ScanUnchanged(w)
           /\ writers'[w].call = c
<1>1. writers[w] \in Writer
  BY DEF TypeOK
<1>2. [writers[w] EXCEPT !.call = c] \in Writer
  BY <1>1 DEF Writer
<1>3. writers' = [writers EXCEPT ![w] = [writers[w] EXCEPT !.call = c]]
  BY DEF Goto
<1>4. writers' \in [Writers -> Writer]
  BY <1>2, <1>3 DEF TypeOK
<1>5. OthersUnchanged(w) /\ writers'[w] = [writers[w] EXCEPT !.call = c]
  BY <1>3 DEF TypeOK, OthersUnchanged
<1>6. QED
  BY <1>1, <1>4, <1>5 DEF Writer, ScanUnchanged

\* Return also records the answer the caller gets.
LEMMA ReturnEffect ==
    ASSUME TypeOK, NEW w \in Writers, NEW result \in {"complete", "error"},
           Return(w, result)
    PROVE  /\ writers' \in [Writers -> Writer]
           /\ OthersUnchanged(w) /\ ScanUnchanged(w)
           /\ writers'[w].call = "returned"
<1> DEFINE new == [writers[w] EXCEPT !.call = "returned", !.outcome = result]
<1>1. writers[w] \in Writer
  BY DEF TypeOK
<1>2. new \in Writer
  BY <1>1 DEF Writer, Calls
<1>3. writers' = [writers EXCEPT ![w] = new]
  BY <1>1 DEF Return, TypeOK, Writer
<1>4. writers' \in [Writers -> Writer]
  BY <1>2, <1>3 DEF TypeOK
<1>5. OthersUnchanged(w) /\ writers'[w] = new
  BY <1>3 DEF TypeOK, OthersUnchanged
<1>6. QED
  BY <1>1, <1>4, <1>5 DEF Writer, ScanUnchanged

\* The end of a transaction, by COMMIT or ROLLBACK, empties what was staged.
LEMMA UnstageEffect ==
    ASSUME TypeOK, NEW w \in Writers, NEW c \in Calls,
           writers' = [writers EXCEPT ![w].call = c, ![w].staged = {}]
    PROVE  /\ writers' \in [Writers -> Writer]
           /\ OthersUnchanged(w)
           /\ writers'[w].snapshot = writers[w].snapshot
           /\ writers'[w].drive = writers[w].drive
           /\ writers'[w].staged = {}
           /\ writers'[w].call = c
<1> DEFINE new == [writers[w] EXCEPT !.call = c, !.staged = {}]
<1>1. writers[w] \in Writer
  BY DEF TypeOK
<1>2. new \in Writer
  BY <1>1 DEF Writer
<1>3. writers' = [writers EXCEPT ![w] = new]
  BY <1>1 DEF TypeOK, Writer
<1>4. writers' \in [Writers -> Writer]
  BY <1>2, <1>3 DEF TypeOK
<1>5. OthersUnchanged(w) /\ writers'[w] = new
  BY <1>3 DEF TypeOK, OthersUnchanged
<1>6. QED
  BY <1>1, <1>4, <1>5 DEF Writer

-----------------------------------------------------------------------------
(* Steps of one writer that no other can see but through the lock.         *)

\* A writer may move on without touching the tables as long as it holds the
\* lock where it must and only there, and passes for committed only if it is.
LEMMA PrivateStepIInv ==
    ASSUME IInv, NEW w \in Writers, TablesUnchanged,
           writers' \in [Writers -> Writer],
           OthersUnchanged(w), ScanUnchanged(w),
           Busy(w)' => Busy(w),
           Busy(w)' => (At(w, "reading") <=> writers'[w].call = "reading"),
           writers'[w].call \in Scanning => writers[w].call \in Scanning,
           lock' = lock \/ (lock' = w /\ MayWrite(w)),
           lock' = w => writers'[w].call \in InTransaction,
           writers'[w].call \in {"pointing", "committing"} => lock' = w
    PROVE  IInv'
<1>1. TypeOK'
  BY DEF IInv, TypeOK, TablesUnchanged
<1>2. LatestIsComplete' /\ NoPartialTree' /\ CountsMatchEntries'
  BY DEF IInv, TablesUnchanged, LatestIsComplete, NoPartialTree,
         CountsMatchEntries, IsComplete, FilesIn, DirectoriesIn
<1>3. RowsNumbered'
  BY DEF IInv, TablesUnchanged, RowsNumbered
<1>4. WriterHasRow'
  BY DEF IInv, TablesUnchanged, OthersUnchanged, ScanUnchanged, WriterHasRow,
         Busy, At, IsComplete
<1>5. RowsNotShared'
  BY DEF IInv, OthersUnchanged, ScanUnchanged, RowsNotShared, Busy
<1>6. LockHeldInTransaction'
  BY SentinelAssumption
  DEF IInv, OthersUnchanged, ScanUnchanged, LockHeldInTransaction, MayWrite
<1>7. CountsMatchStaged'
  BY DEF IInv, OthersUnchanged, ScanUnchanged, CountsMatchStaged, FilesIn,
         DirectoriesIn
<1>8. QED
  BY <1>1, <1>2, <1>3, <1>4, <1>5, <1>6, <1>7 DEF IInv

\* The calls that only move on: BeginTx and its failure, what makes a caller
\* call Fail, and the steps of Complete inside its transaction.
LEMMA MoveOnIInv ==
    ASSUME IInv, NEW w \in Writers,
           \/ BeginTx(w) \/ BeginTxFails(w)
           \/ \E p \in Paths : AddDuplicate(w, p)
           \/ AddBusy(w) \/ SourceFails(w)
           \/ Finalize(w) \/ PointDrive(w) \/ CompleteFails(w)
    PROVE  IInv'
<1>1. CASE BeginTx(w)
  <2>1. /\ TablesUnchanged /\ lock' = lock /\ lock # w
        /\ Goto(w, "open") /\ At(w, "starting")
    BY <1>1 DEF IInv, BeginTx, At, LockHeldInTransaction, InTransaction,
                TablesUnchanged
  <2>2. QED
    BY <2>1, GotoEffect, PrivateStepIInv
    DEF IInv, Busy, At, Calls, Scanning, InTransaction
<1>2. CASE BeginTxFails(w)
  <2>1. /\ TablesUnchanged /\ lock' = lock /\ lock # w
        /\ Goto(w, "marking") /\ At(w, "starting")
    BY <1>2 DEF IInv, BeginTxFails, At, LockHeldInTransaction, InTransaction,
                TablesUnchanged
  <2>2. QED
    BY <2>1, GotoEffect, PrivateStepIInv
    DEF IInv, Busy, At, Calls, Scanning, InTransaction
<1>3. CASE (\E p \in Paths : AddDuplicate(w, p)) \/ AddBusy(w) \/ SourceFails(w)
  <2>1. /\ TablesUnchanged /\ lock' = lock
        /\ Goto(w, "failing") /\ At(w, "open")
    BY <1>3 DEF AddDuplicate, AddBusy, SourceFails, TablesUnchanged
  <2>2. QED
    BY <2>1, GotoEffect, PrivateStepIInv
    DEF IInv, Busy, At, Calls, Scanning, InTransaction
<1>4. CASE Finalize(w)
  <2>1. /\ TablesUnchanged /\ lock' = w /\ MayWrite(w)
        /\ Goto(w, "pointing") /\ At(w, "finalizing")
    BY <1>4 DEF Finalize, TablesUnchanged
  <2>2. QED
    BY <2>1, GotoEffect, PrivateStepIInv
    DEF IInv, Busy, At, Calls, Scanning, InTransaction
<1>5. CASE PointDrive(w)
  <2>1. /\ TablesUnchanged /\ lock' = lock /\ lock = w
        /\ Goto(w, "committing") /\ At(w, "pointing")
    BY <1>5 DEF IInv, PointDrive, At, LockHeldInTransaction, TablesUnchanged
  <2>2. QED
    BY <2>1, GotoEffect, PrivateStepIInv
    DEF IInv, Busy, At, Calls, Scanning, InTransaction
<1>6. CASE CompleteFails(w)
  <2>1. /\ TablesUnchanged /\ lock' = lock
        /\ Goto(w, "failing") /\ writers[w].call \in {"finalizing", "pointing"}
    BY <1>6 DEF CompleteFails, TablesUnchanged
  <2>2. QED
    BY <2>1, GotoEffect, PrivateStepIInv
    DEF IInv, Busy, At, Calls, Scanning, InTransaction
<1>7. QED
  BY <1>1, <1>2, <1>3, <1>4, <1>5, <1>6

\* The answers to a caller that leave the tables alone: of a StartSnapshot
\* that timed out, of Complete, and of Fail when its UPDATE timed out.
LEMMA AnswerIInv ==
    ASSUME IInv, NEW w \in Writers,
           \/ \E d \in Drives : StartBusy(w, d)
           \/ ReadBack(w) \/ ReadBackFails(w) \/ MarkBusy(w)
    PROVE  IInv'
<1>1. PICK result \in {"complete", "error"} : Return(w, result)
  BY DEF StartBusy, ReadBack, ReadBackFails, MarkBusy
<1>2. TablesUnchanged /\ lock' = lock /\ lock # w
  BY DEF IInv, StartBusy, ReadBack, ReadBackFails, MarkBusy, At,
         LockHeldInTransaction, InTransaction, TablesUnchanged
<1>3. QED
  BY <1>1, <1>2, ReturnEffect, PrivateStepIInv
  DEF IInv, Busy, Scanning, InTransaction

LEMMA CompleteIInv ==
    ASSUME IInv, NEW w \in Writers, Complete(w)
    PROVE  IInv'
<1> DEFINE new == [writers[w] EXCEPT !.call = "finalizing", !.now = clock]
<1>1. writers[w] \in Writer /\ clock \in Ticks
  BY DEF IInv, TypeOK
<1>2. new \in Writer
  BY <1>1 DEF Writer, Calls, Scanning, InTransaction
<1>3. writers' = [writers EXCEPT ![w] = new]
  BY <1>1 DEF IInv, TypeOK, Writer, Complete, StampedNow
<1>4. writers' \in [Writers -> Writer] /\ OthersUnchanged(w) /\ writers'[w] = new
  BY <1>2, <1>3 DEF IInv, TypeOK, OthersUnchanged
<1>5. ScanUnchanged(w) /\ writers'[w].call = "finalizing"
  BY <1>1, <1>4 DEF Writer, ScanUnchanged
<1>6. TablesUnchanged /\ lock' = lock /\ At(w, "open")
  BY DEF Complete, TablesUnchanged
<1>7. QED
  BY <1>4, <1>5, <1>6, PrivateStepIInv
  DEF Busy, At, Scanning, InTransaction

LEMMA AddErrorIInv ==
    ASSUME IInv, NEW w \in Writers, AddError(w)
    PROVE  IInv'
<1> DEFINE new == [writers[w] EXCEPT !.errorCount = writers[w].errorCount + 1]
<1>1. writers[w] \in Writer
  BY DEF IInv, TypeOK
<1>2. new \in Writer
  <2>1. writers[w].errorCount + 1 \in 0 .. MaxErrors
    BY <1>1, BoundsAssumption DEF Writer, AddError
  <2>2. QED
    BY <1>1, <2>1 DEF Writer
<1>3. writers' = [writers EXCEPT ![w] = new]
  BY DEF AddError
<1>4. writers' \in [Writers -> Writer] /\ OthersUnchanged(w) /\ writers'[w] = new
  BY <1>2, <1>3 DEF IInv, TypeOK, OthersUnchanged
<1>5. ScanUnchanged(w) /\ writers'[w].call = writers[w].call
  BY <1>1, <1>4 DEF Writer, ScanUnchanged
<1>6. TablesUnchanged /\ lock' = lock /\ At(w, "open")
  BY DEF AddError, TablesUnchanged
<1>7. QED
  BY <1>4, <1>5, <1>6, PrivateStepIInv
  DEF Busy, At, Scanning, InTransaction

-----------------------------------------------------------------------------
(* Staging rows, and the end of a transaction.                             *)

LEMMA AddIInv ==
    ASSUME IInv, NEW w \in Writers, NEW p \in Paths, Add(w, p)
    PROVE  IInv'
<1> DEFINE files == IF Kind[p] = "file" THEN writers[w].fileCount + 1
                                        ELSE writers[w].fileCount
           folders == IF Kind[p] = "directory"
                        THEN writers[w].directoryCount + 1
                        ELSE writers[w].directoryCount
           new == [writers[w] EXCEPT !.staged = writers[w].staged \cup {p},
                                     !.fileCount = files,
                                     !.directoryCount = folders]
<1>1. /\ writers[w] \in Writer /\ writers[w].staged \in SUBSET Paths
      /\ writers[w].call = "open" /\ p \notin writers[w].staged
  BY DEF IInv, TypeOK, Writer, Add, At
<1>2. writers[w].staged \cup {p} \in SUBSET Paths /\ files \in Nat /\ folders \in Nat
  BY <1>1 DEF Writer
<1>3. new \in Writer
  BY <1>1, <1>2 DEF Writer
<1>4. writers' = [writers EXCEPT ![w] = new]
  BY <1>1 DEF IInv, TypeOK, Writer, Add, Stage
<1>5. writers' \in [Writers -> Writer] /\ OthersUnchanged(w) /\ writers'[w] = new
  BY <1>3, <1>4 DEF IInv, TypeOK, OthersUnchanged
<1>6. /\ writers'[w].call = "open"
      /\ writers'[w].snapshot = writers[w].snapshot
      /\ writers'[w].drive = writers[w].drive
      /\ writers'[w].staged = writers[w].staged \cup {p}
      /\ writers'[w].fileCount = files
      /\ writers'[w].directoryCount = folders
  BY <1>1, <1>5 DEF Writer
<1>7. TablesUnchanged /\ lock' = w /\ MayWrite(w)
  BY DEF Add, TablesUnchanged
<1> HIDE DEF new
<1>8. TypeOK'
  BY <1>5, <1>7 DEF IInv, TypeOK, TablesUnchanged
<1>9. LatestIsComplete' /\ NoPartialTree' /\ CountsMatchEntries'
  BY <1>7 DEF IInv, TablesUnchanged, LatestIsComplete, NoPartialTree,
              CountsMatchEntries, IsComplete, FilesIn, DirectoriesIn
<1>10. RowsNumbered' /\ WriterHasRow' /\ RowsNotShared'
  BY <1>1, <1>5, <1>6, <1>7
  DEF IInv, TablesUnchanged, OthersUnchanged, RowsNumbered, WriterHasRow,
      RowsNotShared, Busy, At, IsComplete
<1>11. LockHeldInTransaction'
  BY <1>1, <1>5, <1>6, <1>7, SentinelAssumption
  DEF IInv, OthersUnchanged, LockHeldInTransaction, MayWrite, InTransaction
<1>12. CountsMatchStaged'
  <2>1. \A v \in Writers \ {w} :
           FilesIn(writers'[v].staged) = FilesIn(writers[v].staged)
           /\ DirectoriesIn(writers'[v].staged) = DirectoriesIn(writers[v].staged)
    BY <1>5 DEF OthersUnchanged
  <2>2. /\ writers[w].fileCount = Cardinality(FilesIn(writers[w].staged))
        /\ writers[w].directoryCount
             = Cardinality(DirectoriesIn(writers[w].staged))
    BY <1>1 DEF IInv, CountsMatchStaged, Scanning, InTransaction
  <2>3. /\ files = Cardinality(FilesIn(writers'[w].staged))
        /\ folders = Cardinality(DirectoriesIn(writers'[w].staged))
    BY <1>1, <1>6, <2>2, CountAdded
  <2>4. \A v \in Writers : writers'[v].call \in Scanning =>
          /\ writers'[v].fileCount = Cardinality(FilesIn(writers'[v].staged))
          /\ writers'[v].directoryCount
               = Cardinality(DirectoriesIn(writers'[v].staged))
    BY <1>5, <1>6, <2>3 DEF IInv, OthersUnchanged, CountsMatchStaged
  <2>5. QED
    BY <2>4 DEF CountsMatchStaged, FilesIn, DirectoriesIn
<1>13. QED
  BY <1>8, <1>9, <1>10, <1>11, <1>12 DEF IInv

\* ROLLBACK, asked for or forced by a failed COMMIT.
LEMMA EndTransactionIInv ==
    ASSUME IInv, NEW w \in Writers, Rollback(w) \/ CommitFails(w)
    PROVE  IInv'
<1>1. /\ TablesUnchanged /\ EndTransaction(w)
      /\ writers[w].call \in {"failing", "committing"}
      /\ lock' = IF lock = w THEN NoWriter ELSE lock
  BY SentinelAssumption
  DEF IInv, LockHeldInTransaction, Rollback, CommitFails, ReleasedLock, At,
      TablesUnchanged
<1>2. /\ writers' \in [Writers -> Writer] /\ OthersUnchanged(w)
      /\ writers'[w].snapshot = writers[w].snapshot
      /\ writers'[w].drive = writers[w].drive
      /\ writers'[w].staged = {} /\ writers'[w].call = "marking"
  BY <1>1, UnstageEffect DEF IInv, EndTransaction, Calls
<1>3. TypeOK'
  BY <1>1, <1>2 DEF IInv, TypeOK, TablesUnchanged
<1>4. LatestIsComplete' /\ NoPartialTree' /\ CountsMatchEntries'
  BY <1>1 DEF IInv, TablesUnchanged, LatestIsComplete, NoPartialTree,
              CountsMatchEntries, IsComplete, FilesIn, DirectoriesIn
<1>5. RowsNumbered' /\ WriterHasRow' /\ RowsNotShared'
  BY <1>1, <1>2
  DEF IInv, TablesUnchanged, OthersUnchanged, RowsNumbered, WriterHasRow,
      RowsNotShared, Busy, At, IsComplete
<1>6. LockHeldInTransaction'
  BY <1>1, <1>2, SentinelAssumption
  DEF IInv, OthersUnchanged, LockHeldInTransaction
<1>7. CountsMatchStaged'
  BY <1>2 DEF IInv, OthersUnchanged, CountsMatchStaged, Scanning, InTransaction,
              FilesIn, DirectoriesIn
<1>8. QED
  BY <1>3, <1>4, <1>5, <1>6, <1>7 DEF IInv

-----------------------------------------------------------------------------
(* Steps that write to the tables.                                         *)

\* COMMIT: the row of the writer becomes complete, gets the staged tree and
\* is the view of its drive, all in one step.
LEMMA CommitIInv ==
    ASSUME IInv, NEW w \in Writers, Commit(w)
    PROVE  IInv'
<1> DEFINE s == writers[w].snapshot
           d == writers[w].drive
<1>1. /\ writers[w] \in Writer /\ writers[w].call = "committing"
      /\ lock = w /\ lock' = NoWriter
      /\ s \in SnapshotIds /\ s \in 1 .. lastId
      /\ snapshots[s] \in Row /\ ~IsComplete(s)
      /\ d = snapshots[s].drive /\ d \in Drives
      /\ snapshots[s].status # "absent"
  <2>1. /\ writers[w] \in Writer /\ writers[w].call = "committing"
        /\ lock = w /\ lock' = NoWriter
    BY DEF IInv, TypeOK, Commit, At, LockHeldInTransaction
  <2>2. s \in 1 .. lastId /\ d = snapshots[s].drive /\ ~IsComplete(s)
    BY <2>1 DEF IInv, WriterHasRow, Busy, At
  <2>3. s \in SnapshotIds /\ ~(lastId < s)
    BY <2>2, BoundsAssumption DEF IInv, TypeOK, SnapshotIds
  <2>4. snapshots[s] \in Row /\ snapshots[s].status # "absent" /\ d \in Drives
    BY <2>2, <2>3 DEF IInv, TypeOK, RowsNumbered
  <2>5. QED
    BY <2>1, <2>2, <2>3, <2>4
<1>2. /\ CompletedRow(w) \in Row
      /\ CompletedRow(w).status = "complete" /\ CompletedRow(w).drive = d
      /\ CompletedRow(w).fileCount = writers[w].fileCount
      /\ CompletedRow(w).directoryCount = writers[w].directoryCount
  BY <1>1 DEF CompletedRow, Row, Writer
<1>3. /\ snapshots' \in [SnapshotIds -> Row]
      /\ snapshots'[s] = CompletedRow(w)
      /\ \A t \in SnapshotIds \ {s} : snapshots'[t] = snapshots[t]
      /\ entries' \in [SnapshotIds -> SUBSET Paths]
      /\ entries'[s] = writers[w].staged
      /\ \A t \in SnapshotIds \ {s} : entries'[t] = entries[t]
  BY <1>1, <1>2 DEF IInv, TypeOK, Commit, Writer
<1>4. /\ latest' \in [Drives -> 0 .. MaxSnapshot]
      /\ latest'[d] = s
      /\ \A e \in Drives \ {d} : latest'[e] = latest[e]
  BY <1>1 DEF IInv, TypeOK, Commit, SnapshotIds, Writer
<1>5. /\ writers' \in [Writers -> Writer] /\ OthersUnchanged(w)
      /\ writers'[w].snapshot = s /\ writers'[w].drive = d
      /\ writers'[w].staged = {} /\ writers'[w].call = "reading"
  BY UnstageEffect DEF IInv, Commit, Calls
<1>6. UNCHANGED <<clock, drives, lastId>>
  BY DEF Commit
<1> HIDE DEF s, d
<1>7. TypeOK'
  BY <1>1, <1>3, <1>4, <1>5, <1>6 DEF IInv, TypeOK
<1>8. \A t \in SnapshotIds : IsComplete(t)' <=> (t = s \/ IsComplete(t))
  BY <1>2, <1>3 DEF IsComplete
<1>9. LatestIsComplete'
  <2>1. \A e \in Drives : latest'[e] # NoSnapshot =>
          /\ snapshots'[latest'[e]].status = "complete"
          /\ snapshots'[latest'[e]].drive = e
    <3>1. TAKE e \in Drives
    <3>2. CASE e = d
      BY <1>2, <1>3, <1>4, <3>2
    <3>3. CASE e # d
      <4>1. latest'[e] = latest[e]
        BY <1>4, <3>3
      <4>2. latest[e] # NoSnapshot =>
              /\ snapshots[latest[e]].status = "complete"
              /\ snapshots[latest[e]].drive = e
        BY DEF IInv, LatestIsComplete, IsComplete
      <4>3. latest[e] # NoSnapshot => latest[e] \in SnapshotIds
        BY BoundsAssumption DEF IInv, TypeOK, SnapshotIds, NoSnapshot
      <4>4. snapshots[s].status # "complete"
        BY <1>1 DEF IsComplete
      <4>5. QED
        BY <1>3, <4>1, <4>2, <4>3, <4>4
    <3>4. QED
      BY <3>2, <3>3
  <2>2. QED
    BY <2>1 DEF LatestIsComplete, IsComplete
<1>10. NoPartialTree'
  BY <1>3, <1>8 DEF IInv, NoPartialTree
<1>11. CountsMatchEntries'
  <2>1. /\ writers[w].fileCount = Cardinality(FilesIn(writers[w].staged))
        /\ writers[w].directoryCount
             = Cardinality(DirectoriesIn(writers[w].staged))
    BY <1>1 DEF IInv, CountsMatchStaged, Scanning, InTransaction
  <2>2. \A t \in SnapshotIds : IsComplete(t)' =>
          /\ snapshots'[t].fileCount = Cardinality(FilesIn(entries'[t]))
          /\ snapshots'[t].directoryCount
               = Cardinality(DirectoriesIn(entries'[t]))
    BY <1>2, <1>3, <1>8, <2>1 DEF IInv, CountsMatchEntries
  <2>3. QED
    BY <2>2 DEF CountsMatchEntries, FilesIn, DirectoriesIn
<1>12. RowsNumbered'
  BY <1>1, <1>2, <1>3, <1>6 DEF IInv, RowsNumbered
<1>13. WriterHasRow'
  <2>1. \A v \in Writers \ {w} : Busy(v) => writers[v].snapshot # s
    BY <1>1 DEF IInv, RowsNotShared, Busy, s
  <2>2. \A v \in Writers : Busy(v)' =>
          /\ writers'[v].snapshot \in 1 .. lastId
          /\ writers'[v].drive = snapshots'[writers'[v].snapshot].drive
          /\ (snapshots'[writers'[v].snapshot].status = "complete"
                <=> writers'[v].call = "reading")
    <3>1. TAKE v \in Writers
    <3>2. CASE v = w
      BY <1>1, <1>2, <1>3, <1>5, <3>2
    <3>3. CASE v # w
      <4>1. writers'[v] = writers[v]
        BY <1>5, <3>3 DEF OthersUnchanged
      <4>2. Busy(v) => /\ writers[v].snapshot \in 1 .. lastId
                       /\ writers[v].snapshot \in SnapshotIds \ {s}
        BY <2>1, <3>3, BoundsAssumption DEF IInv, TypeOK, WriterHasRow, SnapshotIds
      <4>3. Busy(v) => /\ writers[v].drive = snapshots[writers[v].snapshot].drive
                       /\ (snapshots[writers[v].snapshot].status = "complete"
                             <=> writers[v].call = "reading")
        BY DEF IInv, WriterHasRow, IsComplete, At
      <4>4. QED
        BY <1>3, <4>1, <4>2, <4>3 DEF Busy
    <3>4. QED
      BY <3>2, <3>3
  <2>3. QED
    BY <1>6, <2>2 DEF WriterHasRow, IsComplete, Busy, At
<1>14. RowsNotShared'
  BY <1>1, <1>5 DEF IInv, OthersUnchanged, RowsNotShared, Busy, s
<1>15. LockHeldInTransaction'
  BY <1>1, <1>5, SentinelAssumption DEF IInv, OthersUnchanged, LockHeldInTransaction
<1>16. CountsMatchStaged'
  BY <1>5 DEF IInv, OthersUnchanged, CountsMatchStaged, Scanning, InTransaction,
              FilesIn, DirectoriesIn
<1>17. QED
  BY <1>7, <1>9, <1>10, <1>11, <1>12, <1>13, <1>14, <1>15, <1>16 DEF IInv

\* Rows that are not complete may change their status among the others, and
\* their date, without disturbing anything.
LEMMA FailRowsIInv ==
    ASSUME IInv, NEW S \in SUBSET SnapshotIds,
           \A s \in S : snapshots[s].status \in {"scanning", "failed"},
           snapshots' = [s \in SnapshotIds |-> IF s \in S
                                                 THEN FailedRow(snapshots[s])
                                                 ELSE snapshots[s]],
           UNCHANGED <<clock, drives, latest, lastId, entries, lock, writers>>
    PROVE  IInv'
<1>1. \A s \in SnapshotIds :
        /\ snapshots[s] \in Row /\ snapshots'[s] \in Row
        /\ snapshots'[s].drive = snapshots[s].drive
        /\ snapshots'[s].fileCount = snapshots[s].fileCount
        /\ snapshots'[s].directoryCount = snapshots[s].directoryCount
        /\ snapshots'[s].status = IF s \in S THEN "failed" ELSE snapshots[s].status
  BY DEF IInv, TypeOK, Row, FailedRow
<1>2. \A s \in SnapshotIds : IsComplete(s)' <=> IsComplete(s)
  BY <1>1 DEF IsComplete
<1>3. TypeOK'
  BY <1>1 DEF IInv, TypeOK
<1>4. LatestIsComplete' /\ NoPartialTree'
  BY <1>1, <1>2 DEF IInv, TypeOK, LatestIsComplete, NoPartialTree, SnapshotIds,
                    NoSnapshot
<1>5. CountsMatchEntries'
  BY <1>1, <1>2 DEF IInv, CountsMatchEntries, FilesIn, DirectoriesIn
<1>6. RowsNumbered'
  BY <1>1 DEF IInv, RowsNumbered
<1>7. WriterHasRow'
  <2>1. \A w \in Writers : Busy(w) => writers[w].snapshot \in SnapshotIds
    BY BoundsAssumption DEF IInv, TypeOK, WriterHasRow, SnapshotIds
  <2>2. \A w \in Writers : Busy(w) =>
          /\ writers[w].snapshot \in 1 .. lastId
          /\ writers[w].drive = snapshots'[writers[w].snapshot].drive
          /\ (snapshots'[writers[w].snapshot].status = "complete"
                <=> writers[w].call = "reading")
    BY <1>1, <1>2, <2>1 DEF IInv, WriterHasRow, IsComplete, At
  <2>3. QED
    BY <2>2 DEF WriterHasRow, Busy, IsComplete, At
<1>8. RowsNotShared' /\ LockHeldInTransaction' /\ CountsMatchStaged'
  BY DEF IInv, RowsNotShared, LockHeldInTransaction, CountsMatchStaged, Busy,
         FilesIn, DirectoriesIn
<1>9. QED
  BY <1>3, <1>4, <1>5, <1>6, <1>7, <1>8 DEF IInv

\* The recovery in migrateCatalogTx.
LEMMA OpenIInv ==
    ASSUME IInv, Open
    PROVE  IInv'
<1> DEFINE S == {s \in SnapshotIds : Interrupted(s)}
<1>1. /\ \A s \in S : snapshots[s].status \in {"scanning", "failed"}
      /\ snapshots' = [s \in SnapshotIds |-> IF s \in S
                                               THEN FailedRow(snapshots[s])
                                               ELSE snapshots[s]]
      /\ UNCHANGED <<clock, drives, latest, lastId, entries, lock, writers>>
  BY DEF Open, Interrupted
<1>2. QED
  BY <1>1, FailRowsIInv

\* markSnapshotFailed, when its UPDATE gets through.
LEMMA MarkFailedIInv ==
    ASSUME IInv, NEW w \in Writers, MarkFailed(w)
    PROVE  IInv'
<1> DEFINE s == writers[w].snapshot
<1>1. writers[w].call = "marking" /\ s \in 1 .. lastId /\ ~IsComplete(s)
  BY DEF IInv, MarkFailed, At, WriterHasRow, Busy
<1>2. s \in SnapshotIds /\ ~(lastId < s)
  BY <1>1, BoundsAssumption DEF IInv, TypeOK, SnapshotIds
<1>3. snapshots[s] \in Row /\ snapshots[s].drive \in Drives
      /\ snapshots[s].status \in {"scanning", "failed"}
  BY <1>1, <1>2 DEF IInv, TypeOK, RowsNumbered, IsComplete, Row
<1>4. /\ writers' \in [Writers -> Writer]
      /\ OthersUnchanged(w) /\ ScanUnchanged(w)
      /\ writers'[w].call = "returned"
  BY ReturnEffect DEF IInv, MarkFailed
<1>5. /\ \A t \in SnapshotIds \ {s} : snapshots'[t] = snapshots[t]
      /\ snapshots'[s] = FailedRow(snapshots[s])
      /\ DOMAIN snapshots' = SnapshotIds
      /\ snapshots' = [t \in SnapshotIds |-> snapshots'[t]]
  BY <1>2 DEF IInv, TypeOK, MarkFailed
<1>6. \A t \in SnapshotIds :
        /\ snapshots'[t] \in Row
        /\ snapshots'[t].drive = snapshots[t].drive
        /\ snapshots'[t].fileCount = snapshots[t].fileCount
        /\ snapshots'[t].directoryCount = snapshots[t].directoryCount
        /\ snapshots'[t].status = IF t = s THEN "failed" ELSE snapshots[t].status
  <2>1. clock \in Ticks /\ \A t \in SnapshotIds : snapshots[t] \in Row
    BY DEF IInv, TypeOK
  <2>2. /\ FailedRow(snapshots[s]) \in Row
        /\ FailedRow(snapshots[s]).drive = snapshots[s].drive
        /\ FailedRow(snapshots[s]).fileCount = snapshots[s].fileCount
        /\ FailedRow(snapshots[s]).directoryCount = snapshots[s].directoryCount
        /\ FailedRow(snapshots[s]).status = "failed"
    BY <1>3, <2>1 DEF Row, FailedRow
  <2>3. QED
    BY <1>5, <2>1, <2>2
<1>7. /\ UNCHANGED <<clock, drives, latest, lastId, entries, lock>>
      /\ lock = NoWriter
  BY DEF MarkFailed
<1>8. \A t \in SnapshotIds : IsComplete(t)' <=> IsComplete(t)
  BY <1>3, <1>6 DEF IsComplete
<1> HIDE DEF s
<1>9. TypeOK'
  BY <1>4, <1>5, <1>6, <1>7 DEF IInv, TypeOK
<1>10. LatestIsComplete'
  <2>1. \A d \in Drives : latest[d] # NoSnapshot => latest[d] \in SnapshotIds
    BY BoundsAssumption DEF IInv, TypeOK, SnapshotIds, NoSnapshot
  <2>2. QED
    BY <1>6, <1>7, <1>8, <2>1 DEF IInv, LatestIsComplete
<1>11. NoPartialTree' /\ CountsMatchEntries'
  BY <1>6, <1>7, <1>8 DEF IInv, NoPartialTree, CountsMatchEntries, FilesIn,
                          DirectoriesIn
<1>12. RowsNumbered'
  BY <1>3, <1>6, <1>7 DEF IInv, RowsNumbered
<1>13. WriterHasRow'
  <2>1. \A v \in Writers : Busy(v)' => Busy(v) /\ writers'[v] = writers[v]
    BY <1>4 DEF OthersUnchanged, Busy
  <2>2. \A v \in Writers : Busy(v) => writers[v].snapshot \in SnapshotIds
    BY BoundsAssumption DEF IInv, TypeOK, WriterHasRow, SnapshotIds
  <2>3. \A v \in Writers : Busy(v) =>
          /\ writers[v].snapshot \in 1 .. lastId
          /\ writers[v].drive = snapshots'[writers[v].snapshot].drive
          /\ (snapshots'[writers[v].snapshot].status = "complete"
                <=> writers[v].call = "reading")
    BY <1>6, <1>8, <2>2 DEF IInv, WriterHasRow, IsComplete, At
  <2>4. QED
    BY <1>7, <2>1, <2>3 DEF WriterHasRow, IsComplete, At
<1>14. RowsNotShared'
  BY <1>4 DEF IInv, OthersUnchanged, RowsNotShared, Busy
<1>15. LockHeldInTransaction'
  BY <1>4, <1>7, SentinelAssumption
  DEF IInv, OthersUnchanged, ScanUnchanged, LockHeldInTransaction
<1>16. CountsMatchStaged'
  BY <1>4 DEF IInv, OthersUnchanged, CountsMatchStaged, Scanning, InTransaction,
              FilesIn, DirectoriesIn
<1>17. QED
  BY <1>9, <1>10, <1>11, <1>12, <1>13, <1>14, <1>15, <1>16 DEF IInv

LEMMA StartSnapshotIInv ==
    ASSUME IInv, NEW w \in Writers, NEW d \in Drives, StartSnapshot(w, d)
    PROVE  IInv'
<1> DEFINE s == lastId + 1
           new == [Idle EXCEPT !.call = "starting", !.snapshot = s, !.drive = d]
<1>1. /\ s \in SnapshotIds /\ lastId \in Nat /\ lastId < s /\ clock \in Ticks
      /\ s \in 0 .. MaxSnapshot /\ writers[w].call = "idle" /\ lock # w
      /\ lock' = lock /\ lastId' = s
      /\ UNCHANGED <<clock, drives, latest, entries>>
  BY BoundsAssumption, SentinelAssumption
  DEF IInv, TypeOK, StartSnapshot, SnapshotIds, At
<1>2. snapshots[s].status = "absent" /\ entries[s] = {}
  BY <1>1 DEF IInv, RowsNumbered, NoPartialTree, IsComplete
<1>3. /\ ScanningRow(d) \in Row
      /\ ScanningRow(d).status = "scanning" /\ ScanningRow(d).drive = d
  <2>1. NoRow \in Row
    BY BoundsAssumption DEF NoRow, Row, NoTick
  <2>2. QED
    BY <1>1, <2>1 DEF ScanningRow, Row
<1>4. /\ snapshots' \in [SnapshotIds -> Row]
      /\ snapshots'[s] = ScanningRow(d)
      /\ \A t \in SnapshotIds \ {s} : snapshots'[t] = snapshots[t]
  BY <1>1, <1>3 DEF IInv, TypeOK, StartSnapshot
<1>5. /\ new \in Writer
      /\ new.call = "starting" /\ new.snapshot = s /\ new.drive = d
      /\ new.staged = {} /\ new.fileCount = 0 /\ new.directoryCount = 0
  <2>1. Idle \in Writer /\ Idle.staged = {}
        /\ Idle.fileCount = 0 /\ Idle.directoryCount = 0
    BY BoundsAssumption DEF Idle, Writer, Calls, NoTick, NoSnapshot
  <2>2. QED
    BY <1>1, <2>1 DEF Writer, Calls, Scanning
<1>6. writers' \in [Writers -> Writer] /\ OthersUnchanged(w) /\ writers'[w] = new
  BY <1>5 DEF IInv, TypeOK, StartSnapshot, OthersUnchanged
<1>7. \A t \in SnapshotIds : IsComplete(t)' <=> IsComplete(t)
  BY <1>2, <1>3, <1>4 DEF IsComplete
<1> HIDE DEF s, new
<1>8. TypeOK'
  BY <1>1, <1>4, <1>6 DEF IInv, TypeOK
<1>9. LatestIsComplete'
  <2>1. \A e \in Drives : latest[e] # NoSnapshot =>
          /\ latest[e] \in SnapshotIds
          /\ snapshots[latest[e]].status = "complete"
          /\ snapshots[latest[e]].drive = e
    BY BoundsAssumption DEF IInv, TypeOK, LatestIsComplete, IsComplete,
                            SnapshotIds, NoSnapshot
  <2>2. \A e \in Drives : latest[e] # NoSnapshot => latest[e] # s
    BY <1>2, <2>1
  <2>3. QED
    BY <1>1, <1>4, <2>1, <2>2 DEF LatestIsComplete, IsComplete
<1>10. NoPartialTree'
  BY <1>1, <1>7 DEF IInv, NoPartialTree
<1>11. CountsMatchEntries'
  <2>1. \A t \in SnapshotIds : IsComplete(t) => snapshots'[t] = snapshots[t]
    BY <1>2, <1>4 DEF IsComplete
  <2>2. QED
    BY <1>1, <1>7, <2>1 DEF IInv, CountsMatchEntries, FilesIn, DirectoriesIn
<1>12. RowsNumbered'
  <2>1. \A t \in SnapshotIds : t # s => (lastId < t <=> s < t)
    BY <1>1 DEF s, SnapshotIds
  <2>2. \A t \in SnapshotIds :
          /\ snapshots'[t].status = "absent" <=> s < t
          /\ snapshots'[t].status # "absent" => snapshots'[t].drive \in Drives
    BY <1>1, <1>3, <1>4, <2>1 DEF IInv, RowsNumbered
  <2>3. QED
    BY <1>1, <2>2 DEF RowsNumbered
<1>13. WriterHasRow'
  <2> DEFINE HasRow(v) ==
               Busy(v)' =>
                 /\ writers'[v].snapshot \in 1 .. s
                 /\ writers'[v].drive = snapshots'[writers'[v].snapshot].drive
                 /\ (snapshots'[writers'[v].snapshot].status = "complete"
                       <=> writers'[v].call = "reading")
  <2>1. HasRow(w)
    <3>1. s \in 1 .. s
      BY <1>1 DEF s
    <3>2. QED
      BY <1>1, <1>3, <1>4, <1>5, <1>6, <3>1
  <2>2. ASSUME NEW v \in Writers, v # w PROVE HasRow(v)
    <3>1. writers'[v] = writers[v]
      BY <1>6, <2>2 DEF OthersUnchanged
    <3>2. Busy(v) => /\ writers[v].snapshot \in 1 .. s
                     /\ writers[v].snapshot \in SnapshotIds \ {s}
      BY <1>1, BoundsAssumption DEF IInv, TypeOK, WriterHasRow, SnapshotIds, s
    <3>3. Busy(v) => /\ writers[v].drive = snapshots[writers[v].snapshot].drive
                     /\ (snapshots[writers[v].snapshot].status = "complete"
                           <=> writers[v].call = "reading")
      BY DEF IInv, WriterHasRow, IsComplete, At
    <3>4. QED
      BY <1>4, <3>1, <3>2, <3>3 DEF Busy
  <2>3. \A v \in Writers : HasRow(v)
    BY <2>1, <2>2
  <2>4. QED
    BY <1>1, <2>3 DEF WriterHasRow, IsComplete, At
<1>14. RowsNotShared'
  <2>1. \A v \in Writers : Busy(v) => writers[v].snapshot # s
    BY <1>1 DEF IInv, WriterHasRow, s
  <2>2. QED
    BY <1>5, <1>6, <2>1 DEF IInv, OthersUnchanged, RowsNotShared, Busy
<1>15. LockHeldInTransaction'
  BY <1>1, <1>5, <1>6 DEF IInv, OthersUnchanged, LockHeldInTransaction
<1>16. CountsMatchStaged'
  BY <1>5, <1>6, CountEmpty DEF IInv, OthersUnchanged, CountsMatchStaged, FilesIn,
                            DirectoriesIn
<1>17. QED
  BY <1>8, <1>9, <1>10, <1>11, <1>12, <1>13, <1>14, <1>15, <1>16 DEF IInv

-----------------------------------------------------------------------------
(* The caller leaves, the process dies, time passes, a drive is created.   *)

\* Writers may be reset, in any number, as long as the lock goes with them.
LEMMA ResetIInv ==
    ASSUME IInv, NEW W \in SUBSET Writers, TablesUnchanged,
           writers' = [w \in Writers |-> IF w \in W THEN Idle ELSE writers[w]],
           lock' = IF lock \in W THEN NoWriter ELSE lock
    PROVE  IInv'
<1>1. /\ Idle \in Writer /\ Idle.staged = {} /\ Idle.call = "idle"
  BY BoundsAssumption DEF Idle, Writer, Calls, NoTick, NoSnapshot
<1>2. writers' \in [Writers -> Writer]
  BY <1>1 DEF IInv, TypeOK
<1>3. TypeOK'
  BY <1>2 DEF IInv, TypeOK, TablesUnchanged
<1>4. LatestIsComplete' /\ NoPartialTree' /\ CountsMatchEntries'
  BY DEF IInv, TablesUnchanged, LatestIsComplete, NoPartialTree,
         CountsMatchEntries, IsComplete, FilesIn, DirectoriesIn
<1>5. RowsNumbered' /\ WriterHasRow' /\ RowsNotShared'
  BY <1>1 DEF IInv, TablesUnchanged, RowsNumbered, WriterHasRow, RowsNotShared,
              Busy, At, IsComplete
<1>6. LockHeldInTransaction'
  BY <1>1, SentinelAssumption DEF IInv, TypeOK, LockHeldInTransaction
<1>7. CountsMatchStaged'
  BY <1>1 DEF IInv, CountsMatchStaged, FilesIn, DirectoriesIn, Scanning,
              InTransaction
<1>8. QED
  BY <1>3, <1>4, <1>5, <1>6, <1>7 DEF IInv

LEMMA LeaveIInv ==
    ASSUME IInv, NEW w \in Writers, Leave(w)
    PROVE  IInv'
<1>1. /\ TablesUnchanged /\ lock' = lock /\ lock # w
      /\ writers' = [v \in Writers |-> IF v \in {w} THEN Idle ELSE writers[v]]
  BY DEF IInv, TypeOK, Leave, At, LockHeldInTransaction, InTransaction,
         TablesUnchanged
<1>2. QED
  BY <1>1, ResetIInv

LEMMA CrashIInv ==
    ASSUME IInv, NEW p \in Processes, Crash(p)
    PROVE  IInv'
<1> DEFINE W == {w \in Writers : Host[w] = p}
<1>1. /\ TablesUnchanged
      /\ writers' = [w \in Writers |-> IF w \in W THEN Idle ELSE writers[w]]
      /\ lock' = IF lock \in W THEN NoWriter ELSE lock
  BY DEF Crash, TablesUnchanged
<1>2. QED
  BY <1>1, ResetIInv

LEMMA OutsideIInv ==
    ASSUME IInv, Tick \/ \E d \in Drives : CreateDrive(d)
    PROVE  IInv'
<1>1. /\ UNCHANGED <<latest, lastId, snapshots, entries, lock, writers>>
      /\ clock' \in Ticks /\ drives' \in SUBSET Drives
  BY DEF IInv, TypeOK, Tick, CreateDrive
<1>2. QED
  BY <1>1
  DEF IInv, TypeOK, LatestIsComplete, NoPartialTree, CountsMatchEntries,
      RowsNumbered, WriterHasRow, RowsNotShared, LockHeldInTransaction,
      CountsMatchStaged, IsComplete, Busy, At, FilesIn, DirectoriesIn

-----------------------------------------------------------------------------
(* The theorems.                                                           *)

LEMMA NextIInv == IInv /\ [Next]_vars => IInv'
<1> SUFFICES ASSUME IInv, [Next]_vars PROVE IInv'
  OBVIOUS
<1>1. CASE UNCHANGED vars
  BY <1>1
  DEF IInv, TypeOK, LatestIsComplete, NoPartialTree, CountsMatchEntries,
      RowsNumbered, WriterHasRow, RowsNotShared, LockHeldInTransaction,
      CountsMatchStaged, IsComplete, Busy, At, FilesIn, DirectoriesIn, vars
<1>2. CASE Tick \/ \E d \in Drives : CreateDrive(d)
  BY <1>2, OutsideIInv
<1>3. CASE Open
  BY <1>3, OpenIInv
<1>4. ASSUME NEW p \in Processes, Crash(p) PROVE IInv'
  BY <1>4, CrashIInv
<1>5. ASSUME NEW w \in Writers, Leave(w) PROVE IInv'
  BY <1>5, LeaveIInv
<1>6. ASSUME NEW w \in Writers, Start(w) PROVE IInv'
  BY <1>6, StartSnapshotIInv, AnswerIInv DEF Start
<1>7. ASSUME NEW w \in Writers, WriterStep(w) PROVE IInv'
  <2>1. ASSUME NEW p \in Paths, Add(w, p) PROVE IInv'
    BY <2>1, AddIInv
  <2>2. CASE \/ BeginTx(w) \/ BeginTxFails(w)
             \/ \E p \in Paths : AddDuplicate(w, p)
             \/ AddBusy(w) \/ SourceFails(w)
             \/ Finalize(w) \/ PointDrive(w) \/ CompleteFails(w)
    BY <2>2, MoveOnIInv
  <2>3. CASE ReadBack(w) \/ ReadBackFails(w) \/ MarkBusy(w)
    BY <2>3, AnswerIInv
  <2>4. CASE AddError(w)
    BY <2>4, AddErrorIInv
  <2>5. CASE Complete(w)
    BY <2>5, CompleteIInv
  <2>6. CASE Rollback(w) \/ CommitFails(w)
    BY <2>6, EndTransactionIInv
  <2>7. CASE Commit(w)
    BY <2>7, CommitIInv
  <2>8. CASE MarkFailed(w)
    BY <2>8, MarkFailedIInv
  <2>9. QED
    BY <1>7, <2>1, <2>2, <2>3, <2>4, <2>5, <2>6, <2>7, <2>8 DEF WriterStep
<1>8. QED
  BY <1>1, <1>2, <1>3, <1>4, <1>5, <1>6, <1>7 DEF Next

\* The inductive invariant holds of every behaviour: between any two steps of
\* scans, openings and crashes, writers, lock and tables agree.
THEOREM Invariance == Spec => []IInv
<1>1. Init => IInv
  BY InitIInv
<1>2. IInv /\ [Next]_vars => IInv'
  BY NextIInv
<1>3. QED
  BY <1>1, <1>2, PTL DEF Spec

\* Type correctness, for every value of the constants.
THEOREM TypeCorrect == Spec => []TypeOK
<1>1. IInv => TypeOK
  BY DEF IInv
<1>2. QED
  BY Invariance, <1>1, PTL

\* A drive's view is a complete snapshot of its own, whatever scans and crashes
\* overlap.
THEOREM LatestStaysComplete == Spec => []LatestIsComplete
<1>1. IInv => LatestIsComplete
  BY DEF IInv
<1>2. QED
  BY Invariance, <1>1, PTL

\* No tree is ever partly visible.
THEOREM TreesAreWhole == Spec => []NoPartialTree
<1>1. IInv => NoPartialTree
  BY DEF IInv
<1>2. QED
  BY Invariance, <1>1, PTL

\* The totals of complete snapshots are true.
THEOREM CountsAreTrue == Spec => []CountsMatchEntries
<1>1. IInv => CountsMatchEntries
  BY DEF IInv
<1>2. QED
  BY Invariance, <1>1, PTL

-----------------------------------------------------------------------------
(* What is complete stays as it is.                                        *)

\* The steps that write neither snapshots nor entries.
LEMMA QuietSteps ==
    ASSUME NEW w \in Writers,
           \/ BeginTx(w) \/ BeginTxFails(w)
           \/ \E p \in Paths : Add(w, p) \/ AddDuplicate(w, p)
           \/ AddBusy(w) \/ AddError(w) \/ SourceFails(w)
           \/ Complete(w) \/ Finalize(w) \/ PointDrive(w) \/ CompleteFails(w)
           \/ CommitFails(w) \/ ReadBack(w) \/ ReadBackFails(w)
           \/ Rollback(w) \/ MarkBusy(w) \/ Leave(w)
           \/ \E d \in Drives : StartBusy(w, d)
    PROVE  TablesUnchanged
BY DEF BeginTx, BeginTxFails, Add, AddDuplicate, AddBusy, AddError, SourceFails,
       Complete, Finalize, PointDrive, CompleteFails, CommitFails, ReadBack,
       ReadBackFails, Rollback, MarkBusy, Leave, StartBusy, TablesUnchanged

\* The row a writer commits or marks is not complete before it does, and
\* StartSnapshot and Open touch only rows that are not complete either.
LEMMA CompleteRowsKept ==
    ASSUME IInv, [Next]_vars, NEW s \in SnapshotIds, IsComplete(s)
    PROVE  snapshots'[s] = snapshots[s] /\ entries'[s] = entries[s]
<1>1. CASE UNCHANGED <<snapshots, entries>>
  BY <1>1
<1>2. ASSUME NEW w \in Writers, Commit(w) \/ MarkFailed(w)
      PROVE  snapshots'[s] = snapshots[s] /\ entries'[s] = entries[s]
  <2>1. writers[w].snapshot # s
    BY <1>2 DEF IInv, WriterHasRow, Busy, At, Commit, MarkFailed
  <2>2. QED
    BY <1>2, <2>1 DEF IInv, TypeOK, Commit, MarkFailed
<1>3. ASSUME NEW w \in Writers, NEW d \in Drives, StartSnapshot(w, d)
      PROVE  snapshots'[s] = snapshots[s] /\ entries'[s] = entries[s]
  <2>1. lastId + 1 # s
    BY DEF IInv, TypeOK, RowsNumbered, IsComplete, SnapshotIds
  <2>2. QED
    BY <1>3, <2>1 DEF IInv, TypeOK, StartSnapshot
<1>4. CASE Open
  BY <1>4 DEF Open, Interrupted, IsComplete
<1>5. QED
  BY <1>1, <1>2, <1>3, <1>4, QuietSteps
  DEF Next, Start, WriterStep, CreateDrive, Crash, Tick, vars, TablesUnchanged

\* A complete snapshot is immutable.
THEOREM CompleteStaysAsItIs == Spec => CompleteIsForever
<1>1. IInv /\ [Next]_vars
        => [\A s \in SnapshotIds : IsComplete(s) =>
              snapshots'[s] = snapshots[s] /\ entries'[s] = entries[s]]_vars
  BY CompleteRowsKept
<1>2. QED
  BY Invariance, <1>1, PTL DEF Spec, CompleteIsForever

-----------------------------------------------------------------------------
(* The catalog implements the shelf.                                       *)

LEMMA InitShelf == Init => Shelf!Init
<1> SUFFICES ASSUME Init PROVE Shelf!Init
  OBVIOUS
<1>1. latest = [d \in Drives |-> NoSnapshot]
  BY DEF Init
<1>2. ShelfPublished = [v \in SnapshotIds |-> Shelf!Unpublished]
  BY DEF Init, ShelfPublished, IsComplete, NoRow, Shelf!Unpublished
<1>3. ShelfScan = [s \in Writers |-> Shelf!Quiet]
  BY DEF Init, ShelfScan, Idle, Scanning, InTransaction, Shelf!Quiet
<1>4. QED
  BY <1>1, <1>2, <1>3 DEF Shelf!Init

ShelfUnchanged == UNCHANGED <<latest, ShelfPublished, ShelfScan>>

\* Steps of writers the shelf cannot tell from nothing.
LEMMA InvisibleStep ==
    ASSUME UNCHANGED <<latest, ShelfPublished>>,
           \A w \in Writers :
             /\ writers'[w].call \in Scanning <=> writers[w].call \in Scanning
             /\ writers[w].call \in Scanning =>
                  /\ writers'[w].drive = writers[w].drive
                  /\ writers'[w].staged = writers[w].staged
    PROVE  ShelfUnchanged
BY DEF ShelfUnchanged, ShelfScan

\* Scans that leave their transactions without COMMIT have been abandoned.
LEMMA AbandonStep ==
    ASSUME NEW W \in SUBSET Writers, UNCHANGED <<latest, ShelfPublished>>,
           \A w \in Writers \ W : writers'[w] = writers[w],
           \A w \in W : writers'[w].call \notin Scanning
    PROVE  Shelf!Abandon(W)
<1>1. ShelfScan' = [s \in Writers |-> IF s \in W THEN Shelf!Quiet ELSE ShelfScan[s]]
  BY DEF ShelfScan, Shelf!Quiet
<1>2. QED
  BY <1>1 DEF Shelf!Abandon

\* The tables decide what is published.
LEMMA SamePublished ==
    ASSUME IInv,
           \A s \in SnapshotIds : IsComplete(s)' <=> IsComplete(s),
           \A s \in SnapshotIds : IsComplete(s) =>
               snapshots'[s] = snapshots[s] /\ entries'[s] = entries[s]
    PROVE  UNCHANGED ShelfPublished
<1>1. \A s \in SnapshotIds : ShelfPublished'[s] = ShelfPublished[s]
  BY DEF ShelfPublished
<1>2. QED
  BY <1>1 DEF ShelfPublished

LEMMA TablesDecide == TablesUnchanged => UNCHANGED <<latest, ShelfPublished>>
BY DEF TablesUnchanged, ShelfPublished, IsComplete

\* The calls inside a transaction, and those outside of any.
LEMMA InvisibleCalls ==
    ASSUME IInv, NEW w \in Writers,
           \/ BeginTx(w) \/ \E p \in Paths : AddDuplicate(w, p)
           \/ AddBusy(w) \/ SourceFails(w) \/ Finalize(w)
           \/ PointDrive(w) \/ CompleteFails(w)
           \/ ReadBack(w) \/ ReadBackFails(w) \/ MarkBusy(w)
           \/ \E d \in Drives : StartBusy(w, d)
    PROVE  ShelfUnchanged
<1>1. UNCHANGED <<latest, ShelfPublished>>
  BY QuietSteps, TablesDecide
<1>2. CASE \/ BeginTx(w) \/ \E p \in Paths : AddDuplicate(w, p)
           \/ AddBusy(w) \/ SourceFails(w) \/ Finalize(w)
           \/ PointDrive(w) \/ CompleteFails(w)
  <2>1. PICK c \in InTransaction : Goto(w, c)
    BY <1>2 DEF BeginTx, AddDuplicate, AddBusy, SourceFails, Finalize,
                PointDrive, CompleteFails, InTransaction
  <2>2. writers[w].call \in Scanning
    BY <1>2 DEF BeginTx, AddDuplicate, AddBusy, SourceFails, Finalize,
                PointDrive, CompleteFails, At, Scanning, InTransaction
  <2>3. OthersUnchanged(w) /\ ScanUnchanged(w) /\ writers'[w].call \in Scanning
    BY <2>1, GotoEffect DEF IInv, Calls, Scanning
  <2>4. QED
    BY <1>1, <2>2, <2>3, InvisibleStep DEF OthersUnchanged, ScanUnchanged
<1>3. CASE \/ ReadBack(w) \/ ReadBackFails(w) \/ MarkBusy(w)
           \/ \E d \in Drives : StartBusy(w, d)
  <2>1. PICK result \in {"complete", "error"} : Return(w, result)
    BY <1>3 DEF ReadBack, ReadBackFails, MarkBusy, StartBusy
  <2>2. writers[w].call \notin Scanning
    BY <1>3 DEF ReadBack, ReadBackFails, MarkBusy, StartBusy, At, Scanning,
                InTransaction
  <2>3. OthersUnchanged(w) /\ writers'[w].call \notin Scanning
    BY <2>1, ReturnEffect DEF IInv, Scanning, InTransaction
  <2>4. QED
    BY <1>1, <2>2, <2>3, InvisibleStep DEF OthersUnchanged
<1>4. QED
  BY <1>2, <1>3

LEMMA InvisibleCompleteOrError ==
    ASSUME IInv, NEW w \in Writers, Complete(w) \/ AddError(w)
    PROVE  ShelfUnchanged
<1>1. UNCHANGED <<latest, ShelfPublished>>
  BY QuietSteps, TablesDecide
<1>2. writers[w] \in Writer /\ writers[w].call = "open"
  BY DEF IInv, TypeOK, Complete, AddError, At
<1>3. /\ OthersUnchanged(w)
      /\ writers'[w].drive = writers[w].drive
      /\ writers'[w].staged = writers[w].staged
      /\ writers'[w].call \in Scanning
  BY <1>2 DEF IInv, TypeOK, Complete, AddError, OthersUnchanged, Writer,
              Scanning, InTransaction
<1>4. QED
  BY <1>1, <1>2, <1>3, InvisibleStep DEF OthersUnchanged, Scanning, InTransaction

LEMMA InvisibleMarking ==
    ASSUME IInv, NEW w \in Writers, MarkFailed(w)
    PROVE  ShelfUnchanged
<1>1. /\ writers[w].call = "marking"
      /\ writers[w].snapshot \in SnapshotIds /\ ~IsComplete(writers[w].snapshot)
  BY BoundsAssumption
  DEF IInv, TypeOK, MarkFailed, At, WriterHasRow, Busy, SnapshotIds
<1>2. /\ \A s \in SnapshotIds \ {writers[w].snapshot} : snapshots'[s] = snapshots[s]
      /\ snapshots'[writers[w].snapshot] = FailedRow(snapshots[writers[w].snapshot])
      /\ entries' = entries /\ latest' = latest
  BY <1>1 DEF IInv, TypeOK, MarkFailed
<1>3. FailedRow(snapshots[writers[w].snapshot]).status = "failed"
  BY <1>1 DEF IInv, TypeOK, Row, FailedRow
<1>4. UNCHANGED ShelfPublished
  BY <1>1, <1>2, <1>3, SamePublished DEF IsComplete
<1>5. OthersUnchanged(w) /\ writers'[w].call = "returned"
  BY ReturnEffect DEF IInv, MarkFailed
<1>6. QED
  BY <1>1, <1>2, <1>4, <1>5, InvisibleStep DEF OthersUnchanged, Scanning,
                                           InTransaction

LEMMA InvisibleOutside ==
    ASSUME IInv,
           \/ Open \/ Tick \/ \E d \in Drives : CreateDrive(d)
           \/ \E w \in Writers : Leave(w)
    PROVE  ShelfUnchanged
<1>1. CASE Open
  <2>1. \A s \in SnapshotIds : /\ IsComplete(s)' <=> IsComplete(s)
                               /\ IsComplete(s) => snapshots'[s] = snapshots[s]
    BY <1>1 DEF IInv, TypeOK, Open, Interrupted, IsComplete, FailedRow, Row
  <2>2. UNCHANGED <<latest, entries, writers>>
    BY <1>1 DEF Open
  <2>3. QED
    BY <2>1, <2>2, SamePublished, InvisibleStep
<1>2. CASE Tick \/ \E d \in Drives : CreateDrive(d)
  BY <1>2 DEF Tick, CreateDrive, ShelfUnchanged, ShelfPublished, ShelfScan,
              IsComplete
<1>3. ASSUME NEW w \in Writers, Leave(w) PROVE ShelfUnchanged
  <2>1. UNCHANGED <<latest, ShelfPublished>>
    BY <1>3, QuietSteps, TablesDecide
  <2>2. /\ \A v \in Writers \ {w} : writers'[v] = writers[v]
        /\ writers[w].call \notin Scanning /\ writers'[w].call \notin Scanning
    BY <1>3 DEF IInv, TypeOK, Leave, At, Idle, Scanning, InTransaction
  <2>3. QED
    BY <2>1, <2>2, InvisibleStep
<1>4. QED
  BY <1>1, <1>2, <1>3

LEMMA AbandonedCalls ==
    ASSUME IInv, NEW w \in Writers,
           BeginTxFails(w) \/ Rollback(w) \/ CommitFails(w)
    PROVE  Shelf!Abandon({w})
<1>1. UNCHANGED <<latest, ShelfPublished>>
  BY QuietSteps, TablesDecide
<1>2. OthersUnchanged(w) /\ writers'[w].call = "marking"
  BY GotoEffect, UnstageEffect
  DEF IInv, BeginTxFails, Rollback, CommitFails, EndTransaction, Calls
<1>3. QED
  BY <1>1, <1>2, AbandonStep DEF OthersUnchanged, Scanning, InTransaction

LEMMA AbandonedByCrash ==
    ASSUME IInv, NEW p \in Processes, Crash(p)
    PROVE  Shelf!Abandon({w \in Writers : Host[w] = p})
<1> DEFINE W == {w \in Writers : Host[w] = p}
<1>1. UNCHANGED <<latest, ShelfPublished>>
  BY TablesDecide DEF Crash, TablesUnchanged
<1>2. /\ \A w \in Writers \ W : writers'[w] = writers[w]
      /\ \A w \in W : writers'[w].call \notin Scanning
  BY DEF Crash, Idle, Scanning, InTransaction
<1>3. QED
  BY <1>1, <1>2, AbandonStep

LEMMA AddRecords ==
    ASSUME IInv, NEW w \in Writers, NEW p \in Paths, Add(w, p)
    PROVE  Shelf!Record(w, p)
<1>1. UNCHANGED <<latest, ShelfPublished>>
  BY QuietSteps, TablesDecide
<1>2. writers[w] \in Writer /\ writers[w].call = "open" /\ p \notin writers[w].staged
  BY DEF IInv, TypeOK, Add, At
<1>3. /\ OthersUnchanged(w) /\ DOMAIN writers' = Writers
      /\ writers'[w].call = "open"
      /\ writers'[w].drive = writers[w].drive
      /\ writers'[w].staged = writers[w].staged \cup {p}
  BY <1>2 DEF IInv, TypeOK, Add, Stage, OthersUnchanged, Writer
<1>4. /\ ShelfScan[w] = [is |-> "recording", drive |-> writers[w].drive,
                         tree |-> writers[w].staged]
      /\ ShelfScan'[w] = [is |-> "recording", drive |-> writers[w].drive,
                          tree |-> writers[w].staged \cup {p}]
      /\ \A v \in Writers \ {w} : ShelfScan'[v] = ShelfScan[v]
  BY <1>2, <1>3 DEF ShelfScan, Scanning, InTransaction, OthersUnchanged
<1>5. ShelfScan' = [ShelfScan EXCEPT ![w] = ShelfScan'[w]]
  BY <1>4 DEF ShelfScan
<1>6. /\ ShelfScan[w].is = "recording" /\ p \notin ShelfScan[w].tree
      /\ ShelfScan'[w] = Shelf!Recording(ShelfScan[w].drive,
                                         ShelfScan[w].tree \cup {p})
  BY <1>2, <1>4 DEF Shelf!Recording
<1>7. QED
  BY <1>1, <1>5, <1>6 DEF Shelf!Record

LEMMA StartBegins ==
    ASSUME IInv, NEW w \in Writers, NEW d \in Drives, StartSnapshot(w, d)
    PROVE  Shelf!Begin(w, d)
<1> DEFINE s == lastId + 1
<1>1. /\ s \in SnapshotIds /\ ~IsComplete(s)
      /\ snapshots'[s].status = "scanning"
      /\ \A t \in SnapshotIds \ {s} : snapshots'[t] = snapshots[t]
      /\ UNCHANGED <<entries, latest>>
  BY BoundsAssumption
  DEF IInv, TypeOK, RowsNumbered, IsComplete, StartSnapshot, ScanningRow, NoRow,
      SnapshotIds
<1>2. UNCHANGED ShelfPublished
  BY <1>1, SamePublished DEF IsComplete
<1>3. /\ writers[w].call = "idle" /\ OthersUnchanged(w)
      /\ DOMAIN writers' = Writers
      /\ writers'[w].call = "starting" /\ writers'[w].drive = d
      /\ writers'[w].staged = {}
  BY DEF IInv, TypeOK, StartSnapshot, At, OthersUnchanged, Idle
<1>4. /\ ShelfScan[w] = Shelf!Quiet
      /\ ShelfScan'[w] = Shelf!Recording(d, {})
      /\ \A v \in Writers \ {w} : ShelfScan'[v] = ShelfScan[v]
  BY <1>3 DEF ShelfScan, Scanning, InTransaction, OthersUnchanged,
              Shelf!Quiet, Shelf!Recording
<1>5. ShelfScan' = [ShelfScan EXCEPT ![w] = Shelf!Recording(d, {})]
  BY <1>4 DEF ShelfScan
<1>6. QED
  BY <1>1, <1>2, <1>4, <1>5 DEF Shelf!Begin

LEMMA CommitPublishes ==
    ASSUME IInv, NEW w \in Writers, Commit(w)
    PROVE  Shelf!Publish(w, writers[w].snapshot)
<1> DEFINE s == writers[w].snapshot
           d == writers[w].drive
<1>1. writers[w] \in Writer /\ writers[w].call = "committing"
  BY DEF IInv, TypeOK, Commit, At
<1>2. s \in SnapshotIds /\ ~IsComplete(s) /\ d = snapshots[s].drive
  BY <1>1, BoundsAssumption
  DEF IInv, TypeOK, WriterHasRow, Busy, At, SnapshotIds
<1>3. /\ snapshots'[s].status = "complete" /\ snapshots'[s].drive = d
      /\ entries'[s] = writers[w].staged
      /\ \A t \in SnapshotIds \ {s} :
            snapshots'[t] = snapshots[t] /\ entries'[t] = entries[t]
      /\ latest' = [latest EXCEPT ![d] = s]
  BY <1>1, <1>2 DEF IInv, TypeOK, Commit, CompletedRow, Row
<1>4. /\ OthersUnchanged(w) /\ DOMAIN writers' = Writers
      /\ writers'[w].call = "reading"
  BY UnstageEffect DEF IInv, Commit, Calls
<1>5. ShelfScan[w] = [is |-> "recording", drive |-> d, tree |-> writers[w].staged]
  BY <1>1 DEF ShelfScan, Scanning, InTransaction
<1>6. /\ ShelfPublished[s] = Shelf!Unpublished
      /\ ShelfPublished'[s] = Shelf!Version(ShelfScan[w].drive, ShelfScan[w].tree)
      /\ \A t \in SnapshotIds \ {s} : ShelfPublished'[t] = ShelfPublished[t]
  BY <1>2, <1>3, <1>5 DEF ShelfPublished, IsComplete, Shelf!Unpublished,
                          Shelf!Version
<1>7. ShelfPublished' = [ShelfPublished EXCEPT
                            ![s] = Shelf!Version(ShelfScan[w].drive,
                                                 ShelfScan[w].tree)]
  BY <1>6 DEF ShelfPublished
<1>8. /\ ShelfScan'[w] = Shelf!Quiet
      /\ \A v \in Writers \ {w} : ShelfScan'[v] = ShelfScan[v]
  BY <1>4 DEF ShelfScan, Scanning, InTransaction, OthersUnchanged, Shelf!Quiet
<1>9. ShelfScan' = [ShelfScan EXCEPT ![w] = Shelf!Quiet]
  BY <1>8 DEF ShelfScan
<1>10. latest' = [latest EXCEPT ![ShelfScan[w].drive] = s]
       /\ ShelfScan[w].is = "recording"
  BY <1>3, <1>5
<1>11. QED
  BY <1>6, <1>7, <1>9, <1>10 DEF Shelf!Publish

LEMMA NextShelf == IInv /\ [Next]_vars => [Shelf!Next]_Shelf!shelfVars
<1> SUFFICES ASSUME IInv, [Next]_vars PROVE Shelf!Next \/ ShelfUnchanged
  BY DEF ShelfUnchanged, Shelf!shelfVars
<1>1. CASE UNCHANGED vars
  BY <1>1 DEF vars, ShelfUnchanged, ShelfPublished, ShelfScan, IsComplete
<1>2. CASE \/ Open \/ Tick \/ \E d \in Drives : CreateDrive(d)
           \/ \E w \in Writers : Leave(w)
  BY <1>2, InvisibleOutside
<1>3. ASSUME NEW p \in Processes, Crash(p) PROVE Shelf!Next
  BY <1>3, AbandonedByCrash DEF Shelf!Next
<1>4. ASSUME NEW w \in Writers, Start(w) PROVE Shelf!Next \/ ShelfUnchanged
  BY <1>4, StartBegins, InvisibleCalls DEF Start, Shelf!Next
<1>5. ASSUME NEW w \in Writers, WriterStep(w) PROVE Shelf!Next \/ ShelfUnchanged
  <2>1. ASSUME NEW p \in Paths, Add(w, p) PROVE Shelf!Next
    BY <2>1, AddRecords DEF Shelf!Next
  <2>2. CASE BeginTxFails(w) \/ Rollback(w) \/ CommitFails(w)
    BY <2>2, AbandonedCalls DEF Shelf!Next
  <2>3. CASE Commit(w)
    <3>1. writers[w].snapshot \in SnapshotIds
      BY <2>3, BoundsAssumption
      DEF IInv, TypeOK, Commit, WriterHasRow, Busy, At, SnapshotIds
    <3>2. QED
      BY <2>3, <3>1, CommitPublishes DEF Shelf!Next
  <2>4. CASE Complete(w) \/ AddError(w) \/ MarkFailed(w)
    BY <2>4, InvisibleCompleteOrError, InvisibleMarking
  <2>5. CASE \/ BeginTx(w) \/ \E p \in Paths : AddDuplicate(w, p)
             \/ AddBusy(w) \/ SourceFails(w) \/ Finalize(w)
             \/ PointDrive(w) \/ CompleteFails(w)
             \/ ReadBack(w) \/ ReadBackFails(w) \/ MarkBusy(w)
    BY <2>5, InvisibleCalls
  <2>6. QED
    BY <1>5, <2>1, <2>2, <2>3, <2>4, <2>5 DEF WriterStep
<1>6. QED
  BY <1>1, <1>2, <1>3, <1>4, <1>5 DEF Next

\* Every behaviour of the catalog is one of the shelf: whole versions appear in
\* one step, and nothing else is ever seen.
THEOREM CatalogImplementsShelf == Spec => ImplementsShelf
<1>1. Init => Shelf!Init
  BY InitShelf
<1>2. IInv /\ [Next]_vars => [Shelf!Next]_Shelf!shelfVars
  BY NextShelf
<1>3. QED
  BY Invariance, <1>1, <1>2, PTL DEF Spec, ImplementsShelf, Shelf!Spec

-----------------------------------------------------------------------------
(* The view is the newest.                                                 *)

\* The calls in which a writer has taken the time its snapshot will bear.
Stamping == {"finalizing", "pointing", "committing"}

\* What a writer that has recorded anything stamped, it stamped under the lock:
\* nothing is complete that bears a later time.
StampIsNewest(w) ==
    writers[w].call \in Stamping =>
        /\ writers[w].now \in Ticks /\ writers[w].now <= clock
        /\ writers[w].staged # {} =>
               \A s \in SnapshotIds :
                   IsComplete(s) => snapshots[s].completedAt <= writers[w].now

DatedBefore(now) ==
    \A s \in SnapshotIds : IsComplete(s) =>
        snapshots[s].completedAt \in Ticks /\ snapshots[s].completedAt <= now

DatesInv ==
    DatedBefore(clock) /\ LatestIsNewest /\ \A w \in Writers : StampIsNewest(w)

\* Nothing becomes complete, and no time is taken.
NothingDated ==
    /\ latest' = latest
    /\ \A s \in SnapshotIds :
           /\ IsComplete(s)' <=> IsComplete(s)
           /\ IsComplete(s) => snapshots'[s] = snapshots[s] /\ entries'[s] = entries[s]

StampKept(w) ==
    writers'[w].call \in Stamping =>
        /\ writers[w].call \in Stamping
        /\ writers'[w].now = writers[w].now /\ writers'[w].staged = writers[w].staged

LEMMA TablesNotDated == TablesUnchanged => NothingDated
BY DEF TablesUnchanged, NothingDated, IsComplete

LEMMA ViewStaysNewest ==
    ASSUME IInv, DatesInv, NothingDated
    PROVE  LatestIsNewest'
<1>1. \A d \in Drives : latest[d] # NoSnapshot =>
          latest[d] \in SnapshotIds /\ IsComplete(latest[d])
  BY BoundsAssumption DEF IInv, TypeOK, LatestIsComplete, SnapshotIds, NoSnapshot
<1>2. QED
  BY <1>1 DEF DatesInv, NothingDated, LatestIsNewest, IsComplete

LEMMA StampsStayNewest ==
    ASSUME IInv, DatesInv, NothingDated, clock \in Ticks, clock' \in Ticks,
           clock <= clock', \A w \in Writers : StampKept(w)
    PROVE  DatesInv'
<1>1. DatedBefore(clock)'
  BY BoundsAssumption DEF DatesInv, DatedBefore, NothingDated, IsComplete, Ticks
<1>2. ASSUME NEW w \in Writers PROVE StampIsNewest(w)'
  BY BoundsAssumption DEF DatesInv, StampIsNewest, StampKept, NothingDated,
     IsComplete, Ticks
<1>3. QED
  BY <1>1, <1>2, ViewStaysNewest DEF DatesInv

\* Complete takes the time: no complete snapshot is later than now.
LEMMA CompleteDates ==
    ASSUME IInv, DatesInv, NEW w \in Writers, Complete(w)
    PROVE  DatesInv'
<1>1. TablesUnchanged /\ NothingDated /\ clock \in Ticks
  BY TablesNotDated DEF IInv, TypeOK, Complete, TablesUnchanged
<1>2. /\ writers'[w].now = clock
      /\ \A v \in Writers \ {w} : writers'[v] = writers[v]
  BY DEF IInv, TypeOK, Writer, Complete, StampedNow
<1>3. DatedBefore(clock)'
  BY <1>1 DEF DatesInv, DatedBefore, TablesUnchanged, IsComplete
<1>4. ASSUME NEW v \in Writers PROVE StampIsNewest(v)'
  <2>1. CASE v = w
    BY <1>1, <1>2, <1>3, <2>1, BoundsAssumption
    DEF StampIsNewest, DatedBefore, TablesUnchanged, IsComplete, Ticks
  <2>2. CASE v # w
    BY <1>1, <1>2, <2>2
    DEF DatesInv, StampIsNewest, TablesUnchanged, IsComplete
  <2>3. QED
    BY <2>1, <2>2
<1>5. QED
  BY <1>1, <1>3, <1>4, ViewStaysNewest DEF DatesInv

\* COMMIT.  Who has staged anything has the lock, so that nobody else can be
\* about to commit an earlier time over this one.
LEMMA CommitDates ==
    ASSUME IInv, IInv', DatesInv, NEW w \in Writers, Commit(w)
    PROVE  DatesInv'
<1> DEFINE s == writers[w].snapshot
           d == writers[w].drive
           now == writers[w].now
<1>1. /\ writers[w].call = "committing" /\ lock = w
      /\ now \in Ticks /\ now <= clock /\ clock \in Ticks
  BY DEF IInv, TypeOK, Commit, At, LockHeldInTransaction, DatesInv,
     StampIsNewest, Stamping
<1>2. /\ s \in SnapshotIds /\ d \in Drives /\ snapshots[s].drive = d
  <2>1. s \in 1 .. lastId /\ snapshots[s].drive = d
    BY <1>1 DEF IInv, WriterHasRow, Busy
  <2>2. s \in SnapshotIds /\ ~(lastId < s)
    BY <2>1, BoundsAssumption DEF IInv, TypeOK, SnapshotIds
  <2>3. QED
    BY <2>1, <2>2 DEF IInv, RowsNumbered
<1>3. /\ snapshots'[s].status = "complete" /\ snapshots'[s].completedAt = now
      /\ snapshots'[s].drive = d /\ entries'[s] = writers[w].staged
      /\ \A t \in SnapshotIds \ {s} :
             snapshots'[t] = snapshots[t] /\ entries'[t] = entries[t]
  <2>1. snapshots[s] \in Row /\ snapshots \in [SnapshotIds -> Row]
        /\ entries \in [SnapshotIds -> SUBSET Paths]
    BY <1>2 DEF IInv, TypeOK
  <2>2. /\ CompletedRow(w).status = "complete" /\ CompletedRow(w).drive = d
        /\ CompletedRow(w).completedAt = now
    BY <1>2, <2>1 DEF CompletedRow, Row
  <2>3. /\ snapshots' = [snapshots EXCEPT ![s] = CompletedRow(w)]
        /\ entries' = [entries EXCEPT ![s] = writers[w].staged]
    BY DEF Commit
  <2>4. QED
    BY <1>2, <2>1, <2>2, <2>3
<1>4. latest'[d] = s /\ \A e \in Drives \ {d} : latest'[e] = latest[e]
  BY <1>2 DEF IInv, TypeOK, Commit
<1>5. /\ clock' = clock /\ writers'[w].call = "reading"
      /\ \A v \in Writers \ {w} :
             writers'[v] = writers[v] /\ writers[v].staged = {}
  BY <1>1 DEF IInv, TypeOK, Writer, Commit, LockHeldInTransaction
<1>6. writers[w].staged # {} => DatedBefore(now)
  BY <1>1, BoundsAssumption
  DEF DatesInv, DatedBefore, StampIsNewest, Stamping, Ticks
<1>7. DatedBefore(clock)
  BY DEF DatesInv
<1> HIDE DEF s, d, now
<1>8. DatedBefore(clock)'
  BY <1>1, <1>2, <1>3, <1>5, <1>7 DEF DatedBefore, IsComplete
<1>9. ASSUME NEW v \in Writers PROVE StampIsNewest(v)'
  <2>1. CASE v = w
    BY <1>5, <2>1 DEF StampIsNewest, Stamping
  <2>2. CASE v # w
    BY <1>5, <2>2 DEF DatesInv, StampIsNewest
  <2>3. QED
    BY <2>1, <2>2
<1>10. LatestIsNewest'
  <2> SUFFICES ASSUME NEW e \in Drives, NEW t \in SnapshotIds,
                      latest'[e] # NoSnapshot, entries'[latest'[e]] # {},
                      IsComplete(t)', snapshots'[t].drive = e
               PROVE  snapshots'[t].completedAt
                          <= snapshots'[latest'[e]].completedAt
    BY DEF LatestIsNewest
  <2>1. CASE e = d
    <3>1. writers[w].staged # {} /\ snapshots'[latest'[e]].completedAt = now
      BY <1>3, <1>4, <2>1
    <3>2. CASE t = s
      BY <1>1, <1>3, <3>1, <3>2, BoundsAssumption DEF Ticks
    <3>3. CASE t # s
      BY <1>3, <1>6, <3>1, <3>3 DEF DatedBefore, IsComplete
    <3>4. QED
      BY <3>2, <3>3
  <2>2. CASE e # d
    <3>1. latest'[e] = latest[e] /\ t # s
      BY <1>3, <1>4, <2>2
    <3>2. latest[e] \in SnapshotIds /\ latest[e] # s
      <4>1. latest[e] \in SnapshotIds /\ snapshots'[latest'[e]].drive = e
        BY <3>1, BoundsAssumption
        DEF IInv, TypeOK, LatestIsComplete, SnapshotIds, NoSnapshot
      <4>2. QED
        BY <1>3, <2>2, <3>1, <4>1
    <3>3. QED
      BY <1>3, <3>1, <3>2 DEF DatesInv, LatestIsNewest, IsComplete
  <2>3. QED
    BY <2>1, <2>2
<1>11. QED
  BY <1>8, <1>9, <1>10 DEF DatesInv

\* The writers that are neither at Complete nor at COMMIT.
LEMMA StampsKept ==
    ASSUME IInv, NEW w \in Writers, WriterStep(w) \/ Start(w) \/ Leave(w),
           ~Complete(w), ~Commit(w)
    PROVE  \A v \in Writers : StampKept(v)
<1>1. writers[w] \in Writer /\ writers \in [Writers -> Writer]
  BY DEF IInv, TypeOK
<1>2. ASSUME NEW new, writers' = [writers EXCEPT ![w] = new],
             \/ new.call \notin Stamping
             \/ /\ writers[w].call \in Stamping
                /\ new.now = writers[w].now /\ new.staged = writers[w].staged
      PROVE  \A v \in Writers : StampKept(v)
  BY <1>1, <1>2 DEF StampKept
<1>3. CASE Finalize(w) \/ PointDrive(w)
  <2> DEFINE call == IF Finalize(w) THEN "pointing" ELSE "committing"
             new == [writers[w] EXCEPT !.call = call]
  <2>1. writers' = [writers EXCEPT ![w] = new] /\ writers[w].call \in Stamping
    BY <1>3 DEF Finalize, PointDrive, Goto, At, Stamping
  <2>2. new.now = writers[w].now /\ new.staged = writers[w].staged
    BY <1>1 DEF Writer
  <2> HIDE DEF new
  <2>3. QED
    BY <1>2, <2>1, <2>2
<1>4. CASE \/ BeginTx(w) \/ BeginTxFails(w)
           \/ \E p \in Paths : AddDuplicate(w, p)
           \/ AddBusy(w) \/ SourceFails(w) \/ CompleteFails(w)
  <2>1. PICK call \in {"open", "marking", "failing"} : Goto(w, call)
    BY <1>4 DEF BeginTx, BeginTxFails, AddDuplicate, AddBusy, SourceFails,
       CompleteFails
  <2>2. OthersUnchanged(w) /\ writers'[w].call = call
    BY <2>1, GotoEffect DEF IInv, Calls, Scanning, InTransaction
  <2>3. QED
    BY <2>2 DEF StampKept, OthersUnchanged, Stamping
<1>5. CASE \/ \E d \in Drives : StartBusy(w, d)
           \/ ReadBack(w) \/ ReadBackFails(w) \/ MarkFailed(w) \/ MarkBusy(w)
  <2>1. PICK result \in {"complete", "error"} : Return(w, result)
    BY <1>5 DEF StartBusy, ReadBack, ReadBackFails, MarkFailed, MarkBusy
  <2>2. OthersUnchanged(w) /\ writers'[w].call = "returned"
    BY <2>1, ReturnEffect DEF IInv
  <2>3. QED
    BY <2>2 DEF StampKept, OthersUnchanged, Stamping
<1>6. CASE CommitFails(w) \/ Rollback(w)
  <2>1. OthersUnchanged(w) /\ writers'[w].call = "marking"
    BY <1>6, UnstageEffect DEF IInv, Rollback, CommitFails, EndTransaction, Calls
  <2>2. QED
    BY <2>1 DEF StampKept, OthersUnchanged, Stamping
<1>7. CASE AddError(w) \/ \E p \in Paths : Add(w, p)
  <2>1. writers'[w].call = "open" /\ OthersUnchanged(w)
    <3>1. CASE AddError(w)
      BY <1>1, <3>1 DEF AddError, At, OthersUnchanged, Writer
    <3>2. ASSUME NEW p \in Paths, Add(w, p)
          PROVE  writers'[w].call = "open" /\ OthersUnchanged(w)
      BY <1>1, <3>2 DEF Add, Stage, At, OthersUnchanged, Writer
    <3>3. QED
      BY <1>7, <3>1, <3>2
  <2>2. QED
    BY <2>1 DEF StampKept, OthersUnchanged, Stamping
<1>8. CASE Leave(w) \/ \E d \in Drives : StartSnapshot(w, d)
  <2>1. ASSUME NEW d \in Drives, StartSnapshot(w, d)
        PROVE  writers'[w].call = "starting" /\ OthersUnchanged(w)
    <3> DEFINE new == [Idle EXCEPT !.call = "starting", !.snapshot = lastId + 1,
                                   !.drive = d]
    <3>1. writers' = [writers EXCEPT ![w] = new]
      BY <2>1 DEF StartSnapshot
    <3>2. new.call = "starting"
      BY DEF Idle
    <3> HIDE DEF new
    <3>3. QED
      BY <1>1, <3>1, <3>2 DEF OthersUnchanged
  <2>2. writers'[w].call \in {"idle", "starting"} /\ OthersUnchanged(w)
    BY <1>1, <1>8, <2>1 DEF Leave, Idle, OthersUnchanged
  <2>3. QED
    BY <2>2 DEF StampKept, OthersUnchanged, Stamping
<1>9. QED
  BY <1>3, <1>4, <1>5, <1>6, <1>7, <1>8 DEF WriterStep, Start

\* Only Complete takes a time, only Commit publishes one.
LEMMA OtherStepsDateNothing ==
    ASSUME IInv, [Next]_vars, \A w \in Writers : ~Complete(w) /\ ~Commit(w)
    PROVE  /\ NothingDated /\ clock' >= clock
           /\ \A w \in Writers : StampKept(w)
<1> USE BoundsAssumption
<1>1. clock \in Ticks /\ clock <= clock
  BY DEF IInv, TypeOK, Ticks
<1>2. CASE \E w \in Writers : WriterStep(w) \/ Start(w) \/ Leave(w)
  <2>1. PICK w \in Writers : WriterStep(w) \/ Start(w) \/ Leave(w)
    BY <1>2
  <2>2. \A v \in Writers : StampKept(v)
    BY <2>1, StampsKept
  <2>3. CASE TablesUnchanged
    BY <1>1, <2>2, <2>3, TablesNotDated DEF TablesUnchanged
  <2>4. CASE MarkFailed(w)
    <3> DEFINE t == writers[w].snapshot
    <3>1. At(w, "marking") /\ UNCHANGED <<latest, entries, clock>>
      BY <2>4 DEF MarkFailed
    <3>2. t \in 1 .. lastId /\ ~IsComplete(t)
      BY <3>1 DEF IInv, WriterHasRow, Busy, At
    <3>3. t \in SnapshotIds /\ snapshots \in [SnapshotIds -> Row]
      BY <3>2 DEF IInv, TypeOK, SnapshotIds
    <3>4. snapshots' = [snapshots EXCEPT ![t] = FailedRow(snapshots[t])]
      BY <2>4 DEF MarkFailed
    <3>5. FailedRow(snapshots[t]).status = "failed"
      BY <3>3 DEF FailedRow, Row
    <3> HIDE DEF t
    <3>6. \A s \in SnapshotIds :
              /\ snapshots'[s].status = "complete" <=> IsComplete(s)
              /\ IsComplete(s) => snapshots'[s] = snapshots[s]
      BY <3>2, <3>3, <3>4, <3>5 DEF IsComplete
    <3>7. QED
      BY <1>1, <2>2, <3>1, <3>6 DEF NothingDated, IsComplete
  <2>5. ASSUME NEW d \in Drives, StartSnapshot(w, d)
        PROVE  NothingDated /\ clock' = clock
    <3> DEFINE t == lastId + 1
    <3>1. t \in SnapshotIds /\ UNCHANGED <<latest, entries, clock>>
      BY <2>5 DEF IInv, TypeOK, StartSnapshot, SnapshotIds
    <3>2. lastId < t
      BY DEF IInv, TypeOK
    <3>3. ~IsComplete(t)
      BY <3>1, <3>2 DEF IInv, RowsNumbered, IsComplete
    <3>4. snapshots' = [snapshots EXCEPT ![t] = ScanningRow(d)]
      BY <2>5 DEF StartSnapshot
    <3>5. ScanningRow(d).status = "scanning"
      BY DEF ScanningRow, NoRow
    <3> HIDE DEF t
    <3>6. \A s \in SnapshotIds :
              /\ snapshots'[s].status = "complete" <=> IsComplete(s)
              /\ IsComplete(s) => snapshots'[s] = snapshots[s]
      BY <3>1, <3>3, <3>4, <3>5 DEF IInv, TypeOK, IsComplete
    <3>7. QED
      BY <3>1, <3>6 DEF NothingDated, IsComplete
  <2>6. QED
    BY <1>1, <2>1, <2>2, <2>3, <2>4, <2>5, QuietSteps DEF WriterStep, Start
<1>3. CASE Open
  <2>1. NothingDated
    BY <1>3 DEF Open, Interrupted, FailedRow, NothingDated, IsComplete, IInv,
       TypeOK, Row
  <2>2. QED
    BY <1>1, <1>3, <2>1 DEF Open, StampKept
<1>4. ASSUME NEW p \in Processes, Crash(p)
      PROVE  /\ NothingDated /\ clock' >= clock
             /\ \A w \in Writers : StampKept(w)
  BY <1>1, <1>4 DEF Crash, NothingDated, IsComplete, StampKept, Idle, Stamping
<1>5. CASE Tick \/ (\E d \in Drives : CreateDrive(d)) \/ UNCHANGED vars
  <2>1. /\ NothingDated /\ \A w \in Writers : StampKept(w)
    BY <1>5 DEF Tick, CreateDrive, vars, NothingDated, IsComplete, StampKept
  <2>2. clock' >= clock
    BY <1>1, <1>5 DEF Tick, CreateDrive, vars, Ticks
  <2>3. QED
    BY <2>1, <2>2
<1>6. QED
  BY <1>2, <1>3, <1>4, <1>5 DEF Next

LEMMA NextDates == IInv /\ IInv' /\ DatesInv /\ [Next]_vars => DatesInv'
<1> SUFFICES ASSUME IInv, IInv', DatesInv, [Next]_vars PROVE DatesInv'
  OBVIOUS
<1>1. CASE \A w \in Writers : ~Complete(w) /\ ~Commit(w)
  BY <1>1, OtherStepsDateNothing, StampsStayNewest DEF IInv, TypeOK, Ticks
<1>2. QED
  BY <1>1, CompleteDates, CommitDates

\* No complete snapshot of a drive is dated later than its view, unless the view
\* is empty: of two scans that overlap the later one wins, for any number.
THEOREM LatestStaysNewest == Spec => []LatestIsNewest
<1>1. Init => DatesInv
  BY DEF Init, DatesInv, DatedBefore, LatestIsNewest, IsComplete, NoRow, Idle,
     StampIsNewest, Stamping
<1>2. IInv /\ IInv' /\ DatesInv /\ [Next]_vars => DatesInv'
  BY NextDates
<1>3. DatesInv => LatestIsNewest
  BY DEF DatesInv
<1>4. QED
  BY Invariance, <1>1, <1>2, <1>3, PTL DEF Spec
=============================================================================
