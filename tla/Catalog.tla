------------------------------ MODULE Catalog ------------------------------
(***************************************************************************)
(* The catalog database of ColdShelf while scans write to it:              *)
(* internal/catalog/writer.go (SnapshotWriter) and the parts of            *)
(* internal/catalog/db.go that every command runs (Open, migrate,          *)
(* CreateDrive).                                                           *)
(*                                                                         *)
(* A scan is a sequence of short database steps.  The row of its snapshot  *)
(* is committed first, as 'scanning'; its entries and the two final        *)
(* UPDATEs go through one transaction, which takes SQLite's only write     *)
(* lock at its first statement and keeps it until COMMIT or ROLLBACK.  Any *)
(* other write waits for the lock and gives up after the busy timeout; a   *)
(* step named ...Busy is that giving up.  Another process may Open the     *)
(* catalog between any two steps, and any process may die between them.    *)
(***************************************************************************)
EXTENDS Integers, FiniteSets

CONSTANTS
    Drives,       \* the IDs newDriveID can draw
    Writers,      \* the goroutines and commands that drive a SnapshotWriter
    Processes,    \* the processes that have the catalog file open
    Host,         \* Host[w]: the process writer w runs in
    Paths,        \* catalog paths
    Kind,         \* Kind[p]: what is at p, as the entries table spells it
    NoDrive,      \* the drive of a row or writer that does not exist
    NoWriter,     \* nobody holds the write lock
    StaleAfter,   \* 24 hours, in ticks of the clock
    MaxSnapshot,  \* bound: snapshot rows ever inserted
    MaxClock,     \* bound: the last tick of the wall clock
    MaxErrors     \* bound: unreadable items counted in one scan

SnapshotIds == 1 .. MaxSnapshot
NoSnapshot  == 0
Ticks       == 0 .. MaxClock
NoTick      == -1

ASSUME HostAssumption  == Host \in [Writers -> Processes]
ASSUME KindAssumption  == Kind \in [Paths -> {"file", "directory", "symlink"}]
ASSUME SentinelAssumption == NoWriter \notin Writers /\ NoDrive \notin Drives
ASSUME PathsAssumption == IsFiniteSet(Paths)
ASSUME BoundsAssumption ==
    /\ StaleAfter \in Nat /\ MaxSnapshot \in Nat
    /\ MaxClock \in Nat /\ MaxErrors \in Nat

VARIABLES
    clock,      \* time.Now().Unix()
    drives,     \* the committed rows of drives
    latest,     \* drives.latest_snapshot_id, NoSnapshot for NULL
    lastId,     \* the AUTOINCREMENT counter of snapshots
    snapshots,  \* the committed rows of snapshots
    entries,    \* the committed rows of entries, by snapshot_id
    lock,       \* who holds the write lock
    writers     \* each SnapshotWriter and the call it is in

vars == <<clock, drives, latest, lastId, snapshots, entries, lock, writers>>

-----------------------------------------------------------------------------
(* Rows and writers.                                                       *)

NoRow == [status |-> "absent", drive |-> NoDrive, startedAt |-> NoTick,
          completedAt |-> NoTick, fileCount |-> 0, directoryCount |-> 0,
          errorCount |-> 0]

ScanningRow(d) == [NoRow EXCEPT !.status = "scanning", !.drive = d,
                                !.startedAt = clock]

FailedRow(row) == [row EXCEPT !.status = "failed", !.completedAt = clock]

FilesIn(tree)       == {p \in tree : Kind[p] = "file"}
DirectoriesIn(tree) == {p \in tree : Kind[p] = "directory"}

Idle == [call |-> "idle", snapshot |-> NoSnapshot, drive |-> NoDrive,
         staged |-> {}, fileCount |-> 0, directoryCount |-> 0,
         errorCount |-> 0, now |-> NoTick, outcome |-> "none"]

\* The calls in which the entry transaction of a writer is open.
InTransaction == {"open", "failing", "finalizing", "pointing", "committing"}
Scanning      == InTransaction \cup {"starting"}
Calls         == Scanning \cup {"idle", "marking", "reading", "returned"}

At(w, call) == writers[w].call = call

MayWrite(w) == lock \in {NoWriter, w}

\* writer w moves on to another call, everything else about it unchanged.
Goto(w, call) == writers' = [writers EXCEPT ![w].call = call]

\* The transaction of w has ended: nothing is left of what it staged.
EndTransaction(w) ==
    writers' = [writers EXCEPT ![w].call = "marking", ![w].staged = {}]

\* What the caller of the writer is told when its last call returns.
Return(w, result) ==
    writers' = [writers EXCEPT ![w].call = "returned", ![w].outcome = result]

Init ==
    /\ clock = 0
    /\ drives = {}
    /\ latest = [d \in Drives |-> NoSnapshot]
    /\ lastId = 0
    /\ snapshots = [s \in SnapshotIds |-> NoRow]
    /\ entries = [s \in SnapshotIds |-> {}]
    /\ lock = NoWriter
    /\ writers = [w \in Writers |-> Idle]

-----------------------------------------------------------------------------
(* StartSnapshot.                                                          *)

\* One autocommit INSERT.  newDriveID draws a fresh ID.
CreateDrive(d) ==
    /\ lock = NoWriter
    /\ d \notin drives
    /\ drives' = drives \cup {d}
    /\ UNCHANGED <<clock, latest, lastId, snapshots, entries, lock, writers>>

\* GetDrive finds the drive and the autocommit INSERT of the 'scanning' row
\* gets the lock for its own duration.  ClockRoom keeps a row from being
\* started too late in the bounded clock for it ever to become stale.
ClockRoom == clock + StaleAfter < MaxClock

StartSnapshot(w, d) ==
    /\ At(w, "idle")
    /\ d \in drives
    /\ lock = NoWriter
    /\ lastId < MaxSnapshot /\ ClockRoom
    /\ lastId' = lastId + 1
    /\ snapshots' = [snapshots EXCEPT ![lastId + 1] = ScanningRow(d)]
    /\ writers' = [writers EXCEPT ![w] = [Idle EXCEPT !.call = "starting",
                                                      !.snapshot = lastId + 1,
                                                      !.drive = d]]
    /\ UNCHANGED <<clock, drives, latest, entries, lock>>

\* The INSERT of the row times out: StartSnapshot returns an error.
StartBusy(w, d) ==
    /\ At(w, "idle")
    /\ d \in drives
    /\ ~MayWrite(w)
    /\ Return(w, "error")
    /\ UNCHANGED <<clock, drives, latest, lastId, snapshots, entries, lock>>

\* BeginTx sends a deferred BEGIN and Prepare compiles: neither takes the
\* lock.
BeginTx(w) ==
    /\ At(w, "starting")
    /\ Goto(w, "open")
    /\ UNCHANGED <<clock, drives, latest, lastId, snapshots, entries, lock>>

\* Either of them fails (a cancelled context, no connection): StartSnapshot
\* rolls back what there is and goes on to markSnapshotFailed.
BeginTxFails(w) ==
    /\ At(w, "starting")
    /\ Goto(w, "marking")
    /\ UNCHANGED <<clock, drives, latest, lastId, snapshots, entries, lock>>

-----------------------------------------------------------------------------
(* Add and AddError.                                                       *)

\* Mutant: every item that is not a directory is counted as a file.
StageCountingLinks(w, p) ==
    writers' = [writers EXCEPT
        ![w].staged         = @ \cup {p},
        ![w].fileCount      = IF Kind[p] # "directory" THEN @ + 1 ELSE @,
        ![w].directoryCount = IF Kind[p] = "directory" THEN @ + 1 ELSE @]

\* The row goes into the transaction, then the totals in memory follow.
Stage(w, p) ==
    writers' = [writers EXCEPT
        ![w].staged         = @ \cup {p},
        ![w].fileCount      = IF Kind[p] = "file" THEN @ + 1 ELSE @,
        ![w].directoryCount = IF Kind[p] = "directory" THEN @ + 1 ELSE @]

\* Mutant: entries are inserted outside the transaction, each committed at
\* once.
AddAutocommit(w, p) ==
    /\ At(w, "open")
    /\ MayWrite(w)
    /\ p \notin writers[w].staged
    /\ Stage(w, p)
    /\ lock' = w
    /\ entries' = [entries EXCEPT ![writers[w].snapshot] = @ \cup {p}]
    /\ UNCHANGED <<clock, drives, latest, lastId, snapshots>>

\* The first INSERT of the transaction takes the write lock.
Add(w, p) ==
    /\ At(w, "open")
    /\ MayWrite(w)
    /\ p \notin writers[w].staged
    /\ Stage(w, p)
    /\ lock' = w
    /\ UNCHANGED <<clock, drives, latest, lastId, snapshots, entries>>

\* UNIQUE(snapshot_id, path) rejects the INSERT: the transaction stays open
\* and locked, and every caller reacts by calling Fail.
AddDuplicate(w, p) ==
    /\ At(w, "open")
    /\ p \in writers[w].staged
    /\ Goto(w, "failing")
    /\ UNCHANGED <<clock, drives, latest, lastId, snapshots, entries, lock>>

\* The INSERT waits for somebody else's transaction and times out.
AddBusy(w) ==
    /\ At(w, "open")
    /\ ~MayWrite(w)
    /\ Goto(w, "failing")
    /\ UNCHANGED <<clock, drives, latest, lastId, snapshots, entries, lock>>

AddError(w) ==
    /\ At(w, "open")
    /\ writers[w].errorCount < MaxErrors
    /\ writers' = [writers EXCEPT ![w].errorCount = @ + 1]
    /\ UNCHANGED <<clock, drives, latest, lastId, snapshots, entries, lock>>

\* The walk or the parser that feeds Add returns an error, or the command is
\* interrupted: the caller calls Fail.
SourceFails(w) ==
    /\ At(w, "open")
    /\ Goto(w, "failing")
    /\ UNCHANGED <<clock, drives, latest, lastId, snapshots, entries, lock>>

-----------------------------------------------------------------------------
(* Complete.                                                               *)

\* Mutant: the snapshot is dated by the moment its scan began.
StampedNowAtStart(w) == snapshots[writers[w].snapshot].startedAt

\* The time Complete takes once and writes to completed_at.
StampedNow(w) == clock

\* closed is set, the statement is closed and the time is taken, before the
\* first UPDATE asks for the lock.
Complete(w) ==
    /\ At(w, "open")
    /\ writers' = [writers EXCEPT ![w].call = "finalizing",
                                  ![w].now = StampedNow(w)]
    /\ UNCHANGED <<clock, drives, latest, lastId, snapshots, entries, lock>>

\* UPDATE snapshots, in the transaction: an empty scan takes the lock here.
Finalize(w) ==
    /\ At(w, "finalizing")
    /\ MayWrite(w)
    /\ lock' = w
    /\ Goto(w, "pointing")
    /\ UNCHANGED <<clock, drives, latest, lastId, snapshots, entries>>

\* UPDATE drives, in the transaction.
PointDrive(w) ==
    /\ At(w, "pointing")
    /\ Goto(w, "committing")
    /\ UNCHANGED <<clock, drives, latest, lastId, snapshots, entries, lock>>

\* One of the two UPDATEs, or closing the statement, returns an error.
CompleteFails(w) ==
    /\ writers[w].call \in {"finalizing", "pointing"}
    /\ Goto(w, "failing")
    /\ UNCHANGED <<clock, drives, latest, lastId, snapshots, entries, lock>>

\* The row as the UPDATE of Complete leaves it: no condition on the status
\* it had before.
CompletedRow(w) ==
    [snapshots[writers[w].snapshot] EXCEPT
         !.status = "complete", !.completedAt = writers[w].now,
         !.fileCount = writers[w].fileCount,
         !.directoryCount = writers[w].directoryCount,
         !.errorCount = writers[w].errorCount]

\* COMMIT publishes the entries and both UPDATEs at once.
Commit(w) ==
    /\ At(w, "committing")
    /\ snapshots' = [snapshots EXCEPT ![writers[w].snapshot] = CompletedRow(w)]
    /\ entries' = [entries EXCEPT ![writers[w].snapshot] = writers[w].staged]
    /\ latest' = [latest EXCEPT ![writers[w].drive] = writers[w].snapshot]
    /\ lock' = NoWriter
    /\ writers' = [writers EXCEPT ![w].call = "reading", ![w].staged = {}]
    /\ UNCHANGED <<clock, drives, lastId>>

\* COMMIT fails and the transaction is gone.
CommitFails(w) ==
    /\ At(w, "committing")
    /\ lock' = NoWriter
    /\ EndTransaction(w)
    /\ UNCHANGED <<clock, drives, latest, lastId, snapshots, entries>>

\* GetSnapshot reads the committed row back.
ReadBack(w) ==
    /\ At(w, "reading")
    /\ Return(w, "complete")
    /\ UNCHANGED <<clock, drives, latest, lastId, snapshots, entries, lock>>

\* Mutant: Complete treats a failed read-back like every other error.
ReadBackFailsMarks(w) ==
    /\ At(w, "reading")
    /\ Goto(w, "marking")
    /\ UNCHANGED <<clock, drives, latest, lastId, snapshots, entries, lock>>

\* The read fails: Complete returns an error although the snapshot is in.
ReadBackFails(w) ==
    /\ At(w, "reading")
    /\ Return(w, "error")
    /\ UNCHANGED <<clock, drives, latest, lastId, snapshots, entries, lock>>

-----------------------------------------------------------------------------
(* Fail and markSnapshotFailed.                                            *)

ReleasedLock(w) == IF lock = w THEN NoWriter ELSE lock

\* Mutant: the lock of the failed transaction is kept.
RollbackForgotten(w) ==
    /\ At(w, "failing")
    /\ lock' = lock
    /\ EndTransaction(w)
    /\ UNCHANGED <<clock, drives, latest, lastId, snapshots, entries>>

\* Fail, and Complete on an error, first give the transaction up.
Rollback(w) ==
    /\ At(w, "failing")
    /\ lock' = ReleasedLock(w)
    /\ EndTransaction(w)
    /\ UNCHANGED <<clock, drives, latest, lastId, snapshots, entries>>

\* One autocommit UPDATE, by another connection than the transaction had.
MarkFailed(w) ==
    /\ At(w, "marking")
    /\ lock = NoWriter
    /\ snapshots' = [snapshots EXCEPT ![writers[w].snapshot] = FailedRow(@)]
    /\ Return(w, "error")
    /\ UNCHANGED <<clock, drives, latest, lastId, entries, lock>>

\* The UPDATE times out; every caller discards the error it returns.
MarkBusy(w) ==
    /\ At(w, "marking")
    /\ ~MayWrite(w)
    /\ Return(w, "error")
    /\ UNCHANGED <<clock, drives, latest, lastId, snapshots, entries, lock>>

\* The goroutine or command ends; another scan may use its name.
Leave(w) ==
    /\ At(w, "returned")
    /\ writers' = [writers EXCEPT ![w] = Idle]
    /\ UNCHANGED <<clock, drives, latest, lastId, snapshots, entries, lock>>

-----------------------------------------------------------------------------
(* Open, crashes and time.                                                 *)

\* Mutant: the recovery of migrateCatalogTx forgets status='scanning'.
InterruptedAny(s) ==
    /\ snapshots[s].status # "absent"
    /\ snapshots[s].startedAt < clock - StaleAfter

\* Mutant: the comparison with the limit is turned around.
InterruptedLately(s) ==
    /\ snapshots[s].status = "scanning"
    /\ snapshots[s].startedAt > clock - StaleAfter

\* What migrateCatalogTx takes for a scan that was interrupted.
Interrupted(s) ==
    /\ snapshots[s].status = "scanning"
    /\ snapshots[s].startedAt < clock - StaleAfter

\* Open runs migrate, one write transaction; with the lock held by a scan it
\* fails and changes nothing.
Open ==
    /\ lock = NoWriter
    /\ snapshots' = [s \in SnapshotIds |-> IF Interrupted(s)
                                             THEN FailedRow(snapshots[s])
                                             ELSE snapshots[s]]
    /\ UNCHANGED <<clock, drives, latest, lastId, entries, lock, writers>>

\* Process p dies: SQLite drops its transactions, the WAL has no COMMIT of
\* theirs.
Crash(p) ==
    /\ \E w \in Writers : Host[w] = p /\ ~At(w, "idle")
    /\ writers' = [w \in Writers |-> IF Host[w] = p THEN Idle ELSE writers[w]]
    /\ lock' = IF \E w \in Writers : Host[w] = p /\ lock = w
                 THEN NoWriter ELSE lock
    /\ UNCHANGED <<clock, drives, latest, lastId, snapshots, entries>>

\* The wall clock moves on by any amount: a suspended machine skips hours.
Tick ==
    /\ \E t \in Ticks : t > clock /\ clock' = t
    /\ UNCHANGED <<drives, latest, lastId, snapshots, entries, lock, writers>>

-----------------------------------------------------------------------------
WriterStep(w) ==
    \/ BeginTx(w) \/ BeginTxFails(w)
    \/ \E p \in Paths : Add(w, p) \/ AddDuplicate(w, p)
    \/ AddBusy(w) \/ AddError(w) \/ SourceFails(w)
    \/ Complete(w) \/ Finalize(w) \/ PointDrive(w) \/ CompleteFails(w)
    \/ Commit(w) \/ CommitFails(w) \/ ReadBack(w) \/ ReadBackFails(w)
    \/ Rollback(w) \/ MarkFailed(w) \/ MarkBusy(w)

Start(w) == \E d \in Drives : StartSnapshot(w, d) \/ StartBusy(w, d)

Next ==
    \/ \E d \in Drives : CreateDrive(d)
    \/ \E w \in Writers : Start(w) \/ WriterStep(w) \/ Leave(w)
    \/ Open
    \/ \E p \in Processes : Crash(p)
    \/ Tick

Spec == Init /\ [][Next]_vars

-----------------------------------------------------------------------------
(* Properties.                                                             *)

Row == [status : {"absent", "scanning", "complete", "failed"},
        drive : Drives \cup {NoDrive},
        startedAt : Ticks \cup {NoTick}, completedAt : Ticks \cup {NoTick},
        fileCount : Nat, directoryCount : Nat, errorCount : 0 .. MaxErrors]

Writer == [call : Calls, snapshot : 0 .. MaxSnapshot,
           drive : Drives \cup {NoDrive}, staged : SUBSET Paths,
           fileCount : Nat, directoryCount : Nat, errorCount : 0 .. MaxErrors,
           now : Ticks \cup {NoTick}, outcome : {"none", "complete", "error"}]

\* The tables and the writers have the shape the schema and the struct give
\* them (db.go's CREATE TABLE statements, writer.go's SnapshotWriter).
TypeOK ==
    /\ clock \in Ticks
    /\ drives \in SUBSET Drives
    /\ latest \in [Drives -> 0 .. MaxSnapshot]
    /\ lastId \in 0 .. MaxSnapshot
    /\ snapshots \in [SnapshotIds -> Row]
    /\ entries \in [SnapshotIds -> SUBSET Paths]
    /\ lock \in Writers \cup {NoWriter}
    /\ writers \in [Writers -> Writer]

IsComplete(s) == snapshots[s].status = "complete"

\* What readers join through drives.latest_snapshot_id is always a complete
\* snapshot of that very drive, whatever scans, failures, recoveries and
\* crashes come between (writer.go Complete, markSnapshotFailed).
LatestIsComplete ==
    \A d \in Drives : latest[d] # NoSnapshot =>
        IsComplete(latest[d]) /\ snapshots[latest[d]].drive = d

\* No entry of a scan that is running, failed or was cut off by a crash is
\* ever in the tables: a snapshot has a tree only when it is complete.
NoPartialTree ==
    \A s \in SnapshotIds : entries[s] # {} => IsComplete(s)

\* The totals of a complete snapshot are those of the rows it really has,
\* although the code counts in memory while it inserts (writer.go Add).
CountsMatchEntries ==
    \A s \in SnapshotIds : IsComplete(s) =>
        /\ snapshots[s].fileCount = Cardinality(FilesIn(entries[s]))
        /\ snapshots[s].directoryCount = Cardinality(DirectoriesIn(entries[s]))

\* Two scans of one drive may overlap, and the last to commit becomes the
\* view.  A scan that recorded anything stamped completed_at under the lock,
\* so no complete snapshot of its drive is dated later (ListSnapshots sorts
\* by that date).  Complete takes the date of an empty scan before it waits
\* for the lock, which is why the empty ones are left out.
LatestIsNewest ==
    \A d \in Drives, s \in SnapshotIds :
        /\ latest[d] # NoSnapshot /\ entries[latest[d]] # {}
        /\ IsComplete(s) /\ snapshots[s].drive = d
        => snapshots[s].completedAt <= snapshots[latest[d]].completedAt

\* Once complete, a snapshot is never touched again: no late failure, no
\* recovery by another process and no other scan changes its row or its tree.
CompleteIsForever ==
    [][\A s \in SnapshotIds : IsComplete(s) =>
           snapshots'[s] = snapshots[s] /\ entries'[s] = entries[s]]_vars

\* docs/ARCHITECTURE.md, "Snapshot transaction": a scan that fails has its
\* snapshot marked failed by the time its caller is told.
FailedScanIsMarked ==
    \A w \in Writers :
        /\ At(w, "returned") /\ writers[w].outcome = "error"
        /\ writers[w].snapshot # NoSnapshot
        => snapshots[writers[w].snapshot].status \in {"failed", "complete"}

\* docs/ARCHITECTURE.md, "Snapshot transaction": "A failed snapshot never
\* becomes the drive's latest view", as what a step may never do.
FailedNeverBecomesLatest ==
    [][\A d \in Drives : latest'[d] # latest[d] =>
           snapshots[latest'[d]].status # "failed"]_vars

\* Every scan that began ends: its caller gets an answer, or its process dies.
\* Nobody waits for the write lock for ever, although scans share it.
ScanEnds ==
    \A w \in Writers : writers[w].call \notin {"idle", "returned"}
                           ~> writers[w].call \in {"idle", "returned"}

\* No snapshot stays 'scanning' for good, whatever happened to its writer, as
\* long as the catalog is opened again after the 24 hours.
NothingScansForever ==
    \A s \in SnapshotIds : snapshots[s].status = "scanning"
                               ~> snapshots[s].status # "scanning"

-----------------------------------------------------------------------------
(* The inductive invariant: what each writer knows about the tables and    *)
(* the lock between two of its steps.                                      *)

Busy(w) == writers[w].call \notin {"idle", "returned"}

\* Rows are numbered without gaps, and each belongs to a drive.
RowsNumbered ==
    \A s \in SnapshotIds :
        /\ snapshots[s].status = "absent" <=> lastId < s
        /\ snapshots[s].status # "absent" => snapshots[s].drive \in Drives

\* A writer in a call has a row of its own, of the drive it was given, and
\* the row is complete exactly when the writer has committed.
WriterHasRow ==
    \A w \in Writers : Busy(w) =>
        LET s == writers[w].snapshot
        IN  /\ s \in 1 .. lastId
            /\ writers[w].drive = snapshots[s].drive
            /\ IsComplete(s) <=> At(w, "reading")

RowsNotShared ==
    \A v, w \in Writers :
        Busy(v) /\ Busy(w) /\ writers[v].snapshot = writers[w].snapshot => v = w

\* Who holds the lock is in a transaction, who has staged rows or is past its
\* first UPDATE holds it.
LockHeldInTransaction ==
    \A w \in Writers :
        /\ lock = w => writers[w].call \in InTransaction
        /\ writers[w].staged # {} => lock = w
        /\ writers[w].call \in {"pointing", "committing"} => lock = w

\* The totals a writer keeps in memory are those of the rows it has staged.
CountsMatchStaged ==
    \A w \in Writers : writers[w].call \in Scanning =>
        /\ writers[w].fileCount = Cardinality(FilesIn(writers[w].staged))
        /\ writers[w].directoryCount
               = Cardinality(DirectoriesIn(writers[w].staged))

\* The inductive invariant of the catalog: the safety properties above and the
\* agreement between writers, lock and tables that every step relies on.
IInv ==
    /\ TypeOK
    /\ LatestIsComplete /\ NoPartialTree /\ CountsMatchEntries
    /\ RowsNumbered /\ WriterHasRow /\ RowsNotShared
    /\ LockHeldInTransaction /\ CountsMatchStaged

-----------------------------------------------------------------------------
(* The catalog implements the shelf: a version is a complete snapshot, a   *)
(* scan has recorded what its open transaction has staged.                 *)

ShelfScan ==
    [w \in Writers |->
        IF writers[w].call \in Scanning
          THEN [is |-> "recording", drive |-> writers[w].drive,
                tree |-> writers[w].staged]
          ELSE [is |-> "quiet"]]

ShelfPublished ==
    [s \in SnapshotIds |->
        IF IsComplete(s)
          THEN [is |-> "published", drive |-> snapshots[s].drive,
                tree |-> entries[s]]
          ELSE [is |-> "unpublished"]]

Shelf == INSTANCE ShelfView WITH
             Scans <- Writers, Versions <- SnapshotIds, NoVersion <- NoSnapshot,
             current <- latest, published <- ShelfPublished, scan <- ShelfScan

\* Readers see whole versions and nothing else: every step of the catalog is
\* an atomic publication, a scan's private progress, or invisible.
ImplementsShelf == Shelf!Spec
=============================================================================
