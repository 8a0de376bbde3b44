------------------------------- MODULE Merge -------------------------------
(***************************************************************************)
(* Merging catalogs: internal/catalog/import.go.                           *)
(*                                                                         *)
(* Several catalog files, on several computers, are scanned into and       *)
(* imported into one another.  ImportCatalog reads a frozen source and     *)
(* works on the target in one transaction, drive by drive and snapshot by  *)
(* snapshot; the transaction is work, which readers see at COMMIT or       *)
(* never.  A scan has the steps of writer.go that decide in which order    *)
(* rows get their IDs, their dates and their place as the view: its first  *)
(* entry stands for all; module Catalog has each, with timeouts and with   *)
(* the 24 hours after which a scan counts as interrupted.                  *)
(*                                                                         *)
(* A scan number stands for all an import copies unchanged: paths, sizes,  *)
(* times, totals.  What the import treats differently is kept apart: the   *)
(* sha256 claims of the entries, the hash mode, the completion time.       *)
(***************************************************************************)
EXTENDS Integers, FiniteSets

CONSTANTS
    Catalogs,    \* catalog files
    Flows,       \* <<s, t>>: catalog s is imported into catalog t
    NumDrives,   \* drive IDs are 1 .. NumDrives, in their ORDER BY d.id
    Home,        \* Home[d]: the catalog in which drive d is created
    OwnName,     \* OwnName[d]: the name its owner gives drive d
    NoName,
    MaxRows,     \* bound: snapshot rows in one catalog
    MaxScans,    \* bound: scans begun anywhere
    MaxTime      \* bound: the last tick of the clock

Drives      == 1 .. NumDrives
SnapshotIds == 1 .. MaxRows
NoSnapshot  == 0

ASSUME FlowsAssumption == Flows \subseteq Catalogs \X Catalogs
ASSUME HomeAssumption  == Home \in [Drives -> Catalogs]
ASSUME NameAssumption  == \A d \in Drives, x \in 0 .. NumDrives :
                              <<OwnName[d], x>> # NoName
ASSUME SizeAssumption  == /\ NumDrives \in Nat \ {0} /\ MaxTime \in Nat \ {0}
                          /\ MaxRows \in Nat /\ MaxScans \in Nat

VARIABLES
    tables,  \* the committed tables of each catalog
    writers, \* the scans that are running, anywhere
    merge,   \* the import that is running
    scans,   \* how many scans have begun anywhere
    clock    \* the time all computers agree on

vars == <<tables, writers, merge, scans, clock>>

-----------------------------------------------------------------------------
(* Rows, tables, names.                                                    *)

NoRow == [status |-> "absent"]

\* A complete row; claim: its entries carry sha256 values.
CompleteRow(d, scan, mode, claim, at) ==
    [status |-> "complete", drive |-> d, scan |-> scan, mode |-> mode,
     claim |-> claim, completedAt |-> at]

UnfinishedRow(d, status) == [status |-> status, drive |-> d]

EmptyTables == [name     |-> [d \in Drives |-> NoName],
                latest   |-> [d \in Drives |-> NoSnapshot],
                rows     |-> [s \in SnapshotIds |-> NoRow],
                lastId   |-> 0,
                receipts |-> {}]

NoMerge == [phase |-> "idle"]

IsComplete(t, s) == t.rows[s].status = "complete"
RowsOf(t, d)     == {s \in 1 .. t.lastId : t.rows[s].drive = d}
Taken(t)         == {t.name[d] : d \in Drives} \ {NoName}

\* importSnapshotDigest hashes the local ID and every field of a snapshot;
\* no two inputs share a SHA-256.
Digest(t, s) == [id |-> s, row |-> t.rows[s]]

\* availableImportedName: the ID of the drive makes the name free.
ImportedName(d, name) == <<name[1], d>>

Init ==
    /\ tables = [c \in Catalogs |-> EmptyTables]
    /\ writers = {}
    /\ merge = NoMerge
    /\ scans = 0
    /\ clock = 1

-----------------------------------------------------------------------------
(* What happens in a catalog between imports.                              *)

\* Mutant: an import does not lock the catalog it writes to.
UnlockedAlways(c) == c \in Catalogs

\* An import into c holds its write lock, and so does a scan that has staged
\* entries; a preview works on a copy of c.
Unlocked(c) ==
    /\ ~(merge.phase # "idle" /\ merge.into = c /\ ~merge.dry)
    /\ \A w \in writers : w.into = c => ~w.stored

CreateDrive(c, d) ==
    /\ Unlocked(c) /\ Home[d] = c
    /\ tables[c].name[d] = NoName
    /\ <<OwnName[d], 0>> \notin Taken(tables[c])
    /\ tables' = [tables EXCEPT ![c].name[d] = <<OwnName[d], 0>>]
    /\ UNCHANGED <<writers, merge, scans, clock>>

InsertRow(t, row) == [t EXCEPT !.rows[t.lastId + 1] = row, !.lastId = @ + 1]

\* A scan of d that is running. row: its snapshot's; stored: it has staged
\* entries; at: the completed_at it will write, 0 until Complete is called.
Writer(c, d, row, scan) ==
    [into |-> c, drive |-> d, row |-> row, scan |-> scan,
     stored |-> FALSE, at |-> 0]

StartSnapshot(c, d) ==
    /\ Unlocked(c) /\ tables[c].name[d] # NoName
    /\ scans < MaxScans /\ tables[c].lastId < MaxRows
    /\ scans' = scans + 1
    /\ tables' = [tables EXCEPT ![c] = InsertRow(@, UnfinishedRow(d, "scanning"))]
    /\ writers' = writers \cup {Writer(c, d, tables[c].lastId + 1, scans')}
    /\ UNCHANGED <<merge, clock>>

\* The first entry takes the write lock, which the transaction then keeps.
Add(w) ==
    /\ ~w.stored /\ w.at = 0 /\ Unlocked(w.into)
    /\ writers' = (writers \ {w}) \cup {[w EXCEPT !.stored = TRUE]}
    /\ UNCHANGED <<tables, merge, scans, clock>>

\* Complete takes the date first; an empty scan has no lock yet.
Complete(w) ==
    /\ w.at = 0
    /\ writers' = (writers \ {w}) \cup {[w EXCEPT !.at = clock]}
    /\ UNCHANGED <<tables, merge, scans, clock>>

MayWrite(w) == w.stored \/ Unlocked(w.into)

\* The two UPDATEs of Complete and its COMMIT, whatever the status of the row
\* has become. The mode is that of StartSnapshot; a full scan that has staged
\* entries has sha256 values.
CommitScan(w, mode) ==
    /\ w.at # 0 /\ MayWrite(w)
    /\ tables' = [tables EXCEPT ![w.into] = [@ EXCEPT
           !.rows[w.row] =
               CompleteRow(w.drive, w.scan, mode, mode = "full" /\ w.stored, w.at),
           !.latest[w.drive] = w.row]]
    /\ writers' = writers \ {w}
    /\ UNCHANGED <<merge, scans, clock>>

\* A scan fails, and its row is marked; or that fails too, or the scan is cut
\* off, and the row stays as it is.
EndScan(w) ==
    /\ \/ tables' = tables
       \/ /\ MayWrite(w)
          /\ tables' = [tables EXCEPT ![w.into] =
                 [@ EXCEPT !.rows[w.row] = UnfinishedRow(w.drive, "failed")]]
    /\ writers' = writers \ {w}
    /\ UNCHANGED <<merge, scans, clock>>

Tick ==
    /\ clock < MaxTime
    /\ clock' = clock + 1
    /\ UNCHANGED <<tables, writers, merge, scans>>

-----------------------------------------------------------------------------
(* ImportCatalog.                                                          *)

\* Mutant: the recovery of migrateCatalogTx forgets status='scanning'.
UnfinishedAny(t) == 1 .. t.lastId

\* The rows migrateCatalogTx may take for scans that were interrupted, the
\* older ones of them.
UnfinishedIn(t) == {s \in 1 .. t.lastId : t.rows[s].status = "scanning"}

\* migrateCatalogTx inside the import: the scans in S were interrupted.
Migrated(t, S) == [t EXCEPT !.rows = [s \in SnapshotIds |->
                      IF s \in S THEN UnfinishedRow(t.rows[s].drive, "failed")
                                 ELSE t.rows[s]]]

\* Bound: there is room for every row the import might insert.
RoomFor(source, target) ==
    source.lastId + target.lastId <= MaxRows
        \/ \A s \in 1 .. source.lastId : IsComplete(source, s) =>
               \E r \in target.receipts : r.digest = Digest(source, s)

\* requireStaticCatalog: nobody has the file open, so nobody scans into it.
Static(c) == \A w \in writers : w.into # c

\* The source is closed, opened immutable and held in a read transaction, so
\* it is read as it is now. A preview copies the target, which has to be
\* closed too; an import waits for its write lock.
BeginImport(source, c, trust, rename, dry) ==
    /\ merge.phase = "idle" /\ <<source, c>> \in Flows
    /\ Static(source) /\ IF dry THEN Static(c) ELSE Unlocked(c)
    /\ RoomFor(tables[source], tables[c])
    /\ \E S \in SUBSET UnfinishedIn(tables[c]) :
           merge' = [phase |-> "drives", into |-> c, source |-> tables[source],
                     base |-> tables[c], work |-> Migrated(tables[c], S),
                     trust |-> trust, rename |-> rename, dry |-> dry,
                     drive |-> 1, done |-> 0]
    /\ UNCHANGED <<tables, writers, scans, clock>>

AtDrive == merge.phase = "drives" /\ merge.drive \in Drives

\* ensureImportedDrive for a drive the target has, or for one it gets under
\* its own name or, with --rename-conflicts, under another.
EnsureDrive ==
    /\ AtDrive
    /\ LET d == merge.drive
           name == merge.source.name[d]
           free == name \notin Taken(merge.work)
           work == IF merge.work.name[d] # NoName \/ name = NoName
                     THEN merge.work
                     ELSE [merge.work EXCEPT
                              !.name[d] = IF free THEN name
                                                  ELSE ImportedName(d, name)]
       IN  /\ \/ merge.work.name[d] # NoName \/ name = NoName
              \/ free \/ merge.rename
           /\ merge' = [merge EXCEPT !.phase = "snapshots", !.work = work,
                                     !.done = 0]
    /\ UNCHANGED <<tables, writers, scans, clock>>

\* The snapshots of the drive are visited in the order of their IDs.
Remaining == {s \in RowsOf(merge.source, merge.drive) : s > merge.done}
AtSnapshot(s) == /\ merge.phase = "snapshots"
                 /\ s \in Remaining /\ \A x \in Remaining : s <= x

SkipIncomplete(s) ==
    /\ AtSnapshot(s)
    /\ ~IsComplete(merge.source, s)
    /\ merge' = [merge EXCEPT !.done = s]
    /\ UNCHANGED <<tables, writers, scans, clock>>

\* Mutant: receipts are not looked up.
ReceiptsOfNothing(s) == {}

\* Mutant: a receipt counts only under the policy it was written for.
ReceiptsOfPolicy(s) == {r \in merge.work.receipts :
                           /\ r.digest = Digest(merge.source, s)
                           /\ r.trusted = merge.trust}

\* The receipt of an earlier import of this very snapshot, if there is one.
ReceiptsOf(s) == {r \in merge.work.receipts : r.digest = Digest(merge.source, s)}

SkipImported(s) ==
    /\ AtSnapshot(s) /\ IsComplete(merge.source, s)
    /\ \E r \in ReceiptsOf(s) : r.trusted = merge.trust
    /\ merge' = [merge EXCEPT !.done = s]
    /\ UNCHANGED <<tables, writers, scans, clock>>

\* What the hash policy leaves of the claims, and of the mode, of a row.
KeptClaim(row, trust) == row.claim /\ trust
KeptMode(row, trust)  == IF row.claim /\ ~trust THEN "imported" ELSE row.mode

\* Mutant: the policy is applied but the receipt keeps the old one.
UpdateHashPolicySilently(s) ==
    /\ AtSnapshot(s) /\ IsComplete(merge.source, s)
    /\ \E r \in ReceiptsOf(s) :
          LET row  == merge.source.rows[s]
              work == [merge.work EXCEPT !.rows[r.snapshot] =
                          [@ EXCEPT !.claim = KeptClaim(row, merge.trust),
                                    !.mode = KeptMode(row, merge.trust)]]
          IN  /\ r.trusted # merge.trust
              /\ merge' = [merge EXCEPT !.done = s, !.work = work]
    /\ UNCHANGED <<tables, writers, scans, clock>>

\* updateImportedHashPolicy, then the receipt.
UpdateHashPolicy(s) ==
    /\ AtSnapshot(s) /\ IsComplete(merge.source, s)
    /\ \E r \in ReceiptsOf(s) :
          LET row  == merge.source.rows[s]
              work == [merge.work EXCEPT
                          !.rows[r.snapshot] =
                              [@ EXCEPT !.claim = KeptClaim(row, merge.trust),
                                        !.mode = KeptMode(row, merge.trust)],
                          !.receipts = (@ \ {r}) \cup
                              {[r EXCEPT !.trusted = merge.trust]}]
          IN  /\ r.trusted # merge.trust
              /\ merge' = [merge EXCEPT !.done = s, !.work = work]
    /\ UNCHANGED <<tables, writers, scans, clock>>

\* Mutant: an imported snapshot always becomes the view.
BecomesViewAlways(work, d, at) == TRUE

\* The last comparison of the loop: ties go to the imported snapshot.
BecomesView(work, d, at) ==
    \/ work.latest[d] = NoSnapshot
    \/ at >= work.rows[work.latest[d]].completedAt

\* A new row, its entries, its receipt, and perhaps a new view.
ImportSnapshot(s) ==
    /\ AtSnapshot(s) /\ IsComplete(merge.source, s)
    /\ ReceiptsOf(s) = {}
    /\ LET row  == merge.source.rows[s]
           new  == merge.work.lastId + 1
           copy == [row EXCEPT !.claim = KeptClaim(row, merge.trust),
                               !.mode = KeptMode(row, merge.trust)]
           work == [InsertRow(merge.work, copy) EXCEPT
                       !.receipts = @ \cup {[digest |-> Digest(merge.source, s),
                                             snapshot |-> new,
                                             trusted |-> merge.trust]},
                       !.latest[merge.drive] =
                           IF BecomesView(merge.work, merge.drive, row.completedAt)
                             THEN new ELSE @]
       IN  merge' = [merge EXCEPT !.done = s, !.work = work]
    /\ UNCHANGED <<tables, writers, scans, clock>>

\* Mutant: the loop over the drives ends one too late.
NextDriveTooMany ==
    /\ merge.phase = "snapshots" /\ Remaining = {}
    /\ merge' = [merge EXCEPT !.drive = @ + 1,
                     !.phase = IF merge.drive > NumDrives THEN "ready"
                                                          ELSE "drives"]
    /\ UNCHANGED <<tables, writers, scans, clock>>

\* Mutant: the loop over the drives ends one too early.
NextDriveTooFew ==
    /\ merge.phase = "snapshots" /\ Remaining = {}
    /\ merge' = [merge EXCEPT !.drive = @ + 1,
                     !.phase = IF merge.drive + 1 >= NumDrives THEN "ready"
                                                               ELSE "drives"]
    /\ UNCHANGED <<tables, writers, scans, clock>>

NextDrive ==
    /\ merge.phase = "snapshots" /\ Remaining = {}
    /\ merge' = [merge EXCEPT !.drive = @ + 1,
                     !.phase = IF merge.drive = NumDrives THEN "ready"
                                                          ELSE "drives"]
    /\ UNCHANGED <<tables, writers, scans, clock>>

Commit ==
    /\ merge.phase = "ready" /\ ~merge.dry
    /\ tables' = [tables EXCEPT ![merge.into] = merge.work]
    /\ merge' = NoMerge
    /\ UNCHANGED <<writers, scans, clock>>

\* The preview is rolled back; so is an import that a name conflict, a
\* validation, an error of the database or a crash ends at any point.
Rollback ==
    /\ merge.phase # "idle"
    /\ merge' = NoMerge
    /\ UNCHANGED <<tables, writers, scans, clock>>

ImportStep ==
    \/ EnsureDrive \/ NextDrive \/ Commit \/ Rollback
    \/ \E s \in SnapshotIds : \/ SkipIncomplete(s) \/ SkipImported(s)
                              \/ UpdateHashPolicy(s) \/ ImportSnapshot(s)

Next ==
    \/ \E c \in Catalogs, d \in Drives :
           CreateDrive(c, d) \/ StartSnapshot(c, d)
    \/ \E w \in writers :
           \/ Add(w) \/ Complete(w) \/ EndScan(w)
           \/ \E mode \in {"none", "full"} : CommitScan(w, mode)
    \/ \E s, c \in Catalogs, trust, rename, dry \in BOOLEAN :
           BeginImport(s, c, trust, rename, dry)
    \/ ImportStep
    \/ Tick

Spec == Init /\ [][Next]_vars

-----------------------------------------------------------------------------
(* Properties.                                                             *)

Modes == {"none", "full", "imported"}
Names == {NoName} \cup {<<OwnName[d], x>> : d \in Drives, x \in 0 .. NumDrives}

CompleteRows == [status : {"complete"}, drive : Drives, scan : 1 .. MaxScans,
                 mode : Modes, claim : BOOLEAN, completedAt : 1 .. MaxTime]

Rows == {NoRow} \cup CompleteRows
            \cup [status : {"scanning", "failed"}, drive : Drives]

Receipts == [digest : [id : SnapshotIds, row : CompleteRows],
             snapshot : SnapshotIds, trusted : BOOLEAN]

Writers == [into : Catalogs, drive : Drives, row : SnapshotIds,
            scan : 1 .. MaxScans, stored : BOOLEAN, at : 0 .. MaxTime]

IsTables(t) ==
    /\ t.name \in [Drives -> Names]
    /\ t.latest \in [Drives -> 0 .. t.lastId]
    /\ t.lastId \in 0 .. MaxRows
    /\ t.rows \in [SnapshotIds -> Rows]
    /\ t.receipts \subseteq Receipts

\* The tables, the running scans, and the position of a running import in its
\* two loops, have the shape that the schema, the code of SnapshotWriter and
\* that of ImportCatalog give them.
TypeOK ==
    /\ \A c \in Catalogs : IsTables(tables[c])
    /\ writers \subseteq Writers
    /\ merge.phase # "idle" =>
           /\ IsTables(merge.source) /\ IsTables(merge.base)
           /\ IsTables(merge.work)
           /\ merge.phase \in {"drives", "snapshots"} => merge.drive \in Drives
           /\ merge.phase = "ready" => merge.drive = NumDrives + 1
    /\ scans \in 0 .. MaxScans /\ clock \in 1 .. MaxTime

\* A receipt is the key of one snapshot, and the row it leads to is what the
\* receipt says: the snapshot it was made from under the hash policy it
\* records, however often the policy was changed (ImportCatalog's receipt
\* statements and updateImportedHashPolicy).
ReceiptsTellTheTruth ==
    \A c \in Catalogs : \A r \in tables[c].receipts :
        /\ \A q \in tables[c].receipts :
               q.digest = r.digest \/ q.snapshot = r.snapshot => q = r
        /\ tables[c].rows[r.snapshot] =
               [r.digest.row EXCEPT !.claim = KeptClaim(r.digest.row, r.trusted),
                                    !.mode = KeptMode(r.digest.row, r.trusted)]

\* When an import is about to commit, every complete snapshot of the source
\* is in the target under the policy that was asked for, and so is its drive
\* (docs/CATALOG_IMPORT.md: "every complete snapshot are preserved").
EveryCompleteArrives ==
    merge.phase = "ready" =>
        \A s \in 1 .. merge.source.lastId : IsComplete(merge.source, s) =>
            /\ merge.work.name[merge.source.rows[s].drive] # NoName
            /\ \E r \in merge.work.receipts :
                   r.digest = Digest(merge.source, s) /\ r.trusted = merge.trust

\* An import of what is already there changes nothing but interrupted scans
\* (docs/ARCHITECTURE.md: "repeats are idempotent").
RepeatChangesNothing ==
    /\ merge.phase = "ready"
    /\ \A d \in Drives : merge.source.name[d] # NoName =>
                              merge.base.name[d] # NoName
    /\ \A s \in 1 .. merge.source.lastId : IsComplete(merge.source, s) =>
           \E r \in merge.base.receipts :
               r.digest = Digest(merge.source, s) /\ r.trusted = merge.trust
    => \E S \in SUBSET UnfinishedIn(merge.base) :
           merge.work = Migrated(merge.base, S)

\* While catalogs are only imported from where they were scanned, no catalog
\* ever holds one scan twice, whatever policies its imports asked for
\* (ImportCatalog's receipts).  Not so along a chain of imports: the digest
\* covers the claims, which a change of policy in the middle changes.
NoScanTwice ==
    \A c \in Catalogs : LET t == tables[c] IN
        \A r, s \in 1 .. t.lastId :
            /\ IsComplete(t, r) /\ IsComplete(t, s)
            /\ t.rows[r].scan = t.rows[s].scan
            => r = s

\* What a catalog has of its own stays: no import renames a drive, or changes
\* or drops a complete snapshot that did not come from an import
\* (docs/CATALOG_IMPORT.md: "its target-side name ... stay unchanged").
OwnRowsStay ==
    [][\A c \in Catalogs :
          /\ \A d \in Drives : tables[c].name[d] # NoName =>
                 tables'[c].name[d] = tables[c].name[d]
          /\ \A s \in 1 .. tables[c].lastId :
                 /\ IsComplete(tables[c], s)
                 /\ \A r \in tables[c].receipts : r.snapshot # s
                 => tables'[c].rows[s] = tables[c].rows[s]]_vars

\* The snapshots of d that are complete in u and were not in t.
Fresh(t, u, d) == {s \in RowsOf(u, d) : IsComplete(u, s) /\ ~IsComplete(t, s)}

\* u shows a snapshot of d that is as new as s.
ViewReaches(u, d, s) ==
    /\ u.latest[d] # NoSnapshot
    /\ u.rows[s].completedAt <= u.rows[u.latest[d]].completedAt

\* As long as the computers agree on the time, the view of a drive only moves
\* forward: whatever a step completes, one scan or all that an import brings in
\* the order of its IDs, the view is then as new as that and as the view
\* before (the end of ImportCatalog's loop; the write lock, which a scan takes
\* before its date). The exception is an empty scan, which Complete dates
\* before it waits for the lock.
ViewMovesForward ==
    [][\A c \in Catalogs, d \in Drives :
          LET t == tables[c]
              u == tables'[c]
          IN  \/ \E w \in writers : /\ w.into = c /\ ~w.stored
                                    /\ Fresh(t, u, d) = {w.row}
              \/ \A s \in Fresh(t, u, d) \cup ({t.latest[d]} \ {NoSnapshot}) :
                     ViewReaches(u, d, s)]_vars

\* An import is one step for everybody else: its receipts appear only when a
\* whole, real import ends, and nothing was written to the target since it
\* was read, so no scan that was committed meanwhile is lost.
MergeIsAtomic ==
    [][\A c \in Catalogs : tables'[c].receipts # tables[c].receipts =>
          /\ merge.phase = "ready" /\ merge.into = c /\ ~merge.dry
          /\ tables[c] = merge.base]_vars
=============================================================================
