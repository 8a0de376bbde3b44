------------------------------ MODULE Export -------------------------------
(***************************************************************************)
(* Catalog.ExportJSON (internal/catalog/queries.go) beside running scans.  *)
(* It is not one transaction: the drives are listed by one statement, and  *)
(* for each of them the snapshots and the entries are read by two more.    *)
(* Each statement sees one committed state of the shelf; scans publish     *)
(* between them.                                                           *)
(*                                                                         *)
(* Module Catalog implements the shelf this module stands on (ShelfView).  *)
(***************************************************************************)
EXTENDS ShelfView, FiniteSets

VARIABLE export   \* the export that is running or done

exportVars == <<shelfVars, export>>

TreeOf(v) == IF v = NoVersion THEN {} ELSE published[v].tree

\* A row of driveSelect: the drive joined with its latest snapshot.
DriveRow(d) == [latest |-> current[d], fileCount |-> Cardinality(TreeOf(current[d]))]

NoExport == [phase |-> "idle"]

ExportInit == Init /\ export = NoExport

\* ListDrives.
ListDrives ==
    /\ export = NoExport
    /\ export' = [phase |-> "snapshots", left |-> Drives,
                  rows |-> [d \in Drives |-> DriveRow(d)],
                  snapshots |-> [d \in Drives |-> {}],
                  entries |-> [d \in Drives |-> {}], reading |-> {}]
    /\ UNCHANGED shelfVars

\* ListSnapshots for the next drive.  The rows of unfinished scans are listed
\* too and say so; only complete ones matter here.
ListSnapshots(d) ==
    /\ export.phase = "snapshots" /\ d \in export.left
    /\ export' = [export EXCEPT
           !.phase = "entries", !.reading = {d}, !.left = @ \ {d},
           !.snapshots[d] = {v \in Versions : /\ published[v] # Unpublished
                                              /\ published[v].drive = d}]
    /\ UNCHANGED shelfVars

\* Mutant: the drive is read again after its snapshots were listed.
RowUsedAfresh(d) == DriveRow(d)

\* The drive as ListDrives returned it.
RowUsed(d) == export.rows[d]

\* Mutant: the entries are selected through drives.latest_snapshot_id.
VersionReadNow(d) == current[d]

\* The snapshot whose entries are read.
VersionRead(d) == RowUsed(d).latest

\* allEntries of the latest snapshot.
AllEntries(d) ==
    /\ export.phase = "entries" /\ d \in export.reading
    /\ export' = [export EXCEPT
           !.phase = IF export.left = {} THEN "done" ELSE "snapshots",
           !.rows[d] = RowUsed(d),
           !.entries[d] = TreeOf(VersionRead(d))]
    /\ UNCHANGED shelfVars

\* The caller has its file, or a statement failed.
EndExport ==
    /\ export.phase # "idle"
    /\ export' = NoExport
    /\ UNCHANGED shelfVars

ExportNext ==
    \/ Next /\ UNCHANGED export
    \/ ListDrives \/ EndExport
    \/ \E d \in Drives : ListSnapshots(d) \/ AllEntries(d)

ExportSpec == ExportInit /\ [][ExportNext]_exportVars

-----------------------------------------------------------------------------
(* Properties.                                                             *)

\* The totals, the snapshots and the entries of a drive are read at three
\* different times, and yet agree in every exported file: the totals are those
\* of the entries.
ExportedTotalsMatch ==
    export.phase = "done" =>
        \A d \in Drives : export.rows[d].fileCount = Cardinality(export.entries[d])

\* In every exported file the snapshot that a drive calls its latest is among
\* the snapshots listed for it.
ExportedLatestIsListed ==
    export.phase = "done" =>
        \A d \in Drives : export.rows[d].latest # NoVersion =>
                              export.rows[d].latest \in export.snapshots[d]
=============================================================================
