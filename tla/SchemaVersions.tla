--------------------------- MODULE SchemaVersions --------------------------
(***************************************************************************)
(* Programs of several versions at one catalog file: Open,                 *)
(* OpenImportTarget, OpenImportPreview, preflightCatalogVersion and        *)
(* migrateCatalogTx (internal/catalog/db.go).                              *)
(*                                                                         *)
(* The version of the schema is checked twice.  The preflight reads it     *)
(* through a connection of its own; what it says may be out of date at     *)
(* once.  migrateCatalogTx reads it again in the transaction that migrates.*)
(* That read takes no write lock either, but SQLite lets a transaction     *)
(* that has read write only if nobody committed after its read; otherwise  *)
(* the write fails at once, without the busy timeout.  (In rollback-journal*)
(* mode the reader holds up the other's COMMIT instead.  The model has the *)
(* behaviours of WAL mode in both.)                                        *)
(*                                                                         *)
(* Every release is taken to have the code of this one, with a             *)
(* databaseSchemaVersion of its own, and one statement more to create the  *)
(* schema than the release before.  A process runs one of three commands.  *)
(* "open" is Open.  "import" is OpenImportTarget with ImportCatalog, whose *)
(* transaction migrates and merges.  "preview" is the same on a copy in    *)
(* memory, for --dry-run.                                                  *)
(***************************************************************************)
EXTENDS Integers

CONSTANTS
    Processes,  \* the processes that use the file
    Supports,   \* Supports[p]: databaseSchemaVersion of the program p runs
    MaxVersion, \* the newest version any of them knows
    NoProcess   \* nobody holds the write lock

NoVersion == 0   \* a file without a metadata table, or no file
Versions  == NoVersion .. MaxVersion

\* catalogSchemaStatements of the release that supports v, each named by what
\* it creates: 0 is the metadata table, n the tables, indexes and triggers that
\* release n has added.
Metadata    == 0
SchemaOf(v) == IF v = NoVersion THEN {} ELSE Metadata .. v

ASSUME VersionAssumption  == MaxVersion \in Nat
ASSUME SupportsAssumption == Supports \in [Processes -> 1 .. MaxVersion]
ASSUME NobodyAssumption   == NoProcess \notin Processes

VARIABLES
    exists,    \* there is a file at the path
    version,   \* the schema_version it records
    tables,    \* the tables, indexes and triggers in it
    journal,   \* its journal mode
    sidecars,  \* -wal and -shm files lie beside it
    lock,      \* who holds SQLite's write lock
    procs      \* each process and the call it is in

vars == <<exists, version, tables, journal, sidecars, lock, procs>>

Commands == {"open", "import", "preview"}

\* seen, row: the tables and the version row as the process's transaction has
\* them, with what it has written so far.  stale: somebody has committed since
\* it read.  found: the version at the preflight; alone: nobody else has
\* committed since.  The last two are history, no call reads them.
Away == [call |-> "away", command |-> "none",
         seen |-> {}, row |-> NoVersion, stale |-> FALSE,
         outcome |-> "none", found |-> NoVersion, alone |-> TRUE]

\* The calls in which a connection to the file is open.
Connected(p) == procs[p].call \in {"beginning", "checked", "migrated", "using"}

At(p, call)   == procs[p].call = call
Goto(p, call) == procs' = [procs EXCEPT ![p].call = call]

\* The call is over, and so is its transaction, if it had one: what was not
\* committed is gone.
Ended(p, call, outcome) ==
    [procs[p] EXCEPT !.call = call, !.outcome = outcome,
                     !.seen = {}, !.row = NoVersion]

Return(p, outcome) == procs' = [procs EXCEPT ![p] = Ended(p, "returned", outcome)]

MayWrite(p) == lock \in {NoProcess, p}
Released(p) == IF lock = p THEN NoProcess ELSE lock

\* The last connection to a WAL file takes the sidecars with it.
SidecarsAfter(p) == sidecars /\ \E q \in Processes \ {p} : Connected(q)

Init ==
    /\ exists = FALSE
    /\ version = NoVersion /\ tables = SchemaOf(NoVersion)
    /\ journal = "delete" /\ sidecars = FALSE
    /\ lock = NoProcess
    /\ procs = [p \in Processes |-> Away]

-----------------------------------------------------------------------------
(* Before the transaction.                                                 *)

\* The first call of a command after its preflight.
FirstCall(command) == CASE command = "open"    -> "configuring"
                        [] command = "import"  -> "beginning"
                        [] command = "preview" -> "copying"

Called(call, command, outcome) ==
    [call |-> call, command |-> command,
     seen |-> {}, row |-> NoVersion, stale |-> FALSE,
     outcome |-> outcome, found |-> version, alone |-> TRUE]

Preflight(p, command) ==
    /\ At(p, "away")
    /\ \/ /\ version <= Supports[p]
          /\ procs' = [procs EXCEPT ![p] =
                          Called(FirstCall(command), command, "none")]
       \/ /\ version > Supports[p]
          /\ procs' = [procs EXCEPT ![p] =
                          Called("returned", command, "refused")]
    /\ UNCHANGED <<exists, version, tables, journal, sidecars, lock>>

\* PRAGMA journal_mode=WAL: the first statement of Open, which creates the
\* file, and writes to it unless it is in that mode.
SetJournalMode(p) ==
    /\ At(p, "configuring")
    /\ journal = "wal" \/ lock = NoProcess
    /\ exists' = TRUE /\ journal' = "wal" /\ sidecars' = TRUE
    /\ Goto(p, "beginning")
    /\ UNCHANGED <<version, tables, lock>>

JournalBusy(p) ==
    /\ At(p, "configuring")
    /\ journal # "wal" /\ lock # NoProcess
    /\ Return(p, "error")
    /\ UNCHANGED <<exists, version, tables, journal, sidecars, lock>>

\* Mutant: the preview opens its target as Open does.
PreviewMigrates(p) ==
    /\ At(p, "copying") /\ ~sidecars /\ lock = NoProcess
    /\ exists' = TRUE
    /\ version' = Supports[p] /\ tables' = SchemaOf(Supports[p])
    /\ Return(p, "done")
    /\ UNCHANGED <<journal, sidecars, lock>>

\* backupCatalogReadOnly, or an empty catalog in memory when there is no file;
\* migration and merge then run there, may fail, and go with it.
Preview(p) ==
    /\ At(p, "copying") /\ ~sidecars
    /\ \E outcome \in IF version > Supports[p] THEN {"refused"}
                                              ELSE {"done", "error"} :
           Return(p, outcome)
    /\ UNCHANGED <<exists, version, tables, journal, sidecars, lock>>

\* requireStaticCatalog: the file is in use, or was when a process died.
PreviewRefused(p) ==
    /\ At(p, "copying") /\ sidecars
    /\ Return(p, "error")
    /\ UNCHANGED <<exists, version, tables, journal, sidecars, lock>>

-----------------------------------------------------------------------------
(* migrateCatalogTx.                                                       *)

\* BEGIN, CREATE TABLE IF NOT EXISTS metadata, and the SELECT of the version.
\* Only in a file without that table does the first statement write.
ReadVersion(p) ==
    /\ At(p, "beginning")
    /\ exists' = TRUE /\ sidecars' = (sidecars \/ journal = "wal")
    /\ IF Metadata \in tables THEN lock' = lock ELSE MayWrite(p) /\ lock' = p
    /\ version <= Supports[p]
    /\ procs' = [procs EXCEPT ![p].call = "checked", ![p].stale = FALSE,
                              ![p].seen = tables \cup {Metadata},
                              ![p].row = version]
    /\ UNCHANGED <<version, tables, journal>>

\* The version is newer: the deferred Rollback, and the catalog is closed.
RefuseNewer(p) ==
    /\ At(p, "beginning")
    /\ version > Supports[p]
    /\ sidecars' = SidecarsAfter(p)
    /\ Return(p, "refused")
    /\ UNCHANGED <<exists, version, tables, journal, lock>>

BeginBusy(p) ==
    /\ At(p, "beginning")
    /\ Metadata \notin tables /\ ~MayWrite(p)
    /\ sidecars' = SidecarsAfter(p)
    /\ Return(p, "error")
    /\ UNCHANGED <<exists, version, tables, journal, lock>>

\* A transaction that has read can write if nobody has committed since, and
\* has the lock from then on.
Writes(p) == MayWrite(p) /\ ~procs[p].stale /\ lock' = p

\* What the statements of p's release have still to create.
Missing(p) == SchemaOf(Supports[p]) \ procs[p].seen
FirstMissing(p, n) == n \in Missing(p) /\ \A m \in Missing(p) : n <= m

\* Mutant: the statement runs outside the transaction.
CreateMissingAutocommit(p) ==
    /\ At(p, "checked")
    /\ MayWrite(p) /\ ~procs[p].stale /\ lock' = lock
    /\ \E n \in Missing(p) : /\ FirstMissing(p, n)
                             /\ tables' = tables \cup {n}
                             /\ procs' = [procs EXCEPT ![p].seen = @ \cup {n}]
    /\ UNCHANGED <<exists, version, journal, sidecars>>

\* The next statement that has something to create.  All of them say IF NOT
\* EXISTS: one whose table is there does not write, and needs no lock.
CreateMissing(p) ==
    /\ At(p, "checked")
    /\ Writes(p)
    /\ \E n \in Missing(p) : /\ FirstMissing(p, n)
                             /\ procs' = [procs EXCEPT ![p].seen = @ \cup {n}]
    /\ UNCHANGED <<exists, version, tables, journal, sidecars>>

\* Mutant: the version is what was read, whatever was committed since.
RecordVersionStale(p) ==
    /\ At(p, "checked") /\ Missing(p) = {}
    /\ MayWrite(p) /\ lock' = p
    /\ procs' = [procs EXCEPT ![p].call = "migrated", ![p].row = Supports[p]]
    /\ UNCHANGED <<exists, version, tables, journal, sidecars>>

\* The schema is complete: its version is recorded, the same one or not.
RecordVersion(p) ==
    /\ At(p, "checked") /\ Missing(p) = {}
    /\ Writes(p)
    /\ procs' = [procs EXCEPT ![p].call = "migrated", ![p].row = Supports[p]]
    /\ UNCHANGED <<exists, version, tables, journal, sidecars>>

\* Mutant: no deferred Rollback.
AbortKeepingLock(p) ==
    /\ procs[p].call \in {"checked", "migrated"}
    /\ lock' = lock
    /\ sidecars' = SidecarsAfter(p)
    /\ Return(p, "error")
    /\ UNCHANGED <<exists, version, tables, journal>>

\* A statement fails: by the busy timeout, at once because of a commit since
\* the read, or because the import finds fault with its source.
Abort(p) ==
    /\ procs[p].call \in {"checked", "migrated"}
    /\ lock' = Released(p)
    /\ sidecars' = SidecarsAfter(p)
    /\ Return(p, "error")
    /\ UNCHANGED <<exists, version, tables, journal>>

\* What a COMMIT means to a transaction of q that has only read so far.
Overtaken(q) == [procs[q] EXCEPT !.alone = FALSE,
                                 !.stale = @ \/ procs[q].call = "checked"]

\* COMMIT: what the transaction has becomes what is in the file.  Open returns
\* a catalog in use; an import ends.
Commit(p) ==
    /\ At(p, "migrated")
    /\ version' = procs[p].row /\ tables' = procs[p].seen
    /\ lock' = NoProcess
    /\ LET call == IF procs[p].command = "open" THEN "using" ELSE "returned"
       IN  procs' = [q \in Processes |-> IF q = p THEN Ended(p, call, "done")
                                                   ELSE Overtaken(q)]
    /\ sidecars' = IF procs[p].command = "open" THEN sidecars
                                               ELSE SidecarsAfter(p)
    /\ UNCHANGED <<exists, journal>>

\* Close, and the end of the command.
Close(p) ==
    /\ procs[p].call \in {"using", "returned"}
    /\ procs' = [procs EXCEPT ![p] = Away]
    /\ sidecars' = SidecarsAfter(p)
    /\ UNCHANGED <<exists, version, tables, journal, lock>>

\* The process dies: its transaction is gone, the sidecars stay.
Crash(p) ==
    /\ ~At(p, "away")
    /\ procs' = [procs EXCEPT ![p] = Away]
    /\ lock' = Released(p)
    /\ UNCHANGED <<exists, version, tables, journal, sidecars>>

-----------------------------------------------------------------------------
Step(p) ==
    \/ SetJournalMode(p) \/ JournalBusy(p)
    \/ Preview(p) \/ PreviewRefused(p)
    \/ ReadVersion(p) \/ RefuseNewer(p) \/ BeginBusy(p)
    \/ CreateMissing(p) \/ RecordVersion(p) \/ Abort(p) \/ Commit(p)

Next == \E p \in Processes :
    \/ \E command \in Commands : Preflight(p, command)
    \/ Step(p) \/ Close(p) \/ Crash(p)

Spec == Init /\ [][Next]_vars

\* A command that can go on does.  Nobody has to run or end one.
FairSpec == Spec /\ \A p \in Processes : WF_vars(Step(p))

-----------------------------------------------------------------------------
(* Properties.                                                             *)

Proc == [call : {"away", "configuring", "copying", "beginning", "checked",
                 "migrated", "using", "returned"},
         command : Commands \cup {"none"},
         seen : SUBSET SchemaOf(MaxVersion), row : Versions, stale : BOOLEAN,
         outcome : {"none", "done", "refused", "error"},
         found : Versions, alone : BOOLEAN]

\* The file and the calls of the processes are of the kinds db.go knows.
TypeOK ==
    /\ exists \in BOOLEAN /\ sidecars \in BOOLEAN
    /\ version \in Versions /\ tables \subseteq SchemaOf(MaxVersion)
    /\ journal \in {"delete", "wal"}
    /\ lock \in Processes \cup {NoProcess}
    /\ procs \in [Processes -> Proc]

\* docs/ARCHITECTURE.md, "Schema": migrations are forward-only.  No program
\* writes its older version over a newer one, although the preflight and the
\* check in the transaction both read before they lock (migrateCatalogTx).
VersionNeverGoesBack == [][version' >= version]_vars

\* The file has what the statements of the version it records create, no less
\* and no more, at every moment at which another process or the next start can
\* look: a migration that fails, is rejected or dies between any two of its
\* statements leaves no part of itself, and one that commits has run them all
\* over the tables it found, whoever else migrates (migrateCatalogTx, migrate,
\* ImportCatalog).
TablesMatchVersion == tables = SchemaOf(version)

\* A command that reports an error or a refusal has not migrated the file,
\* and neither has a preview (docs/CATALOG_IMPORT.md: migration and merge are
\* one transaction; OpenImportPreview: without changing the target).
FailureMigratesNothing ==
    \A p \in Processes :
        /\ At(p, "returned") /\ procs[p].alone
        /\ procs[p].outcome # "done" \/ procs[p].command = "preview"
        => version = procs[p].found

\* The write lock is given back on every path out of a migration or import.
LockIsFreed == lock # NoProcess ~> lock = NoProcess

-----------------------------------------------------------------------------
(* The inductive invariant.                                                *)

\* Who may still write has read a version that is neither too new nor out of
\* date, and has no table that is not of its schema; who has recorded its
\* version has them all, and holds the lock.
ReadersKnow ==
    \A p \in Processes :
        /\ At(p, "checked") /\ ~procs[p].stale =>
               version <= Supports[p] /\ procs[p].seen \subseteq SchemaOf(Supports[p])
        /\ At(p, "migrated") =>
               /\ version <= Supports[p] /\ lock = p
               /\ procs[p].row = Supports[p]
               /\ procs[p].seen = SchemaOf(Supports[p])
        /\ lock = p => procs[p].call \in {"checked", "migrated"}

\* Until it has committed, a command finds the version of its preflight, as
\* long as nobody else commits.
Succeeded(p) ==
    procs[p].command # "preview" /\ procs[p].outcome = "done"

NotYetMigrated ==
    \A p \in Processes :
        /\ procs[p].alone /\ ~At(p, "away") /\ ~Succeeded(p)
               => version = procs[p].found
        /\ procs[p].outcome # "none" => procs[p].call \in {"using", "returned"}
        /\ procs[p].command = "preview" => procs[p].call \in {"copying", "returned"}

\* What makes the safety properties inductive: what each command knows about
\* the file between two of its steps.
MigrationInv ==
    TypeOK /\ TablesMatchVersion /\ ReadersKnow /\ NotYetMigrated
=============================================================================
