# A formal model of ColdShelf

ColdShelf keeps a searchable catalog of drives that are not plugged in. The
program is a command-line tool and a loopback web server over one SQLite file.
This directory holds TLA+ modules that model the parts of it where order,
concurrency and failure matter, the TLC instances that check them, and the
theorems TLAPS proves about them. `PROJECT.json` lists the components, the runs,
the mutants that show each property can fail, the source lines behind each
definition, the hazards and the theorems.

## The system

| Part | Source | State | Operations | Modules |
|---|---|---|---|---|
| Snapshot writer | `internal/catalog/writer.go` | one transaction, the rows it has staged, totals in memory, `closed` | StartSnapshot, Add, AddError, Complete, Fail | Catalog |
| Catalog lifecycle and drives | `internal/catalog/db.go` | the SQLite file: drives, snapshots, entries, schema version; the pool of connections | Open/migrate (with recovery of interrupted scans), OpenImportTarget, OpenImportPreview, CreateDrive, UpdateDrive, GetDrive, ResolveDrive | Catalog, SchemaVersions, ConnPool |
| Catalog import | `internal/catalog/import.go` | one transaction over the target, a frozen source, receipts | ImportCatalog: validate, add drives, copy snapshots, apply the hash policy, choose the view, dry run | Merge |
| Queries and exports | `internal/catalog/queries.go` | none; each statement reads one committed state | ListDrives, ListSnapshots, ListEntries, Search, Stats, Diff, Duplicates, ExportJSON, ExportCSV | Export, HistoryPage, Fingerprints |
| Scanner | `internal/scanner/scanner.go` | position in the walk, counters | Scan, excluded | Scanner |
| Fingerprints | `internal/scanner/hash.go` | an open file and what was hashed of it | hashFile | Fingerprints |
| Scan jobs | `internal/server/jobs.go` | the map of jobs in memory | Start, run, Get | ScanJobs |
| HTTP server | `internal/server/server.go` | none of its own | handlers, shutdown | ScanJobs, ScanPage, ConnPool, Export, HistoryPage |
| Browser UI | `web/static/app.js` | what the page shows, requests in flight | submitScan, pollJob, loadLibrary, openDrive, toggleHistory, compareSnapshots, search | ScanPage, HistoryPage |
| EFU import | `internal/importer/efu.go` | position in the file, totals | EFU | EFU |
| Commands | `cmd/coldshelf/main.go` | one process each | scan, serve, import-efu, import-catalog, demo | Commands (scan, import-efu), Catalog |
| Labels, release builder, security headers | `internal/label`, `build/`, `internal/server/server.go` | none | formatting | - |

How they interact. A command (`scan`, `import-efu`) or a job of the server drives
one SnapshotWriter: the scanner calls `writer.Add` for each item it yields and
`writer.AddError` for each it cannot read. All writers, in one process or in
several, share the file and its single write lock. Every command begins with
`Open`, which recovers scans that look interrupted. Readers (handlers, exports)
take no lock; each of their statements sees one committed state. The page talks
to the server by requests only, and finds out about a scan by polling.

What is hard about it, and hardly reached by tests:

- *the write lock*: it is taken by a writer's first INSERT and kept until COMMIT.
  Any other write, also the one that marks a scan failed, waits for it and may
  time out;
- *recovery by age*: `Open` cannot know whether a `scanning` row has a live
  writer; a suspended machine makes a live scan look dead;
- *crashes* between the INSERT of the `scanning` row and COMMIT;
- *several statements where one state is meant*: an import, an export, the
  record of a job and the tables beneath it;
- *repeats*: imports are run again, with other policies, in both directions;
- *drives in use*: unplugged in the middle of a walk, files that change while
  they are hashed;
- *versions*: a program of any release may meet the file of another, and checks
  its version before it has the lock;
- *the pool*: a job keeps a connection while it scans, and all of them may be
  taken by jobs;
- *asynchrony in the page*: what it shows was true when its request was
  answered, and the user goes on while answers are under way.

What makes each part correct:

- catalog: a view is always a whole, complete snapshot of its drive; complete
  snapshots never change; totals are those of the rows; every scan ends, and
  nothing stays `scanning` for good;
- import: everything complete arrives, once; repeats change nothing; what the
  target had of its own stays; the receipts tell the truth;
- scanner: what a finished scan lacks was reported; what is excluded stays out;
- fingerprints: what the duplicates view calls copies are copies, a comparison
  of snapshots neither misses nor invents a change it could know about;
- jobs and page: `complete` means that the snapshot is there, the page then
  shows it, and no page polls for ever;
- export: what is written of one drive agrees with itself;
- history: the changes shown are of the drive in view and of the rows above them;
- schema: versions only rise, a migration is whole or did not happen, whoever
  fails leaves neither a lock nor a half-migrated file;
- pool: nobody waits for a connection for ever;
- EFU: each item of the list arrives once, under its own path and kind, and is
  counted; what one computer imports another accepts with the whole catalog.

## The modules

    ShelfView            what the catalog promises
      Export             reads it in several statements
      HistoryPage        reads it in several requests
      Readers            Export or HistoryPage              ReadersProofs
    Catalog              implements ShelfView               CatalogProofs
      ConnPool           Catalog behind a pool, with edits  ConnPoolProofs
      ScanJobs           Catalog driven by jobs             ScanJobsProofs
        ScanPage         ScanJobs seen by a page          (ScanJobsProofs too)
    Scanner              one walk                         (CommandProofs)
    EFU                  one import of a list             (CommandProofs)
    Commands             Scanner or EFU                     CommandProofs
    SchemaVersions       programs of several versions       SchemaProofs
    Merge                catalogs imported into each other  MergeProofs
    Fingerprints         hashFile and what is read from it  FingerprintProofs

An indented module extends the one it stands under; a module in the right-hand
column extends the one at its left and holds theorems about it, and about the
modules that name it in brackets (ConnPoolProofs and ScanJobsProofs use
CatalogProofs too).

The `MC...` modules have the values of the constants for TLC (Catalog: MCCatalog,
ScanJobs and ScanPage: MCScanPage, Export and HistoryPage: MCReaders, Scanner and
EFU: MCCommands, and so on). A definition whose
comment begins with "Mutant:" is a plausible bug; no specification uses it, it is
there to show that a property can be violated.

**ShelfView** is what the catalog promises, without transactions, locks and
statuses: a scan records out of sight, and is either published whole, in one
step that also makes it the view of its drive, or never.

**Catalog** is `writer.go` and the part of `db.go` every command runs. A
SnapshotWriter is a record in `writers`: the call it is in, its row, what its
transaction has staged, its totals. One action is one database step, since other
processes come between any two of them:

| Code | Actions |
|---|---|
| CreateDrive | CreateDrive |
| StartSnapshot: INSERT, then BeginTx and Prepare | StartSnapshot, StartBusy, BeginTx, BeginTxFails |
| Add | Add, AddDuplicate (UNIQUE), AddBusy (no lock before the timeout) |
| AddError; an error or interrupt of the scanner | AddError, SourceFails |
| Complete: time.Now, UPDATE snapshots, UPDATE drives, COMMIT, GetSnapshot | Complete, Finalize, PointDrive, Commit, ReadBack; CompleteFails, CommitFails, ReadBackFails |
| Fail and every error path: ROLLBACK, then markSnapshotFailed | Rollback, MarkFailed, MarkBusy |
| Open, migrate | Open |
| the process dies; the clock | Crash, Tick |

The write lock is `lock`. Waiting for it is the absence of a step; giving up
after the busy timeout is a step called `...Busy`. What a transaction writes is
in its writer's record until Commit moves it into the tables, which is what
SQLite's WAL mode gives readers and crashes.

**ConnPool** puts a connection pool under it. Between BeginTx and the end of its
Commit or Rollback a writer keeps a connection; every other statement takes one
and gives it back, and waits while there is none (`HasConnection`). Beside the
scans there is `UpdateDrive`: `ReadRow` is its GetDrive, `WriteRow` its UPDATE,
`EditFails` a busy timeout or a refused name, `RereadRow` the GetDrive that makes
the answer, for which the handler needs a connection a third time and which may
fail although the edit is in. The columns a user edits are not part of the model;
the view, which the UPDATE must leave alone, is.

**SchemaVersions** is how a file is opened, by programs of different releases:

| Code | Actions |
|---|---|
| preflightCatalogVersion | Preflight |
| Open: PRAGMA journal_mode | SetJournalMode, JournalBusy |
| OpenImportPreview: requireStaticCatalog, backupCatalogReadOnly, or a catalog in memory | Preview, PreviewRefused |
| migrateCatalogTx: metadata table, version | ReadVersion, RefuseNewer, BeginBusy |
| migrateCatalogTx: the schema's statements, one at a time; UPDATE of the version | CreateMissing, RecordVersion |
| deferred Rollback; Commit of migrate, or of the import | Abort, Commit |
| Close; the process dies | Close, Crash |

SQLite lets a transaction that has only read take the write lock unless somebody
has committed since its first read (`stale`, set by `Overtaken`), in which case
the write fails at once. This, and not the check before the transaction, is what
keeps an old program from writing over a new one.

`tables` is the set of what the schema's statements have created in the file,
`SchemaOf(v)` what those of the release for version v create. A transaction has its
own view of both (`seen`, `row`), to which each statement that is not a no-op adds
one thing; COMMIT makes it the file's, and every other end forgets it. A command
can fail or die between any two of the statements.

**ScanJobs** puts the job manager on top of it: `jobs` is the map that
`GET /api/jobs/{id}` reads, and a job's goroutine updates it before and after
its calls on the writer, one step each. Writers that are not jobs are scans of
other pages or processes.

**ScanPage** adds one page: it posts a scan, polls the job, and on `complete`
awaits `loadLibrary` and opens the drive. What it then shows comes from two
requests: the name and the counts (`title`) from the drive's row in `state.drives`,
the tree (`tree`) from `/api/drives/{id}/entries`, for which the server looks up the
latest snapshot again (`OpenDrive`, then `ShowEntries` or `EntriesFail`). Any request
may fail, or be carried out and its answer be lost (`PostLost`), the server may be
restarted, other scans commit between any two steps. IDs of jobs are random, so
no request of anybody else is given the page's job (`Beside`).

**Merge** is `ImportCatalog`. Several catalogs are scanned into and imported into
each other; the import walks the drives and snapshots of a frozen source as the
loops in the code do, works on a copy of the target's tables, and commits or
rolls back. A scan has the steps that decide in which order rows get their IDs,
their dates and their place as the view: `StartSnapshot` gives out the ID, the first
`Add` takes the write lock, `Complete` takes the date, with the lock or, for an empty
scan, without, `CommitScan` publishes, `EndScan` is every other end. Scans run in
any catalog while another is imported; the lock (`Unlocked`) and
`requireStaticCatalog` (`Static`) keep apart what the code keeps apart. A scan
number stands for everything that is copied unchanged; SHA-256 claims, hash mode
and completion time are kept apart because the import treats them differently.
The validation of single fields is a rollback that may come at any point.

**Scanner** is `Scan` with its callback inside `filepath.WalkDir` (external,
modelled from how it is used: the order of its calls, SkipDir, and what it does
when ReadDir fails). The drive can be unplugged and the command interrupted
between any two system calls. An item is counted before it is given to
`writer.Add`, so after a failure there the totals have one item more than was
recorded (`YieldFails`).

**EFU** is `EFU`, record by record, and `importEFUCommand`, which gives each entry
to a SnapshotWriter. A cell is a sequence, of any length, of tokens (separators,
parts of names, numbers), so that what the code does to it is done to it: the
lookup of columns, slashes (`Normalize`), the prefix, the parent and the name with
what `path.Dir` does to dots (`CleanStep`), the letters of the attributes, the size.
A dot that is a name, and a NUL, are tokens of their own. The property does not look at a path in that
way: it compares the `Names` along it, whatever separates them. `SkipRecord` is a `continue`, `Yield` and `EfuYieldFails`
the two outcomes of `writer.Add`, `ReadFails` an error of the CSV reader or a
header without file names.

**Commands** lets a process be one of the two.

**Fingerprints** is `hashFile`, read by read, on files that are being written to,
replaced and removed, and the two queries that draw conclusions from hashes. A
scan reads a folder (`ListFolder`, any set of siblings), which fixes what is there
and whether it is a file or a directory, before it visits and hashes the first of
them; size and time are those of `Info` at the visit, whatever is there by then.
A digest is modelled by its input, so no two inputs collide; the sizes of samples
and buffers are parameters. Two history fields record what a file really held.

**Export** is `ExportJSON`, statement by statement, on ShelfView.

**HistoryPage** is the history panel on ShelfView: `openDrive` with
`loadSnapshots` (OpenDrive, AnswerList, ReceiveList), `toggleHistory`
(ShowHistory, HideHistory) and `compareSnapshots` (Compare, AnswerDiff,
ReceiveDiff), with the server's `ListSnapshots` and `Diff`. Requests are answered
in any order and answers arrive in any order. A JavaScript call runs up to its
next `await` without interruption and is one action.

**Readers** is one or the other; they share only the shelf, to which neither
writes.

## The runs

Passing runs. (`Deadlock` is checked unless said otherwise.)

| Run | Instance | Shows |
|---|---|---|
| catalog_safety | two drives, two writers in two processes, a file and a link, clock 0..3, one read error | views complete and newest, trees whole, totals true, complete snapshots immutable, under every failure, timeout, crash, reopening and clock jump |
| pool | one drive, two jobs and one edit in a server with one connection or two, a folder, clock 0..1, with fairness | nobody waits for a connection for ever (`RequestsAreAnswered`), every scan ends (`ScanEnds`), nothing stays `scanning` (`NothingScansForever`), all of it implements ShelfView, the inductive invariant of the proofs holds |
| merge_one_way | two drives of one name, one in each of two catalogs, one imported into the other | everything arrives, nothing twice, repeats change nothing, an import is one step |
| merge_both_ways | one drive, two catalogs imported into each other | receipts are true under changes of policy, the view only moves forward, own rows stay |
| commands | a scan of a tree of eight items with a nested folder, a link and two exclusions; or an import of any of 2958 lists | gaps are reported, exclusions hold, totals are true; every item of a list arrives under its own path and kind and is counted; which entries another catalog refuses |
| scan_page | a page and its job, another scan of the same server, clock 0..1, with fairness | a complete job has its snapshot, the page shows it or a newer one, tree and counts each from its own request, a page always learns how its scan ended |
| readers | two drives, one scan, three versions, one path; an export, or a page with two requests under way and two drawings of the panel | what an export writes of a drive agrees; the changes shown are of the drive in view and of the rows above them |
| fingerprints | two paths on one drive and one on another, contents of two and three bytes with samples of one and a read buffer of two, one change, two scans | copies are copies and are found, comparisons miss and invent nothing |
| schema_versions | programs of three versions at one file, which open, import or preview, with fairness | versions only rise, no part of a migration is ever without the rest, what fails has migrated nothing, the lock is given back |

Runs that end in a violation, because the code does something else than its
documentation says:

| Run | What happens | What is said |
|---|---|---|
| catalog_failed_unmarked | an Add that gives up waiting for another scan's lock leads to an UPDATE that waits for the same lock and gives up too; its error is ignored and the row stays `scanning` | `docs/ARCHITECTURE.md`: a failed scan is marked failed |
| catalog_failed_latest | a scan that has stored nothing yet is marked failed by another process after 24 hours (a suspended machine), then completes and becomes the view | `docs/ARCHITECTURE.md`: a failed snapshot never becomes the latest view |
| scanner_unplugged | a drive that is unplugged ends a scan without an error, and what was read becomes the view | `docs/THREAT_MODEL.md`: a partial scan never replaces a complete snapshot |

### Bounds, and why they are enough

- `MaxSnapshot` (2): rows in the table. Two scans of one drive are the least
  that overlap; the lock has one holder, so a third only repeats a wait.
- `MaxClock`, `StaleAfter`: a tick is a day or less. With `StaleAfter` 1 a row
  can be a tick old without being stale; the runs that check liveness do with
  `StaleAfter` 0, where every tick is longer than a day. `ClockRoom` lets a scan
  begin only as long as the clock can still reach the limit for its row, or
  `NothingScansForever` would fail by the bound alone.
- `MaxErrors` (0 or 1): a count that nothing reads; its type is what it can break.
- `RowRoom`, `TickRoom` (ScanJobs): a job is accepted, and time passes, only if
  the rows and ticks it needs are left. They stand for an unbounded table and
  clock, so that a job is not refused by a bound; the INSERT of its row may still
  fail by the busy timeout, as in the code.
- `PoolSizes` ({1, 2}): the code gives 8. What matters is whether there are as many
  jobs as connections or one connection more, and two jobs have both.
- `MaxRows`, `MaxScans`, `MaxTime` (Merge): two scans are enough to be begun,
  dated and committed in different orders, and to arrive in either order of date
  and ID; the rows hold them, finished or not, and their copies. Two catalogs imported into each other copy rows until `MaxRows`: that run
  may stop, and deadlock is not checked in it.
- Scanner: the tree has each shape of item once, and each pattern kind once.
- EFU: the usual header, another order, and headers without attributes or without
  names; two records of nine items, each whole or cut short after the first cell;
  no prefix, `E:\Archive`, or `/E:/Archive/`. Two records are the least that can be
  of one path. One item is of a share, one has doubled and mixed separators, one
  goes on with a name where the prefix ends, one is the prefix itself, one has a
  name of two dots, one a name that begins with a dot and one that is a dot, one a
  NUL; sizes are negative, too large for int64, or no numbers.
- `Slots` (2) and `MaxRenders` (2) of HistoryPage: two requests are the least of
  which one overtakes the other, two drawings the least of which an answer can
  come to the wrong one. `OneTree`: a page does not look into trees.
- `MaxChanges`, `MaxSnapshots`, `MaxTime`, `AtFirst` (Fingerprints): a single
  change between any two system calls is what one hash can be hit by; two
  snapshots are what is compared. Sample 1 with lengths 2 and 3 has files that
  two samples cover exactly and files with bytes between the samples. Changes,
  scans and time run out, so deadlock is not checked.
- SchemaVersions: the versions 1, 2 and 3, of which a program knows the older, the
  current or a newer one. No counter is bounded; the run explores all of it.

Symmetry is used in catalog_safety (swapping the two writers together with their
processes, and the drives) and readers (drives, versions, requests), whose
properties are invariants and one action property; never under liveness.

### Fairness

`PoolFairness` of ConnPool: weak fairness of each writer's step wherever it has
a connection for it (a goroutine that can go on does; a wait for the lock ends, in
the lock or in the busy timeout the DSN asks for, 5 s, and both are steps; a free
connection is handed to somebody who waits), of each edit's second statement, of
`Open` (somebody runs a command again, in a process with a pool of its own) and of
`Tick`. Weak fairness is enough for the pool because scans are bounded: once the
last job is done a connection stays free. A job itself waits without end, its
context is `context.Background()`. Nothing makes a scan start or a process crash.

`FairPageSpec` of ScanPage: the same of the job, of other writers, and of what the
browser does without the user. The user is not assumed to do anything.

`FairSpec` of SchemaVersions: a command that can go on does. Nobody has to run one
or to end it.

## What is proved

All theorems hold for any number of drives, writers, processes, jobs, catalogs,
files and paths, contents of any length, and any bounds. Invariants:

| Module | Theorem | Says |
|---|---|---|
| CatalogProofs | Invariance | `IInv` always holds |
| | TypeCorrect, LatestStaysComplete, TreesAreWhole, CountsAreTrue | `TypeOK`, `LatestIsComplete`, `NoPartialTree`, `CountsMatchEntries` |
| | CompleteStaysAsItIs | `CompleteIsForever`: no step changes a complete snapshot |
| | LatestStaysNewest | `LatestIsNewest`: a view is the newest of the snapshots with entries |
| | CatalogImplementsShelf | every behaviour of Catalog is one of ShelfView |
| ConnPoolProofs | PoolImplementsCatalog, PoolImplementsShelf | no edit, and no wait for a connection, does what Catalog does not do |
| ScanJobsProofs | CompleteJobsAreTrue | `CompleteJobHasSnapshot`, across restarts of the server |
| | PageShowsItsScan | `PageShowsTheScan`: the page that polled a job shows that scan or a newer one, in the tree and above it |
| ReadersProofs | ExportsAgree, LatestIsListed, DiffsAreOfSelected, DiffsAreOfRows | the four properties of the run readers |
| | ReadersAreEither | a behaviour of Readers is one of Export or of HistoryPage |
| CommandProofs | TypeCorrect, GapsReported, ExcludedStaysAway, TotalsAreTrue | `TypeOK`, `GapsAreReported`, `ExcludedStaysOut`, `TotalsMatchRecorded` of Scanner, for every tree |
| | ItemHasPath | what the code makes of a path, token by token, is the path of the names it should have |
| | EfuInvariance | `EfuInv` always holds |
| | ItemsArrive, EntriesAreValid | `EveryItemArrives`, `EntriesMoveOn` |
| | CommandsKeepApart, CommandsAreSafe | a behaviour of Commands is one of Scanner and of EFU, and has all six properties |
| MergeProofs | Invariance | `MergeInv` and `WritersInv` always hold |
| | TypeCorrect, ReceiptsAreTrue | `TypeOK`, `ReceiptsTellTheTruth` |
| | ViewGoesForward | `ViewMovesForward`: whatever a step completes, the view is as new as that and as the view before, empty scans aside |
| | ImportIsWhole, ImportIsAtomic, OwnRowsAreKept, RepeatIsIdle | `EveryCompleteArrives`, `MergeIsAtomic`, `OwnRowsStay`, `RepeatChangesNothing` |
| | ScansArriveOnce | `NoScanTwice`, when nothing is imported into a catalog that is imported from |
| FingerprintProofs | Invariance | `FInv` always holds |
| | TypeCorrect, CopiesAreTrue, AllCopiesFound | `TypeOK`, `DuplicatesAreCopies`, `CopiesAreFound` |
| | DiffIsComplete, DiffIsHonest | `DiffMissesNothingHashed`, `DiffListsOnlyChanges` |
| SchemaProofs | MigrationInvariance | `MigrationInv` always holds |
| | ForwardOnly, WholeMigrations, FailureIsHarmless | `VersionNeverGoesBack`, `TablesMatchVersion`, `FailureMigratesNothing` |

Assumptions: the ones the modules state about their constants (`NoWriter` and
`NoDrive` are not a writer or a drive, the paths and versions are finite, the
bounds are numbers, `Host` and `Kind` are functions, the listings of Scanner form a
tree, the separators of EFU are tokens and its files sequences of records of cells
of tokens, every drive of Merge has a name, the files of Fingerprints are finitely many
and their contents sequences of numbers). TLC evaluates them in the runs. Only
ScansArriveOnce assumes more, `NoChains`, which the flows of MCMergeOneWay fulfil.

**Catalog.** None of the safety properties is inductive: that Commit leaves a
drive with a complete snapshot *of that drive* depends on what its writer knows,
and that it overwrites no complete snapshot depends on no other writer having the
same row. `IInv` adds these facts:

- `RowsNumbered`: IDs are given without gaps, and every row has a drive;
- `WriterHasRow`: a writer in a call has a row, of the drive it was given, which
  is complete exactly if the writer has committed. This is what a recovery by
  another process cannot break: it only touches `scanning` rows, and may make a
  writer's row `failed`, but not complete;
- `RowsNotShared`: two busy writers never have the same row;
- `LockHeldInTransaction`: who has staged rows, or is past its first UPDATE, has
  the lock. So at most one writer has anything staged, and a Rollback or Crash
  that frees the lock leaves nothing behind;
- `CountsMatchStaged`: the totals in memory are those of the staged rows, from
  which `CountsMatchEntries` follows at Commit.

There is one lemma per kind of step. Most steps are private: they change one
writer's record and no table, and share the lemmas `PrivateStepIInv` and
`MoveOnIInv`. `FailRowsIInv` covers both Open and MarkFailed, which fail rows that
are not complete. The refinement maps a version to a complete snapshot and a
scan's tree to what its writer has staged; StartSnapshot maps to Begin, Add to
Record, Commit to Publish, the end of a failed transaction, Crash and Leave to
Abandon, and everything else to a stutter.

`LatestIsNewest` rests on `DatesInv` besides: no date is in the future, and who has
stored an entry has had the lock since, so that everything committed before is
dated no later than its Complete. This is where the empty scan drops out, whose
date is taken before it asks for the lock.

**ConnPool** is a step simulation: a pooled step is a step of Catalog, an edit
leaves the variables of Catalog alone. `RequestsAreAnswered` is left to TLC.

**ScanJobs.** `JobInv` relates a job's record to the writer its goroutine drives: the
record has the writer's snapshot from before the scan ends, and a writer that has
returned without an error has left a complete snapshot of the job's drive. It
uses `IInv` for the commit and `CompleteStaysAsItIs` for the time after it.

**ScanPage.** `PageInv` follows the truth of the answer through the page: the job it
polls scans the drive it asked for, an answer that says `complete` names a complete
snapshot of that drive, which stays one, and a drive with a complete snapshot has a
view (`DrivesAreViewed`). The list read after that answer then has a view, and by
`LatestIsNewest` one dated no earlier; and so has the server, later still, when it
looks the snapshot up for the tree, also when the list could not be read. No step beside the page gives its job
another drive, because no one else's request gets its ID.

**Merge.** Between imports `TablesOK` holds of each catalog: rows are numbered without
gaps, receipts tell the truth, views are complete, and no date is in the future. It
does not say that views are newest, because they need not be: after an empty scan
has been committed late one is not, and an import that brings nothing for that
drive leaves it so. `WritersInv` says what a running scan can rely on: its row is
there and not complete, no two scans have one row, only one has the lock of a
catalog and no import into that catalog runs beside it, and once it has its date
and the lock no snapshot of its catalog has a later one, since nobody else could
commit. With it `CommitScan` moves the view forward unless the scan is empty. For
an import the relation `Forward` between the tables it began with and those it has
so far is kept by each of its steps, so it holds at `Commit`. `ImportKnows` says what an import in the middle of its loops knows:
whatever it has visited of the source is in its copy of the target
(`NamesArrived`, `RowsArrived`), it inserts at most one row per row of the source
(`Room`), and what the target had of its own is as it was (`OwnKept`). Because
the target is locked from the import's first write, its tables are still those the
copy was made of when it commits. `RepeatInv` says that a repeated import finds
each row by its receipt and so changes nothing. `NoScanTwice` does not follow from
these: that a row is not there yet is a matter of every catalog its scan has been
in. `TraceInv` adds that a scan that has ended is original, without a receipt, in one catalog at
most, that a receipt's digest is that of a row still in a catalog nothing is
imported into, and that complete rows of one catalog are of different scans. A row
about to be inserted is original in its source, so a row of the target with the
same scan would have a receipt for that very row, and the import would have found
it. This needs `NoChains`, the theorem's own assumption: no catalog is both
imported into and imported from.

**Fingerprints.** `Reading` says what `hashFile` has at each of its reads: the bytes
up to its position or the samples so far, if nobody wrote meanwhile. From it
`TrueEntry` follows for every entry of an undisturbed file: its SHA-256 was made of
what the file held, its quick fingerprint of the samples the code defines.
`QuickTells` is the lemma about which contents share a quick fingerprint. That a
drive with a snapshot has a last one is in the invariant (`LastSnapshots`), since
the maximum of a set is not to be had without induction over data.

**Readers.** `ShelfInv` and `PublishedStays` (what is published stays and does not
change) make what a reader read in an earlier statement true in a later one.
`ExportInv` says what an export knows at each of its statements. `PageInv` says that
a comparison which was asked for in the drawing on show is of the first two rows
of that drawing and, while the panel is open, of the selected drive; an answer to
any other drawing goes nowhere.

**Scanner.** The stack of WalkDir is what makes the properties inductive. Each call
covers a part of the tree and no two calls cover the same item; handling a call
passes what it covers to the calls that replace it, records it, or reports a path
above it. From this follow at once that nothing is lost without a report, that
what lies beneath an excluded item is not come to, and that nothing is counted
twice.

**SchemaVersions.** `ReadersKnow`: a process that has checked the version and is not
stale supports the version the file has, and has seen nothing that is not of its
own schema, since what it saw was the file's and the statements it ran are its
release's; whoever has recorded its version has all of that schema and holds the
lock. From this `TablesMatchVersion` follows at `Commit`; no other step changes the
file.
`NotYetMigrated`: until a command has committed, and as long as nobody else has,
the file has the version the command found in its preflight.

**EFU.** The properties speak of texts of any length, and what the code does to a
text is a fold, so the argument is an induction over data. Theorems that take a
predicate as a parameter are of no use to the provers; `SetInduction` and
`SequenceInduction` are stated of sets instead, and follow from `<` being
well-founded on the naturals. `FoldAppend` says what one more token does to a fold.
`Normalize` is thereby shown to be the `Join` of the `Names` of a text, with a slash
before them if the text began with one (`NormalizeJoins`), and cutting a prefix off
it is cutting the prefix's names off its names, unless the prefix ends in a name
(`PathIsRelative`, `CutPathStays`; together `ItemHasPath`). This holds only if prefix
and path both begin with a separator or neither does, which is part of `IsBelow`.
`EfuInv` then says that the entries are those of the items among the records read,
in order (the place of an item's entry is the number of items up to it), that
nothing but `EntryOf` of a record is ever imported, and that the totals are those of
the entries unless a yield has failed. A path that survives `Normalize` and the cut
has no separator at either end and no two in a row (`CatalogPathIsClean`), so it is
again the `Join` of its names, and the parent and the name in the entry are what
`validateImportedEntry` computes of the path a second time. `EntriesMoveOn` then
comes down to what neither of the two looks at: dots, NUL and the sign of the size.

Every invariant and every action property that a passing run checks is also proved.
Only model-checked is liveness, which TLAPS does not do: `ScanEnds`,
`NothingScansForever`, `RequestsAreAnswered`, `PageSettles`, `LockIsFreed`.

## Things worth knowing that the checks brought up

- `LatestIsNewest` leaves out empty scans: Complete takes its date before it asks
  for the lock, and a scan that stored nothing does not have the lock yet, so it
  may commit later with an earlier date than another scan of its drive, and its
  empty snapshot replaces the newer view. `ViewMovesForward` names the same
  exception.
- `NoScanTwice` holds for catalogs that import only from where scans were made.
  Along a chain it does not: the digest of a receipt covers hash mode and
  hashes, which a change of policy in the middle changes.
- `os.Stat` follows a link given as the root of a scan and `WalkDir` does not:
  such a scan succeeds and is empty. `TreeAssumption` leaves it out.
- A job is `failed` when its snapshot could not be read back after COMMIT,
  although the snapshot is in and shown (`ReadBackFails`). `CompleteJobHasSnapshot`
  promises only the other direction.
- If one of the three requests of `loadLibrary` fails, the page opens the drive as
  it knew it before, or not at all (`OpenOutdated`): the name and the counts above
  the tree are then old, the tree is new, because it is asked for by the drive's
  ID. `PageShowsTheScan` asks for the counts only where the list could be read.
- Info of a folder may fail after its listing has shown it: the folder is then
  reported and not recorded, but the walk goes on beneath it, and what it finds
  there is recorded without a parent. `GapsAreReported` holds of it; that each
  item's folder is there as well does not.
- The fingerprint properties speak of files nobody wrote to between Info and the
  end of the hash (`steady`). A hash of a file that was written to may describe a
  content it never had.
- An entry's kind is older than its size and time. A folder that becomes a file in
  between is recorded as a folder with the file's time, and the next comparison
  lists it as changed although nothing has happened since; `DiffListsOnlyChanges`
  leaves such entries out (`Truthful`).
- In an EFU file that lacks one of the columns Size, Date Modified or Attributes,
  the missing one is read from the first column: without attributes, an item with
  a capital D in its name is a folder. `EveryItemArrives` asks for the kind only
  where there are attributes.
- `--strip-prefix` may end in the middle of a name (`CutsAName`). If the rest is the
  path of another item, Add refuses the second and the import fails as a whole.
- A failed import leaves the drive it created, without a view. Its name is
  taken, so that the same command fails again.
- `import-efu` takes a negative size, a NUL in a path, and a name that is one dot or
  two, and `import-catalog` later refuses the whole catalog for any of them;
  `EntriesMoveOn` says that it does so for these three and for nothing else. A size
  too large for int64 becomes the largest there is, silently.
- The test for a slash at the end of a directory's path in an EFU file comes after
  all of those have been cut.
- The totals of a scan that ended in an error may have one item more than was
  recorded, since an item is counted before the writer is given it.
  `TotalsMatchRecorded` says exactly that.
- `*/cache/**` leaves out what is in a cache folder but records the folder: only
  the first half of such a pattern is compared literally.
- The list in the history panel is `state.snapshots` as it is when the panel is
  opened, which may be that of the drive before, or of whichever answer came
  last. The changes are right all the same, because Diff refuses snapshots of
  another drive. Entries and search results have no such check: an older answer
  that comes late replaces a newer one.
- Of two edits of a drive at once one is lost, and an edit that overlaps a scan
  puts back the source path it has read. The view is safe: UPDATE does not name it.
- ResolveDrive looks for an ID or a name with one LIMIT 1; with a drive named like
  another's ID it is not said which one is found.
- With as many jobs as connections every request waits until a scan ends, which
  may be hours. It ends, though: `RequestsAreAnswered`.

## What is not modelled, and why

- Search, statistics, the list of a folder: one statement over one committed
  state. That the page shows whichever answer comes last is said above; there is
  no property of the code it would keep.
- Labels, the release builder, security headers, flags: no state.
- The Windows branch of `excluded` (case-insensitive comparison), hidden flags.
- Field validation of an import, other than as a rollback at any point.
- The source of an import changing under it: scans may begin there once it has
  been opened, but the import reads it as it was then. SQLite is told that the file
  is immutable, and what it reads of one that changes is not defined; the
  documentation asks the user to avoid it.
- What the single statements of a schema create: SchemaVersions has one for each
  version. Programs of other releases are taken to migrate as this one does, with
  fewer or more statements that say IF NOT EXISTS.
- Reading the drive by name or ID (ResolveDrive), paging: single statements.

## Plan

Written, in this order: Catalog with ShelfView and its proofs; Merge; Scanner;
ScanJobs; Export; Fingerprints; ScanPage; SchemaVersions; EFU; HistoryPage;
ConnPool with UpdateDrive; the proofs of each.

Next: the page's folders and search, once the code keeps an older answer from
replacing a newer one.
