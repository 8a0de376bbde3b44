---------------------------- MODULE SchemaProofs ---------------------------
(* What SchemaVersions promises, proved for any number of processes and    *)
(* versions.                                                               *)
EXTENDS SchemaVersions, TLAPS

\* A schema is part of every later one.
LEMMA SchemasGrow ==
    ASSUME NEW v \in Versions, NEW w \in Versions, v <= w
    PROVE  SchemaOf(v) \subseteq SchemaOf(w)
BY VersionAssumption DEF SchemaOf, Versions, NoVersion, Metadata

\* What a program knows is a version, and its schema has a metadata table.
LEMMA SupportedIsVersion ==
    ASSUME NEW p \in Processes
    PROVE  /\ Supports[p] \in Versions /\ MaxVersion \in Versions
           /\ Metadata \in SchemaOf(Supports[p])
           /\ SchemaOf(Supports[p]) \subseteq SchemaOf(MaxVersion)
<1>1. Supports[p] \in 1 .. MaxVersion
  BY SupportsAssumption
<1>2. Supports[p] \in Versions /\ MaxVersion \in Versions
  BY <1>1, VersionAssumption DEF Versions, NoVersion
<1>3. Metadata \in SchemaOf(Supports[p])
  BY <1>1 DEF SchemaOf, NoVersion, Metadata
<1>4. QED
  BY <1>1, <1>2, <1>3, SchemasGrow

\* Nothing is known to be in the file, and nobody is at it.
LEMMA SchemaInit == Init => MigrationInv
<1> SUFFICES ASSUME Init PROVE MigrationInv
  OBVIOUS
<1>1. NoVersion \in Versions
  BY VersionAssumption DEF NoVersion, Versions
<1>2. TypeOK
  BY <1>1 DEF Init, TypeOK, Away, Commands, Proc, SchemaOf
<1>3. ReadersKnow
  BY NobodyAssumption DEF Init, ReadersKnow, At, Away
<1>4. NotYetMigrated
  BY DEF Init, NotYetMigrated, At, Away
<1> QED BY <1>2, <1>3, <1>4 DEF MigrationInv, TablesMatchVersion, Init

\* A step of p that leaves the version and the tables alone, keeps or gives
\* back the lock, and does not put p where it may write, keeps the invariant.
LEMMA QuietStep ==
    ASSUME MigrationInv, NEW p \in Processes,
           exists' \in BOOLEAN, sidecars' \in BOOLEAN,
           journal' \in {"delete", "wal"},
           UNCHANGED <<version, tables>>,
           lock' = Released(p) \/ (lock' = lock /\ lock # p),
           NEW new,
           procs' = [procs EXCEPT ![p] = new],
           procs' \in [Processes -> Proc],
           new.call \notin {"checked", "migrated"},
           \/ new.call = "away"
           \/ ~new.alone
           \/ version = new.found
           \/ new.command # "preview" /\ new.outcome = "done",
           new.outcome # "none" => new.call \in {"using", "returned"},
           new.command = "preview" => new.call \in {"copying", "returned"}
    PROVE  MigrationInv'
<1> USE DEF MigrationInv, TypeOK
<1>1. TypeOK'
  BY DEF Released
<1>2. TablesMatchVersion'
  BY DEF TablesMatchVersion
<1>3. procs'[p] = new /\ \A q \in Processes : q # p => procs'[q] = procs[q]
  OBVIOUS
<1>4. ReadersKnow'
  BY <1>3, NobodyAssumption DEF ReadersKnow, At, Released
<1>5. NotYetMigrated'
  BY <1>3 DEF NotYetMigrated, At, Succeeded
<1> QED BY <1>1, <1>2, <1>4, <1>5

\* A call that is over has no transaction.
LEMMA EndedIsProc ==
    ASSUME NEW p \in Processes, procs[p] \in Proc,
           NEW call \in {"using", "returned"}, NEW outcome \in {"done", "refused", "error"}
    PROVE  /\ Ended(p, call, outcome) \in Proc
           /\ Ended(p, call, outcome).call = call
           /\ Ended(p, call, outcome).outcome = outcome
           /\ Ended(p, call, outcome).alone = procs[p].alone
           /\ Ended(p, call, outcome).found = procs[p].found
           /\ Ended(p, call, outcome).command = procs[p].command
<1>1. NoVersion \in Versions
  BY VersionAssumption DEF Versions, NoVersion
<1> QED BY <1>1 DEF Ended, Proc

\* The calls before the transaction only read, set the journal mode or return.
LEMMA OutsideStep ==
    ASSUME MigrationInv, NEW p \in Processes,
           \/ \E command \in Commands : Preflight(p, command)
           \/ SetJournalMode(p) \/ JournalBusy(p)
           \/ Preview(p) \/ PreviewRefused(p)
           \/ RefuseNewer(p) \/ BeginBusy(p)
           \/ Close(p) \/ Crash(p)
    PROVE  MigrationInv'
<1> USE DEF MigrationInv, TypeOK
<1>a. lock = p => procs[p].call \in {"checked", "migrated"}
  BY DEF ReadersKnow
<1>b. ~At(p, "away") /\ ~Succeeded(p) /\ procs[p].alone
          => version = procs[p].found
  BY DEF NotYetMigrated
<1>c. /\ procs[p] \in Proc
      /\ procs[p].outcome # "none" => procs[p].call \in {"using", "returned"}
      /\ procs[p].command = "preview" => procs[p].call \in {"copying", "returned"}
  BY DEF NotYetMigrated
<1>1. ASSUME NEW command \in Commands, Preflight(p, command)
      PROVE  MigrationInv'
  <2>1. /\ FirstCall(command) \in {"configuring", "beginning", "copying"}
        /\ command = "preview" => FirstCall(command) = "copying"
    BY DEF FirstCall, Commands
  <2>0. NoVersion \in Versions
    BY VersionAssumption DEF Versions, NoVersion
  <2>2. ASSUME NEW call \in {"returned", "configuring", "beginning", "copying"},
               NEW outcome \in {"none", "refused"}
        PROVE  /\ Called(call, command, outcome) \in Proc
               /\ Called(call, command, outcome).call = call
               /\ Called(call, command, outcome).command = command
               /\ Called(call, command, outcome).found = version
               /\ Called(call, command, outcome).outcome = outcome
    BY <2>0 DEF Called, Proc
  <2>3. PICK new \in Proc :
           /\ procs' = [procs EXCEPT ![p] = new]
           /\ new.call \in {"returned", "configuring", "beginning", "copying"}
           /\ new.found = version
           /\ new.outcome # "none" => new.call = "returned"
           /\ new.command = "preview" => new.call \in {"copying", "returned"}
    <3>1. CASE procs' = [procs EXCEPT ![p] =
                            Called(FirstCall(command), command, "none")]
      BY <2>1, <2>2, <3>1
    <3>2. CASE procs' = [procs EXCEPT ![p] =
                            Called("returned", command, "refused")]
      BY <2>2, <3>2
    <3> QED BY <1>1, <3>1, <3>2 DEF Preflight
  <2>4. lock' = lock /\ lock # p
    BY <1>1, <1>a DEF Preflight, At
  <2>5. procs' \in [Processes -> Proc]
    BY <2>3
  <2> QED BY <1>1, <2>3, <2>4, <2>5, QuietStep DEF Preflight
<1>2. CASE SetJournalMode(p)
  <2> DEFINE new == [procs[p] EXCEPT !.call = "beginning"]
  <2>1. procs' = [procs EXCEPT ![p] = new]
    BY <1>2 DEF SetJournalMode, Goto
  <2>2. lock' = lock /\ lock # p
    BY <1>2, <1>a DEF SetJournalMode, At
  <2>3. ~new.alone \/ version = new.found
            \/ (new.command # "preview" /\ new.outcome = "done")
    BY <1>2, <1>b, <1>c DEF SetJournalMode, At, Succeeded, Proc
  <2>4. new.call = "beginning" /\ new.outcome = "none" /\ new.command # "preview"
    BY <1>2, <1>c DEF SetJournalMode, At, Proc
  <2>5. procs' \in [Processes -> Proc]
    BY <2>1 DEF Proc
  <2> HIDE DEF new
  <2> QED BY <1>2, <2>1, <2>2, <2>3, <2>4, <2>5, QuietStep DEF SetJournalMode
<1>3. CASE Close(p) \/ Crash(p)
  <2>1. procs' = [procs EXCEPT ![p] = Away]
    BY <1>3 DEF Close, Crash
  <2>2. /\ Away.call = "away" /\ Away.outcome = "none" /\ Away.command = "none"
        /\ procs' \in [Processes -> Proc]
    BY <2>1, VersionAssumption DEF Away, Versions, NoVersion, Proc
  <2>3. lock' = Released(p) \/ (lock' = lock /\ lock # p)
    BY <1>3, <1>a DEF Close, Crash
  <2>4. /\ exists' \in BOOLEAN /\ sidecars' \in BOOLEAN
        /\ journal' \in {"delete", "wal"} /\ UNCHANGED <<version, tables>>
    BY <1>3 DEF Close, Crash, SidecarsAfter
  <2> QED BY <2>1, <2>2, <2>3, <2>4, QuietStep
<1>4. ASSUME NEW outcome \in {"done", "refused", "error"},
             Return(p, outcome),
             procs[p].call \in {"configuring", "copying", "beginning"},
             UNCHANGED <<exists, version, tables, journal, lock>>,
             sidecars' \in BOOLEAN
      PROVE  MigrationInv'
  <2> DEFINE new == Ended(p, "returned", outcome)
  <2>1. procs' = [procs EXCEPT ![p] = new]
    BY <1>4 DEF Return
  <2>a. new \in Proc /\ new.call = "returned" /\ new.outcome = outcome
        /\ new.alone = procs[p].alone /\ new.found = procs[p].found
        /\ new.command = procs[p].command
    BY <1>c, <1>4, EndedIsProc
  <2>2. lock' = lock /\ lock # p
    BY <1>4, <1>a
  <2>3. \/ ~new.alone \/ version = new.found
        \/ (new.command # "preview" /\ new.outcome = "done")
    BY <1>4, <1>b, <1>c, <2>a DEF At, Succeeded
  <2>4. new.call = "returned" /\ (new.command = "preview" => new.call \in {"copying", "returned"})
    BY <2>a
  <2>5. procs' \in [Processes -> Proc]
    BY <2>1, <2>a
  <2> HIDE DEF new
  <2> QED BY <1>4, <2>1, <2>2, <2>3, <2>4, <2>5, QuietStep
<1>5. CASE JournalBusy(p)
  BY <1>4, <1>5 DEF JournalBusy, At
<1>6. CASE Preview(p)
  <2>1. PICK outcome \in {"done", "refused", "error"} : Return(p, outcome)
    BY <1>6 DEF Preview
  <2> QED BY <1>4, <1>6, <2>1 DEF Preview, At
<1>7. CASE PreviewRefused(p)
  BY <1>4, <1>7 DEF PreviewRefused, At
<1>8. CASE RefuseNewer(p)
  BY <1>4, <1>8 DEF RefuseNewer, At, SidecarsAfter
<1>9. CASE BeginBusy(p)
  BY <1>4, <1>9 DEF BeginBusy, At, SidecarsAfter
<1> QED BY <1>1, <1>2, <1>3, <1>5, <1>6, <1>7, <1>8, <1>9

\* Reading the version and the statements of the schema: p may write only if
\* what it has read is still so, and only then takes the lock.
LEMMA InsideStep ==
    ASSUME MigrationInv, NEW p \in Processes,
           NEW new \in Proc, procs' = [procs EXCEPT ![p] = new],
           ~At(p, "away"), procs[p].call \in {"beginning", "checked"},
           new.command = procs[p].command, new.outcome = procs[p].outcome,
           new.found = procs[p].found, new.alone = procs[p].alone,
           version' = version, tables' = tables, journal' = journal,
           exists' \in BOOLEAN, sidecars' \in BOOLEAN,
           lock' = lock \/ (lock' = p /\ MayWrite(p)),
           new.call \in {"checked", "migrated"},
           version <= Supports[p],
           new.seen \subseteq SchemaOf(Supports[p]),
           new.call = "migrated" =>
               /\ lock' = p /\ new.row = Supports[p]
               /\ SchemaOf(Supports[p]) \subseteq new.seen
    PROVE  MigrationInv'
<1> USE DEF MigrationInv, TypeOK
<1>1. /\ procs'[p] = new
      /\ \A q \in Processes : q # p => procs'[q] = procs[q]
      /\ procs' \in [Processes -> Proc]
  OBVIOUS
<1>2. TypeOK' /\ TablesMatchVersion'
  BY <1>1 DEF TablesMatchVersion
<1>3. new.call = "migrated" => new.seen = SchemaOf(Supports[p])
  OBVIOUS
<1>4. ASSUME NEW q \in Processes, q # p
      PROVE  /\ At(q, "migrated") => lock' = q
             /\ lock' = q => procs[q].call \in {"checked", "migrated"}
  BY <1>4, NobodyAssumption DEF ReadersKnow, At, MayWrite
<1>5. ReadersKnow'
  BY <1>1, <1>3, <1>4 DEF ReadersKnow, At
<1>6. NotYetMigrated'
  BY <1>1 DEF NotYetMigrated, At, Succeeded
<1> QED BY <1>2, <1>5, <1>6

LEMMA ReadVersionStep ==
    ASSUME MigrationInv, NEW p \in Processes, ReadVersion(p)
    PROVE  MigrationInv'
<1> USE DEF MigrationInv, TypeOK
<1> DEFINE seen == tables \cup {Metadata}
           new == [procs[p] EXCEPT !.call = "checked", !.stale = FALSE,
                                   !.seen = seen, !.row = version]
<1>1. /\ At(p, "beginning") /\ version <= Supports[p]
      /\ exists' = TRUE /\ sidecars' = (sidecars \/ journal = "wal")
      /\ lock' = lock \/ (lock' = p /\ MayWrite(p))
      /\ UNCHANGED <<version, tables, journal>>
      /\ procs' = [procs EXCEPT ![p] = new]
  BY DEF ReadVersion
<1>2. seen \subseteq SchemaOf(Supports[p]) /\ seen \subseteq SchemaOf(MaxVersion)
  BY <1>1, SchemasGrow, SupportedIsVersion DEF TablesMatchVersion
<1> HIDE DEF seen
<1>3. /\ new \in Proc /\ new.call = "checked" /\ new.seen = seen
      /\ new.command = procs[p].command /\ new.outcome = procs[p].outcome
      /\ new.found = procs[p].found /\ new.alone = procs[p].alone
  BY <1>2 DEF Proc
<1> HIDE DEF new
<1> QED BY <1>1, <1>2, <1>3, InsideStep DEF At

LEMMA WritingStep ==
    ASSUME MigrationInv, NEW p \in Processes, CreateMissing(p) \/ RecordVersion(p)
    PROVE  MigrationInv'
<1> USE DEF MigrationInv, TypeOK
<1>1. /\ At(p, "checked") /\ MayWrite(p) /\ ~procs[p].stale /\ lock' = p
      /\ UNCHANGED <<exists, version, tables, journal, sidecars>>
      /\ procs[p] \in Proc
  BY DEF CreateMissing, RecordVersion, Writes
<1>2. /\ version <= Supports[p] /\ procs[p].seen \subseteq SchemaOf(Supports[p])
      /\ Supports[p] \in Versions
      /\ SchemaOf(Supports[p]) \subseteq SchemaOf(MaxVersion)
  BY <1>1, SupportedIsVersion DEF ReadersKnow
<1>3. CASE CreateMissing(p)
  <2>1. PICK n \in Missing(p) : procs' = [procs EXCEPT ![p].seen = @ \cup {n}]
    BY <1>3 DEF CreateMissing
  <2> DEFINE seen == procs[p].seen \cup {n}
             new == [procs[p] EXCEPT !.seen = seen]
  <2>2. seen \subseteq SchemaOf(Supports[p]) /\ seen \subseteq SchemaOf(MaxVersion)
    BY <1>2, <2>1 DEF Missing
  <2>3. procs' = [procs EXCEPT ![p] = new]
    BY <2>1
  <2> HIDE DEF seen
  <2>4. /\ new \in Proc /\ new.call = "checked" /\ new.seen = seen
        /\ new.command = procs[p].command /\ new.outcome = procs[p].outcome
        /\ new.found = procs[p].found /\ new.alone = procs[p].alone
    BY <1>1, <2>2 DEF Proc, At
  <2> HIDE DEF new
  <2> QED BY <1>1, <1>2, <2>2, <2>3, <2>4, InsideStep DEF At
<1>4. CASE RecordVersion(p)
  <2> DEFINE new == [procs[p] EXCEPT !.call = "migrated", !.row = Supports[p]]
  <2>1. procs' = [procs EXCEPT ![p] = new] /\ Missing(p) = {}
    BY <1>4 DEF RecordVersion
  <2>2. SchemaOf(Supports[p]) \subseteq procs[p].seen
    BY <2>1 DEF Missing
  <2>3. /\ new \in Proc /\ new.call = "migrated" /\ new.seen = procs[p].seen
        /\ new.row = Supports[p]
        /\ new.command = procs[p].command /\ new.outcome = procs[p].outcome
        /\ new.found = procs[p].found /\ new.alone = procs[p].alone
    BY <1>1, <1>2 DEF Proc
  <2> HIDE DEF new
  <2> QED BY <1>1, <1>2, <2>1, <2>2, <2>3, InsideStep DEF At
<1> QED BY <1>3, <1>4

\* A command that fails in its transaction gives back the lock.
LEMMA AbortStep ==
    ASSUME MigrationInv, NEW p \in Processes, Abort(p)
    PROVE  MigrationInv'
<1> USE DEF MigrationInv, TypeOK
<1> DEFINE new == Ended(p, "returned", "error")
<1>1. procs' = [procs EXCEPT ![p] = new] /\ procs[p] \in Proc
  BY DEF Abort, Return
<1>2. /\ new \in Proc /\ new.call = "returned" /\ new.outcome = "error"
      /\ new.alone = procs[p].alone /\ new.found = procs[p].found
  BY <1>1, EndedIsProc
<1>3. procs[p].call \in {"checked", "migrated"}
  BY DEF Abort
<1>4. ~new.alone \/ version = new.found
  BY <1>2, <1>3 DEF NotYetMigrated, At, Succeeded
<1>5. procs' \in [Processes -> Proc]
  BY <1>1, <1>2
<1> HIDE DEF new
<1> QED BY <1>1, <1>2, <1>4, <1>5, QuietStep DEF Abort, SidecarsAfter

\* A commit changes the version and the tables together, and puts out of date
\* what every other transaction has read.
LEMMA CommitStep ==
    ASSUME MigrationInv, NEW p \in Processes, Commit(p)
    PROVE  MigrationInv' /\ version' >= version
<1> USE DEF MigrationInv, TypeOK
<1>1. /\ lock = p /\ version <= Supports[p] /\ At(p, "migrated")
      /\ version' = Supports[p] /\ tables' = SchemaOf(Supports[p])
  BY DEF Commit, ReadersKnow
<1>2. /\ version' \in Versions /\ version' >= version
      /\ tables' = SchemaOf(version') /\ tables' \subseteq SchemaOf(MaxVersion)
  BY <1>1, SupportedIsVersion DEF Versions, NoVersion
<1>3. \A q \in Processes : q # p =>
         /\ procs'[q] \in Proc /\ procs'[q].call = procs[q].call
         /\ procs'[q].alone = FALSE /\ procs'[q].outcome = procs[q].outcome
         /\ procs'[q].command = procs[q].command
         /\ procs[q].call = "checked" => procs'[q].stale = TRUE
  <2>1. ASSUME NEW q \in Processes, q # p
        PROVE  procs'[q] = Overtaken(q)
    BY <2>1 DEF Commit
  <2>2. ASSUME NEW q \in Processes
        PROVE  /\ Overtaken(q) \in Proc /\ Overtaken(q).call = procs[q].call
               /\ Overtaken(q).alone = FALSE
               /\ Overtaken(q).outcome = procs[q].outcome
               /\ Overtaken(q).command = procs[q].command
               /\ procs[q].call = "checked" => Overtaken(q).stale = TRUE
    BY DEF Overtaken, Proc
  <2> QED BY <2>1, <2>2
<1>4. /\ procs'[p] \in Proc /\ procs'[p].command = procs[p].command
      /\ procs'[p].call \in {"using", "returned"}
      /\ procs'[p].outcome = "done"
  <2> DEFINE next == IF procs[p].command = "open" THEN "using" ELSE "returned"
  <2>1. procs'[p] = Ended(p, next, "done")
    BY DEF Commit
  <2>2. next \in {"using", "returned"} /\ procs[p] \in Proc
    OBVIOUS
  <2> HIDE DEF next
  <2> QED BY <2>1, <2>2, EndedIsProc
<1>5. TypeOK' /\ TablesMatchVersion'
  <2>1. procs' = [q \in Processes |-> procs'[q]]
    BY DEF Commit
  <2>2. procs' \in [Processes -> Proc]
    BY <1>3, <1>4, <2>1
  <2> QED BY <1>2, <2>2 DEF Commit, SidecarsAfter, TablesMatchVersion
<1>6. ReadersKnow'
  <2>1. lock' = NoProcess
    BY DEF Commit
  <2>2. \A q \in Processes : q # p => procs[q].call # "migrated"
    BY <1>1 DEF ReadersKnow, At
  <2> QED BY <1>3, <1>4, <2>1, <2>2, NobodyAssumption DEF ReadersKnow, At
<1>7. NotYetMigrated'
  <2>1. procs[p].command # "preview"
    BY <1>1 DEF NotYetMigrated, At
  <2> QED BY <1>3, <1>4, <2>1 DEF NotYetMigrated, At, Succeeded
<1> QED BY <1>2, <1>5, <1>6, <1>7

-----------------------------------------------------------------------------
(* The theorems.                                                           *)

\* Every step keeps the invariant and takes the version nowhere but up.
LEMMA SchemaStep ==
    MigrationInv /\ [Next]_vars => MigrationInv' /\ version' >= version
<1> SUFFICES ASSUME MigrationInv, [Next]_vars
             PROVE  MigrationInv' /\ version' >= version
  OBVIOUS
<1>1. version \in Nat
  BY VersionAssumption DEF MigrationInv, TypeOK, Versions, NoVersion
<1>2. CASE UNCHANGED vars
  <2>1. MigrationInv'
    BY <1>2 DEF vars, MigrationInv, TypeOK, TablesMatchVersion, ReadersKnow,
                NotYetMigrated, At, Succeeded
  <2> QED BY <1>1, <1>2, <2>1 DEF vars
<1>3. ASSUME NEW p \in Processes,
             \/ \E command \in Commands : Preflight(p, command)
             \/ Step(p) \/ Close(p) \/ Crash(p)
      PROVE  MigrationInv' /\ version' >= version
  <2>1. CASE Commit(p)
    BY <2>1, CommitStep
  <2>2. CASE ReadVersion(p) \/ CreateMissing(p) \/ RecordVersion(p)
    <3>1. version' = version
      BY <2>2 DEF ReadVersion, CreateMissing, RecordVersion
    <3> QED BY <1>1, <2>2, <3>1, ReadVersionStep, WritingStep
  <2>3. CASE Abort(p)
    <3>1. version' = version
      BY <2>3 DEF Abort
    <3> QED BY <1>1, <2>3, <3>1, AbortStep
  <2>4. CASE \/ \E command \in Commands : Preflight(p, command)
             \/ SetJournalMode(p) \/ JournalBusy(p)
             \/ Preview(p) \/ PreviewRefused(p)
             \/ RefuseNewer(p) \/ BeginBusy(p)
             \/ Close(p) \/ Crash(p)
    <3>1. version' = version
      BY <2>4 DEF Preflight, SetJournalMode, JournalBusy, Preview,
                  PreviewRefused, RefuseNewer, BeginBusy, Close, Crash
    <3> QED BY <1>1, <2>4, <3>1, OutsideStep
  <2> QED BY <1>3, <2>1, <2>2, <2>3, <2>4 DEF Step
<1> QED BY <1>2, <1>3 DEF Next

\* MigrationInv, which includes the type invariant, holds of every program of
\* every version: what migrateCatalogTx read is true when it is used.
THEOREM MigrationInvariance == Spec => []MigrationInv
<1>1. MigrationInv /\ [Next]_vars => MigrationInv'
  BY SchemaStep
<1> QED BY <1>1, SchemaInit, PTL DEF Spec

\* No step of any program takes the file back to an older version, however the
\* steps of old and new programs interleave (migrateCatalogTx).
THEOREM ForwardOnly == Spec => VersionNeverGoesBack
<1>1. MigrationInv /\ [Next]_vars => [version' >= version]_vars
  BY SchemaStep
<1> QED BY <1>1, MigrationInvariance, PTL DEF Spec, VersionNeverGoesBack

\* A file has exactly what the statements of the version it records create,
\* whoever failed or died between two statements of a migration, and whatever
\* tables a migration that was committed had found (migrateCatalogTx, migrate).
THEOREM WholeMigrations == Spec => []TablesMatchVersion
<1>1. MigrationInv => TablesMatchVersion
  BY DEF MigrationInv
<1> QED BY <1>1, MigrationInvariance, PTL

\* What fails, and what only previews, has not migrated the file.
THEOREM FailureIsHarmless == Spec => []FailureMigratesNothing
<1>1. MigrationInv => FailureMigratesNothing
  BY DEF MigrationInv, NotYetMigrated, FailureMigratesNothing, At, Succeeded
<1> QED BY <1>1, MigrationInvariance, PTL
=============================================================================
