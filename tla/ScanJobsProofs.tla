--------------------------- MODULE ScanJobsProofs ---------------------------
(***************************************************************************)
(* A job that says "complete" has its snapshot, and the page that polls it *)
(* shows that scan or a newer one: the theorems about ScanJobs and         *)
(* ScanPage, on top of what CatalogProofs proves of tables and writers.    *)
(***************************************************************************)
EXTENDS ScanPage, CatalogProofs

\* The calls a writer makes only after run has shown the ID of its snapshot.
Begun == {"failing", "finalizing", "pointing", "committing", "reading"}

JobRow == [status : Waiting \cup Settled \cup {"none", "scanning"},
           drive : Drives \cup {NoDrive}, snapshot : 0 .. MaxSnapshot]

\* What the record says of the snapshot is true.
ShowsComplete(j) ==
    /\ jobs[j].snapshot # NoSnapshot
    /\ IsComplete(jobs[j].snapshot)
    /\ snapshots[jobs[j].snapshot].drive = jobs[j].drive

\* What the goroutine of job j, its record and its writer know of each other.
JobKnows(j) ==
    /\ jobs[j].status \in Waiting => jobs[j].snapshot = NoSnapshot
    /\ jobs[j].status = "scanning" =>
           /\ jobs[j].snapshot \in {NoSnapshot, writers[j].snapshot}
           /\ Busy(j) => writers[j].drive = jobs[j].drive
           /\ writers[j].call \in Begun => jobs[j].snapshot # NoSnapshot
           /\ At(j, "returned") /\ writers[j].outcome = "complete" => ShowsComplete(j)
    /\ jobs[j].status = "complete" => ShowsComplete(j)

JobInv == IInv /\ jobs \in [Jobs -> JobRow] /\ \A j \in Jobs : JobKnows(j)

-----------------------------------------------------------------------------
(* Steps of the catalog, seen from a job.                                  *)

\* What one step of a writer does to its record.
WriterMoves(w) ==
    /\ OthersUnchanged(w)
    /\ writers'[w].snapshot = writers[w].snapshot
    /\ writers'[w].drive = writers[w].drive
    /\ writers'[w].call \in Begun => writers[w].call \in Begun \cup {"open"}
    /\ writers'[w].call = "returned" /\ writers'[w].outcome = "complete"
           => At(w, "reading")

LEMMA WriterStepMoves ==
    ASSUME IInv, NEW w \in Writers, WriterStep(w)
    PROVE  WriterMoves(w) /\ Busy(w)
<1>1. TypeOK /\ writers \in [Writers -> Writer] /\ writers[w] \in Writer
  BY DEF IInv, TypeOK
<1>2. Busy(w)
  BY DEF WriterStep, BeginTx, BeginTxFails, Add, AddDuplicate, AddBusy, AddError,
         SourceFails, Complete, Finalize, PointDrive, CompleteFails, Commit,
         CommitFails, ReadBack, ReadBackFails, Rollback, MarkFailed, MarkBusy,
         Busy, At
<1> SUFFICES WriterMoves(w)
  BY <1>2
<1>3. ASSUME NEW c \in Calls, Goto(w, c), c # "returned",
             c \in Begun => writers[w].call \in Begun \cup {"open"}
      PROVE  WriterMoves(w)
  <2>1. OthersUnchanged(w) /\ ScanUnchanged(w) /\ writers'[w].call = c
    BY <1>1, <1>3, GotoEffect
  <2>2. QED
    BY <1>3, <2>1 DEF ScanUnchanged, WriterMoves
<1>4. CASE \/ BeginTx(w) \/ BeginTxFails(w) \/ \E p \in Paths : AddDuplicate(w, p)
           \/ AddBusy(w) \/ SourceFails(w) \/ Finalize(w) \/ PointDrive(w)
           \/ CompleteFails(w)
  <2>1. \/ At(w, "starting") /\ (Goto(w, "open") \/ Goto(w, "marking"))
        \/ At(w, "open") /\ Goto(w, "failing")
        \/ At(w, "finalizing") /\ (Goto(w, "pointing") \/ Goto(w, "failing"))
        \/ At(w, "pointing") /\ (Goto(w, "committing") \/ Goto(w, "failing"))
    BY <1>4 DEF BeginTx, BeginTxFails, AddDuplicate, AddBusy, SourceFails,
         Finalize, PointDrive, CompleteFails, At
  <2>2. QED
    BY <1>3, <2>1 DEF At, Calls, Scanning, InTransaction, Begun
<1>5. ASSUME NEW result \in {"complete", "error"}, Return(w, result),
             result = "complete" => At(w, "reading")
      PROVE  WriterMoves(w)
  <2>1. OthersUnchanged(w) /\ ScanUnchanged(w) /\ writers'[w].call = "returned"
    BY <1>1, <1>5, ReturnEffect
  <2>2. writers'[w].outcome = result
    BY <1>1, <1>5 DEF Return, Writer
  <2>3. QED
    BY <1>5, <2>1, <2>2 DEF ScanUnchanged, WriterMoves, Begun
<1>6. CASE ReadBack(w) \/ ReadBackFails(w) \/ MarkFailed(w) \/ MarkBusy(w)
  <2>1. Return(w, "error") \/ (At(w, "reading") /\ Return(w, "complete"))
    BY <1>6 DEF ReadBack, ReadBackFails, MarkFailed, MarkBusy
  <2>2. QED
    BY <1>5, <2>1
<1>7. CASE Commit(w) \/ CommitFails(w) \/ Rollback(w)
  <2>1. CASE Commit(w)
    <3>1. /\ OthersUnchanged(w) /\ writers'[w].call = "reading"
          /\ writers'[w].snapshot = writers[w].snapshot
          /\ writers'[w].drive = writers[w].drive
          /\ At(w, "committing")
      BY <1>1, <2>1, UnstageEffect DEF Commit, Calls
    <3>2. QED
      BY <3>1 DEF WriterMoves, Begun, At
  <2>2. CASE CommitFails(w) \/ Rollback(w)
    <3>1. /\ OthersUnchanged(w) /\ writers'[w].call = "marking"
          /\ writers'[w].snapshot = writers[w].snapshot
          /\ writers'[w].drive = writers[w].drive
      BY <1>1, <2>2, UnstageEffect DEF CommitFails, Rollback, EndTransaction, Calls
    <3>2. QED
      BY <3>1 DEF WriterMoves, Begun
  <2>3. QED
    BY <1>7, <2>1, <2>2
<1>8. ASSUME NEW new \in Writer, writers' = [writers EXCEPT ![w] = new],
             new.snapshot = writers[w].snapshot, new.drive = writers[w].drive,
             new.call # "returned", At(w, "open")
      PROVE  WriterMoves(w)
  BY <1>1, <1>8 DEF WriterMoves, OthersUnchanged, At
<1>9. CASE Complete(w)
  <2> DEFINE new == [writers[w] EXCEPT !.call = "finalizing", !.now = clock]
  <2>1. clock \in Ticks
    BY <1>1 DEF TypeOK
  <2>2. new \in Writer
    BY <1>1, <2>1 DEF Writer, Calls, Scanning, InTransaction
  <2>3. /\ new.snapshot = writers[w].snapshot /\ new.drive = writers[w].drive
        /\ new.call # "returned"
    BY <1>1 DEF Writer
  <2>4. writers' = [writers EXCEPT ![w] = new] /\ At(w, "open")
    BY <1>1, <1>9 DEF Complete, StampedNow, Writer
  <2> HIDE DEF new
  <2>5. QED
    BY <1>8, <2>2, <2>3, <2>4
<1>10. CASE AddError(w)
  <2> DEFINE new == [writers[w] EXCEPT !.errorCount = writers[w].errorCount + 1]
  <2>1. writers[w].errorCount + 1 \in 0 .. MaxErrors
    BY <1>1, <1>10, BoundsAssumption DEF Writer, AddError
  <2>2. new \in Writer
    BY <1>1, <2>1 DEF Writer
  <2>3. writers' = [writers EXCEPT ![w] = new] /\ At(w, "open")
    BY <1>10 DEF AddError
  <2>4. /\ new.snapshot = writers[w].snapshot /\ new.drive = writers[w].drive
        /\ new.call # "returned"
    BY <1>1, <2>3 DEF Writer, At
  <2> HIDE DEF new
  <2>5. QED
    BY <1>8, <2>2, <2>3, <2>4
<1>11. ASSUME NEW p \in Paths, Add(w, p) PROVE WriterMoves(w)
  <2> DEFINE files == IF Kind[p] = "file" THEN writers[w].fileCount + 1
                                          ELSE writers[w].fileCount
             folders == IF Kind[p] = "directory"
                          THEN writers[w].directoryCount + 1
                          ELSE writers[w].directoryCount
             new == [writers[w] EXCEPT !.staged = writers[w].staged \cup {p},
                                       !.fileCount = files,
                                       !.directoryCount = folders]
  <2>1. /\ writers[w].staged \cup {p} \in SUBSET Paths
        /\ files \in Nat /\ folders \in Nat
    BY <1>1 DEF Writer
  <2>2. new \in Writer
    BY <1>1, <2>1 DEF Writer
  <2>3. writers' = [writers EXCEPT ![w] = new] /\ At(w, "open")
    BY <1>1, <1>11 DEF Writer, Add, Stage
  <2>4. /\ new.snapshot = writers[w].snapshot /\ new.drive = writers[w].drive
        /\ new.call # "returned"
    BY <1>1, <2>3 DEF Writer, At
  <2> HIDE DEF new
  <2>5. QED
    BY <1>8, <2>2, <2>3, <2>4
<1>12. QED
  BY <1>4, <1>6, <1>7, <1>9, <1>10, <1>11 DEF WriterStep

\* No step makes a true record false: complete snapshots stay as they are.
LEMMA ShowsCompleteKept ==
    ASSUME JobInv, [Next]_vars, NEW j \in Jobs, ShowsComplete(j),
           jobs'[j] = jobs[j]
    PROVE  ShowsComplete(j)'
<1>1. jobs[j].snapshot \in SnapshotIds
  BY BoundsAssumption DEF JobInv, JobRow, ShowsComplete, SnapshotIds, NoSnapshot
<1>2. QED
  BY <1>1, CompleteRowsKept DEF JobInv, ShowsComplete, IsComplete

\* A job whose record and writer stay as they are still knows what it knew.
LEMMA OthersKnow ==
    ASSUME JobInv, [Next]_vars, NEW j \in Jobs,
           jobs'[j] = jobs[j], writers'[j] = writers[j]
    PROVE  JobKnows(j)'
<1>1. JobKnows(j)
  BY DEF JobInv
<1>2. QED
  BY <1>1, ShowsCompleteKept DEF JobKnows, Busy, At

-----------------------------------------------------------------------------
(* The inductive invariant.                                                *)

LEMMA InitJobInv == JobInit => JobInv
<1> SUFFICES ASSUME JobInit PROVE JobInv
  OBVIOUS
<1>1. IInv
  BY InitIInv DEF JobInit
<1>2. NoJob \in JobRow
  BY BoundsAssumption DEF NoJob, JobRow, NoSnapshot
<1>3. QED
  BY <1>1, <1>2 DEF JobInit, JobInv, JobKnows, NoJob, Waiting

\* Every step of a job is one of Catalog, or one that Catalog does not see.
LEMMA JobStepIsNext ==
    ASSUME TypeOK, NEW j \in Jobs, JobStep(j) \/ \E d \in Drives : Request(j, d)
    PROVE  [Next]_vars
<1>1. j \in Writers
  BY JobsAssumption
<1>2. CASE \/ Begin(j) \/ ShowSnapshot(j) \/ Settle(j)
           \/ \E d \in Drives : Request(j, d)
  BY <1>2 DEF Begin, ShowSnapshot, Settle, Request
<1>3. CASE CallStartSnapshot(j)
  <2>1. jobs[j].drive \in Drives
    BY <1>3 DEF CallStartSnapshot, StartSnapshot, StartBusy, TypeOK
  <2>2. QED
    BY <1>1, <1>3, <2>1 DEF CallStartSnapshot, Next, Start
<1>4. CASE Work(j)
  BY <1>1, <1>4 DEF Work, Next
<1>5. QED
  BY <1>2, <1>3, <1>4 DEF JobStep

LEMMA JobNextIsNext ==
    ASSUME TypeOK, [JobNext]_jobVars
    PROVE  [Next]_vars
<1>1. ASSUME NEW p \in Processes, Restart(p) PROVE [Next]_vars
  BY <1>1 DEF Restart, Next
<1>2. CASE World
  BY <1>2 DEF World, Next
<1>3. CASE UNCHANGED jobVars
  BY <1>3 DEF jobVars
<1>4. QED
  BY <1>1, <1>2, <1>3, JobStepIsNext DEF JobNext

\* Steps of others, and of the world, leave what a job knows alone.
LEMMA WorldKeepsJobs ==
    ASSUME JobInv, World, UNCHANGED jobs, NEW j \in Jobs
    PROVE  JobKnows(j)'
<1>1. [Next]_vars /\ j \in Writers
  BY JobsAssumption, JobNextIsNext DEF JobInv, IInv, World, Next
<1>2. writers'[j] = writers[j]
  <2>1. ASSUME NEW w \in Writers \ Jobs, WriterStep(w) PROVE writers'[j] = writers[j]
    BY <1>1, <2>1, WriterStepMoves DEF JobInv, WriterMoves, OthersUnchanged
  <2>2. ASSUME NEW w \in Writers \ Jobs, Start(w) \/ Leave(w)
        PROVE  writers'[j] = writers[j]
    BY <1>1, <2>2 DEF Start, StartSnapshot, StartBusy, Return, Leave, JobInv, IInv,
         TypeOK
  <2>3. CASE Open \/ Tick \/ \E d \in Drives : CreateDrive(d)
    BY <2>3 DEF Open, Tick, CreateDrive
  <2>4. QED
    BY <2>1, <2>2, <2>3 DEF World
<1>3. QED
  BY <1>1, <1>2, OthersKnow

\* Process p dies: its jobs are forgotten, the others do not notice.
LEMMA RestartKeepsJobs ==
    ASSUME JobInv, NEW p \in Processes, Restart(p), NEW j \in Jobs
    PROVE  JobKnows(j)' /\ jobs'[j] \in JobRow
<1>1. [Next]_vars /\ j \in Writers /\ jobs[j] \in JobRow
  BY JobsAssumption DEF Restart, Next, JobInv
<1>2. CASE Host[j] = p
  <2>1. jobs'[j] = NoJob
    BY <1>2 DEF Restart
  <2>2. QED
    BY <2>1, BoundsAssumption DEF JobKnows, NoJob, Waiting, JobRow, NoSnapshot
<1>3. CASE Host[j] # p
  <2>1. jobs'[j] = jobs[j] /\ writers'[j] = writers[j]
    BY <1>1, <1>3 DEF Restart, Crash
  <2>2. QED
    BY <1>1, <2>1, OthersKnow
<1>4. QED
  BY <1>2, <1>3

\* A job's step leaves the other jobs alone.
LEMMA JobStepOthers ==
    ASSUME JobInv, NEW j \in Jobs, NEW i \in Jobs, i # j,
           JobStep(j) \/ \E d \in Drives : Request(j, d)
    PROVE  JobKnows(i)' /\ jobs'[i] = jobs[i]
<1>1. [Next]_vars /\ i \in Writers /\ j \in Writers
  BY JobsAssumption, JobStepIsNext DEF JobInv, IInv
<1>2. jobs'[i] = jobs[i]
  BY DEF JobInv, JobStep, Begin, CallStartSnapshot, ShowSnapshot, Work, Settle,
         SetStatus, Request
<1>3. writers'[i] = writers[i]
  <2>1. CASE Work(j)
    BY <1>1, <2>1, WriterStepMoves DEF JobInv, Work, WriterMoves, OthersUnchanged
  <2>2. CASE CallStartSnapshot(j)
    BY <1>1, <2>2 DEF CallStartSnapshot, StartSnapshot, StartBusy, Return, JobInv,
         IInv, TypeOK
  <2>3. CASE ~Work(j) /\ ~CallStartSnapshot(j)
    BY <2>3 DEF JobStep, Begin, ShowSnapshot, Settle, Request, vars
  <2>4. QED
    BY <2>1, <2>2, <2>3
<1>4. QED
  BY <1>1, <1>2, <1>3, OthersKnow

\* What its own step leaves a job with.
LEMMA JobStepOwn ==
    ASSUME JobInv, NEW j \in Jobs, JobStep(j) \/ \E d \in Drives : Request(j, d)
    PROVE  JobKnows(j)' /\ jobs' \in [Jobs -> JobRow]
<1>1. /\ j \in Writers /\ jobs[j] \in JobRow /\ jobs \in [Jobs -> JobRow]
      /\ JobKnows(j) /\ [Next]_vars /\ TypeOK
      /\ writers[j] \in Writer /\ writers \in [Writers -> Writer]
  BY JobsAssumption, JobStepIsNext DEF JobInv, IInv, TypeOK
<1>2. ASSUME NEW d \in Drives, Request(j, d)
      PROVE  JobKnows(j)' /\ jobs' \in [Jobs -> JobRow]
  <2> DEFINE new == [status |-> "queued", drive |-> d, snapshot |-> NoSnapshot]
  <2>1. new \in JobRow
    BY BoundsAssumption DEF JobRow, Waiting, NoSnapshot
  <2>2. jobs' = [jobs EXCEPT ![j] = new]
    BY <1>2 DEF Request
  <2>3. QED
    BY <1>1, <2>1, <2>2 DEF JobKnows
<1>3. CASE Begin(j)
  <2> DEFINE new == [jobs[j] EXCEPT !.status = "starting"]
  <2>1. new \in JobRow /\ new.status = "starting" /\ new.snapshot = NoSnapshot
    BY <1>1, <1>3 DEF JobRow, Waiting, Begin, JobKnows
  <2>2. jobs' = [jobs EXCEPT ![j] = new]
    BY <1>1, <1>3 DEF Begin, SetStatus, JobRow
  <2> HIDE DEF new
  <2>3. QED
    BY <1>1, <2>1, <2>2 DEF JobKnows
<1>4. CASE CallStartSnapshot(j)
  <2> DEFINE new == [jobs[j] EXCEPT !.status = "scanning"]
  <2>1. /\ new \in JobRow /\ new.status = "scanning" /\ new.snapshot = NoSnapshot
        /\ new.drive = jobs[j].drive
    BY <1>1, <1>4 DEF JobRow, Waiting, CallStartSnapshot, JobKnows
  <2>2. jobs' = [jobs EXCEPT ![j] = new]
    BY <1>1, <1>4 DEF CallStartSnapshot, SetStatus, JobRow
  <2> HIDE DEF new
  <2>3. jobs' \in [Jobs -> JobRow] /\ jobs'[j] = new
    BY <1>1, <2>1, <2>2
  <2>4. CASE StartSnapshot(j, jobs[j].drive)
    <3>1. writers'[j].call = "starting" /\ writers'[j].drive = jobs[j].drive
      BY <1>1, <2>4 DEF StartSnapshot, Idle
    <3>2. QED
      BY <2>1, <2>3, <3>1 DEF JobKnows, Begun, At, Waiting
  <2>5. CASE StartBusy(j, jobs[j].drive)
    <3>1. writers'[j].call = "returned" /\ writers'[j].outcome = "error"
      BY <1>1, <2>5 DEF StartBusy, Return, Writer
    <3>2. QED
      BY <2>1, <2>3, <3>1 DEF JobKnows, Begun, At, Waiting, Busy
  <2>6. QED
    BY <1>4, <2>4, <2>5 DEF CallStartSnapshot
<1>5. CASE ShowSnapshot(j)
  <2> DEFINE new == [jobs[j] EXCEPT !.snapshot = writers[j].snapshot]
  <2>1. /\ At(j, "open") /\ jobs[j].status = "scanning" /\ UNCHANGED vars
        /\ writers[j].drive = jobs[j].drive
        /\ writers[j].snapshot \in 1 .. lastId
    BY <1>1, <1>5 DEF ShowSnapshot, JobKnows, Busy, At, JobInv, IInv, WriterHasRow
  <2>2. /\ new \in JobRow /\ new.status = "scanning"
        /\ new.snapshot = writers[j].snapshot /\ new.drive = jobs[j].drive
    BY <1>1, <2>1 DEF JobRow, Writer
  <2>3. jobs' = [jobs EXCEPT ![j] = new]
    BY <1>1, <1>5 DEF ShowSnapshot, JobRow
  <2> HIDE DEF new
  <2>4. jobs' \in [Jobs -> JobRow] /\ jobs'[j] = new /\ writers' = writers
    BY <1>1, <2>1, <2>2, <2>3 DEF vars
  <2>5. QED
    BY <1>1, <2>1, <2>2, <2>4 DEF JobKnows, At, Busy, Begun, Waiting
<1>6. CASE Work(j)
  <2>1. /\ jobs' = jobs /\ WriterMoves(j) /\ Busy(j) /\ WriterStep(j)
        /\ At(j, "open") => jobs[j].snapshot # NoSnapshot
    BY <1>1, <1>6, WriterStepMoves DEF Work, JobInv
  <2>2. ASSUME jobs[j].status = "scanning", writers'[j].call \in Begun
        PROVE  jobs[j].snapshot # NoSnapshot
    BY <1>1, <2>1, <2>2 DEF WriterMoves, JobKnows, At
  <2>3. ASSUME jobs[j].status = "scanning", At(j, "returned")',
               writers'[j].outcome = "complete"
        PROVE  ShowsComplete(j)'
    <3>1. At(j, "reading")
      BY <2>1, <2>3 DEF WriterMoves, At
    <3>2. jobs[j].snapshot = writers[j].snapshot /\ jobs[j].snapshot # NoSnapshot
      BY <1>1, <2>3, <3>1 DEF JobKnows, At, Begun
    <3>3. /\ IsComplete(writers[j].snapshot)
          /\ snapshots[writers[j].snapshot].drive = jobs[j].drive
      BY <1>1, <2>1, <2>3, <3>1 DEF JobKnows, JobInv, IInv, WriterHasRow
    <3>4. ShowsComplete(j)
      BY <3>2, <3>3 DEF ShowsComplete
    <3>5. QED
      BY <1>1, <2>1, <3>4, ShowsCompleteKept
  <2>4. jobs[j].status = "complete" => ShowsComplete(j)'
    BY <1>1, <2>1, ShowsCompleteKept DEF JobKnows
  <2>5. Busy(j)' => writers'[j].drive = writers[j].drive
    BY <2>1 DEF WriterMoves
  <2>6. QED
    BY <1>1, <2>1, <2>2, <2>3, <2>4 DEF JobKnows, WriterMoves
<1>7. CASE Settle(j)
  <2> DEFINE status == IF writers[j].outcome = "complete" THEN "complete" ELSE "failed"
             new == [jobs[j] EXCEPT !.status = status]
  <2>1. /\ jobs' = [jobs EXCEPT ![j].status = status]
        /\ status \in Settled
        /\ status = "complete" => writers[j].outcome = "complete"
    BY <1>7 DEF Settle, SetStatus, Settled
  <2> HIDE DEF status
  <2>2. /\ new \in JobRow /\ new.status = status /\ new.snapshot = jobs[j].snapshot
        /\ new.drive = jobs[j].drive
    BY <1>1, <2>1 DEF JobRow
  <2>3. jobs' = [jobs EXCEPT ![j] = new]
    BY <1>1, <2>1 DEF JobRow
  <2> HIDE DEF new
  <2>4. jobs' \in [Jobs -> JobRow] /\ jobs'[j] = new /\ UNCHANGED vars
    BY <1>1, <1>7, <2>2, <2>3 DEF Settle
  <2>5. status = "complete" => ShowsComplete(j)
    BY <1>1, <1>7, <2>1 DEF Settle, JobKnows
  <2>6. QED
    BY <2>1, <2>2, <2>4, <2>5 DEF JobKnows, ShowsComplete, IsComplete, Settled, Waiting, vars
<1>8. QED
  BY <1>2, <1>3, <1>4, <1>5, <1>6, <1>7 DEF JobStep

LEMMA NextJobInv == JobInv /\ [JobNext]_jobVars => JobInv'
<1> SUFFICES ASSUME JobInv, [JobNext]_jobVars PROVE JobInv'
  OBVIOUS
<1>1. IInv'
  BY JobNextIsNext, NextIInv DEF JobInv, IInv
<1>2. ASSUME NEW j \in Jobs, JobStep(j) \/ \E d \in Drives : Request(j, d)
      PROVE  JobInv'
  BY <1>1, <1>2, JobStepOwn, JobStepOthers DEF JobInv
<1>3. ASSUME NEW p \in Processes, Restart(p) PROVE JobInv'
  <2>1. \A j \in Jobs : JobKnows(j)' /\ jobs'[j] \in JobRow
    BY <1>3, RestartKeepsJobs
  <2>2. jobs' = [j \in Jobs |-> jobs'[j]]
    BY <1>3 DEF Restart
  <2>3. QED
    BY <1>1, <2>1, <2>2 DEF JobInv
<1>4. CASE World /\ UNCHANGED jobs
  BY <1>1, <1>4, WorldKeepsJobs DEF JobInv
<1>5. CASE UNCHANGED jobVars
  <2>1. [Next]_vars /\ UNCHANGED jobs /\ UNCHANGED writers
    BY <1>5 DEF jobVars, vars
  <2>2. QED
    BY <1>1, <2>1, OthersKnow DEF JobInv
<1>6. QED
  BY <1>2, <1>3, <1>4, <1>5 DEF JobNext

THEOREM JobInvariance == JobSpec => []JobInv
<1>1. QED
  BY InitJobInv, NextJobInv, PTL DEF JobSpec

\* A job whose record says "complete" shows a complete snapshot of its drive,
\* for any number of jobs, other writers, processes and restarts (jobs.go run).
THEOREM CompleteJobsAreTrue == JobSpec => []CompleteJobHasSnapshot
<1>1. JobInv => CompleteJobHasSnapshot
  BY DEF JobInv, JobKnows, ShowsComplete, CompleteJobHasSnapshot
<1>2. QED
  BY <1>1, JobInvariance, PTL

-----------------------------------------------------------------------------
(* The page.                                                               *)

PageRow == [at : {"form", "posting", "polling", "answered", "loading", "opening",
                  "opened", "unlisted", "unopened", "lost"},
            job : Jobs \cup {NoWriter}, drive : Drives \cup {NoDrive},
            answer : JobRow,
            library : UNION {[D -> 0 .. MaxSnapshot] : D \in SUBSET Drives},
            title : 0 .. MaxSnapshot, tree : 0 .. MaxSnapshot, current : BOOLEAN]

\* A drive with a complete snapshot has a view.
DrivesAreViewed ==
    \A s \in SnapshotIds : IsComplete(s) => latest[snapshots[s].drive] # NoSnapshot

\* The job that the page polls scans the drive the page has asked for.
PollsItsDrive ==
    page.at \in {"polling", "answered"} /\ jobs[page.job].status # "none" =>
        jobs[page.job].drive = page.drive

\* Row s is a complete snapshot of the page's drive.
OfPageDrive(s) ==
    s \in SnapshotIds /\ IsComplete(s) /\ snapshots[s].drive = page.drive

\* The page has the drive open, or is about to.
OnDrive == {"opening", "opened", "unlisted"}

\* The answer still tells the truth: a complete row stays what it is.
AnswerIsTrue ==
    /\ page.at \in {"answered", "loading"} \cup OnDrive
       /\ page.answer.status = "complete" => OfPageDrive(page.answer.snapshot)
    /\ page.at \in {"loading"} \cup OnDrive => page.answer.status = "complete"

\* Snapshot s may stand for the one that the answer tells of.
StandsForAnswer(s) ==
    /\ OfPageDrive(s)
    /\ entries[s] # {} =>
           snapshots[s].completedAt >= snapshots[page.answer.snapshot].completedAt

ShowsTheScan ==
    /\ page.at = "opened" => StandsForAnswer(page.tree)
    /\ page.at \in OnDrive /\ page.current => StandsForAnswer(page.title)

PageKnows ==
    /\ page \in PageRow
    /\ page.at \in {"posting", "polling", "answered"} =>
           page.job \in Jobs /\ page.drive \in Drives
    /\ PollsItsDrive /\ AnswerIsTrue /\ ShowsTheScan

TablesInv == JobInv /\ DatesInv /\ DrivesAreViewed

PageInv == TablesInv /\ PageKnows

\* COMMIT makes the snapshot it completes the view, and no view is ever unset.
LEMMA NextDrivesViewed ==
    ASSUME IInv, DrivesAreViewed, [Next]_vars
    PROVE  DrivesAreViewed'
<1>1. ASSUME NEW w \in Writers, Complete(w) PROVE DrivesAreViewed'
  BY <1>1, QuietSteps DEF TablesUnchanged, DrivesAreViewed, IsComplete
<1>2. ASSUME NEW w \in Writers, Commit(w) PROVE DrivesAreViewed'
  <2> DEFINE s == writers[w].snapshot
             d == writers[w].drive
  <2>1. s \in 1 .. lastId /\ snapshots[s].drive = d
    BY <1>2 DEF IInv, WriterHasRow, Busy, At, Commit
  <2>2. s \in SnapshotIds /\ s # NoSnapshot /\ ~(lastId < s)
    BY <2>1, BoundsAssumption DEF IInv, TypeOK, SnapshotIds, NoSnapshot
  <2>3. /\ snapshots[s] \in Row /\ d \in Drives
        /\ snapshots \in [SnapshotIds -> Row]
        /\ latest \in [Drives -> 0 .. MaxSnapshot]
    BY <2>1, <2>2 DEF IInv, TypeOK, RowsNumbered
  <2>4. CompletedRow(w).drive = d
    BY <2>1, <2>3 DEF CompletedRow, Row
  <2>5. /\ snapshots' = [snapshots EXCEPT ![s] = CompletedRow(w)]
        /\ latest' = [latest EXCEPT ![d] = s]
    BY <1>2 DEF Commit
  <2> HIDE DEF s, d
  <2>6. /\ \A t \in SnapshotIds : t # s => snapshots'[t] = snapshots[t]
        /\ snapshots'[s].drive = d /\ latest'[d] = s
        /\ \A e \in Drives : latest'[e] \in {latest[e], s}
    BY <2>2, <2>3, <2>4, <2>5
  <2>7. \A t \in SnapshotIds : IsComplete(t) => snapshots[t].drive \in Drives
    BY DEF IInv, TypeOK, RowsNumbered, IsComplete
  <2>8. QED
    BY <2>2, <2>3, <2>6, <2>7 DEF DrivesAreViewed, IsComplete
<1>3. CASE \A w \in Writers : ~Complete(w) /\ ~Commit(w)
  <2>1. NothingDated
    BY <1>3, OtherStepsDateNothing
  <2>2. QED
    BY <2>1 DEF NothingDated, DrivesAreViewed, IsComplete
<1>4. QED
  BY <1>1, <1>2, <1>3

LEMMA NextTablesInv ==
    ASSUME TablesInv, [JobNext]_jobVars
    PROVE  TablesInv' /\ [Next]_vars
<1>1. JobInv' /\ [Next]_vars
  BY NextJobInv, JobNextIsNext DEF TablesInv, JobInv, IInv
<1>2. QED
  BY <1>1, NextDates, NextDrivesViewed DEF TablesInv, JobInv

\* What is complete and of the page's drive stays so, whatever commits.
LEMMA OfPageDriveKept ==
    ASSUME TablesInv, [Next]_vars, page'.drive = page.drive, NEW s, OfPageDrive(s)
    PROVE  OfPageDrive(s)' /\ snapshots'[s] = snapshots[s] /\ entries'[s] = entries[s]
BY CompleteRowsKept DEF TablesInv, JobInv, OfPageDrive, IsComplete

\* Somebody else's step gives the page's job no other drive.
LEMMA PageJobKept ==
    ASSUME TablesInv, Beside, UNCHANGED page, PageKnows,
           page.at \in {"polling", "answered"}
    PROVE  jobs'[page.job].status # "none" =>
               /\ jobs[page.job].status # "none"
               /\ jobs'[page.job].drive = jobs[page.job].drive
<1> DEFINE i == page.job
<1>1. i \in Jobs /\ jobs \in [Jobs -> JobRow] /\ jobs[i] \in JobRow
  BY DEF PageKnows, TablesInv, JobInv
<1> HIDE DEF i
<1>2. ASSUME NEW j \in Jobs, NEW new, jobs' = [jobs EXCEPT ![j] = new],
             j = i => new.drive = jobs[i].drive /\ jobs[i].status # "none"
      PROVE  jobs'[i].status # "none" =>
               /\ jobs[i].status # "none" /\ jobs'[i].drive = jobs[i].drive
  BY <1>1, <1>2
<1>3. ASSUME NEW j \in Jobs, JobStep(j)
      PROVE  jobs'[i].status # "none" =>
               /\ jobs[i].status # "none" /\ jobs'[i].drive = jobs[i].drive
  <2>1. CASE Work(j)
    BY <2>1 DEF Work
  <2>2. ASSUME NEW status, SetStatus(j, status), jobs[j].status # "none"
        PROVE  jobs'[i].status # "none" =>
                 /\ jobs[i].status # "none" /\ jobs'[i].drive = jobs[i].drive
    <3> DEFINE new == [jobs[j] EXCEPT !.status = status]
    <3>1. jobs' = [jobs EXCEPT ![j] = new] /\ new.drive = jobs[j].drive
      BY <1>1, <2>2 DEF SetStatus, JobRow
    <3> HIDE DEF new
    <3>2. QED
      BY <1>2, <2>2, <3>1
  <2>3. CASE ShowSnapshot(j)
    <3> DEFINE new == [jobs[j] EXCEPT !.snapshot = writers[j].snapshot]
    <3>1. /\ jobs' = [jobs EXCEPT ![j] = new] /\ new.drive = jobs[j].drive
          /\ jobs[j].status # "none"
      BY <1>1, <2>3 DEF ShowSnapshot, JobRow
    <3> HIDE DEF new
    <3>2. QED
      BY <1>2, <3>1
  <2>4. CASE Begin(j) \/ CallStartSnapshot(j) \/ Settle(j)
    <3>1. PICK status : SetStatus(j, status)
      BY <2>4 DEF Begin, CallStartSnapshot, Settle
    <3>2. jobs[j].status # "none"
      BY <2>4 DEF Begin, CallStartSnapshot, Settle
    <3>3. QED
      BY <2>2, <3>1, <3>2
  <2>5. QED
    BY <1>3, <2>1, <2>3, <2>4 DEF JobStep
<1>4. ASSUME NEW j \in Jobs, NEW d \in Drives, j # i, Request(j, d)
      PROVE  jobs'[i] = jobs[i]
  BY <1>1, <1>4 DEF Request
<1>5. ASSUME NEW p \in Processes, Restart(p)
      PROVE  jobs'[i] = jobs[i] \/ jobs'[i].status = "none"
  BY <1>1, <1>5 DEF Restart, NoJob
<1>6. QED
  BY <1>3, <1>4, <1>5 DEF Beside, i

\* What goes on beside the page leaves what it knows true.
LEMMA BesideKeepsPage ==
    ASSUME PageInv, Beside, UNCHANGED page
    PROVE  PageInv'
<1>1. [JobNext]_jobVars
  BY DEF Beside, JobNext
<1>2. TablesInv' /\ [Next]_vars
  BY <1>1, NextTablesInv DEF PageInv
<1>3. PollsItsDrive'
  BY PageJobKept DEF PageInv, PageKnows, PollsItsDrive
<1>4. AnswerIsTrue'
  BY <1>2, OfPageDriveKept DEF PageInv, PageKnows, AnswerIsTrue
<1>5. ShowsTheScan'
  <2>1. ASSUME NEW s, StandsForAnswer(s), page.at \in OnDrive
        PROVE  StandsForAnswer(s)'
    <3>1. OfPageDrive(page.answer.snapshot) /\ OfPageDrive(s)
      BY <2>1 DEF PageInv, PageKnows, AnswerIsTrue, StandsForAnswer
    <3>2. /\ OfPageDrive(s)' /\ snapshots'[s] = snapshots[s] /\ entries'[s] = entries[s]
          /\ snapshots'[page.answer.snapshot] = snapshots[page.answer.snapshot]
      BY <1>2, <3>1, OfPageDriveKept DEF PageInv
    <3>3. QED
      BY <2>1, <3>2 DEF StandsForAnswer
  <2>2. QED
    BY <2>1 DEF PageInv, PageKnows, ShowsTheScan, OnDrive
<1>6. QED
  BY <1>2, <1>3, <1>4, <1>5 DEF PageInv, PageKnows

\* The steps of the page that change no table.
LEMMA PageStepsKeep ==
    ASSUME PageInv, UNCHANGED jobVars, PageKnows'
    PROVE  PageInv'
BY NextTablesInv DEF PageInv

\* In every state but these the page claims nothing.
LEMMA PageClaimsNothing ==
    ASSUME page' \in PageRow, page'.at \in {"form", "unopened", "lost"}
    PROVE  PageKnows'
BY DEF PageKnows, PollsItsDrive, AnswerIsTrue, ShowsTheScan, OnDrive

LEMMA FormIsRow ==
    ASSUME PageInv, NEW library \in UNION {[D -> 0 .. MaxSnapshot] : D \in SUBSET Drives}
    PROVE  [FreshPage EXCEPT !.library = library] \in PageRow
<1>1. NoJob \in JobRow /\ NoSnapshot \in 0 .. MaxSnapshot
  BY BoundsAssumption DEF NoJob, JobRow, NoSnapshot
<1>2. QED
  BY <1>1 DEF FreshPage, PageRow

LEMMA ListingIsLibrary ==
    ASSUME TypeOK
    PROVE  Listing \in UNION {[D -> 0 .. MaxSnapshot] : D \in SUBSET Drives}
<1>1. Listing \in [drives -> 0 .. MaxSnapshot] /\ drives \in SUBSET Drives
  BY DEF TypeOK, Listing
<1>2. QED
  BY <1>1

\* The page goes back to the form.
LEMMA BackToFormKeeps ==
    ASSUME PageInv, BackToForm, UNCHANGED jobVars
    PROVE  PageInv'
<1>1. page.library \in UNION {[D -> 0 .. MaxSnapshot] : D \in SUBSET Drives}
  BY DEF PageInv, PageKnows, PageRow
<1>2. page' \in PageRow
  BY <1>1, FormIsRow DEF BackToForm
<1>3. page'.at = "form"
  BY DEF BackToForm, FreshPage
<1>4. QED
  BY <1>2, <1>3, PageClaimsNothing, PageStepsKeep

\* POST and the polling.
LEMMA PollingKeeps ==
    ASSUME PageInv, \/ \E j \in Jobs, d \in Drives : Submit(j, d)
                    \/ Poll \/ PollFails \/ SeeRunning \/ SeeComplete
    PROVE  PageInv'
<1>1. /\ page \in PageRow /\ UNCHANGED jobVars /\ jobs' = jobs
      /\ jobs \in [Jobs -> JobRow] /\ NoJob \in JobRow
  <2>1. UNCHANGED jobVars
    BY DEF Submit, Poll, PollFails, SeeRunning, SeeComplete
  <2>2. NoJob \in JobRow
    BY BoundsAssumption DEF NoJob, JobRow, NoSnapshot
  <2>3. QED
    BY <2>1, <2>2 DEF PageInv, TablesInv, PageKnows, JobInv, jobVars
<1> SUFFICES PageKnows'
  BY <1>1, PageStepsKeep
<1>2. ASSUME NEW j \in Jobs, NEW d \in Drives, Submit(j, d) PROVE PageKnows'
  <2> DEFINE new == [page EXCEPT !.at = "posting", !.job = j, !.drive = d]
  <2>1. new \in PageRow /\ new.at = "posting" /\ new.job = j /\ new.drive = d
    BY <1>1 DEF PageRow
  <2>2. page' = new
    BY <1>2 DEF Submit
  <2> HIDE DEF new
  <2>3. QED
    BY <2>1, <2>2 DEF PageKnows, PollsItsDrive, AnswerIsTrue, ShowsTheScan, OnDrive
<1>3. CASE Poll
  <2> DEFINE new == [page EXCEPT !.at = "answered", !.answer = jobs[page.job]]
  <2>1. /\ page.at = "polling" /\ jobs[page.job].status # "none"
        /\ page.job \in Jobs /\ page.drive \in Drives
        /\ jobs[page.job].drive = page.drive /\ jobs[page.job] \in JobRow
    BY <1>1, <1>3 DEF Poll, PageInv, PageKnows, PollsItsDrive
  <2>2. /\ new \in PageRow /\ new.at = "answered" /\ new.job = page.job
        /\ new.drive = page.drive /\ new.answer = jobs[page.job]
    BY <1>1, <2>1 DEF PageRow
  <2>3. page' = new /\ UNCHANGED <<snapshots, jobs>>
    BY <1>1, <1>3 DEF Poll, jobVars, vars
  <2> HIDE DEF new
  <2>4. jobs[page.job].status = "complete" => OfPageDrive(jobs[page.job].snapshot)
    <3>1. JobKnows(page.job)
      BY <2>1 DEF PageInv, TablesInv, JobInv
    <3>2. jobs[page.job].snapshot # NoSnapshot => jobs[page.job].snapshot \in SnapshotIds
      BY <2>1, BoundsAssumption DEF JobRow, SnapshotIds, NoSnapshot
    <3>3. QED
      BY <2>1, <3>1, <3>2 DEF JobKnows, ShowsComplete, OfPageDrive
  <2>5. PollsItsDrive' /\ AnswerIsTrue' /\ ShowsTheScan'
    BY <2>1, <2>2, <2>3, <2>4
    DEF PollsItsDrive, AnswerIsTrue, ShowsTheScan, OnDrive, OfPageDrive, IsComplete
  <2>6. QED
    BY <2>1, <2>2, <2>3, <2>5 DEF PageKnows
<1>4. CASE PollFails
  <2> DEFINE new == [page EXCEPT !.at = "lost", !.answer = NoJob]
  <2>1. new \in PageRow /\ new.at = "lost"
    BY <1>1 DEF PageRow
  <2>2. page' = new
    BY <1>4 DEF PollFails
  <2> HIDE DEF new
  <2>3. QED
    BY <2>1, <2>2, PageClaimsNothing
<1>5. CASE SeeRunning
  <2> DEFINE new == [page EXCEPT !.at = "polling", !.answer = NoJob]
  <2>1. /\ new \in PageRow /\ new.at = "polling" /\ new.job = page.job
        /\ new.drive = page.drive
    BY <1>1 DEF PageRow
  <2>2. page' = new /\ page.at = "answered"
    BY <1>5 DEF SeeRunning
  <2> HIDE DEF new
  <2>3. QED
    BY <1>1, <2>1, <2>2
    DEF PageInv, PageKnows, PollsItsDrive, AnswerIsTrue, ShowsTheScan, OnDrive
<1>6. CASE SeeComplete
  <2> DEFINE new == [page EXCEPT !.at = "loading"]
  <2>1. /\ new \in PageRow /\ new.at = "loading" /\ new.answer = page.answer
        /\ new.drive = page.drive
    BY <1>1 DEF PageRow
  <2>2. /\ page' = new /\ page.at = "answered" /\ page.answer.status = "complete"
        /\ snapshots' = snapshots
    BY <1>1, <1>6 DEF SeeComplete, jobVars, vars
  <2> HIDE DEF new
  <2>3. QED
    BY <2>1, <2>2
    DEF PageInv, PageKnows, PollsItsDrive, AnswerIsTrue, ShowsTheScan, OnDrive,
        OfPageDrive, IsComplete
<1>7. QED
  BY <1>2, <1>3, <1>4, <1>5, <1>6

\* The request is handled: the new job scans the page's drive.
LEMMA PostHandledKeeps ==
    ASSUME PageInv, PostHandled
    PROVE  PageInv'
<1> DEFINE new == [page EXCEPT !.at = "polling"]
           job == [status |-> "queued", drive |-> page.drive, snapshot |-> NoSnapshot]
<1>1. page \in PageRow /\ page.job \in Jobs /\ page.drive \in Drives
  BY DEF PageInv, PageKnows, PostHandled
<1>2. [JobNext]_jobVars
  BY <1>1 DEF PostHandled, JobNext
<1>3. TablesInv'
  BY <1>2, NextTablesInv DEF PageInv
<1>4. /\ new \in PageRow /\ new.at = "polling" /\ new.job = page.job
      /\ new.drive = page.drive
  BY <1>1 DEF PageRow
<1>5. page' = new /\ jobs' = [jobs EXCEPT ![page.job] = job] /\ job.drive = page.drive
  BY DEF PostHandled, Request
<1> HIDE DEF new, job
<1>6. jobs'[page.job].drive = page.drive
  BY <1>1, <1>5 DEF PageInv, TablesInv, JobInv
<1>7. QED
  BY <1>1, <1>3, <1>4, <1>5, <1>6
  DEF PageInv, PageKnows, PollsItsDrive, AnswerIsTrue, ShowsTheScan, OnDrive

\* The request is handled and its answer is lost.
LEMMA PostLostKeeps ==
    ASSUME PageInv, PostLost
    PROVE  PageInv'
<1>1. [JobNext]_jobVars
  BY DEF PostLost, JobNext, PageInv, PageKnows
<1>2. TablesInv'
  BY <1>1, NextTablesInv DEF PageInv
<1>3. page.library \in UNION {[D -> 0 .. MaxSnapshot] : D \in SUBSET Drives}
  BY DEF PageInv, PageKnows, PageRow
<1>4. page' \in PageRow /\ page'.at = "form"
  BY <1>3, FormIsRow DEF PostLost, BackToForm, FreshPage
<1>5. QED
  BY <1>2, <1>4, PageClaimsNothing DEF PageInv

\* The view of the page's drive is dated no earlier than the scan that the
\* answer told of.
LEMMA ViewStandsForAnswer ==
    ASSUME PageInv, page.at \in {"loading"} \cup OnDrive
    PROVE  page.drive \in Drives /\ StandsForAnswer(latest[page.drive])
<1> DEFINE a == page.answer.snapshot
           d == page.drive
<1>1. OfPageDrive(a) /\ TypeOK
  BY DEF PageInv, PageKnows, AnswerIsTrue, TablesInv, JobInv, IInv
<1>2. d \in Drives /\ latest[d] \in 0 .. MaxSnapshot /\ latest[d] # NoSnapshot
  <2>1. a \in SnapshotIds /\ IsComplete(a) /\ snapshots[a].drive = d
    BY <1>1 DEF OfPageDrive
  <2>2. d \in Drives
    BY <2>1 DEF PageInv, TablesInv, JobInv, IInv, TypeOK, RowsNumbered, IsComplete
  <2>3. QED
    BY <1>1, <2>1, <2>2 DEF TypeOK, PageInv, TablesInv, DrivesAreViewed
<1>3. /\ latest[d] \in SnapshotIds /\ IsComplete(latest[d])
      /\ snapshots[latest[d]].drive = d
  BY <1>2, BoundsAssumption
  DEF PageInv, TablesInv, JobInv, IInv, LatestIsComplete, SnapshotIds, NoSnapshot
<1>4. entries[latest[d]] # {} =>
          snapshots[a].completedAt <= snapshots[latest[d]].completedAt
  BY <1>1, <1>2 DEF OfPageDrive, PageInv, TablesInv, DatesInv, LatestIsNewest
<1>5. snapshots[a].completedAt \in Int /\ snapshots[latest[d]].completedAt \in Int
  BY <1>1, <1>3, BoundsAssumption
  DEF OfPageDrive, PageInv, TablesInv, DatesInv, DatedBefore, Ticks
<1>6. QED
  BY <1>2, <1>3, <1>4, <1>5 DEF StandsForAnswer, OfPageDrive

\* The page moves on over the drive: its answer and its drive are kept.
LEMMA OnDriveKeeps ==
    ASSUME PageInv, UNCHANGED jobVars, page' \in PageRow,
           page.at \in {"loading"} \cup OnDrive,
           page'.at \in OnDrive \cup {"unopened"},
           page'.drive = page.drive, page'.answer = page.answer,
           page'.at = "opened" => StandsForAnswer(page'.tree),
           page'.at \in OnDrive /\ page'.current => StandsForAnswer(page'.title)
    PROVE  PageInv'
<1>1. UNCHANGED <<snapshots, entries>>
  BY DEF jobVars, vars
<1>2. AnswerIsTrue'
  BY <1>1 DEF PageInv, PageKnows, AnswerIsTrue, OnDrive, OfPageDrive, IsComplete
<1>3. ShowsTheScan'
  BY <1>1 DEF ShowsTheScan, StandsForAnswer, OfPageDrive, IsComplete, OnDrive
<1>4. PageKnows'
  BY <1>2, <1>3 DEF PageKnows, PollsItsDrive, OnDrive
<1>5. QED
  BY <1>4, PageStepsKeep

\* openDrive, with the list just read or with the one the page had.
LEMMA OpenDriveKeeps ==
    ASSUME PageInv, OpenScanned \/ OpenOutdated
    PROVE  PageInv'
<1> DEFINE Libraries == UNION {[D -> 0 .. MaxSnapshot] : D \in SUBSET Drives}
<1>1. page \in PageRow /\ page.at = "loading" /\ TypeOK /\ page.library \in Libraries
  BY DEF PageInv, PageKnows, PageRow, TablesInv, JobInv, IInv, OpenScanned,
     OpenOutdated
<1>2. ASSUME NEW library \in Libraries, NEW isCurrent \in BOOLEAN,
             OpenDrive(library, isCurrent), isCurrent => library = Listing
      PROVE  PageInv'
  <2> DEFINE d == page.drive
             known == d \in DOMAIN library
             at == IF known THEN "opening" ELSE "unopened"
             title == IF known THEN library[d] ELSE NoSnapshot
             new == [page EXCEPT !.at = at, !.library = library, !.title = title,
                                 !.current = isCurrent]
  <2>1. at \in {"opening", "unopened"} /\ title \in 0 .. MaxSnapshot
    <3>1. PICK D \in SUBSET Drives : library \in [D -> 0 .. MaxSnapshot]
      BY <1>2
    <3>2. QED
      BY <3>1, BoundsAssumption DEF NoSnapshot
  <2>2. at = "opening" /\ isCurrent => title = latest[d]
    BY <1>2 DEF Listing
  <2>3. page' = new /\ UNCHANGED jobVars
    BY <1>2 DEF OpenDrive
  <2> HIDE DEF at, title
  <2>4. /\ new \in PageRow /\ new.at = at /\ new.current = isCurrent
        /\ new.title = title /\ new.drive = d /\ new.answer = page.answer
    BY <1>1, <2>1 DEF PageRow
  <2> HIDE DEF new
  <2>5. page'.at \in OnDrive /\ page'.current => StandsForAnswer(page'.title)
    BY <1>1, <2>1, <2>2, <2>3, <2>4, ViewStandsForAnswer DEF OnDrive
  <2>6. QED
    BY <1>1, <2>1, <2>3, <2>4, <2>5, OnDriveKeeps DEF OnDrive
<1>3. Listing \in Libraries
  BY <1>1, ListingIsLibrary
<1>4. QED
  BY <1>1, <1>2, <1>3 DEF OpenScanned, OpenOutdated

\* The tree is asked for: the server reads the drive's view again.
LEMMA EntriesKeep ==
    ASSUME PageInv, ShowEntries \/ EntriesFail
    PROVE  PageInv'
<1>1. /\ page \in PageRow /\ page.at = "opening" /\ UNCHANGED jobVars /\ TypeOK
  BY DEF PageInv, PageKnows, TablesInv, JobInv, IInv, ShowEntries, EntriesFail
<1>2. /\ page.drive \in Drives /\ StandsForAnswer(latest[page.drive])
      /\ page.current => StandsForAnswer(page.title)
  BY <1>1, ViewStandsForAnswer DEF PageInv, PageKnows, ShowsTheScan, OnDrive
<1>3. CASE ShowEntries
  <2> DEFINE new == [page EXCEPT !.at = "opened", !.tree = latest[page.drive]]
  <2>1. /\ new \in PageRow /\ new.at = "opened" /\ new.tree = latest[page.drive]
        /\ new.title = page.title /\ new.current = page.current
        /\ new.drive = page.drive /\ new.answer = page.answer
    BY <1>1, <1>2 DEF PageRow, TypeOK
  <2>2. page' = new
    BY <1>3 DEF ShowEntries
  <2> HIDE DEF new
  <2>3. QED
    BY <1>1, <1>2, <2>1, <2>2, OnDriveKeeps DEF OnDrive
<1>4. CASE EntriesFail
  <2> DEFINE new == [page EXCEPT !.at = "unlisted"]
  <2>1. /\ new \in PageRow /\ new.at = "unlisted"
        /\ new.title = page.title /\ new.current = page.current
        /\ new.drive = page.drive /\ new.answer = page.answer
    BY <1>1 DEF PageRow
  <2>2. page' = new
    BY <1>4 DEF EntriesFail
  <2> HIDE DEF new
  <2>3. QED
    BY <1>1, <1>2, <2>1, <2>2, OnDriveKeeps DEF OnDrive
<1>5. QED
  BY <1>3, <1>4

\* The list is read for the first time.
LEMMA LoadLibraryKeeps ==
    ASSUME PageInv, LoadLibrary
    PROVE  PageInv'
<1> DEFINE new == [page EXCEPT !.library = Listing]
<1>1. page \in PageRow /\ UNCHANGED jobVars /\ TypeOK
  BY DEF PageInv, PageKnows, TablesInv, JobInv, IInv, LoadLibrary
<1>2. new \in PageRow /\ new.at = page.at
  BY <1>1, ListingIsLibrary DEF PageRow
<1>3. page' = new /\ page.at = "form"
  BY DEF LoadLibrary
<1> HIDE DEF new
<1>4. QED
  BY <1>1, <1>2, <1>3, PageClaimsNothing, PageStepsKeep

LEMMA NextPageInv == PageInv /\ [PageNext]_pageVars => PageInv'
<1> SUFFICES ASSUME PageInv, [PageNext]_pageVars PROVE PageInv'
  OBVIOUS
<1>1. CASE Beside /\ UNCHANGED page
  BY <1>1, BesideKeepsPage
<1>2. CASE PostRefused \/ SeeFailed \/ Again
  BY <1>2, BackToFormKeeps DEF PostRefused, SeeFailed, Again
<1>3. CASE \/ \E j \in Jobs, d \in Drives : Submit(j, d)
           \/ Poll \/ PollFails \/ SeeRunning \/ SeeComplete
  BY <1>3, PollingKeeps
<1>4. CASE PostHandled \/ PostLost \/ LoadLibrary
  BY <1>4, PostHandledKeeps, PostLostKeeps, LoadLibraryKeeps
<1>5. CASE OpenScanned \/ OpenOutdated \/ ShowEntries \/ EntriesFail
  BY <1>5, OpenDriveKeeps, EntriesKeep
<1>6. CASE UNCHANGED pageVars
  <2>1. UNCHANGED jobVars /\ UNCHANGED <<page, jobs, snapshots, entries>>
    BY <1>6 DEF pageVars, jobVars, vars
  <2>2. PageKnows'
    BY <2>1 DEF PageInv, PageKnows, PollsItsDrive, AnswerIsTrue, ShowsTheScan,
       StandsForAnswer, OfPageDrive, IsComplete
  <2>3. QED
    BY <2>1, <2>2, PageStepsKeep
<1>7. QED
  BY <1>1, <1>2, <1>3, <1>4, <1>5, <1>6 DEF PageNext, PageStep

LEMMA InitPageInv == PageInit => PageInv
<1> SUFFICES ASSUME PageInit PROVE PageInv
  OBVIOUS
<1>1. JobInv
  BY InitJobInv DEF PageInit
<1>2. DatesInv /\ DrivesAreViewed
  BY DEF PageInit, JobInit, Init, DatesInv, DatedBefore, LatestIsNewest, IsComplete,
     NoRow, Idle, StampIsNewest, Stamping, DrivesAreViewed
<1>3. page.at = "form" /\ page \in PageRow
  <2>1. NoJob \in JobRow /\ NoSnapshot \in 0 .. MaxSnapshot
    BY BoundsAssumption DEF NoJob, JobRow, NoSnapshot
  <2>2. [d \in {} |-> NoSnapshot] \in [{} -> 0 .. MaxSnapshot]
    BY <2>1
  <2>3. QED
    BY <2>1, <2>2 DEF PageInit, FreshPage, PageRow
<1>4. PageKnows
  BY <1>3 DEF PageKnows, PollsItsDrive, AnswerIsTrue, ShowsTheScan, OnDrive
<1>5. QED
  BY <1>1, <1>2, <1>4 DEF PageInv, TablesInv

\* The tree of the drive that a page opens at the end of its scan is that of
\* the scan or of one that replaced it, and so are the counts above it if the
\* list could be read, for any number of jobs, other scans, drives and restarts
\* (app.js pollJob, server.go entries).
THEOREM PageShowsItsScan == PageSpec => []PageShowsTheScan
<1>1. ASSUME NEW s, StandsForAnswer(s) PROVE NotOlder(s)
  BY <1>1, BoundsAssumption
  DEF StandsForAnswer, NotOlder, OfPageDrive, SnapshotIds, NoSnapshot
<1>2. PageInv => PageShowsTheScan
  BY <1>1 DEF PageInv, PageKnows, ShowsTheScan, PageShowsTheScan, OnDrive
<1>3. QED
  BY <1>2, InitPageInv, NextPageInv, PTL DEF PageSpec
=============================================================================
