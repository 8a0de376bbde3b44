----------------------------- MODULE ScanJobs ------------------------------
(***************************************************************************)
(* The scan jobs of the web server (internal/server/jobs.go) on top of the *)
(* catalog.  A job is a goroutine that drives one SnapshotWriter and a     *)
(* record in the memory of the server, which GET /api/jobs/{id} reads      *)
(* between any two of its steps.  What the record says and what the tables *)
(* hold are updated one after the other.                                   *)
(*                                                                         *)
(* The writers that are not jobs are commands in processes of their own.   *)
(***************************************************************************)
EXTENDS Catalog

CONSTANT Jobs   \* the writers that are jobs of a server

ASSUME JobsAssumption == Jobs \subseteq Writers

VARIABLE jobs   \* jobManager.jobs, and how far each goroutine is

jobVars == <<vars, jobs>>

NoJob == [status |-> "none", drive |-> NoDrive, snapshot |-> NoSnapshot]

\* The statuses in which run has not yet created the snapshot.
Waiting == {"queued", "starting"}
Settled == {"complete", "failed"}

JobInit == Init /\ jobs = [j \in Jobs |-> NoJob]

SetStatus(j, status) == jobs' = [jobs EXCEPT ![j].status = status]

-----------------------------------------------------------------------------
\* Bound: a scan begins only if the rows of the jobs that wait have room too.
RowRoom == lastId + Cardinality({j \in Jobs : jobs[j].status \in Waiting})
               < MaxSnapshot

\* Start, for a drive that is there or that CreateDrive has just created: the
\* record is in the map before the goroutine runs.
Request(j, d) ==
    /\ jobs[j].status = "none" /\ d \in drives
    /\ RowRoom /\ ClockRoom
    /\ jobs' = [jobs EXCEPT ![j] = [status |-> "queued", drive |-> d,
                                    snapshot |-> NoSnapshot]]
    /\ UNCHANGED vars

\* run's first update shows "scanning"; "starting" is that status before
\* StartSnapshot has returned.
Begin(j) ==
    /\ jobs[j].status = "queued"
    /\ SetStatus(j, "starting")
    /\ UNCHANGED vars

CallStartSnapshot(j) ==
    /\ jobs[j].status = "starting"
    /\ StartSnapshot(j, jobs[j].drive) \/ StartBusy(j, jobs[j].drive)
    /\ SetStatus(j, "scanning")

\* The update that shows the ID of the snapshot, before the walk begins.
ShowSnapshot(j) ==
    /\ jobs[j].status = "scanning" /\ At(j, "open")
    /\ jobs[j].snapshot = NoSnapshot
    /\ jobs' = [jobs EXCEPT ![j].snapshot = writers[j].snapshot]
    /\ UNCHANGED vars

\* The writer works, fails or completes; run touches the record no more.
Work(j) ==
    /\ At(j, "open") => jobs[j].snapshot # NoSnapshot
    /\ WriterStep(j)
    /\ UNCHANGED jobs

\* Mutant: run does not look at the error of Complete.
SettleBlindly(j) ==
    /\ jobs[j].status = "scanning" /\ At(j, "returned")
    /\ SetStatus(j, IF jobs[j].snapshot # NoSnapshot THEN "complete" ELSE "failed")
    /\ UNCHANGED vars

\* The last update of run, or fail.
Settle(j) ==
    /\ jobs[j].status = "scanning" /\ At(j, "returned")
    /\ SetStatus(j, IF writers[j].outcome = "complete" THEN "complete" ELSE "failed")
    /\ UNCHANGED vars

\* Goroutine j can go on.
JobStep(j) ==
    Begin(j) \/ CallStartSnapshot(j) \/ ShowSnapshot(j) \/ Work(j) \/ Settle(j)

\* The process dies or shuts down: ListenAndServe does not wait for jobs, and
\* their records go with it.
Restart(p) ==
    /\ Crash(p)
    /\ jobs' = [j \in Jobs |-> IF Host[j] = p THEN NoJob ELSE jobs[j]]

\* Bound: the clock leaves ClockRoom to the jobs that wait.
TickRoom == \A j \in Jobs : jobs[j].status \notin Waiting

World ==
    \/ \E d \in Drives : CreateDrive(d)
    \/ \E w \in Writers \ Jobs : (RowRoom /\ Start(w)) \/ WriterStep(w) \/ Leave(w)
    \/ Open
    \/ Tick /\ TickRoom

JobNext ==
    \/ \E j \in Jobs : JobStep(j) \/ \E d \in Drives : Request(j, d)
    \/ \E p \in Processes : Restart(p)
    \/ World /\ UNCHANGED jobs

JobSpec == JobInit /\ [][JobNext]_jobVars

-----------------------------------------------------------------------------
(* Properties.                                                             *)

\* A job that says "complete" shows the ID of a complete snapshot of its drive:
\* the page that polls it may load that snapshot at once, whatever other scans,
\* recoveries and crashes do to the tables (jobs.go run).
CompleteJobHasSnapshot ==
    \A j \in Jobs : jobs[j].status = "complete" =>
        /\ jobs[j].snapshot # NoSnapshot
        /\ IsComplete(jobs[j].snapshot)
        /\ snapshots[jobs[j].snapshot].drive = jobs[j].drive
=============================================================================
