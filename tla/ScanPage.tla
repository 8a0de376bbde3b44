----------------------------- MODULE ScanPage ------------------------------
(***************************************************************************)
(* A browser page that starts a scan, polls its job, and opens the drive   *)
(* when the job says complete (web/static/app.js: submitScan, pollJob,     *)
(* loadLibrary, openDrive, loadEntries), the handlers it talks to          *)
(* (internal/server/server.go), the job and the catalog beneath (ScanJobs, *)
(* Catalog).                                                               *)
(*                                                                         *)
(* A request is handled by the server and its answer reaches the page in   *)
(* one step or two; between any two steps of the page the job goes on,     *)
(* other scans commit and the server may be restarted.                     *)
(***************************************************************************)
EXTENDS ScanJobs

VARIABLE page   \* what the page waits for, and what it shows

pageVars == <<jobVars, page>>

\* GET /api/drives: a row for each drive, with its latest snapshot.
Listing == [d \in drives |-> latest[d]]

FreshPage == [at |-> "form", job |-> NoWriter, drive |-> NoDrive,
              answer |-> NoJob, library |-> [d \in {} |-> NoSnapshot],
              title |-> NoSnapshot, tree |-> NoSnapshot, current |-> TRUE]

\* The page forgets its scan; state.drives stays.
BackToForm == page' = [FreshPage EXCEPT !.library = page.library]

PageInit == JobInit /\ page = FreshPage

-----------------------------------------------------------------------------
\* loadLibrary, when the page is opened: state.drives.  (Refresh does the same
\* again; a page that is older than the scan is all that matters here.)
LoadLibrary ==
    /\ page.at = "form" /\ page.library = FreshPage.library
    /\ page' = [page EXCEPT !.library = Listing]
    /\ UNCHANGED jobVars

\* submitScan: POST /api/scans is on its way.
Submit(j, d) ==
    /\ page.at = "form" /\ jobs[j].status = "none"
    /\ page' = [page EXCEPT !.at = "posting", !.job = j, !.drive = d]
    /\ UNCHANGED jobVars

\* startScan and Start: the answer carries the ID of the job.
PostHandled ==
    /\ page.at = "posting"
    /\ Request(page.job, page.drive)
    /\ page' = [page EXCEPT !.at = "polling"]

\* The request is refused: no such drive, a name that is taken, a path that
\* is none, a catalog that is locked.  The form can be sent again.
PostRefused ==
    /\ page.at = "posting"
    /\ BackToForm
    /\ UNCHANGED jobVars

\* GET /api/jobs/{id}: Get copies the record under its lock.
Poll ==
    /\ page.at = "polling" /\ jobs[page.job].status # "none"
    /\ page' = [page EXCEPT !.at = "answered", !.answer = jobs[page.job]]
    /\ UNCHANGED jobVars

\* The job was taken on, but its answer never reaches the page, which
\* reports an error: the form can be sent again while the job runs.
PostLost ==
    /\ page.at = "posting"
    /\ Request(page.job, page.drive)
    /\ BackToForm

\* A request for the job fails, because the server is gone, was started again
\* and has no such job, or for any other reason: the page reports that and
\* polls no more.
PollFails ==
    /\ page.at = "polling"
    /\ page' = [page EXCEPT !.at = "lost", !.answer = NoJob]
    /\ UNCHANGED jobVars

\* Mutant: the page polls on only while the job is scanning.
SeeRunningOnce ==
    /\ page.at = "answered" /\ page.answer.status = "scanning"
    /\ page' = [page EXCEPT !.at = "polling", !.answer = NoJob]
    /\ UNCHANGED jobVars

\* Any other status: the page polls again after half a second.
SeeRunning ==
    /\ page.at = "answered" /\ page.answer.status \notin Settled
    /\ page' = [page EXCEPT !.at = "polling", !.answer = NoJob]
    /\ UNCHANGED jobVars

SeeFailed ==
    /\ page.at = "answered" /\ page.answer.status = "failed"
    /\ BackToForm
    /\ UNCHANGED jobVars

\* The dialog closes and loadLibrary asks for the drives.
SeeComplete ==
    /\ page.at = "answered" /\ page.answer.status = "complete"
    /\ page' = [page EXCEPT !.at = "loading"]
    /\ UNCHANGED jobVars

\* openDrive: the drive's row in `library`, if it has one, gives the name and
\* the counts above the tree; the tree is asked for by the drive's ID.
OpenDrive(library, isCurrent) ==
    /\ page' = [page EXCEPT
           !.at      = IF page.drive \in DOMAIN library THEN "opening" ELSE "unopened",
           !.library = library,
           !.title   = IF page.drive \in DOMAIN library THEN library[page.drive]
                                                        ELSE NoSnapshot,
           !.current = isCurrent]
    /\ UNCHANGED jobVars

\* Mutant: loadLibrary is called but not awaited.
OpenScannedAtOnce == page.at = "loading" /\ OpenDrive(page.library, TRUE)

\* The answer becomes state.drives, and pollJob goes on before anything else
\* happens in the page.
OpenScanned == page.at = "loading" /\ OpenDrive(Listing, TRUE)

\* One of the three requests of loadLibrary fails: it says so and returns,
\* and pollJob goes on with the drives that the page had.
OpenOutdated == page.at = "loading" /\ OpenDrive(page.library, FALSE)

\* GET /api/drives/{id}/entries: the server looks up the latest snapshot of
\* the drive again, whatever row the page has of it.
ShowEntries ==
    /\ page.at = "opening"
    /\ page' = [page EXCEPT !.at = "opened", !.tree = latest[page.drive]]
    /\ UNCHANGED jobVars

\* The request fails: an error where the tree should be.
EntriesFail ==
    /\ page.at = "opening"
    /\ page' = [page EXCEPT !.at = "unlisted"]
    /\ UNCHANGED jobVars

\* The user goes back to the form.
Again ==
    /\ page.at \in {"opened", "unlisted", "unopened", "lost"}
    /\ BackToForm
    /\ UNCHANGED jobVars

\* What happens in the page or for it without anybody's doing.
PageStep ==
    \/ PostHandled \/ PostRefused \/ PostLost \/ Poll \/ PollFails
    \/ SeeRunning \/ SeeFailed \/ SeeComplete \/ OpenScanned \/ OpenOutdated
    \/ ShowEntries \/ EntriesFail

\* What goes on in the server meanwhile.  IDs of jobs are random: the scan
\* that somebody else starts never has the page's.
Beside ==
    \/ \E j \in Jobs : JobStep(j) \/ \E d \in Drives : j # page.job /\ Request(j, d)
    \/ \E p \in Processes : Restart(p)
    \/ World /\ UNCHANGED jobs

PageNext ==
    \/ PageStep \/ LoadLibrary \/ Again
    \/ \E j \in Jobs, d \in Drives : Submit(j, d)
    \/ Beside /\ UNCHANGED page

PageSpec == PageInit /\ [][PageNext]_pageVars

\* The browser and the goroutines of the server run on, and no writer keeps
\* the lock for ever.
FairPageSpec ==
    /\ PageSpec
    /\ WF_pageVars(PageStep)
    /\ \A j \in Jobs : WF_pageVars(JobStep(j) /\ UNCHANGED page)
    /\ \A w \in Writers \ Jobs :
           WF_pageVars(WriterStep(w) /\ UNCHANGED <<jobs, page>>)

-----------------------------------------------------------------------------
(* Properties.                                                             *)

\* Snapshot s is one of the page's drive, and dated no earlier than the one
\* the page has waited for (an empty one may be: see LatestIsNewest).
NotOlder(s) ==
    /\ s # NoSnapshot /\ IsComplete(s) /\ snapshots[s].drive = page.drive
    /\ entries[s] # {} =>
           snapshots[s].completedAt >= snapshots[page.answer.snapshot].completedAt

\* When the page opens the drive at the end of its scan, the tree it shows is
\* that of the scan or of one that replaced it, even if the list of drives
\* could not be read again (server.go entries); and if it could, so are the
\* counts above the tree (app.js pollJob's `await loadLibrary()`).  The job,
\* the tables, the list and the page are four pieces of state, read one after
\* the other while other scans of the drive commit.
PageShowsTheScan ==
    /\ page.at = "opened" => NotOlder(page.tree)
    /\ page.at \in {"opening", "opened", "unlisted"} /\ page.current =>
           NotOlder(page.title)

\* A page that has sent a scan comes to an end with it: it opens the drive,
\* reports a failure, or reports that a request failed.  Every error path of
\* jobs.go run has to settle the job for that, and pollJob has to ask again.
PageSettles ==
    page.at = "posting" ~>
        page.at \in {"form", "opened", "unlisted", "unopened", "lost"}
=============================================================================
