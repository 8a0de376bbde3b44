---------------------------- MODULE HistoryPage ----------------------------
(***************************************************************************)
(* The history panel of the drive view (web/static/app.js: openDrive,      *)
(* loadSnapshots, toggleHistory, compareSnapshots) and the two requests it *)
(* sends (Catalog.ListSnapshots, Catalog.Diff), on the shelf that scans    *)
(* publish to.                                                             *)
(*                                                                         *)
(* The user does not wait: another drive may be opened, the panel closed   *)
(* and opened while answers are under way.  Requests are handled in any    *)
(* order, their answers arrive in any order, and any may fail.             *)
(***************************************************************************)
EXTENDS ShelfView, SequencesExt

CONSTANTS
    NoDrive,      \* no drive has been opened yet
    Slots,        \* bound: the requests that may be under way at once
    MaxRenders    \* bound: how often the panel is drawn

ASSUME VersionsAssumption == IsFiniteSet(Versions)

VARIABLES
    selected,     \* state.selectedDrive
    listed,       \* state.snapshots, the complete ones
    panel,        \* #history-panel
    requests      \* the fetches under way

pageVars == <<selected, listed, panel, requests>>

Nothing   == [is |-> "nothing"]
Comparing == [is |-> "comparing"]
Failed    == [is |-> "error"]
DiffOf(d, from, to) == [is |-> "diff", drive |-> d, from |-> from, to |-> to]
NoRequest == [is |-> "none"]

\* panel.drawing numbers the times the HTML of the panel was replaced.  An
\* element that a call holds on to is out of the document from the next on.
PageInit ==
    /\ selected = NoDrive
    /\ listed = <<>>
    /\ panel = [open |-> FALSE, drawing |-> 0, rows |-> <<>>, diff |-> Nothing]
    /\ requests = [r \in Slots |-> NoRequest]

Send(r, request) ==
    /\ requests[r] = NoRequest
    /\ requests' = [requests EXCEPT ![r] = request]

-----------------------------------------------------------------------------
(* What the user does.                                                     *)

\* openDrive hides the panel and sends loadSnapshots, which does not touch
\* state.snapshots before its answer is there.
OpenDrive(d, r) ==
    /\ selected' = d
    /\ panel' = [panel EXCEPT !.open = FALSE]
    /\ Send(r, [is |-> "list", drive |-> d, answer |-> <<>>, done |-> FALSE])
    /\ UNCHANGED listed

\* toggleHistory draws what state.snapshots is at that moment.
ShowHistory ==
    /\ selected # NoDrive /\ ~panel.open
    /\ panel.drawing < MaxRenders
    /\ panel' = [open |-> TRUE, drawing |-> panel.drawing + 1, rows |-> listed,
                 diff |-> Nothing]
    /\ UNCHANGED <<selected, listed, requests>>

HideHistory ==
    /\ panel.open
    /\ panel' = [panel EXCEPT !.open = FALSE]
    /\ UNCHANGED <<selected, listed, requests>>

\* compareSnapshots: the element and the drive are read before the await.
Compare(r) ==
    /\ panel.open /\ Len(panel.rows) >= 2
    /\ panel' = [panel EXCEPT !.diff = Comparing]
    /\ Send(r, [is |-> "diff", drive |-> selected, from |-> panel.rows[2],
                to |-> panel.rows[1], target |-> panel.drawing,
                answer |-> Nothing, done |-> FALSE])
    /\ UNCHANGED <<selected, listed>>

-----------------------------------------------------------------------------
(* What the server does.                                                   *)

IsOf(v, d) == published[v] # Unpublished /\ published[v].drive = d

Waits(r, kind) == requests[r].is = kind /\ ~requests[r].done

Answer(r, answer) ==
    requests' = [requests EXCEPT ![r].answer = answer, ![r].done = TRUE]

\* ListSnapshots.  The shelf knows no dates: the list is in any order.
AnswerList(r) ==
    /\ Waits(r, "list")
    /\ \E list \in SetToSeqs({v \in Versions : IsOf(v, requests[r].drive)}) :
           Answer(r, list)
    /\ UNCHANGED <<selected, listed, panel>>

\* Mutant: Diff does not look at whose the snapshots are.
DiffUnchecked(d, from, to) == DiffOf(d, from, to)

\* Diff refuses what is not complete or of another drive.
Diff(d, from, to) ==
    IF IsOf(from, d) /\ IsOf(to, d) THEN DiffOf(d, from, to) ELSE Failed

AnswerDiff(r) ==
    /\ Waits(r, "diff")
    /\ Answer(r, Diff(requests[r].drive, requests[r].from, requests[r].to))
    /\ UNCHANGED <<selected, listed, panel>>

-----------------------------------------------------------------------------
(* The answer arrives, or the request has failed.                          *)

Arrives(r, kind) ==
    /\ requests[r].is = kind /\ requests[r].done
    /\ requests' = [requests EXCEPT ![r] = NoRequest]

\* state.snapshots is replaced, whichever drive is selected by now.
ReceiveList(r) ==
    /\ Arrives(r, "list")
    /\ listed' = requests[r].answer
    /\ UNCHANGED <<selected, panel>>

\* Mutant: #diff-results is looked up when the answer is there.
ReceiveDiffInPanel(r) ==
    /\ Arrives(r, "diff")
    /\ panel' = [panel EXCEPT !.diff = requests[r].answer]
    /\ UNCHANGED <<selected, listed>>

\* Into the element of the drawing the comparison was asked for in.
ReceiveDiff(r) ==
    /\ Arrives(r, "diff")
    /\ panel' = [panel EXCEPT !.diff = IF panel.drawing = requests[r].target
                                         THEN requests[r].answer ELSE @]
    /\ UNCHANGED <<selected, listed>>

\* A request that fails is answered by its catch.
RequestFails(r) ==
    /\ \/ Waits(r, "list") /\ Answer(r, <<>>)
       \/ Waits(r, "diff") /\ Answer(r, Failed)
    /\ UNCHANGED <<selected, listed, panel>>

PageStep ==
    \/ ShowHistory \/ HideHistory
    \/ \E r \in Slots :
           \/ \E d \in Drives : OpenDrive(d, r)
           \/ Compare(r) \/ AnswerList(r) \/ AnswerDiff(r)
           \/ ReceiveList(r) \/ ReceiveDiff(r) \/ RequestFails(r)

HistoryInit == Init /\ PageInit

HistoryNext ==
    \/ Next /\ UNCHANGED pageVars
    \/ PageStep /\ UNCHANGED shelfVars

HistorySpec == HistoryInit /\ [][HistoryNext]_<<shelfVars, pageVars>>

-----------------------------------------------------------------------------
(* Properties.                                                             *)

ShowsDiff == panel.open /\ panel.diff.is = "diff"

\* What the panel calls changes of the drive in view are changes between two
\* complete snapshots of that drive.  The list of snapshots above them may be
\* of another drive (toggleHistory does not wait for loadSnapshots, and answers
\* overtake each other): it is Diff that refuses to compare those.
DiffIsOfSelected ==
    ShowsDiff => /\ panel.diff.drive = selected
                 /\ IsOf(panel.diff.from, selected) /\ IsOf(panel.diff.to, selected)

\* The changes shown are those between the first two snapshots of the list they
\* stand below, however often the panel was closed, drawn and asked meanwhile
\* (compareSnapshots holds on to its element over the await).
DiffIsOfRows ==
    ShowsDiff => /\ Len(panel.rows) >= 2
                 /\ panel.diff.to = panel.rows[1] /\ panel.diff.from = panel.rows[2]
=============================================================================
