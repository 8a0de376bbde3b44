--------------------------- MODULE ReadersProofs ----------------------------
(***************************************************************************)
(* Theorems about Export and HistoryPage: what is read of the shelf in     *)
(* several statements or requests agrees, for any number of drives, scans, *)
(* versions, paths, requests under way and drawings of the panel.          *)
(***************************************************************************)
EXTENDS Readers, FiniteSetTheorems, TLAPS

-----------------------------------------------------------------------------
(* The shelf.                                                              *)

PublishedRow == [is : {"published"}, drive : Drives, tree : SUBSET Paths]
RecordingRow == [is : {"recording"}, drive : Drives, tree : SUBSET Paths]

ShelfInv ==
    /\ current \in [Drives -> Versions \cup {NoVersion}]
    /\ published \in [Versions -> {Unpublished} \cup PublishedRow]
    /\ scan \in [Scans -> {Quiet} \cup RecordingRow]
    /\ \A d \in Drives : current[d] # NoVersion => IsOf(current[d], d)

\* A published version is still there, and still the same, after any step.
PublishedStays ==
    \A v \in Versions : published[v] # Unpublished => published'[v] = published[v]

LEMMA InitShelfInv == Init => ShelfInv
BY DEF Init, ShelfInv

LEMMA PublishKeeps ==
    ASSUME ShelfInv, NEW s \in Scans, NEW v \in Versions, Publish(s, v)
    PROVE  ShelfInv' /\ PublishedStays
<1> DEFINE d == scan[s].drive
           row == [is |-> "published", drive |-> d, tree |-> scan[s].tree]
<1>1. scan[s] \in RecordingRow /\ d \in Drives /\ row \in PublishedRow
  BY DEF ShelfInv, Publish, Quiet, RecordingRow, PublishedRow
<1>2. /\ published[v] = Unpublished
      /\ published' = [published EXCEPT ![v] = row]
      /\ current' = [current EXCEPT ![d] = v]
      /\ scan' = [scan EXCEPT ![s] = Quiet]
  BY DEF Publish, Version
<1>3. row # Unpublished /\ row.drive = d
  BY DEF Unpublished
<1> HIDE DEF row, d
<1>4. PublishedStays
  BY <1>2 DEF ShelfInv, PublishedStays
<1>5. ASSUME NEW e \in Drives, current'[e] # NoVersion
      PROVE  published'[current'[e]] # Unpublished /\ published'[current'[e]].drive = e
  <2>1. CASE e = d
    BY <1>1, <1>2, <1>3, <2>1 DEF ShelfInv, IsOf
  <2>2. CASE e # d
    BY <1>1, <1>2, <1>4, <1>5, <2>2 DEF ShelfInv, IsOf, PublishedStays
  <2>3. QED
    BY <2>1, <2>2
<1>6. QED
  BY <1>1, <1>2, <1>4, <1>5 DEF ShelfInv, IsOf

LEMMA NextShelfInv ==
    ASSUME ShelfInv, [Next]_shelfVars
    PROVE  ShelfInv' /\ PublishedStays
<1>1. ASSUME NEW s \in Scans, NEW d \in Drives, Begin(s, d)
      PROVE  ShelfInv' /\ PublishedStays
  BY <1>1 DEF Begin, Recording, ShelfInv, RecordingRow, PublishedStays, IsOf
<1>2. ASSUME NEW s \in Scans, NEW p \in Paths, Record(s, p)
      PROVE  ShelfInv' /\ PublishedStays
  <2> DEFINE new == [is |-> "recording", drive |-> scan[s].drive,
                     tree |-> scan[s].tree \cup {p}]
  <2>1. new \in RecordingRow
    BY <1>2 DEF Record, ShelfInv, Quiet, RecordingRow
  <2>2. scan' = [scan EXCEPT ![s] = new] /\ UNCHANGED <<current, published>>
    BY <1>2 DEF Record, Recording
  <2> HIDE DEF new
  <2>3. QED
    BY <2>1, <2>2 DEF ShelfInv, PublishedStays, IsOf
<1>3. ASSUME NEW S \in SUBSET Scans, Abandon(S)
      PROVE  ShelfInv' /\ PublishedStays
  BY <1>3 DEF Abandon, ShelfInv, PublishedStays, IsOf
<1>4. CASE UNCHANGED shelfVars
  BY <1>4 DEF shelfVars, ShelfInv, PublishedStays, IsOf
<1>5. QED
  BY <1>1, <1>2, <1>3, <1>4, PublishKeeps DEF Next

-----------------------------------------------------------------------------
(* Export.                                                                 *)

Running ==
    [phase : {"snapshots", "entries", "done"}, left : SUBSET Drives,
     rows : [Drives -> [latest : Versions \cup {NoVersion},
                        fileCount : {Cardinality(t) : t \in SUBSET Paths}]],
     snapshots : [Drives -> SUBSET Versions], entries : [Drives -> SUBSET Paths],
     reading : SUBSET Drives]

\* The drives whose entries are not read yet.
Unread == export.left \cup (IF export.phase = "entries" THEN export.reading ELSE {})

\* What has been read of drive d stays true of the shelf, and the parts agree.
ReadOf(d) ==
    LET row == export.rows[d]
    IN  /\ row.latest # NoVersion => IsOf(row.latest, d)
        /\ row.fileCount = Cardinality(TreeOf(row.latest))
        /\ d \notin export.left /\ row.latest # NoVersion =>
               row.latest \in export.snapshots[d]
        /\ d \notin Unread => export.entries[d] = TreeOf(row.latest)

ExportInv ==
    /\ ShelfInv
    /\ export \in {NoExport} \cup Running
    /\ export # NoExport =>
           /\ export.phase = "done" => export.left = {}
           /\ \A d, e \in export.reading : d = e
           /\ \A d \in Drives : ReadOf(d)

\* A row of the join of drives and snapshots has the totals of its tree.
LEMMA DriveRowIsTrue ==
    ASSUME ShelfInv, NEW d \in Drives
    PROVE  /\ DriveRow(d) \in [latest : Versions \cup {NoVersion},
                               fileCount : {Cardinality(t) : t \in SUBSET Paths}]
           /\ DriveRow(d).latest # NoVersion => IsOf(DriveRow(d).latest, d)
           /\ DriveRow(d).fileCount = Cardinality(TreeOf(DriveRow(d).latest))
<1>1. current[d] \in Versions \cup {NoVersion} /\ TreeOf(current[d]) \in SUBSET Paths
  BY DEF ShelfInv, TreeOf, IsOf, PublishedRow
<1>2. QED
  BY <1>1 DEF DriveRow, ShelfInv

LEMMA ListDrivesKeeps ==
    ASSUME ExportInv, ListDrives
    PROVE  ExportInv'
<1> DEFINE rows == [d \in Drives |-> DriveRow(d)]
           new == [phase |-> "snapshots", left |-> Drives, rows |-> rows,
                   snapshots |-> [d \in Drives |-> {}],
                   entries |-> [d \in Drives |-> {}], reading |-> {}]
<1>1. rows \in [Drives -> [latest : Versions \cup {NoVersion},
                          fileCount : {Cardinality(t) : t \in SUBSET Paths}]]
  BY DriveRowIsTrue DEF ExportInv
<1>2. \A d \in Drives : /\ rows[d].latest # NoVersion => IsOf(rows[d].latest, d)
                        /\ rows[d].fileCount = Cardinality(TreeOf(rows[d].latest))
  BY DriveRowIsTrue DEF ExportInv
<1> HIDE DEF rows
<1>3. new \in Running /\ new.left = Drives /\ new.rows = rows /\ new.phase = "snapshots"
      /\ new.reading = {}
  BY <1>1 DEF Running
<1>4. export' = new /\ UNCHANGED shelfVars
  BY DEF ListDrives, rows
<1> HIDE DEF new
<1>5. ShelfInv'
  BY <1>4, NextShelfInv DEF ExportInv
<1>6. ASSUME NEW d \in Drives PROVE ReadOf(d)'
  BY <1>2, <1>3, <1>4 DEF ReadOf, Unread, IsOf, TreeOf, shelfVars
<1>7. QED
  BY <1>3, <1>4, <1>5, <1>6 DEF ExportInv

LEMMA ListSnapshotsKeeps ==
    ASSUME ExportInv, NEW d \in Drives, ListSnapshots(d)
    PROVE  ExportInv'
<1> DEFINE snapshots == {v \in Versions : IsOf(v, d)}
           new == [phase |-> "entries", left |-> export.left \ {d},
                   rows |-> export.rows,
                   snapshots |-> [export.snapshots EXCEPT ![d] = snapshots],
                   entries |-> export.entries, reading |-> {d}]
<1>1. /\ export \in Running /\ export # NoExport /\ d \in export.left
      /\ export.phase = "snapshots"
  BY DEF ExportInv, ListSnapshots, NoExport, Running
<1>2. snapshots \in SUBSET Versions
  OBVIOUS
<1>3. new \in Running
  BY <1>1, <1>2 DEF Running
<1>4. export' = new
  BY <1>1 DEF ListSnapshots, Running, IsOf
<1>5. UNCHANGED shelfVars
  BY DEF ListSnapshots
<1>6. /\ new.phase = "entries" /\ new.left = export.left \ {d} /\ new.reading = {d}
      /\ new.rows = export.rows /\ new.entries = export.entries
      /\ new.snapshots[d] = snapshots
      /\ \A e \in Drives \ {d} : new.snapshots[e] = export.snapshots[e]
      /\ new # NoExport
  BY <1>1 DEF Running, NoExport
<1> HIDE DEF new
<1>7. ShelfInv'
  BY <1>5, NextShelfInv DEF ExportInv
<1>8. ASSUME NEW e \in Drives PROVE ReadOf(e)'
  <2>1. ReadOf(e) /\ export.rows[e].latest \in Versions \cup {NoVersion}
    BY <1>1 DEF ExportInv, Running
  <2>2. e \notin export.left => export.entries[e] = TreeOf(export.rows[e].latest)
    BY <1>1, <2>1 DEF ReadOf, Unread
  <2>3. QED
    BY <1>1, <1>4, <1>5, <1>6, <2>1, <2>2
    DEF ReadOf, Unread, IsOf, TreeOf, shelfVars
<1>9. QED
  BY <1>3, <1>4, <1>6, <1>7, <1>8 DEF ExportInv

LEMMA AllEntriesKeeps ==
    ASSUME ExportInv, NEW d \in Drives, AllEntries(d)
    PROVE  ExportInv'
<1> DEFINE phase == IF export.left = {} THEN "done" ELSE "snapshots"
           tree == TreeOf(export.rows[d].latest)
           new == [phase |-> phase, left |-> export.left, rows |-> export.rows,
                   snapshots |-> export.snapshots,
                   entries |-> [export.entries EXCEPT ![d] = tree],
                   reading |-> export.reading]
<1>1. /\ export \in Running /\ export # NoExport /\ d \in export.reading
      /\ export.phase = "entries"
  BY DEF ExportInv, AllEntries, NoExport, Running
<1>2. tree \in SUBSET Paths
  BY <1>1 DEF ExportInv, ShelfInv, Running, TreeOf, IsOf, PublishedRow, ReadOf
<1>3. new \in Running
  BY <1>1, <1>2 DEF Running
<1>4. export' = new
  <2>1. [export.rows EXCEPT ![d] = export.rows[d]] = export.rows
    BY <1>1 DEF Running
  <2>2. QED
    BY <1>1, <2>1 DEF AllEntries, Running, RowUsed, VersionRead
<1>5. UNCHANGED shelfVars
  BY DEF AllEntries
<1>6. /\ new.phase = phase /\ new.left = export.left /\ new.reading = export.reading
      /\ new.rows = export.rows /\ new.snapshots = export.snapshots
      /\ new.entries[d] = tree
      /\ \A e \in Drives \ {d} : new.entries[e] = export.entries[e]
      /\ new # NoExport
  BY <1>1 DEF Running, NoExport
<1> HIDE DEF new
<1>7. ShelfInv'
  BY <1>5, NextShelfInv DEF ExportInv
<1>8. ASSUME NEW e \in Drives PROVE ReadOf(e)'
  <2>1. ReadOf(e) /\ (e # d => e \notin export.reading)
    BY <1>1 DEF ExportInv
  <2>2. e # d /\ e \notin export.left =>
            export.entries[e] = TreeOf(export.rows[e].latest)
    BY <1>1, <2>1 DEF ReadOf, Unread
  <2>3. QED
    BY <1>1, <1>4, <1>5, <1>6, <2>1, <2>2
    DEF ReadOf, Unread, IsOf, TreeOf, shelfVars
<1>9. QED
  BY <1>1, <1>3, <1>4, <1>6, <1>7, <1>8 DEF ExportInv

\* Scans that publish between two statements do not touch what was read.
LEMMA ScansKeepExport ==
    ASSUME ExportInv, [Next]_shelfVars, UNCHANGED export
    PROVE  ExportInv'
<1>1. ShelfInv' /\ PublishedStays
  BY NextShelfInv DEF ExportInv
<1>2. ASSUME export # NoExport, NEW d \in Drives PROVE ReadOf(d)'
  <2>1. ReadOf(d) /\ export.rows[d].latest \in Versions \cup {NoVersion}
    BY <1>2 DEF ExportInv, Running
  <2>2. export.rows[d].latest # NoVersion =>
            published'[export.rows[d].latest] = published[export.rows[d].latest]
    BY <1>1, <2>1 DEF PublishedStays, ReadOf, IsOf
  <2>3. TreeOf(export.rows[d].latest)' = TreeOf(export.rows[d].latest)
    BY <2>2 DEF TreeOf
  <2>4. QED
    BY <2>1, <2>2, <2>3 DEF ReadOf, Unread, IsOf
<1>3. QED
  BY <1>1, <1>2 DEF ExportInv

LEMMA NextExportInv == ExportInv /\ [ExportNext]_exportVars => ExportInv'
<1> SUFFICES ASSUME ExportInv, [ExportNext]_exportVars PROVE ExportInv'
  OBVIOUS
<1>1. CASE EndExport
  BY <1>1, NextShelfInv DEF EndExport, ExportInv
<1>2. CASE Next /\ UNCHANGED export
  BY <1>2, ScansKeepExport
<1>3. CASE UNCHANGED exportVars
  BY <1>3, ScansKeepExport DEF exportVars
<1>4. QED
  BY <1>1, <1>2, <1>3, ListDrivesKeeps, ListSnapshotsKeeps, AllEntriesKeeps
  DEF ExportNext

THEOREM ExportInvariance == ExportSpec => []ExportInv
<1>1. ExportInit => ExportInv
  BY InitShelfInv DEF ExportInit, ExportInv
<1>2. QED
  BY <1>1, NextExportInv, PTL DEF ExportSpec

\* Every exported file: the totals of a drive are those of its entries,
\* although scans publish between the statements (queries.go ExportJSON).
THEOREM ExportsAgree == ExportSpec => []ExportedTotalsMatch
<1>1. ExportInv => ExportedTotalsMatch
  <2> SUFFICES ASSUME ExportInv, export.phase = "done", NEW d \in Drives
               PROVE  export.rows[d].fileCount = Cardinality(export.entries[d])
    BY DEF ExportedTotalsMatch
  <2>1. export # NoExport /\ export.left = {} /\ ReadOf(d)
    BY DEF ExportInv, NoExport
  <2>2. d \notin Unread
    BY <2>1 DEF Unread
  <2>3. QED
    BY <2>1, <2>2 DEF ReadOf
<1>2. QED
  BY <1>1, ExportInvariance, PTL

\* And its latest snapshot is among those listed for it.
THEOREM LatestIsListed == ExportSpec => []ExportedLatestIsListed
<1>1. ExportInv => ExportedLatestIsListed
  BY DEF ExportInv, ReadOf, ExportedLatestIsListed, NoExport
<1>2. QED
  BY <1>1, ExportInvariance, PTL

-----------------------------------------------------------------------------
(* The history panel.                                                      *)

Anyone == Drives \cup {NoDrive}

Comparison == [is : {"diff"}, drive : Anyone, from : Versions, to : Versions]
Shown == {Nothing, Comparing, Failed} \cup Comparison
Panel == [open : BOOLEAN, drawing : Nat, rows : Seq(Versions), diff : Shown]

ListRequest == [is : {"list"}, drive : Drives, answer : Seq(Versions),
                done : BOOLEAN]
DiffRequest == [is : {"diff"}, drive : Anyone, from : Versions, to : Versions,
                target : Nat, answer : Shown, done : BOOLEAN]

PageTypeOK ==
    /\ selected \in Anyone
    /\ listed \in Seq(Versions)
    /\ panel \in Panel
    /\ requests \in [Slots -> {NoRequest} \cup ListRequest \cup DiffRequest]

\* A comparison was made between two complete snapshots of its drive.
Compared(x) == x.is = "diff" => IsOf(x.from, x.drive) /\ IsOf(x.to, x.drive)

\* A pair is the one that a click on the panel as it is drawn would send.
FirstRows(from, to) ==
    Len(panel.rows) >= 2 /\ to = panel.rows[1] /\ from = panel.rows[2]

\* What the panel shows, and what a request for it knows about it.
PanelKnows ==
    panel.diff.is = "diff" =>
        /\ Compared(panel.diff)
        /\ FirstRows(panel.diff.from, panel.diff.to)
        /\ panel.open => panel.diff.drive = selected

RequestKnows(r) ==
    requests[r].is = "diff" =>
        /\ requests[r].target <= panel.drawing
        /\ requests[r].target = panel.drawing =>
               /\ FirstRows(requests[r].from, requests[r].to)
               /\ panel.open => requests[r].drive = selected
        /\ requests[r].answer.is = "diff" =>
               /\ Compared(requests[r].answer)
               /\ requests[r].answer.drive = requests[r].drive
               /\ requests[r].answer.from = requests[r].from
               /\ requests[r].answer.to = requests[r].to

PageInv ==
    ShelfInv /\ PageTypeOK /\ PanelKnows /\ \A r \in Slots : RequestKnows(r)

LEMMA InitPageInv == HistoryInit => PageInv
<1> SUFFICES ASSUME HistoryInit PROVE PageInv
  OBVIOUS
<1>1. ShelfInv
  BY InitShelfInv DEF HistoryInit
<1>2. PageTypeOK
  BY DEF HistoryInit, PageInit, PageTypeOK, Anyone, Panel, Shown
<1>3. PanelKnows /\ \A r \in Slots : RequestKnows(r)
  BY DEF HistoryInit, PageInit, PanelKnows, RequestKnows, Nothing, NoRequest
<1>4. QED
  BY <1>1, <1>2, <1>3 DEF PageInv

\* Scans that publish between two events of the page make nothing untrue.
LEMMA ScansKeepPage ==
    ASSUME PageInv, [Next]_shelfVars, UNCHANGED pageVars
    PROVE  PageInv'
<1>1. ShelfInv' /\ PublishedStays
  BY NextShelfInv DEF PageInv
<1>2. ASSUME NEW x \in Shown, Compared(x) PROVE Compared(x)'
  BY <1>1, <1>2 DEF Compared, Shown, Comparison, PublishedStays, IsOf, Nothing,
     Comparing, Failed
<1>3. PanelKnows'
  BY <1>2 DEF PageInv, PageTypeOK, Panel, PanelKnows, FirstRows, pageVars
<1>4. ASSUME NEW r \in Slots PROVE RequestKnows(r)'
  <2>1. RequestKnows(r) /\ (requests[r].is = "diff" => requests[r].answer \in Shown)
    BY DEF PageInv, PageTypeOK, ListRequest, DiffRequest, NoRequest
  <2>2. QED
    BY <1>2, <2>1 DEF RequestKnows, FirstRows, pageVars
<1>5. QED
  BY <1>1, <1>3, <1>4 DEF PageInv, PageTypeOK, pageVars

-----------------------------------------------------------------------------
(* The steps of the page.                                                  *)

\* The panel is drawn anew, or neither drawn nor opened nor given another drive.
PanelOnlyRedrawn ==
    /\ panel' \in Panel
    /\ panel'.drawing > panel.drawing
         \/ /\ panel'.drawing = panel.drawing /\ panel'.rows = panel.rows
            /\ panel'.open => panel.open /\ selected' = selected

\* A request that an event leaves as it is knows what it knew.
LEMMA OtherRequest ==
    ASSUME PageInv, UNCHANGED shelfVars, PanelOnlyRedrawn,
           NEW r \in Slots, requests'[r] = requests[r]
    PROVE  RequestKnows(r)'
<1>1. RequestKnows(r)
  BY DEF PageInv
<1>2. requests[r].is = "diff" => requests[r].target \in Nat
  BY DEF PageInv, PageTypeOK, ListRequest, DiffRequest, NoRequest
<1>3. panel \in Panel
  BY DEF PageInv, PageTypeOK
<1>4. QED
  BY <1>1, <1>2, <1>3
  DEF PanelOnlyRedrawn, RequestKnows, FirstRows, Compared, IsOf, shelfVars, Panel

LEMMA ShowHistoryKeeps ==
    ASSUME PageInv, ShowHistory, UNCHANGED shelfVars
    PROVE  PageInv'
<1> DEFINE new == [open |-> TRUE, drawing |-> panel.drawing + 1, rows |-> listed,
                   diff |-> Nothing]
<1>1. new \in Panel
  BY DEF PageInv, PageTypeOK, Panel, Shown
<1>2. /\ panel' = new /\ UNCHANGED <<selected, listed, requests>>
      /\ new.drawing > panel.drawing /\ new.diff = Nothing
  BY DEF ShowHistory, PageInv, PageTypeOK, Panel
<1> HIDE DEF new
<1>3. PanelOnlyRedrawn
  BY <1>1, <1>2 DEF PanelOnlyRedrawn
<1>4. \A r \in Slots : RequestKnows(r)'
  BY <1>2, <1>3, OtherRequest
<1>5. PanelKnows'
  BY <1>2 DEF PanelKnows, Nothing
<1>6. QED
  BY <1>1, <1>2, <1>4, <1>5, NextShelfInv DEF PageInv, PageTypeOK

\* Hiding the panel, and opening a drive, which hides it.
LEMMA HiddenPanel ==
    ASSUME PageInv, UNCHANGED shelfVars, panel' = [panel EXCEPT !.open = FALSE]
    PROVE  panel' \in Panel /\ PanelKnows' /\ PanelOnlyRedrawn
<1>1. panel \in Panel /\ PanelKnows
  BY DEF PageInv, PageTypeOK
<1>2. /\ panel' \in Panel /\ panel'.drawing = panel.drawing
      /\ panel'.rows = panel.rows /\ panel'.diff = panel.diff /\ ~panel'.open
  BY <1>1 DEF Panel
<1>3. QED
  BY <1>1, <1>2
  DEF PanelKnows, FirstRows, Compared, IsOf, shelfVars, PanelOnlyRedrawn

LEMMA HideHistoryKeeps ==
    ASSUME PageInv, HideHistory, UNCHANGED shelfVars
    PROVE  PageInv'
<1>1. /\ panel' = [panel EXCEPT !.open = FALSE]
      /\ UNCHANGED <<selected, listed, requests>>
  BY DEF HideHistory
<1>2. panel' \in Panel /\ PanelKnows' /\ PanelOnlyRedrawn
  BY <1>1, HiddenPanel
<1>3. \A r \in Slots : RequestKnows(r)'
  BY <1>1, <1>2, OtherRequest
<1>4. QED
  BY <1>1, <1>2, <1>3, NextShelfInv DEF PageInv, PageTypeOK

LEMMA OpenDriveKeeps ==
    ASSUME PageInv, NEW d \in Drives, NEW r \in Slots, OpenDrive(d, r),
           UNCHANGED shelfVars
    PROVE  PageInv'
<1> DEFINE new == [is |-> "list", drive |-> d, answer |-> <<>>, done |-> FALSE]
<1>1. /\ panel' = [panel EXCEPT !.open = FALSE]
      /\ selected' = d /\ listed' = listed
      /\ requests' = [requests EXCEPT ![r] = new]
  BY DEF OpenDrive, Send
<1>2. panel' \in Panel /\ PanelKnows' /\ PanelOnlyRedrawn
  BY <1>1, HiddenPanel
<1>3. new \in ListRequest /\ new.is = "list"
  BY DEF ListRequest
<1> HIDE DEF new
<1>4. /\ requests' \in [Slots -> {NoRequest} \cup ListRequest \cup DiffRequest]
      /\ requests'[r] = new /\ \A q \in Slots \ {r} : requests'[q] = requests[q]
  BY <1>1, <1>3 DEF PageInv, PageTypeOK
<1>5. ASSUME NEW q \in Slots PROVE RequestKnows(q)'
  BY <1>2, <1>3, <1>4, OtherRequest DEF RequestKnows
<1>6. QED
  BY <1>1, <1>2, <1>4, <1>5, NextShelfInv DEF PageInv, PageTypeOK, Anyone

LEMMA CompareKeeps ==
    ASSUME PageInv, NEW r \in Slots, Compare(r), UNCHANGED shelfVars
    PROVE  PageInv'
<1> DEFINE new == [is |-> "diff", drive |-> selected, from |-> panel.rows[2],
                   to |-> panel.rows[1], target |-> panel.drawing,
                   answer |-> Nothing, done |-> FALSE]
<1>1. panel \in Panel /\ panel.open /\ Len(panel.rows) >= 2 /\ selected \in Anyone
  BY DEF Compare, PageInv, PageTypeOK
<1>2. panel.rows[1] \in Versions /\ panel.rows[2] \in Versions
  BY <1>1 DEF Panel
<1>3. /\ new \in DiffRequest /\ new.is = "diff" /\ new.drive = selected
      /\ new.from = panel.rows[2] /\ new.to = panel.rows[1]
      /\ new.target = panel.drawing /\ new.answer = Nothing
  BY <1>1, <1>2 DEF DiffRequest, Shown, Panel
<1>4. requests' = [requests EXCEPT ![r] = new] /\ UNCHANGED <<selected, listed>>
  BY DEF Compare, Send
<1> HIDE DEF new
<1>5. /\ panel' \in Panel /\ panel'.drawing = panel.drawing /\ panel'.open
      /\ panel'.rows = panel.rows /\ panel'.diff = Comparing
  BY <1>1 DEF Compare, Panel, Shown
<1>6. PanelOnlyRedrawn
  BY <1>1, <1>4, <1>5 DEF PanelOnlyRedrawn
<1>7. /\ requests' \in [Slots -> {NoRequest} \cup ListRequest \cup DiffRequest]
      /\ requests'[r] = new /\ \A q \in Slots \ {r} : requests'[q] = requests[q]
  BY <1>3, <1>4 DEF PageInv, PageTypeOK
<1>8. RequestKnows(r)'
  BY <1>1, <1>3, <1>4, <1>5, <1>7 DEF RequestKnows, FirstRows, Nothing, Panel
<1>9. ASSUME NEW q \in Slots PROVE RequestKnows(q)'
  BY <1>6, <1>7, <1>8, OtherRequest
<1>10. PanelKnows'
  BY <1>5 DEF PanelKnows, Comparing
<1>11. QED
  BY <1>4, <1>5, <1>7, <1>9, <1>10, NextShelfInv DEF PageInv, PageTypeOK

Requests == {NoRequest} \cup ListRequest \cup DiffRequest

\* An answer is stored with the comparison that was asked for.
Answers(new, old) ==
    new.is = "diff" =>
        /\ old.is = "diff" /\ new.target = old.target
        /\ new.drive = old.drive /\ new.from = old.from /\ new.to = old.to
        /\ new.answer.is = "diff" =>
               /\ Compared(new.answer) /\ new.answer.drive = old.drive
               /\ new.answer.from = old.from /\ new.answer.to = old.to

\* One request gets its answer, or is over; the panel stays as it is.
LEMMA RequestReplaced ==
    ASSUME PageInv, UNCHANGED <<shelfVars, selected, panel>>,
           listed' \in Seq(Versions), NEW r \in Slots, NEW new \in Requests,
           requests' = [requests EXCEPT ![r] = new], Answers(new, requests[r])
    PROVE  PageInv'
<1>1. /\ requests' \in [Slots -> Requests] /\ requests'[r] = new
      /\ \A q \in Slots \ {r} : requests'[q] = requests[q]
  BY DEF PageInv, PageTypeOK, Requests
<1>2. PanelOnlyRedrawn /\ UNCHANGED shelfVars
  BY DEF PanelOnlyRedrawn, PageInv, PageTypeOK
<1>3. RequestKnows(r)'
  BY <1>1 DEF PageInv, RequestKnows, Answers, FirstRows, Compared, IsOf, shelfVars
<1>4. ASSUME NEW q \in Slots PROVE RequestKnows(q)'
  BY <1>1, <1>2, <1>3, OtherRequest
<1>5. PanelKnows'
  BY DEF PageInv, PanelKnows, FirstRows, Compared, IsOf, shelfVars
<1>6. QED
  BY <1>1, <1>2, <1>4, <1>5, NextShelfInv DEF PageInv, PageTypeOK, Requests

\* The list is a sequence of versions, in whichever order.
LEMMA ListIsSeq ==
    ASSUME NEW S \in SUBSET Versions, NEW list \in SetToSeqs(S)
    PROVE  list \in Seq(Versions)
<1>1. Cardinality(S) \in Nat
  BY VersionsAssumption, FS_Subset, FS_CardinalityType
<1>2. list \in [1 .. Cardinality(S) -> S]
  BY DEF SetToSeqs
<1>3. QED
  BY <1>1, <1>2

LEMMA AnswerKeeps ==
    ASSUME PageInv, UNCHANGED <<shelfVars, selected, panel, listed>>, NEW r \in Slots,
           \/ requests[r].is = "list" /\ \E list \in Seq(Versions) : Answer(r, list)
           \/ /\ requests[r].is = "diff"
              /\ \E x \in {Failed, DiffOf(requests[r].drive, requests[r].from,
                                          requests[r].to)} :
                     Answer(r, x) /\ Compared(x)
    PROVE  PageInv'
<1>1. requests[r] \in Requests /\ listed' \in Seq(Versions)
  BY DEF PageInv, PageTypeOK, Requests
<1>2. ASSUME requests[r].is = "list", NEW list \in Seq(Versions), Answer(r, list)
      PROVE  PageInv'
  <2> DEFINE new == [is |-> "list", drive |-> requests[r].drive, answer |-> list,
                     done |-> TRUE]
  <2>1. requests[r] \in ListRequest
    BY <1>1, <1>2 DEF Requests, NoRequest, DiffRequest
  <2>2. requests' = [requests EXCEPT ![r] = new]
    BY <1>2, <2>1 DEF Answer, ListRequest
  <2>3. new \in Requests /\ Answers(new, requests[r])
    BY <2>1 DEF ListRequest, Requests, Answers
  <2> HIDE DEF new
  <2>4. QED
    BY <1>1, <2>2, <2>3, RequestReplaced
<1>3. ASSUME requests[r].is = "diff",
             NEW x \in {Failed, DiffOf(requests[r].drive, requests[r].from,
                                       requests[r].to)},
             Answer(r, x), Compared(x)
      PROVE  PageInv'
  <2> DEFINE new == [is |-> "diff", drive |-> requests[r].drive,
                     from |-> requests[r].from, to |-> requests[r].to,
                     target |-> requests[r].target, answer |-> x, done |-> TRUE]
  <2>1. requests[r] \in DiffRequest
    BY <1>1, <1>3 DEF Requests, NoRequest, ListRequest
  <2>2. requests' = [requests EXCEPT ![r] = new]
    BY <1>3, <2>1 DEF Answer, DiffRequest
  <2>3. x \in Shown
    BY <2>1 DEF DiffRequest, Shown, Comparison, DiffOf
  <2>4. new \in Requests /\ Answers(new, requests[r])
    BY <1>3, <2>1, <2>3 DEF DiffRequest, Requests, Answers, DiffOf, Failed
  <2> HIDE DEF new
  <2>5. QED
    BY <1>1, <2>2, <2>4, RequestReplaced
<1>4. QED
  BY <1>2, <1>3

\* What the server answers: the list, the changes, or an error.
LEMMA ServerKeeps ==
    ASSUME PageInv, UNCHANGED shelfVars, NEW r \in Slots,
           AnswerList(r) \/ AnswerDiff(r) \/ RequestFails(r)
    PROVE  PageInv'
<1>1. UNCHANGED <<shelfVars, selected, panel, listed>>
  BY DEF AnswerList, AnswerDiff, RequestFails
<1>2. CASE AnswerList(r)
  <2>1. requests[r].is = "list" /\ \E list \in Seq(Versions) : Answer(r, list)
    BY <1>2, ListIsSeq DEF AnswerList, Waits
  <2>2. QED
    BY <1>1, <2>1, AnswerKeeps
<1>3. CASE AnswerDiff(r)
  <2> DEFINE x == Diff(requests[r].drive, requests[r].from, requests[r].to)
  <2>1. x \in {Failed, DiffOf(requests[r].drive, requests[r].from, requests[r].to)}
    BY DEF Diff
  <2>2. Compared(x)
    BY DEF Diff, Compared, DiffOf, Failed
  <2>3. requests[r].is = "diff" /\ Answer(r, x)
    BY <1>3 DEF AnswerDiff, Waits
  <2>4. QED
    BY <1>1, <2>1, <2>2, <2>3, AnswerKeeps
<1>4. CASE RequestFails(r)
  <2>1. <<>> \in Seq(Versions) /\ Compared(Failed)
    BY DEF Compared, Failed
  <2>2. \/ requests[r].is = "list" /\ Answer(r, <<>>)
        \/ requests[r].is = "diff" /\ Answer(r, Failed)
    BY <1>4 DEF RequestFails, Waits
  <2>3. QED
    BY <1>1, <2>1, <2>2, AnswerKeeps
<1>5. QED
  BY <1>2, <1>3, <1>4

LEMMA ReceiveListKeeps ==
    ASSUME PageInv, UNCHANGED shelfVars, NEW r \in Slots, ReceiveList(r)
    PROVE  PageInv'
<1>1. requests[r] \in ListRequest
  BY DEF PageInv, PageTypeOK, ReceiveList, Arrives, NoRequest, DiffRequest
<1>2. listed' \in Seq(Versions)
  BY <1>1 DEF ReceiveList, ListRequest
<1>3. NoRequest \in Requests /\ Answers(NoRequest, requests[r])
  BY DEF Requests, Answers, NoRequest
<1>4. /\ UNCHANGED <<shelfVars, selected, panel>>
      /\ requests' = [requests EXCEPT ![r] = NoRequest]
  BY DEF ReceiveList, Arrives
<1>5. QED
  BY <1>2, <1>3, <1>4, RequestReplaced

LEMMA ReceiveDiffKeeps ==
    ASSUME PageInv, UNCHANGED shelfVars, NEW r \in Slots, ReceiveDiff(r)
    PROVE  PageInv'
<1> DEFINE diff == IF panel.drawing = requests[r].target
                     THEN requests[r].answer ELSE panel.diff
<1>1. requests[r] \in DiffRequest /\ panel \in Panel
  BY DEF PageInv, PageTypeOK, ReceiveDiff, Arrives, NoRequest, ListRequest
<1>2. /\ requests' = [requests EXCEPT ![r] = NoRequest]
      /\ panel' = [panel EXCEPT !.diff = diff] /\ UNCHANGED <<selected, listed>>
  BY DEF ReceiveDiff, Arrives
<1>3. diff \in Shown
  BY <1>1 DEF DiffRequest, Panel
<1>4. RequestKnows(r) /\ requests[r].is = "diff" /\ PanelKnows
  BY <1>1 DEF PageInv, DiffRequest
<1>5. diff.is = "diff" =>
        /\ Compared(diff) /\ FirstRows(diff.from, diff.to)
        /\ panel.open => diff.drive = selected
  BY <1>4 DEF RequestKnows, PanelKnows
<1> HIDE DEF diff
<1>6. /\ panel' \in Panel /\ panel'.diff = diff /\ panel'.rows = panel.rows
      /\ panel'.drawing = panel.drawing /\ panel'.open = panel.open
  BY <1>1, <1>2, <1>3 DEF Panel
<1>7. PanelOnlyRedrawn
  BY <1>2, <1>6 DEF PanelOnlyRedrawn
<1>8. /\ requests' \in [Slots -> {NoRequest} \cup ListRequest \cup DiffRequest]
      /\ requests'[r] = NoRequest /\ \A q \in Slots \ {r} : requests'[q] = requests[q]
  BY <1>2 DEF PageInv, PageTypeOK
<1>9. ASSUME NEW q \in Slots PROVE RequestKnows(q)'
  <2>1. CASE q = r
    BY <1>8, <2>1 DEF RequestKnows, NoRequest
  <2>2. CASE q # r
    BY <1>7, <1>8, <2>2, OtherRequest
  <2>3. QED
    BY <2>1, <2>2
<1>10. PanelKnows'
  BY <1>2, <1>5, <1>6 DEF PanelKnows, FirstRows, Compared, IsOf, shelfVars
<1>11. QED
  BY <1>2, <1>6, <1>8, <1>9, <1>10, NextShelfInv DEF PageInv, PageTypeOK

LEMMA NextPageInv ==
    PageInv /\ [HistoryNext]_<<shelfVars, pageVars>> => PageInv'
<1> SUFFICES ASSUME PageInv, [HistoryNext]_<<shelfVars, pageVars>> PROVE PageInv'
  OBVIOUS
<1>1. CASE PageStep /\ UNCHANGED shelfVars
  BY <1>1, ShowHistoryKeeps, HideHistoryKeeps, OpenDriveKeeps, CompareKeeps,
     ServerKeeps, ReceiveListKeeps, ReceiveDiffKeeps DEF PageStep
<1>2. CASE [Next]_shelfVars /\ UNCHANGED pageVars
  BY <1>2, ScansKeepPage
<1>3. QED
  BY <1>1, <1>2 DEF HistoryNext

THEOREM PageInvariance == HistorySpec => []PageInv
BY InitPageInv, NextPageInv, PTL DEF HistorySpec

\* The changes shown are changes of the drive in view, whatever list stands
\* above them and whichever answers overtook each other (Diff's check).
THEOREM DiffsAreOfSelected == HistorySpec => []DiffIsOfSelected
<1>1. PageInv => DiffIsOfSelected
  BY DEF PageInv, PanelKnows, Compared, ShowsDiff, DiffIsOfSelected
<1>2. QED
  BY <1>1, PageInvariance, PTL

\* And they stand below the list whose first two rows they compare
\* (compareSnapshots and its element).
THEOREM DiffsAreOfRows == HistorySpec => []DiffIsOfRows
<1>1. PageInv => DiffIsOfRows
  BY DEF PageInv, PanelKnows, FirstRows, ShowsDiff, DiffIsOfRows
<1>2. QED
  BY <1>1, PageInvariance, PTL

-----------------------------------------------------------------------------
(* Both.                                                                   *)

\* A shelf with either reader is one with an export and one with a page: what
\* is proved of each holds where MCReaders checks it.
THEOREM ReadersAreEither == ReadersSpec => ExportSpec /\ HistorySpec
<1>1. ReadersInit => ExportInit /\ HistoryInit
  BY DEF ReadersInit, ExportInit, HistoryInit
<1>2. [ReadersNext]_readersVars =>
          [ExportNext]_exportVars /\ [HistoryNext]_<<shelfVars, pageVars>>
  BY DEF ReadersNext, Exports, Browses, ExportNext, ListDrives, ListSnapshots,
     AllEntries, EndExport, HistoryNext, readersVars, exportVars
<1>3. QED
  BY <1>1, <1>2, PTL DEF ReadersSpec, ExportSpec, HistorySpec
=============================================================================
