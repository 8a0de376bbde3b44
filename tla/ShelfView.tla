----------------------------- MODULE ShelfView -----------------------------
(***************************************************************************)
(* What the catalog promises about scans, without transactions, locks or   *)
(* statuses (docs/ARCHITECTURE.md, "Snapshot transaction": readers keep    *)
(* the previous complete snapshot until the next one is committed).  A     *)
(* scan records what it sees out of anybody's sight.  Either all of it is  *)
(* published in one step, as a new version that becomes the current one of *)
(* its drive, or none of it ever is.  A published version never changes    *)
(* and is never taken back.                                                *)
(***************************************************************************)
CONSTANTS Drives, Scans, Paths, Versions, NoVersion

VARIABLES
    current,    \* the version of each drive that readers are shown
    published,  \* each version: unpublished, or whose it is and what it holds
    scan        \* each scan: quiet, or its drive and what it has recorded

shelfVars == <<current, published, scan>>

Unpublished == [is |-> "unpublished"]
Quiet       == [is |-> "quiet"]
Trees       == SUBSET Paths

Version(d, tree)   == [is |-> "published", drive |-> d, tree |-> tree]
Recording(d, tree) == [is |-> "recording", drive |-> d, tree |-> tree]

Init ==
    /\ current = [d \in Drives |-> NoVersion]
    /\ published = [v \in Versions |-> Unpublished]
    /\ scan = [s \in Scans |-> Quiet]

\* Scan s of drive d begins with nothing recorded.
Begin(s, d) ==
    /\ scan[s] = Quiet
    /\ scan' = [scan EXCEPT ![s] = Recording(d, {})]
    /\ UNCHANGED <<current, published>>

\* Scan s comes to one more path, which it has not recorded before.
Record(s, p) ==
    /\ scan[s].is = "recording" /\ p \notin scan[s].tree
    /\ scan' = [scan EXCEPT ![s] = Recording(@.drive, @.tree \cup {p})]
    /\ UNCHANGED <<current, published>>

\* All that s has recorded becomes version v, and v the view of its drive.
Publish(s, v) ==
    /\ scan[s].is = "recording"
    /\ published[v] = Unpublished
    /\ published' = [published EXCEPT
                         ![v] = Version(scan[s].drive, scan[s].tree)]
    /\ current' = [current EXCEPT ![scan[s].drive] = v]
    /\ scan' = [scan EXCEPT ![s] = Quiet]

\* Scans fail or die, several at once when they share a process.
Abandon(S) ==
    /\ scan' = [s \in Scans |-> IF s \in S THEN Quiet ELSE scan[s]]
    /\ UNCHANGED <<current, published>>

Next ==
    \/ \E s \in Scans :
           \/ \E d \in Drives : Begin(s, d)
           \/ \E p \in Paths : Record(s, p)
           \/ \E v \in Versions : Publish(s, v)
    \/ \E S \in SUBSET Scans : Abandon(S)

Spec == Init /\ [][Next]_shelfVars
=============================================================================
