------------------------------ MODULE Scanner ------------------------------
(***************************************************************************)
(* One scan of a mounted directory: internal/scanner/scanner.go, the       *)
(* filepath.WalkDir it runs on (Go's standard library), and what the       *)
(* callers of Scan do with its result (server/jobs.go, cmd scan).          *)
(*                                                                         *)
(* The tree does not change, but reading it may fail anywhere: permissions,*)
(* a worn-out disk, a name that has just been removed.  The drive may be   *)
(* unplugged between any two system calls, after which every read fails.   *)
(*                                                                         *)
(* A path is the tuple of its segments, <<>> the scanned root.             *)
(***************************************************************************)
EXTENDS Integers, FiniteSets, SequencesExt

CONSTANTS
    Listing,    \* Listing[d]: the paths in directory d, as os.ReadDir sorts them
    Links,      \* the paths that are symbolic links
    Patterns,   \* --exclude: tuples of segments; "*" is any one, "**" ends a tree
    HashWanted  \* --hash quick or full

Root        == <<>>
Directories == DOMAIN Listing
Paths       == UNION {ToSet(Listing[d]) : d \in Directories}
Files       == Paths \ (Directories \cup Links)

\* A listing holds the items of its folder, each once, and whatever lies beneath
\* an item lies beneath one that this item lists.
ASSUME TreeAssumption ==
    /\ Root \in Directories /\ Directories \subseteq {Root} \cup Paths
    /\ \A d \in Directories :
           /\ Listing[d] \in Seq(Seq(STRING))
           /\ \A i, j \in DOMAIN Listing[d] :
                  Listing[d][i] = Listing[d][j] => i = j
           /\ \A p \in ToSet(Listing[d]) : p # Root /\ Front(p) = d
    /\ \A p \in Paths, q \in Paths \cup {Root} :
           IsPrefix(q, p) /\ q # p =>
               q \in Directories /\ \E c \in ToSet(Listing[q]) : IsPrefix(c, p)
    /\ Links \subseteq Paths \ Directories

VARIABLES
    mounted,    \* the drive is there
    cancelled,  \* the command was interrupted
    todo,       \* the recursion of WalkDir, innermost call first
    recorded,   \* entries yielded
    hashed,     \* entries yielded with a fingerprint
    reported,   \* paths given to onError
    counted,    \* Result: files, directories, errors
    result,     \* what Scan returns
    view        \* the tree the drive shows: of the last scan or of this one

vars == <<mounted, cancelled, todo, recorded, hashed, reported, counted,
          result, view>>

-----------------------------------------------------------------------------
(* excluded.                                                               *)

\* path.Match, for patterns whose segments are names or stars.
GlobMatch(pattern, p) ==
    /\ Len(pattern) = Len(p)
    /\ \A i \in 1 .. Len(p) : pattern[i] \in {p[i], "*", "**"}

\* The folder of a pattern that ends in /** is compared literally: of
\* '*/cache/**' only GlobMatch is left, which a/cache itself does not meet.
InTreeOf(pattern, p) ==
    /\ Len(pattern) > 1 /\ Last(pattern) = "**"
    /\ IsPrefix(Front(pattern), p)

Excluded(p) ==
    \E pattern \in Patterns : \/ GlobMatch(pattern, p)
                              \/ GlobMatch(pattern, <<Last(p)>>)
                              \/ InTreeOf(pattern, p)

-----------------------------------------------------------------------------
(* WalkDir calls visit for every item it finds and read for every          *)
(* directory whose visit did not say SkipDir.                              *)

Visits(paths) == [i \in 1 .. Len(paths) |-> <<"visit", paths[i]>>]

\* What follows a visit of p: read p, or go on.  The directory entry says
\* what p is, so links are not followed.  (Nor is a root that is a link: such
\* a scan visits nothing.  TreeAssumption leaves it out.)
Descend(p) ==
    todo' = (IF p \in Directories THEN << <<"read", p>> >> ELSE <<>>)
                \o Tail(todo)

NextIs(call, p) == result = "none" /\ todo # <<>> /\ Head(todo) = <<call, p>>

\* The callback has returned an error: WalkDir and Scan return it.
Abort ==
    /\ result' = "error"
    /\ todo' = <<>>
    /\ UNCHANGED <<cancelled, recorded, hashed, view>>

CountError(p) ==
    /\ reported' = reported \cup {p}
    /\ counted' = [counted EXCEPT !.errors = @ + 1]

Init ==
    /\ mounted = TRUE
    /\ cancelled = FALSE
    /\ todo = << <<"visit", Root>> >>
    /\ recorded = {} /\ hashed = {} /\ reported = {}
    /\ counted = [files |-> 0, directories |-> 0, errors |-> 0]
    /\ result = "none"
    /\ view = "last"

-----------------------------------------------------------------------------
(* The callback.                                                           *)

\* ctx.Err() at the start of the callback, whatever it was called for.
SeeCancelled ==
    /\ cancelled /\ result = "none" /\ todo # <<>>
    /\ Abort
    /\ UNCHANGED <<mounted, reported, counted>>

\* Mutant: the root is not left out.
VisitRootAsEntry ==
    /\ NextIs("visit", Root) /\ ~cancelled /\ mounted
    /\ Descend(Root)
    /\ recorded' = recorded \cup {Root}
    /\ UNCHANGED <<mounted, cancelled, hashed, reported, counted, result, view>>

\* The root is there and a directory: it is not an entry of its own catalog.
VisitRoot ==
    /\ NextIs("visit", Root) /\ ~cancelled /\ mounted
    /\ Descend(Root)
    /\ UNCHANGED <<mounted, cancelled, recorded, hashed, reported, counted,
                   result, view>>

\* WalkDir's Lstat of the root fails.  The callback counts the error and
\* returns nil, and so does WalkDir.
VisitRootFails ==
    /\ NextIs("visit", Root) /\ ~cancelled
    /\ CountError(Root)
    /\ todo' = Tail(todo)
    /\ UNCHANGED <<mounted, cancelled, recorded, hashed, result, view>>

\* Mutant: nil instead of SkipDir.
SkipExcludedNil(p) ==
    /\ NextIs("visit", p) /\ p # Root /\ ~cancelled
    /\ Excluded(p)
    /\ Descend(p)
    /\ UNCHANGED <<mounted, cancelled, recorded, hashed, reported, counted,
                   result, view>>

\* nil for an item, SkipDir for a directory.
SkipExcluded(p) ==
    /\ NextIs("visit", p) /\ p # Root /\ ~cancelled
    /\ Excluded(p)
    /\ todo' = Tail(todo)
    /\ UNCHANGED <<mounted, cancelled, recorded, hashed, reported, counted,
                   result, view>>

\* Mutant: an item that cannot be read is left out without a word.
InfoFailsSilently(p) ==
    /\ NextIs("visit", p) /\ p # Root /\ ~cancelled
    /\ ~Excluded(p)
    /\ Descend(p)
    /\ UNCHANGED <<mounted, cancelled, recorded, hashed, reported, counted,
                   result, view>>

\* item.Info() fails: the item is not recorded, but nil lets WalkDir descend.
InfoFails(p) ==
    /\ NextIs("visit", p) /\ p # Root /\ ~cancelled
    /\ ~Excluded(p)
    /\ CountError(p)
    /\ Descend(p)
    /\ UNCHANGED <<mounted, cancelled, recorded, hashed, result, view>>

\* Mutant: a link is counted as a file.
CountAlsoLinks(p) ==
    [counted EXCEPT !.files       = IF p \notin Directories THEN @ + 1 ELSE @,
                    !.directories = IF p \in Directories THEN @ + 1 ELSE @]

Count(p) ==
    [counted EXCEPT !.files       = IF p \in Files THEN @ + 1 ELSE @,
                    !.directories = IF p \in Directories THEN @ + 1 ELSE @]

Record(p) ==
    /\ recorded' = recorded \cup {p}
    /\ Descend(p)

\* Info succeeds, a file that is to be hashed is read, yield stores it.
Visit(p) ==
    /\ NextIs("visit", p) /\ p # Root /\ ~cancelled /\ mounted
    /\ ~Excluded(p)
    /\ Record(p)
    /\ counted' = Count(p)
    /\ hashed' = IF HashWanted /\ p \in Files THEN hashed \cup {p} ELSE hashed
    /\ UNCHANGED <<mounted, cancelled, reported, result, view>>

\* hashFile fails, before p is counted.  The drive may have gone in between.
HashFails(p) ==
    /\ p \in Files /\ HashWanted
    /\ reported' = reported \cup {p}
    /\ counted' = [Count(p) EXCEPT !.errors = @ + 1]
    /\ mounted' \in BOOLEAN

\* Info succeeds and hashFile fails: the file is recorded without a
\* fingerprint.
VisitUnhashed(p) ==
    /\ NextIs("visit", p) /\ p # Root /\ ~cancelled /\ mounted
    /\ ~Excluded(p)
    /\ HashFails(p)
    /\ Record(p)
    /\ UNCHANGED <<cancelled, hashed, result, view>>

\* writer.Add returns an error for an item that has been counted, and whose
\* hashing may have failed too.
YieldFails(p) ==
    /\ NextIs("visit", p) /\ p # Root /\ mounted
    /\ ~Excluded(p)
    /\ HashFails(p) \/ (counted' = Count(p) /\ UNCHANGED <<mounted, reported>>)
    /\ Abort

ReadDir(d) ==
    /\ NextIs("read", d) /\ mounted
    /\ todo' = Visits(Listing[d]) \o Tail(todo)
    /\ UNCHANGED <<mounted, cancelled, recorded, hashed, reported, counted,
                   result, view>>

\* os.ReadDir fails after some names: the callback is called again, counts
\* the error and returns nil, and WalkDir visits the names it got.
ReadDirFails(d) ==
    /\ NextIs("read", d) /\ ~cancelled
    /\ CountError(d)
    /\ \E n \in 0 .. Len(Listing[d]) :
           todo' = Visits(SubSeq(Listing[d], 1, n)) \o Tail(todo)
    /\ UNCHANGED <<mounted, cancelled, recorded, hashed, result, view>>

Return ==
    /\ result = "none" /\ todo = <<>>
    /\ result' = "ok"
    /\ UNCHANGED <<mounted, cancelled, todo, recorded, hashed, reported,
                   counted, view>>

-----------------------------------------------------------------------------
(* The world, and the caller.                                              *)

Unplug ==
    /\ mounted /\ todo # <<>>
    /\ mounted' = FALSE
    /\ UNCHANGED <<cancelled, todo, recorded, hashed, reported, counted,
                   result, view>>

Interrupt ==
    /\ ~cancelled
    /\ cancelled' = TRUE
    /\ UNCHANGED <<mounted, todo, recorded, hashed, reported, counted,
                   result, view>>

\* writer.Complete: the entries become the view of the drive.
Complete ==
    /\ result = "ok" /\ view = "last" /\ ~cancelled
    /\ result' = "complete" /\ view' = "this"
    /\ UNCHANGED <<mounted, cancelled, todo, recorded, hashed, reported,
                   counted>>

\* writer.Fail, or a Complete that fails.
Fail ==
    /\ result \in {"ok", "error"}
    /\ result' = "failed"
    /\ UNCHANGED <<mounted, cancelled, todo, recorded, hashed, reported,
                   counted, view>>

Done == result \in {"complete", "failed"} /\ UNCHANGED vars

Walk ==
    \/ SeeCancelled \/ VisitRoot \/ VisitRootFails \/ Return
    \/ \E p \in Paths : \/ SkipExcluded(p) \/ InfoFails(p) \/ Visit(p)
                        \/ VisitUnhashed(p) \/ YieldFails(p)
    \/ \E d \in Directories : ReadDir(d) \/ ReadDirFails(d)
    \/ Complete \/ Fail

Next == Walk \/ Unplug \/ Interrupt \/ Done

Spec == Init /\ [][Next]_vars

-----------------------------------------------------------------------------
(* Properties.                                                             *)

\* The recursion holds calls on paths of the tree, each counter is a number.
TypeOK ==
    /\ mounted \in BOOLEAN /\ cancelled \in BOOLEAN
    /\ todo \in Seq(({"visit"} \X ({Root} \cup Paths))
                    \cup ({"read"} \X Directories))
    /\ recorded \subseteq Paths /\ hashed \subseteq recorded
    /\ reported \subseteq {Root} \cup Paths
    /\ counted \in [files : Nat, directories : Nat, errors : Nat]
    /\ result \in {"none", "ok", "error", "complete", "failed"}
    /\ view \in {"last", "this"}

Beneath(p, q)   == IsPrefix(q, p)
InExcludedTree(p) == \E q \in Paths : Beneath(p, q) /\ Excluded(q)
Wanted          == {p \in Paths : ~InExcludedTree(p)}

\* What a finished scan does not have was reported: each item that is missing
\* lies at or below a path that was given to onError, each file without its
\* fingerprint was given to it too, and every report was counted (README.md:
\* "Permission failures are counted and shown").
GapsAreReported ==
    result \in {"ok", "complete"} =>
        /\ \A p \in Wanted \ recorded : \E q \in reported : Beneath(p, q)
        /\ HashWanted => (recorded \cap Files) \ hashed \subseteq reported
        /\ counted.errors >= Cardinality(reported)

\* Nothing at or below an excluded folder is ever recorded, although only the
\* folder itself may match a pattern (scanner.go's fs.SkipDir and excluded).
ExcludedStaysOut == recorded \cap Paths \subseteq Wanted

TotalsOf(items) ==
    /\ counted.files = Cardinality(items \cap Files)
    /\ counted.directories = Cardinality(items \cap Directories)

\* The totals that Scan counts are those of what it has yielded.  Only where a
\* scan has ended in an error may they hold one item more, which was wanted and
\* is not recorded: the callback counts an item before the writer may refuse it
\* (scanner.go Scan).  So the totals of a scan that is completed are true.
TotalsMatchRecorded ==
    \/ TotalsOf(recorded)
    \/ /\ result \in {"error", "failed"}
       /\ \E refused \in Wanted \ recorded : TotalsOf(recorded \cup {refused})

\* docs/THREAT_MODEL.md: "atomic snapshot commits prevent a partial scan from
\* replacing the last complete snapshot".  Items that a drive refuses to show
\* are reported and left out by design; a drive that is gone is not meant.
PartialNeverReplaces ==
    view = "this" => recorded = Wanted \/ (mounted /\ reported # {})
=============================================================================
