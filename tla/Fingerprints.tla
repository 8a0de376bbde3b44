---------------------------- MODULE Fingerprints ----------------------------
(***************************************************************************)
(* What fingerprints claim about files: hashFile (scanner/hash.go), and    *)
(* the two queries that draw conclusions from its results, Diff and        *)
(* Duplicates (catalog/queries.go).                                        *)
(*                                                                         *)
(* A file is a sequence of bytes on a drive that is in use while it is     *)
(* scanned.  A scan lists folders, which says what is a file and what a    *)
(* directory; when it comes to a file it reads its size and its time,      *)
(* opens it, and reads it piece by piece.  Between any two of these calls  *)
(* the file may be overwritten, replaced or removed.  The clock counts the *)
(* seconds that modified_at is stored in, so a change may leave it as it   *)
(* was.                                                                    *)
(*                                                                         *)
(* A digest is the bytes that were hashed: no two inputs share a SHA-256.  *)
(* What a file really held is kept in fields that no query reads: held,    *)
(* when Info was called, and steady, that nobody wrote to it from then     *)
(* until its hash was done.                                                *)
(***************************************************************************)
EXTENDS Integers, Sequences, FiniteSets

CONSTANTS
    Files,         \* <<drive, path>>
    Contents,      \* sequences of bytes
    Folder,        \* what a path holds that is a directory
    NoFile,        \* and one that is not there
    FolderSize,    \* the size that Info gives for a directory
    AtFirst,       \* what the paths may hold at first
    Sample,        \* quickSampleSize
    Buffer,        \* the size of the read buffer of a full hash
    MaxChanges,    \* bound: changes to the drives
    MaxSnapshots,  \* bound: finished scans
    MaxTime        \* bound: the last second

Drives     == {f[1] : f \in Files}
FilesOn(d) == {f \in Files : f[1] = d}

ASSUME SampleAssumption  == Sample \in Nat \ {0} /\ Buffer \in Nat \ {0}
ASSUME FolderAssumption  == FolderSize \in Nat
ASSUME BoundsAssumption  == /\ MaxTime \in Nat \ {0}
                            /\ MaxChanges \in Nat /\ MaxSnapshots \in Nat
ASSUME FilesAssumption   == IsFiniteSet(Files)
ASSUME ContentAssumption == Contents \subseteq Seq(Nat)
ASSUME HoldingAssumption == Folder \notin Contents /\ NoFile \notin Contents
                            /\ AtFirst \subseteq [Files -> Contents \cup {Folder, NoFile}]

VARIABLES
    disk,       \* what each path holds, and since when
    clock,
    changes,    \* how often the drives were changed
    scan,       \* the scan that is running: its drive and mode, the paths no
                \* listing has shown yet, those listed and their kinds, entries
    reading,    \* the call of hashFile that is running
    snapshots   \* the finished scans, oldest first

vars == <<disk, clock, changes, scan, reading, snapshots>>

NoScan    == [drive |-> NoFile]
NoReading == [at |-> "no"]
NoHash    == [algorithm |-> "none", input |-> <<>>]
Smaller(a, b) == IF a < b THEN a ELSE b
Larger(a, b)  == IF a < b THEN b ELSE a

Init ==
    /\ \E h \in AtFirst : disk = [f \in Files |-> [holds |-> h[f], modified |-> 1]]
    /\ clock = 1 /\ changes = 0
    /\ scan = NoScan /\ reading = NoReading
    /\ snapshots = <<>>

-----------------------------------------------------------------------------
(* The scan.                                                               *)

BeginScan(d, mode) ==
    /\ scan = NoScan /\ Len(snapshots) < MaxSnapshots
    /\ scan' = [drive |-> d, mode |-> mode, left |-> FilesOn(d),
                listed |-> [f \in {} |-> "file"], tree |-> [f \in {} |-> NoFile]]
    /\ UNCHANGED <<disk, clock, changes, reading, snapshots>>

KindOf(holds) == IF holds = Folder THEN "directory" ELSE "file"

\* The folder of these paths is read, before the first of them is visited and
\* hashed: what is there now will be visited, as what it is now.
ListFolder(siblings) ==
    /\ scan # NoScan /\ reading = NoReading
    /\ siblings \subseteq scan.left
    /\ LET found == {f \in siblings : disk[f].holds # NoFile}
       IN  scan' = [scan EXCEPT
               !.left   = @ \ siblings,
               !.listed = [f \in DOMAIN @ \cup found |->
                              IF f \in found THEN KindOf(disk[f].holds) ELSE @[f]]]
    /\ UNCHANGED <<disk, clock, changes, reading, snapshots>>

\* The walk comes to f.
Comes(f) == scan # NoScan /\ reading = NoReading /\ f \in DOMAIN scan.listed

\* What is still to be visited after f.
ListedAfter(f) == [g \in DOMAIN scan.listed \ {f} |-> scan.listed[g]]

\* yield stores the entry of f.
Yield(f, entry) ==
    scan' = [scan EXCEPT !.listed = ListedAfter(f),
                         !.tree = [g \in DOMAIN @ \cup {f} |->
                                      IF g = f THEN entry ELSE @[g]]]

\* Info fails, because f is gone or cannot be read: no entry.
InfoFails(f) ==
    /\ Comes(f)
    /\ scan' = [scan EXCEPT !.listed = ListedAfter(f)]
    /\ UNCHANGED <<disk, clock, changes, reading, snapshots>>

\* The entry of f: its kind is what the listing said, its time and its size are
\* what Info says now, whatever is there by now; only a file gets its size.
EntryOf(f) ==
    LET is   == disk[f].holds
        kind == scan.listed[f]
    IN  [kind |-> kind,
         size |-> IF kind = "directory" THEN 0
                  ELSE IF is = Folder THEN FolderSize ELSE Len(is),
         modified |-> disk[f].modified, hash |-> NoHash,
         held |-> is, steady |-> TRUE]

Hashes(entry) == entry.kind = "file" /\ scan.mode # "none"

RecordUnhashed(f) ==
    /\ Comes(f) /\ disk[f].holds # NoFile
    /\ ~Hashes(EntryOf(f))
    /\ Yield(f, EntryOf(f))
    /\ UNCHANGED <<disk, clock, changes, reading, snapshots>>

\* Info, and the call of hashFile.
Stat(f) ==
    /\ Comes(f) /\ disk[f].holds # NoFile
    /\ Hashes(EntryOf(f))
    /\ reading' = [at |-> "open", file |-> f, entry |-> EntryOf(f)]
    /\ UNCHANGED <<disk, clock, changes, scan, snapshots>>

-----------------------------------------------------------------------------
(* hashFile.                                                               *)

\* bytes are those of the open file, also when its path leads elsewhere by
\* now.  The input of a quick hash begins with the size that Info gave.
OpenFile ==
    /\ reading.at = "open"
    /\ disk[reading.file].holds \in Contents
    /\ reading' = [at |-> scan.mode, file |-> reading.file,
                   entry |-> reading.entry,
                   bytes |-> disk[reading.file].holds, offset |-> 0,
                   input |-> IF scan.mode = "quick" THEN <<reading.entry.size>>
                                                    ELSE <<>>]
    /\ UNCHANGED <<disk, clock, changes, scan, snapshots>>

\* The bytes after the first `from`, at most n of them.
Bytes(from, n) ==
    SubSeq(reading.bytes, from + 1, Smaller(from + n, Len(reading.bytes)))

\* The scan goes on with the entry and this hash.
Hashed(hash) ==
    /\ Yield(reading.file, [reading.entry EXCEPT !.hash = hash])
    /\ reading' = NoReading
    /\ UNCHANGED <<disk, clock, changes, snapshots>>

ReadsOn(input, offset, at) ==
    /\ reading' = [reading EXCEPT !.input = input, !.offset = offset, !.at = at]
    /\ UNCHANGED <<disk, clock, changes, scan, snapshots>>

\* Mutant: a quick hash is stored with the prefix of a full one.
QuickHashUnmarked(input) == [algorithm |-> "sha256", input |-> input]

\* The prefix of the stored hash says what it is of.
QuickHash(input) == [algorithm |-> "quick", input |-> input]
FullHash(input)  == [algorithm |-> "sha256", input |-> input]

\* Mutant: a second sample is taken only where the samples do not overlap.
HasLastSampleApart(size) == size > 2 * Sample

HasLastSample(size) == size > Sample

\* The first sample; the last follows unless it would be empty.
ReadFirst ==
    /\ reading.at = "quick"
    /\ LET size  == reading.entry.size
           input == reading.input \o Bytes(0, Smaller(size, Sample))
       IN  IF HasLastSample(size)
             THEN ReadsOn(input, Larger(size - Sample, Sample), "last")
             ELSE Hashed(QuickHash(input))

\* The last sample: to the end of the file, wherever that is by now.
ReadLast ==
    /\ reading.at = "last"
    /\ Hashed(QuickHash(reading.input
                           \o Bytes(reading.offset, Len(reading.bytes))))

\* One turn of the loop of a full hash; nothing left to read ends it.
ReadBuffer ==
    /\ reading.at = "full"
    /\ LET chunk == Bytes(reading.offset, Buffer)
       IN  IF chunk = <<>>
             THEN Hashed(FullHash(reading.input))
             ELSE ReadsOn(reading.input \o chunk, reading.offset + Len(chunk),
                          "full")

\* Opening, reading or seeking fails: the entry has no hash.
HashFails == reading # NoReading /\ Hashed(NoHash)

-----------------------------------------------------------------------------
(* The end of the scan, and the world.                                     *)

Publish ==
    /\ scan # NoScan /\ reading = NoReading
    /\ scan.left = {} /\ DOMAIN scan.listed = {}
    /\ snapshots' = Append(snapshots, [drive |-> scan.drive, tree |-> scan.tree])
    /\ scan' = NoScan
    /\ UNCHANGED <<disk, clock, changes, reading>>

Abandon ==
    /\ scan # NoScan
    /\ scan' = NoScan /\ reading' = NoReading
    /\ UNCHANGED <<disk, clock, changes, snapshots>>

\* A path is changed; who changes it may set the time back to what it was.
Put(f, content) ==
    /\ changes < MaxChanges /\ changes' = changes + 1
    /\ content # disk[f].holds
    /\ \E at \in {clock, disk[f].modified} :
           disk' = [disk EXCEPT ![f] = [holds |-> content, modified |-> at]]

IsRead(f) == reading # NoReading /\ reading.file = f

\* A program writes into the file: who has it open sees that.
Overwrite(f, content) ==
    /\ disk[f].holds \in Contents
    /\ Put(f, content)
    /\ reading' = CASE ~IsRead(f) -> reading
                    [] IsRead(f) /\ reading.at = "open" ->
                           [reading EXCEPT !.entry.steady = FALSE]
                    [] IsRead(f) /\ reading.at # "open" ->
                           [reading EXCEPT !.entry.steady = FALSE,
                                           !.bytes = content]
    /\ UNCHANGED <<clock, scan, snapshots>>

\* Another file, a directory or nothing takes its place: who has the file
\* open goes on reading the old one.
Replace(f, content) ==
    /\ Put(f, content)
    /\ reading' = IF IsRead(f) /\ reading.at = "open"
                    THEN [reading EXCEPT !.entry.steady = FALSE] ELSE reading
    /\ UNCHANGED <<clock, scan, snapshots>>

Tick ==
    /\ clock < MaxTime
    /\ clock' = clock + 1
    /\ UNCHANGED <<disk, changes, scan, reading, snapshots>>

Next ==
    \/ \E d \in Drives, mode \in {"none", "quick", "full"} : BeginScan(d, mode)
    \/ \E siblings \in SUBSET Files : siblings # {} /\ ListFolder(siblings)
    \/ \E f \in Files : InfoFails(f) \/ RecordUnhashed(f) \/ Stat(f)
    \/ OpenFile \/ ReadFirst \/ ReadLast \/ ReadBuffer \/ HashFails
    \/ Publish \/ Abandon
    \/ \E f \in Files :
           \/ \E content \in Contents : Overwrite(f, content)
           \/ \E content \in Contents \cup {Folder, NoFile} : Replace(f, content)
    \/ Tick

Spec == Init /\ [][Next]_vars

-----------------------------------------------------------------------------
(* Diff and Duplicates, as long as their answers do not reach the LIMIT.   *)

\* Mutant: hashes are compared whatever they are of.
ComparableAlways(h, k) == TRUE

\* Only two hashes of one algorithm say anything about each other.
Comparable(h, k) == h.algorithm = k.algorithm /\ h.algorithm # "none"

Differs(old, new) ==
    \/ old.kind # new.kind \/ old.size # new.size
    \/ old.modified # new.modified
    \/ Comparable(old.hash, new.hash) /\ old.hash # new.hash

Diff(old, new) ==
    [removed |-> DOMAIN old \ DOMAIN new,
     added   |-> DOMAIN new \ DOMAIN old,
     changed |-> {f \in DOMAIN old \cap DOMAIN new : Differs(old[f], new[f])}]

\* The latest snapshot of d, or 0.
Latest(d) ==
    LET of == {i \in DOMAIN snapshots : snapshots[i].drive = d}
    IN  IF of = {} THEN 0 ELSE CHOOSE i \in of : \A j \in of : j <= i

\* The files that drives D show, and the entries they show for them.
Shown(D) == UNION {DOMAIN snapshots[Latest(d)].tree : d \in {d \in D : Latest(d) # 0}}
Entry(f) == snapshots[Latest(f[1])].tree[f]

\* Mutant: a quick fingerprint is taken for a proof.
ProvesAny(entry) == entry.kind = "file" /\ entry.hash.algorithm # "none"

\* Only a hash of the whole content proves that files are the same.
Proves(entry) == entry.kind = "file" /\ entry.hash.algorithm = "sha256"

\* Mutant: copies on one drive do not count.
AlikeApart(f, g) ==
    /\ Entry(f).hash = Entry(g).hash /\ Entry(f).size = Entry(g).size
    /\ f = g \/ f[1] # g[1]

Alike(f, g) == Entry(f).hash = Entry(g).hash /\ Entry(f).size = Entry(g).size

\* The groups of files alike, on all drives or on the one that is asked for.
Duplicates(D) ==
    LET files     == {f \in Shown(D) : Entry(f).kind = "file"}
        GroupOf(f) == {g \in files : Alike(f, g)}
    IN  {G \in {GroupOf(f) : f \in {f \in files : Proves(Entry(f))}} :
            Cardinality(G) > 1}

Asked == {Drives} \cup {{d} : d \in Drives}

-----------------------------------------------------------------------------
(* Properties.                                                             *)

Entries == [kind : {"file", "directory"}, size : Nat, modified : 1 .. MaxTime,
            hash : [algorithm : {"none", "quick", "sha256"}, input : Seq(Nat)],
            held : Contents \cup {Folder}, steady : BOOLEAN]

IsTree(tree) == DOMAIN tree \subseteq Files /\ \A f \in DOMAIN tree : tree[f] \in Entries

\* Every scan is of a drive's own files, and every hash is of the kind that
\* the mode of its scan asks for.
TypeOK ==
    /\ disk \in [Files -> [holds : Contents \cup {Folder, NoFile},
                           modified : 1 .. MaxTime]]
    /\ clock \in 1 .. MaxTime /\ changes \in 0 .. MaxChanges
    /\ scan # NoScan =>
           /\ IsTree(scan.tree)
           /\ DOMAIN scan.tree \cup DOMAIN scan.listed \cup scan.left
                  \subseteq FilesOn(scan.drive)
           /\ \A f \in DOMAIN scan.tree : scan.tree[f].hash.algorithm \in
                  {"none", IF scan.mode = "full" THEN "sha256" ELSE scan.mode}
    /\ reading # NoReading => reading.file \in DOMAIN scan.listed
    /\ \A i \in DOMAIN snapshots : IsTree(snapshots[i].tree)

\* What the duplicates view calls copies were copies when they were scanned,
\* whatever modes the scans had and however the drives changed between them,
\* unless a file was written to while it was hashed (README.md: "Quick
\* fingerprints are never presented as proof").
DuplicatesAreCopies ==
    \A D \in Asked : \A G \in Duplicates(D) : \A f, g \in G :
        Entry(f).steady /\ Entry(g).steady => Entry(f).held = Entry(g).held

\* And it finds them all: any two steady files that full scans found equal, on
\* one drive or on two, are in one group.
CopiesAreFound ==
    \A D \in Asked : \A f, g \in Shown(D) :
        /\ f # g
        /\ \A h \in {f, g} : Entry(h).steady /\ Entry(h).hash.algorithm = "sha256"
        /\ Entry(f).held = Entry(g).held
        => \E G \in Duplicates(D) : {f, g} \subseteq G

Listed(diff) == diff.removed \cup diff.added \cup diff.changed

Ends(bytes) == <<SubSeq(bytes, 1, Sample),
                 SubSeq(bytes, Len(bytes) - Sample + 1, Len(bytes))>>

\* What a comparison of two snapshots leaves out has not changed, as far as
\* both scans hashed it: not at all for full hashes and for quick ones of files
\* no longer than two samples, and not at either end for quick ones of longer
\* files (docs/ARCHITECTURE.md, "Fingerprint semantics").
DiffMissesNothingHashed ==
    \A i, j \in DOMAIN snapshots : snapshots[i].drive = snapshots[j].drive =>
        LET old  == snapshots[i].tree
            new  == snapshots[j].tree
        IN  \A f \in (DOMAIN old \cup DOMAIN new) \ Listed(Diff(old, new)) :
                /\ f \in DOMAIN old \cap DOMAIN new
                /\ old[f].steady /\ new[f].steady
                   /\ old[f].hash.algorithm = new[f].hash.algorithm
                   /\ old[f].hash.algorithm # "none" =>
                      \/ old[f].held = new[f].held
                      \/ /\ old[f].hash.algorithm = "quick"
                         /\ old[f].size = new[f].size /\ old[f].size > 2 * Sample
                         /\ Ends(old[f].held) = Ends(new[f].held)

\* The entry says of its file what was so when Info was called: nobody wrote to
\* the file while it was hashed, and it was still what the listing said.
Truthful(entry) == entry.steady /\ entry.kind = KindOf(entry.held)

\* No false alarm: what it lists as changed held something else, or has another
\* time, also when the two scans hashed it in different ways; unless a folder
\* and a file took each other's place between the listing and the visit.
DiffListsOnlyChanges ==
    \A i, j \in DOMAIN snapshots : snapshots[i].drive = snapshots[j].drive =>
        LET old == snapshots[i].tree
            new == snapshots[j].tree
        IN  \A f \in Diff(old, new).changed :
                Truthful(old[f]) /\ Truthful(new[f]) =>
                    \/ old[f].held # new[f].held
                    \/ old[f].modified # new[f].modified
=============================================================================
