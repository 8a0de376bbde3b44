------------------------- MODULE FingerprintProofs --------------------------
(***************************************************************************)
(* Theorems about Fingerprints: what the duplicates view and a comparison  *)
(* of snapshots conclude is so, for any number of drives, files, scans and *)
(* changes, contents of any length, and any sizes of samples and buffers.  *)
(*                                                                         *)
(* TrueEntry says what the hash of an undisturbed entry is of; Reading     *)
(* says how much of it hashFile has at each of its reads; FInv puts them   *)
(* together.                                                               *)
(***************************************************************************)
EXTENDS Fingerprints, FiniteSetTheorems, SequenceTheorems, TLAPS

-----------------------------------------------------------------------------
(* What a hash is of.                                                      *)

FirstOf(b)  == SubSeq(b, 1, Smaller(Len(b), Sample))
LastFrom(n) == Larger(n - Sample, Sample)
LastOf(b)   == SubSeq(b, LastFrom(Len(b)) + 1, Len(b))

\* The input of the quick hash of a file that holds b.
QuickInput(b) ==
    IF HasLastSample(Len(b)) THEN (<<Len(b)>> \o FirstOf(b)) \o LastOf(b)
                             ELSE <<Len(b)>> \o FirstOf(b)

LEMMA PartOfBytes ==
    ASSUME NEW b \in Seq(Nat), NEW m \in Nat \ {0}, NEW n \in Int, n <= Len(b)
    PROVE  /\ SubSeq(b, m, n) \in Seq(Nat)
           /\ Len(SubSeq(b, m, n)) = IF m <= n THEN n - m + 1 ELSE 0
<1>1. \A i \in m .. n : b[i] \in Nat
  BY LenProperties
<1>2. QED
  BY <1>1, SubSeqProperties

LEMMA SamplesOf ==
    ASSUME NEW b \in Seq(Nat)
    PROVE  /\ Len(b) \in Nat /\ FirstOf(b) \in Seq(Nat) /\ LastOf(b) \in Seq(Nat)
           /\ <<Len(b)>> \in Seq(Nat) /\ <<Len(b)>> \o FirstOf(b) \in Seq(Nat)
           /\ Len(FirstOf(b)) = Smaller(Len(b), Sample)
           /\ QuickInput(b) \in Seq(Nat)
<1>1. Len(b) \in Nat /\ Smaller(Len(b), Sample) \in Nat /\ Smaller(Len(b), Sample) <= Len(b)
      /\ LastFrom(Len(b)) \in Nat
  BY SampleAssumption, LenProperties DEF Smaller, LastFrom, Larger
<1>2. FirstOf(b) \in Seq(Nat) /\ Len(FirstOf(b)) = Smaller(Len(b), Sample)
  BY <1>1, PartOfBytes DEF FirstOf
<1>3. LastOf(b) \in Seq(Nat)
  BY <1>1, PartOfBytes DEF LastOf
<1>4. <<Len(b)>> \in Seq(Nat)
  BY <1>1
<1>5. <<Len(b)>> \o FirstOf(b) \in Seq(Nat)
  BY <1>2, <1>4, ConcatProperties
<1>6. (<<Len(b)>> \o FirstOf(b)) \o LastOf(b) \in Seq(Nat)
  BY <1>3, <1>5, ConcatProperties
<1>7. QED
  BY <1>1, <1>2, <1>3, <1>4, <1>5, <1>6 DEF QuickInput

\* Two sequences that begin with parts of one length are equal only if the
\* parts are.
LEMMA PartsEqual ==
    ASSUME NEW s \in Seq(Nat), NEW t \in Seq(Nat), NEW u \in Seq(Nat), NEW v \in Seq(Nat),
           Len(s) = Len(t), s \o u = t \o v
    PROVE  s = t /\ u = v
<1>1. /\ Len(s) \in Nat /\ Len(u) \in Nat /\ Len(v) \in Nat
      /\ Len(s \o u) = Len(s) + Len(u) /\ Len(t \o v) = Len(t) + Len(v)
  BY LenProperties, ConcatProperties
<1>2. Len(u) = Len(v)
  BY <1>1
<1>3. ASSUME NEW i \in 1 .. Len(s) PROVE s[i] = t[i]
  <2>1. (s \o u)[i] = s[i]
    BY <1>1, ConcatProperties
  <2>2. (t \o v)[i] = t[i]
    BY <1>1, <1>2, ConcatProperties
  <2>3. QED
    BY <2>1, <2>2
<1>4. ASSUME NEW i \in 1 .. Len(u) PROVE u[i] = v[i]
  <2> DEFINE j == Len(s) + i
  <2>1. /\ j \in 1 .. Len(s) + Len(u) /\ j \in 1 .. Len(t) + Len(v)
        /\ ~(j <= Len(s)) /\ j - Len(s) = i
    BY <1>1, <1>2
  <2> HIDE DEF j
  <2>2. (s \o u)[j] = IF j <= Len(s) THEN s[j] ELSE u[j - Len(s)]
    BY <2>1, ConcatProperties
  <2>3. (t \o v)[j] = IF j <= Len(t) THEN t[j] ELSE v[j - Len(t)]
    BY <2>1, ConcatProperties
  <2>4. (s \o u)[j] = u[i] /\ (t \o v)[j] = v[i]
    BY <2>1, <2>2, <2>3
  <2>5. QED
    BY <2>4
<1>5. QED
  BY <1>2, <1>3, <1>4, SeqEqual

\* Files of one size and one quick hash are the same, or at least have the
\* same ends.
LEMMA QuickTells ==
    ASSUME NEW b \in Seq(Nat), NEW c \in Seq(Nat), Len(b) = Len(c),
           QuickInput(b) = QuickInput(c)
    PROVE  b = c \/ (Len(b) > 2 * Sample /\ Ends(b) = Ends(c))
<1> DEFINE n == Len(b)
<1>1. n \in Nat /\ Sample \in Nat \ {0}
  BY LenProperties, SampleAssumption
<1>2. /\ FirstOf(b) \in Seq(Nat) /\ LastOf(b) \in Seq(Nat)
      /\ FirstOf(c) \in Seq(Nat) /\ LastOf(c) \in Seq(Nat)
      /\ Len(FirstOf(b)) = Len(FirstOf(c))
      /\ <<n>> \in Seq(Nat) /\ Len(<<n>>) = 1
  BY SamplesOf
<1>3. /\ <<n>> \o FirstOf(b) \in Seq(Nat) /\ <<n>> \o FirstOf(c) \in Seq(Nat)
      /\ Len(<<n>> \o FirstOf(b)) = 1 + Len(FirstOf(b))
      /\ Len(<<n>> \o FirstOf(c)) = 1 + Len(FirstOf(c))
  BY <1>2, ConcatProperties
<1> DEFINE size == <<n>>
           fb == FirstOf(b)
           fc == FirstOf(c)
           lb == LastOf(b)
           lc == LastOf(c)
           sb == size \o fb
           sc == size \o fc
<1>4. sb = sc => fb = fc
  <2> HIDE DEF fb, fc, size
  <2>1. size \in Seq(Nat) /\ fb \in Seq(Nat) /\ fc \in Seq(Nat) /\ Len(size) = Len(size)
    BY <1>2 DEF fb, fc, size
  <2>2. QED
    BY <2>1, PartsEqual DEF sb, sc
<1>5. sb \o lb = sc \o lc => sb = sc /\ lb = lc
  <2>1. /\ sb \in Seq(Nat) /\ sc \in Seq(Nat) /\ lb \in Seq(Nat) /\ lc \in Seq(Nat)
        /\ Len(sb) = Len(sc)
    BY <1>2, <1>3
  <2> HIDE DEF sb, sc, lb, lc
  <2>2. QED
    BY <2>1, PartsEqual
<1>6. SubSeq(b, 1, n) = b /\ SubSeq(c, 1, n) = c
  BY SubSeqFull
<1>7. CASE ~HasLastSample(n)
  <2>1. <<n>> \o FirstOf(b) = <<n>> \o FirstOf(c)
    BY <1>7 DEF QuickInput
  <2>2. FirstOf(b) = FirstOf(c)
    BY <1>4, <2>1
  <2>3. Smaller(n, Sample) = n
    BY <1>1, <1>7 DEF HasLastSample, Smaller
  <2>4. QED
    BY <1>6, <2>2, <2>3 DEF FirstOf
<1>8. CASE HasLastSample(n)
  <2>1. (<<n>> \o FirstOf(b)) \o LastOf(b) = (<<n>> \o FirstOf(c)) \o LastOf(c)
    BY <1>8 DEF QuickInput
  <2>2. LastOf(b) = LastOf(c) /\ <<n>> \o FirstOf(b) = <<n>> \o FirstOf(c)
    BY <1>5, <2>1
  <2>3. FirstOf(b) = FirstOf(c)
    BY <1>4, <2>2
  <2>4. Smaller(n, Sample) = Sample /\ n > Sample
    BY <1>1, <1>8 DEF HasLastSample, Smaller
  <2>5. SubSeq(b, 1, Sample) = SubSeq(c, 1, Sample)
    BY <2>3, <2>4 DEF FirstOf
  <2>6. CASE n > 2 * Sample
    <3>1. LastFrom(n) = n - Sample
      BY <1>1, <2>6 DEF LastFrom, Larger
    <3>2. SubSeq(b, n - Sample + 1, n) = SubSeq(c, n - Sample + 1, n)
      BY <2>2, <3>1 DEF LastOf
    <3>3. QED
      BY <2>5, <2>6, <3>2 DEF Ends
  <2>7. CASE ~(n > 2 * Sample)
    <3>1. LastFrom(n) = Sample
      BY <1>1, <2>7 DEF LastFrom, Larger
    <3>2. SubSeq(b, Sample + 1, n) = SubSeq(c, Sample + 1, n)
      BY <2>2, <3>1 DEF LastOf
    <3>3. 1 \in 1 .. n + 1 /\ Sample \in 1 - 1 .. n /\ n \in Sample .. n
      BY <1>1, <2>4
    <3>4. /\ SubSeq(b, 1, Sample) \o SubSeq(b, Sample + 1, n) = SubSeq(b, 1, n)
          /\ SubSeq(c, 1, Sample) \o SubSeq(c, Sample + 1, n) = SubSeq(c, 1, n)
      BY <3>3, ConcatAdjacentSubSeq
    <3>5. QED
      BY <1>6, <2>5, <3>2, <3>4
  <2>8. QED
    BY <2>6, <2>7
<1>9. QED
  BY <1>7, <1>8

-----------------------------------------------------------------------------
(* The invariant.                                                          *)

Holdings   == [holds : Contents \cup {Folder, NoFile}, modified : 1 .. MaxTime]
HashValues == [algorithm : {"none", "quick", "sha256"}, input : Seq(Nat)]
Trees      == UNION {[S -> Entries] : S \in SUBSET Files}

\* What the hash of a file that held b is, if nobody wrote to it meanwhile.
TrueHash(hash, b) ==
    /\ hash.algorithm = "sha256" => hash.input = b
    /\ hash.algorithm = "quick"  => hash.input = QuickInput(b)

\* A path listed as a file may hold a directory when it is visited, and the
\* other way round.
TrueEntry(e) ==
    /\ e \in Entries
    /\ e.kind = "file" /\ e.held # Folder => e.size = Len(e.held)
    /\ e.kind = "directory" => e.size = 0
    /\ e.hash.algorithm # "none" =>
           e.kind = "file" /\ (e.steady => e.held # Folder)
    /\ e.steady => TrueHash(e.hash, e.held)

\* The only algorithm that the mode of a scan uses.
Algorithm(mode) == IF mode = "full" THEN "sha256" ELSE mode

ScanRecords == [drive : Drives, mode : {"none", "quick", "full"},
                left : SUBSET Files,
                listed : UNION {[S -> {"file", "directory"}] : S \in SUBSET Files},
                tree : Trees]

ScanKnows(sc) ==
    /\ sc \in ScanRecords
    /\ DOMAIN sc.tree \cup DOMAIN sc.listed \cup sc.left \subseteq FilesOn(sc.drive)
    /\ \A f \in DOMAIN sc.tree :
           /\ TrueEntry(sc.tree[f])
           /\ sc.tree[f].hash.algorithm \in {"none", Algorithm(sc.mode)}

OpenedReadings == [at : {"quick", "last", "full"}, file : Files, entry : Entries,
                   bytes : Contents, offset : Nat, input : Seq(Nat)]

\* hashFile before it has opened the file, and after.
Opening(r, holds) ==
    /\ r \in [at : {"open"}, file : Files, entry : Entries]
    /\ r.entry.steady => holds = r.entry.held

Reading(r, mode) ==
    /\ r \in OpenedReadings
    /\ r.at = "full" => mode = "full"
    /\ r.at \in {"quick", "last"} => mode = "quick"
    /\ r.entry.steady =>
           /\ r.bytes = r.entry.held
           /\ r.at = "quick" => r.input = <<r.entry.size>>
           /\ r.at = "last" =>
                  /\ HasLastSample(r.entry.size)
                  /\ r.offset = LastFrom(r.entry.size)
                  /\ r.input = <<r.entry.size>> \o FirstOf(r.entry.held)
           /\ r.at = "full" =>
                  /\ r.offset <= Len(r.bytes)
                  /\ r.input = SubSeq(r.bytes, 1, r.offset)

ReadingKnows(r, mode, holds) ==
    /\ TrueEntry(r.entry) /\ r.entry.kind = "file" /\ r.entry.hash = NoHash
    /\ mode # "none"
    /\ Opening(r, holds) \/ Reading(r, mode)

SnapshotRows == [drive : Drives, tree : Trees]

SnapshotKnows(s) ==
    /\ s \in SnapshotRows
    /\ DOMAIN s.tree \subseteq FilesOn(s.drive)
    /\ \A f \in DOMAIN s.tree : TrueEntry(s.tree[f])

\* Every drive that has a snapshot has a last one.
LastSnapshots(rows) ==
    \A d \in Drives :
        (\E i \in DOMAIN rows : rows[i].drive = d) =>
            \E i \in DOMAIN rows :
                rows[i].drive = d /\ \A j \in DOMAIN rows : rows[j].drive = d => j <= i

FInv ==
    /\ disk \in [Files -> Holdings]
    /\ clock \in 1 .. MaxTime /\ changes \in 0 .. MaxChanges
    /\ scan = NoScan \/ ScanKnows(scan)
    /\ \/ reading = NoReading
       \/ /\ scan # NoScan /\ reading.file \in DOMAIN scan.listed
          /\ ReadingKnows(reading, scan.mode, disk[reading.file].holds)
    /\ snapshots \in Seq(SnapshotRows) /\ LastSnapshots(snapshots)
    /\ \A i \in DOMAIN snapshots : SnapshotKnows(snapshots[i])

LEMMA InitFInv == ASSUME Init PROVE FInv
<1>1. disk \in [Files -> Holdings]
  BY HoldingAssumption, BoundsAssumption DEF Init, Holdings
<1>2. snapshots = <<>> /\ snapshots \in Seq(SnapshotRows) /\ DOMAIN snapshots = {}
  BY DEF Init
<1>3. QED
  BY <1>1, <1>2, BoundsAssumption DEF Init, FInv, LastSnapshots

LEMMA NoHashIsValue == NoHash \in HashValues /\ NoHash.algorithm = "none"
BY DEF NoHash, HashValues

Kinds == UNION {[S -> {"file", "directory"}] : S \in SUBSET Files}

\* What is known of the paths that are listed.
LEMMA ListedMeans ==
    ASSUME ScanKnows(scan)
    PROVE  /\ DOMAIN scan.listed \in SUBSET Files
           /\ \A f \in DOMAIN scan.listed : scan.listed[f] \in {"file", "directory"}
           /\ \A f \in Files : /\ ListedAfter(f) \in Kinds
                                 /\ DOMAIN ListedAfter(f) = DOMAIN scan.listed \ {f}
<1>1. PICK S \in SUBSET Files : scan.listed \in [S -> {"file", "directory"}]
  BY DEF ScanKnows, ScanRecords
<1>2. ASSUME NEW f \in Files
      PROVE  /\ ListedAfter(f) \in [S \ {f} -> {"file", "directory"}]
             /\ DOMAIN ListedAfter(f) = DOMAIN scan.listed \ {f}
  BY <1>1 DEF ListedAfter
<1>3. QED
  BY <1>1, <1>2 DEF Kinds

\* The walk goes on with the entry of f.
LEMMA YieldKnows ==
    ASSUME ScanKnows(scan), NEW f \in DOMAIN scan.listed, NEW e, TrueEntry(e),
           e.hash.algorithm \in {"none", Algorithm(scan.mode)}, Yield(f, e)
    PROVE  ScanKnows(scan')
<1> DEFINE tree == [g \in DOMAIN scan.tree \cup {f} |->
                       IF g = f THEN e ELSE scan.tree[g]]
           listed == ListedAfter(f)
<1>1. scan' = [scan EXCEPT !.listed = listed, !.tree = tree]
  BY DEF Yield, ScanKnows, ScanRecords
<1>2. /\ listed \in Kinds /\ DOMAIN listed = DOMAIN scan.listed \ {f} /\ f \in Files
  BY ListedMeans
<1>3. DOMAIN tree = DOMAIN scan.tree \cup {f} /\ DOMAIN tree \in SUBSET Files
  BY <1>2 DEF ScanKnows, ScanRecords, FilesOn
<1>4. \A g \in DOMAIN tree : /\ TrueEntry(tree[g])
                             /\ tree[g].hash.algorithm \in {"none", Algorithm(scan.mode)}
  BY <1>3 DEF ScanKnows
<1>5. tree \in [DOMAIN tree -> Entries]
  BY <1>3, <1>4 DEF TrueEntry
<1>6. tree \in Trees
  BY <1>3, <1>5 DEF Trees
<1>7. DOMAIN tree \cup DOMAIN listed \cup scan.left \subseteq FilesOn(scan.drive)
  BY <1>2, <1>3 DEF ScanKnows, ScanRecords
<1> HIDE DEF tree, listed
<1>8. /\ scan' \in ScanRecords /\ scan'.tree = tree /\ scan'.left = scan.left
      /\ scan'.listed = listed
      /\ scan'.drive = scan.drive /\ scan'.mode = scan.mode
  BY <1>1, <1>2, <1>6 DEF ScanKnows, ScanRecords, Kinds
<1>9. QED
  BY <1>4, <1>7, <1>8 DEF ScanKnows

\* What Info says is so at that moment.
LEMMA EntryOfTrue ==
    ASSUME FInv, NEW f \in Files, disk[f].holds # NoFile, ScanKnows(scan),
           f \in DOMAIN scan.listed
    PROVE  /\ TrueEntry(EntryOf(f)) /\ EntryOf(f).hash = NoHash
           /\ EntryOf(f).held = disk[f].holds
<1> DEFINE is == disk[f].holds
           kind == scan.listed[f]
           size == IF kind = "directory" THEN 0
                   ELSE IF is = Folder THEN FolderSize ELSE Len(is)
           modified == disk[f].modified
<1>1. disk[f] \in Holdings
  BY DEF FInv
<1>2. is \in Contents \cup {Folder} /\ modified \in 1 .. MaxTime
  BY <1>1 DEF Holdings
<1>3. is # Folder => is \in Seq(Nat) /\ Len(is) \in Nat
  BY <1>2, ContentAssumption, LenProperties
<1>4. NoHash \in HashValues /\ NoHash.algorithm = "none"
  BY NoHashIsValue
<1>5. size \in Nat /\ kind \in {"file", "directory"}
  BY <1>3, FolderAssumption, ListedMeans
<1>6. EntryOf(f) = [kind |-> kind, size |-> size, modified |-> modified, hash |-> NoHash,
                    held |-> is, steady |-> TRUE]
  BY DEF EntryOf
<1>7. /\ kind = "file" /\ is # Folder => size = Len(is)
      /\ kind = "directory" => size = 0
  OBVIOUS
<1> HIDE DEF is, size, kind, modified
<1>8. EntryOf(f) \in Entries
  BY <1>2, <1>4, <1>5, <1>6 DEF Entries, HashValues
<1>9. QED
  BY <1>4, <1>6, <1>7, <1>8 DEF TrueEntry, TrueHash, is

-----------------------------------------------------------------------------
(* The steps of the scan.                                                  *)

LEMMA BeginScanKnows ==
    ASSUME FInv, NEW d \in Drives, NEW mode \in {"none", "quick", "full"}, BeginScan(d, mode)
    PROVE  FInv'
<1> DEFINE empty == [f \in {} |-> NoFile]
           none == [f \in {} |-> "file"]
<1>1. empty \in [{} -> Entries] /\ DOMAIN empty = {}
      /\ none \in [{} -> {"file", "directory"}] /\ DOMAIN none = {}
  OBVIOUS
<1>2. empty \in Trees /\ none \in Kinds
  BY <1>1 DEF Trees, Kinds
<1>3. FilesOn(d) \in SUBSET Files
  BY DEF FilesOn
<1> HIDE DEF empty, none
<1>4. scan' = [drive |-> d, mode |-> mode, left |-> FilesOn(d), listed |-> none,
               tree |-> empty]
  BY DEF BeginScan, empty, none
<1>5. ScanKnows(scan')
  BY <1>1, <1>2, <1>3, <1>4 DEF ScanKnows, ScanRecords, Kinds
<1>6. reading = NoReading /\ UNCHANGED <<disk, clock, changes, reading, snapshots>>
  BY DEF BeginScan, FInv
<1>7. QED
  BY <1>5, <1>6 DEF FInv

LEMMA ListFolderKnows ==
    ASSUME FInv, NEW siblings \in SUBSET Files, ListFolder(siblings)
    PROVE  FInv'
<1> DEFINE found == {f \in siblings : disk[f].holds # NoFile}
           listed == [f \in DOMAIN scan.listed \cup found |->
                         IF f \in found THEN KindOf(disk[f].holds) ELSE scan.listed[f]]
           left == scan.left \ siblings
<1>1. /\ ScanKnows(scan) /\ reading = NoReading /\ siblings \subseteq scan.left
      /\ UNCHANGED <<disk, clock, changes, reading, snapshots>>
  BY DEF FInv, ListFolder
<1>2. scan' = [scan EXCEPT !.left = left, !.listed = listed]
  BY <1>1 DEF ListFolder, ScanKnows, ScanRecords
<1>3. /\ DOMAIN listed = DOMAIN scan.listed \cup found
      /\ DOMAIN listed \in SUBSET Files
      /\ \A f \in DOMAIN listed : listed[f] \in {"file", "directory"}
  BY <1>1, ListedMeans DEF KindOf
<1>4. listed \in [DOMAIN listed -> {"file", "directory"}]
  BY <1>3
<1>5. listed \in Kinds
  BY <1>3, <1>4 DEF Kinds
<1>6. /\ left \in SUBSET Files
      /\ DOMAIN scan.tree \cup DOMAIN listed \cup left \subseteq FilesOn(scan.drive)
  BY <1>1, <1>3 DEF ScanKnows, ScanRecords
<1> HIDE DEF listed, left
<1>7. /\ scan' \in ScanRecords /\ scan'.tree = scan.tree /\ scan'.left = left
      /\ scan'.listed = listed
      /\ scan'.drive = scan.drive /\ scan'.mode = scan.mode
  BY <1>1, <1>2, <1>5, <1>6 DEF ScanKnows, ScanRecords, Kinds
<1>8. ScanKnows(scan')
  BY <1>1, <1>6, <1>7 DEF ScanKnows
<1>9. QED
  BY <1>1, <1>8 DEF FInv

\* The walk has come to f, and nothing is being hashed.
LEMMA ComesMeans ==
    ASSUME FInv, NEW f \in Files, Comes(f)
    PROVE  scan # NoScan /\ ScanKnows(scan) /\ f \in DOMAIN scan.listed
           /\ reading = NoReading
BY DEF FInv, Comes

LEMMA InfoFailsKnows ==
    ASSUME FInv, NEW f \in Files, InfoFails(f) PROVE FInv'
<1>1. ScanKnows(scan) /\ reading = NoReading
  BY ComesMeans DEF InfoFails
<1> DEFINE listed == ListedAfter(f)
<1>2. scan' = [scan EXCEPT !.listed = listed]
      /\ UNCHANGED <<disk, clock, changes, reading, snapshots>>
  BY DEF InfoFails
<1>3. listed \in Kinds /\ DOMAIN listed = DOMAIN scan.listed \ {f}
  BY <1>1, ListedMeans
<1> HIDE DEF listed
<1>4. ScanKnows(scan')
  BY <1>1, <1>2, <1>3 DEF ScanKnows, ScanRecords, Kinds
<1>5. QED
  BY <1>1, <1>2, <1>4 DEF FInv

LEMMA RecordUnhashedKnows ==
    ASSUME FInv, NEW f \in Files, RecordUnhashed(f) PROVE FInv'
<1>1. ScanKnows(scan) /\ f \in DOMAIN scan.listed /\ reading = NoReading
  BY ComesMeans DEF RecordUnhashed
<1>2. /\ disk[f].holds # NoFile /\ Yield(f, EntryOf(f))
      /\ UNCHANGED <<disk, clock, changes, reading, snapshots>>
  BY DEF RecordUnhashed
<1>3. TrueEntry(EntryOf(f)) /\ EntryOf(f).hash.algorithm = "none"
  BY <1>1, <1>2, EntryOfTrue, NoHashIsValue
<1>4. ScanKnows(scan')
  BY <1>1, <1>2, <1>3, YieldKnows
<1>5. QED
  BY <1>1, <1>2, <1>4 DEF FInv

LEMMA StatKnows ==
    ASSUME FInv, NEW f \in Files, Stat(f) PROVE FInv'
<1>1. /\ scan # NoScan /\ ScanKnows(scan) /\ f \in DOMAIN scan.listed
      /\ reading = NoReading
  BY ComesMeans DEF Stat
<1>2. /\ disk[f].holds # NoFile /\ EntryOf(f).kind = "file" /\ scan.mode # "none"
      /\ UNCHANGED <<disk, clock, changes, scan, snapshots>>
  BY DEF Stat, Hashes
<1>3. /\ TrueEntry(EntryOf(f)) /\ EntryOf(f).hash = NoHash
      /\ EntryOf(f).held = disk[f].holds
  BY <1>1, <1>2, EntryOfTrue
<1> DEFINE e == EntryOf(f)
<1>4. reading' = [at |-> "open", file |-> f, entry |-> e]
  BY DEF Stat
<1> HIDE DEF e
<1>5. Opening(reading', disk[f].holds) /\ reading'.entry = e /\ reading'.file = f
  BY <1>3, <1>4 DEF Opening, TrueEntry, e
<1>6. ReadingKnows(reading', scan.mode, disk[f].holds)
  BY <1>2, <1>3, <1>5 DEF ReadingKnows, e
<1>7. QED
  BY <1>1, <1>2, <1>5, <1>6 DEF FInv

-----------------------------------------------------------------------------
(* The steps of hashFile.                                                  *)

LEMMA BeingRead ==
    ASSUME FInv, reading # NoReading
    PROVE  /\ scan # NoScan /\ ScanKnows(scan) /\ reading.file \in DOMAIN scan.listed
           /\ reading.file \in Files /\ scan.mode \in {"quick", "full"}
           /\ ReadingKnows(reading, scan.mode, disk[reading.file].holds)
           /\ reading.at = "open" => Opening(reading, disk[reading.file].holds)
           /\ reading.at # "open" => Reading(reading, scan.mode)
BY DEF FInv, ScanKnows, ScanRecords, ReadingKnows, Opening, Reading, OpenedReadings

\* The entry is stored with its hash.
LEMMA HashedKnows ==
    ASSUME FInv, reading # NoReading, NEW h \in HashValues,
           h.algorithm \in {"none", Algorithm(scan.mode)},
           reading.entry.steady => TrueHash(h, reading.entry.held),
           h.algorithm # "none" /\ reading.entry.steady => reading.entry.held # Folder,
           Hashed(h)
    PROVE  FInv'
<1> DEFINE r == reading.entry
           e == [r EXCEPT !.hash = h]
<1>1. /\ ScanKnows(scan) /\ reading.file \in DOMAIN scan.listed
      /\ TrueEntry(r) /\ r.kind = "file"
  BY BeingRead DEF ReadingKnows
<1>2. /\ e.kind = r.kind /\ e.held = r.held /\ e.size = r.size /\ e.steady = r.steady
      /\ e.hash = h /\ e \in Entries
  <2> HIDE DEF r
  <2>1. r \in Entries
    BY <1>1 DEF TrueEntry
  <2>2. QED
    BY <2>1 DEF Entries, HashValues
<1>3. /\ Yield(reading.file, e) /\ reading' = NoReading
      /\ UNCHANGED <<disk, clock, changes, snapshots>>
  BY DEF Hashed
<1> HIDE DEF e
<1>4. TrueEntry(e)
  BY <1>1, <1>2 DEF TrueEntry
<1>5. ScanKnows(scan')
  BY <1>1, <1>2, <1>3, <1>4, YieldKnows
<1>6. QED
  BY <1>3, <1>5 DEF FInv

LEMMA HashFailsKnows == ASSUME FInv, HashFails PROVE FInv'
<1>1. reading # NoReading /\ Hashed(NoHash)
  BY DEF HashFails
<1>2. TrueHash(NoHash, reading.entry.held)
  BY NoHashIsValue DEF TrueHash
<1>3. QED
  BY <1>1, <1>2, NoHashIsValue, HashedKnows

LEMMA OpenFileKnows == ASSUME FInv, OpenFile PROVE FInv'
<1>1. reading.at = "open" /\ reading # NoReading /\ disk[reading.file].holds \in Contents
      /\ UNCHANGED <<disk, clock, changes, scan, snapshots>>
  BY DEF OpenFile, NoReading
<1> DEFINE f == reading.file
           e == reading.entry
           bytes == disk[f].holds
           input == IF scan.mode = "quick" THEN <<e.size>> ELSE <<>>
           mode == scan.mode
<1>2. /\ scan # NoScan /\ f \in DOMAIN scan.listed /\ f \in Files /\ mode \in {"quick", "full"}
      /\ TrueEntry(e) /\ e.kind = "file" /\ e.hash = NoHash /\ e \in Entries
      /\ e.steady => bytes = e.held
  BY <1>1, BeingRead DEF ReadingKnows, Opening, TrueEntry
<1>3. reading' = [at |-> mode, file |-> f, entry |-> e, bytes |-> bytes,
                  offset |-> 0, input |-> input]
  BY DEF OpenFile
<1>4. e.size \in Nat /\ bytes \in Contents /\ bytes \in Seq(Nat) /\ Len(bytes) \in Nat
  BY <1>1, <1>2, ContentAssumption, LenProperties DEF Entries
<1>5. input \in Seq(Nat)
  BY <1>4
<1>6. SubSeq(bytes, 1, 0) = <<>>
  BY SubSeqEmpty
<1>7. mode = "quick" => input = <<e.size>>
  OBVIOUS
<1>8. mode = "full" => input = <<>>
  OBVIOUS
<1> HIDE DEF f, e, bytes, input, mode
<1>9. /\ reading' \in OpenedReadings /\ reading'.at = mode /\ reading'.file = f
      /\ reading'.entry = e /\ reading'.bytes = bytes /\ reading'.offset = 0
      /\ reading'.input = input
  BY <1>2, <1>3, <1>4, <1>5 DEF OpenedReadings
<1>10. Reading(reading', mode)
  <2>1. mode # "last" /\ (mode = "full" => input = SubSeq(bytes, 1, 0) /\ 0 <= Len(bytes))
    <3>1. mode = "full" => input = SubSeq(bytes, 1, 0)
      BY <1>6, <1>8
    <3>2. mode # "last"
      BY <1>2
    <3>3. 0 <= Len(bytes)
      BY <1>4
    <3>4. QED
      BY <3>1, <3>2, <3>3
  <2>2. e.steady => reading'.bytes = reading'.entry.held
    BY <1>2, <1>9
  <2>3. reading'.at = "quick" => reading'.input = <<reading'.entry.size>>
    BY <1>7, <1>9
  <2>4. reading'.at = "full" => /\ reading'.offset <= Len(reading'.bytes)
                                /\ reading'.input = SubSeq(reading'.bytes, 1, reading'.offset)
    BY <1>9, <2>1
  <2>5. reading'.at # "last" /\ reading'.at = mode
    BY <1>9, <2>1
  <2>6. QED
    BY <1>9, <2>2, <2>3, <2>4, <2>5 DEF Reading
<1>11. ReadingKnows(reading', mode, bytes)
  BY <1>2, <1>9, <1>10 DEF ReadingKnows
<1>12. QED
  BY <1>1, <1>2, <1>9, <1>11 DEF FInv, f, mode, bytes

\* What a read returns.
LEMMA BytesMeans ==
    ASSUME reading.bytes \in Seq(Nat), NEW from \in Nat, NEW n \in Nat
    PROVE  LET end == Smaller(from + n, Len(reading.bytes))
           IN  /\ Bytes(from, n) = SubSeq(reading.bytes, from + 1, end)
               /\ end \in Nat /\ end <= Len(reading.bytes) /\ Len(reading.bytes) \in Nat
               /\ Bytes(from, n) \in Seq(Nat)
               /\ Len(Bytes(from, n)) = IF from + 1 <= end THEN end - from ELSE 0
<1> DEFINE end == Smaller(from + n, Len(reading.bytes))
<1>1. Len(reading.bytes) \in Nat
  BY LenProperties
<1>2. end \in Nat /\ end <= Len(reading.bytes)
  BY <1>1 DEF Smaller
<1>3. Bytes(from, n) = SubSeq(reading.bytes, from + 1, end)
  BY DEF Bytes
<1> HIDE DEF end
<1>4. /\ SubSeq(reading.bytes, from + 1, end) \in Seq(Nat)
      /\ Len(SubSeq(reading.bytes, from + 1, end)) =
             IF from + 1 <= end THEN end - (from + 1) + 1 ELSE 0
  BY <1>2, PartOfBytes
<1>5. QED
  BY <1>1, <1>2, <1>3, <1>4 DEF end

\* The loop of hashFile goes on.
LEMMA ReadsOnKnows ==
    ASSUME FInv, reading # NoReading, reading.at # "open",
           NEW input \in Seq(Nat), NEW offset \in Nat, NEW at \in {"last", "full"},
           at = "full" <=> scan.mode = "full",
           reading.entry.steady =>
               /\ at = "last" =>
                      /\ HasLastSample(reading.entry.size)
                      /\ offset = LastFrom(reading.entry.size)
                      /\ input = <<reading.entry.size>> \o FirstOf(reading.entry.held)
               /\ at = "full" =>
                      /\ offset <= Len(reading.bytes)
                      /\ input = SubSeq(reading.bytes, 1, offset),
           ReadsOn(input, offset, at)
    PROVE  FInv'
<1>1. /\ scan # NoScan /\ scan.mode \in {"quick", "full"} /\ reading.file \in DOMAIN scan.listed
      /\ Reading(reading, scan.mode) /\ reading \in OpenedReadings
      /\ TrueEntry(reading.entry) /\ reading.entry.kind = "file"
      /\ reading.entry.hash = NoHash
  BY BeingRead DEF ReadingKnows, Reading
<1>2. reading' = [reading EXCEPT !.input = input, !.offset = offset, !.at = at]
      /\ UNCHANGED <<disk, clock, changes, scan, snapshots>>
  BY DEF ReadsOn
<1>3. /\ reading' \in OpenedReadings /\ reading'.at = at /\ reading'.file = reading.file
      /\ reading'.entry = reading.entry /\ reading'.bytes = reading.bytes
      /\ reading'.offset = offset /\ reading'.input = input
  BY <1>1, <1>2 DEF OpenedReadings
<1>4. Reading(reading', scan.mode)
  BY <1>1, <1>3 DEF Reading
<1>5. ReadingKnows(reading', scan.mode, disk[reading.file].holds)
  BY <1>1, <1>3, <1>4 DEF ReadingKnows
<1>6. QED
  BY <1>1, <1>2, <1>3, <1>5 DEF FInv

\* What is known of a file that is open.
LEMMA OpenedMeans ==
    ASSUME FInv, reading # NoReading, reading.at # "open"
    PROVE  /\ Reading(reading, scan.mode) /\ scan.mode \in {"quick", "full"}
           /\ reading.at = "full" <=> scan.mode = "full"
           /\ reading.bytes \in Seq(Nat) /\ reading.input \in Seq(Nat)
           /\ reading.offset \in Nat /\ reading.entry.size \in Nat
           /\ reading.entry.steady =>
                  /\ reading.bytes = reading.entry.held /\ reading.entry.held # Folder
                  /\ reading.entry.held \in Contents /\ reading.entry.held \in Seq(Nat)
                  /\ reading.entry.size = Len(reading.entry.held)
<1>1. Reading(reading, scan.mode) /\ scan.mode \in {"quick", "full"}
      /\ TrueEntry(reading.entry) /\ reading.entry.kind = "file"
  BY BeingRead DEF ReadingKnows
<1>2. reading \in OpenedReadings
  BY <1>1 DEF Reading
<1>3. reading.entry.size \in Nat
      /\ (reading.entry.held # Folder => reading.entry.size = Len(reading.entry.held))
  BY <1>1 DEF TrueEntry, Entries
<1>4. reading.at = "full" <=> scan.mode = "full"
  BY <1>1, <1>2 DEF Reading, OpenedReadings
<1>5. reading.bytes \in Contents /\ reading.input \in Seq(Nat) /\ reading.offset \in Nat
  BY <1>2 DEF OpenedReadings
<1>6. reading.entry.steady =>
          reading.bytes = reading.entry.held /\ reading.entry.held # Folder
  BY <1>1, <1>5, HoldingAssumption DEF Reading
<1>7. QED
  BY <1>1, <1>3, <1>4, <1>5, <1>6, ContentAssumption

LEMMA ReadFirstKnows == ASSUME FInv, ReadFirst PROVE FInv'
<1> DEFINE size == reading.entry.size
           b == reading.entry.held
           n == Smaller(size, Sample)
           first == Bytes(0, n)
           input == reading.input \o first
<1>1. reading.at = "quick" /\ reading # NoReading /\ reading.at # "open"
  BY DEF ReadFirst, NoReading
<1>2. /\ Reading(reading, scan.mode) /\ scan.mode = "quick"
      /\ reading.bytes \in Seq(Nat) /\ reading.input \in Seq(Nat)
      /\ size \in Nat
      /\ reading.entry.steady => b # Folder /\ b \in Seq(Nat) /\ size = Len(b)
  BY <1>1, OpenedMeans
<1>3. n \in Nat /\ n <= size /\ 0 + n = n
  BY <1>2, SampleAssumption DEF Smaller
<1>4. first \in Seq(Nat) /\ first = SubSeq(reading.bytes, 0 + 1, Smaller(0 + n, Len(reading.bytes)))
  BY <1>2, <1>3, BytesMeans
<1>5. input \in Seq(Nat)
  BY <1>2, <1>4, ConcatProperties
<1>6. ASSUME reading.entry.steady PROVE input = <<size>> \o FirstOf(b)
  <2>1. reading.bytes = b /\ reading.input = <<size>>
    BY <1>1, <1>2, <1>6 DEF Reading
  <2>2. Smaller(0 + n, Len(reading.bytes)) = n
    BY <1>2, <1>3, <1>6, <2>1 DEF Smaller
  <2>3. first = FirstOf(b)
    BY <1>2, <1>4, <1>6, <2>1, <2>2 DEF FirstOf
  <2>4. QED
    BY <2>1, <2>3
<1>7. CASE HasLastSample(size)
  <2>1. ReadsOn(input, Larger(size - Sample, Sample), "last")
    BY <1>7 DEF ReadFirst
  <2>2. Larger(size - Sample, Sample) \in Nat
    BY <1>2, SampleAssumption DEF Larger
  <2>3. Larger(size - Sample, Sample) = LastFrom(size)
    BY DEF LastFrom
  <2> HIDE DEF input, size, b
  <2>4. reading.entry.steady =>
            /\ HasLastSample(reading.entry.size)
            /\ Larger(size - Sample, Sample) = LastFrom(reading.entry.size)
            /\ input = <<reading.entry.size>> \o FirstOf(reading.entry.held)
    BY <1>6, <1>7, <2>3 DEF size, b
  <2>5. QED
    BY <1>1, <1>2, <1>5, <2>1, <2>2, <2>4, ReadsOnKnows
<1>8. CASE ~HasLastSample(size)
  <2>1. Hashed(QuickHash(input))
    BY <1>8 DEF ReadFirst
  <2> HIDE DEF input
  <2>2. /\ QuickHash(input) \in HashValues /\ QuickHash(input).algorithm = "quick"
        /\ QuickHash(input).input = input
    BY <1>5 DEF QuickHash, HashValues
  <2>3. reading.entry.steady => TrueHash(QuickHash(input), reading.entry.held)
    BY <1>2, <1>6, <1>8, <2>2 DEF TrueHash, QuickInput
  <2>4. QED
    BY <1>1, <1>2, <2>1, <2>2, <2>3, HashedKnows DEF Algorithm
<1>9. QED
  BY <1>7, <1>8

LEMMA ReadLastKnows == ASSUME FInv, ReadLast PROVE FInv'
<1> DEFINE size == reading.entry.size
           b == reading.entry.held
           last == Bytes(reading.offset, Len(reading.bytes))
           input == reading.input \o last
<1>1. reading.at = "last" /\ reading # NoReading /\ reading.at # "open"
  BY DEF ReadLast, NoReading
<1>2. /\ Reading(reading, scan.mode) /\ scan.mode = "quick"
      /\ reading.bytes \in Seq(Nat) /\ reading.input \in Seq(Nat) /\ reading.offset \in Nat
      /\ size \in Nat
      /\ reading.entry.steady => b # Folder /\ b \in Seq(Nat) /\ size = Len(b)
      /\ Len(reading.bytes) \in Nat
  BY <1>1, OpenedMeans, LenProperties
<1>3. last \in Seq(Nat) /\ last = SubSeq(reading.bytes, reading.offset + 1,
             Smaller(reading.offset + Len(reading.bytes), Len(reading.bytes)))
  BY <1>2, BytesMeans
<1>4. input \in Seq(Nat)
  BY <1>2, <1>3, ConcatProperties
<1>5. ASSUME reading.entry.steady PROVE input = QuickInput(b)
  <2>1. /\ reading.bytes = b /\ HasLastSample(size) /\ reading.offset = LastFrom(size)
        /\ reading.input = <<size>> \o FirstOf(b)
    BY <1>1, <1>2, <1>5 DEF Reading
  <2>2. Smaller(reading.offset + Len(b), Len(b)) = Len(b)
    BY <1>2, <2>1 DEF Smaller
  <2>3. last = LastOf(b)
    BY <1>2, <1>3, <1>5, <2>1, <2>2 DEF LastOf
  <2>4. QED
    BY <1>2, <1>5, <2>1, <2>3 DEF QuickInput
<1>6. Hashed(QuickHash(input))
  BY DEF ReadLast
<1> HIDE DEF input
<1>7. /\ QuickHash(input) \in HashValues /\ QuickHash(input).algorithm = "quick"
      /\ QuickHash(input).input = input
  BY <1>4 DEF QuickHash, HashValues
<1>8. reading.entry.steady => TrueHash(QuickHash(input), reading.entry.held)
  BY <1>5, <1>7 DEF TrueHash
<1>9. QED
  BY <1>1, <1>2, <1>6, <1>7, <1>8, HashedKnows DEF Algorithm

LEMMA ReadBufferKnows == ASSUME FInv, ReadBuffer PROVE FInv'
<1> DEFINE b == reading.entry.held
           o == reading.offset
           chunk == Bytes(o, Buffer)
           end == Smaller(o + Buffer, Len(reading.bytes))
<1>1. reading.at = "full" /\ reading # NoReading /\ reading.at # "open"
  BY DEF ReadBuffer, NoReading
<1>2. /\ Reading(reading, scan.mode) /\ scan.mode = "full"
      /\ reading.bytes \in Seq(Nat) /\ reading.input \in Seq(Nat) /\ o \in Nat
      /\ reading.entry.steady => b # Folder /\ b \in Seq(Nat)
      /\ Buffer \in Nat \ {0}
      /\ Len(reading.bytes) \in Nat
  BY <1>1, OpenedMeans, SampleAssumption, LenProperties
<1>3. /\ chunk = SubSeq(reading.bytes, o + 1, end) /\ chunk \in Seq(Nat)
      /\ end \in Nat /\ end <= Len(reading.bytes)
      /\ Len(chunk) = IF o + 1 <= end THEN end - o ELSE 0
  BY <1>2, BytesMeans
<1>4. reading.entry.steady =>
          /\ reading.bytes = b /\ o <= Len(b)
          /\ reading.input = SubSeq(b, 1, o)
  BY <1>1, <1>2 DEF Reading
<1>5. CASE chunk = <<>>
  <2>1. Hashed(FullHash(reading.input))
    BY <1>5 DEF ReadBuffer
  <2>2. /\ FullHash(reading.input) \in HashValues
        /\ FullHash(reading.input).algorithm = "sha256"
        /\ FullHash(reading.input).input = reading.input
    BY <1>2 DEF FullHash, HashValues
  <2>3. ASSUME reading.entry.steady PROVE reading.input = b
    <3>1. Len(chunk) = 0
      BY <1>5
    <3>2. ~(o + 1 <= end)
      BY <1>2, <1>3, <3>1
    <3>3. o = Len(b)
      BY <1>2, <1>4, <2>3, <3>2 DEF Smaller
    <3>4. QED
      BY <1>2, <1>4, <2>3, <3>3, SubSeqFull
  <2>4. reading.entry.steady => TrueHash(FullHash(reading.input), reading.entry.held)
    BY <2>2, <2>3 DEF TrueHash
  <2>5. QED
    BY <1>1, <1>2, <2>1, <2>2, <2>4, HashedKnows DEF Algorithm
<1>6. CASE chunk # <<>>
  <2> DEFINE input == reading.input \o chunk
             offset == o + Len(chunk)
  <2>1. ReadsOn(input, offset, "full")
    BY <1>6 DEF ReadBuffer
  <2>2. o + 1 <= end
    <3>1. Len(chunk) # 0
      BY <1>3, <1>6, EmptySeq
    <3>2. QED
      BY <1>3, <3>1
  <2>3. offset = end /\ offset \in Nat
    BY <1>2, <1>3, <2>2
  <2>4. input \in Seq(Nat)
    BY <1>2, <1>3, ConcatProperties
  <2>5. ASSUME reading.entry.steady
        PROVE  offset <= Len(reading.bytes) /\ input = SubSeq(reading.bytes, 1, offset)
    <3>1. 1 \in 1 .. Len(b) + 1 /\ o \in 1 - 1 .. Len(b) /\ end \in o .. Len(b)
      <4>1. o <= Len(b) /\ end <= Len(b) /\ Len(b) \in Nat
        BY <1>2, <1>3, <1>4, <2>5, LenProperties
      <4> HIDE DEF end, o, b
      <4>2. o \in Nat /\ end \in Nat
        BY <1>2, <1>3
      <4>3. QED
        BY <2>2, <4>1, <4>2
    <3>2. SubSeq(b, 1, o) \o SubSeq(b, o + 1, end) = SubSeq(b, 1, end)
      BY <1>2, <2>5, <3>1, ConcatAdjacentSubSeq
    <3>3. QED
      BY <1>3, <1>4, <2>3, <2>5, <3>2
  <2> HIDE DEF input, offset
  <2>6. QED
    BY <1>1, <1>2, <2>1, <2>3, <2>4, <2>5, ReadsOnKnows
<1>7. QED
  BY <1>5, <1>6

-----------------------------------------------------------------------------
(* The end of the scan, and the world.                                     *)

LEMMA PublishKnows == ASSUME FInv, Publish PROVE FInv'
<1> DEFINE row == [drive |-> scan.drive, tree |-> scan.tree]
           n == Len(snapshots) + 1
<1>1. /\ ScanKnows(scan) /\ reading = NoReading /\ snapshots' = Append(snapshots, row)
      /\ scan' = NoScan /\ UNCHANGED <<disk, clock, changes, reading>>
  BY DEF Publish, FInv
<1>2. row \in SnapshotRows /\ SnapshotKnows(row)
  BY <1>1 DEF ScanKnows, ScanRecords, SnapshotRows, SnapshotKnows
<1>3. snapshots \in Seq(SnapshotRows) /\ Len(snapshots) \in Nat
      /\ DOMAIN snapshots = 1 .. Len(snapshots)
  BY LenProperties DEF FInv
<1> HIDE DEF row
<1>4. /\ snapshots' \in Seq(SnapshotRows) /\ Len(snapshots') = n
      /\ \A i \in 1 .. Len(snapshots) : snapshots'[i] = snapshots[i]
      /\ snapshots'[n] = row
  BY <1>1, <1>2, <1>3, AppendProperties
<1>5. DOMAIN snapshots' = 1 .. n
  BY <1>4, LenProperties
<1>6. 1 .. n = (1 .. Len(snapshots)) \cup {n}
  BY <1>3
<1>7. \A i \in DOMAIN snapshots' : SnapshotKnows(snapshots'[i])
  BY <1>2, <1>3, <1>4, <1>5, <1>6 DEF FInv
<1>8. ASSUME NEW d \in Drives, NEW k \in DOMAIN snapshots', snapshots'[k].drive = d
      PROVE  \E i \in DOMAIN snapshots' : /\ snapshots'[i].drive = d
                 /\ \A j \in DOMAIN snapshots' : snapshots'[j].drive = d => j <= i
  <2>1. CASE row.drive = d
    <3>1. \A j \in 1 .. n : j <= n
      BY <1>3
    <3>2. n \in DOMAIN snapshots' /\ snapshots'[n].drive = d
      BY <1>4, <1>5, <1>6, <2>1
    <3>3. QED
      BY <1>5, <3>1, <3>2
  <2>2. CASE row.drive # d
    <3>1. k \in DOMAIN snapshots /\ snapshots[k].drive = d
      BY <1>3, <1>4, <1>5, <1>6, <1>8, <2>2
    <3>2. PICK i \in DOMAIN snapshots : /\ snapshots[i].drive = d
              /\ \A j \in DOMAIN snapshots : snapshots[j].drive = d => j <= i
      BY <3>1 DEF FInv, LastSnapshots
    <3>3. i \in DOMAIN snapshots' /\ snapshots'[i].drive = d
      BY <1>3, <1>4, <1>5, <1>6, <3>2
    <3>4. ASSUME NEW j \in DOMAIN snapshots', snapshots'[j].drive = d PROVE j <= i
      <4>1. j \in DOMAIN snapshots /\ snapshots[j].drive = d
        BY <1>3, <1>4, <1>5, <1>6, <2>2, <3>4
      <4>2. QED
        BY <3>2, <4>1
    <3>5. QED
      BY <3>3, <3>4
  <2>3. QED
    BY <2>1, <2>2
<1>9. LastSnapshots(snapshots')
  BY <1>8 DEF LastSnapshots
<1>10. QED
  BY <1>1, <1>4, <1>7, <1>9 DEF FInv

LEMMA AbandonKnows == ASSUME FInv, Abandon PROVE FInv'
BY DEF FInv, Abandon

\* A path is changed.
LEMMA PutMeans ==
    ASSUME FInv, NEW f \in Files, NEW content \in Contents \cup {Folder, NoFile},
           Put(f, content)
    PROVE  /\ disk' \in [Files -> Holdings] /\ changes' \in 0 .. MaxChanges
           /\ \A g \in Files : g # f => disk'[g] = disk[g]
<1>1. disk[f] \in Holdings /\ disk \in [Files -> Holdings]
  BY DEF FInv
<1>2. disk[f].modified \in 1 .. MaxTime /\ clock \in 1 .. MaxTime
  BY <1>1 DEF FInv, Holdings
<1>3. PICK at \in {clock, disk[f].modified} :
          disk' = [disk EXCEPT ![f] = [holds |-> content, modified |-> at]]
  BY DEF Put
<1>4. [holds |-> content, modified |-> at] \in Holdings
  BY <1>2 DEF Holdings
<1>5. changes' \in 0 .. MaxChanges
  BY BoundsAssumption DEF Put, FInv
<1>6. QED
  BY <1>1, <1>3, <1>4, <1>5

\* What is known of a hash is not about the other files.
LEMMA OtherFileChanged ==
    ASSUME FInv, NEW f \in Files, NEW content \in Contents \cup {Folder, NoFile},
           Put(f, content), reading' = reading, ~(IsRead(f) /\ reading.at = "open"),
           UNCHANGED <<clock, scan, snapshots>>
    PROVE  FInv'
<1>1. /\ disk' \in [Files -> Holdings] /\ changes' \in 0 .. MaxChanges
      /\ \A g \in Files : g # f => disk'[g] = disk[g]
  BY PutMeans
<1>2. ASSUME reading # NoReading
      PROVE  /\ scan # NoScan /\ reading.file \in DOMAIN scan.listed
             /\ ReadingKnows(reading, scan.mode, disk'[reading.file].holds)
  <2>1. /\ scan # NoScan /\ reading.file \in DOMAIN scan.listed /\ reading.file \in Files
        /\ ReadingKnows(reading, scan.mode, disk[reading.file].holds)
        /\ reading.at # "open" => Reading(reading, scan.mode)
    BY <1>2, BeingRead
  <2>2. CASE reading.at = "open"
    <3>1. reading.file # f
      BY <1>2, <2>2 DEF IsRead
    <3>2. QED
      BY <1>1, <2>1, <3>1
  <2>3. CASE reading.at # "open"
    BY <2>1, <2>3 DEF ReadingKnows
  <2>4. QED
    BY <2>1, <2>2, <2>3
<1>3. QED
  BY <1>1, <1>2 DEF FInv

\* From now on the hash need not be that of what the file held.
LEMMA UnsteadyTrue ==
    ASSUME NEW e, TrueEntry(e)
    PROVE  LET u == [e EXCEPT !.steady = FALSE]
           IN  /\ TrueEntry(u) /\ u.steady = FALSE /\ u.kind = e.kind /\ u.hash = e.hash
               /\ u \in Entries
<1> DEFINE u == [e EXCEPT !.steady = FALSE]
<1>1. e \in Entries
  BY DEF TrueEntry
<1>2. /\ u \in Entries /\ u.steady = FALSE /\ u.kind = e.kind /\ u.hash = e.hash
      /\ u.held = e.held /\ u.size = e.size
  BY <1>1 DEF Entries
<1> HIDE DEF u
<1>3. TrueEntry(u)
  BY <1>2 DEF TrueEntry
<1>4. QED
  BY <1>2, <1>3 DEF u

LEMMA WrittenWhileRead ==
    ASSUME FInv, NEW f \in Files, NEW content \in Contents \cup {Folder, NoFile},
           Put(f, content), IsRead(f), UNCHANGED <<clock, scan, snapshots>>,
           \/ /\ reading.at = "open"
              /\ reading' = [reading EXCEPT !.entry.steady = FALSE]
           \/ /\ reading.at # "open" /\ content \in Contents
              /\ reading' = [reading EXCEPT !.entry.steady = FALSE, !.bytes = content]
    PROVE  FInv'
<1> DEFINE e == reading.entry
           u == [e EXCEPT !.steady = FALSE]
<1>1. /\ disk' \in [Files -> Holdings] /\ changes' \in 0 .. MaxChanges
  BY PutMeans
<1>2. /\ scan # NoScan /\ reading.file \in DOMAIN scan.listed /\ scan.mode \in {"quick", "full"}
      /\ TrueEntry(e) /\ e.kind = "file" /\ e.hash = NoHash
      /\ reading.at = "open" => Opening(reading, disk[reading.file].holds)
      /\ reading.at # "open" => Reading(reading, scan.mode)
      /\ reading # NoReading
  BY BeingRead DEF ReadingKnows, IsRead
<1>3. TrueEntry(u) /\ u.steady = FALSE /\ u.kind = "file" /\ u.hash = NoHash /\ u \in Entries
  BY <1>2, UnsteadyTrue
<1>4. reading.at = "open" => reading' = [reading EXCEPT !.entry = u]
  BY <1>2 DEF Opening
<1>5. reading.at # "open" => /\ content \in Contents
                             /\ reading' = [reading EXCEPT !.entry = u, !.bytes = content]
  BY <1>2 DEF Reading, OpenedReadings
<1> HIDE DEF u, e
<1>6. /\ Opening(reading', disk'[reading.file].holds) \/ Reading(reading', scan.mode)
      /\ reading'.entry = u /\ reading'.file = reading.file
  <2>1. CASE reading.at = "open"
    <3>1. reading \in [at : {"open"}, file : Files, entry : Entries]
      BY <1>2, <2>1 DEF Opening
    <3>2. /\ reading' \in [at : {"open"}, file : Files, entry : Entries]
          /\ reading'.entry = u /\ reading'.file = reading.file
      BY <1>3, <1>4, <2>1, <3>1
    <3>3. QED
      BY <1>3, <3>2 DEF Opening
  <2>2. CASE reading.at # "open"
    <3>1. reading \in OpenedReadings /\ Reading(reading, scan.mode)
      BY <1>2, <2>2 DEF Reading
    <3>2. /\ reading' \in OpenedReadings /\ reading'.at = reading.at
          /\ reading'.entry = u /\ reading'.file = reading.file
      BY <1>3, <1>5, <2>2, <3>1 DEF OpenedReadings
    <3>3. QED
      BY <1>3, <3>1, <3>2 DEF Reading
  <2>3. QED
    BY <2>1, <2>2
<1>7. ReadingKnows(reading', scan.mode, disk'[reading.file].holds)
  BY <1>2, <1>3, <1>6 DEF ReadingKnows
<1>8. QED
  BY <1>1, <1>2, <1>6, <1>7 DEF FInv

LEMMA OverwriteKnows ==
    ASSUME FInv, NEW f \in Files, NEW content \in Contents, Overwrite(f, content)
    PROVE  FInv'
<1>1. Put(f, content) /\ UNCHANGED <<clock, scan, snapshots>>
  BY DEF Overwrite
<1>2. CASE ~IsRead(f)
  BY <1>1, <1>2, OtherFileChanged DEF Overwrite
<1>3. CASE IsRead(f)
  BY <1>1, <1>3, WrittenWhileRead DEF Overwrite
<1>4. QED
  BY <1>2, <1>3

LEMMA ReplaceKnows ==
    ASSUME FInv, NEW f \in Files, NEW content \in Contents \cup {Folder, NoFile},
           Replace(f, content)
    PROVE  FInv'
<1>1. Put(f, content) /\ UNCHANGED <<clock, scan, snapshots>>
  BY DEF Replace
<1>2. CASE IsRead(f) /\ reading.at = "open"
  BY <1>1, <1>2, WrittenWhileRead DEF Replace
<1>3. CASE ~(IsRead(f) /\ reading.at = "open")
  BY <1>1, <1>3, OtherFileChanged DEF Replace
<1>4. QED
  BY <1>2, <1>3

LEMMA NextFInv == ASSUME FInv, [Next]_vars PROVE FInv'
<1>1. ASSUME NEW d \in Drives, NEW mode \in {"none", "quick", "full"}, BeginScan(d, mode)
      PROVE  FInv'
  BY <1>1, BeginScanKnows
<1>2. ASSUME NEW f \in Files, InfoFails(f) \/ RecordUnhashed(f) \/ Stat(f) PROVE FInv'
  BY <1>2, InfoFailsKnows, RecordUnhashedKnows, StatKnows
<1>3. CASE OpenFile \/ HashFails
  BY <1>3, OpenFileKnows, HashFailsKnows
<1>4. CASE ReadFirst \/ ReadLast \/ ReadBuffer
  BY <1>4, ReadFirstKnows, ReadLastKnows, ReadBufferKnows
<1>5. CASE Publish \/ Abandon
  BY <1>5, PublishKnows, AbandonKnows
<1>6. ASSUME NEW f \in Files, NEW content \in Contents, Overwrite(f, content) PROVE FInv'
  BY <1>6, OverwriteKnows
<1>7. ASSUME NEW f \in Files, NEW content \in Contents \cup {Folder, NoFile},
             Replace(f, content)
      PROVE  FInv'
  BY <1>7, ReplaceKnows
<1>8. CASE Tick
  BY <1>8, BoundsAssumption DEF Tick, FInv
<1>9. CASE UNCHANGED vars
  BY <1>9 DEF FInv, vars
<1>10. ASSUME NEW siblings \in SUBSET Files, ListFolder(siblings) PROVE FInv'
  BY <1>10, ListFolderKnows
<1>11. QED
  BY <1>1, <1>2, <1>3, <1>4, <1>5, <1>6, <1>7, <1>8, <1>9, <1>10 DEF Next

-----------------------------------------------------------------------------
(* The theorems.                                                           *)

\* Whatever happens to files while they are hashed, an entry that nobody
\* disturbed has the hash of what its file held (hashFile).
THEOREM Invariance == Spec => []FInv
<1>1. Init => FInv
  BY InitFInv
<1>2. FInv /\ [Next]_vars => FInv'
  BY NextFInv
<1>3. QED
  BY <1>1, <1>2, PTL DEF Spec

\* Every scan is of a drive's own files, and every hash is of the kind that
\* the mode of its scan asks for (the callback of Scan).
THEOREM TypeCorrect == Spec => []TypeOK
<1>1. ASSUME FInv PROVE TypeOK
  <2>1. ASSUME scan # NoScan
        PROVE  /\ IsTree(scan.tree)
               /\ DOMAIN scan.tree \cup DOMAIN scan.listed \cup scan.left
                      \subseteq FilesOn(scan.drive)
               /\ \A f \in DOMAIN scan.tree : scan.tree[f].hash.algorithm \in
                      {"none", IF scan.mode = "full" THEN "sha256" ELSE scan.mode}
    <3>1. ScanKnows(scan)
      BY <1>1, <2>1 DEF FInv
    <3>2. QED
      BY <3>1 DEF ScanKnows, IsTree, TrueEntry, Algorithm, FilesOn
  <2>2. reading # NoReading => reading.file \in DOMAIN scan.listed
    BY <1>1 DEF FInv
  <2>3. \A i \in DOMAIN snapshots : IsTree(snapshots[i].tree)
    BY <1>1 DEF FInv, SnapshotKnows, IsTree, TrueEntry, FilesOn
  <2>4. QED
    BY <1>1, <2>1, <2>2, <2>3 DEF TypeOK, FInv, Holdings
<1>2. QED
  BY <1>1, Invariance, PTL

LEMMA LatestMeans ==
    ASSUME FInv, NEW d \in Drives, Latest(d) # 0
    PROVE  Latest(d) \in DOMAIN snapshots /\ snapshots[Latest(d)].drive = d
<1> DEFINE of == {i \in DOMAIN snapshots : snapshots[i].drive = d}
<1>1. of # {} /\ Latest(d) = CHOOSE i \in of : \A j \in of : j <= i
  BY DEF Latest
<1>2. \E i \in of : \A j \in of : j <= i
  BY <1>1 DEF FInv, LastSnapshots
<1> DEFINE L == CHOOSE i \in of : \A j \in of : j <= i
<1>3. L \in of
  BY <1>2
<1>4. Latest(d) = L
  BY <1>1
<1> HIDE DEF L
<1>5. QED
  BY <1>3, <1>4

LEMMA AskedMeans == ASSUME NEW D \in Asked PROVE D \subseteq Drives
BY DEF Asked

LEMMA ShownMeans ==
    ASSUME FInv, NEW D, D \subseteq Drives, NEW f \in Shown(D)
    PROVE  f \in Files /\ TrueEntry(Entry(f))
<1>1. PICK d \in D : Latest(d) # 0 /\ f \in DOMAIN snapshots[Latest(d)].tree
  BY DEF Shown
<1>2. Latest(d) \in DOMAIN snapshots /\ snapshots[Latest(d)].drive = d
  BY <1>1, LatestMeans
<1>3. SnapshotKnows(snapshots[Latest(d)])
  BY <1>2 DEF FInv
<1>4. f \in FilesOn(d)
  BY <1>1, <1>2, <1>3 DEF SnapshotKnows
<1>5. f \in Files /\ f[1] = d
  BY <1>4 DEF FilesOn
<1>6. QED
  BY <1>1, <1>3, <1>5 DEF SnapshotKnows, Entry

\* What the duplicates view calls copies held the same bytes when they were
\* scanned, whatever happened before, between and after the scans
\* (Catalog.Duplicates and hashFile).
THEOREM CopiesAreTrue == Spec => []DuplicatesAreCopies
<1>1. ASSUME FInv PROVE DuplicatesAreCopies
  <2>1. ASSUME NEW D \in Asked, NEW G \in Duplicates(D), NEW f \in G, NEW g \in G,
               Entry(f).steady, Entry(g).steady
        PROVE  Entry(f).held = Entry(g).held
    <3> DEFINE files == {x \in Shown(D) : Entry(x).kind = "file"}
               GroupOf(x) == {y \in files : Alike(x, y)}
    <3>1. PICK x \in files : Proves(Entry(x)) /\ G = GroupOf(x)
      BY <2>1 DEF Duplicates
    <3>2. /\ f \in Shown(D) /\ g \in Shown(D)
          /\ Entry(f).hash = Entry(x).hash /\ Entry(g).hash = Entry(x).hash
          /\ Entry(x).hash.algorithm = "sha256"
      BY <2>1, <3>1 DEF Alike, Proves
    <3>3. TrueEntry(Entry(f)) /\ TrueEntry(Entry(g))
      BY <1>1, <3>2, AskedMeans, ShownMeans
    <3>4. QED
      BY <2>1, <3>2, <3>3 DEF TrueEntry, TrueHash
  <2>2. QED
    BY <2>1 DEF DuplicatesAreCopies
<1>2. QED
  BY <1>1, Invariance, PTL

\* Any two files that full scans found equal are in one group of the
\* duplicates view, of one drive or of all (Catalog.Duplicates).
THEOREM AllCopiesFound == Spec => []CopiesAreFound
<1>1. ASSUME FInv PROVE CopiesAreFound
  <2>1. ASSUME NEW D \in Asked, NEW f \in Shown(D), NEW g \in Shown(D), f # g,
               \A h \in {f, g} : Entry(h).steady /\ Entry(h).hash.algorithm = "sha256",
               Entry(f).held = Entry(g).held
        PROVE  \E G \in Duplicates(D) : {f, g} \subseteq G
    <3> DEFINE files == {x \in Shown(D) : Entry(x).kind = "file"}
               GroupOf(x) == {y \in files : Alike(x, y)}
               G == GroupOf(f)
    <3>1. TrueEntry(Entry(f)) /\ TrueEntry(Entry(g))
      BY <1>1, <2>1, AskedMeans, ShownMeans
    <3>2. /\ Entry(f).kind = "file" /\ Entry(g).kind = "file"
          /\ Entry(f).held # Folder /\ Entry(g).held # Folder
          /\ Entry(f).size = Entry(g).size
          /\ Entry(f).hash.input = Entry(g).hash.input
      BY <2>1, <3>1 DEF TrueEntry, TrueHash
    <3>3. Entry(f).hash = Entry(g).hash
      <4>1. Entry(f).hash \in HashValues /\ Entry(g).hash \in HashValues
        BY <3>1 DEF TrueEntry, Entries, HashValues
      <4>2. QED
        BY <2>1, <3>2, <4>1 DEF HashValues
    <3>4. f \in files /\ {f, g} \subseteq G
      BY <3>2, <3>3 DEF Alike
    <3>5. G \subseteq Files
      BY <1>1, AskedMeans, ShownMeans
    <3>6. Cardinality(G) > 1
      <4>1. IsFiniteSet(G) /\ Cardinality(G) \in Nat
        BY <3>5, FilesAssumption, FS_Subset, FS_CardinalityType
      <4>2. Cardinality({f, g}) = 2
        <5>1. IsFiniteSet({f}) /\ Cardinality({f}) = 1
          BY FS_Singleton
        <5>2. {f, g} = {f} \cup {g} /\ g \notin {f}
          BY <2>1
        <5>3. Cardinality({f} \cup {g}) = Cardinality({f}) + 1
          BY <5>1, <5>2, FS_AddElement
        <5>4. QED
          BY <5>1, <5>2, <5>3
      <4> HIDE DEF G
      <4>3. Cardinality({f, g}) <= Cardinality(G)
        BY <3>4, <4>1, FS_Subset
      <4>4. QED
        BY <4>1, <4>2, <4>3
    <3>7. G \in Duplicates(D)
      BY <2>1, <3>2, <3>4, <3>6 DEF Duplicates, Proves
    <3>8. QED
      BY <3>4, <3>7
  <2>2. QED
    BY <2>1 DEF CopiesAreFound
<1>2. QED
  BY <1>1, Invariance, PTL

\* What a comparison of two snapshots leaves out has not changed as far as
\* both scans hashed it (Catalog.Diff and both branches of hashFile).
THEOREM DiffIsComplete == Spec => []DiffMissesNothingHashed
<1>1. ASSUME FInv PROVE DiffMissesNothingHashed
  <2>1. ASSUME NEW i \in DOMAIN snapshots, NEW j \in DOMAIN snapshots,
               NEW f \in (DOMAIN snapshots[i].tree \cup DOMAIN snapshots[j].tree)
                             \ Listed(Diff(snapshots[i].tree, snapshots[j].tree))
        PROVE  LET old == snapshots[i].tree
                   new == snapshots[j].tree
               IN  /\ f \in DOMAIN old \cap DOMAIN new
                   /\ old[f].steady /\ new[f].steady
                      /\ old[f].hash.algorithm = new[f].hash.algorithm
                      /\ old[f].hash.algorithm # "none" =>
                         \/ old[f].held = new[f].held
                         \/ /\ old[f].hash.algorithm = "quick"
                            /\ old[f].size = new[f].size /\ old[f].size > 2 * Sample
                            /\ Ends(old[f].held) = Ends(new[f].held)
    <3> DEFINE old == snapshots[i].tree
               new == snapshots[j].tree
    <3>1. f \in DOMAIN old /\ f \in DOMAIN new /\ ~Differs(old[f], new[f])
      BY <2>1 DEF Listed, Diff
    <3>2. TrueEntry(old[f]) /\ TrueEntry(new[f])
      BY <1>1, <3>1 DEF FInv, SnapshotKnows
    <3>3. ASSUME old[f].steady, new[f].steady,
                 old[f].hash.algorithm = new[f].hash.algorithm,
                 old[f].hash.algorithm # "none"
          PROVE  \/ old[f].held = new[f].held
                 \/ /\ old[f].hash.algorithm = "quick"
                    /\ old[f].size = new[f].size /\ old[f].size > 2 * Sample
                    /\ Ends(old[f].held) = Ends(new[f].held)
      <4> DEFINE b == old[f].held
                 c == new[f].held
      <4>1. old[f].hash = new[f].hash /\ old[f].size = new[f].size
        BY <3>1, <3>3 DEF Differs, Comparable
      <4>2. /\ b \in Contents /\ c \in Contents /\ b # Folder /\ c # Folder
            /\ old[f].size = Len(b) /\ new[f].size = Len(c)
            /\ TrueHash(old[f].hash, b) /\ TrueHash(new[f].hash, c)
            /\ old[f].hash.algorithm \in {"quick", "sha256"}
        BY <3>2, <3>3 DEF TrueEntry, Entries
      <4>3. CASE old[f].hash.algorithm = "sha256"
        BY <4>1, <4>2, <4>3 DEF TrueHash
      <4>4. CASE old[f].hash.algorithm = "quick"
        <5>1. QuickInput(b) = QuickInput(c) /\ Len(b) = Len(c)
          BY <4>1, <4>2, <4>4 DEF TrueHash
        <5>2. b \in Seq(Nat) /\ c \in Seq(Nat)
          BY <4>2, ContentAssumption
        <5>3. b = c \/ (Len(b) > 2 * Sample /\ Ends(b) = Ends(c))
          BY <5>1, <5>2, QuickTells
        <5>4. QED
          BY <4>1, <4>2, <4>4, <5>3
      <4>5. QED
        BY <4>2, <4>3, <4>4
    <3>4. QED
      BY <3>1, <3>3
  <2>2. QED
    BY <2>1 DEF DiffMissesNothingHashed
<1>2. QED
  BY <1>1, Invariance, PTL

\* A comparison raises no false alarm, also between scans of different modes:
\* what it lists as changed held something else or has another time, unless it
\* was a file in the listing and a folder at the visit, or the other way round
\* (Catalog.Diff, the callback of Scan).
THEOREM DiffIsHonest == Spec => []DiffListsOnlyChanges
<1>1. ASSUME FInv PROVE DiffListsOnlyChanges
  <2>1. ASSUME NEW i \in DOMAIN snapshots, NEW j \in DOMAIN snapshots,
               NEW f \in Diff(snapshots[i].tree, snapshots[j].tree).changed,
               Truthful(snapshots[i].tree[f]), Truthful(snapshots[j].tree[f]),
               snapshots[i].tree[f].held = snapshots[j].tree[f].held
        PROVE  snapshots[i].tree[f].modified # snapshots[j].tree[f].modified
    <3> DEFINE old == snapshots[i].tree[f]
               new == snapshots[j].tree[f]
    <3>1. Differs(old, new) /\ TrueEntry(old) /\ TrueEntry(new)
      BY <1>1, <2>1 DEF Diff, FInv, SnapshotKnows
    <3>2. old.kind \in {"file", "directory"} /\ new.kind \in {"file", "directory"}
          /\ old.hash \in HashValues /\ new.hash \in HashValues
      BY <3>1 DEF TrueEntry, Entries, HashValues
    <3>3. old.kind = new.kind /\ old.size = new.size
      BY <2>1, <3>1, <3>2 DEF TrueEntry, Truthful, KindOf
    <3>4. Comparable(old.hash, new.hash) => old.hash = new.hash
      <4>1. TrueHash(old.hash, old.held) /\ TrueHash(new.hash, old.held)
        BY <2>1, <3>1 DEF TrueEntry, Truthful
      <4> HIDE DEF old, new
      <4>2. QED
        BY <3>2, <4>1 DEF Comparable, TrueHash, HashValues
    <3>5. QED
      BY <3>1, <3>3, <3>4 DEF Differs
  <2>2. QED
    BY <2>1 DEF DiffListsOnlyChanges
<1>2. QED
  BY <1>1, Invariance, PTL
=============================================================================
