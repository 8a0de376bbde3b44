---------------------------- MODULE CommandProofs ----------------------------
(***************************************************************************)
(* Proofs about Scanner and EFU, and about Commands, in which they run:    *)
(* for every tree, every set of patterns, every list and every failure.    *)
(*                                                                         *)
(* Scanner.  The recursion of WalkDir is what makes its properties         *)
(* inductive.  Each call in todo covers a part of the tree (Covers), no    *)
(* two calls the same item; handling a call passes what it covers on to    *)
(* the calls that replace it, records it, or reports a path above it       *)
(* (CallDone).                                                             *)
(*                                                                         *)
(* EFU.  Its entries are those of the items read so far, in order (EfuInv) *)
(* because what the code makes of a path, token by token, is the path of   *)
(* the names that the list gives (ItemHasPath).  Those facts are of texts  *)
(* of any length, by induction on them: SequenceInduction.                 *)
(***************************************************************************)
EXTENDS Commands, FiniteSetTheorems, SequenceTheorems, WellFoundedInduction, TLAPS

-----------------------------------------------------------------------------
(* Paths.                                                                  *)

Segments == Seq(STRING)

LEMMA PathsAreSegments == Paths \subseteq Segments /\ Root \in Segments
<1>1. ASSUME NEW d \in Directories PROVE ToSet(Listing[d]) \subseteq Segments
  BY TreeAssumption DEF ToSet, Segments
<1>2. QED
  BY <1>1 DEF Paths, Root, Segments

LEMMA BeneathMeans ==
    ASSUME NEW p \in Segments, NEW q \in Segments
    PROVE  Beneath(p, q) <=> /\ Len(q) <= Len(p)
                             /\ \A i \in 1 .. Len(q) : q[i] = p[i]
<1>1. CASE Len(q) <= Len(p)
  <2>1. /\ SubSeq(q, 1, Len(q)) \in Segments /\ SubSeq(p, 1, Len(q)) \in Segments
        /\ Len(SubSeq(q, 1, Len(q))) = Len(q) /\ Len(SubSeq(p, 1, Len(q))) = Len(q)
        /\ \A i \in 1 .. Len(q) : SubSeq(q, 1, Len(q))[i] = q[i]
                                  /\ SubSeq(p, 1, Len(q))[i] = p[i]
    BY <1>1 DEF Segments
  <2>2. SubSeq(q, 1, Len(q)) = SubSeq(p, 1, Len(q))
            <=> \A i \in 1 .. Len(q) : q[i] = p[i]
    BY <2>1, SeqEqual DEF Segments
  <2>3. QED
    BY <1>1, <2>2 DEF Beneath, IsPrefix
<1>2. CASE ~(Len(q) <= Len(p))
  BY <1>2 DEF Beneath, IsPrefix
<1>3. QED
  BY <1>1, <1>2

LEMMA BeneathOrder ==
    ASSUME NEW p \in Segments, NEW q \in Segments, NEW r \in Segments
    PROVE  /\ Beneath(p, p) /\ Beneath(p, Root)
           /\ Beneath(p, q) /\ Beneath(q, r) => Beneath(p, r)
           /\ Beneath(p, q) /\ Beneath(p, r) /\ Len(q) = Len(r) => q = r
           /\ Beneath(p, q) /\ Len(p) = Len(q) => p = q
<1>1. Root \in Segments /\ Len(Root) = 0
  BY DEF Root, Segments
<1>2. Beneath(p, p) /\ Beneath(p, Root)
  <2>1. Len(p) \in Nat /\ Len(p) <= Len(p)
    BY DEF Segments
  <2>2. Beneath(p, p)
    BY <2>1, BeneathMeans
  <2>3. Len(Root) <= Len(p) /\ \A i \in 1 .. Len(Root) : Root[i] = p[i]
    BY <1>1, <2>1
  <2>4. QED
    BY <1>1, <2>2, <2>3, BeneathMeans
<1>6. Beneath(p, q) /\ Beneath(q, r) => Beneath(p, r)
  <2> SUFFICES ASSUME Beneath(p, q), Beneath(q, r) PROVE Beneath(p, r)
    OBVIOUS
  <2>1. /\ Len(q) <= Len(p) /\ Len(r) <= Len(q)
        /\ \A i \in 1 .. Len(q) : q[i] = p[i]
        /\ \A i \in 1 .. Len(r) : r[i] = q[i]
    BY BeneathMeans
  <2>2. Len(r) <= Len(p) /\ \A i \in 1 .. Len(r) : r[i] = p[i]
    BY <2>1 DEF Segments
  <2>3. QED
    BY <2>2, BeneathMeans
<1>3. Beneath(p, q) /\ Beneath(p, r) /\ Len(q) = Len(r) => q = r
  <2> SUFFICES ASSUME Beneath(p, q), Beneath(p, r), Len(q) = Len(r) PROVE q = r
    OBVIOUS
  <2>1. \A i \in 1 .. Len(q) : q[i] = r[i]
    BY BeneathMeans DEF Segments
  <2>2. QED
    BY <2>1, SeqEqual DEF Segments
<1>4. Beneath(p, q) /\ Len(p) = Len(q) => p = q
  <2> SUFFICES ASSUME Beneath(p, q), Len(p) = Len(q) PROVE p = q
    OBVIOUS
  <2>1. \A i \in 1 .. Len(q) : q[i] = p[i]
    BY BeneathMeans DEF Segments
  <2>2. QED
    BY <2>1, SeqEqual DEF Segments
<1>5. QED
  BY <1>2, <1>3, <1>4, <1>6

\* An item is one name longer than the folder that lists it.
LEMMA ItemOf ==
    ASSUME NEW d \in Directories, NEW c \in ToSet(Listing[d])
    PROVE  /\ c \in Segments /\ d \in Segments /\ c \in Paths
           /\ Len(c) = Len(d) + 1 /\ Beneath(c, d) /\ c # d
<1>1. c \in Paths /\ c \in Segments /\ d \in Segments
  <2>1. c \in Paths
    BY DEF Paths
  <2>2. d \in {Root} \cup Paths
    BY TreeAssumption
  <2>3. QED
    BY <2>1, <2>2, PathsAreSegments
<1>2. Front(c) = d /\ c # Root
  BY TreeAssumption
<1>3. Len(c) >= 1
  BY <1>1, <1>2 DEF Root, Segments
<1>4. Len(d) = Len(c) - 1 /\ \A i \in 1 .. Len(d) : d[i] = c[i]
  BY <1>1, <1>2, <1>3 DEF Front, Segments
<1>5. QED
  BY <1>1, <1>3, <1>4, BeneathMeans DEF Segments

\* What lies above an item is the item or lies above its folder.
LEMMA AboveAnItem ==
    ASSUME NEW d \in Directories, NEW c \in ToSet(Listing[d]),
           NEW q \in Segments, Beneath(c, q)
    PROVE  q = c \/ Beneath(d, q)
<1>1. /\ c \in Segments /\ d \in Segments /\ Len(c) = Len(d) + 1 /\ Beneath(c, d)
  BY ItemOf
<1>2. CASE Len(q) = Len(c)
  BY <1>1, <1>2, BeneathOrder
<1>3. CASE Len(q) # Len(c)
  <2>1. Len(q) <= Len(d)
    BY <1>1, <1>3, BeneathMeans DEF Segments
  <2>2. QED
    BY <1>1, <2>1, BeneathMeans DEF Segments
<1>4. QED
  BY <1>2, <1>3

-----------------------------------------------------------------------------
(* What is still to be walked.                                             *)

Call == ({"visit"} \X ({Root} \cup Paths)) \cup ({"read"} \X Directories)

\* The items that a call comes to.
Covers(c) ==
    {x \in Paths : Beneath(x, c[2]) /\ (c[1] = "read" => x # c[2])}

\* Nothing excluded lies above it; a visit may be of something excluded itself.
Clear(c) ==
    \A q \in Paths : Excluded(q) /\ Beneath(c[2], q) => c[1] = "visit" /\ q = c[2]

Pending(t) == {x \in Paths : \E i \in 1 .. Len(t) : x \in Covers(t[i])}

\* No item is come to twice.
CallsOK(t) ==
    \A i \in 1 .. Len(t) :
        /\ Clear(t[i])
        /\ \A j \in 1 .. Len(t) : i # j => Covers(t[i]) \cap Covers(t[j]) = {}

\* The innermost call is replaced by calls for some of the items it covers.
LEMMA CallReplaced ==
    ASSUME NEW t \in Seq(Call), t # <<>>, CallsOK(t),
           NEW first \in Seq(Call), CallsOK(first), Pending(first) \subseteq Covers(t[1])
    PROVE  /\ first \o Tail(t) \in Seq(Call) /\ CallsOK(first \o Tail(t))
           /\ Pending(first \o Tail(t))
                  = Pending(first) \cup (Pending(t) \ Covers(t[1]))
<1> DEFINE u == first \o Tail(t)
           n == Len(first)
<1>1. Tail(t) \in Seq(Call) /\ Len(Tail(t)) = Len(t) - 1 /\ Len(t) \in Nat /\ Len(t) >= 1
      /\ \A i \in 1 .. Len(t) - 1 : Tail(t)[i] = t[i + 1]
  BY HeadTailProperties
<1>2. /\ u \in Seq(Call) /\ Len(u) = n + Len(t) - 1 /\ n \in Nat
      /\ \A i \in 1 .. n : u[i] = first[i]
      /\ \A i \in n + 1 .. Len(u) : u[i] = t[i - n + 1]
  BY <1>1, ConcatProperties
<1>3. \A i \in 1 .. n : Clear(first[i]) /\ Covers(first[i]) \subseteq Covers(t[1])
  BY DEF CallsOK, Pending, Covers
<1>4. \A i \in n + 1 .. Len(u) : i - n + 1 \in 2 .. Len(t)
  BY <1>1, <1>2
<1> HIDE DEF u, n
<1>5. ASSUME NEW i \in 1 .. Len(u) PROVE Clear(u[i])
  <2>1. CASE i <= n
    BY <1>2, <1>3, <2>1
  <2>2. CASE i > n
    BY <1>1, <1>2, <1>4, <2>2 DEF CallsOK
  <2>3. QED
    BY <1>2, <2>1, <2>2
<1>6. ASSUME NEW i \in 1 .. Len(u), NEW j \in 1 .. Len(u), i < j
      PROVE  Covers(u[i]) \cap Covers(u[j]) = {}
  <2>1. CASE j <= n
    <3>1. i \in 1 .. n /\ j \in 1 .. n /\ i # j
      BY <1>2, <1>6, <2>1
    <3>2. QED
      BY <1>2, <3>1 DEF CallsOK, n
  <2>2. CASE i <= n /\ j > n
    <3>1. /\ i \in 1 .. n /\ j - n + 1 \in 1 .. Len(t) /\ j - n + 1 # 1
          /\ u[j] = t[j - n + 1] /\ u[i] = first[i] /\ 1 \in 1 .. Len(t)
      BY <1>1, <1>2, <1>4, <2>2
    <3>2. Covers(t[1]) \cap Covers(t[j - n + 1]) = {}
      BY <3>1 DEF CallsOK
    <3>3. QED
      BY <1>3, <3>1, <3>2
  <2>3. CASE i > n
    <3>1. /\ i - n + 1 \in 1 .. Len(t) /\ j - n + 1 \in 1 .. Len(t)
          /\ i - n + 1 # j - n + 1
          /\ u[j] = t[j - n + 1] /\ u[i] = t[i - n + 1]
      BY <1>1, <1>2, <1>4, <1>6, <2>3
    <3>2. QED
      BY <3>1 DEF CallsOK
  <2>4. QED
    BY <1>2, <2>1, <2>2, <2>3
<1>7. CallsOK(u)
  <2>1. ASSUME NEW i \in 1 .. Len(u), NEW j \in 1 .. Len(u), i # j
        PROVE  Covers(u[i]) \cap Covers(u[j]) = {}
    <3>1. i < j \/ j < i
      BY <1>2, <2>1
    <3>2. QED
      BY <1>6, <3>1
  <2>2. QED
    BY <1>5, <2>1 DEF CallsOK
<1>8. ASSUME NEW x \in Paths
      PROVE  x \in Pending(u) <=> x \in Pending(first)
                                  \/ (x \in Pending(t) /\ x \notin Covers(t[1]))
  <2>1. ASSUME x \in Pending(u)
        PROVE  x \in Pending(first) \/ (x \in Pending(t) /\ x \notin Covers(t[1]))
    <3>1. PICK i \in 1 .. Len(u) : x \in Covers(u[i])
      BY <2>1 DEF Pending
    <3>2. CASE i <= n
      BY <1>2, <3>1, <3>2 DEF Pending, n
    <3>3. CASE i > n
      <4>1. /\ i - n + 1 \in 1 .. Len(t) /\ i - n + 1 # 1 /\ 1 \in 1 .. Len(t)
            /\ x \in Covers(t[i - n + 1])
        BY <1>1, <1>2, <1>4, <3>1, <3>3
      <4>2. QED
        BY <4>1 DEF Pending, CallsOK
    <3>4. QED
      BY <1>2, <3>2, <3>3
  <2>2. ASSUME x \in Pending(first) PROVE x \in Pending(u)
    <3>1. PICK i \in 1 .. n : x \in Covers(first[i])
      BY <2>2 DEF Pending, n
    <3>2. i \in 1 .. Len(u) /\ u[i] = first[i]
      BY <1>1, <1>2, <3>1
    <3>3. QED
      BY <3>1, <3>2 DEF Pending
  <2>3. ASSUME x \in Pending(t), x \notin Covers(t[1]) PROVE x \in Pending(u)
    <3>1. PICK k \in 1 .. Len(t) : x \in Covers(t[k])
      BY <2>3 DEF Pending
    <3>2. k # 1
      BY <2>3, <3>1
    <3>3. k + n - 1 \in n + 1 .. Len(u) /\ (k + n - 1) - n + 1 = k
      BY <1>1, <1>2, <3>1, <3>2
    <3>4. u[k + n - 1] = t[k] /\ k + n - 1 \in 1 .. Len(u)
      BY <1>2, <3>3
    <3>5. QED
      BY <3>1, <3>4 DEF Pending
  <2>4. QED
    BY <2>1, <2>2, <2>3
<1>9. QED
  BY <1>2, <1>7, <1>8 DEF Pending, u

Descending(p) == IF p \in Directories THEN << <<"read", p>> >> ELSE <<>>

\* An item that is there and not excluded: what lies beneath it follows.
LEMMA DescendingCalls ==
    ASSUME NEW p \in {Root} \cup Paths, Clear(<<"visit", p>>), p \in Paths => ~Excluded(p)
    PROVE  /\ Descending(p) \in Seq(Call) /\ CallsOK(Descending(p))
           /\ Pending(Descending(p)) = Covers(<<"visit", p>>) \ {p}
           /\ \A q \in Paths : Beneath(p, q) => ~Excluded(q)
<1>1. \A q \in Paths : Beneath(p, q) => ~Excluded(q)
  BY DEF Clear
<1>2. CASE p \in Directories
  <2>1. /\ Descending(p) \in Seq(Call) /\ Len(Descending(p)) = 1
        /\ Descending(p)[1] = <<"read", p>>
    BY <1>2 DEF Descending, Call
  <2>2. Clear(<<"read", p>>)
    BY <1>1 DEF Clear
  <2>3. Covers(<<"read", p>>) = Covers(<<"visit", p>>) \ {p}
    BY DEF Covers
  <2>4. QED
    BY <1>1, <2>1, <2>2, <2>3 DEF CallsOK, Pending, Covers
<1>3. CASE p \notin Directories
  <2>1. Covers(<<"visit", p>>) \ {p} = {}
    BY <1>3, TreeAssumption DEF Covers, Beneath
  <2>2. Descending(p) = <<>>
    BY <1>3 DEF Descending
  <2>3. QED
    BY <1>1, <2>1, <2>2 DEF CallsOK, Pending
<1>4. QED
  BY <1>2, <1>3

LEMMA ListingsHoldPaths ==
    ASSUME NEW d \in Directories PROVE Listing[d] \in Seq(Paths)
<1>1. Listing[d] \in Seq(Segments)
  BY TreeAssumption DEF Segments
<1>2. ASSUME NEW i \in 1 .. Len(Listing[d]) PROVE Listing[d][i] \in Paths
  <2>1. Listing[d][i] \in ToSet(Listing[d])
    BY <1>1 DEF ToSet
  <2>2. QED
    BY <2>1, ItemOf
<1>3. QED
  BY <1>1, <1>2

\* The first items of a listing: what lies beneath one lies beneath no other.
LEMMA ListedCalls ==
    ASSUME NEW d \in Directories, Clear(<<"read", d>>),
           NEW n \in 0 .. Len(Listing[d]), NEW list, list \in Seq(Paths),
           Len(list) = n, \A i \in 1 .. n : list[i] = Listing[d][i]
    PROVE  /\ Visits(list) \in Seq(Call) /\ CallsOK(Visits(list))
           /\ Pending(Visits(list)) \subseteq Covers(<<"read", d>>)
           /\ n = Len(Listing[d]) =>
                  Covers(<<"read", d>>) \subseteq Pending(Visits(list))
<1> DEFINE t == Visits(list)
<1>1. /\ Listing[d] \in Seq(Segments) /\ n \in Nat /\ d \in Segments
      /\ \A i \in 1 .. n : list[i] \in ToSet(Listing[d])
  <2>1. Listing[d] \in Seq(Segments)
    BY TreeAssumption DEF Segments
  <2>2. d \in Segments
    BY TreeAssumption, PathsAreSegments
  <2>3. \A i \in 1 .. n : i \in 1 .. Len(Listing[d])
    BY <2>1
  <2>4. \A i \in 1 .. n : Listing[d][i] \in ToSet(Listing[d])
    BY <2>1, <2>3 DEF ToSet
  <2>5. QED
    BY <2>1, <2>2, <2>4
<1>2. /\ t \in Seq(Call) /\ Len(t) = n
      /\ \A i \in 1 .. n : t[i] = <<"visit", list[i]>>
  BY <1>1 DEF Visits, Call
<1>3. \A i \in 1 .. n : /\ list[i] \in Segments /\ Len(list[i]) = Len(d) + 1
                        /\ Beneath(list[i], d) /\ list[i] # d
  BY <1>1, ItemOf
<1> HIDE DEF t
<1>4. ASSUME NEW i \in 1 .. n PROVE Clear(t[i])
  <2> SUFFICES ASSUME NEW q \in Paths, Excluded(q), Beneath(list[i], q)
               PROVE  q = list[i]
    BY <1>2 DEF Clear
  <2>1. q = list[i] \/ Beneath(d, q)
    BY <1>1, AboveAnItem, PathsAreSegments
  <2>2. QED
    BY <2>1 DEF Clear
<1>5. ASSUME NEW i \in 1 .. n, NEW j \in 1 .. n, i # j
      PROVE  Covers(t[i]) \cap Covers(t[j]) = {}
  <2> SUFFICES ASSUME NEW x \in Paths, Beneath(x, list[i]), Beneath(x, list[j])
               PROVE  FALSE
    BY <1>2 DEF Covers
  <2>1. list[i] = list[j]
    BY <1>3, BeneathOrder, PathsAreSegments
  <2>2. i \in DOMAIN Listing[d] /\ j \in DOMAIN Listing[d]
        /\ Listing[d][i] = Listing[d][j]
    BY <1>1, <2>1
  <2>3. QED
    BY <1>5, <2>2, TreeAssumption
<1>6. ASSUME NEW i \in 1 .. n PROVE Covers(t[i]) \subseteq Covers(<<"read", d>>)
  <2> SUFFICES ASSUME NEW x \in Paths, Beneath(x, list[i])
               PROVE  Beneath(x, d) /\ x # d
    BY <1>2 DEF Covers
  <2>1. Beneath(x, d)
    BY <1>1, <1>3, BeneathOrder, PathsAreSegments
  <2>2. x # d
    BY <1>1, <1>3, BeneathMeans
  <2>3. QED
    BY <2>1, <2>2
<1>7. ASSUME n = Len(Listing[d]), NEW x \in Covers(<<"read", d>>)
      PROVE  x \in Pending(t)
  <2>1. x \in Paths /\ IsPrefix(d, x) /\ d # x
    BY DEF Covers, Beneath
  <2>2. d \in Paths \cup {Root}
    BY TreeAssumption
  <2>3. PICK c \in ToSet(Listing[d]) : IsPrefix(c, x)
    BY <2>1, <2>2, TreeAssumption
  <2>4. PICK i \in 1 .. n : c = list[i]
    <3>1. PICK k \in DOMAIN Listing[d] : c = Listing[d][k]
      BY <2>3, Zenon DEF ToSet
    <3>2. k \in 1 .. n /\ list[k] = Listing[d][k]
      BY <1>1, <1>7
    <3> QED
      BY <3>1, <3>2
  <2>5. t[i] = <<"visit", c>> /\ i \in 1 .. Len(t)
    BY <1>2, <2>4
  <2>6. x \in Covers(<<"visit", c>>)
    BY <2>1, <2>3 DEF Covers, Beneath
  <2>7. QED
    BY <2>1, <2>5, <2>6, Zenon DEF Pending
<1>8. QED
  BY <1>2, <1>4, <1>5, <1>6, <1>7 DEF CallsOK, Pending, Covers, t

-----------------------------------------------------------------------------
(* The walk.                                                               *)

\* What is to be walked, and what is recorded, is clear of what is excluded;
\* what is wanted is recorded, still to be walked, or at or below a report.
WalkInv ==
    /\ todo \in Seq(Call) /\ CallsOK(todo)
    /\ recorded \subseteq Wanted /\ Pending(todo) \cap recorded = {}
    /\ reported \subseteq {Root} \cup Paths
    /\ result \in {"none", "ok", "error", "complete", "failed"}
    /\ result # "none" => todo = <<>>
    /\ result \in {"none", "ok", "complete"} =>
           \A x \in Wanted \ recorded :
               x \in Pending(todo) \/ \E q \in reported : Beneath(x, q)

\* A call is dealt with: each item it covers is recorded, or at or below a
\* report, or covered by the calls that replace it.
LEMMA CallDone ==
    ASSUME WalkInv, result = "none", todo # <<>>, result' = result,
           NEW first \in Seq(Call), CallsOK(first),
           Pending(first) \subseteq Covers(todo[1]),
           todo' = first \o Tail(todo),
           NEW here \in SUBSET Paths, recorded' = recorded \cup here,
           here \subseteq (Covers(todo[1]) \ Pending(first)) \cap Wanted,
           reported \subseteq reported', reported' \subseteq {Root} \cup Paths,
           \A x \in Covers(todo[1]) \cap Wanted :
               x \in Pending(first) \/ x \in here \/ \E q \in reported' : Beneath(x, q)
    PROVE  WalkInv'
<1>1. /\ todo' \in Seq(Call) /\ CallsOK(todo')
      /\ Pending(todo') = Pending(first) \cup (Pending(todo) \ Covers(todo[1]))
  BY CallReplaced DEF WalkInv
<1>2. Covers(todo[1]) \subseteq Pending(todo) /\ Pending(todo) \cap recorded = {}
  <2>1. 1 \in 1 .. Len(todo)
    BY DEF WalkInv
  <2>2. QED
    BY <2>1 DEF WalkInv, Pending, Covers
<1>3. recorded' \subseteq Wanted /\ Pending(todo') \cap recorded' = {}
  BY <1>1, <1>2 DEF WalkInv
<1>4. ASSUME NEW x \in Wanted \ recorded'
      PROVE  x \in Pending(todo') \/ \E q \in reported' : Beneath(x, q)
  BY <1>1 DEF WalkInv
<1>5. QED
  BY <1>1, <1>3, <1>4 DEF WalkInv, CallsOK, Pending, Covers, Clear, Wanted

LEMMA NothingRecorded ==
    ASSUME WalkInv, result = "none", todo # <<>>, result' = result,
           NEW first \in Seq(Call), CallsOK(first),
           Pending(first) \subseteq Covers(todo[1]),
           todo' = first \o Tail(todo), recorded' = recorded,
           reported \subseteq reported', reported' \subseteq {Root} \cup Paths,
           \A x \in Covers(todo[1]) \cap Wanted :
               x \in Pending(first) \/ \E q \in reported' : Beneath(x, q)
    PROVE  WalkInv'
<1>1. {} \in SUBSET Paths /\ recorded' = recorded \cup {}
      /\ {} \subseteq (Covers(todo[1]) \ Pending(first)) \cap Wanted
  OBVIOUS
<1>2. \A x \in Covers(todo[1]) \cap Wanted :
          x \in Pending(first) \/ x \in {} \/ \E q \in reported' : Beneath(x, q)
  OBVIOUS
<1>3. QED
  BY <1>1, <1>2, CallDone

LEMMA NoCalls == <<>> \in Seq(Call) /\ CallsOK(<<>>) /\ Pending(<<>>) = {}
BY DEF CallsOK, Pending

LEMMA HeadCall ==
    ASSUME WalkInv, NEW kind, NEW p, NextIs(kind, p)
    PROVE  /\ todo \in Seq(Call) /\ todo # <<>> /\ result = "none"
           /\ todo[1] = <<kind, p>> /\ <<kind, p>> \in Call /\ Clear(<<kind, p>>)
           /\ Covers(<<kind, p>>) \subseteq Pending(todo)
           /\ Covers(<<kind, p>>) \cap recorded = {}
<1>1. todo \in Seq(Call) /\ todo # <<>> /\ todo[1] = <<kind, p>> /\ result = "none"
  BY DEF WalkInv, NextIs
<1>2. 1 \in 1 .. Len(todo)
  BY <1>1
<1>3. todo[1] \in Call /\ Clear(todo[1]) /\ Covers(todo[1]) \subseteq Pending(todo)
  BY <1>1, <1>2 DEF WalkInv, CallsOK, Pending, Covers
<1>4. QED
  BY <1>1, <1>3 DEF WalkInv

LEMMA Descends ==
    ASSUME NEW p, Descend(p)
    PROVE  todo' = Descending(p) \o Tail(todo)
BY DEF Descend, Descending

LEMMA Leaves ==
    ASSUME WalkInv, todo # <<>>, todo' = Tail(todo)
    PROVE  todo' = <<>> \o Tail(todo)
<1>1. Tail(todo) \in Seq(Call)
  BY DEF WalkInv
<1>2. QED
  BY <1>1

LEMMA RootIsNoItem == Root \notin Paths
<1>1. ASSUME NEW d \in Directories PROVE Root \notin ToSet(Listing[d])
  BY TreeAssumption
<1>2. QED
  BY <1>1 DEF Paths

LEMMA VisitRootWalks == WalkInv /\ VisitRoot => WalkInv'
<1> SUFFICES ASSUME WalkInv, VisitRoot PROVE WalkInv'
  OBVIOUS
<1>1. /\ todo \in Seq(Call) /\ todo # <<>> /\ result = "none"
      /\ todo[1] = <<"visit", Root>> /\ Clear(<<"visit", Root>>)
  BY HeadCall DEF VisitRoot
<1>2. /\ Descending(Root) \in Seq(Call) /\ CallsOK(Descending(Root))
      /\ Pending(Descending(Root)) = Covers(todo[1])
  BY <1>1, DescendingCalls, RootIsNoItem DEF Covers
<1>3. /\ todo' = Descending(Root) \o Tail(todo)
      /\ recorded' = recorded /\ reported' = reported /\ result' = result
  BY Descends DEF VisitRoot
<1>4. reported' \subseteq {Root} \cup Paths
  BY <1>3 DEF WalkInv
<1>5. QED
  BY <1>1, <1>2, <1>3, <1>4, NothingRecorded

LEMMA VisitRootFailsWalks == WalkInv /\ VisitRootFails => WalkInv'
<1> SUFFICES ASSUME WalkInv, VisitRootFails PROVE WalkInv'
  OBVIOUS
<1>1. /\ todo \in Seq(Call) /\ todo # <<>> /\ result = "none"
  BY HeadCall DEF VisitRootFails
<1>2. todo' = <<>> \o Tail(todo)
  BY <1>1, Leaves DEF VisitRootFails
<1>3. /\ recorded' = recorded /\ reported' = reported \cup {Root}
      /\ result' = result
  BY DEF VisitRootFails, CountError
<1>4. \A x \in Paths : Beneath(x, Root)
  BY BeneathOrder, PathsAreSegments
<1>5. \A x \in Covers(todo[1]) : \E q \in reported' : Beneath(x, q)
  BY <1>3, <1>4 DEF Covers
<1>6. reported \subseteq reported' /\ reported' \subseteq {Root} \cup Paths
  BY <1>3 DEF WalkInv
<1>7. QED
  BY <1>1, <1>2, <1>3, <1>5, <1>6, NoCalls, NothingRecorded

LEMMA SkipExcludedWalks ==
    ASSUME WalkInv, NEW p \in Paths, SkipExcluded(p) PROVE WalkInv'
<1>1. /\ todo \in Seq(Call) /\ todo # <<>> /\ result = "none"
      /\ todo[1] = <<"visit", p>>
  BY HeadCall DEF SkipExcluded
<1>2. todo' = <<>> \o Tail(todo)
  BY <1>1, Leaves DEF SkipExcluded
<1>3. /\ recorded' = recorded /\ reported' = reported /\ result' = result
      /\ Excluded(p)
  BY DEF SkipExcluded
<1>4. Covers(todo[1]) \cap Wanted = {}
  BY <1>1, <1>3 DEF Covers, Wanted, InExcludedTree
<1>5. reported' \subseteq {Root} \cup Paths
  BY <1>3 DEF WalkInv
<1>6. QED
  BY <1>1, <1>2, <1>3, <1>4, <1>5, NoCalls, NothingRecorded

\* An item that is not excluded is wanted, and what lies beneath it follows.
LEMMA ItemWanted ==
    ASSUME WalkInv, NEW p \in Paths, NextIs("visit", p), ~Excluded(p)
    PROVE  result = "none" /\ p \in Wanted /\ p \notin recorded
<1>1. /\ result = "none" /\ Clear(<<"visit", p>>)
      /\ Covers(<<"visit", p>>) \cap recorded = {}
  BY HeadCall
<1>2. \A q \in Paths : Beneath(p, q) => ~Excluded(q)
  BY <1>1, DescendingCalls
<1>3. p \in Covers(<<"visit", p>>)
  BY BeneathOrder, PathsAreSegments DEF Covers
<1>4. QED
  BY <1>1, <1>2, <1>3 DEF Wanted, InExcludedTree

LEMMA ItemVisited ==
    ASSUME WalkInv, NEW p \in Paths, NextIs("visit", p), ~Excluded(p), Descend(p)
    PROVE  /\ todo \in Seq(Call) /\ todo # <<>> /\ result = "none"
           /\ todo' = Descending(p) \o Tail(todo)
           /\ Descending(p) \in Seq(Call) /\ CallsOK(Descending(p))
           /\ Pending(Descending(p)) = Covers(todo[1]) \ {p}
           /\ p \in Covers(todo[1]) /\ p \in Wanted /\ p \notin recorded
           /\ Beneath(p, p)
<1>1. /\ todo \in Seq(Call) /\ todo # <<>> /\ result = "none"
      /\ todo[1] = <<"visit", p>> /\ Clear(<<"visit", p>>)
      /\ Covers(<<"visit", p>>) \cap recorded = {}
  BY HeadCall
<1>2. /\ Descending(p) \in Seq(Call) /\ CallsOK(Descending(p))
      /\ Pending(Descending(p)) = Covers(<<"visit", p>>) \ {p}
      /\ \A q \in Paths : Beneath(p, q) => ~Excluded(q)
  BY <1>1, DescendingCalls
<1>3. Beneath(p, p)
  BY BeneathOrder, PathsAreSegments
<1>4. p \in Covers(<<"visit", p>>)
  BY <1>3 DEF Covers
<1>5. p \in Wanted
  BY <1>2 DEF Wanted, InExcludedTree
<1>6. QED
  BY <1>1, <1>2, <1>3, <1>4, <1>5, Descends

LEMMA InfoFailsWalks ==
    ASSUME WalkInv, NEW p \in Paths, InfoFails(p) PROVE WalkInv'
<1>1. /\ todo \in Seq(Call) /\ todo # <<>> /\ result = "none"
      /\ todo' = Descending(p) \o Tail(todo)
      /\ Descending(p) \in Seq(Call) /\ CallsOK(Descending(p))
      /\ Pending(Descending(p)) = Covers(todo[1]) \ {p}
      /\ Beneath(p, p)
  BY ItemVisited DEF InfoFails
<1>2. /\ recorded' = recorded /\ reported' = reported \cup {p}
      /\ result' = result
  BY DEF InfoFails, CountError
<1>3. reported \subseteq reported' /\ reported' \subseteq {Root} \cup Paths
  BY <1>2 DEF WalkInv
<1>4. \A x \in Covers(todo[1]) \cap Wanted :
          x \in Pending(Descending(p)) \/ \E q \in reported' : Beneath(x, q)
  BY <1>1, <1>2
<1>5. QED
  BY <1>1, <1>2, <1>3, <1>4, NothingRecorded

LEMMA RecordWalks ==
    ASSUME WalkInv, NEW p \in Paths, NextIs("visit", p), ~Excluded(p), Record(p),
           reported \subseteq reported', reported' \subseteq {Root} \cup Paths,
           result' = result
    PROVE  WalkInv'
<1>1. /\ todo \in Seq(Call) /\ todo # <<>> /\ result = "none"
      /\ todo' = Descending(p) \o Tail(todo)
      /\ Descending(p) \in Seq(Call) /\ CallsOK(Descending(p))
      /\ Pending(Descending(p)) = Covers(todo[1]) \ {p}
      /\ p \in Covers(todo[1]) /\ p \in Wanted
  BY ItemVisited DEF Record
<1>2. recorded' = recorded \cup {p}
  BY DEF Record
<1>3. {p} \in SUBSET Paths
      /\ {p} \subseteq (Covers(todo[1]) \ Pending(Descending(p))) \cap Wanted
  BY <1>1
<1>4. \A x \in Covers(todo[1]) \cap Wanted : x \in Pending(Descending(p)) \/ x \in {p}
  BY <1>1
<1>5. Pending(Descending(p)) \subseteq Covers(todo[1])
  BY <1>1
<1>6. QED
  BY <1>1, <1>2, <1>3, <1>4, <1>5, CallDone

LEMMA ReadDirWalks ==
    ASSUME WalkInv, NEW d \in Directories, ReadDir(d) PROVE WalkInv'
<1>1. /\ todo \in Seq(Call) /\ todo # <<>> /\ result = "none"
      /\ todo[1] = <<"read", d>> /\ Clear(<<"read", d>>)
  BY HeadCall DEF ReadDir
<1>2. Listing[d] \in Seq(Paths)
  BY ListingsHoldPaths
<1>6. Len(Listing[d]) \in 0 .. Len(Listing[d])
  BY <1>2
<1>3. /\ Visits(Listing[d]) \in Seq(Call) /\ CallsOK(Visits(Listing[d]))
      /\ Pending(Visits(Listing[d])) \subseteq Covers(todo[1])
      /\ Covers(todo[1]) \subseteq Pending(Visits(Listing[d]))
  BY <1>1, <1>2, <1>6, ListedCalls
<1>4. /\ todo' = Visits(Listing[d]) \o Tail(todo)
      /\ recorded' = recorded /\ reported' = reported /\ result' = result
  BY DEF ReadDir
<1>5. reported' \subseteq {Root} \cup Paths
  BY <1>4 DEF WalkInv
<1>7. QED
  BY <1>1, <1>3, <1>4, <1>5, NothingRecorded

LEMMA ReadDirFailsWalks ==
    ASSUME WalkInv, NEW d \in Directories, ReadDirFails(d) PROVE WalkInv'
<1>1. /\ todo \in Seq(Call) /\ todo # <<>> /\ result = "none"
      /\ todo[1] = <<"read", d>> /\ Clear(<<"read", d>>)
  BY HeadCall DEF ReadDirFails
<1>2. Listing[d] \in Seq(Paths)
  BY ListingsHoldPaths
<1>3. PICK n \in 0 .. Len(Listing[d]) :
          todo' = Visits(SubSeq(Listing[d], 1, n)) \o Tail(todo)
  BY DEF ReadDirFails
<1> DEFINE list == SubSeq(Listing[d], 1, n)
<1>4. list \in Seq(Paths) /\ Len(list) = n /\ \A i \in 1 .. n : list[i] = Listing[d][i]
  BY <1>2
<1> HIDE DEF list
<1>5. /\ Visits(list) \in Seq(Call) /\ CallsOK(Visits(list))
      /\ Pending(Visits(list)) \subseteq Covers(todo[1])
  BY <1>1, <1>4, ListedCalls
<1>6. /\ recorded' = recorded /\ reported' = reported \cup {d} /\ result' = result
      /\ todo' = Visits(list) \o Tail(todo)
  BY <1>3 DEF ReadDirFails, CountError, list
<1>7. reported \subseteq reported' /\ reported' \subseteq {Root} \cup Paths
  BY <1>6, TreeAssumption DEF WalkInv
<1>8. \A x \in Covers(todo[1]) : \E q \in reported' : Beneath(x, q)
  BY <1>1, <1>6 DEF Covers
<1>9. QED
  BY <1>1, <1>5, <1>6, <1>7, <1>8, NothingRecorded

LEMMA OtherStepsWalk ==
    ASSUME WalkInv,
           \/ Abort /\ reported' \subseteq {Root} \cup Paths
           \/ Return \/ Complete \/ Fail \/ Unplug \/ Interrupt
           \/ UNCHANGED vars
    PROVE  WalkInv'
<1>1. CASE Abort /\ reported' \subseteq {Root} \cup Paths
  <2>1. /\ todo' = <<>> /\ result' = "error" /\ recorded' = recorded
        /\ reported' \subseteq {Root} \cup Paths
    BY <1>1 DEF Abort
  <2>2. QED
    BY <2>1, NoCalls DEF WalkInv, CallsOK, Pending, Covers, Clear, Wanted
<1>2. CASE Return \/ Complete \/ Fail \/ Unplug \/ Interrupt \/ UNCHANGED vars
  <2>1. /\ UNCHANGED <<todo, recorded, reported>>
        /\ result' \in {"none", "ok", "error", "complete", "failed"}
        /\ result' # "none" => result # "none" \/ todo = <<>>
        /\ result' \in {"none", "ok", "complete"}
               => result \in {"none", "ok", "complete"}
    BY <1>2 DEF Return, Complete, Fail, Unplug, Interrupt, vars, WalkInv
  <2>2. QED
    BY <2>1 DEF WalkInv, CallsOK, Pending, Covers, Clear, Wanted
<1>3. QED
  BY <1>1, <1>2

-----------------------------------------------------------------------------
(* The counters, and the files without a fingerprint.                      *)

Unhashed == (recorded \cap Files) \ hashed

CountInv ==
    /\ counted \in [files : Nat, directories : Nat, errors : Nat]
    /\ IsFiniteSet(recorded) /\ IsFiniteSet(reported)
    /\ hashed \subseteq recorded
    /\ TotalsMatchRecorded
    /\ result \in {"none", "ok", "complete"} => TotalsOf(recorded)
    /\ HashWanted => Unhashed \subseteq reported
    /\ counted.errors >= Cardinality(reported)

\* A report that may be a second one of the same path adds one to the errors.
LEMMA ErrorCounted ==
    ASSUME CountInv, NEW p, reported' = reported \cup {p},
           counted'.errors = counted.errors + 1
    PROVE  IsFiniteSet(reported') /\ counted'.errors >= Cardinality(reported')
<1>1. /\ IsFiniteSet(reported')
      /\ Cardinality(reported') = IF p \in reported THEN Cardinality(reported)
                                  ELSE Cardinality(reported) + 1
  BY FS_AddElement DEF CountInv
<1>2. Cardinality(reported) \in Nat /\ counted.errors \in Nat
  BY FS_CardinalityType DEF CountInv
<1>3. QED
  BY <1>1, <1>2 DEF CountInv

\* Only the error is counted.
LEMMA CountErrorCounts ==
    ASSUME CountInv, NEW p, CountError(p), UNCHANGED <<recorded, hashed, result>>
    PROVE  CountInv'
<1>1. /\ reported' = reported \cup {p}
      /\ counted' = [counted EXCEPT !.errors = @ + 1]
  BY DEF CountError
<1>2. /\ counted' \in [files : Nat, directories : Nat, errors : Nat]
      /\ counted'.errors = counted.errors + 1
      /\ counted'.files = counted.files
      /\ counted'.directories = counted.directories
  BY <1>1 DEF CountInv
<1>3. IsFiniteSet(reported') /\ counted'.errors >= Cardinality(reported')
  BY <1>1, <1>2, ErrorCounted
<1>4. /\ TotalsMatchRecorded'
      /\ result' \in {"none", "ok", "complete"} => TotalsOf(recorded)'
  BY <1>2 DEF CountInv, TotalsMatchRecorded, TotalsOf, Wanted
<1>5. HashWanted => Unhashed' \subseteq reported'
  BY <1>1 DEF CountInv, Unhashed
<1>6. QED
  BY <1>2, <1>3, <1>4, <1>5 DEF CountInv

\* An item of a kind adds one to the total of its kind.
LEMMA OneMore ==
    ASSUME NEW S, IsFiniteSet(S), NEW K, NEW p, p \notin S
    PROVE  /\ IsFiniteSet(S \cup {p})
           /\ Cardinality((S \cup {p}) \cap K)
                  = IF p \in K THEN Cardinality(S \cap K) + 1 ELSE Cardinality(S \cap K)
<1>1. IsFiniteSet(S \cap K) /\ IsFiniteSet(S \cup {p})
  BY FS_Intersection, FS_AddElement
<1>2. CASE p \in K
  <2>1. (S \cup {p}) \cap K = (S \cap K) \cup {p} /\ p \notin S \cap K
    BY <1>2
  <2>2. QED
    BY <1>1, <1>2, <2>1, FS_AddElement
<1>3. CASE p \notin K
  <2>1. (S \cup {p}) \cap K = S \cap K
    BY <1>3
  <2>2. QED
    BY <1>1, <1>3, <2>1
<1>4. QED
  BY <1>2, <1>3

LEMMA ItemCounted ==
    ASSUME CountInv, result = "none", NEW p \in Paths, p \notin recorded
    PROVE  /\ Count(p) \in [files : Nat, directories : Nat, errors : Nat]
           /\ Count(p).errors = counted.errors
           /\ Count(p).files = Cardinality((recorded \cup {p}) \cap Files)
           /\ Count(p).directories = Cardinality((recorded \cup {p}) \cap Directories)
           /\ IsFiniteSet(recorded \cup {p})
<1>1. /\ IsFiniteSet(recorded \cup {p})
      /\ Cardinality((recorded \cup {p}) \cap Files)
             = IF p \in Files THEN Cardinality(recorded \cap Files) + 1
               ELSE Cardinality(recorded \cap Files)
      /\ Cardinality((recorded \cup {p}) \cap Directories)
             = IF p \in Directories THEN Cardinality(recorded \cap Directories) + 1
               ELSE Cardinality(recorded \cap Directories)
  BY OneMore DEF CountInv
<1>2. /\ Count(p) \in [files : Nat, directories : Nat, errors : Nat]
      /\ Count(p).errors = counted.errors
      /\ Count(p).files = IF p \in Files THEN counted.files + 1 ELSE counted.files
      /\ Count(p).directories = IF p \in Directories THEN counted.directories + 1
                                ELSE counted.directories
  <2> DEFINE f == IF p \in Files THEN counted.files + 1 ELSE counted.files
             d == IF p \in Directories THEN counted.directories + 1
                  ELSE counted.directories
  <2>1. counted \in [files : Nat, directories : Nat, errors : Nat]
    BY DEF CountInv
  <2>2. Count(p) = [counted EXCEPT !.files = f, !.directories = d]
    BY <2>1 DEF Count
  <2>3. f \in Nat /\ d \in Nat
    BY <2>1
  <2> HIDE DEF f, d
  <2>4. /\ Count(p) \in [files : Nat, directories : Nat, errors : Nat]
        /\ Count(p).errors = counted.errors /\ Count(p).files = f
        /\ Count(p).directories = d
    BY <2>1, <2>2, <2>3
  <2>5. QED
    BY <2>4 DEF f, d
<1>3. QED
  BY <1>1, <1>2 DEF CountInv, TotalsOf

LEMMA VisitCounts ==
    ASSUME WalkInv, CountInv, NEW p \in Paths, Visit(p) PROVE CountInv'
<1>1. p \notin recorded /\ result = "none"
  BY ItemWanted DEF Visit
<1>2. /\ recorded' = recorded \cup {p} /\ counted' = Count(p) /\ reported' = reported
      /\ hashed' = IF HashWanted /\ p \in Files THEN hashed \cup {p} ELSE hashed
  BY DEF Visit, Record
<1>3. /\ counted' \in [files : Nat, directories : Nat, errors : Nat]
      /\ counted'.errors = counted.errors
      /\ TotalsMatchRecorded' /\ TotalsOf(recorded)' /\ IsFiniteSet(recorded')
  BY <1>1, <1>2, ItemCounted DEF TotalsMatchRecorded, TotalsOf
<1>4. hashed' \subseteq recorded' /\ (HashWanted => Unhashed' \subseteq reported')
  BY <1>2 DEF CountInv, Unhashed
<1>5. QED
  BY <1>2, <1>3, <1>4 DEF CountInv

\* An item is counted, and its error if it cannot be hashed.
LEMMA CountedBeforeYield ==
    ASSUME CountInv, result = "none", NEW p \in Paths, p \notin recorded,
           HashFails(p) \/ (counted' = Count(p) /\ reported' = reported)
    PROVE  /\ counted' \in [files : Nat, directories : Nat, errors : Nat]
           /\ counted'.files = Cardinality((recorded \cup {p}) \cap Files)
           /\ counted'.directories = Cardinality((recorded \cup {p}) \cap Directories)
           /\ IsFiniteSet(recorded \cup {p}) /\ IsFiniteSet(reported')
           /\ counted'.errors >= Cardinality(reported')
           /\ reported \subseteq reported' /\ reported' \subseteq reported \cup {p}
<1>1. /\ Count(p) \in [files : Nat, directories : Nat, errors : Nat]
      /\ Count(p).errors = counted.errors
      /\ Count(p).files = Cardinality((recorded \cup {p}) \cap Files)
      /\ Count(p).directories = Cardinality((recorded \cup {p}) \cap Directories)
      /\ IsFiniteSet(recorded \cup {p})
  BY ItemCounted
<1>2. CASE HashFails(p)
  <2>1. reported' = reported \cup {p} /\ counted' = [Count(p) EXCEPT !.errors = @ + 1]
    BY <1>2 DEF HashFails
  <2>2. /\ counted' \in [files : Nat, directories : Nat, errors : Nat]
        /\ counted'.errors = counted.errors + 1
        /\ counted'.files = Count(p).files
        /\ counted'.directories = Count(p).directories
    BY <1>1, <2>1
  <2>3. IsFiniteSet(reported') /\ counted'.errors >= Cardinality(reported')
    BY <2>1, <2>2, ErrorCounted
  <2>4. QED
    BY <1>1, <2>1, <2>2, <2>3
<1>3. CASE counted' = Count(p) /\ reported' = reported
  BY <1>1, <1>3 DEF CountInv
<1>4. QED
  BY <1>2, <1>3

LEMMA VisitUnhashedCounts ==
    ASSUME WalkInv, CountInv, NEW p \in Paths, VisitUnhashed(p) PROVE CountInv'
<1>1. p \notin recorded /\ result = "none"
  BY ItemWanted DEF VisitUnhashed
<1>2. /\ recorded' = recorded \cup {p} /\ HashFails(p) /\ hashed' = hashed
      /\ reported' = reported \cup {p}
  BY DEF VisitUnhashed, Record, HashFails
<1>3. /\ counted' \in [files : Nat, directories : Nat, errors : Nat]
      /\ counted'.files = Cardinality((recorded \cup {p}) \cap Files)
      /\ counted'.directories = Cardinality((recorded \cup {p}) \cap Directories)
      /\ IsFiniteSet(recorded \cup {p}) /\ IsFiniteSet(reported')
      /\ counted'.errors >= Cardinality(reported')
  BY <1>1, <1>2, CountedBeforeYield
<1>4. TotalsMatchRecorded' /\ TotalsOf(recorded)'
  BY <1>2, <1>3 DEF TotalsMatchRecorded, TotalsOf
<1>5. hashed' \subseteq recorded' /\ (HashWanted => Unhashed' \subseteq reported')
  BY <1>2 DEF CountInv, Unhashed
<1>6. QED
  BY <1>2, <1>3, <1>4, <1>5 DEF CountInv

\* The item that was refused is the one that the totals hold too many.
LEMMA YieldFailsCounts ==
    ASSUME WalkInv, CountInv, NEW p \in Paths, YieldFails(p) PROVE CountInv'
<1>1. p \in Wanted \ recorded /\ result = "none"
  BY ItemWanted DEF YieldFails
<1>2. /\ result' = "error" /\ recorded' = recorded /\ hashed' = hashed
      /\ HashFails(p) \/ (counted' = Count(p) /\ reported' = reported)
  BY DEF YieldFails, Abort
<1>3. /\ counted' \in [files : Nat, directories : Nat, errors : Nat]
      /\ counted'.files = Cardinality((recorded \cup {p}) \cap Files)
      /\ counted'.directories = Cardinality((recorded \cup {p}) \cap Directories)
      /\ IsFiniteSet(reported') /\ counted'.errors >= Cardinality(reported')
      /\ reported \subseteq reported'
  BY <1>1, <1>2, CountedBeforeYield
<1>4. TotalsMatchRecorded'
  BY <1>1, <1>2, <1>3 DEF TotalsMatchRecorded, TotalsOf, Wanted
<1>5. QED
  BY <1>2, <1>3, <1>4 DEF CountInv, Unhashed

LEMMA OtherStepsCount ==
    ASSUME CountInv, UNCHANGED <<recorded, hashed, reported, counted>>,
           \/ result' = result \/ result' = "error"
           \/ result = "none" /\ result' = "ok"
           \/ result = "ok" /\ result' = "complete"
           \/ result \in {"ok", "error"} /\ result' = "failed"
    PROVE  CountInv'
BY DEF CountInv, Unhashed, TotalsMatchRecorded, TotalsOf, Wanted

-----------------------------------------------------------------------------
(* The invariant.                                                          *)

ScanInv ==
    /\ mounted \in BOOLEAN /\ cancelled \in BOOLEAN /\ view \in {"last", "this"}
    /\ WalkInv
    /\ CountInv

LEMMA InitScanInv == Init => ScanInv
<1> SUFFICES ASSUME Init PROVE ScanInv
  OBVIOUS
<1>1. /\ todo = << <<"visit", Root>> >> /\ recorded = {} /\ reported = {} /\ hashed = {}
      /\ result = "none" /\ counted = [files |-> 0, directories |-> 0, errors |-> 0]
  BY DEF Init
<1>2. /\ todo \in Seq(Call) /\ Len(todo) = 1 /\ todo[1] = <<"visit", Root>>
  BY <1>1 DEF Call
<1>3. \A q \in Paths : ~Beneath(Root, q)
  <2> SUFFICES ASSUME NEW q \in Paths, Beneath(Root, q) PROVE FALSE
    OBVIOUS
  <2>1. q \in Segments /\ Root \in Segments /\ Len(Root) = 0 /\ q # Root
    BY PathsAreSegments, RootIsNoItem DEF Root
  <2>2. Len(q) <= Len(Root)
    BY <2>1, BeneathMeans
  <2>3. QED
    BY <2>1, <2>2 DEF Root, Segments
<1>4. CallsOK(todo)
  BY <1>2, <1>3 DEF CallsOK, Clear
<1>5. Pending(todo) = Paths
  BY <1>2, BeneathOrder, PathsAreSegments DEF Pending, Covers
<1>6. WalkInv
  BY <1>1, <1>2, <1>4, <1>5 DEF WalkInv, Wanted
<1>7. IsFiniteSet({}) /\ Cardinality({}) = 0 /\ recorded \cap Files = {}
      /\ recorded \cap Directories = {}
  BY <1>1, FS_EmptySet
<1>8. CountInv
  BY <1>1, <1>7 DEF CountInv, Unhashed, TotalsMatchRecorded, TotalsOf
<1>9. QED
  BY <1>6, <1>8 DEF ScanInv, Init

LEMMA NextScanInv == ScanInv /\ [Next]_vars => ScanInv'
<1> SUFFICES ASSUME ScanInv, [Next]_vars PROVE ScanInv'
  OBVIOUS
<1> USE DEF ScanInv
<1>1. CASE SeeCancelled
  <2>1. /\ Abort /\ UNCHANGED <<mounted, reported, counted>>
        /\ reported' \subseteq {Root} \cup Paths
    BY <1>1 DEF SeeCancelled, WalkInv
  <2>2. QED
    BY <2>1, OtherStepsWalk, OtherStepsCount DEF Abort
<1>2. CASE VisitRoot
  BY <1>2, VisitRootWalks, OtherStepsCount DEF VisitRoot
<1>3. CASE VisitRootFails
  BY <1>3, VisitRootFailsWalks, CountErrorCounts DEF VisitRootFails
<1>4. CASE Return
  BY <1>4, OtherStepsWalk, OtherStepsCount DEF Return
<1>5. ASSUME NEW p \in Paths, SkipExcluded(p) PROVE ScanInv'
  BY <1>5, SkipExcludedWalks, OtherStepsCount DEF SkipExcluded
<1>6. ASSUME NEW p \in Paths, InfoFails(p) PROVE ScanInv'
  BY <1>6, InfoFailsWalks, CountErrorCounts DEF InfoFails
<1>7. ASSUME NEW p \in Paths, Visit(p) PROVE ScanInv'
  <2>1. reported' = reported /\ reported \subseteq {Root} \cup Paths
    BY <1>7 DEF Visit, WalkInv
  <2>2. WalkInv'
    BY <1>7, <2>1, RecordWalks DEF Visit
  <2>3. QED
    BY <1>7, <2>2, VisitCounts DEF Visit
<1>8. ASSUME NEW p \in Paths, VisitUnhashed(p) PROVE ScanInv'
  <2>1. /\ reported' = reported \cup {p} /\ reported \subseteq {Root} \cup Paths
        /\ mounted' \in BOOLEAN
    BY <1>8 DEF VisitUnhashed, HashFails, WalkInv
  <2>2. WalkInv'
    BY <1>8, <2>1, RecordWalks DEF VisitUnhashed
  <2>3. QED
    BY <1>8, <2>1, <2>2, VisitUnhashedCounts DEF VisitUnhashed
<1>9. ASSUME NEW p \in Paths, YieldFails(p) PROVE ScanInv'
  <2>1. /\ Abort /\ reported' \subseteq {Root} \cup Paths /\ mounted' \in BOOLEAN
    BY <1>9 DEF YieldFails, HashFails, WalkInv
  <2>2. QED
    BY <1>9, <2>1, OtherStepsWalk, YieldFailsCounts DEF Abort
<1>10. ASSUME NEW d \in Directories, ReadDir(d) PROVE ScanInv'
  BY <1>10, ReadDirWalks, OtherStepsCount DEF ReadDir
<1>11. ASSUME NEW d \in Directories, ReadDirFails(d) PROVE ScanInv'
  BY <1>11, ReadDirFailsWalks, CountErrorCounts DEF ReadDirFails
<1>12. CASE Complete
  BY <1>12, OtherStepsWalk, OtherStepsCount DEF Complete
<1>13. CASE Fail
  BY <1>13, OtherStepsWalk, OtherStepsCount DEF Fail
<1>14. CASE Unplug
  BY <1>14, OtherStepsWalk, OtherStepsCount DEF Unplug
<1>15. CASE Interrupt
  BY <1>15, OtherStepsWalk, OtherStepsCount DEF Interrupt
<1>16. CASE UNCHANGED vars
  BY <1>16, OtherStepsWalk, OtherStepsCount DEF vars
<1>17. QED
  BY <1>1, <1>2, <1>3, <1>4, <1>5, <1>6, <1>7, <1>8, <1>9, <1>10, <1>11, <1>12,
     <1>13, <1>14, <1>15, <1>16 DEF Next, Walk, Done

\* ScanInv holds throughout every scan.
THEOREM Invariance == Spec => []ScanInv
<1>1. QED
  BY InitScanInv, NextScanInv, PTL DEF Spec

\* The recursion of WalkDir calls only what the tree has, and the totals are
\* numbers.
THEOREM TypeCorrect == Spec => []TypeOK
<1>1. ScanInv => TypeOK
  BY DEF ScanInv, WalkInv, CountInv, TypeOK, Call, Wanted
<1>2. QED
  BY <1>1, Invariance, PTL

\* What Scan's result lacks was given to onError: no failure of a system call,
\* wherever it comes, and no unplugging loses an item without a word.
THEOREM GapsReported == Spec => []GapsAreReported
<1>1. ScanInv => GapsAreReported
  <2> SUFFICES ASSUME ScanInv, result \in {"ok", "complete"}
               PROVE  /\ \A x \in Wanted \ recorded : \E q \in reported : Beneath(x, q)
                      /\ HashWanted => Unhashed \subseteq reported
                      /\ counted.errors >= Cardinality(reported)
    BY DEF GapsAreReported, Unhashed
  <2>1. Pending(todo) = {}
    BY NoCalls DEF ScanInv, WalkInv
  <2>2. QED
    BY <2>1 DEF ScanInv, WalkInv, CountInv
<1>2. QED
  BY <1>1, Invariance, PTL

\* Nothing at or below an excluded item is yielded, however the walk comes to
\* it: SkipDir is enough.
THEOREM ExcludedStaysAway == Spec => []ExcludedStaysOut
<1>1. ScanInv => ExcludedStaysOut
  BY DEF ScanInv, WalkInv, ExcludedStaysOut
<1>2. QED
  BY <1>1, Invariance, PTL

\* The files and directories in Scan's Result are those it yielded, and one of
\* a scan that the writer ended is the item that it refused.
THEOREM TotalsAreTrue == Spec => []TotalsMatchRecorded
<1>1. ScanInv => TotalsMatchRecorded
  BY DEF ScanInv, CountInv
<1>2. QED
  BY <1>1, Invariance, PTL

-----------------------------------------------------------------------------
(* Induction.                                                              *)

\* Induction for a set: the provers have no use for theorems about any
\* predicate P, but a set that a comprehension defines is a value like others.
LEMMA SetInduction ==
    ASSUME NEW S, 0 \in S, \A n \in Nat : n \in S => n + 1 \in S
    PROVE  \A n \in Nat : n \in S
<1>1. SUFFICES ASSUME NEW m \in Nat, m \notin S PROVE FALSE
  OBVIOUS
<1> DEFINE less == {ss \in Nat \X Nat : ss[1] < ss[2]}
           T    == {n \in Nat : n \notin S}
<1>2. T \subseteq Nat /\ T # {}
  BY <1>1
<1>3. IsWellFoundedOn(less, Nat)
  BY NatLessThanWellFounded DEF OpToRel
<1>4. \E x \in T : \A y \in T : <<y, x>> \notin less
  <2> HIDE DEF less, T
  <2> QED BY <1>2, <1>3, WFMin
<1>5. PICK x \in T : \A y \in T : <<y, x>> \notin less
  BY <1>4
<1>6. x # 0 /\ x \in Nat
  OBVIOUS
<1>7. x - 1 \in Nat /\ x - 1 \notin S
  BY <1>6, x = (x - 1) + 1
<1>8. <<x - 1, x>> \in less
  BY <1>6, <1>7
<1>9. QED
  BY <1>5, <1>7, <1>8

\* Induction on the length of a sequence.
LEMMA SequenceInduction ==
    ASSUME NEW T, NEW S, <<>> \in S,
           \A s \in Seq(T), x \in T : s \in S => Append(s, x) \in S
    PROVE  \A s \in Seq(T) : s \in S
<1> DEFINE N == {n \in Nat : \A s \in Seq(T) : Len(s) = n => s \in S}
<1>1. 0 \in N
  BY EmptySeq
<1>2. \A n \in Nat : n \in N => n + 1 \in N
  <2> SUFFICES ASSUME NEW n \in Nat, n \in N, NEW s \in Seq(T), Len(s) = n + 1
               PROVE  s \in S
    OBVIOUS
  <2>1. PICK u \in Seq(T), x \in T : s = Append(u, x)
    BY SequenceEmptyOrAppend
  <2>2. Len(u) = n
    BY <2>1, AppendProperties
  <2> QED
    BY <2>1, <2>2
<1>3. \A n \in Nat : n \in N
  <2> HIDE DEF N
  <2> QED BY <1>1, <1>2, SetInduction
<1>4. QED
  BY <1>3

-----------------------------------------------------------------------------
(* Folds.                                                                  *)

FoldStep(f, step, base, text, i) ==
    f[i] = IF i = 0 THEN base ELSE step[f[i - 1]][text[i]]

FoldOf(f, step, base, text, n) ==
    f = [i \in 0 .. n |-> IF i = 0 THEN base ELSE step[f[i - 1]][text[i]]]

\* The function that Fold defines by recursion is there.
LEMMA FoldExists ==
    ASSUME NEW step, NEW base, NEW text
    PROVE  \A n \in Nat : \E g : FoldOf(g, step, base, text, n)
<1> DEFINE S == {n \in Nat : \E g : FoldOf(g, step, base, text, n)}
<1>1. 0 \in S
  <2> DEFINE g == [i \in 0 .. 0 |-> base]
  <2>1. FoldOf(g, step, base, text, 0)
    BY DEF FoldOf
  <2> QED
    BY <2>1
<1>2. ASSUME NEW n \in Nat, n \in S
      PROVE  n + 1 \in S
  <2>1. PICK g : FoldOf(g, step, base, text, n)
    BY <1>2
  <2>2. \A i \in 0 .. n : FoldStep(g, step, base, text, i)
    BY <2>1 DEF FoldOf, FoldStep
  <2> DEFINE h == [i \in 0 .. n + 1 |->
                      IF i = n + 1 THEN step[g[n]][text[n + 1]] ELSE g[i]]
  <2>3. ASSUME NEW i \in 0 .. n + 1
        PROVE  FoldStep(h, step, base, text, i)
    <3>1. CASE i = n + 1
      <4>1. i - 1 = n /\ i - 1 \in 0 .. n + 1 /\ i # 0 /\ i - 1 # n + 1
        BY <3>1
      <4>2. h[i - 1] = g[n]
        BY <4>1
      <4> QED
        BY <3>1, <4>1, <4>2 DEF FoldStep
    <3>2. CASE i # n + 1
      <4>1. i \in 0 .. n
        BY <3>2
      <4>2. i # 0 => i - 1 \in 0 .. n /\ i - 1 \in 0 .. n + 1 /\ i - 1 # n + 1
        BY <4>1
      <4>3. i # 0 => h[i - 1] = g[i - 1]
        BY <4>2, Zenon
      <4> QED
        BY <2>2, <3>2, <4>1, <4>3 DEF FoldStep
    <3> QED
      BY <3>1, <3>2
  <2>4. FoldOf(h, step, base, text, n + 1)
    <3>1. \A i \in 0 .. n + 1 : FoldStep(h, step, base, text, i)
      BY <2>3
    <3>2. h = [i \in 0 .. n + 1 |-> h[i]]
      OBVIOUS
    <3> HIDE DEF h
    <3> QED
      BY <3>1, <3>2 DEF FoldOf, FoldStep
  <2> HIDE DEF h
  <2> QED
    BY <2>4
<1>3. \A n \in Nat : n \in S
  <2> HIDE DEF S
  <2> QED BY <1>1, <1>2, SetInduction
<1>4. QED
  BY <1>3

\* The function that Fold chooses takes these steps.
LEMMA FoldSteps ==
    ASSUME NEW step, NEW base, NEW text, NEW n \in Nat, NEW f,
           f = CHOOSE g : FoldOf(g, step, base, text, n)
    PROVE  \A i \in 0 .. n : FoldStep(f, step, base, text, i)
<1>1. FoldOf(f, step, base, text, n)
  BY FoldExists
<1>2. QED
  BY <1>1 DEF FoldOf, FoldStep

\* The values a fold goes through.
LEMMA FoldRuns ==
    ASSUME NEW step, NEW base, NEW text, NEW n \in Nat, Len(text) = n
    PROVE  \E f : /\ Fold(step, base, text) = f[n]
                  /\ \A i \in 0 .. n : FoldStep(f, step, base, text, i)
<1> DEFINE f == CHOOSE g : FoldOf(g, step, base, text, n)
<1>1. \A i \in 0 .. n : FoldStep(f, step, base, text, i)
  BY FoldSteps
<1>2. Fold(step, base, text) = f[n]
  BY DEF Fold, FoldOf
<1>3. QED
  <2> HIDE DEF f
  <2> QED BY <1>1, <1>2

\* A fold of nothing is its base.
LEMMA FoldEmpty ==
    ASSUME NEW step, NEW base
    PROVE  Fold(step, base, <<>>) = base
<1>1. Len(<<>>) = 0
  OBVIOUS
<1>2. PICK f : /\ Fold(step, base, <<>>) = f[0]
               /\ \A i \in 0 .. 0 : FoldStep(f, step, base, <<>>, i)
  BY <1>1, FoldRuns
<1>3. QED
  BY <1>2 DEF FoldStep

\* A fold goes on where the fold of the text before has come to.
LEMMA FoldAppend ==
    ASSUME NEW step, NEW base, NEW T, NEW text \in Seq(T), NEW token \in T
    PROVE  Fold(step, base, Append(text, token))
               = step[Fold(step, base, text)][token]
<1> DEFINE u == Append(text, token)
           n == Len(text)
<1>1. /\ u \in Seq(T) /\ Len(u) = n + 1 /\ n \in Nat
      /\ \A i \in 1 .. n : u[i] = text[i]
      /\ u[n + 1] = token
  BY AppendProperties
<1> HIDE DEF n
<1>2. PICK f : /\ Fold(step, base, text) = f[n]
               /\ \A i \in 0 .. n : FoldStep(f, step, base, text, i)
  BY <1>1, FoldRuns DEF n
<1> HIDE DEF u
<1>3. PICK h : /\ Fold(step, base, u) = h[n + 1]
               /\ \A i \in 0 .. n + 1 : FoldStep(h, step, base, u, i)
  <2>1. n + 1 \in Nat
    BY <1>1
  <2> QED
    BY <1>1, <2>1, FoldRuns
<1> DEFINE S == {k \in Nat : k <= n => f[k] = h[k]}
<1>5. 0 \in S
  <2>1. 0 \in 0 .. n /\ 0 \in 0 .. n + 1
    BY <1>1
  <2> QED
    BY <1>2, <1>3, <2>1 DEF FoldStep
<1>6. ASSUME NEW k \in Nat, k \in S
      PROVE  k + 1 \in S
  <2>1. SUFFICES ASSUME k + 1 <= n PROVE f[k + 1] = h[k + 1]
    OBVIOUS
  <2>2. /\ f[k] = h[k] /\ u[k + 1] = text[k + 1]
        /\ k + 1 \in 0 .. n /\ k + 1 \in 0 .. n + 1 /\ k + 1 # 0 /\ (k + 1) - 1 = k
    BY <1>1, <1>6, <2>1
  <2> QED
    BY <1>2, <1>3, <2>2 DEF FoldStep
<1>7. \A k \in Nat : k \in S
  <2> HIDE DEF S
  <2> QED BY <1>5, <1>6, SetInduction
<1>8. f[n] = h[n]
  BY <1>1, <1>7
<1>9. h[n + 1] = step[h[n]][token]
  <2>1. n + 1 \in 0 .. n + 1 /\ n + 1 # 0 /\ (n + 1) - 1 = n
    BY <1>1
  <2> QED
    BY <1>1, <1>3, <2>1 DEF FoldStep
<1>10. QED
  BY <1>2, <1>3, <1>8, <1>9 DEF u

-----------------------------------------------------------------------------
(* Sequences.                                                              *)

\* The ends of an appended sequence.
LEMMA AppendEnds ==
    ASSUME NEW T, NEW s \in Seq(T), NEW x \in T
    PROVE  /\ Append(s, x) \in Seq(T) /\ Append(s, x) # <<>>
           /\ Len(Append(s, x)) = Len(s) + 1
           /\ Last(Append(s, x)) = x /\ Front(Append(s, x)) = s
           /\ EndsInSlash(Append(s, x)) <=> x = Slash
           /\ Head(Append(s, x)) = IF s = <<>> THEN x ELSE Head(s)
<1> DEFINE u == Append(s, x)
<1>1. /\ u \in Seq(T) /\ u # <<>> /\ Len(u) = Len(s) + 1 /\ Len(s) \in Nat
      /\ \A i \in 1 .. Len(s) : u[i] = s[i]
      /\ u[Len(s) + 1] = x
  BY AppendProperties
<1>2. Last(u) = x
  BY <1>1 DEF Last
<1>3. Front(u) = s
  <2>1. Front(u) = SubSeq(u, 1, Len(s))
    BY <1>1 DEF Front
  <2>2. \A i \in 1 .. Len(s) : u[i] \in T
    BY <1>1, ElementOfSeq
  <2>3. /\ SubSeq(u, 1, Len(s)) \in Seq(T)
        /\ Len(SubSeq(u, 1, Len(s))) = Len(s)
        /\ \A i \in 1 .. Len(s) : SubSeq(u, 1, Len(s))[i] = u[i]
    <3> HIDE DEF u
    <3> QED BY <1>1, <2>2, SubSeqProperties
  <2>4. QED
    BY <1>1, <2>1, <2>3, SeqEqual
<1>4. Head(u) = IF s = <<>> THEN x ELSE Head(s)
  BY HeadTailAppend
<1>5. QED
  BY <1>1, <1>2, <1>3, <1>4 DEF EndsInSlash

\* A sequence is its front and its last element.
LEMMA FrontAndLast ==
    ASSUME NEW T, NEW s \in Seq(T), s # <<>>
    PROVE  /\ Front(s) \in Seq(T) /\ Last(s) \in T
           /\ s = Append(Front(s), Last(s))
<1>1. PICK u \in Seq(T), x \in T : s = Append(u, x)
  BY SequenceEmptyOrAppend
<1>2. QED
  BY <1>1, AppendEnds

\* Appending to the second part appends to the whole.
LEMMA ConcatAppend ==
    ASSUME NEW T, NEW s \in Seq(T), NEW t \in Seq(T), NEW x \in T
    PROVE  s \o Append(t, x) = Append(s \o t, x) /\ s \o t \in Seq(T)
<1>1. <<x>> \in Seq(T) /\ s \o t \in Seq(T)
  BY ConcatProperties
<1>2. Append(t, x) = t \o <<x>> /\ Append(s \o t, x) = (s \o t) \o <<x>>
  BY <1>1, AppendIsConcat
<1>3. QED
  BY <1>1, <1>2, ConcatAssociative

\* The ends of a concatenation.
LEMMA ConcatEnds ==
    ASSUME NEW T, NEW s \in Seq(T), NEW t \in Seq(T), t # <<>>
    PROVE  /\ s \o t \in Seq(T) /\ s \o t # <<>>
           /\ Last(s \o t) = Last(t)
           /\ Head(s \o t) = IF s = <<>> THEN Head(t) ELSE Head(s)
<1>1. PICK u \in Seq(T), x \in T : t = Append(u, x)
  BY SequenceEmptyOrAppend
<1>2. s \o t = Append(s \o u, x) /\ s \o u \in Seq(T)
  BY <1>1, ConcatAppend
<1>3. s \o t \in Seq(T) /\ s \o t # <<>> /\ Last(s \o t) = Last(t)
  <2>1. Last(t) = x
    BY <1>1, AppendEnds
  <2>2. /\ Append(s \o u, x) \in Seq(T) /\ Append(s \o u, x) # <<>>
        /\ Last(Append(s \o u, x)) = x
    BY <1>2, AppendEnds
  <2> QED
    BY <1>2, <2>1, <2>2
<1>4. CASE s = <<>>
  BY <1>3, <1>4, ConcatEmptySeq
<1>5. CASE s # <<>>
  <2>1. Len(s) \in Nat /\ Len(s) > 0
    BY <1>5, EmptySeq
  <2>2. (s \o t)[1] = s[1]
    BY <2>1, ConcatProperties
  <2>3. QED
    BY <1>3, <1>5, <2>2
<1>6. QED
  BY <1>3, <1>4, <1>5

\* What a prefix is and what it leaves.
LEMMA PrefixLeaves ==
    ASSUME NEW T, NEW s \in Seq(T), NEW t \in Seq(T), IsPrefix(s, t)
    PROVE  LET r == SubSeq(t, Len(s) + 1, Len(t))
           IN  r \in Seq(T) /\ t = s \o r
<1> DEFINE r == SubSeq(t, Len(s) + 1, Len(t))
<1>1. Len(s) \in Nat /\ Len(t) \in Nat /\ Len(s) <= Len(t)
      /\ SubSeq(s, 1, Len(s)) = SubSeq(t, 1, Len(s))
  BY DEF IsPrefix
<1>2. s = SubSeq(t, 1, Len(s))
  BY <1>1, SubSeqFull
<1>3. r \in Seq(T)
  <2>1. \A i \in Len(s) + 1 .. Len(t) : t[i] \in T
    BY <1>1, ElementOfSeq
  <2> QED
    BY <1>1, <2>1, SubSeqProperties
<1>4. SubSeq(t, 1, Len(s)) \o r = SubSeq(t, 1, Len(t))
  <2>1. /\ 1 \in 1 .. Len(t) + 1 /\ Len(s) \in 1 - 1 .. Len(t)
        /\ Len(t) \in Len(s) .. Len(t)
    BY <1>1
  <2> QED
    BY <2>1, ConcatAdjacentSubSeq
<1>5. SubSeq(t, 1, Len(t)) = t
  BY SubSeqFull
<1>6. QED
  BY <1>2, <1>3, <1>4, <1>5

\* What is put before a sequence is a prefix that leaves it.
LEMMA PrefixOfConcat ==
    ASSUME NEW T, NEW s \in Seq(T), NEW r \in Seq(T)
    PROVE  /\ IsPrefix(s, s \o r)
           /\ SubSeq(s \o r, Len(s) + 1, Len(s \o r)) = r
<1> DEFINE t == s \o r
<1>1. /\ t \in Seq(T) /\ Len(t) = Len(s) + Len(r) /\ Len(s) \in Nat /\ Len(r) \in Nat
      /\ \A i \in 1 .. Len(s) + Len(r) :
             t[i] = IF i <= Len(s) THEN s[i] ELSE r[i - Len(s)]
  BY ConcatProperties
<1> HIDE DEF t
<1>2. \A i \in 1 .. Len(t) : t[i] \in T
  BY <1>1, ElementOfSeq
<1>3. /\ SubSeq(t, 1, Len(s)) \in Seq(T)
      /\ Len(SubSeq(t, 1, Len(s))) = Len(s)
      /\ \A i \in 1 .. Len(s) : SubSeq(t, 1, Len(s))[i] = t[i]
  <2>1. \A i \in 1 .. Len(s) : t[i] \in T
    BY <1>1, <1>2
  <2> QED
    BY <1>1, <2>1, SubSeqProperties
<1>4. SubSeq(t, 1, Len(s)) = s
  BY <1>1, <1>3, SeqEqual
<1>5. IsPrefix(s, t)
  BY <1>1, <1>4, SubSeqFull DEF IsPrefix
<1> DEFINE m == Len(s) + 1
           v == SubSeq(t, m, Len(t))
<1>6. m \in Nat /\ Len(t) \in Nat /\ \A i \in m .. Len(t) : t[i] \in T
  BY <1>1, <1>2
<1>7. /\ v \in Seq(T) /\ Len(v) = IF m <= Len(t) THEN Len(t) - m + 1 ELSE 0
      /\ \A i \in 1 .. Len(t) - m + 1 : v[i] = t[m + i - 1]
  BY <1>6, SubSeqProperties
<1>8. Len(v) = Len(r)
  BY <1>1, <1>7
<1>9. \A i \in 1 .. Len(r) : v[i] = r[i]
  <2> SUFFICES ASSUME NEW i \in 1 .. Len(r) PROVE v[i] = r[i]
    OBVIOUS
  <2>1. i \in 1 .. Len(t) - m + 1 /\ m + i - 1 = Len(s) + i
    BY <1>1
  <2>2. v[i] = t[Len(s) + i]
    BY <1>7, <2>1
  <2>3. /\ Len(s) + i \in 1 .. Len(s) + Len(r) /\ ~(Len(s) + i <= Len(s))
        /\ (Len(s) + i) - Len(s) = i
    BY <1>1
  <2> HIDE DEF v
  <2> QED
    BY <1>1, <2>2, <2>3
<1>10. v = r
  <2> HIDE DEF v
  <2> QED BY <1>7, <1>8, <1>9, SeqEqual
<1>11. QED
  BY <1>5, <1>10 DEF t

-----------------------------------------------------------------------------
(* Paths.                                                                  *)

NameTokens == Tokens \ Separators

\* Slashes alone, and never two in a row.
Clean(path) ==
    /\ path \in Seq(Tokens)
    /\ \A i \in 1 .. Len(path) : path[i] \in Separators => path[i] = Slash
    /\ \A i \in 1 .. Len(path) - 1 : path[i] # Slash \/ path[i + 1] # Slash

\* A path stays clean with a name token, or a slash where none is.
LEMMA CleanAppend ==
    ASSUME NEW path, Clean(path), NEW token \in Tokens,
           token \notin Separators \/ (token = Slash /\ ~EndsInSlash(path))
    PROVE  Clean(Append(path, token))
<1> DEFINE u == Append(path, token)
<1>1. path \in Seq(Tokens) /\ Len(path) \in Nat
  BY DEF Clean
<1>2. /\ u \in Seq(Tokens) /\ Len(u) = Len(path) + 1
      /\ \A i \in 1 .. Len(path) : u[i] = path[i]
      /\ u[Len(path) + 1] = token
  BY <1>1, AppendProperties
<1> HIDE DEF u
<1>3. ASSUME NEW i \in 1 .. Len(u), u[i] \in Separators PROVE u[i] = Slash
  <2>1. i \in 1 .. Len(path) \/ i = Len(path) + 1
    BY <1>1, <1>2
  <2> QED
    BY <1>2, <1>3, <2>1 DEF Clean
<1>4. ASSUME NEW i \in 1 .. Len(u) - 1 PROVE u[i] # Slash \/ u[i + 1] # Slash
  <2>1. CASE i = Len(path)
    <3>1. path # <<>> /\ u[i] = Last(path) /\ u[i + 1] = token
      BY <1>1, <1>2, <2>1 DEF Last
    <3>2. Slash \in Separators
      BY DEF Separators, Slash
    <3> QED
      BY <3>1, <3>2 DEF EndsInSlash
  <2>2. CASE i # Len(path)
    <3>1. i \in 1 .. Len(path) - 1 /\ i \in 1 .. Len(path) /\ i + 1 \in 1 .. Len(path)
      BY <1>1, <1>2, <2>2
    <3> QED
      BY <1>2, <3>1 DEF Clean
  <2> QED
    BY <2>1, <2>2
<1>5. QED
  BY <1>2, <1>3, <1>4 DEF Clean, u

\* Both parts of a clean path are clean, and one slash is between them.
LEMMA CleanPart ==
    ASSUME NEW s \in Seq(Tokens), NEW t \in Seq(Tokens), Clean(s \o t)
    PROVE  /\ Clean(s) /\ Clean(t)
           /\ ~(EndsInSlash(s) /\ t # <<>> /\ Head(t) = Slash)
<1> DEFINE u == s \o t
<1>1. /\ u \in Seq(Tokens) /\ Len(u) = Len(s) + Len(t)
      /\ Len(s) \in Nat /\ Len(t) \in Nat
      /\ \A i \in 1 .. Len(s) + Len(t) :
             u[i] = IF i <= Len(s) THEN s[i] ELSE t[i - Len(s)]
  BY ConcatProperties
<1>2. Clean(u)
  OBVIOUS
<1> HIDE DEF u
<1>3. \A i \in 1 .. Len(s) : u[i] = s[i] /\ i \in 1 .. Len(u)
  BY <1>1
<1>4. \A i \in 1 .. Len(t) : u[Len(s) + i] = t[i] /\ Len(s) + i \in 1 .. Len(u)
  <2> TAKE i \in 1 .. Len(t)
  <2>1. /\ Len(s) + i \in 1 .. Len(s) + Len(t)
        /\ ~(Len(s) + i <= Len(s)) /\ (Len(s) + i) - Len(s) = i
    BY <1>1
  <2> QED
    BY <1>1, <2>1
<1>5. Clean(s)
  <2>1. \A i \in 1 .. Len(s) : s[i] \in Separators => s[i] = Slash
    BY <1>2, <1>3 DEF Clean
  <2>2. ASSUME NEW i \in 1 .. Len(s) - 1 PROVE s[i] # Slash \/ s[i + 1] # Slash
    <3>1. i \in 1 .. Len(s) /\ i + 1 \in 1 .. Len(s) /\ i \in 1 .. Len(u) - 1
      BY <1>1
    <3> QED
      BY <1>2, <1>3, <3>1 DEF Clean
  <2> QED
    BY <2>1, <2>2 DEF Clean
<1>6. Clean(t)
  <2>1. \A i \in 1 .. Len(t) : t[i] \in Separators => t[i] = Slash
    BY <1>2, <1>4 DEF Clean
  <2>2. ASSUME NEW i \in 1 .. Len(t) - 1 PROVE t[i] # Slash \/ t[i + 1] # Slash
    <3>1. /\ i \in 1 .. Len(t) /\ i + 1 \in 1 .. Len(t)
          /\ Len(s) + i \in 1 .. Len(u) - 1
          /\ Len(s) + (i + 1) = (Len(s) + i) + 1
      BY <1>1
    <3>2. u[Len(s) + i] # Slash \/ u[(Len(s) + i) + 1] # Slash
      BY <1>2, <3>1 DEF Clean
    <3> QED
      BY <1>4, <3>1, <3>2
  <2> QED
    BY <2>1, <2>2 DEF Clean
<1>7. ASSUME EndsInSlash(s), t # <<>>, Head(t) = Slash PROVE FALSE
  <2>1. Len(s) > 0 /\ Len(t) > 0 /\ s[Len(s)] = Slash /\ t[1] = Slash
    BY <1>1, <1>7, EmptySeq DEF EndsInSlash, Last
  <2>2. Len(s) \in 1 .. Len(s) /\ 1 \in 1 .. Len(t) /\ Len(s) \in 1 .. Len(u) - 1
    BY <1>1, <2>1
  <2>3. u[Len(s)] = Slash /\ u[Len(s) + 1] = Slash
    BY <1>3, <1>4, <2>1, <2>2
  <2> QED
    BY <1>2, <2>2, <2>3 DEF Clean
<1>8. QED
  BY <1>5, <1>6, <1>7

Squeezed(text) == Fold(Squeeze, <<>>, text)

\* One step of the squeezing.
LEMMA SqueezeMeans ==
    ASSUME NEW path \in Seq(Tokens), NEW token \in Tokens
    PROVE  Squeeze[path][token] =
               IF token \notin Separators THEN Append(path, token)
               ELSE IF EndsInSlash(path) THEN path ELSE Append(path, Slash)
BY DEF Squeeze

\* The separator that is left is one of the tokens.
LEMMA SlashIsToken == Slash \in Tokens /\ Slash \in Separators
BY EfuAssumption DEF Separators, Slash

\* A step of the squeezing keeps a path clean.
LEMMA SqueezeKeepsClean ==
    ASSUME NEW path, Clean(path), NEW token \in Tokens
    PROVE  Clean(Squeeze[path][token])
<1>1. path \in Seq(Tokens)
  BY DEF Clean
<1>2. CASE token \notin Separators
  BY <1>1, <1>2, CleanAppend, SqueezeMeans
<1>3. CASE token \in Separators /\ EndsInSlash(path)
  BY <1>1, <1>3, SqueezeMeans
<1>4. CASE token \in Separators /\ ~EndsInSlash(path)
  BY <1>1, <1>4, CleanAppend, SqueezeMeans, SlashIsToken
<1>5. QED
  BY <1>2, <1>3, <1>4

\* Squeezed text is clean.
LEMMA SqueezedIsClean ==
    ASSUME NEW text \in Seq(Tokens)
    PROVE  Clean(Squeezed(text))
<1> DEFINE S == {t \in Seq(Tokens) : Clean(Squeezed(t))}
<1>1. <<>> \in S
  <2>1. Squeezed(<<>>) = <<>> /\ <<>> \in Seq(Tokens) /\ Len(<<>>) = 0
    BY FoldEmpty, EmptySeq DEF Squeezed
  <2>2. Clean(<<>>)
    BY <2>1 DEF Clean
  <2> QED
    BY <2>1, <2>2
<1>2. ASSUME NEW s \in Seq(Tokens), NEW x \in Tokens, s \in S
      PROVE  Append(s, x) \in S
  <2>1. Clean(Squeezed(s)) /\ Squeezed(s) \in Seq(Tokens)
    BY <1>2 DEF Clean
  <2>2. Squeezed(Append(s, x)) = Squeeze[Squeezed(s)][x]
    BY FoldAppend DEF Squeezed
  <2>3. Clean(Squeeze[Squeezed(s)][x])
    BY <2>1, SqueezeKeepsClean
  <2>4. Append(s, x) \in Seq(Tokens)
    BY AppendProperties
  <2> QED
    BY <2>2, <2>3, <2>4
<1>3. \A t \in Seq(Tokens) : t \in S
  <2> HIDE DEF S
  <2> QED BY <1>1, <1>2, SequenceInduction
<1>4. QED
  BY <1>3

\* normalizeWindowsPath leaves a clean path without a slash at its end.
LEMMA NormalizeIsClean ==
    ASSUME NEW text \in Seq(Tokens)
    PROVE  Clean(Normalize(text)) /\ ~EndsInSlash(Normalize(text))
<1> DEFINE p == Squeezed(text)
<1>1. Clean(p) /\ p \in Seq(Tokens)
  BY SqueezedIsClean DEF Clean
<1>2. Normalize(text) = IF EndsInSlash(p) THEN Front(p) ELSE p
  BY DEF Normalize, Squeezed
<1> HIDE DEF p
<1>3. CASE ~EndsInSlash(p)
  BY <1>1, <1>2, <1>3
<1>4. CASE EndsInSlash(p)
  <2>1. /\ p # <<>> /\ Last(p) = Slash /\ Front(p) \in Seq(Tokens)
        /\ p = Append(Front(p), Slash)
    BY <1>1, <1>4, FrontAndLast DEF EndsInSlash
  <2>2. <<Slash>> \in Seq(Tokens) /\ <<Slash>> # <<>> /\ Head(<<Slash>>) = Slash
    BY SlashIsToken
  <2>3. p = Front(p) \o <<Slash>>
    BY <2>1, SlashIsToken, AppendIsConcat
  <2>4. Clean(Front(p)) /\ ~EndsInSlash(Front(p))
    BY <1>1, <2>1, <2>2, <2>3, CleanPart
  <2> QED
    BY <1>2, <1>4, <2>4
<1>5. QED
  BY <1>3, <1>4

PrefixOK == file.prefix \in Seq(Tokens)

\* TrimLeft of a path that never has two slashes in a row.
Unrooted(path) == IF path # <<>> /\ Head(path) = Slash THEN Tail(path) ELSE path

\* What is put before a sequence is its head, and the sequence its tail.
LEMMA TailMeans ==
    ASSUME NEW T, NEW x \in T, NEW t \in Seq(T)
    PROVE  /\ Tail(<<x>> \o t) = t /\ Head(<<x>> \o t) = x
           /\ <<x>> \o t # <<>> /\ <<x>> \o t \in Seq(T) /\ <<x>> \in Seq(T)
<1>1. <<x>> \in Seq(T) /\ Len(<<x>>) = 1 /\ <<x>>[1] = x
  OBVIOUS
<1>2. <<x>> \o t \in Seq(T) /\ Len(<<x>> \o t) = 1 + Len(t)
      /\ \A i \in 1 .. 1 + Len(t) :
             (<<x>> \o t)[i] = IF i <= 1 THEN <<x>>[i] ELSE t[i - 1]
  BY <1>1, ConcatProperties
<1> DEFINE u == <<x>> \o t
<1> HIDE DEF u
<1>3. u \in Seq(T) /\ u # <<>> /\ Len(u) = 1 + Len(t) /\ Len(t) \in Nat /\ u[1] = x
      /\ \A i \in 1 .. Len(t) : u[i + 1] = t[i]
  <2>1. 1 \in 1 .. 1 + Len(t) /\ Len(t) \in Nat
    OBVIOUS
  <2>2. ASSUME NEW i \in 1 .. Len(t) PROVE u[i + 1] = t[i]
    <3>1. i + 1 \in 1 .. 1 + Len(t) /\ ~(i + 1 <= 1) /\ (i + 1) - 1 = i
      OBVIOUS
    <3> QED
      BY <1>2, <3>1 DEF u
  <2>3. u # <<>>
    BY <1>2, <2>1, EmptySeq DEF u
  <2> QED
    BY <1>1, <1>2, <2>1, <2>2, <2>3 DEF u
<1>4. /\ Tail(u) \in Seq(T) /\ Len(Tail(u)) = Len(t)
      /\ \A i \in 1 .. Len(t) : Tail(u)[i] = t[i]
  BY <1>3, HeadTailProperties
<1>5. Tail(u) = t
  BY <1>4, SeqEqual
<1>6. QED
  BY <1>1, <1>3, <1>5 DEF u

\* A sequence is its head and its tail.
LEMMA HeadAndTail ==
    ASSUME NEW T, NEW s \in Seq(T), s # <<>>
    PROVE  /\ Head(s) \in T /\ Tail(s) \in Seq(T) /\ <<Head(s)>> \in Seq(T)
           /\ s = <<Head(s)>> \o Tail(s)
<1> DEFINE u == <<Head(s)>> \o Tail(s)
<1>1. /\ Head(s) \in T /\ Tail(s) \in Seq(T) /\ Len(Tail(s)) = Len(s) - 1
      /\ \A i \in 1 .. Len(Tail(s)) : Tail(s)[i] = s[i + 1]
      /\ Len(s) \in Nat /\ Len(s) > 0 /\ s[1] = Head(s)
  BY HeadTailProperties, EmptySeq
<1>2. <<Head(s)>> \in Seq(T) /\ Len(<<Head(s)>>) = 1 /\ <<Head(s)>>[1] = Head(s)
  BY <1>1
<1>3. u \in Seq(T) /\ Len(u) = 1 + Len(Tail(s))
      /\ \A i \in 1 .. 1 + Len(Tail(s)) :
             u[i] = IF i <= 1 THEN <<Head(s)>>[i] ELSE Tail(s)[i - 1]
  BY <1>1, <1>2, ConcatProperties
<1> HIDE DEF u
<1>4. ASSUME NEW i \in 1 .. Len(s) PROVE u[i] = s[i]
  <2>1. CASE i = 1
    BY <1>1, <1>2, <1>3, <2>1
  <2>2. CASE i # 1
    <3>1. i \in 1 .. 1 + Len(Tail(s)) /\ ~(i <= 1) /\ i - 1 \in 1 .. Len(Tail(s))
          /\ (i - 1) + 1 = i
      BY <1>1, <2>2
    <3> QED
      BY <1>1, <1>3, <3>1
  <2> QED
    BY <2>1, <2>2
<1>5. Len(u) = Len(s)
  BY <1>1, <1>3
<1>6. u = s
  BY <1>3, <1>4, <1>5, SeqEqual
<1>7. QED
  BY <1>1, <1>2, <1>6 DEF u

\* CatalogPath, in terms of what is cut from which end.
LEMMA CatalogPathMeans ==
    ASSUME NEW text
    PROVE  CatalogPath(text) =
               Unrooted(TrimPrefix(Normalize(text), Normalize(file.prefix)))
BY DEF CatalogPath, Unrooted

\* Whatever the prefix: the path of an entry begins and ends with a name, and
\* has single slashes between its names.
LEMMA CatalogPathIsClean ==
    ASSUME PrefixOK, NEW text \in Seq(Tokens)
    PROVE  /\ Clean(CatalogPath(text)) /\ ~EndsInSlash(CatalogPath(text))
           /\ CatalogPath(text) # <<>> => Head(CatalogPath(text)) # Slash
<1> DEFINE p == Normalize(text)
           q == Normalize(file.prefix)
           r == TrimPrefix(p, q)
<1>1. Clean(p) /\ ~EndsInSlash(p) /\ p \in Seq(Tokens) /\ q \in Seq(Tokens)
  BY NormalizeIsClean DEF PrefixOK, Clean
<1>2. CatalogPath(text) = Unrooted(r)
  BY CatalogPathMeans
<1> HIDE DEF p, q
<1>3. Clean(r) /\ ~EndsInSlash(r)
  <2>1. CASE ~IsPrefix(q, p)
    BY <1>1, <2>1 DEF TrimPrefix
  <2>2. CASE IsPrefix(q, p)
    <3>1. r \in Seq(Tokens) /\ p = q \o r
      BY <1>1, <2>2, PrefixLeaves DEF TrimPrefix
    <3> HIDE DEF r
    <3>2. Clean(r)
      BY <1>1, <3>1, CleanPart
    <3>3. r # <<>> => Last(p) = Last(r) /\ p # <<>>
      BY <1>1, <3>1, ConcatEnds
    <3> QED
      BY <1>1, <3>2, <3>3 DEF EndsInSlash
  <2> QED
    BY <2>1, <2>2
<1> HIDE DEF r
<1>4. CASE ~(r # <<>> /\ Head(r) = Slash)
  BY <1>2, <1>3, <1>4 DEF Unrooted
<1>5. CASE r # <<>> /\ Head(r) = Slash
  <2> DEFINE t == Tail(r)
  <2>1. r \in Seq(Tokens) /\ t \in Seq(Tokens) /\ r = <<Slash>> \o t
        /\ <<Slash>> \in Seq(Tokens)
    BY <1>3, <1>5, HeadAndTail DEF Clean
  <2>2. CatalogPath(text) = t
    BY <1>2, <1>5 DEF Unrooted
  <2> HIDE DEF t
  <2>3. EndsInSlash(<<Slash>>)
    BY DEF EndsInSlash, Last
  <2>4. Clean(t) /\ (t # <<>> => Head(t) # Slash)
    BY <1>3, <2>1, <2>3, CleanPart
  <2>5. t # <<>> => Last(t) = Last(r)
    BY <2>1, ConcatEnds
  <2>6. ~EndsInSlash(t)
    BY <1>3, <1>5, <2>5 DEF EndsInSlash
  <2> QED
    BY <2>2, <2>4, <2>6
<1>6. QED
  BY <1>4, <1>5

-----------------------------------------------------------------------------
(* Names.                                                                  *)

Found      == [open : BOOLEAN, names : Seq(Seq(Tokens))]
NoNames    == [open |-> FALSE, names |-> <<>>]
Split(text) == Fold(SplitAt, NoNames, text)

\* What is found in a text: names of name tokens, the last of them open only
\* if there is one.
Finding(found) ==
    /\ found \in [open : BOOLEAN, names : Seq(Name)]
    /\ found.open => found.names # <<>>

\* Names are texts themselves.
LEMMA NamesAreTexts == Name \subseteq Seq(Tokens) /\ Seq(Name) \subseteq Seq(Seq(Tokens))
<1>1. Name \subseteq Seq(Tokens)
  <2> SUFFICES ASSUME NEW n \in Seq(NameTokens) PROVE n \in Seq(Tokens)
    BY DEF Name, NameTokens
  <2> QED
    BY SeqMonotonic DEF NameTokens
<1>2. QED
  BY <1>1, SeqMonotonic

\* A name goes on, or a new one begins.
Grown(found, token) ==
    IF found.open
      THEN Append(Front(found.names), Append(Last(found.names), token))
      ELSE Append(found.names, <<token>>)

\* One step of the splitting.
LEMMA SplitMeans ==
    ASSUME NEW found, Finding(found), NEW token \in Tokens
    PROVE  SplitAt[found][token] =
               IF token \in Separators
                 THEN [open |-> FALSE, names |-> found.names]
                 ELSE [open |-> TRUE, names |-> Grown(found, token)]
<1>1. found \in Found
  BY NamesAreTexts DEF Finding, Found
<1>2. QED
  BY <1>1 DEF SplitAt, Found, Grown

\* Names stay names when a token is added.
LEMMA GrownNames ==
    ASSUME NEW found, Finding(found), NEW token \in NameTokens
    PROVE  Finding([open |-> TRUE, names |-> Grown(found, token)])
<1>1. found.names \in Seq(Name) /\ found.open \in BOOLEAN
  BY DEF Finding
<1>2. <<token>> \in Name
  BY DEF Name, NameTokens
<1>3. CASE ~found.open
  BY <1>1, <1>2, <1>3, AppendEnds DEF Finding, Grown
<1>4. CASE found.open
  <2>1. Front(found.names) \in Seq(Name) /\ Last(found.names) \in Name
    BY <1>1, <1>4, FrontAndLast DEF Finding
  <2>2. Append(Last(found.names), token) \in Name
    BY <2>1, AppendEnds DEF Name, NameTokens
  <2> DEFINE grown == Append(Front(found.names), Append(Last(found.names), token))
  <2>3. Grown(found, token) = grown
    BY <1>4 DEF Grown
  <2>4. grown \in Seq(Name) /\ grown # <<>>
    BY <2>1, <2>2, AppendEnds
  <2> HIDE DEF grown
  <2> QED
    BY <2>3, <2>4 DEF Finding
<1>5. QED
  BY <1>1, <1>3, <1>4

\* Whatever the text, what is found in it are names.
LEMMA SplitFinds ==
    ASSUME NEW text \in Seq(Tokens)
    PROVE  Finding(Split(text))
<1> DEFINE S == {t \in Seq(Tokens) : Finding(Split(t))}
<1>1. <<>> \in S
  <2>1. Split(<<>>) = NoNames
    BY FoldEmpty DEF Split
  <2>2. Finding(NoNames)
    BY EmptySeq DEF Finding, NoNames
  <2> QED
    BY <2>1, <2>2, EmptySeq
<1>2. ASSUME NEW s \in Seq(Tokens), NEW x \in Tokens, s \in S
      PROVE  Append(s, x) \in S
  <2>1. Finding(Split(s))
    BY <1>2
  <2>2. Split(Append(s, x)) = SplitAt[Split(s)][x]
    BY FoldAppend DEF Split
  <2>3. Finding(SplitAt[Split(s)][x])
    <3>1. CASE x \in Separators
      <4>1. SplitAt[Split(s)][x] = [open |-> FALSE, names |-> Split(s).names]
        BY <2>1, <3>1, SplitMeans
      <4> HIDE DEF S
      <4> QED
        BY <2>1, <4>1 DEF Finding
    <3>2. CASE x \notin Separators
      <4>1. x \in NameTokens
        BY <3>2 DEF NameTokens
      <4>2. SplitAt[Split(s)][x] = [open |-> TRUE, names |-> Grown(Split(s), x)]
        BY <2>1, <3>2, SplitMeans
      <4> QED
        BY <2>1, <4>1, <4>2, GrownNames
    <3> QED
      BY <3>1, <3>2
  <2>4. Append(s, x) \in Seq(Tokens)
    BY AppendEnds
  <2> QED
    BY <2>2, <2>3, <2>4
<1>3. \A t \in Seq(Tokens) : t \in S
  <2> HIDE DEF S
  <2> QED BY <1>1, <1>2, SequenceInduction
<1>4. QED
  BY <1>3

\* A text with one token more has the names that step gives.
LEMMA SplitAppend ==
    ASSUME NEW text \in Seq(Tokens), NEW token \in Tokens
    PROVE  Split(Append(text, token)) =
               IF token \in Separators
                 THEN [open |-> FALSE, names |-> Split(text).names]
                 ELSE [open |-> TRUE, names |-> Grown(Split(text), token)]
<1>1. Split(Append(text, token)) = SplitAt[Split(text)][token]
  BY FoldAppend DEF Split
<1>2. QED
  BY <1>1, SplitFinds, SplitMeans

-----------------------------------------------------------------------------
(* The path that names make.                                               *)

\* A path without names is its start.
LEMMA JoinEmpty == ASSUME NEW start PROVE Join(start, <<>>) = start
BY FoldEmpty DEF Join

\* A name neither begins nor ends with a separator.
LEMMA NameEnds ==
    ASSUME NEW name \in Name
    PROVE  /\ name \in Seq(Tokens) /\ name # <<>> /\ name \in Seq(NameTokens)
           /\ Head(name) \notin Separators /\ Last(name) \notin Separators
<1>1. name \in Seq(Tokens) /\ name # <<>> /\ name \in Seq(NameTokens)
  BY NamesAreTexts DEF Name, NameTokens
<1>2. Head(name) \in NameTokens /\ Last(name) \in NameTokens
  BY <1>1, FrontAndLast, HeadAndTail
<1>3. QED
  BY <1>1, <1>2 DEF NameTokens

\* A path made ready for a name begins as before.
LEMMA OpenedMeans ==
    ASSUME NEW path \in Seq(Tokens)
    PROVE  /\ Opened(path) \in Seq(Tokens)
           /\ path # <<>> => /\ Opened(path) # <<>>
                             /\ Head(Opened(path)) = Head(path)
           /\ path = <<>> => Opened(path) = <<>>
BY SlashIsToken, AppendEnds DEF Opened

\* Names make a text.
LEMMA JoinTyped ==
    ASSUME NEW start \in Seq(Tokens), NEW names \in Seq(Name)
    PROVE  Join(start, names) \in Seq(Tokens)
<1> DEFINE S == {ns \in Seq(Name) : Join(start, ns) \in Seq(Tokens)}
<1>1. <<>> \in S
  BY JoinEmpty, EmptySeq
<1>2. ASSUME NEW ns \in Seq(Name), NEW n \in Name, ns \in S
      PROVE  Append(ns, n) \in S
  <2>1. Join(start, Append(ns, n)) = JoinStep[Join(start, ns)][n]
    BY FoldAppend DEF Join
  <2>2. JoinStep[Join(start, ns)][n] = Opened(Join(start, ns)) \o n
    BY <1>2 DEF JoinStep
  <2>3. Opened(Join(start, ns)) \in Seq(Tokens)
    BY <1>2, OpenedMeans
  <2>4. Opened(Join(start, ns)) \o n \in Seq(Tokens)
    BY <2>3, NameEnds, ConcatEnds
  <2> QED
    BY <2>1, <2>2, <2>4, AppendEnds
<1>3. \A ns \in Seq(Name) : ns \in S
  <2> HIDE DEF S
  <2> QED BY <1>1, <1>2, SequenceInduction
<1>4. QED
  BY <1>3

\* One name more: a slash, unless there is one, and the name.
LEMMA JoinAppend ==
    ASSUME NEW start \in Seq(Tokens), NEW names \in Seq(Name), NEW name \in Name
    PROVE  /\ Join(start, Append(names, name)) = Opened(Join(start, names)) \o name
           /\ Opened(Join(start, names)) \in Seq(Tokens)
           /\ Join(start, Append(names, name)) # <<>>
           /\ ~EndsInSlash(Join(start, Append(names, name)))
<1>1. Join(start, names) \in Seq(Tokens)
  BY JoinTyped
<1>2. Join(start, Append(names, name)) = JoinStep[Join(start, names)][name]
  BY FoldAppend DEF Join
<1>3. JoinStep[Join(start, names)][name] = Opened(Join(start, names)) \o name
  BY <1>1 DEF JoinStep
<1>4. Opened(Join(start, names)) \in Seq(Tokens)
  BY <1>1, OpenedMeans
<1>5. /\ Opened(Join(start, names)) \o name # <<>>
      /\ Last(Opened(Join(start, names)) \o name) = Last(name)
  BY <1>4, NameEnds, ConcatEnds
<1>6. Last(name) # Slash
  BY NameEnds, SlashIsToken
<1>7. QED
  BY <1>2, <1>3, <1>4, <1>5, <1>6 DEF EndsInSlash

\* Three texts in a row are one, wherever the brackets are.
LEMMA TextsAssociate == \A x, y, z \in Seq(Tokens) : (x \o y) \o z = x \o (y \o z)
BY ConcatAssociative

\* The path of some names ends in a name.
LEMMA JoinEnds ==
    ASSUME NEW start \in Seq(Tokens), NEW names \in Seq(Name), names # <<>>
    PROVE  /\ Join(start, names) \in Seq(Tokens) /\ Join(start, names) # <<>>
           /\ ~EndsInSlash(Join(start, names))
<1>1. PICK ns \in Seq(Name), n \in Name : names = Append(ns, n)
  BY SequenceEmptyOrAppend
<1>2. QED
  BY <1>1, JoinTyped, JoinAppend

\* A token that continues the last name continues the path.
LEMMA JoinGrows ==
    ASSUME NEW start \in Seq(Tokens), NEW names \in Seq(Name), names # <<>>,
           NEW token \in NameTokens
    PROVE  Join(start, Append(Front(names), Append(Last(names), token)))
               = Append(Join(start, names), token)
<1> DEFINE ms == Front(names)
           m  == Last(names)
<1>1. ms \in Seq(Name) /\ m \in Name /\ names = Append(ms, m)
  BY FrontAndLast
<1> HIDE DEF ms, m
<1>2. Append(m, token) \in Name /\ token \in Tokens
  BY <1>1, AppendEnds DEF Name, NameTokens
<1>3. Opened(Join(start, ms)) \in Seq(Tokens)
      /\ Join(start, names) = Opened(Join(start, ms)) \o m
      /\ Join(start, Append(ms, Append(m, token)))
             = Opened(Join(start, ms)) \o Append(m, token)
  BY <1>1, <1>2, JoinAppend
<1>4. Opened(Join(start, ms)) \o Append(m, token)
          = Append(Opened(Join(start, ms)) \o m, token)
  BY <1>1, <1>2, <1>3, NameEnds, ConcatAppend
<1>5. QED
  BY <1>3, <1>4 DEF ms, m

Start(text) == IF Rooted(text) THEN <<Slash>> ELSE <<>>

\* How far the squeezed text has come when its last name is closed or open.
Spelled(start, found) ==
    IF found.open \/ found.names = <<>>
      THEN Join(start, found.names)
      ELSE Append(Join(start, found.names), Slash)

\* A path starts with a slash or with nothing.
LEMMA StartIsText ==
    ASSUME NEW text
    PROVE  Start(text) \in Seq(Tokens) /\ Start(text) \in {<<>>, <<Slash>>}
BY SlashIsToken DEF Start

\* The first token alone makes a path rooted.
LEMMA RootedAppend ==
    ASSUME NEW text \in Seq(Tokens), NEW token \in Tokens
    PROVE  Rooted(Append(text, token)) =
               IF text = <<>> THEN token \in Separators ELSE Rooted(text)
<1>1. /\ Append(text, token) # <<>>
      /\ Head(Append(text, token)) = IF text = <<>> THEN token ELSE Head(text)
  BY AppendEnds
<1>2. QED
  BY <1>1 DEF Rooted

\* Spelled follows the squeezing token by token.
LEMMA SpelledStep ==
    ASSUME NEW start \in {<<>>, <<Slash>>}, NEW found, Finding(found),
           NEW token \in Tokens,
           ~(found.names = <<>> /\ token \in Separators /\ start = <<>>)
    PROVE  Squeeze[Spelled(start, found)][token] =
               Spelled(start, IF token \in Separators
                                THEN [open |-> FALSE, names |-> found.names]
                                ELSE [open |-> TRUE, names |-> Grown(found, token)])
<1> DEFINE ns   == found.names
           path == Join(start, ns)
<1>1. start \in Seq(Tokens) /\ ns \in Seq(Name) /\ path \in Seq(Tokens)
  <2>1. start \in Seq(Tokens)
    <3>1. <<>> \in Seq(Tokens) /\ <<Slash>> \in Seq(Tokens)
      BY SlashIsToken
    <3> QED
      BY <3>1
  <2>2. ns \in Seq(Name)
    BY DEF Finding
  <2> HIDE DEF ns
  <2> QED
    BY <2>1, <2>2, JoinTyped
<1>2. ns = <<>> => path = start
  BY JoinEmpty
<1>3. ns # <<>> => path # <<>> /\ ~EndsInSlash(path)
  BY <1>1, JoinEnds
<1>4. EndsInSlash(<<Slash>>) /\ ~EndsInSlash(<<>>)
  BY DEF EndsInSlash, Last
<1> DEFINE spelled == Spelled(start, found)
<1>5. spelled = IF found.open \/ ns = <<>> THEN path ELSE Append(path, Slash)
  BY DEF Spelled
<1>6. Append(path, Slash) \in Seq(Tokens) /\ EndsInSlash(Append(path, Slash))
  BY <1>1, SlashIsToken, AppendEnds
<1>7. spelled \in Seq(Tokens)
  BY <1>1, <1>5, <1>6
<1>8. CASE token \in Separators
  <2>1. Squeeze[spelled][token] =
            IF EndsInSlash(spelled) THEN spelled ELSE Append(spelled, Slash)
    BY <1>7, <1>8, SqueezeMeans
  <2>2. Spelled(start, [open |-> FALSE, names |-> ns]) =
            IF ns = <<>> THEN path ELSE Append(path, Slash)
    BY DEF Spelled
  <2> DEFINE next == IF ns = <<>> THEN path ELSE Append(path, Slash)
  <2>3. Squeeze[spelled][token] = next
    <3>1. ns = <<>> => start = <<Slash>> /\ ~found.open
      BY <1>8 DEF Finding
    <3> HIDE DEF path, spelled, ns
    <3>2. CASE ns = <<>>
      BY <1>2, <1>4, <1>5, <2>1, <3>1, <3>2
    <3>3. CASE ns # <<>> /\ found.open
      BY <1>3, <1>5, <2>1, <3>3
    <3>4. CASE ns # <<>> /\ ~found.open
      BY <1>5, <1>6, <2>1, <3>4
    <3> QED
      BY <3>2, <3>3, <3>4
  <2> HIDE DEF path, next
  <2> QED
    BY <1>8, <2>2, <2>3 DEF next
<1>9. CASE token \notin Separators
  <2>1. token \in NameTokens /\ <<token>> \in Name
    BY <1>9 DEF NameTokens, Name
  <2>2. Squeeze[spelled][token] = Append(spelled, token)
    BY <1>7, <1>9, SqueezeMeans
  <2>3. Spelled(start, [open |-> TRUE, names |-> Grown(found, token)]) =
            Join(start, Grown(found, token))
    BY DEF Spelled
  <2>4. CASE found.open
    <3>1. ns # <<>>
      BY <2>4 DEF Finding
    <3>2. Grown(found, token) = Append(Front(ns), Append(Last(ns), token))
      BY <2>4 DEF Grown
    <3>3. Join(start, Grown(found, token)) = Append(path, token)
      BY <1>1, <2>1, <3>1, <3>2, JoinGrows
    <3> QED
      BY <1>5, <1>9, <2>2, <2>3, <2>4, <3>3
  <2>5. CASE ~found.open
    <3>1. Join(start, Grown(found, token)) = Opened(path) \o <<token>>
          /\ Opened(path) \in Seq(Tokens)
      BY <1>1, <2>1, <2>5, JoinAppend DEF Grown
    <3>2. Opened(path) = spelled
      <4> HIDE DEF path, spelled
      <4>1. CASE ns = <<>>
        BY <1>2, <1>4, <1>5, <4>1 DEF Opened
      <4>2. CASE ns # <<>>
        BY <1>3, <1>5, <2>5, <4>2 DEF Opened
      <4> QED
        BY <4>1, <4>2
    <3>3. spelled \o <<token>> = Append(spelled, token)
      BY <1>7, AppendIsConcat
    <3> QED
      BY <1>9, <2>2, <2>3, <3>1, <3>2, <3>3
  <2> QED
    BY <2>4, <2>5
<1>10. QED
  BY <1>8, <1>9

\* Squeezed text is its start and its names, and perhaps a slash.
LEMMA SqueezedIsSpelled ==
    ASSUME NEW text \in Seq(Tokens)
    PROVE  /\ Squeezed(text) = Spelled(Start(text), Split(text))
           /\ text # <<>> /\ Split(text).names = <<>> => Rooted(text)
<1> DEFINE Means(t) ==
        /\ Squeezed(t) = Spelled(Start(t), Split(t))
        /\ t # <<>> /\ Split(t).names = <<>> => Rooted(t)
           S == {t \in Seq(Tokens) : Means(t)}
<1>1. Means(<<>>)
  <2>1. Squeezed(<<>>) = <<>> /\ Split(<<>>) = NoNames
    BY FoldEmpty DEF Squeezed, Split
  <2>2. Start(<<>>) = <<>>
    BY DEF Start, Rooted
  <2>3. Spelled(<<>>, NoNames) = <<>>
    BY JoinEmpty DEF Spelled, NoNames
  <2> QED
    BY <2>1, <2>2, <2>3
<1>2. ASSUME NEW s \in Seq(Tokens), NEW x \in Tokens, Means(s)
      PROVE  Means(Append(s, x))
  <2> DEFINE u == Append(s, x)
             start == Start(u)
  <2>1. Squeezed(u) = Squeeze[Squeezed(s)][x]
    BY FoldAppend DEF Squeezed
  <2>2. Split(u) = IF x \in Separators
                     THEN [open |-> FALSE, names |-> Split(s).names]
                     ELSE [open |-> TRUE, names |-> Grown(Split(s), x)]
    BY SplitAppend
  <2>3. Finding(Split(s)) /\ start \in {<<>>, <<Slash>>}
    BY SplitFinds, StartIsText
  <2>4. Squeezed(u) = Spelled(start, Split(u))
    <3>1. CASE s = <<>> /\ x \in Separators
      <4>1. Squeezed(s) = <<>> /\ Split(s) = NoNames /\ <<>> \in Seq(Tokens)
        BY <3>1, FoldEmpty, EmptySeq DEF Squeezed, Split
      <4>2. start = <<Slash>>
        BY <3>1, RootedAppend DEF Start
      <4>3. Split(u) = NoNames
        <5>1. Split(s).names = <<>>
          BY <4>1 DEF NoNames
        <5>2. Split(u) = [open |-> FALSE, names |-> Split(s).names]
          BY <2>2, <3>1
        <5> QED
          BY <5>1, <5>2 DEF NoNames
      <4>4. Squeezed(u) = Append(<<>>, Slash)
        BY <2>1, <3>1, <4>1, SqueezeMeans DEF EndsInSlash
      <4>5. Spelled(<<Slash>>, NoNames) = <<Slash>>
        BY JoinEmpty DEF Spelled, NoNames
      <4> QED
        BY <4>2, <4>3, <4>4, <4>5
    <3>2. CASE ~(s = <<>> /\ x \in Separators)
      <4>1. Start(s) = start
        BY <3>2, RootedAppend DEF Start, Rooted
      <4>2. ~(Split(s).names = <<>> /\ x \in Separators /\ start = <<>>)
        BY <1>2, <3>2, <4>1 DEF Start
      <4> HIDE DEF start, u
      <4> QED
        BY <1>2, <2>1, <2>2, <2>3, <4>1, <4>2, SpelledStep
    <3> QED
      BY <3>1, <3>2
  <2>5. ASSUME Split(u).names = <<>> PROVE Rooted(u)
    <3>1. CASE x \in Separators
      <4>1. Split(s).names = <<>>
        BY <2>2, <2>5, <3>1
      <4> QED
        BY <1>2, <3>1, <4>1, RootedAppend
    <3>2. CASE x \notin Separators
      <4>1. Grown(Split(s), x) = <<>>
        BY <2>2, <2>5, <3>2
      <4>2. Finding([open |-> TRUE, names |-> Grown(Split(s), x)])
        BY <2>3, <3>2, GrownNames DEF NameTokens
      <4> QED
        BY <4>1, <4>2 DEF Finding
    <3> QED
      BY <3>1, <3>2
  <2> QED
    BY <2>4, <2>5
<1>3. <<>> \in S
  BY <1>1, EmptySeq
<1>4. ASSUME NEW s \in Seq(Tokens), NEW x \in Tokens, s \in S
      PROVE  Append(s, x) \in S
  <2>1. Means(s)
    BY <1>4
  <2>2. Means(Append(s, x))
    BY <1>2, <2>1
  <2>3. Append(s, x) \in Seq(Tokens)
    BY AppendEnds
  <2> HIDE DEF Means
  <2> QED
    BY <2>2, <2>3
<1>5. \A t \in Seq(Tokens) : t \in S
  <2> HIDE DEF S
  <2> QED BY <1>3, <1>4, SequenceInduction
<1>6. QED
  BY <1>5

\* A path is normalised to its names, with one slash between two of them.
LEMMA NormalizeJoins ==
    ASSUME NEW text \in Seq(Tokens)
    PROVE  Normalize(text) = IF Names(text) = <<>> THEN <<>>
                             ELSE Join(Start(text), Names(text))
<1> DEFINE p     == Squeezed(text)
           found == Split(text)
           path  == Join(Start(text), found.names)
<1>1. Normalize(text) = IF EndsInSlash(p) THEN Front(p) ELSE p
  BY DEF Normalize, Squeezed
<1>2. Names(text) = found.names
  BY DEF Names, Split, NoNames
<1>3. /\ p = IF found.open \/ found.names = <<>> THEN path ELSE Append(path, Slash)
      /\ (text # <<>> /\ found.names = <<>> => Rooted(text))
  BY SqueezedIsSpelled DEF Spelled
<1>4. Finding(found) /\ Start(text) \in Seq(Tokens)
  BY SplitFinds, StartIsText
<1>5. CASE found.names # <<>>
  <2>1. path \in Seq(Tokens) /\ ~EndsInSlash(path)
    BY <1>4, <1>5, JoinEnds DEF Finding
  <2>2. EndsInSlash(Append(path, Slash)) /\ Front(Append(path, Slash)) = path
    BY <2>1, AppendEnds, SlashIsToken
  <2>3. Normalize(text) = path
    <3> HIDE DEF path, found, p
    <3> QED
      BY <1>1, <1>3, <1>5, <2>1, <2>2
  <2> QED
    BY <1>2, <1>5, <2>3
<1>6. CASE found.names = <<>>
  <2>1. p = Start(text)
    BY <1>3, <1>6, JoinEmpty
  <2>2. /\ EndsInSlash(<<Slash>>) /\ ~EndsInSlash(<<>>)
        /\ Append(<<>>, Slash) = <<Slash>>
    BY DEF EndsInSlash, Last
  <2>3. Front(<<Slash>>) = <<>>
    BY SlashIsToken, AppendEnds, EmptySeq, <2>2
  <2> HIDE DEF p, found
  <2> QED
    BY <1>1, <1>2, <1>6, <2>1, <2>2, <2>3, StartIsText
<1>7. QED
  BY <1>5, <1>6

\* The names of a text are names.
LEMMA NamesAreNames ==
    ASSUME NEW text \in Seq(Tokens)
    PROVE  Names(text) \in Seq(Name)
BY SplitFinds DEF Finding, Names, Split, NoNames

\* A fold of two texts is a fold of the second from where the first has come to.
LEMMA FoldConcat ==
    ASSUME NEW step, NEW base, NEW T, NEW a \in Seq(T), NEW b \in Seq(T)
    PROVE  Fold(step, base, a \o b) = Fold(step, Fold(step, base, a), b)
<1> DEFINE Splits(t) == Fold(step, base, a \o t) = Fold(step, Fold(step, base, a), t)
           S == {t \in Seq(T) : Splits(t)}
<1>1. <<>> \in S
  <2>1. a \o <<>> = a
    BY ConcatEmptySeq
  <2> QED
    BY <2>1, FoldEmpty, EmptySeq
<1>2. ASSUME NEW t \in Seq(T), NEW x \in T, t \in S
      PROVE  Append(t, x) \in S
  <2>1. a \o Append(t, x) = Append(a \o t, x) /\ a \o t \in Seq(T)
    BY ConcatAppend
  <2> DEFINE u == a \o t
  <2>2. Fold(step, base, Append(u, x)) = step[Fold(step, base, u)][x]
    <3>1. u \in Seq(T)
      BY <2>1
    <3> HIDE DEF u
    <3> QED
      BY <3>1, FoldAppend
  <2>3. Fold(step, Fold(step, base, a), Append(t, x))
            = step[Fold(step, Fold(step, base, a), t)][x]
    BY FoldAppend
  <2>4. Append(t, x) \in Seq(T)
    BY AppendEnds
  <2> QED
    BY <1>2, <2>1, <2>2, <2>3, <2>4
<1>3. \A t \in Seq(T) : t \in S
  <2> HIDE DEF S
  <2> QED BY <1>1, <1>2, SequenceInduction
<1>4. QED
  BY <1>3

\* What more names add to a path does not depend on the path.
LEMMA JoinFrom ==
    ASSUME NEW path \in Seq(Tokens), path # <<>>, NEW names \in Seq(Name), names # <<>>
    PROVE  Join(path, names) = Opened(path) \o Join(<<>>, names)
<1> DEFINE Follows(ns) == ns # <<>> => Join(path, ns) = Opened(path) \o Join(<<>>, ns)
           S == {ns \in Seq(Name) : Follows(ns)}
<1>1. <<>> \in S
  BY EmptySeq
<1>2. ASSUME NEW ns \in Seq(Name), NEW n \in Name, ns \in S
      PROVE  Append(ns, n) \in S
  <2> DEFINE p == Join(path, ns)
             e == Join(<<>>, ns)
  <2>1. <<>> \in Seq(Tokens) /\ Opened(path) \in Seq(Tokens) /\ n \in Seq(Tokens)
    BY EmptySeq, OpenedMeans, NameEnds
  <2>2. /\ Join(path, Append(ns, n)) = Opened(p) \o n
        /\ Join(<<>>, Append(ns, n)) = Opened(e) \o n
        /\ Opened(p) \in Seq(Tokens) /\ Opened(e) \in Seq(Tokens)
    BY <2>1, JoinAppend
  <2>3. Opened(p) = Opened(path) \o Opened(e)
    <3>1. CASE ns = <<>>
      <4>1. p = path /\ e = <<>>
        BY <3>1, JoinEmpty
      <4>2. Opened(path) \o <<>> = Opened(path)
        BY <2>1, ConcatEmptySeq
      <4> QED
        BY <2>1, <4>1, <4>2, OpenedMeans
    <3>2. CASE ns # <<>>
      <4>1. p = Opened(path) \o e
        BY <1>2, <3>2
      <4>2. /\ p # <<>> /\ ~EndsInSlash(p)
            /\ e \in Seq(Tokens) /\ e # <<>> /\ ~EndsInSlash(e)
        BY <2>1, <3>2, JoinEnds
      <4>3. Opened(p) = Append(p, Slash) /\ Opened(e) = Append(e, Slash)
        BY <4>2 DEF Opened
      <4>4. Opened(path) \o Append(e, Slash) = Append(Opened(path) \o e, Slash)
        BY <2>1, <4>2, SlashIsToken, ConcatAppend
      <4> HIDE DEF p, e
      <4> QED
        BY <4>1, <4>3, <4>4
    <3> QED
      BY <3>1, <3>2
  <2>4. (Opened(path) \o Opened(e)) \o n = Opened(path) \o (Opened(e) \o n)
    <3> DEFINE o == Opened(path)
               f == Opened(e)
    <3>1. o \in Seq(Tokens) /\ f \in Seq(Tokens) /\ n \in Seq(Tokens)
      BY <2>1, <2>2
    <3>2. (o \o f) \o n = o \o (f \o n)
      <4> HIDE DEF o, f
      <4> QED BY <3>1, TextsAssociate, Zenon
    <3> QED
      BY <3>2
  <2>5. Append(ns, n) \in Seq(Name)
    BY AppendEnds
  <2>6. Follows(Append(ns, n))
    <3> HIDE DEF p, e
    <3> QED BY <2>2, <2>3, <2>4
  <2> QED
    BY <2>5, <2>6
<1>3. \A ns \in Seq(Name) : ns \in S
  <2> HIDE DEF S
  <2> QED BY <1>1, <1>2, SequenceInduction
<1>4. QED
  BY <1>3

\* A path of names that has no start begins with a name.
LEMMA JoinBegins ==
    ASSUME NEW names \in Seq(Name), names # <<>>
    PROVE  Head(Join(<<>>, names)) \notin Separators
<1> DEFINE S == {ns \in Seq(Name) : ns # <<>> => Head(Join(<<>>, ns)) \notin Separators}
<1>1. <<>> \in S
  BY EmptySeq
<1>2. ASSUME NEW ns \in Seq(Name), NEW n \in Name, ns \in S
      PROVE  Append(ns, n) \in S
  <2> DEFINE e == Join(<<>>, ns)
  <2>1. <<>> \in Seq(Tokens) /\ e \in Seq(Tokens)
        /\ (ns # <<>> => e # <<>>) /\ (ns = <<>> => e = <<>>)
    BY EmptySeq, JoinTyped, JoinEnds, JoinEmpty
  <2>2. Join(<<>>, Append(ns, n)) = Opened(e) \o n /\ Opened(e) \in Seq(Tokens)
    BY <2>1, JoinAppend
  <2>3. Head(Opened(e) \o n) = IF Opened(e) = <<>> THEN Head(n) ELSE Head(Opened(e))
    BY <2>2, NameEnds, ConcatEnds
  <2> HIDE DEF e
  <2>4. CASE ns = <<>>
    BY <2>1, <2>2, <2>3, <2>4, OpenedMeans, NameEnds, AppendEnds
  <2>5. CASE ns # <<>>
    <3>1. Head(e) \notin Separators
      BY <1>2, <2>5 DEF e
    <3> QED
      BY <2>1, <2>2, <2>3, <2>5, <3>1, OpenedMeans, AppendEnds
  <2> QED
    BY <2>4, <2>5
<1>3. \A ns \in Seq(Name) : ns \in S
  <2> HIDE DEF S
  <2> QED BY <1>1, <1>2, SequenceInduction
<1>4. QED
  BY <1>3

\* A name after a separator is one name more.
LEMMA SplitName ==
    ASSUME NEW path \in Seq(Tokens), ~Split(path).open, NEW name \in Name
    PROVE  Split(path \o name) =
               [open |-> TRUE, names |-> Append(Split(path).names, name)]
<1> DEFINE ns == Split(path).names
           Adds(m) == m # <<>> => Split(path \o m) = [open |-> TRUE, names |-> Append(ns, m)]
           S == {m \in Seq(NameTokens) : Adds(m)}
<1>1. <<>> \in S
  BY EmptySeq
<1>2. ASSUME NEW m \in Seq(NameTokens), NEW x \in NameTokens, m \in S
      PROVE  Append(m, x) \in S
  <2>1. m \in Seq(Tokens) /\ x \in Tokens /\ x \notin Separators
    BY SeqMonotonic DEF NameTokens
  <2>2. path \o Append(m, x) = Append(path \o m, x) /\ path \o m \in Seq(Tokens)
    BY <2>1, ConcatAppend
  <2>3. Split(path \o Append(m, x)) =
            [open |-> TRUE, names |-> Grown(Split(path \o m), x)]
    BY <2>1, <2>2, SplitAppend
  <2>4. Append(m, x) \in Seq(NameTokens)
    BY AppendEnds
  <2>5. Grown(Split(path \o m), x) = Append(ns, Append(m, x))
    <3>1. CASE m = <<>>
      <4>1. path \o m = path
        BY <3>1, ConcatEmptySeq
      <4>2. Append(m, x) = <<x>>
        BY <3>1
      <4> QED
        BY <4>1, <4>2 DEF Grown
    <3>2. CASE m # <<>>
      <4>1. m \in Name
        BY <3>2 DEF Name, NameTokens
      <4>2. ns \in Seq(Name)
        BY SplitFinds DEF Finding
      <4> DEFINE found == Split(path \o m)
      <4>3. found.open /\ found.names = Append(ns, m)
        BY <1>2, <3>2
      <4>4. Front(Append(ns, m)) = ns /\ Last(Append(ns, m)) = m
        BY <4>1, <4>2, AppendEnds
      <4> HIDE DEF found, ns
      <4> QED
        BY <4>3, <4>4 DEF Grown, found
    <3> QED
      BY <3>1, <3>2
  <2> QED
    BY <2>3, <2>4, <2>5
<1>3. \A m \in Seq(NameTokens) : m \in S
  <2> HIDE DEF S
  <2> QED BY <1>1, <1>2, SequenceInduction
<1>4. QED
  BY <1>3, NameEnds

\* The names of the path that names make are those names.
LEMMA NamesOfJoin ==
    ASSUME NEW names \in Seq(Name)
    PROVE  Names(Join(<<>>, names)) = names
<1> DEFINE Kept(ns) == Split(Join(<<>>, ns)) = [open |-> ns # <<>>, names |-> ns]
           S == {ns \in Seq(Name) : Kept(ns)}
<1>1. <<>> \in S
  <2>1. Split(<<>>) = NoNames
    BY FoldEmpty DEF Split
  <2> QED
    BY <2>1, JoinEmpty, EmptySeq DEF NoNames
<1>2. ASSUME NEW ns \in Seq(Name), NEW n \in Name, ns \in S
      PROVE  Append(ns, n) \in S
  <2> DEFINE e == Join(<<>>, ns)
  <2>1. <<>> \in Seq(Tokens) /\ e \in Seq(Tokens)
    BY EmptySeq, JoinTyped
  <2>2. Join(<<>>, Append(ns, n)) = Opened(e) \o n /\ Opened(e) \in Seq(Tokens)
    BY <2>1, JoinAppend
  <2>3. ~Split(Opened(e)).open /\ Split(Opened(e)).names = ns
    <3>1. CASE ns = <<>>
      <4>1. Opened(e) = <<>>
        BY <3>1, JoinEmpty, EmptySeq, OpenedMeans
      <4>2. Split(<<>>) = NoNames
        BY FoldEmpty DEF Split
      <4> QED
        BY <3>1, <4>1, <4>2 DEF NoNames
    <3>2. CASE ns # <<>>
      <4>1. Opened(e) = Append(e, Slash)
        BY <2>1, <3>2, JoinEnds DEF Opened
      <4>2. Split(Append(e, Slash)) = [open |-> FALSE, names |-> Split(e).names]
        BY <2>1, SlashIsToken, SplitAppend
      <4>3. Split(e).names = ns
        BY <1>2
      <4> HIDE DEF e
      <4> QED
        BY <4>1, <4>2, <4>3
    <3> QED
      BY <3>1, <3>2
  <2>4. Split(Opened(e) \o n) = [open |-> TRUE, names |-> Append(ns, n)]
    <3> HIDE DEF e
    <3> QED BY <2>2, <2>3, SplitName
  <2>5. Append(ns, n) \in Seq(Name) /\ Append(ns, n) # <<>>
    BY AppendEnds
  <2> QED
    BY <2>2, <2>4, <2>5
<1>3. \A ns \in Seq(Name) : ns \in S
  <2> HIDE DEF S
  <2> QED BY <1>1, <1>2, SequenceInduction
<1>4. Split(Join(<<>>, names)).names = names
  BY <1>3
<1>5. Names(Join(<<>>, names)) = Split(Join(<<>>, names)).names
  BY DEF Names, Split, NoNames
<1> QED
  BY <1>4, <1>5

-----------------------------------------------------------------------------
(* What another catalog asks of an entry.                                  *)

\* Squeezing does nothing to a clean text.
LEMMA CleanIsSqueezed ==
    ASSUME NEW path, Clean(path)
    PROVE  Squeezed(path) = path
<1> DEFINE S == {t \in Seq(Tokens) : Clean(t) => Squeezed(t) = t}
<1>1. <<>> \in S
  BY FoldEmpty, EmptySeq DEF Squeezed
<1>2. ASSUME NEW t \in Seq(Tokens), NEW x \in Tokens, t \in S
      PROVE  Append(t, x) \in S
  <2> SUFFICES ASSUME Clean(Append(t, x)) PROVE Squeezed(Append(t, x)) = Append(t, x)
    BY AppendEnds
  <2>1. Append(t, x) = t \o <<x>> /\ <<x>> \in Seq(Tokens) /\ <<x>> # <<>>
        /\ Head(<<x>>) = x
    BY AppendIsConcat
  <2>2. Clean(t) /\ ~(EndsInSlash(t) /\ x = Slash)
    BY <2>1, CleanPart
  <2>3. x \in Separators => x = Slash
    <3>1. /\ Len(Append(t, x)) = Len(t) + 1 /\ Len(t) \in Nat
          /\ Append(t, x)[Len(t) + 1] = x
      BY AppendProperties
    <3> QED
      BY <3>1 DEF Clean
  <2>4. Squeezed(Append(t, x)) = Squeeze[t][x]
    BY <1>2, <2>2, FoldAppend DEF Squeezed
  <2> QED
    BY <2>2, <2>3, <2>4, SqueezeMeans
<1>3. \A t \in Seq(Tokens) : t \in S
  <2> HIDE DEF S
  <2> QED BY <1>1, <1>2, SequenceInduction
<1>4. path \in Seq(Tokens)
  BY DEF Clean
<1> QED
  BY <1>3, <1>4

\* The path of an entry is the path of its names, of which there are some.
LEMMA PathOfNames ==
    ASSUME NEW path, Clean(path), path # <<>>, Head(path) # Slash, ~EndsInSlash(path)
    PROVE  /\ Names(path) \in Seq(Name) /\ Names(path) # <<>>
           /\ path = Join(<<>>, Names(path))
<1>1. path \in Seq(Tokens)
  BY DEF Clean
<1>2. Normalize(path) = path
  <2>1. Squeezed(path) = path
    BY CleanIsSqueezed
  <2> QED
    BY <2>1 DEF Normalize, Squeezed
<1>3. ~Rooted(path)
  <2>1. 1 \in 1 .. Len(path) /\ Head(path) = path[1]
    BY <1>1, EmptySeq
  <2> QED
    BY <2>1 DEF Clean, Rooted
<1>4. Start(path) = <<>>
  BY <1>3 DEF Start
<1> QED
  BY <1>1, <1>2, <1>4, NormalizeJoins, NamesAreNames

\* What path.Clean keeps are names.
LEMMA CleanKeepsNames ==
    ASSUME NEW names \in Seq(Name)
    PROVE  Fold(CleanStep, <<>>, names) \in Seq(Name)
<1> DEFINE S == {ns \in Seq(Name) : Fold(CleanStep, <<>>, ns) \in Seq(Name)}
<1>1. <<>> \in S
  BY FoldEmpty, EmptySeq
<1>2. ASSUME NEW ns \in Seq(Name), NEW n \in Name, ns \in S
      PROVE  Append(ns, n) \in S
  <2> DEFINE k == Fold(CleanStep, <<>>, ns)
  <2>1. k \in Seq(Name)
    BY <1>2
  <2>2. Fold(CleanStep, <<>>, Append(ns, n)) = CleanStep[k][n]
    BY FoldAppend
  <2> HIDE DEF k
  <2>3. \/ CleanStep[k][n] = k
        \/ CleanStep[k][n] = Append(k, n)
        \/ k # <<>> /\ CleanStep[k][n] = Front(k)
    BY <2>1 DEF CleanStep
  <2>4. CleanStep[k][n] \in Seq(Name)
    <3>1. Append(k, n) \in Seq(Name) /\ (k # <<>> => Front(k) \in Seq(Name))
      BY <2>1, AppendEnds, FrontAndLast
    <3> QED
      BY <2>1, <2>3, <3>1, Zenon
  <2>5. Append(ns, n) \in Seq(Name)
    BY AppendEnds
  <2> QED
    BY <2>2, <2>4, <2>5
<1>3. \A ns \in Seq(Name) : ns \in S
  <2> HIDE DEF S
  <2> QED BY <1>1, <1>2, SequenceInduction
<1> QED
  BY <1>3

\* The parent that EFU finds is the one that the import expects.
LEMMA ParentIsExpected ==
    ASSUME NEW path, Names(path) \in Seq(Name), Names(path) # <<>>
    PROVE  ParentPath(path) = IF Dir(path) = <<Dot>> THEN <<>> ELSE Dir(path)
<1> DEFINE kept == Fold(CleanStep, <<>>, Front(Names(path)))
<1>1. kept \in Seq(Name)
  BY FrontAndLast, CleanKeepsNames
<1>2. Dir(path) = IF kept = <<>> THEN <<Dot>> ELSE Join(<<>>, kept)
  BY DEF Dir
<1> HIDE DEF kept
<1>3. kept # <<>> => Head(Join(<<>>, kept)) \notin Separators
  BY <1>1, JoinBegins
<1>4. Head(<<Slash>>) \in Separators /\ <<Dot>> # <<Slash>>
  BY SlashIsToken DEF Slash, Dot
<1>5. Dir(path) # <<Slash>>
  BY <1>2, <1>3, <1>4
<1> QED
  BY <1>5 DEF ParentPath

\* The name of an entry is a part of its path, without separators.
LEMMA BaseIsName ==
    ASSUME NEW path, Names(path) \in Seq(Name), Names(path) # <<>>,
           path = Join(<<>>, Names(path))
    PROVE  /\ Base(path) # <<>> /\ ToSet(Base(path)) \cap Separators = {}
           /\ ToSet(Base(path)) \subseteq ToSet(path)
<1>1. PICK ns \in Seq(Name), n \in Name : Names(path) = Append(ns, n)
  BY SequenceEmptyOrAppend
<1>2. Base(path) = n
  BY <1>1, AppendEnds DEF Base
<1>3. /\ n # <<>> /\ n \in Seq(NameTokens) /\ n \in Seq(Tokens)
      /\ <<>> \in Seq(Tokens)
  BY NameEnds, EmptySeq
<1> DEFINE o == Opened(Join(<<>>, ns))
<1>4. path = o \o n /\ o \in Seq(Tokens)
  <2>1. Join(<<>>, Append(ns, n)) = o \o n /\ o \in Seq(Tokens)
    BY <1>3, JoinAppend
  <2>2. path = Join(<<>>, Append(ns, n))
    BY <1>1, Zenon
  <2> QED
    BY <2>1, <2>2
<1> HIDE DEF o
<1>5. ToSet(n) \subseteq NameTokens
  BY <1>3 DEF ToSet
<1>6. ASSUME NEW i \in DOMAIN n PROVE n[i] \in ToSet(path)
  <2>1. /\ i \in 1 .. Len(n) /\ Len(n) \in Nat /\ Len(o) \in Nat
        /\ Len(path) = Len(o) + Len(n) /\ path \in Seq(Tokens)
        /\ \A k \in 1 .. Len(o) + Len(n) :
               path[k] = IF k <= Len(o) THEN o[k] ELSE n[k - Len(o)]
    BY <1>3, <1>4, ConcatProperties
  <2>2. /\ Len(o) + i \in 1 .. Len(path) /\ ~(Len(o) + i <= Len(o))
        /\ (Len(o) + i) - Len(o) = i
    BY <2>1
  <2>3. path[Len(o) + i] = n[i] /\ Len(o) + i \in DOMAIN path
    BY <2>1, <2>2
  <2> QED
    BY <2>3 DEF ToSet
<1>7. ToSet(n) \subseteq ToSet(path)
  BY <1>6 DEF ToSet
<1> QED
  BY <1>2, <1>3, <1>5, <1>7 DEF NameTokens

\* A size that is no number is zero.
LEMMA SizesAreNumbers == \A record : EntryOf(record).size \in Int
<1> SUFFICES ASSUME NEW record PROVE EntryOf(record).size \in Int
  OBVIOUS
<1>1. \A cell : SizeOf(cell) \in Int
  BY EfuAssumption DEF SizeOf
<1>2. EntryOf(record).size = IF KindOf(record) = "directory" THEN 0
                             ELSE SizeOf(Field(record, Column("Size")))
  BY DEF EntryOf
<1> QED
  BY <1>1, <1>2

\* Two parts of the program agree on what an entry is.
LEMMA EntryIsValid ==
    ASSUME PrefixOK, NEW record, record[Column("Filename")] \in Seq(Tokens),
           CatalogPath(record[Column("Filename")]) # <<>>
    PROVE  EntryOf(record).size \in Int =>
               (ValidImportedEntry(EntryOf(record)) <=> ~Odd(EntryOf(record)))
<1> DEFINE path == CatalogPath(record[Column("Filename")])
           e == EntryOf(record)
<1>1. e.path = path /\ e.name = Base(path) /\ e.parent = ParentPath(path)
  BY DEF EntryOf
<1>2. Clean(path) /\ ~EndsInSlash(path) /\ path # <<>> /\ Head(path) # Slash
  BY CatalogPathIsClean
<1>3. Last(path) # Slash
  BY <1>2 DEF EndsInSlash
<1> HIDE DEF path, e
<1>4. "\\" \notin ToSet(path)
  <2>1. \A i \in 1 .. Len(path) : path[i] # "\\"
    BY <1>2 DEF Clean, Separators, Slash
  <2>2. DOMAIN path = 1 .. Len(path)
    BY <1>2 DEF Clean
  <2> QED
    BY <2>1, <2>2 DEF ToSet
<1>5. \A i \in 1 .. Len(path) - 1 : path[i] # Slash \/ path[i + 1] # Slash
  BY <1>2 DEF Clean
<1>6. /\ Names(path) \in Seq(Name) /\ Names(path) # <<>>
      /\ path = Join(<<>>, Names(path))
  BY <1>2, PathOfNames
<1>7. ParentPath(path) = IF Dir(path) = <<Dot>> THEN <<>> ELSE Dir(path)
  BY <1>6, ParentIsExpected
<1>8. /\ Base(path) # <<>> /\ ToSet(Base(path)) \cap Separators = {}
      /\ ToSet(Base(path)) \subseteq ToSet(path)
  BY <1>6, BaseIsName
<1>9. ASSUME e.size \in Int PROVE ValidImportedEntry(e) <=> ~Odd(e)
  <2>1. ASSUME ~Odd(e) PROVE ValidImportedEntry(e)
    <3>1. /\ e.size >= 0 /\ Nul \notin ToSet(path)
          /\ {<<Dot>>, DotDot} \cap ToSet(Names(path)) = {}
      BY <1>1, <1>9, <2>1 DEF Odd
    <3>2. {"\\", Nul} \cap ToSet(path) = {}
      BY <1>4, <3>1
    <3>3. {"/", "\\", Nul} \cap ToSet(Base(path)) = {}
      BY <1>8, <3>1 DEF Separators
    <3> QED
      BY <1>1, <1>2, <1>3, <1>5, <1>7, <1>8, <3>1, <3>2, <3>3 DEF ValidImportedEntry
  <2>2. ASSUME ValidImportedEntry(e) PROVE ~Odd(e)
    BY <1>9, <2>2 DEF ValidImportedEntry, Odd
  <2> QED
    BY <2>1, <2>2
<1> QED
  BY <1>9 DEF e

\* The shortest and the longest prefix.
LEMMA PrefixEnds ==
    ASSUME NEW T, NEW s \in Seq(T)
    PROVE  /\ IsPrefix(<<>>, s) /\ SubSeq(s, Len(<<>>) + 1, Len(s)) = s
           /\ IsPrefix(s, s) /\ SubSeq(s, Len(s) + 1, Len(s)) = <<>>
<1>1. <<>> \in Seq(T) /\ <<>> \o s = s /\ s \o <<>> = s
  BY EmptySeq, ConcatEmptySeq
<1>2. IsPrefix(<<>>, <<>> \o s)
      /\ SubSeq(<<>> \o s, Len(<<>>) + 1, Len(<<>> \o s)) = s
  BY <1>1, PrefixOfConcat
<1>3. IsPrefix(s, s \o <<>>)
      /\ SubSeq(s \o <<>>, Len(s) + 1, Len(s \o <<>>)) = <<>>
  BY <1>1, PrefixOfConcat
<1> QED
  BY <1>1, <1>2, <1>3, Zenon

\* Cutting the slash from the front.
LEMMA UnrootedMeans ==
    ASSUME NEW path \in Seq(Tokens)
    PROVE  /\ path = <<>> => Unrooted(path) = <<>>
           /\ path # <<>> /\ Head(path) # Slash => Unrooted(path) = path
           /\ Unrooted(<<Slash>> \o path) = path
<1>1. Tail(<<Slash>> \o path) = path /\ Head(<<Slash>> \o path) = Slash
      /\ <<Slash>> \o path # <<>>
  BY SlashIsToken, TailMeans
<1> QED
  BY <1>1, Zenon DEF Unrooted

\* A rooted path is a slash and the path of its names.
LEMMA JoinRooted ==
    ASSUME NEW names \in Seq(Name), names # <<>>
    PROVE  Join(<<Slash>>, names) = <<Slash>> \o Join(<<>>, names)
<1>1. <<Slash>> = Append(<<>>, Slash) /\ <<>> \in Seq(Tokens)
  BY EmptySeq
<1>2. EndsInSlash(Append(<<>>, Slash)) /\ Append(<<>>, Slash) # <<>>
      /\ Append(<<>>, Slash) \in Seq(Tokens)
  BY <1>1, SlashIsToken, AppendEnds
<1>3. EndsInSlash(<<Slash>>) /\ <<Slash>> # <<>> /\ <<Slash>> \in Seq(Tokens)
  BY <1>1, <1>2
<1>4. Opened(<<Slash>>) = <<Slash>>
  BY <1>3 DEF Opened
<1> QED
  BY <1>3, <1>4, JoinFrom

\* The path of the names is what is left of a normalised path without the
\* slash in front; that slash says whether the text is rooted.
LEMMA NormalMeans ==
    ASSUME NEW text \in Seq(Tokens)
    PROVE  /\ Unrooted(Normalize(text)) = Join(<<>>, Names(text))
           /\ Names(text) = <<>> => Normalize(text) = <<>>
           /\ Names(text) # <<>> =>
                  /\ Normalize(text) # <<>>
                  /\ Head(Normalize(text)) = Slash <=> Rooted(text)
<1> DEFINE ns == Names(text)
           nt == Normalize(text)
           e  == Join(<<>>, ns)
<1>1. ns \in Seq(Name) /\ <<>> \in Seq(Tokens)
  BY NamesAreNames, EmptySeq
<1>2. nt = IF ns = <<>> THEN <<>> ELSE Join(Start(text), ns)
  BY NormalizeJoins
<1>3. e \in Seq(Tokens)
  BY <1>1, JoinTyped
<1>4. ns = <<>> => e = <<>>
  BY JoinEmpty
<1>5. ns # <<>> => e # <<>> /\ Head(e) \notin Separators
                   /\ Join(<<Slash>>, ns) = <<Slash>> \o e
  BY <1>1, JoinEnds, JoinBegins, JoinRooted
<1>6. Head(<<Slash>> \o e) = Slash /\ <<Slash>> \o e # <<>>
  BY <1>3, SlashIsToken, TailMeans
<1>7. /\ Unrooted(<<Slash>> \o e) = e /\ Unrooted(<<>>) = <<>>
      /\ e # <<>> /\ Head(e) # Slash => Unrooted(e) = e
  BY <1>1, <1>3, UnrootedMeans
<1>8. Start(text) = IF Rooted(text) THEN <<Slash>> ELSE <<>>
  BY DEF Start
<1> HIDE DEF ns, nt, e
<1>a. Join(<<>>, ns) = e
  BY DEF e
<1>9. /\ Unrooted(nt) = e
      /\ ns = <<>> => nt = <<>>
      /\ ns # <<>> => nt # <<>> /\ (Head(nt) = Slash <=> Rooted(text))
  BY <1>2, <1>4, <1>5, <1>6, <1>7, <1>8, <1>a, SlashIsToken, Zenon
<1> QED
  BY <1>9 DEF ns, nt, e

\* Cutting a prefix that is there leaves what follows it.
LEMMA TrimMeans ==
    ASSUME NEW path \in Seq(Tokens), NEW rest \in Seq(Tokens)
    PROVE  TrimPrefix(path \o rest, path) = rest
BY PrefixOfConcat DEF TrimPrefix

\* Below the prefix: what its names leave of the names is what it leaves of the path.
LEMMA PathBelow ==
    ASSUME PrefixOK, NEW text \in Seq(Tokens), IsBelow(text)
    PROVE  CatalogPath(text) = Join(<<>>, Relative(text)) /\ Relative(text) \in Seq(Name)
<1> DEFINE bs == Names(file.prefix)
           ns == Names(text)
           pb == Normalize(file.prefix)
           nt == Normalize(text)
           ms == Relative(text)
           s  == Start(text)
<1>1. bs \in Seq(Name) /\ ns \in Seq(Name) /\ <<>> \in Seq(Tokens)
  BY NamesAreNames, EmptySeq DEF PrefixOK
<1>2. IsPrefix(bs, ns) /\ ms = SubSeq(ns, Len(bs) + 1, Len(ns))
  BY DEF IsBelow, Relative
<1>3. ms \in Seq(Name) /\ ns = bs \o ms
  <2> HIDE DEF bs, ns, ms
  <2> QED BY <1>1, <1>2, PrefixLeaves
<1>4. CatalogPath(text) = Unrooted(TrimPrefix(nt, pb))
  BY CatalogPathMeans
<1>5. pb \in Seq(Tokens) /\ nt \in Seq(Tokens) /\ ~EndsInSlash(pb)
  BY NormalizeIsClean DEF PrefixOK, Clean
<1>6. Unrooted(nt) = Join(<<>>, ns)
  BY NormalMeans
<1>7. CASE bs = <<>>
  <2>1. pb = <<>>
    BY <1>7, NormalMeans DEF PrefixOK
  <2>2. TrimPrefix(nt, <<>>) = nt
    <3>1. IsPrefix(<<>>, nt) /\ SubSeq(nt, Len(<<>>) + 1, Len(nt)) = nt
      BY <1>5, PrefixEnds
    <3> QED
      BY <3>1, Zenon DEF TrimPrefix
  <2>3. ms = ns
    <3> HIDE DEF bs, ns, ms
    <3>1. ns = <<>> \o ms
      BY <1>3, <1>7
    <3>2. <<>> \o ms = ms
      BY <1>3, ConcatEmptySeq
    <3> QED
      BY <3>1, <3>2
  <2> HIDE DEF bs, ns, ms, pb, nt
  <2>4. CatalogPath(text) = Join(<<>>, ms) /\ ms \in Seq(Name)
    BY <1>3, <1>4, <1>6, <2>1, <2>2, <2>3, Zenon
  <2> QED
    BY <2>4 DEF ms
<1>8. CASE bs # <<>>
  <2>1. Start(file.prefix) = s
    BY <1>8 DEF IsBelow, Start
  <2>2. ns # <<>>
    <3> HIDE DEF bs, ns, ms
    <3> QED BY <1>1, <1>3, <1>8, EmptySeq, ConcatSimplifications
  <2>3. pb = Join(s, bs)
    BY <1>8, <2>1, NormalizeJoins DEF PrefixOK
  <2>4. nt = Join(s, ns)
    BY <2>2, NormalizeJoins
  <2>5. s \in Seq(Tokens)
    BY StartIsText
  <2>6. pb # <<>> /\ ~EndsInSlash(pb)
    BY <1>1, <1>8, <2>3, <2>5, JoinEnds
  <2>7. nt = Join(pb, ms)
    <3>1. Join(s, bs \o ms) = Join(Join(s, bs), ms)
      <4> HIDE DEF s, bs, ms
      <4> QED BY <1>1, <1>3, FoldConcat DEF Join
    <3> HIDE DEF s, bs, ms, ns, pb, nt
    <3> QED BY <1>3, <2>3, <2>4, <3>1
  <2> HIDE DEF bs, ns, ms, pb, nt, s
  <2>8. CASE ms = <<>>
    <3>1. nt = pb
      BY <2>7, <2>8, JoinEmpty
    <3>2. TrimPrefix(pb \o <<>>, pb) = <<>> /\ pb \o <<>> = pb
      BY <1>1, <1>5, TrimMeans, ConcatEmptySeq
    <3>3. Unrooted(<<>>) = <<>> /\ Join(<<>>, <<>>) = <<>>
      BY <1>1, UnrootedMeans, JoinEmpty
    <3>4. CatalogPath(text) = Join(<<>>, ms)
      BY <1>4, <2>8, <3>1, <3>2, <3>3, Zenon
    <3> QED
      BY <1>3, <3>4 DEF ms
  <2>9. CASE ms # <<>>
    <3> DEFINE e == Join(<<>>, ms)
    <3>1. e \in Seq(Tokens) /\ <<Slash>> \in Seq(Tokens)
      BY <1>1, <1>3, JoinTyped, TailMeans, SlashIsToken
    <3>2. nt = Opened(pb) \o e
      BY <1>3, <1>5, <2>6, <2>7, <2>9, JoinFrom
    <3> HIDE DEF e
    <3>3. Opened(pb) = pb \o <<Slash>>
      <4>1. Opened(pb) = Append(pb, Slash)
        BY <2>6 DEF Opened
      <4>2. Append(pb, Slash) = pb \o <<Slash>>
        BY <1>5, SlashIsToken, AppendIsConcat
      <4> QED
        BY <4>1, <4>2
    <3>4. (pb \o <<Slash>>) \o e = pb \o (<<Slash>> \o e)
      BY <1>5, <3>1, TextsAssociate, Zenon
    <3>5. <<Slash>> \o e \in Seq(Tokens)
      BY <3>1, SlashIsToken, TailMeans
    <3>6. TrimPrefix(pb \o (<<Slash>> \o e), pb) = <<Slash>> \o e
      <4> DEFINE r == <<Slash>> \o e
      <4>1. r \in Seq(Tokens)
        BY <3>5
      <4>2. TrimPrefix(pb \o r, pb) = r
        <5> HIDE DEF r
        <5> QED BY <1>5, <4>1, TrimMeans
      <4> QED
        BY <4>2
    <3>7. Unrooted(<<Slash>> \o e) = e
      BY <3>1, UnrootedMeans
    <3>8. CatalogPath(text) = e
      BY <1>4, <3>2, <3>3, <3>4, <3>6, <3>7, Zenon
    <3> QED
      BY <1>3, <3>8 DEF e, ms
  <2> QED
    BY <2>8, <2>9
<1> QED
  BY <1>7, <1>8

\* The path of an entry is that of its names below the prefix, unless the
\* prefix ends within one of them.
LEMMA PathIsRelative ==
    ASSUME PrefixOK, NEW text \in Seq(Tokens), ~CutsAName(text)
    PROVE  CatalogPath(text) = Join(<<>>, Relative(text)) /\ Relative(text) \in Seq(Name)
<1>1. CASE IsBelow(text)
  BY <1>1, PathBelow
<1>2. CASE ~IsBelow(text)
  <2> DEFINE bs == Names(file.prefix)
             ns == Names(text)
             pb == Normalize(file.prefix)
             nt == Normalize(text)
  <2>1. bs \in Seq(Name) /\ ns \in Seq(Name)
    BY NamesAreNames DEF PrefixOK
  <2>2. pb \in Seq(Tokens) /\ nt \in Seq(Tokens)
    BY NormalizeIsClean DEF PrefixOK, Clean
  <2>3. bs # <<>>
    <3>1. IsPrefix(<<>>, ns)
      BY <2>1, PrefixEnds
    <3> QED
      BY <1>2, <3>1 DEF IsBelow
  <2>4. pb # <<>> /\ (Head(pb) = Slash <=> Rooted(file.prefix))
    BY <2>3, NormalMeans DEF PrefixOK
  <2>5. ASSUME IsPrefix(pb, nt) PROVE FALSE
    <3>1. Rooted(file.prefix) # Rooted(text) /\ IsPrefix(bs, ns)
      BY <1>2, <2>5 DEF IsBelow, CutsAName
    <3> DEFINE rest == SubSeq(nt, Len(pb) + 1, Len(nt))
    <3>a. IsPrefix(pb, nt)
      BY <2>5
    <3>b. rest \in Seq(Tokens) /\ nt = pb \o rest
      <4> HIDE DEF pb, nt
      <4> QED BY <2>2, <3>a, PrefixLeaves
    <3>2. PICK r \in Seq(Tokens) : nt = pb \o r
      BY <3>b
    <3>3. nt # <<>> /\ Head(nt) = Head(pb)
      <4> HIDE DEF pb, nt
      <4>1. r = <<>> => pb \o r = pb
        BY <2>2, ConcatEmptySeq
      <4>2. r # <<>> => pb \o r # <<>> /\ Head(pb \o r) = Head(pb)
        BY <2>2, <2>4, ConcatEnds
      <4> QED
        BY <2>4, <3>2, <4>1, <4>2, Zenon
    <3>4. Head(nt) = Slash <=> Rooted(text)
      BY <3>3, NormalMeans
    <3> HIDE DEF pb, nt
    <3> QED
      BY <2>4, <3>1, <3>3, <3>4 DEF Rooted
  <2>6. TrimPrefix(nt, pb) = nt
    BY <2>5 DEF TrimPrefix
  <2>7. CatalogPath(text) = Unrooted(nt)
    BY <2>6, CatalogPathMeans
  <2>8. Relative(text) = ns
    BY <1>2 DEF Relative
  <2> QED
    BY <2>1, <2>7, <2>8, NormalMeans
<1> QED
  BY <1>1, <1>2

\* A name that the prefix cuts leaves something all the same.
LEMMA CutPathStays ==
    ASSUME PrefixOK, NEW text \in Seq(Tokens), CutsAName(text)
    PROVE  CatalogPath(text) # <<>> /\ Relative(text) # <<>>
<1> DEFINE bs == Names(file.prefix)
           ns == Names(text)
           pb == Normalize(file.prefix)
           nt == Normalize(text)
<1>1. bs \in Seq(Name) /\ ns \in Seq(Name) /\ <<>> \in Seq(Tokens)
  BY NamesAreNames, EmptySeq DEF PrefixOK
<1>2. pb \in Seq(Tokens) /\ nt \in Seq(Tokens) /\ ~EndsInSlash(nt)
  BY NormalizeIsClean DEF PrefixOK, Clean
<1>3. IsPrefix(pb, nt) /\ ~IsPrefix(bs, ns)
  BY DEF CutsAName
<1>4. bs # <<>>
  <2>1. IsPrefix(<<>>, ns)
    BY <1>1, PrefixEnds
  <2> QED
    BY <1>3, <2>1
<1>5. pb # <<>>
  BY <1>4, NormalMeans DEF PrefixOK
<1> DEFINE rest == SubSeq(nt, Len(pb) + 1, Len(nt))
<1>a. rest \in Seq(Tokens) /\ nt = pb \o rest
  <2> HIDE DEF pb, nt
  <2> QED BY <1>2, <1>3, PrefixLeaves
<1>6. PICK r \in Seq(Tokens) : nt = pb \o r
  BY <1>a
<1>7. r # <<>>
  <2>1. SUFFICES ASSUME r = <<>> PROVE FALSE
    OBVIOUS
  <2>2. nt = pb
    <3> HIDE DEF pb, nt
    <3> QED BY <1>2, <1>6, <2>1, ConcatEmptySeq
  <2>3. Unrooted(nt) = Join(<<>>, ns) /\ Unrooted(pb) = Join(<<>>, bs)
    BY NormalMeans DEF PrefixOK
  <2>4. Names(Join(<<>>, ns)) = ns /\ Names(Join(<<>>, bs)) = bs
    BY <1>1, NamesOfJoin
  <2>5. ns = bs
    <3> HIDE DEF pb, nt, ns, bs
    <3> QED BY <2>2, <2>3, <2>4
  <2>6. IsPrefix(bs, bs)
    BY <1>1, PrefixEnds
  <2> QED
    BY <1>3, <2>5, <2>6
<1>8. ns # <<>>
  <2>1. nt # <<>>
    <3> HIDE DEF pb, nt
    <3> QED BY <1>2, <1>6, <1>7, ConcatEnds
  <2> QED
    BY <2>1, NormalMeans
<1>9. Relative(text) = ns
  BY <1>3 DEF Relative, IsBelow
<1>10. TrimPrefix(nt, pb) = r
  <2> HIDE DEF pb, nt
  <2> QED BY <1>2, <1>6, TrimMeans
<1>11. Unrooted(r) # <<>>
  <2>1. SUFFICES ASSUME Unrooted(r) = <<>> PROVE FALSE
    OBVIOUS
  <2>2. Head(r) = Slash /\ Tail(r) = <<>>
    BY <1>7, <2>1 DEF Unrooted
  <2>3. r = <<Slash>> \o <<>> /\ <<Slash>> \in Seq(Tokens)
    BY <1>7, <2>2, HeadAndTail
  <2>4. <<Slash>> \o <<>> = Append(<<>>, Slash)
    <3>1. Append(<<>>, Slash) = <<>> \o <<Slash>>
      BY <1>1, SlashIsToken, AppendIsConcat
    <3> QED
      BY <2>3, <3>1, ConcatEmptySeq
  <2>5. r = Append(<<>>, Slash)
    BY <2>3, <2>4
  <2>6. nt = Append(pb \o <<>>, Slash)
    <3> HIDE DEF pb, nt
    <3> QED BY <1>1, <1>2, <1>6, <2>5, SlashIsToken, ConcatAppend
  <2>7. pb \o <<>> = pb
    BY <1>2, ConcatEmptySeq
  <2>8. EndsInSlash(Append(pb, Slash))
    BY <1>2, SlashIsToken, AppendEnds
  <2> HIDE DEF pb, nt
  <2> QED
    BY <1>2, <2>6, <2>7, <2>8, Zenon
<1>12. CatalogPath(text) = Unrooted(r)
  BY <1>10, CatalogPathMeans
<1> QED
  BY <1>8, <1>9, <1>11, <1>12

\* What becomes an entry is what has a name below the prefix.
THEOREM ItemHasPath ==
    ASSUME PrefixOK, NEW text \in Seq(Tokens)
    PROVE  /\ CatalogPath(text) = <<>> <=> Relative(text) = <<>>
           /\ ~CutsAName(text) => Names(CatalogPath(text)) = Relative(text)
<1>1. CASE CutsAName(text)
  BY <1>1, CutPathStays
<1>2. CASE ~CutsAName(text)
  <2> DEFINE rs == Relative(text)
  <2>1. CatalogPath(text) = Join(<<>>, rs) /\ rs \in Seq(Name)
    BY <1>2, PathIsRelative
  <2>2. rs = <<>> <=> Join(<<>>, rs) = <<>>
    <3>1. rs = <<>> => Join(<<>>, rs) = <<>>
      BY JoinEmpty
    <3>2. rs # <<>> => Join(<<>>, rs) # <<>>
      BY <2>1, EmptySeq, JoinEnds
    <3> QED
      BY <3>1, <3>2
  <2>3. Names(Join(<<>>, rs)) = rs
    BY <2>1, NamesOfJoin
  <2> QED
    BY <1>2, <2>1, <2>2, <2>3, Zenon
<1> QED
  BY <1>1, <1>2

-----------------------------------------------------------------------------
(* Records and items.                                                      *)

\* What the code relies on of the file, which no step changes.
FileOK ==
    /\ file.header \in Seq(STRING)
    /\ file.records \in Seq(Seq(Seq(Tokens)))
    /\ file.prefix \in Seq(Tokens)

Kept == {EntryOf(file.records[i]) :
             i \in {i \in 1 .. Len(file.records) : ~Skips(file.records[i])}}

\* The entries are those of the items among the first n records, in order.
Arrived(n) ==
    /\ Len(imported) = Cardinality(Items(n))
    /\ \A i \in Items(n) : EntryFor(i) = EntryOf(file.records[i])

\* The totals are those of the entries.
Totalled ==
    /\ totals.files = Cardinality(Imported("file"))
    /\ totals.directories = Cardinality(Imported("directory"))

EfuInv ==
    /\ FileOK
    /\ line \in 0 .. Len(file.records)
    /\ imported \in Seq(Kept)
    /\ efuResult \in {"none", "ok", "error", "complete", "failed"}
    /\ efuResult # "failed" => Arrived(line)
    /\ efuResult \in {"none", "ok", "complete"} => Totalled
    /\ efuResult \in {"ok", "complete"} =>
           HasColumn("Filename") /\ line = Len(file.records)

NamesItem(i) == Relative(CellOf(file.records[i], "Filename")) # <<>>

\* An empty cell names no item.
LEMMA NothingBelowNothing == ASSUME PrefixOK PROVE Relative(<<>>) = <<>>
<1> DEFINE bs == Names(file.prefix)
<1>1. Names(<<>>) = <<>>
  BY FoldEmpty DEF Names
<1>2. bs \in Seq(Name) /\ <<>> \in Seq(Name)
  BY NamesAreNames, EmptySeq DEF PrefixOK
<1>3. IsPrefix(bs, <<>>) => SubSeq(<<>>, Len(bs) + 1, Len(<<>>)) = <<>>
  <2> HIDE DEF bs
  <2> QED BY <1>2
<1>4. IsBelow(<<>>) => IsPrefix(bs, <<>>)
  BY <1>1 DEF IsBelow
<1> HIDE DEF bs
<1>5. Relative(<<>>) = IF IsBelow(<<>>) THEN SubSeq(<<>>, Len(bs) + 1, Len(<<>>)) ELSE <<>>
  BY <1>1 DEF Relative, bs
<1> QED
  BY <1>3, <1>4, <1>5

\* EFU passes over the records that name no item, and no others.
LEMMA SkipsMeans ==
    ASSUME FileOK, HasColumn("Filename"), NEW i \in 1 .. Len(file.records)
    PROVE  Skips(file.records[i]) <=> ~NamesItem(i)
<1> DEFINE record == file.records[i]
           c == Position("Filename")
<1>1. record \in Seq(Seq(Tokens)) /\ PrefixOK
  BY ElementOfSeq DEF FileOK, PrefixOK
<1>2. Column("Filename") = c
  BY DEF Column
<1>3. CellOf(record, "Filename") = IF c \in DOMAIN record THEN record[c] ELSE <<>>
  BY DEF CellOf, Field
<1>4. CASE c \in DOMAIN record
  <2> DEFINE text == record[c]
  <2>1. text \in Seq(Tokens)
    <3> HIDE DEF record, c
    <3> QED BY <1>1, <1>4
  <2>2. CatalogPath(text) = <<>> <=> Relative(text) = <<>>
    <3> HIDE DEF text
    <3> QED BY <1>1, <2>1, ItemHasPath
  <2>3. CellOf(record, "Filename") = text
    BY <1>3, <1>4
  <2> QED
    BY <1>2, <1>4, <2>2, <2>3 DEF Skips, NamesItem
<1>5. CASE c \notin DOMAIN record
  BY <1>1, <1>2, <1>3, <1>5, NothingBelowNothing DEF Skips, NamesItem
<1> QED
  BY <1>4, <1>5

\* The items among the first n records, and with one record more.
LEMMA ItemsMean ==
    ASSUME NEW n \in Nat
    PROVE  /\ Items(0) = {}
           /\ IsFiniteSet(Items(n)) /\ Cardinality(Items(n)) \in Nat
           /\ Items(n) \subseteq 1 .. n
           /\ Items(n + 1) = IF NamesItem(n + 1) THEN Items(n) \cup {n + 1}
                             ELSE Items(n)
<1>1. Items(n) \subseteq 1 .. n /\ Items(0) = {}
  BY DEF Items
<1>2. IsFiniteSet(1 .. n)
  BY FS_Interval
<1>3. IsFiniteSet(Items(n)) /\ Cardinality(Items(n)) \in Nat
  BY <1>1, <1>2, FS_Subset, FS_CardinalityType
<1>4. Items(n + 1) = IF NamesItem(n + 1) THEN Items(n) \cup {n + 1} ELSE Items(n)
  <2> DEFINE P(i) == NamesItem(i)
  <2>1. Items(n + 1) = {i \in 1 .. n + 1 : P(i)} /\ Items(n) = {i \in 1 .. n : P(i)}
    BY DEF Items, NamesItem
  <2>2. 1 .. n + 1 = (1 .. n) \cup {n + 1}
    OBVIOUS
  <2> HIDE DEF P
  <2>3. Items(n + 1) = IF P(n + 1) THEN Items(n) \cup {n + 1} ELSE Items(n)
    BY <2>1, <2>2
  <2> QED
    BY <2>3 DEF P
<1> QED
  BY <1>1, <1>3, <1>4

\* The place of an item in the list is that of an entry, and no later record
\* moves it.
LEMMA ItemsPlace ==
    ASSUME NEW n \in Nat, NEW i \in Items(n)
    PROVE  Cardinality(Items(i)) \in 1 .. Cardinality(Items(n))
<1>1. i \in 1 .. n /\ i \in Nat
  <2>1. Items(n) \subseteq 1 .. n
    BY ItemsMean
  <2> QED
    BY <2>1
<1>2. i \in Items(i) /\ Items(i) \subseteq Items(n)
  BY <1>1 DEF Items
<1>3. /\ IsFiniteSet(Items(i)) /\ Cardinality(Items(i)) \in Nat
      /\ IsFiniteSet(Items(n)) /\ Cardinality(Items(n)) \in Nat
  BY <1>1, ItemsMean
<1>4. Cardinality(Items(i)) <= Cardinality(Items(n))
  BY <1>2, <1>3, FS_Subset
<1>5. Cardinality(Items(i)) # 0
  BY <1>2, <1>3, FS_EmptySet
<1> QED
  BY <1>3, <1>4, <1>5

-----------------------------------------------------------------------------
(* The invariant.                                                          *)

\* An import starts with none of the records read.
LEMMA EfuStarts ==
    ASSUME FileOK, EfuInit({file})
    PROVE  EfuInv
<1>1. Len(file.records) \in Nat
  BY DEF FileOK
<1>2. <<>> \in Seq(Kept) /\ imported = <<>> /\ line = 0 /\ efuResult = "none"
  BY EmptySeq DEF EfuInit
<1>3. Arrived(0)
  BY <1>2, ItemsMean, FS_EmptySet DEF Arrived
<1>4. Totalled
  <2>1. Imported("file") = {} /\ Imported("directory") = {}
    BY <1>2 DEF Imported
  <2>2. totals.files = 0 /\ totals.directories = 0
    BY DEF EfuInit
  <2> QED
    BY <2>1, <2>2, FS_EmptySet DEF Totalled
<1> QED
  BY <1>1, <1>2, <1>3, <1>4 DEF EfuInv

\* What depends on the file alone stays as it is.
LEMMA FileStays ==
    ASSUME file' = file
    PROVE  /\ FileOK' = FileOK /\ Kept' = Kept
           /\ \A n : Items(n)' = Items(n)
           /\ HasColumn("Filename")' = HasColumn("Filename")
           /\ \A r : EntryOf(r)' = EntryOf(r)
  BY DEF FileOK, Kept, Items, HasColumn, EntryOf, CellOf, Relative, IsBelow,
         Skips, CatalogPath, Column, Position, KindOf, PrefixOK

\* The record after those read is an item: its entry goes to the end.
LEMMA ArrivedMore ==
    ASSUME EfuInv, HasNext, ~Skips(NextRecord), Arrived(line),
           file' = file, line' = line + 1,
           imported' = Append(imported, EntryOf(NextRecord))
    PROVE  Arrived(line)' /\ imported' \in Seq(Kept)
<1> DEFINE n == line
           e == EntryOf(NextRecord)
<1>1. n \in Nat /\ n + 1 \in 1 .. Len(file.records) /\ Len(file.records) \in Nat
  <2>1. n \in 0 .. Len(file.records) /\ Len(file.records) \in Nat
    BY DEF EfuInv, FileOK
  <2> QED
    BY <2>1 DEF HasNext
<1>2. FileOK /\ HasColumn("Filename") /\ imported \in Seq(Kept)
  BY DEF EfuInv, HasNext
<1>3. NamesItem(n + 1)
  BY <1>1, <1>2, SkipsMeans DEF NextRecord
<1>4. Items(n + 1) = Items(n) \cup {n + 1}
  BY <1>1, <1>3, ItemsMean
<1>5. /\ IsFiniteSet(Items(n)) /\ Cardinality(Items(n)) \in Nat
      /\ Items(n) \subseteq 1 .. n
  BY <1>1, ItemsMean
<1>6. Cardinality(Items(n + 1)) = Cardinality(Items(n)) + 1
  <2>1. n + 1 \notin Items(n)
    BY <1>1, <1>5
  <2> QED
    BY <1>4, <1>5, <2>1, FS_AddElement
<1>7. Len(imported) = Cardinality(Items(n))
  BY DEF Arrived
<1>8. e \in Kept
  BY <1>1 DEF Kept, NextRecord
<1>9. /\ Append(imported, e) \in Seq(Kept)
      /\ Len(Append(imported, e)) = Len(imported) + 1
      /\ \A k \in 1 .. Len(imported) : Append(imported, e)[k] = imported[k]
      /\ Append(imported, e)[Len(imported) + 1] = e
  <2> HIDE DEF e
  <2> QED BY <1>2, <1>8, AppendProperties
<1> DEFINE more == Append(imported, e)
<1>10. ASSUME NEW i \in Items(n + 1)
       PROVE  more[Cardinality(Items(i))] = EntryOf(file.records[i])
  <2>1. CASE i \in Items(n)
    <3>1. Cardinality(Items(i)) \in 1 .. Len(imported)
      BY <1>1, <1>7, <2>1, ItemsPlace
    <3>2. imported[Cardinality(Items(i))] = EntryOf(file.records[i])
      BY <2>1 DEF Arrived, EntryFor
    <3> QED
      BY <1>9, <3>1, <3>2
  <2>2. CASE i = n + 1
    <3>1. Cardinality(Items(i)) = Len(imported) + 1
      BY <1>6, <1>7, <2>2
    <3> QED
      BY <1>9, <2>2, <3>1 DEF NextRecord
  <2> QED
    BY <1>4, <2>1, <2>2
<1>11. Len(more) = Cardinality(Items(n + 1))
  BY <1>6, <1>7, <1>9
<1>12. /\ \A m : Items(m)' = Items(m)
       /\ \A r : EntryOf(r)' = EntryOf(r)
       /\ line' = n + 1 /\ imported' = more
  BY FileStays
<1>13. Arrived(line)'
  BY <1>10, <1>11, <1>12 DEF Arrived, EntryFor
<1> QED
  BY <1>9, <1>13

\* One entry more is counted once, under its kind.
LEMMA ImportedMore ==
    ASSUME NEW T, imported \in Seq(T), NEW e, imported' = Append(imported, e), NEW kind
    PROVE  /\ IsFiniteSet(Imported(kind)) /\ Cardinality(Imported(kind)) \in Nat
           /\ Cardinality(Imported(kind)') =
                  Cardinality(Imported(kind)) + (IF e.kind = kind THEN 1 ELSE 0)
<1> DEFINE n == Len(imported)
           I == Imported(kind)
<1>1. n \in Nat /\ DOMAIN imported = 1 .. n
  OBVIOUS
<1>2. I \subseteq 1 .. n /\ IsFiniteSet(1 .. n)
  BY <1>1, FS_Interval DEF Imported
<1>3. IsFiniteSet(I) /\ Cardinality(I) \in Nat
  BY <1>2, FS_Subset, FS_CardinalityType
<1>4. /\ Len(imported') = n + 1 /\ DOMAIN imported' = 1 .. n + 1
      /\ \A i \in 1 .. n : imported'[i] = imported[i]
      /\ imported'[n + 1] = e
  OBVIOUS
<1>5. 1 .. n + 1 = (1 .. n) \cup {n + 1} /\ n + 1 \notin 1 .. n
  BY <1>1
<1>6. Imported(kind)' = IF e.kind = kind THEN I \cup {n + 1} ELSE I
  BY <1>1, <1>4, <1>5 DEF Imported
<1>7. Cardinality(I \cup {n + 1}) = Cardinality(I) + 1
  BY <1>2, <1>3, <1>5, FS_AddElement
<1> QED
  BY <1>3, <1>6, <1>7

\* EFUResult follows the entries.
LEMMA TotalledMore ==
    ASSUME NEW T, imported \in Seq(T), Totalled, NEW record,
           imported' = Append(imported, EntryOf(record)),
           totals' = Counted(EntryOf(record))
    PROVE  Totalled'
<1> DEFINE e == EntryOf(record)
<1>1. \A k \in {"file", "directory"} :
          /\ Cardinality(Imported(k)) \in Nat
          /\ Cardinality(Imported(k)') =
                 Cardinality(Imported(k)) + (IF e.kind = k THEN 1 ELSE 0)
  BY ImportedMore
<1>2. /\ totals'.files = totals.files + (IF e.kind = "file" THEN 1 ELSE 0)
      /\ totals'.directories
             = totals.directories + (IF e.kind = "directory" THEN 1 ELSE 0)
  BY DEF Counted
<1> HIDE DEF e
<1> QED
  BY <1>1, <1>2 DEF Totalled

\* A record that is no item changes nothing.
LEMMA ArrivedStays ==
    ASSUME Arrived(line), UNCHANGED <<file, imported>>,
           Items(line') = Items(line)
    PROVE  Arrived(line)'
<1>1. /\ \A m : Items(m)' = Items(m)
      /\ \A r : EntryOf(r)' = EntryOf(r)
  BY FileStays
<1>2. Items(line)' = Items(line)
  BY FileStays DEF Items
<1> QED
  BY <1>1, <1>2 DEF Arrived, EntryFor

\* The invariant is inductive.
LEMMA EfuKeeps ==
    ASSUME EfuInv, [EfuNext]_efuVars
    PROVE  EfuInv'
<1>1. file' = file
  BY DEF EfuNext, efuVars, ReadFails, SkipRecord, Yield, EfuYieldFails, EndOfFile,
         EfuComplete, EfuFail, EfuDone
<1>2. FileOK' /\ Kept' = Kept /\ (HasColumn("Filename")' <=> HasColumn("Filename"))
  BY <1>1, FileStays DEF EfuInv
<1>3. Len(file.records) \in Nat
  BY DEF EfuInv, FileOK
<1>4. ASSUME UNCHANGED <<file, line, imported>>, efuResult # "failed"
      PROVE  Arrived(line)'
  BY <1>4, ArrivedStays DEF EfuInv
<1>a. ASSUME UNCHANGED <<imported, totals>>, Totalled PROVE Totalled'
  BY <1>a DEF Totalled, Imported
<1>5. CASE ReadFails
  BY <1>2, <1>4, <1>5 DEF ReadFails, Reading, EfuInv
<1>6. CASE SkipRecord
  <2>1. /\ UNCHANGED <<file, imported, efuResult>> /\ line' = line + 1
        /\ HasColumn("Filename") /\ line < Len(file.records)
        /\ Skips(file.records[line + 1]) /\ efuResult = "none"
    BY <1>6 DEF SkipRecord, HasNext, Reading, NextRecord
  <2>2. line \in Nat /\ line + 1 \in 1 .. Len(file.records)
    BY <1>3, <2>1 DEF EfuInv
  <2>3. ~NamesItem(line + 1)
    BY <2>1, <2>2, SkipsMeans DEF EfuInv
  <2>4. Items(line') = Items(line)
    BY <2>1, <2>2, <2>3, ItemsMean
  <2>5. Arrived(line)'
    BY <2>1, <2>4, ArrivedStays DEF EfuInv
  <2>6. Totalled'
    BY <1>6, <1>a, <2>1 DEF EfuInv, SkipRecord
  <2> QED
    BY <1>1, <1>2, <1>3, <2>1, <2>2, <2>5, <2>6 DEF EfuInv
<1>7. CASE Yield
  <2>1. /\ UNCHANGED <<file, efuResult>> /\ line' = line + 1
        /\ line < Len(file.records) /\ efuResult = "none"
        /\ HasNext /\ ~Skips(NextRecord)
        /\ imported' = Append(imported, EntryOf(NextRecord))
    BY <1>7 DEF Yield, HasNext, Reading
  <2>2. line' \in 0 .. Len(file.records)
    BY <1>3, <2>1 DEF EfuInv
  <2>3. Arrived(line)' /\ imported' \in Seq(Kept)
    BY <2>1, ArrivedMore DEF EfuInv
  <2>4. Totalled'
    <3>1. imported \in Seq(Kept) /\ Totalled
      BY <2>1 DEF EfuInv
    <3>2. totals' = Counted(EntryOf(NextRecord))
      BY <1>7 DEF Yield
    <3> QED
      BY <2>1, <3>1, <3>2, TotalledMore
  <2> QED
    BY <1>1, <1>2, <2>1, <2>2, <2>3, <2>4 DEF EfuInv
<1>8. CASE EfuYieldFails
  BY <1>2, <1>4, <1>8 DEF EfuYieldFails, HasNext, Reading, EfuInv
<1>9. CASE EndOfFile
  BY <1>2, <1>4, <1>a, <1>9 DEF EndOfFile, Reading, EfuInv
<1>10. CASE EfuComplete
  BY <1>2, <1>4, <1>a, <1>10 DEF EfuComplete, EfuInv
<1>11. CASE EfuFail
  BY <1>2, <1>11, EmptySeq DEF EfuFail, EfuInv
<1>12. CASE UNCHANGED efuVars
  BY <1>2, <1>4, <1>a, <1>12 DEF efuVars, EfuInv
<1> QED
  BY <1>5, <1>6, <1>7, <1>8, <1>9, <1>10, <1>11, <1>12 DEF EfuNext, EfuDone

\* What the invariant says of a finished import, in the words of the list.
LEMMA EfuInvMeans ==
    ASSUME EfuInv
    PROVE  EveryItemArrives /\ EntriesMoveOn
<1>1. FileOK /\ PrefixOK
  BY DEF EfuInv, FileOK, PrefixOK
<1>2. ASSUME NEW r \in Kept PROVE ValidImportedEntry(r) <=> ~Odd(r)
  <2>1. PICK i \in 1 .. Len(file.records) :
            r = EntryOf(file.records[i]) /\ ~Skips(file.records[i])
    BY DEF Kept
  <2> DEFINE record == file.records[i]
             c == Column("Filename")
  <2>2. record \in Seq(Seq(Tokens))
    BY <1>1, ElementOfSeq DEF FileOK
  <2>3. c \in DOMAIN record /\ CatalogPath(record[c]) # <<>>
    BY <2>1 DEF Skips
  <2>4. record[c] \in Seq(Tokens)
    <3> HIDE DEF record, c
    <3> QED BY <2>2, <2>3
  <2>5. EntryOf(record).size \in Int
    BY SizesAreNumbers
  <2>6. ValidImportedEntry(EntryOf(record)) <=> ~Odd(EntryOf(record))
    BY <1>1, <2>3, <2>4, <2>5, EntryIsValid
  <2> QED
    BY <2>1, <2>6
<1>3. EntriesMoveOn
  <2>1. imported \in Seq(Kept)
    BY DEF EfuInv
  <2>2. \A i \in DOMAIN imported : imported[i] \in Kept
    BY <2>1
  <2> QED
    BY <1>2, <2>2 DEF EntriesMoveOn
<1>4. ASSUME efuResult = "complete" PROVE EveryItemArrives
  <2> DEFINE n == Len(file.records)
  <2>1. Arrived(n) /\ HasColumn("Filename") /\ n \in Nat
    BY <1>4 DEF EfuInv, FileOK
  <2>2. ASSUME NEW i \in Items(n)
        PROVE  LET text       == CellOf(file.records[i], "Filename")
                   attributes == CellOf(file.records[i], "Attributes")
               IN  /\ CutsAName(text)
                          \/ Names(EntryFor(i).path) = Relative(text)
                   /\ HasColumn("Attributes") =>
                          (EntryFor(i).kind = "directory"
                           <=> "D" \in LettersIn(attributes))
    <3> DEFINE record == file.records[i]
               text == CellOf(record, "Filename")
               c == Position("Filename")
    <3>1. i \in 1 .. n /\ NamesItem(i)
      BY DEF Items, NamesItem
    <3>2. EntryFor(i) = EntryOf(record)
      BY <2>1 DEF Arrived
    <3>3. record \in Seq(Seq(Tokens))
      BY <1>1, <3>1, ElementOfSeq DEF FileOK
    <3>4. c \in DOMAIN record /\ text = record[c]
      <4>1. text = IF c \in DOMAIN record THEN record[c] ELSE <<>>
        BY <2>1 DEF CellOf, Field
      <4>2. text # <<>>
        BY <1>1, <3>1, NothingBelowNothing DEF NamesItem
      <4> QED
        BY <4>1, <4>2
    <3>5. text \in Seq(Tokens)
      <4>1. record[c] \in Seq(Tokens)
        <5> HIDE DEF record, c
        <5> QED BY <3>3, <3>4
      <4> QED
        BY <3>4, <4>1
    <3>6. EntryOf(record).path = CatalogPath(text)
          /\ EntryOf(record).kind = KindOf(record)
      <4>1. Column("Filename") = c
        BY <2>1 DEF Column
      <4> QED
        BY <3>4, <4>1 DEF EntryOf
    <3>7. CutsAName(text) \/ Names(CatalogPath(text)) = Relative(text)
      <4> HIDE DEF text
      <4> QED BY <1>1, <3>5, ItemHasPath
    <3>8. ASSUME HasColumn("Attributes")
          PROVE  KindOf(record) = "directory"
                     <=> "D" \in LettersIn(CellOf(record, "Attributes"))
      BY <3>8 DEF KindOf, CellOf, Column
    <3> HIDE DEF record, text
    <3>9. /\ CutsAName(text) \/ Names(EntryFor(i).path) = Relative(text)
          /\ HasColumn("Attributes") =>
                 (EntryFor(i).kind = "directory"
                  <=> "D" \in LettersIn(CellOf(record, "Attributes")))
      BY <3>2, <3>6, <3>7, <3>8
    <3> QED
      BY <3>9 DEF text, record
  <2>3. Totalled
    BY <1>4 DEF EfuInv
  <2> QED
    BY <2>1, <2>2, <2>3 DEF EveryItemArrives, Arrived, Totalled
<1> QED
  BY <1>3, <1>4 DEF EveryItemArrives

\* The inductive invariant of an import.
THEOREM EfuInvariance == EfuSpec => []EfuInv
<1>1. EfuInit(EfuFiles) => EfuInv
  BY EfuAssumption, EfuStarts DEF EfuInit, FileOK
<1>2. EfuInv /\ [EfuNext]_efuVars => EfuInv'
  BY EfuKeeps
<1> QED
  BY <1>1, <1>2, PTL DEF EfuSpec

\* Every item of the list, and nothing else, has become an entry, in the list's
\* order and under the names it has below the prefix (efu.go EFU), for lists,
\* paths and prefixes of any length.
THEOREM ItemsArrive == EfuSpec => []EveryItemArrives
<1>1. EfuInv => EveryItemArrives
  BY EfuInvMeans
<1> QED
  BY <1>1, EfuInvariance, PTL

\* Whatever the list says, its entries pass validateImportedEntry of
\* internal/catalog/import.go exactly if no size in them is negative and no
\* name holds a NUL or is one dot or two.
THEOREM EntriesAreValid == EfuSpec => []EntriesMoveOn
<1>1. EfuInv => EntriesMoveOn
  BY EfuInvMeans
<1> QED
  BY <1>1, EfuInvariance, PTL

-----------------------------------------------------------------------------
(* Commands.                                                               *)

\* A process that runs one command does to the other's state nothing that the
\* other does not do itself (main of cmd/coldshelf/main.go): what holds of a
\* scan and of an import holds of the commands.
THEOREM CommandsKeepApart ==
    CommandSpec => /\ Spec
                   /\ EfuInit(EfuFiles \cup {NoFile}) /\ [][EfuNext]_efuVars
<1>1. CommandInit => Init /\ EfuInit(EfuFiles \cup {NoFile})
  BY DEF CommandInit, EfuInit
<1>2. [CommandNext]_commandVars => [Next]_vars /\ [EfuNext]_efuVars
  BY DEF CommandNext, commandVars, ScanCommand, ImportEfuCommand
<1> QED
  BY <1>1, <1>2, PTL DEF CommandSpec, Spec

\* The properties of the run commands, of the specification it runs.
THEOREM CommandsAreSafe ==
    CommandSpec => [](/\ TypeOK /\ GapsAreReported
                      /\ ExcludedStaysOut /\ TotalsMatchRecorded
                      /\ EveryItemArrives /\ EntriesMoveOn)
<1>1. NoFile.header = <<>> /\ NoFile.records = <<>> /\ NoFile.prefix = <<>>
  BY DEF NoFile
<1>2. ASSUME NEW f \in EfuFiles \cup {NoFile}
      PROVE  /\ f.header \in Seq(STRING)
             /\ f.records \in Seq(Seq(Seq(Tokens))) /\ f.prefix \in Seq(Tokens)
  BY <1>1, EfuAssumption, EmptySeq
<1>3. EfuInit(EfuFiles \cup {NoFile}) => EfuInv
  BY <1>2, EfuStarts DEF EfuInit, FileOK
<1>4. EfuInv /\ [EfuNext]_efuVars => EfuInv'
  BY EfuKeeps
<1>5. EfuInv => EveryItemArrives /\ EntriesMoveOn
  BY EfuInvMeans
<1> QED
  BY <1>3, <1>4, <1>5, CommandsKeepApart, TypeCorrect, GapsReported,
     ExcludedStaysAway, TotalsAreTrue, PTL
=============================================================================
