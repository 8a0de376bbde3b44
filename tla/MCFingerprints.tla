--------------------------- MODULE MCFingerprints ---------------------------
(* Instances of Fingerprints for TLC.                                      *)
EXTENDS Fingerprints, TLC

CONSTANTS d1, d2, x, y

\* Two files on one drive, one on another.
ThreeFiles == {<<d1, x>>, <<d1, y>>, <<d2, x>>}

\* With samples of one byte: two files that two samples cover and that differ
\* in the last byte, and two that differ only between their samples.
SmallContents == {<<0, 0>>, <<0, 1>>, <<0, 0, 0>>, <<0, 1, 0>>}

\* Two copies and a file that looks like them to a quick hash; and a copy on
\* another drive of one of two short files.
LooksAlike == (<<d1, x>> :> <<0, 0, 0>>) @@ (<<d1, y>> :> <<0, 0, 0>>) @@
              (<<d2, x>> :> <<0, 1, 0>>)
ShortFiles == (<<d1, x>> :> <<0, 0>>) @@ (<<d1, y>> :> <<0, 1>>) @@
              (<<d2, x>> :> <<0, 0>>)
TwoShelves == {LooksAlike, ShortFiles}
=============================================================================
