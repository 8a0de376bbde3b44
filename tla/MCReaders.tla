----------------------------- MODULE MCReaders -----------------------------
(* An instance of Readers for TLC.                                         *)
EXTENDS Readers, TLC

CONSTANTS d1, d2, s1, x, v1, v2, v3, r1, r2

\* Drives, versions and requests are exchanged independently.
ReadersSymmetry == {d @@ v @@ r : d \in Permutations({d1, d2}),
                                  v \in Permutations({v1, v2, v3}),
                                  r \in Permutations({r1, r2})}

\* Bound: a page does not look into trees, so all of them are the same.
OneTree == reader = "page" => \A v \in Versions : published[v] # Unpublished =>
                                  published[v].tree = Paths
=============================================================================
