----------------------------- MODULE MCCatalog -----------------------------
(* Instances of Catalog for TLC.                                           *)
EXTENDS Catalog, TLC

CONSTANTS d1, d2, w1, w2, p1, p2, file, link

\* Two writers in processes of their own.
HostApart == (w1 :> p1) @@ (w2 :> p2)

KindTwo == (file :> "file") @@ (link :> "symlink")
KindFile == (file :> "file")

\* Swapping the writers together with their processes, and the drives.
ApartSymmetry ==
    {w @@ d : w \in {(w1 :> w1) @@ (w2 :> w2) @@ (p1 :> p1) @@ (p2 :> p2),
                     (w1 :> w2) @@ (w2 :> w1) @@ (p1 :> p2) @@ (p2 :> p1)},
             d \in Permutations({d1, d2})}
=============================================================================
