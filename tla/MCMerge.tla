------------------------------ MODULE MCMerge ------------------------------
(* Instances of Merge for TLC.                                             *)
EXTENDS Merge

CONSTANTS laptop, desktop, Photos

\* One catalog imported into the other, and the two into each other.
OneWay   == {<<laptop, desktop>>}
BothWays == {<<laptop, desktop>>, <<desktop, laptop>>}

\* Two drives of the same name, one in each catalog.
HomeApart  == <<desktop, laptop>>
NameShared == <<Photos, Photos>>

\* One drive.
HomeOne == <<laptop>>
NameOne == <<Photos>>
=============================================================================
