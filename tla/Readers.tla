------------------------------ MODULE Readers ------------------------------
(***************************************************************************)
(* Those who read the shelf in several requests or statements while scans  *)
(* publish to it: an export (Export), or the history panel of a page       *)
(* (HistoryPage).  They share nothing but the shelf, and neither writes to *)
(* it, so that a behaviour needs only one of them.                         *)
(***************************************************************************)
EXTENDS Export, HistoryPage

VARIABLE reader   \* who reads in this behaviour

readersVars == <<exportVars, pageVars, reader>>

ReadersInit == ExportInit /\ PageInit /\ reader \in {"export", "page"}

Exports == reader = "export" /\ ExportNext /\ UNCHANGED <<pageVars, reader>>
Browses == reader = "page" /\ HistoryNext /\ UNCHANGED <<export, reader>>

ReadersNext == Exports \/ Browses

ReadersSpec == ReadersInit /\ [][ReadersNext]_readersVars
=============================================================================
