-------------------------- MODULE MCSchemaVersions -------------------------
(* An instance of SchemaVersions for TLC.                                  *)
EXTENDS SchemaVersions, TLC

CONSTANTS old, new, newer

\* Programs of three versions; the file may have been written by any.
SupportsThree == (old :> 1) @@ (new :> 2) @@ (newer :> 3)
=============================================================================
