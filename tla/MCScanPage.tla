---------------------------- MODULE MCScanPage -----------------------------
(* Instances of ScanPage for TLC.                                          *)
EXTENDS ScanPage, TLC

CONSTANTS d1, j1, j2, server, file

\* A job of a server and a scan that another page started there.
HostServer == (j1 :> server) @@ (j2 :> server)

KindFile == (file :> "file")
=============================================================================
