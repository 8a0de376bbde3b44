----------------------------- MODULE MCConnPool -----------------------------
(* An instance of ConnPool for TLC: two jobs and a handler of one server.  *)
EXTENDS ConnPool, TLC

CONSTANTS d1, w1, w2, e1, p1, folder

HostTogether == (w1 :> p1) @@ (w2 :> p1)
KindFolder   == (folder :> "directory")
=============================================================================
