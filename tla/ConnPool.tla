------------------------------ MODULE ConnPool ------------------------------
(***************************************************************************)
(* Catalog as one server serves it (internal/catalog/db.go): every process *)
(* has a pool of connections, which database/sql hands out.  A transaction *)
(* keeps one from BeginTx to the end of Commit or Rollback; a statement    *)
(* outside of it takes one for itself, and waits while there is none.      *)
(* The context of a job is context.Background(): it waits without end.     *)
(*                                                                         *)
(* Beside the scans there are the handlers of PATCH /api/drives/{id},      *)
(* whose UpdateDrive is three statements, each on a connection of its own. *)
(***************************************************************************)
EXTENDS Catalog

CONSTANTS
    Editors,      \* the handlers that may run UpdateDrive at once
    Server,       \* the process they run in
    PoolSizes     \* what SetMaxOpenConns may be given; the code gives 8

ASSUME PoolAssumption == Server \in Processes /\ PoolSizes \subseteq Nat \ {0}

VARIABLES
    maxConns,     \* the argument of SetMaxOpenConns
    edits         \* each UpdateDrive between its statements

poolVars == <<maxConns, edits>>

NoEdit    == [call |-> "none"]
Rereading == [call |-> "rereading"]

PoolInit ==
    /\ Init
    /\ maxConns \in PoolSizes
    /\ edits = [e \in Editors |-> NoEdit]

-----------------------------------------------------------------------------
(* Connections.                                                            *)

\* Mutant: the connection goes back when Fail or Complete returns.
HoldsUntilReturn(w) == writers[w].call \in InTransaction \cup {"marking", "reading"}

Holds(w) == writers[w].call \in InTransaction

Free(p) == Cardinality({w \in Writers : Host[w] = p /\ Holds(w)}) < maxConns

\* The next step of w is a statement, or a BEGIN, on a connection of its own.
NeedsConnection(w) == writers[w].call \in {"idle", "starting", "marking", "reading"}

HasConnection(w) == NeedsConnection(w) => Free(Host[w])

PooledStep(w) == HasConnection(w) /\ WriterStep(w) /\ UNCHANGED poolVars

-----------------------------------------------------------------------------
(* UpdateDrive.                                                            *)

\* GetDrive: the whole row, with the view it has at that moment.
ReadRow(e, d) ==
    /\ edits[e] = NoEdit
    /\ d \in drives /\ Free(Server)
    /\ edits' = [edits EXCEPT ![e] = [call |-> "editing", drive |-> d,
                                      latest |-> latest[d]]]
    /\ UNCHANGED latest

\* Mutant: the UPDATE sets every column of the row that was read.
WriteRowWhole(e) ==
    /\ edits[e].call = "editing"
    /\ lock = NoWriter /\ Free(Server)
    /\ edits' = [edits EXCEPT ![e] = Rereading]
    /\ latest' = [latest EXCEPT ![edits[e].drive] = edits[e].latest]

\* The UPDATE sets the columns a user edits, as they were read or patched.
\* latest_snapshot_id, which a scan may have set meanwhile, is not among them.
WriteRow(e) ==
    /\ edits[e].call = "editing"
    /\ lock = NoWriter /\ Free(Server)
    /\ edits' = [edits EXCEPT ![e] = Rereading]
    /\ UNCHANGED latest

\* The UPDATE times out, or a name that is empty or taken is refused.
EditFails(e) ==
    /\ edits[e].call = "editing" /\ Free(Server)
    /\ edits' = [edits EXCEPT ![e] = NoEdit]
    /\ UNCHANGED latest

\* GetDrive again, for the answer.  It may fail, but the edit is in.
RereadRow(e) ==
    /\ edits[e] = Rereading /\ Free(Server)
    /\ edits' = [edits EXCEPT ![e] = NoEdit]
    /\ UNCHANGED latest

EditChangesNothingElse ==
    UNCHANGED <<clock, drives, lastId, snapshots, entries, lock, writers, maxConns>>

BeginEdit(e, d) == ReadRow(e, d) /\ EditChangesNothingElse
EditStep(e) == /\ WriteRow(e) \/ EditFails(e) \/ RereadRow(e)
               /\ EditChangesNothingElse

-----------------------------------------------------------------------------
\* What happens in Catalog, wherever there is a connection for it.
PooledCatalog ==
    /\ \/ \E w \in Writers : (HasConnection(w) /\ Start(w)) \/ Leave(w)
       \/ \E d \in Drives : Free(Server) /\ CreateDrive(d)
       \/ Open \/ Tick
    /\ UNCHANGED poolVars

PoolCrash(p) ==
    /\ Crash(p)
    /\ edits' = IF p = Server THEN [e \in Editors |-> NoEdit] ELSE edits
    /\ UNCHANGED maxConns

PoolNext ==
    \/ PooledCatalog
    \/ \E w \in Writers : PooledStep(w)
    \/ \E e \in Editors : EditStep(e) \/ \E d \in Drives : BeginEdit(e, d)
    \/ \E p \in Processes : PoolCrash(p)

PoolSpec == PoolInit /\ [][PoolNext]_<<vars, poolVars>>

\* A goroutine that can go on does, every wait for the lock ends, in the lock
\* or in the busy timeout, and every wait for a connection once one stays free;
\* time passes; somebody runs a coldshelf command again, in a process with a
\* pool of its own.  Nobody has to start a scan and nothing has to crash.
PoolFairness ==
    /\ \A w \in Writers : WF_<<vars, poolVars>>(PooledStep(w))
    /\ \A e \in Editors : WF_<<vars, poolVars>>(EditStep(e))
    /\ WF_<<vars, poolVars>>(Open /\ UNCHANGED poolVars)
    /\ WF_<<vars, poolVars>>(Tick /\ UNCHANGED poolVars)

FairPoolSpec == PoolSpec /\ PoolFairness

-----------------------------------------------------------------------------
(* Properties.                                                             *)

\* Nobody waits for a connection for ever, also when there are as many jobs as
\* connections: who holds one never waits for a second, Fail and Complete give
\* theirs back before they mark or read the snapshot (writer.go).
RequestsAreAnswered == \A e \in Editors : edits[e] # NoEdit ~> edits[e] = NoEdit
=============================================================================
