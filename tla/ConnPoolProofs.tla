--------------------------- MODULE ConnPoolProofs ---------------------------
(***************************************************************************)
(* Theorems about ConnPool: whatever the size of the pools and however many*)
(* edits run beside the scans, the tables are those of Catalog.            *)
(***************************************************************************)
EXTENDS ConnPool, CatalogProofs

\* An edit leaves every table as it is, as far as Catalog speaks of them.
LEMMA EditsAreInvisible ==
    ASSUME NEW e \in Editors,
           EditStep(e) \/ \E d \in Drives : BeginEdit(e, d)
    PROVE  UNCHANGED vars
BY DEF EditStep, BeginEdit, ReadRow, WriteRow, EditFails, RereadRow,
       EditChangesNothingElse, vars

\* Every step beside a pool is a step of Catalog, or one it does not see.
LEMMA PoolStep == [PoolNext]_<<vars, poolVars>> => [Next]_vars
<1> SUFFICES ASSUME [PoolNext]_<<vars, poolVars>> PROVE [Next]_vars
  OBVIOUS
<1>1. CASE PooledCatalog
  BY <1>1 DEF PooledCatalog, Next
<1>2. ASSUME NEW w \in Writers, PooledStep(w) PROVE [Next]_vars
  BY <1>2 DEF PooledStep, Next
<1>3. ASSUME NEW e \in Editors, EditStep(e) \/ \E d \in Drives : BeginEdit(e, d)
      PROVE  [Next]_vars
  BY <1>3, EditsAreInvisible
<1>4. ASSUME NEW p \in Processes, PoolCrash(p) PROVE [Next]_vars
  BY <1>4 DEF PoolCrash, Next
<1>5. CASE UNCHANGED <<vars, poolVars>>
  BY <1>5
<1>6. QED
  BY <1>1, <1>2, <1>3, <1>4, <1>5 DEF PoolNext

\* What holds of Catalog holds of a server with a pool (db.go SetMaxOpenConns)
\* and with edits of drives (UpdateDrive) beside its scans.
THEOREM PoolImplementsCatalog == PoolSpec => Spec
<1>1. PoolInit => Init
  BY DEF PoolInit
<1>2. QED
  BY <1>1, PoolStep, PTL DEF PoolSpec, Spec

\* The inductive invariant of Catalog, for pools of any size.
THEOREM PoolKeepsIInv == PoolSpec => []IInv
BY PoolImplementsCatalog, Invariance

\* A stale row that UpdateDrive writes back never moves a view: only the commit
\* of a scan does.
THEOREM PoolImplementsShelf == PoolSpec => ImplementsShelf
BY PoolImplementsCatalog, CatalogImplementsShelf
=============================================================================
