------------------------ MODULE InventorySyncProofs ------------------------
(***************************************************************************)
(* At most one replica syncs, for any number of replicas and of faults,    *)
(* as long as no session breaks under its leader; and whoever syncs, the   *)
(* summary has rows for names of the catalog only.                         *)
(***************************************************************************)
EXTENDS InventorySync, TLAPS

Places == {"acquire", "standby", "stopping", "down"} \cup Syncing

(* The part of the type invariant the election rests on. *)
ElectionTypeOK ==
  /\ pc \in [Replicas -> Places]
  /\ lost \in [Replicas -> BOOLEAN]

(* What makes OneLeader inductive: a replica that syncs and whose session  *)
(* has not broken is the holder of the lock.                               *)
LeaderHolds == \A r \in Replicas : Leading(r) => lost[r] \/ holder = r

ElectionInv == ElectionTypeOK /\ LeaderHolds

(* A run starts with a step of fn. *)
LEMMA FirstStepSyncs == FirstStep \in Syncing
  BY DEF FirstStep, Syncing

(* A step that leaves the lock and the sessions alone and moves one        *)
(* replica, inside fn only if it was there, preserves the invariant.       *)
LEMMA MoveOne ==
  ASSUME ElectionInv, NEW r \in Replicas, NEW to \in Places, Goto(r, to),
         to \in Syncing => Leading(r),
         UNCHANGED <<lost, holder>>
  PROVE  ElectionInv'
  BY DEF ElectionInv, ElectionTypeOK, LeaderHolds, Leading, Goto

(* A replica that leaves fn may take its lock with it. *)
LEMMA LeaveOne ==
  ASSUME ElectionInv, NEW r \in Replicas, Goto(r, "down"), Bury(r), UNCHANGED lost
  PROVE  ElectionInv'
  <1>1. "down" \in Places /\ "down" \notin Syncing
    BY DEF Places, Syncing
  <1> QED
    BY <1>1 DEF ElectionInv, ElectionTypeOK, LeaderHolds, Leading, Goto, Bury

(* Only TryLock starts fn, and only when no session holds the lock. *)
LEMMA ElectionStep ==
  ASSUME ElectionInv, [Next]_vars
  PROVE  ElectionInv'
  <1>1. ASSUME NEW r \in Replicas, TryLock(r)
        PROVE  ElectionInv'
    <2>1. CASE holder = None /\ holder' = r /\ Goto(r, FirstStep)
      <3>1. \A s \in Replicas : Leading(s) => lost[s]
        BY <2>1, SyncAssumption DEF ElectionInv, LeaderHolds
      <3>2. pc' \in [Replicas -> Places]
        BY <2>1, FirstStepSyncs DEF ElectionInv, ElectionTypeOK, Goto, Places
      <3> QED
        BY <1>1, <2>1, <3>1, <3>2 DEF TryLock, ElectionInv, ElectionTypeOK, LeaderHolds, Leading, Goto
    <2>2. CASE UNCHANGED holder /\ Goto(r, "standby")
      BY <1>1, <2>2, MoveOne DEF TryLock, Places, Syncing
    <2> QED
      BY <1>1, <2>1, <2>2 DEF TryLock
  <1>2. ASSUME NEW r \in Replicas, Backoff(r)
        PROVE  ElectionInv'
    BY <1>2, MoveOne DEF Backoff, Places, Syncing
  <1>3. ASSUME NEW r \in Replicas, Exit(r)
        PROVE  ElectionInv'
    BY <1>3, MoveOne DEF Exit, Places, Syncing
  <1>4. ASSUME NEW r \in Replicas, ProcessEnds(r)
        PROVE  ElectionInv'
    BY <1>4, LeaveOne DEF ProcessEnds
  <1>5. ASSUME NEW r \in Replicas, Tick(r)
        PROVE  ElectionInv'
    <2>1. FirstStep \in Places
      BY FirstStepSyncs DEF Places
    <2> QED
      BY <1>5, <2>1, MoveOne DEF Tick, Leading, Syncing
  <1>6. ASSUME NEW r \in Replicas, StepFails(r)
        PROVE  ElectionInv'
    BY <1>6, MoveOne DEF StepFails, Leading, Places, Syncing
  <1>7. ASSUME NEW r \in Replicas, RunOnce(r)
        PROVE  ElectionInv'
    <2>1. PICK to \in Syncing : Goto(r, to)
      BY <1>7 DEF RunOnce, SyncCatalog, RefreshReads, RefreshWrites, SyncJobs, Syncing
    <2>2. Leading(r) /\ UNCHANGED <<lost, holder>>
      BY <1>7 DEF RunOnce, SyncCatalog, RefreshReads, RefreshWrites, SyncJobs, Leading, Syncing
    <2> QED
      BY <2>1, <2>2, MoveOne DEF Places
  <1>8. ASSUME NEW r \in Replicas, Cancel(r)
        PROVE  ElectionInv'
    BY <1>8 DEF Cancel, ElectionInv, ElectionTypeOK, LeaderHolds, Leading
  <1>9. ASSUME NEW r \in Replicas, SessionBreaks(r)
        PROVE  ElectionInv'
    BY <1>9 DEF SessionBreaks, ElectionInv, ElectionTypeOK, LeaderHolds, Leading
  <1>10. ASSUME NEW r \in Replicas, Crash(r)
         PROVE  ElectionInv'
    BY <1>10, LeaveOne DEF Crash
  <1>11. ASSUME NEW r \in Replicas, Restart(r)
         PROVE  ElectionInv'
    <2>1. "acquire" \in Places /\ "acquire" \notin Syncing
      BY DEF Places, Syncing
    <2> QED
      BY <1>11, <2>1 DEF Restart, ElectionInv, ElectionTypeOK, LeaderHolds, Leading, Goto
  <1>12. CASE SessionEnds
    BY <1>12, SyncAssumption DEF SessionEnds, ElectionInv, ElectionTypeOK, LeaderHolds, Leading
  <1>13. CASE OrphanWrites \/ \E n \in Names : UsageChanges(n) \/ IngesterCatalogs(n)
    <2>1. UNCHANGED <<pc, lost, holder>>
      BY <1>13 DEF OrphanWrites, UsageChanges, IngesterCatalogs, replicaVars
    <2> QED
      BY <2>1 DEF ElectionInv, ElectionTypeOK, LeaderHolds, Leading
  <1>14. CASE UNCHANGED vars
    BY <1>14 DEF vars, replicaVars, ElectionInv, ElectionTypeOK, LeaderHolds, Leading
  <1> QED
    BY <1>1, <1>2, <1>3, <1>4, <1>5, <1>6, <1>7, <1>8, <1>9, <1>10, <1>11, <1>12, <1>13, <1>14
    DEF Next, Proceed, Leadership

(* However many replicas run WithPGAdvisoryLeadership, and however they    *)
(* stop, crash, restart and fail, two of them sync at once only after the  *)
(* session of one has broken.                                              *)
THEOREM LeadershipIsExclusive == Spec => []OneLeader
  <1>1. Init => ElectionInv
    BY DEF Init, ElectionInv, ElectionTypeOK, LeaderHolds, Leading, Places, Syncing
  <1>2. ElectionInv /\ [Next]_vars => ElectionInv'
    BY ElectionStep
  <1>3. ElectionInv => OneLeader
    BY DEF ElectionInv, LeaderHolds, OneLeader
  <1> QED
    BY <1>1, <1>2, <1>3, PTL DEF Spec
-----------------------------------------------------------------------------
(***************************************************************************)
(* The tables.  A refresh computes rows for names of the catalog and the   *)
(* catalog only grows, so what a statement, or one that outlives its       *)
(* client, writes later still has its names in the catalog.                *)
(***************************************************************************)
RowsOf(rows, names) == DOMAIN rows \subseteq names /\ \A n \in DOMAIN rows : rows[n] \in BOOLEAN

Statements ==
  /\ DOMAIN snap = Replicas
  /\ \A r \in Replicas : RowsOf(snap[r], catalog)
  /\ RowsOf(orphan, catalog)
Bookkeeping == ctxDone \in [Replicas -> BOOLEAN] /\ faults \in 0..MaxFaults /\ changes \in 0..MaxChanges
TableTypes ==
  /\ catalog \subseteq Names /\ used \subseteq Names /\ jobIndex \subseteq Jobs
  /\ RowsOf(summary, catalog)
Lock == holder \in Replicas \cup {None, Dead}

SyncInv == ElectionInv /\ Statements /\ Bookkeeping /\ TableTypes /\ Lock

LEMMA NoRowsFit == \A names : RowsOf(NoRows, names)
  BY DEF NoRows, RowsOf

LEMMA CatalogGrows ==
  ASSUME NEW rows, NEW names, NEW more, RowsOf(rows, names), names \subseteq more
  PROVE  RowsOf(rows, more)
  BY DEF RowsOf

LEMMA UpsertFits ==
  ASSUME NEW rows, RowsOf(rows, catalog), RowsOf(summary, catalog)
  PROVE  RowsOf(Upserted(rows), catalog)
  BY DEF RowsOf, Upserted

(* Statements that end, with rows left behind or not. *)
LEMMA StatementEnds ==
  ASSUME Statements, NEW r \in Replicas, UNCHANGED catalog,
         orphan' \in {orphan, snap[r]}, snap' = [snap EXCEPT ![r] = NoRows]
  PROVE  Statements'
  BY NoRowsFit DEF Statements

LEMMA FaultCounts ==
  ASSUME Bookkeeping, Fault \/ UNCHANGED faults
  PROVE  faults' \in 0..MaxFaults
  BY SyncAssumption DEF Bookkeeping, Fault

LEMMA SyncStep ==
  ASSUME SyncInv, [Next]_vars
  PROVE  SyncInv'
  <1>1. ElectionInv'
    BY ElectionStep DEF SyncInv
  <1>2. Statements /\ Bookkeeping /\ TableTypes /\ Lock
    BY DEF SyncInv
  (* Most steps leave the tables and the statements alone. *)
  <1>3. ASSUME UNCHANGED <<snap, orphan, tables, used>> PROVE Statements' /\ TableTypes'
    BY <1>2, <1>3 DEF Statements, TableTypes, tables
  <1>4. ASSUME NEW r \in Replicas, TryLock(r) \/ Backoff(r) \/ Exit(r) \/ ProcessEnds(r) \/ Tick(r)
        PROVE  SyncInv'
    <2>1. /\ UNCHANGED <<snap, orphan, tables, used>> /\ UNCHANGED <<ctxDone, changes>>
          /\ Fault \/ UNCHANGED faults
      BY <1>4 DEF TryLock, Backoff, Exit, ProcessEnds, Tick, CallFails
    <2>2. Lock'
      BY <1>2, <1>4 DEF Lock, TryLock, Backoff, Exit, ProcessEnds, Tick, Bury
    <2>3. Bookkeeping'
      BY <1>2, <2>1, FaultCounts DEF Bookkeeping
    <2> QED
      BY <1>1, <1>3, <2>1, <2>2, <2>3 DEF SyncInv
  <1>5. ASSUME NEW r \in Replicas, StepFails(r) \/ Crash(r)
        PROVE  SyncInv'
    <2>1. /\ orphan' \in {orphan, snap[r]} /\ snap' = [snap EXCEPT ![r] = NoRows]
          /\ UNCHANGED <<tables, used>> /\ UNCHANGED <<ctxDone, changes>>
          /\ Fault \/ UNCHANGED faults
      BY <1>5 DEF StepFails, Crash, CallFails
    <2>2. Statements' /\ TableTypes'
      BY <1>2, <2>1, StatementEnds DEF TableTypes, tables
    <2>3. Lock'
      BY <1>2, <1>5 DEF Lock, StepFails, Crash, Bury
    <2>4. Bookkeeping'
      BY <1>2, <2>1, FaultCounts DEF Bookkeeping
    <2> QED
      BY <1>1, <2>2, <2>3, <2>4 DEF SyncInv
  <1>6. ASSUME NEW r \in Replicas, RunOnce(r)
        PROVE  SyncInv'
    <2>1. UNCHANGED <<ctxDone, holder, faults, changes, used, orphan>>
      BY <1>6 DEF RunOnce, SyncCatalog, RefreshReads, RefreshWrites, SyncJobs
    <2>2. CASE SyncCatalog(r)
      <3>1. catalog \subseteq catalog' /\ catalog' \subseteq Names /\ UNCHANGED <<snap, orphan, summary, jobIndex>>
        BY <1>2, <2>2 DEF SyncCatalog, TableTypes
      <3>2. Statements' /\ TableTypes'
        BY <1>2, <2>1, <3>1, CatalogGrows DEF Statements, TableTypes
      <3> QED
        BY <1>1, <1>2, <2>1, <3>2 DEF SyncInv, Lock, Bookkeeping
    <2>3. CASE RefreshReads(r)
      <3>1. RowsOf(Usage, catalog)
        BY DEF Usage, RowsOf
      <3>2. Statements' /\ TableTypes'
        BY <1>2, <2>1, <2>3, <3>1 DEF RefreshReads, Statements, TableTypes, tables
      <3> QED
        BY <1>1, <1>2, <2>1, <3>2 DEF SyncInv, Lock, Bookkeeping
    <2>4. CASE RefreshWrites(r)
      <3>1. RowsOf(summary', catalog)
        BY <1>2, <2>4, UpsertFits DEF RefreshWrites, Statements, TableTypes
      <3>2. UNCHANGED <<catalog, jobIndex>> /\ snap' = [snap EXCEPT ![r] = NoRows]
        BY <2>4 DEF RefreshWrites
      <3>3. Statements' /\ TableTypes'
        BY <1>2, <2>1, <3>1, <3>2, StatementEnds DEF TableTypes
      <3> QED
        BY <1>1, <1>2, <2>1, <3>3 DEF SyncInv, Lock, Bookkeeping
    <2>5. CASE SyncJobs(r)
      <3>1. Statements' /\ TableTypes'
        BY <1>2, <2>1, <2>5 DEF SyncJobs, Statements, TableTypes
      <3> QED
        BY <1>1, <1>2, <2>1, <3>1 DEF SyncInv, Lock, Bookkeeping
    <2> QED
      BY <1>6, <2>2, <2>3, <2>4, <2>5 DEF RunOnce
  <1>7. ASSUME NEW r \in Replicas, Cancel(r) \/ SessionBreaks(r) \/ Restart(r)
        PROVE  SyncInv'
    <2>1. /\ UNCHANGED <<snap, orphan, tables, used>> /\ UNCHANGED changes
          /\ Fault \/ UNCHANGED faults
      BY <1>7 DEF Cancel, SessionBreaks, Restart
    <2>2. Lock' /\ ctxDone' \in [Replicas -> BOOLEAN]
      BY <1>2, <1>7 DEF Lock, Bookkeeping, Cancel, SessionBreaks, Restart
    <2>3. Bookkeeping'
      BY <1>2, <2>1, <2>2, FaultCounts DEF Bookkeeping
    <2> QED
      BY <1>1, <1>3, <2>1, <2>2, <2>3 DEF SyncInv
  <1>8. CASE SessionEnds
    BY <1>1, <1>2, <1>3, <1>8 DEF SessionEnds, SyncInv, Lock, Bookkeeping
  <1>9. CASE OrphanWrites
    <2>1. RowsOf(summary', catalog) /\ orphan' = NoRows
      BY <1>2, <1>9, UpsertFits DEF OrphanWrites, Statements, TableTypes
    <2>2. UNCHANGED <<ctxDone, holder, snap, catalog, jobIndex, used, faults, changes>>
      BY <1>9 DEF OrphanWrites, replicaVars
    <2>3. Statements' /\ TableTypes'
      BY <1>2, <2>1, <2>2, NoRowsFit DEF Statements, TableTypes
    <2> QED
      BY <1>1, <1>2, <2>2, <2>3 DEF SyncInv, Lock, Bookkeeping
  <1>10. ASSUME NEW n \in Names, UsageChanges(n)
         PROVE  SyncInv'
    <2>1. UNCHANGED <<ctxDone, holder, snap, orphan, catalog, summary, jobIndex, faults>>
      BY <1>10 DEF UsageChanges, replicaVars, tables
    <2>2. used' \subseteq Names /\ changes' \in 0..MaxChanges
      BY <1>2, <1>10, SyncAssumption DEF UsageChanges, TableTypes, Bookkeeping
    <2> QED
      BY <1>1, <1>2, <2>1, <2>2 DEF SyncInv, Lock, Bookkeeping, Statements, TableTypes
  <1>11. ASSUME NEW n \in Names, IngesterCatalogs(n)
         PROVE  SyncInv'
    <2>1. UNCHANGED <<ctxDone, holder, snap, orphan, summary, jobIndex, used, faults, changes>>
      BY <1>11 DEF IngesterCatalogs, replicaVars
    <2>2. catalog \subseteq catalog' /\ catalog' \subseteq Names
      BY <1>2, <1>11 DEF IngesterCatalogs, TableTypes
    <2>3. Statements' /\ TableTypes'
      BY <1>2, <2>1, <2>2, CatalogGrows DEF Statements, TableTypes
    <2> QED
      BY <1>1, <1>2, <2>1, <2>3 DEF SyncInv, Lock, Bookkeeping
  <1>12. CASE UNCHANGED vars
    BY <1>1, <1>2, <1>3, <1>12 DEF vars, replicaVars, SyncInv, Lock, Bookkeeping
  <1> QED
    BY <1>4, <1>5, <1>6, <1>7, <1>8, <1>9, <1>10, <1>11, <1>12
    DEF Next, Proceed, Leadership

(* However refreshes of several leaders, statements that outlive their     *)
(* client and writes of the ingester interleave, metrics_usage_summary     *)
(* never has a row for a name that metrics_catalog lacks, and the lock is  *)
(* held by one session.                                                    *)
THEOREM TypeCorrect == Spec => []TypeOK
  <1>1. Init => SyncInv
    <2> SUFFICES ASSUME Init PROVE SyncInv
      OBVIOUS
    <2>1. ElectionInv
      BY DEF Init, ElectionInv, ElectionTypeOK, LeaderHolds, Leading, Places, Syncing
    <2>2. Statements /\ TableTypes
      BY NoRowsFit DEF Init, Statements, TableTypes
    <2> QED
      BY <2>1, <2>2, SyncAssumption DEF Init, SyncInv, Bookkeeping, Lock
  <1>2. SyncInv /\ [Next]_vars => SyncInv'
    BY SyncStep
  <1>3. SyncInv => TypeOK
    BY DEF SyncInv, ElectionInv, ElectionTypeOK, Places, Bookkeeping, TableTypes, Lock, RowsOf, TypeOK
  <1> QED
    BY <1>1, <1>2, <1>3, PTL DEF Spec
=============================================================================
