--------------------------- MODULE InventorySync ---------------------------
(***************************************************************************)
(* The replicas of the API server and their inventory syncer.  With        *)
(* PostgreSQL every replica runs WithPGAdvisoryLeadership (leader_pg.go):  *)
(* the one whose session holds the advisory lock executes the loop of the  *)
(* syncer (syncer.go), which upserts metrics_catalog, recomputes           *)
(* metrics_usage_summary in one statement and indexes jobs.  Sessions      *)
(* break, replicas are stopped, crash and come back.                       *)
(***************************************************************************)
EXTENDS Naturals

CONSTANTS
  Replicas,      \* API servers that share the database
  None,          \* no session holds the lock
  Dead,          \* the session of a process that is gone holds it
  Names,         \* metric names Prometheus knows
  Jobs,          \* jobs Prometheus knows
  MetadataSync,  \* inventory.metadata_sync_enabled
  JobSync,       \* inventory.job_sync_enabled
  MaxFaults,     \* bound: stops, crashes, broken sessions, failed calls
  MaxChanges     \* bound: changes of the recorded usage

NoRows == [n \in {} |-> TRUE]

ASSUME SyncAssumption ==
  /\ None \notin Replicas /\ Dead \notin Replicas /\ None # Dead
  /\ MetadataSync \in BOOLEAN /\ JobSync \in BOOLEAN
  /\ MaxFaults \in Nat /\ MaxChanges \in Nat

VARIABLES
  pc,        \* pc[r]: where the actor of replica r is
  ctxDone,   \* ctxDone[r]: its context is cancelled
  lost,      \* lost[r]: the session r leads by has broken
  holder,    \* the replica whose session holds the advisory lock, None or Dead
  snap,      \* snap[r]: the rows its refresh statement has computed
  orphan,    \* rows of a statement whose client has crashed or given up
  catalog,   \* names in metrics_catalog
  summary,   \* summary[n]: n is used, for the rows of metrics_usage_summary
  used,      \* names with a use on record (queries, rules, dashboards)
  jobIndex,  \* jobs in metrics_job_index
  faults, changes

replicaVars == <<pc, ctxDone, lost, holder>>
tables == <<catalog, summary, jobIndex>>
vars == <<replicaVars, snap, orphan, tables, used, faults, changes>>

(* fn of WithPGAdvisoryLeadership is running. *)
Syncing == {"wait", "catalog", "summary", "refresh", "jobs"}
Leading(r) == pc[r] \in Syncing

Init ==
  /\ pc = [r \in Replicas |-> "acquire"]
  /\ ctxDone = [r \in Replicas |-> FALSE] /\ lost = [r \in Replicas |-> FALSE]
  /\ holder = None
  /\ snap = [r \in Replicas |-> NoRows] /\ orphan = NoRows
  /\ catalog = {} /\ summary = NoRows /\ jobIndex = {}
  /\ used \in SUBSET Names
  /\ faults = 0 /\ changes = 0

(* The process of r is gone; its session is not, yet. *)
Bury(r) == holder' = IF holder = r THEN Dead ELSE holder

Fault == faults < MaxFaults /\ faults' = faults + 1

(* A call fails because the context is cancelled, or by a fault. *)
CallFails(r) ==
  \/ ctxDone[r] /\ UNCHANGED faults
  \/ ~ctxDone[r] /\ Fault

Goto(r, to) == pc' = [pc EXCEPT ![r] = to]

(***************************************************************************)
(* WithPGAdvisoryLeadership.  An error of db.Conn or of the lock query     *)
(* ends the loop; the actor returns and the run group stops the process.   *)
(***************************************************************************)
(* The first run of the loop starts at once. *)
FirstStep == IF MetadataSync THEN "catalog" ELSE "summary"

(* Mutant of TryLock: the answer of pg_try_advisory_lock is ignored. *)
TryLockIgnored(r) ==
  /\ pc[r] = "acquire" /\ ~ctxDone[r]
  /\ holder' = IF holder = None THEN r ELSE holder
  /\ Goto(r, FirstStep)
  /\ UNCHANGED <<ctxDone, lost, snap, orphan, tables, used, faults, changes>>

TryLock(r) ==
  /\ pc[r] = "acquire" /\ ~ctxDone[r]
  /\ \/ holder = None /\ holder' = r /\ Goto(r, FirstStep)
     \/ holder # None /\ UNCHANGED holder /\ Goto(r, "standby")
  /\ UNCHANGED <<ctxDone, lost, snap, orphan, tables, used, faults, changes>>

Backoff(r) ==
  /\ pc[r] = "standby"
  /\ Goto(r, "acquire")
  /\ UNCHANGED <<ctxDone, lost, holder, snap, orphan, tables, used, faults, changes>>

(* The actor returns: an error, a cancelled context, or the end of fn. *)
Exit(r) ==
  /\ \/ pc[r] = "acquire" /\ CallFails(r)
     \/ pc[r] \in {"standby", "wait"} /\ ctxDone[r] /\ UNCHANGED faults
  /\ Goto(r, "stopping")
  /\ UNCHANGED <<ctxDone, lost, holder, snap, orphan, tables, used, changes>>

(* The run group has stopped the other actors and the process ends.  Until *)
(* then the session keeps the lock: Close of a sql.Conn gives it back to   *)
(* the pool.                                                               *)
ProcessEnds(r) ==
  /\ pc[r] = "stopping"
  /\ Goto(r, "down") /\ Bury(r)
  /\ UNCHANGED <<ctxDone, lost, snap, orphan, tables, used, faults, changes>>

(***************************************************************************)
(* runLoop and runOnce.  Every step has a timeout and fails once the       *)
(* context is cancelled; a failure of the first two ends the run.  The     *)
(* server may still execute the statement its client has given up.         *)
(***************************************************************************)
Tick(r) ==
  /\ pc[r] = "wait"
  /\ Goto(r, FirstStep)
  /\ UNCHANGED <<ctxDone, lost, holder, snap, orphan, tables, used, faults, changes>>

StepFails(r) ==
  /\ pc[r] \in {"catalog", "summary", "refresh"} /\ CallFails(r)
  /\ Goto(r, "wait")
  /\ orphan' \in {orphan, snap[r]}
  /\ snap' = [snap EXCEPT ![r] = NoRows]
  /\ UNCHANGED <<ctxDone, lost, holder, tables, used, changes>>

(* syncMetadataCatalog: the names Prometheus knows now, in one transaction. *)
SyncCatalog(r) ==
  /\ pc[r] = "catalog" /\ ~ctxDone[r]
  /\ \E known \in SUBSET Names : catalog' = catalog \cup known
  /\ Goto(r, "summary")
  /\ UNCHANGED <<ctxDone, lost, holder, snap, orphan, summary, jobIndex, used, faults, changes>>

(* RefreshMetricsUsageSummary: the statement reads a snapshot, then writes *)
(* a row for every name of the catalog.  Mutant UsageOfNames: of every     *)
(* name.                                                                   *)
UsageOfNames == [n \in Names |-> n \in used]

Usage == [n \in catalog |-> n \in used]

RefreshReads(r) ==
  /\ pc[r] = "summary" /\ ~ctxDone[r]
  /\ snap' = [snap EXCEPT ![r] = Usage]
  /\ Goto(r, "refresh")
  /\ UNCHANGED <<ctxDone, lost, holder, orphan, tables, used, faults, changes>>

(* Mutant of Upserted: ON CONFLICT DO NOTHING. *)
UpsertedOnce(rows) ==
  [n \in DOMAIN summary \cup DOMAIN rows |-> IF n \in DOMAIN summary THEN summary[n] ELSE rows[n]]

Upserted(rows) ==
  [n \in DOMAIN summary \cup DOMAIN rows |-> IF n \in DOMAIN rows THEN rows[n] ELSE summary[n]]

RefreshWrites(r) ==
  /\ pc[r] = "refresh"
  /\ summary' = Upserted(snap[r])
  /\ snap' = [snap EXCEPT ![r] = NoRows]
  /\ Goto(r, IF JobSync THEN "jobs" ELSE "wait")
  /\ UNCHANGED <<ctxDone, lost, holder, orphan, catalog, jobIndex, used, faults, changes>>

(* syncJobIndex: workers index the jobs independently, any may fail.  The  *)
(* failure is logged and the run counts as a success.                      *)
SyncJobs(r) ==
  /\ pc[r] = "jobs"
  /\ \E done \in SUBSET Jobs :
       /\ ctxDone[r] => done = {}
       /\ jobIndex' = jobIndex \cup done
  /\ Goto(r, "wait")
  /\ UNCHANGED <<ctxDone, lost, holder, snap, orphan, catalog, summary, used, faults, changes>>

(***************************************************************************)
(* Faults and surroundings.  The session that holds the lock is not the    *)
(* one that executes statements: it may break alone, and nobody notices.   *)
(* A statement of a crashed client may still be executed.                  *)
(***************************************************************************)
Cancel(r) ==
  /\ pc[r] # "down" /\ ~ctxDone[r] /\ Fault
  /\ ctxDone' = [ctxDone EXCEPT ![r] = TRUE]
  /\ UNCHANGED <<pc, lost, holder, snap, orphan, tables, used, changes>>

SessionBreaks(r) ==
  /\ holder = r /\ Leading(r) /\ Fault
  /\ holder' = None
  /\ lost' = [lost EXCEPT ![r] = TRUE]
  /\ UNCHANGED <<pc, ctxDone, snap, orphan, tables, used, changes>>

Crash(r) ==
  /\ pc[r] # "down" /\ Fault
  /\ Goto(r, "down") /\ Bury(r)
  /\ orphan' \in {orphan, snap[r]}
  /\ snap' = [snap EXCEPT ![r] = NoRows]
  /\ UNCHANGED <<ctxDone, lost, tables, used, changes>>

(* PostgreSQL notices, later, that the process of the session is gone.     *)
SessionEnds ==
  /\ holder = Dead
  /\ holder' = None
  /\ UNCHANGED <<pc, ctxDone, lost, snap, orphan, tables, used, faults, changes>>

OrphanWrites ==
  /\ orphan # NoRows
  /\ summary' = Upserted(orphan) /\ orphan' = NoRows
  /\ UNCHANGED <<replicaVars, snap, catalog, jobIndex, used, faults, changes>>

Restart(r) ==
  /\ pc[r] = "down"
  /\ Goto(r, "acquire")
  /\ ctxDone' = [ctxDone EXCEPT ![r] = FALSE] /\ lost' = [lost EXCEPT ![r] = FALSE]
  /\ UNCHANGED <<holder, snap, orphan, tables, used, faults, changes>>

(* Use of n is recorded or ages out of the time window. *)
UsageChanges(n) ==
  /\ changes < MaxChanges /\ changes' = changes + 1
  /\ used' = IF n \in used THEN used \ {n} ELSE used \cup {n}
  /\ UNCHANGED <<replicaVars, snap, orphan, tables, faults>>

(* The OTLP ingester puts n into the catalog. *)
IngesterCatalogs(n) ==
  /\ n \notin catalog
  /\ catalog' = catalog \cup {n}
  /\ UNCHANGED <<replicaVars, snap, orphan, summary, jobIndex, used, faults, changes>>

Leadership(r) == TryLock(r) \/ Backoff(r) \/ ProcessEnds(r)
RunOnce(r) == SyncCatalog(r) \/ RefreshReads(r) \/ RefreshWrites(r) \/ SyncJobs(r)
Proceed(r) ==
  \/ Leadership(r) \/ Tick(r) \/ RunOnce(r) \/ Restart(r)
  \/ ctxDone[r] /\ StepFails(r)

Next ==
  \/ \E r \in Replicas : Proceed(r) \/ Exit(r) \/ StepFails(r)
  \/ \E r \in Replicas : Cancel(r) \/ SessionBreaks(r) \/ Crash(r)
  \/ SessionEnds \/ OrphanWrites
  \/ \E n \in Names : UsageChanges(n) \/ IngesterCatalogs(n)

Spec == Init /\ [][Next]_vars

(***************************************************************************)
(* Fairness: goroutines and statements proceed, a stopped replica is       *)
(* restarted, the server notices a dead session, and the select of         *)
(* runLoop, which chooses at random, does not prefer a tick to a cancelled *)
(* context for ever.  Calls do not fail for ever: MaxFaults.               *)
(***************************************************************************)
FairSpec ==
  /\ Spec
  /\ WF_vars(SessionEnds) /\ WF_vars(OrphanWrites)
  /\ \A r \in Replicas : WF_vars(Proceed(r)) /\ SF_vars(Exit(r) /\ ctxDone[r])
-----------------------------------------------------------------------------
(* The values the variables range over; only names of the catalog have a   *)
(* row in the summary.                                                     *)
TypeOK ==
  /\ pc \in [Replicas -> {"acquire", "standby", "stopping", "down"} \cup Syncing]
  /\ ctxDone \in [Replicas -> BOOLEAN] /\ lost \in [Replicas -> BOOLEAN]
  /\ holder \in Replicas \cup {None, Dead}
  /\ catalog \subseteq Names /\ used \subseteq Names /\ jobIndex \subseteq Jobs
  /\ DOMAIN summary \subseteq catalog /\ \A n \in DOMAIN summary : summary[n] \in BOOLEAN
  /\ faults \in 0..MaxFaults /\ changes \in 0..MaxChanges

(* At most one replica syncs, unless the session of one of them has        *)
(* broken: the lock outlives neither a clean stop nor a crash, and no      *)
(* replica syncs without having got it.                                    *)
OneLeader ==
  \A r, s \in Replicas : Leading(r) /\ Leading(s) /\ r # s => lost[r] \/ lost[s]

(* The summary catches up: whatever stops, crashes, two leaders at a time  *)
(* and late statements did, once the recorded usage of a name no longer    *)
(* changes its row in the summary becomes right and stays so.              *)
SummaryConverges ==
  \A n \in Names :
    /\ <>[](n \in used) => <>[](n \in catalog => n \in DOMAIN summary /\ summary[n])
    /\ <>[](n \notin used) => <>[](n \in DOMAIN summary => ~summary[n])
=============================================================================
