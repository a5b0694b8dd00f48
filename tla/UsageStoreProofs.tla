-------------------------- MODULE UsageStoreProofs --------------------------
(***************************************************************************)
(* Retention and the usage summary, for any deployments, clock, requests,  *)
(* texts and bounds.                                                       *)
(***************************************************************************)
EXTENDS UsageStore, FiniteSetTheorems, TLAPS

(***************************************************************************)
(* Times without their fraction.                                           *)
(***************************************************************************)
(* Cutting a time to whole units of any size goes back by less than one. *)
LEMMA TruncBounds ==
  ASSUME NEW t \in Int, NEW u \in Nat \ {0}
  PROVE  TruncTo(t, u) \in Int /\ TruncTo(t, u) <= t /\ t < TruncTo(t, u) + u
<1>1. t % u \in 0..(u - 1)
  BY SMT
<1> QED
  BY <1>1, SMT DEF TruncTo

(* If a time is in an earlier unit than another, it precedes the start of   *)
(* the other's unit: the bound that PostgreSQL compares with.               *)
LEMMA TruncBefore ==
  ASSUME NEW s \in Int, NEW t \in Int, NEW u \in Nat \ {0},
         TruncTo(s, u) < TruncTo(t, u)
  PROVE  s < TruncTo(t, u)
<1> DEFINE a == s \div u
<1> DEFINE b == t \div u
<1>1. a \in Int /\ b \in Int
  BY SMT
<1>2. s = u * a + (s % u) /\ t = u * b + (t % u)
  BY SMT
<1>3. s % u \in 0..(u - 1) /\ t % u \in 0..(u - 1)
  BY SMT
<1>4. TruncTo(s, u) = u * a /\ TruncTo(t, u) = u * b
  BY <1>1, <1>2, <1>3, SMT DEF TruncTo
<1>5. a + 1 <= b
  BY <1>1, <1>4, SMT
<1>6. u * (a + 1) <= u * b
  BY <1>1, <1>5, SMT
<1>7. u * (a + 1) = u * a + u
  BY <1>1, SMT
<1> QED
  BY <1>1, <1>2, <1>3, <1>4, <1>6, <1>7, SMT

(***************************************************************************)
(* The invariant behind both theorems: a query that is gone was older than *)
(* the maximal age when it went, and has not become younger.               *)
(***************************************************************************)
Timed(q) == q.ts \in Nat /\ q.ts <= now
Deleted == history \ queries
StoreInv ==
  /\ conf \in Configs /\ now \in Instants
  /\ IsFiniteSet(pending) /\ IsFiniteSet(history)
  /\ \A q \in pending \cup history : Timed(q)
  /\ queries \subseteq history
  /\ \A q \in Deleted : q.ts < now - conf.maxAge + Slack

LEMMA ConfTypes ==
  ASSUME conf \in Configs, now \in Instants
  PROVE  /\ conf.provider \in {"sqlite", "postgresql"}
         /\ conf.window \in Nat /\ conf.maxAge \in Nat \ {0} /\ now \in Nat
         /\ Day \in Nat \ {0} /\ Slack \in Nat /\ Cutoff \in Int
<1>1. Day \in Nat \ {0}
  BY SecondAssumption, SMT DEF Day
<1> QED
  BY <1>1, ConfigsAssumption, InstantsAssumption DEF Slack, Cutoff

(* What a retention run deletes and what it keeps (DeleteQueriesBefore of   *)
(* both providers).                                                         *)
LEMMA Deletion ==
  ASSUME StoreInv, Retention
  PROVE  /\ queries' \subseteq queries
         /\ \A q \in queries \ queries' : q.ts < now - conf.maxAge + Slack
         /\ \A q \in queries' : q.ts >= now - conf.maxAge
<1> USE ConfTypes
<1> DEFINE limit == IF conf.provider = "sqlite" THEN TruncTo(Cutoff, Day) + Day ELSE Cutoff
<1>1. queries' = {q \in queries : ~(q.ts < limit)}
  BY DEF StoreInv, Retention, SQ!DeleteQueriesBefore, PG!DeleteQueriesBefore,
         SQ!TruncTo, SQ!Day, TruncTo, Day
<1>2. limit \in Int /\ Cutoff <= limit /\ limit <= Cutoff + Slack
  <2>1. Cutoff \in Int /\ Day \in Nat \ {0}
    BY DEF StoreInv
  <2>2. /\ TruncTo(Cutoff, Day) \in Int /\ TruncTo(Cutoff, Day) <= Cutoff
        /\ Cutoff < TruncTo(Cutoff, Day) + Day
    BY <2>1, TruncBounds
  <2> QED
    BY <2>1, <2>2, SMT DEF Slack
<1>3. \A q \in queries : q.ts \in Nat
  BY DEF StoreInv, Timed
<1> HIDE DEF limit
<1> QED
  BY <1>1, <1>2, <1>3, SMT DEF StoreInv, Cutoff

(* The queries that a handler hands over carry the time of the clock        *)
(* (routes.go query, query_range, validateQuery).                           *)
LEMMA Handover ==
  ASSUME StoreInv, NEW qs, IsFiniteSet(qs), \A q \in qs : q.ts = now, Ingest(qs)
  PROVE  IsFiniteSet(pending') /\ \A q \in pending' : Timed(q)
<1>1. PICK ids : pending' = pending \cup {Prepare(q, ids[q]) : q \in qs}
  BY DEF Ingest
<1> DEFINE new == {Prepare(q, ids[q]) : q \in qs}
<1>2. \A q \in new : q.ts = now
  BY DEF Prepare
<1>3. IsFiniteSet(new)
  <2> DEFINE f == [q \in qs |-> Prepare(q, ids[q])]
  <2>1. f \in Surjection(qs, new)
    BY DEF Surjection
  <2> QED
    BY <2>1, FS_Surjection
<1>4. now \in Nat
  BY ConfTypes DEF StoreInv
<1>5. pending' = pending \cup new
  BY <1>1
<1> HIDE DEF new
<1>6. IsFiniteSet(pending')
  BY <1>3, <1>5, FS_Union DEF StoreInv
<1>7. \A q \in pending' : Timed(q)
  BY <1>2, <1>4, <1>5, SMT DEF StoreInv, Timed
<1> QED
  BY <1>6, <1>7

LEMMA PushedQueries ==
  ASSUME NEW qs \in Pushes
  PROVE  IsFiniteSet(queryPush(qs, now)) /\ \A q \in queryPush(qs, now) : q.ts = now
<1>1. \A q \in qs : validateQuery(q, now).ts = now
  BY PushesAssumption DEF validateQuery
<1>2. IsFiniteSet({validateQuery(q, now) : q \in qs})
  <2> DEFINE f == [q \in qs |-> validateQuery(q, now)]
  <2>1. f \in Surjection(qs, {validateQuery(q, now) : q \in qs})
    BY DEF Surjection
  <2> QED
    BY <2>1, FS_Surjection, PushesAssumption
<1> QED
  BY <1>1, <1>2, FS_EmptySet DEF queryPush

LEMMA StoreInvInit == Init => StoreInv
  BY FS_EmptySet DEF Init, StoreInv, Deleted

LEMMA StoreInvNext == StoreInv /\ [Next]_vars => StoreInv'
<1> SUFFICES ASSUME StoreInv, [Next]_vars PROVE StoreInv'
  OBVIOUS
<1> USE DEF StoreInv, Deleted, Timed, Slack
<1>1. ASSUME NEW qs, IsFiniteSet(qs), \A q \in qs : q.ts = now, Ingest(qs)
      PROVE  StoreInv'
  BY <1>1, Handover DEF Ingest
<1>2. ASSUME NEW r \in Requests, Query(r) \/ QueryRange(r)
      PROVE  StoreInv'
  <2>1. query(r, now).ts = now /\ query_range(r, now).ts = now
    BY DEF query, query_range
  <2> QED
    BY <1>1, <1>2, <2>1, FS_Singleton DEF Query, QueryRange
<1>3. ASSUME NEW qs \in Pushes, QueryPush(qs)
      PROVE  StoreInv'
  BY <1>1, <1>3, PushedQueries DEF QueryPush
<1>4. CASE InsertQueries
  <2>1. queries' = queries \cup pending
    BY <1>4 DEF InsertQueries, SQ!Insert, PG!Insert
  <2>2. IsFiniteSet(history') /\ IsFiniteSet(pending')
    BY <1>4, FS_Union, FS_EmptySet DEF InsertQueries
  <2> QED
    BY <1>4, <2>1, <2>2 DEF InsertQueries
<1>5. CASE InsertFails
  BY <1>5, FS_EmptySet DEF InsertFails
<1>6. ASSUME NEW r \in RuleRows, InsertRulesUsage({r}) PROVE StoreInv'
  BY <1>6 DEF InsertRulesUsage
<1>7. ASSUME NEW d \in DashboardItems, InsertDashboardUsage({d}) PROVE StoreInv'
  BY <1>7 DEF InsertDashboardUsage
<1>8. ASSUME NEW t \in Types, UpsertMetricsCatalog([n \in Metrics |-> t]) PROVE StoreInv'
  BY <1>8 DEF UpsertMetricsCatalog
<1>9. CASE UpsertMetricsJobIndex(JobItems)
  BY <1>9 DEF UpsertMetricsJobIndex
<1>10. CASE Refresh
  BY <1>10 DEF Refresh
<1>11. CASE Retention
  <2>1. \A q \in history \ queries' : q.ts < now - conf.maxAge + Slack
    BY <1>11, Deletion
  <2> QED
    BY <1>11, <2>1, Deletion DEF Retention
<1>12. CASE Tick
  <2>1. now' \in Instants /\ now' \in Nat /\ now < now' /\ now \in Nat
    BY <1>12, InstantsAssumption DEF Tick
  <2>2. \A q \in pending' \cup history' : Timed(q)'
    BY <1>12, <2>1, SMT DEF Tick
  <2>3. \A q \in Deleted' : q.ts < (now - conf.maxAge + Slack)'
    BY <1>12, <2>1, ConfTypes, SMT DEF Tick
  <2> QED
    BY <1>12, <2>1, <2>2, <2>3 DEF Tick
<1>13. CASE UNCHANGED vars
  BY <1>13 DEF vars
<1> QED
  BY <1>2, <1>3, <1>4, <1>5, <1>6, <1>7, <1>8, <1>9, <1>10, <1>11, <1>12, <1>13 DEF Next

LEMMA StoreInvariant == Spec => []StoreInv
  BY StoreInvInit, StoreInvNext, PTL DEF Spec

(***************************************************************************)
(* Only Retention deletes queries (every other action but the inserts      *)
(* leaves the table alone), and it deletes exactly the old ones.           *)
(***************************************************************************)
LEMMA OnlyRetentionDeletes ==
  ASSUME [Next]_vars, ~Retention
  PROVE  queries \subseteq queries'
<1>1. CASE InsertQueries
  BY <1>1 DEF InsertQueries, SQ!Insert, PG!Insert
<1>2. CASE queries' = queries
  BY <1>2
<1>3. ASSUME ~InsertQueries PROVE queries' = queries
  BY <1>3 DEF Next, vars, Query, QueryRange, QueryPush, Ingest, InsertFails, InsertRulesUsage,
       InsertDashboardUsage, UpsertMetricsCatalog, UpsertMetricsJobIndex, Refresh, Tick
<1> QED
  BY <1>1, <1>2, <1>3

(* A retention run deletes every query older than queries_max_age and no    *)
(* younger one, the cutoff's day on SQLite aside; nothing else deletes a    *)
(* query (retention.go runOnce, DeleteQueriesBefore).                       *)
THEOREM RetentionIsExact == Spec => RetentionHonoursAge
<1> DEFINE Exact ==
      /\ \A q \in queries \ queries' : q.ts < now - conf.maxAge + Slack
      /\ Retention => \A q \in queries' : q.ts >= now - conf.maxAge
<1>1. ASSUME StoreInv, [Next]_vars PROVE Exact
  BY <1>1, Deletion, OnlyRetentionDeletes
<1>2. StoreInv /\ [Next]_vars => [Exact]_vars
  BY <1>1
<1> HIDE DEF Exact
<1>3. Spec => [][Exact]_vars
  BY <1>2, StoreInvariant, PTL DEF Spec
<1> QED
  BY <1>3 DEF RetentionHonoursAge, Exact

(* A stored query of the window that names a metric first is in the         *)
(* window's rows of both providers.                                         *)
LEMMA WindowIsRead ==
  ASSUME StoreInv, NEW q \in history, InWindow(q)
  PROVE  SQ!TsBetween(q, SummaryWindow) /\ PG!TsBetween(q, SummaryWindow)
<1> DEFINE from == now - conf.window
<1>1. from \in Int /\ now \in Int /\ q.ts \in Int /\ Second \in Nat \ {0}
  BY ConfTypes, SecondAssumption DEF StoreInv, Timed
<1>2. TruncTo(from, Second) \in Int /\ TruncTo(from, Second) <= from
  BY <1>1, TruncBounds
<1>3. from <= q.ts /\ TruncTo(q.ts, Second) < TruncTo(now, Second)
  BY DEF InWindow
<1>4. q.ts < TruncTo(now, Second) /\ TruncTo(now, Second) \in Int
  BY <1>1, <1>3, TruncBefore, TruncBounds
<1>5. SQ!TsBetween(q, SummaryWindow) <=>
        TruncTo(from, Second) <= q.ts /\ TruncTo(q.ts, Second) < TruncTo(now, Second)
  BY DEF SQ!TsBetween, SQ!PrepareTimeRange, SQ!Format, SQ!WholeSecond, SQ!TruncTo, TruncTo,
         SummaryWindow
<1>6. PG!TsBetween(q, SummaryWindow) <=>
        TruncTo(from, Second) <= q.ts /\ q.ts <= TruncTo(now, Second)
  BY DEF PG!TsBetween, PG!PrepareTimeRange, PG!Format, PG!TruncTo, TruncTo, SummaryWindow
<1> HIDE DEF from
<1> QED
  BY <1>1, <1>2, <1>3, <1>4, <1>5, <1>6, SMT

(* The providers count with the same operator. *)
LEMMA SameCardinality ==
  ASSUME NEW S
  PROVE  SQ!Cardinality(S) = Cardinality(S) /\ PG!Cardinality(S) = Cardinality(S)
  BY DEF SQ!Cardinality, PG!Cardinality, Cardinality

(* What a refresh counts. *)
LEMMA RefreshCounts ==
  ASSUME StoreInv, Refresh, NEW n \in DOMAIN catalog, summary'[n].queryCount = 0,
         NEW q \in queries, InWindow(q)
  PROVE  ~FirstSelector(q, n)
<1> DEFINE rowsS == SQ!CountedQueries(db, SummaryWindow, n)
<1> DEFINE rowsP == PG!CountedQueries(db, SummaryWindow, n)
<1>1. IsFiniteSet(rowsS) /\ IsFiniteSet(rowsP)
  <2>1. rowsS \in SUBSET history /\ rowsP \in SUBSET history
    BY DEF StoreInv, SQ!CountedQueries, PG!CountedQueries, db
  <2> HIDE DEF rowsS, rowsP
  <2> QED
    BY <2>1, FS_Subset DEF StoreInv
<1>2. CASE conf.provider = "sqlite"
  <2>1. summary'[n].queryCount = Cardinality(rowsS)
    <3>1. summary' = SQ!RefreshMetricsUsageSummary(db, SummaryWindow)
      BY <1>2 DEF Refresh
    <3>2. summary'[n] = SQ!UsageCounts(db, SummaryWindow, n)
      BY <3>1 DEF SQ!RefreshMetricsUsageSummary, db
    <3>3. SQ!UsageCounts(db, SummaryWindow, n).queryCount = Cardinality(rowsS)
      BY SameCardinality DEF SQ!UsageCounts
    <3> QED
      BY <3>2, <3>3
  <2>2. rowsS = {}
    BY <1>1, <2>1, FS_EmptySet
  <2> QED
    BY <2>2, WindowIsRead DEF StoreInv, FirstSelector, SQ!CountedQueries, SQ!FirstName, db
<1>3. CASE conf.provider # "sqlite"
  <2>1. summary'[n].queryCount = Cardinality(rowsP)
    <3>1. summary' = PG!RefreshMetricsUsageSummary(db, SummaryWindow)
      BY <1>3 DEF Refresh
    <3>2. summary'[n] = PG!UsageCounts(db, SummaryWindow, n)
      BY <3>1 DEF PG!RefreshMetricsUsageSummary, db
    <3>3. PG!UsageCounts(db, SummaryWindow, n).queryCount = Cardinality(rowsP)
      BY SameCardinality DEF PG!UsageCounts
    <3> QED
      BY <3>2, <3>3
  <2>2. rowsP = {}
    BY <1>1, <2>1, FS_EmptySet
  <2> QED
    BY <2>2, WindowIsRead DEF StoreInv, FirstSelector, PG!CountedQueries, PG!FirstName, db
<1> QED
  BY <1>2, <1>3

(* With queries kept as long as the summary looks back (and a day more on   *)
(* SQLite), no interleaving of inserts, retention, refreshes and the clock  *)
(* makes a refresh report a metric as not queried although a query of its   *)
(* window named it first.                                                   *)
THEOREM SummaryMissesNoQuery == Spec => UsedNotCalledUnused
<1> DEFINE Counts ==
      (Refresh /\ conf.maxAge >= conf.window + Slack) =>
        \A n \in DOMAIN catalog :
          summary'[n].queryCount = 0 => ~\E q \in history : FirstSelector(q, n) /\ InWindow(q)
<1>1. ASSUME StoreInv, Refresh, conf.maxAge >= conf.window + Slack,
             NEW n \in DOMAIN catalog, summary'[n].queryCount = 0,
             NEW q \in history, FirstSelector(q, n), InWindow(q)
      PROVE  FALSE
  <2>1. q \in Deleted
    BY <1>1, RefreshCounts DEF Deleted
  <2>2. q.ts < now - conf.maxAge + Slack /\ now - conf.window <= q.ts /\ q.ts \in Nat
    BY <1>1, <2>1 DEF StoreInv, InWindow, Timed
  <2>3. conf.maxAge \in Nat /\ conf.window \in Nat /\ now \in Nat /\ Slack \in Nat
    BY <1>1, ConfTypes DEF StoreInv
  <2> QED
    BY <1>1, <2>2, <2>3, SMT
<1>2. StoreInv /\ [Next]_vars => [Counts]_vars
  BY <1>1
<1> HIDE DEF Counts
<1>3. Spec => [][Counts]_vars
  BY <1>2, StoreInvariant, PTL DEF Spec
<1> QED
  BY <1>3 DEF UsedNotCalledUnused, Counts

(***************************************************************************)
(* The types of the tables.  The identifiers of queries stay within the    *)
(* bound on rows because Rows counts finite sets.                          *)
(***************************************************************************)
QueryTypes == \A q \in pending \cup history : q.id \in 1..MaxRows /\ q.ts \in Instants
                                                /\ q.queryParam \in Texts
RuleTypes == /\ IsFiniteSet(DOMAIN rules) /\ DOMAIN rules \subseteq RuleRows
             /\ \A r \in DOMAIN rules : rules[r] \in UsageRow
DashboardTypes == /\ IsFiniteSet(DOMAIN dashboards)
                  /\ DOMAIN dashboards \subseteq {<<d.id, d.serie>> : d \in DashboardItems}
CatalogTypes == /\ DOMAIN catalog \subseteq Metrics /\ DOMAIN summary \subseteq DOMAIN catalog
                /\ jobs \subseteq JobItems
TableTypes == QueryTypes /\ RuleTypes /\ DashboardTypes /\ CatalogTypes

(* A handler's queries get identifiers above those of the rows there are    *)
(* and within the bound.                                                    *)
LEMMA HandoverTypes ==
  ASSUME StoreInv, TableTypes, NEW qs, IsFiniteSet(qs),
         \A q \in qs : q.ts = now /\ q.queryParam \in Texts, Ingest(qs)
  PROVE  QueryTypes'
<1> DEFINE stored == Cardinality(history \cup pending)
<1>1. PICK ids \in [qs -> NextId..(NextId + Cardinality(qs) - 1)] :
        /\ Rows + Cardinality(qs) <= MaxRows
        /\ pending' = pending \cup {Prepare(q, ids[q]) : q \in qs}
  BY DEF Ingest
<1>2. IsFiniteSet(history \cup pending)
  BY FS_Union DEF StoreInv
<1>3. stored \in Nat /\ Cardinality(qs) \in Nat
  BY <1>2, FS_CardinalityType
<1>4. Cardinality(DOMAIN rules) \in Nat /\ Cardinality(DOMAIN dashboards) \in Nat
  BY FS_CardinalityType DEF TableTypes, RuleTypes, DashboardTypes
<1>5. NextId = stored + 1
      /\ Rows = stored + Cardinality(DOMAIN rules) + Cardinality(DOMAIN dashboards)
  BY DEF NextId, Rows
<1> HIDE DEF stored
<1>6. stored + Cardinality(qs) <= MaxRows
  BY <1>1, <1>3, <1>4, <1>5, MaxRowsAssumption, SMT
<1>7. \A q \in qs : ids[q] \in 1..MaxRows
  BY <1>1, <1>3, <1>5, <1>6, MaxRowsAssumption, SMT
<1>8. \A q \in qs : /\ Prepare(q, ids[q]).id = ids[q] /\ Prepare(q, ids[q]).ts = q.ts
                    /\ Prepare(q, ids[q]).queryParam = q.queryParam
  BY DEF Prepare
<1>9. \A q \in pending' : q.id \in 1..MaxRows /\ q.ts \in Instants /\ q.queryParam \in Texts
  BY <1>1, <1>7, <1>8 DEF TableTypes, QueryTypes, StoreInv
<1> QED
  BY <1>9 DEF Ingest, TableTypes, QueryTypes

LEMMA RuleTypesNext ==
  ASSUME StoreInv, TableTypes, NEW r \in RuleRows, InsertRulesUsage({r})
  PROVE  RuleTypes'
<1>1. rules' = [s \in DOMAIN rules \cup {r} |->
         CASE s \in {r} /\ s \in DOMAIN rules -> [rules[s] EXCEPT !.last = now]
           [] s \in {r} /\ s \notin DOMAIN rules -> [first |-> now, last |-> now]
           [] OTHER -> rules[s]]
  BY DEF InsertRulesUsage, SQ!InsertRulesUsage, PG!InsertRulesUsage
<1>2. DOMAIN rules' = DOMAIN rules \cup {r}
  BY <1>1
<1>3. IsFiniteSet(DOMAIN rules')
  BY <1>2, FS_AddElement DEF TableTypes, RuleTypes
<1>4. ASSUME NEW s \in DOMAIN rules' PROVE rules'[s] \in UsageRow
  <2>1. CASE s = r /\ s \in DOMAIN rules
    BY <1>1, <1>4, <2>1 DEF TableTypes, RuleTypes, UsageRow, StoreInv
  <2>2. CASE s = r /\ s \notin DOMAIN rules
    BY <1>1, <1>4, <2>2 DEF UsageRow, StoreInv
  <2>3. CASE s # r
    BY <1>1, <1>2, <1>4, <2>3 DEF TableTypes, RuleTypes
  <2> QED
    BY <2>1, <2>2, <2>3
<1> QED
  BY <1>2, <1>3, <1>4 DEF TableTypes, RuleTypes, UsageRow

LEMMA DashboardTypesNext ==
  ASSUME StoreInv, TableTypes, NEW d \in DashboardItems, InsertDashboardUsage({d})
  PROVE  DashboardTypes'
<1>1. DOMAIN dashboards' = DOMAIN dashboards \cup {<<d.id, d.serie>>}
  <2>1. DOMAIN SQ!InsertDashboardUsage(dashboards, {d}, now)
          = DOMAIN dashboards \cup {<<d.id, d.serie>>}
    BY DEF SQ!InsertDashboardUsage
  <2>2. DOMAIN PG!InsertDashboardUsage(dashboards, {d}, now)
          = DOMAIN dashboards \cup {<<d.id, d.serie>>}
    BY DEF PG!InsertDashboardUsage
  <2> QED
    BY <2>1, <2>2 DEF InsertDashboardUsage
<1>2. IsFiniteSet(DOMAIN dashboards')
  BY <1>1, FS_AddElement DEF TableTypes, DashboardTypes
<1> QED
  BY <1>1, <1>2 DEF TableTypes, DashboardTypes

LEMMA TableTypesInit == Init => TableTypes
  BY FS_EmptySet DEF Init, TableTypes, QueryTypes, RuleTypes, DashboardTypes, CatalogTypes

LEMMA TableTypesNext == StoreInv /\ TableTypes /\ [Next]_vars => TableTypes'
<1> SUFFICES ASSUME StoreInv, TableTypes, [Next]_vars PROVE TableTypes'
  OBVIOUS
<1>1. ASSUME NEW qs, IsFiniteSet(qs), Ingest(qs),
             \A q \in qs : q.ts = now /\ q.queryParam \in Texts
      PROVE  TableTypes'
  BY <1>1, HandoverTypes
     DEF Ingest, TableTypes, RuleTypes, DashboardTypes, CatalogTypes, UsageRow
<1>2. ASSUME NEW r \in Requests, Query(r) \/ QueryRange(r)
      PROVE  TableTypes'
  <2>1. /\ query(r, now).ts = now /\ query(r, now).queryParam \in Texts
        /\ query_range(r, now).ts = now /\ query_range(r, now).queryParam \in Texts
    BY RequestsAssumption DEF query, query_range
  <2> QED
    BY <1>1, <1>2, <2>1, FS_Singleton DEF Query, QueryRange
<1>3. ASSUME NEW qs \in Pushes, QueryPush(qs)
      PROVE  TableTypes'
  <2>1. \A q \in qs : validateQuery(q, now).queryParam = q.queryParam
    BY PushesAssumption DEF validateQuery
  <2>2. \A q \in queryPush(qs, now) : q.queryParam \in Texts
    BY <2>1, PushesAssumption DEF queryPush
  <2> QED
    BY <1>1, <1>3, <2>2, PushedQueries DEF QueryPush
<1> USE DEF TableTypes, UsageRow
<1>4. CASE InsertQueries
  BY <1>4 DEF InsertQueries, QueryTypes, RuleTypes, DashboardTypes, CatalogTypes
<1>5. CASE InsertFails
  BY <1>5 DEF InsertFails, QueryTypes, RuleTypes, DashboardTypes, CatalogTypes
<1>6. ASSUME NEW r \in RuleRows, InsertRulesUsage({r}) PROVE TableTypes'
  BY <1>6, RuleTypesNext DEF InsertRulesUsage, QueryTypes, DashboardTypes, CatalogTypes
<1>7. ASSUME NEW d \in DashboardItems, InsertDashboardUsage({d}) PROVE TableTypes'
  BY <1>7, DashboardTypesNext DEF InsertDashboardUsage, QueryTypes, RuleTypes, CatalogTypes
<1>8. ASSUME NEW t \in Types, UpsertMetricsCatalog([n \in Metrics |-> t]) PROVE TableTypes'
  <2>1. DOMAIN catalog' = DOMAIN catalog \cup Metrics
    BY <1>8 DEF UpsertMetricsCatalog, SQ!UpsertMetricsCatalog, PG!UpsertMetricsCatalog
  <2> QED
    BY <1>8, <2>1 DEF UpsertMetricsCatalog, QueryTypes, RuleTypes, DashboardTypes, CatalogTypes
<1>9. CASE UpsertMetricsJobIndex(JobItems)
  BY <1>9 DEF UpsertMetricsJobIndex, SQ!UpsertMetricsJobIndex, PG!UpsertMetricsJobIndex,
              QueryTypes, RuleTypes, DashboardTypes, CatalogTypes
<1>10. CASE Refresh
  <2>1. DOMAIN summary' = DOMAIN summary \cup DOMAIN catalog
    BY <1>10 DEF Refresh, SQ!RefreshMetricsUsageSummary, PG!RefreshMetricsUsageSummary, db
  <2> QED
    BY <1>10, <2>1 DEF Refresh, QueryTypes, RuleTypes, DashboardTypes, CatalogTypes
<1>11. CASE Retention
  BY <1>11 DEF Retention, QueryTypes, RuleTypes, DashboardTypes, CatalogTypes
<1>12. CASE Tick
  BY <1>12 DEF Tick, QueryTypes, RuleTypes, DashboardTypes, CatalogTypes
<1>13. CASE UNCHANGED vars
  BY <1>13 DEF vars, QueryTypes, RuleTypes, DashboardTypes, CatalogTypes
<1> QED
  BY <1>2, <1>3, <1>4, <1>5, <1>6, <1>7, <1>8, <1>9, <1>10, <1>11, <1>12, <1>13 DEF Next

(* The tables have their types; in particular every stored or pending query *)
(* carries a time that has passed and an identifier within the bound, and    *)
(* the summary holds rows of catalog names only (Insert, InsertRulesUsage,  *)
(* InsertDashboardUsage, UpsertMetricsCatalog, RefreshMetricsUsageSummary). *)
THEOREM TypeCorrect == Spec => []TypeOK
<1>1. StoreInv /\ TableTypes => TypeOK
  BY DEF StoreInv, Timed, TableTypes, QueryTypes, RuleTypes, DashboardTypes, CatalogTypes,
         TypeOK, IsQuery
<1> QED
  BY <1>1, StoreInvariant, TableTypesInit, TableTypesNext, PTL DEF Spec
=============================================================================
