-------------------------- MODULE PostgresProvider --------------------------
(***************************************************************************)
(* The statements of internal/db/postgresql.go as functions of the tables  *)
(* (see SqliteProvider for the record db).  A stored time is a timestamp   *)
(* with its fraction; a bound is printed without one.                      *)
(***************************************************************************)
EXTENDS Provider

TsBetween(q, tr) == LET b == PrepareTimeRange(tr) IN b.from <= q.ts /\ q.ts <= b.to

(* first_seen_at <= to AND last_seen_at >= from *)
OverlapsWithin(u, tr) == LET b == PrepareTimeRange(tr) IN b.from <= u.first /\ u.last <= b.to  \* mutant
Overlaps(u, tr) == LET b == PrepareTimeRange(tr) IN u.first <= b.to /\ b.from <= u.last

(* labelMatchers->0->>'__name__' *)
FirstName(q) == IF q.labelMatchers = <<>> THEN Null ELSE q.labelMatchers[1]

(* labelMatchers @> '[{"__name__": ..}]': the name of any selector *)
MetricMatches(q, metricName) == \E i \in DOMAIN q.labelMatchers : q.labelMatchers[i] = metricName

(***************************************************************************)
(* Writes.                                                                 *)
(***************************************************************************)
Insert(queries, batch) == queries \cup batch

(* Duplicates in the payload are one row; a row that exists keeps its      *)
(* first_seen_at (and created_at).                                         *)
InsertRulesUsage(rules, rows, now) ==
  [r \in DOMAIN rules \cup rows |->
     CASE r \in rows /\ r \in DOMAIN rules -> [rules[r] EXCEPT !.last = now]
       [] r \in rows /\ r \notin DOMAIN rules -> [first |-> now, last |-> now]
       [] OTHER -> rules[r]]

(* items: at most one per id and serie, the last of the payload's order. *)
InsertDashboardUsage(dashboards, items, now) ==
  LET Key(d) == <<d.id, d.serie>>
      Item(k) == CHOOSE d \in items : Key(d) = k
      keys == {Key(d) : d \in items}
  IN  [k \in DOMAIN dashboards \cup keys |->
         CASE k \in keys /\ k \in DOMAIN dashboards ->
                [dashboards[k] EXCEPT !.last = now, !.name = Item(k).name]
           [] k \in keys /\ k \notin DOMAIN dashboards ->
                [first |-> now, last |-> now, name |-> Item(k).name]
           [] OTHER -> dashboards[k]]

UpsertMetricsCatalog(catalog, items) ==
  [n \in DOMAIN catalog \cup DOMAIN items |->
     IF n \in DOMAIN items THEN items[n] ELSE catalog[n]]

UpsertMetricsJobIndex(jobs, items) == jobs \cup items

CountedQueries(db, tr, n) == {q \in db.queries : TsBetween(q, tr) /\ FirstName(q) = n}
RuleCount(db, tr, n, kind) ==
  Cardinality({r \in DOMAIN db.rules : /\ Overlaps(db.rules[r], tr)
                                       /\ r.serie = n /\ r.kind = kind})
DashboardCount(db, tr, n) ==
  Cardinality({k[1] : k \in {k \in DOMAIN db.dashboards : Overlaps(db.dashboards[k], tr)
                                                           /\ k[2] = n}})
UsageCounts(db, tr, n) ==
  [alertCount     |-> RuleCount(db, tr, n, "alert"),
   recordCount    |-> RuleCount(db, tr, n, "record"),
   dashboardCount |-> DashboardCount(db, tr, n),
   queryCount     |-> Cardinality(CountedQueries(db, tr, n)),
   lastQueriedAt  |-> LastQueriedAt(CountedQueries(db, tr, n))]
RefreshMetricsUsageSummary(db, tr) ==
  [n \in DOMAIN db.summary \cup DOMAIN db.catalog |->
     IF n \in DOMAIN db.catalog THEN UsageCounts(db, tr, n) ELSE db.summary[n]]

DeleteQueriesUpTo(queries, cutoff) == {q \in queries : ~(q.ts <= cutoff)}  \* mutant
DeleteQueriesBefore(queries, cutoff) == {q \in queries : ~(q.ts < cutoff)}

(***************************************************************************)
(* Listings.  Every operation is the set of its possible answers.          *)
(***************************************************************************)
(* The bounds are sent as times, with their fraction. *)
GetQueriesBySerieName(db, p, now) ==
  LET tr == SetDefaultTimeRange(p.timeRange, now)
  IN  SerieQueryPages({q \in db.queries : /\ MetricMatches(q, p.serieName)
                                          /\ tr.from <= q.ts /\ q.ts <= tr.to
                                          /\ Like(p.filter, q.queryParam)}, p, TRUE)

(* An order that is neither ASC nor DESC makes a statement PostgreSQL does  *)
(* not accept: the request fails.                                           *)
Failed == {[status |-> 500]}
GetRulesUsage(db, p, now) ==
  LET tr == SetDefaultTimeRange(p.timeRange, now)
  IN  IF p.sortOrder \notin SortOrders THEN Failed
      ELSE RulePages(db, {r \in DOMAIN db.rules : Overlaps(db.rules[r], tr)}, p, TRUE)

GetDashboardUsage(db, p, now) ==
  LET tr == SetDefaultTimeRange(p.timeRange, now)
  IN  IF p.sortOrder \notin SortOrders THEN Failed
      ELSE DashboardPages(db, {k \in DOMAIN db.dashboards : Overlaps(db.dashboards[k], tr)},
                          p, TRUE)

GetSeriesMetadata(db, p) == CatalogPages(db, p, TRUE)

GetSeriesMetadataByNames(db, names, job) ==
  {MetricMetadata(db, n) : n \in {n \in names \cap DOMAIN db.catalog : RunsIn(db, n, job)}}

ListJobs(db) == {j[2] : j \in db.jobs}

GetQueryExpressions(db, p) ==
  ExpressionPages({q \in db.queries : TsBetween(q, p.timeRange) /\ Like(p.filter, q.queryParam)}, p, TRUE)

GetQueryExecutions(db, p) ==
  ExecutionPages({q \in db.queries : /\ TsBetween(q, p.timeRange)
                                     /\ q.fingerprint = p.fingerprint
                                     /\ p.type \in {"", q.type}},
                 p, LAMBDA q : q.ts)

(***************************************************************************)
(* Aggregates over the queries of a range.                                 *)
(***************************************************************************)
GetQueryTypes(db, timeRange, fingerprint, now) ==
  LET tr == SetDefaultTimeRange(timeRange, now)
      rows == {q \in db.queries : TsBetween(q, tr) /\ HasFingerprint(q, fingerprint)}
      total == Cardinality(rows)
      percent(type) == Percent(Cardinality({q \in rows : q.type = type}), total)
  IN  [totalQueries |-> total, instantPercent |-> percent("instant"),
       rangePercent |-> percent("range")]

GetAverageDuration(db, tr, fingerprint) ==
  LET rows(r) == {q \in db.queries : TsBetween(q, r) /\ HasFingerprint(q, fingerprint)}
  IN  [avgDuration |-> OrZero(Avg(Duration, rows(tr))),
       deltaPercent |-> DeltaPercent(rows(tr), rows(Previous(tr)))]

GetQueryRate(db, tr, metricName, fingerprint) ==
  LET rows == {q \in db.queries : /\ TsBetween(q, tr)
                                  /\ metricName = Any \/ MetricMatches(q, metricName)
                                  /\ HasFingerprint(q, fingerprint)}
      total == Cardinality(rows)
  IN  [successTotal |-> CountOf(rows, IsSuccess),
       successRatePercent |-> Percent(CountOf(rows, IsSuccess), total),
       errorTotal |-> CountOf(rows, IsFailed),
       errorRatePercent |-> Percent(CountOf(rows, IsFailed), total)]

(* EXTRACT(EPOCH FROM ("end" - start))::bigint is the nearest whole second. *)
NearestSecond(width) == TruncTo(width + Second \div 2, Second)
GetQueryTimeRangeDistribution(db, timeRange, fingerprint, now) ==
  LET tr == SetDefaultTimeRange(timeRange, now)
  IN  Distribution({q \in db.queries : /\ TsBetween(q, tr)
                                       /\ HasFingerprint(q, fingerprint)
                                       /\ q.type = "range"
                                       /\ q.end > q.start}, LAMBDA q : NearestSecond(q.end - q.start))

GetMetricStatistics(db, metricName, tr) ==
  Statistics(db, metricName,
             {r \in DOMAIN db.rules : Overlaps(db.rules[r], tr)},
             {k \in DOMAIN db.dashboards : Overlaps(db.dashboards[k], tr)})

GetMetricQueryPerformanceStatistics(db, metricName, tr) ==
  LET rows == {q \in db.queries : MetricMatches(q, metricName) /\ TsBetween(q, tr)}
  IN  [totalQueries |-> Cardinality(rows), averageSamples |-> Avg(Samples, rows),
       peakSamples |-> MaxOf(PeakSamples, rows), averageDuration |-> Avg(Duration, rows)]

(***************************************************************************)
(* Time series.  generate_series gives the starts of the buckets;          *)
(* queries are grouped by their minute, and the join matches a minute with *)
(* a bucket that starts at it.                                             *)
(***************************************************************************)
TimeBuckets(tr) ==
  LET interval == GetInterval(tr)
      first == TruncTo(tr.from, Minute)
      width == TruncTo(tr.to, Minute) - first
  IN  {first + k * interval : k \in IF width < 0 THEN {} ELSE 0..(width \div interval)}

InBucket(rows, bucket, tr) ==
  LET b == PrepareTimeRange(tr)
  IN  {q \in rows : b.from <= q.ts /\ q.ts < b.to /\ TruncTo(q.ts, Minute) = bucket}

GetQueryStatusDistribution(db, timeRange, fingerprint, now) ==
  LET tr == SetDefaultTimeRange(timeRange, now)
      filtered == {q \in db.queries : HasFingerprint(q, fingerprint)}
  IN  [b \in TimeBuckets(tr) |->
         LET rows == InBucket(filtered, b, tr)
         IN  [status2xx |-> CountOf(rows, IsSuccess),
              status4xx |-> CountOf(rows, IsClientError),
              status5xx |-> CountOf(rows, IsServerError)]]

(* The 95th percentile is left out. *)
GetQueryLatencyTrends(db, timeRange, metricName, fingerprint, now) ==
  LET tr == SetDefaultTimeRange(timeRange, now)
      filtered == {q \in db.queries : /\ metricName = Any \/ MetricMatches(q, metricName)
                                      /\ HasFingerprint(q, fingerprint)}
  IN  [b \in TimeBuckets(tr) |-> OrZero(Avg(Duration, InBucket(filtered, b, tr)))]

GetQueryThroughputAnalysis(db, timeRange, now) ==
  LET tr == SetDefaultTimeRange(timeRange, now)
  IN  [b \in TimeBuckets(tr) |-> Cardinality(InBucket(db.queries, b, tr))]

GetQueryErrorAnalysis(db, timeRange, fingerprint, now) ==
  LET tr == SetDefaultTimeRange(timeRange, now)
      filtered == {q \in db.queries : HasFingerprint(q, fingerprint)}
  IN  [b \in TimeBuckets(tr) |-> CountOf(InBucket(filtered, b, tr), IsFailed)]
=============================================================================
