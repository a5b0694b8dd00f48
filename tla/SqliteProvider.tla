--------------------------- MODULE SqliteProvider ---------------------------
(***************************************************************************)
(* The statements of internal/db/sqlite.go as functions of the tables, a   *)
(* record db with fields                                                   *)
(*   queries     a set of rows of the table queries;                       *)
(*   rules       rule row -> its presence [first, last] (RulesUsage);      *)
(*   dashboards  <<id, serie>> -> [first, last, name] (DashboardUsage);    *)
(*   catalog     name -> type (metrics_catalog);                           *)
(*   jobs        pairs <<name, job>> (metrics_job_index);                  *)
(*   summary     name -> usage counts (metrics_usage_summary).             *)
(*                                                                         *)
(* The driver stores a time.Time as the text of time.Time.String, "2006-01-*)
(* 02 15:04:05.9 +0000 UTC", and SQLite compares texts: a stored time is   *)
(* greater than the text of its own second.  The process runs in UTC.      *)
(***************************************************************************)
EXTENDS Provider

TsBetween(q, tr) ==
  LET b == PrepareTimeRange(tr)
  IN  b.from <= q.ts /\ WholeSecond(q.ts) < b.to

(* julianday(substr(ts, 1, 19)) compares whole seconds as numbers. *)
JulianBetween(q, tr) ==
  LET b == PrepareTimeRange(tr)
  IN  b.from <= q.ts /\ WholeSecond(q.ts) <= b.to

(* first_seen_at <= to AND last_seen_at >= from *)
Overlaps(u, tr) ==
  LET b == PrepareTimeRange(tr)
  IN  WholeSecond(u.first) < b.to /\ b.from <= u.last

(* json_extract(labelMatchers, '$[0].__name__') *)
FirstName(q) == IF q.labelMatchers = <<>> THEN Null ELSE q.labelMatchers[1]
MetricMatches(q, metricName) == FirstName(q) = metricName

(***************************************************************************)
(* Writes.                                                                 *)
(***************************************************************************)
Insert(queries, batch) == queries \cup batch

(* Duplicates in the payload are one row; a row that exists keeps its      *)
(* first_seen_at (and created_at).                                         *)
InsertRulesUsage(rules, rows, now) ==
  [r \in DOMAIN rules \cup rows |->
     CASE r \in rows /\ r \in DOMAIN rules -> [rules[r] EXCEPT !.last = now]
       [] r \in rows /\ r \notin DOMAIN rules -> [first |-> now, last |-> now]
       [] OTHER -> rules[r]]

(* items: at most one per id and serie, the last of the payload's order. *)
InsertDashboardUsage(dashboards, items, now) ==
  LET Key(d) == <<d.id, d.serie>>
      Item(k) == CHOOSE d \in items : Key(d) = k
      keys == {Key(d) : d \in items}
  IN  [k \in DOMAIN dashboards \cup keys |->
         CASE k \in keys /\ k \in DOMAIN dashboards ->
                [dashboards[k] EXCEPT !.last = now, !.name = Item(k).name]
           [] k \in keys /\ k \notin DOMAIN dashboards ->
                [first |-> now, last |-> now, name |-> Item(k).name]
           [] OTHER -> dashboards[k]]

UpsertMetricsCatalog(catalog, items) ==
  [n \in DOMAIN catalog \cup DOMAIN items |->
     IF n \in DOMAIN items THEN items[n] ELSE catalog[n]]

UpsertMetricsJobIndex(jobs, items) == jobs \cup items

CountedQueries(db, tr, n) == {q \in db.queries : TsBetween(q, tr) /\ FirstName(q) = n}
RuleCount(db, tr, n, kind) ==
  Cardinality({r \in DOMAIN db.rules : /\ Overlaps(db.rules[r], tr)
                                       /\ r.serie = n /\ r.kind = kind})
DashboardCount(db, tr, n) ==
  Cardinality({k[1] : k \in {k \in DOMAIN db.dashboards : Overlaps(db.dashboards[k], tr)
                                                           /\ k[2] = n}})
(* Mutant of UsageCounts: recording rules are looked for by the name the    *)
(* API documentation gives their kind.                                      *)
UsageCountsRecording(db, tr, n) ==
  [alertCount     |-> RuleCount(db, tr, n, "alert"),
   recordCount    |-> RuleCount(db, tr, n, "recording"),
   dashboardCount |-> DashboardCount(db, tr, n),
   queryCount     |-> Cardinality(CountedQueries(db, tr, n)),
   lastQueriedAt  |-> LastQueriedAt(CountedQueries(db, tr, n))]
UsageCounts(db, tr, n) ==
  [alertCount     |-> RuleCount(db, tr, n, "alert"),
   recordCount    |-> RuleCount(db, tr, n, "record"),
   dashboardCount |-> DashboardCount(db, tr, n),
   queryCount     |-> Cardinality(CountedQueries(db, tr, n)),
   lastQueriedAt  |-> LastQueriedAt(CountedQueries(db, tr, n))]
RefreshMetricsUsageSummary(db, tr) ==
  [n \in DOMAIN db.summary \cup DOMAIN db.catalog |->
     IF n \in DOMAIN db.catalog THEN UsageCounts(db, tr, n) ELSE db.summary[n]]

(* The cutoff is printed with time.RFC3339: up to the date its text is like *)
(* a stored one, then it has 'T' where a stored time has a blank, and a     *)
(* blank is less.  So the whole day of the cutoff is deleted.               *)
DeleteQueriesBefore(queries, cutoff) ==
  {q \in queries : ~(q.ts < TruncTo(cutoff, Day) + Day)}

(***************************************************************************)
(* Listings.  Every operation is the set of its possible answers.          *)
(***************************************************************************)
GetQueriesBySerieName(db, p, now) ==
  LET tr == SetDefaultTimeRange(p.timeRange, now)
  IN  SerieQueryPages({q \in db.queries : /\ MetricMatches(q, p.serieName)
                                          /\ TsBetween(q, tr)
                                          /\ Like(p.filter, q.queryParam)}, p, FALSE)

GetRulesUsage(db, p, now) ==
  LET tr == SetDefaultTimeRange(p.timeRange, now)
  IN  RulePages(db, {r \in DOMAIN db.rules : Overlaps(db.rules[r], tr)}, p, FALSE)

GetDashboardUsage(db, p, now) ==
  LET tr == SetDefaultTimeRange(p.timeRange, now)
  IN  DashboardPages(db, {k \in DOMAIN db.dashboards : Overlaps(db.dashboards[k], tr)}, p, FALSE)

GetSeriesMetadata(db, p) == CatalogPages(db, p, FALSE)

GetSeriesMetadataByNames(db, names, job) ==
  {MetricMetadata(db, n) : n \in {n \in names \cap DOMAIN db.catalog : RunsIn(db, n, job)}}

ListJobs(db) == {j[2] : j \in db.jobs}

GetQueryExpressions(db, p) ==
  ExpressionPages({q \in db.queries : TsBetween(q, p.timeRange) /\ Like(p.filter, q.queryParam)}, p, FALSE)

(* Sorted by the julian day of the whole second. *)
GetQueryExecutions(db, p) ==
  ExecutionPages({q \in db.queries : /\ JulianBetween(q, p.timeRange)
                                     /\ q.fingerprint = p.fingerprint
                                     /\ p.type \in {"", q.type}},
                 p, LAMBDA q : WholeSecond(q.ts))

(***************************************************************************)
(* Aggregates over the queries of a range.                                 *)
(***************************************************************************)
GetQueryTypes(db, timeRange, fingerprint, now) ==
  LET tr == SetDefaultTimeRange(timeRange, now)
      rows == {q \in db.queries : TsBetween(q, tr) /\ HasFingerprint(q, fingerprint)}
      total == Cardinality(rows)
      percent(type) == Ratio(Cardinality({q \in rows : q.type = type}), total)
  IN  [totalQueries |-> total, instantPercent |-> percent("instant"),
       rangePercent |-> percent("range")]

GetAverageDuration(db, tr, fingerprint) ==
  LET rows(r) == {q \in db.queries : TsBetween(q, r) /\ HasFingerprint(q, fingerprint)}
  IN  [avgDuration |-> Avg(Duration, rows(tr)),
       deltaPercent |-> DeltaPercent(rows(tr), rows(Previous(tr)))]

(* SUM over no rows is NULL. *)
GetQueryRate(db, tr, metricName, fingerprint) ==
  LET rows == {q \in db.queries : /\ TsBetween(q, tr)
                                  /\ metricName = Any \/ MetricMatches(q, metricName)
                                  /\ HasFingerprint(q, fingerprint)}
      total == Cardinality(rows)
      sum(P(_)) == IF rows = {} THEN Null ELSE CountOf(rows, P)
  IN  [successTotal |-> sum(IsSuccess),
       successRatePercent |-> Percent(CountOf(rows, IsSuccess), total),
       errorTotal |-> sum(IsFailed),
       errorRatePercent |-> Percent(CountOf(rows, IsFailed), total)]

GetQueryTimeRangeDistribution(db, timeRange, fingerprint, now) ==
  LET tr == SetDefaultTimeRange(timeRange, now)
      seconds(q) == WholeSecond(q.end) - WholeSecond(q.start)
  IN  Distribution({q \in db.queries : /\ JulianBetween(q, tr)
                                       /\ HasFingerprint(q, fingerprint)
                                       /\ q.type = "range"
                                       /\ seconds(q) >= 0}, seconds)

GetMetricStatistics(db, metricName, tr) ==
  Statistics(db, metricName,
             {r \in DOMAIN db.rules : Overlaps(db.rules[r], tr)},
             {k \in DOMAIN db.dashboards : Overlaps(db.dashboards[k], tr)})

GetMetricQueryPerformanceStatistics(db, metricName, tr) ==
  LET rows == {q \in db.queries : MetricMatches(q, metricName) /\ TsBetween(q, tr)}
  IN  [totalQueries |-> Cardinality(rows), averageSamples |-> Avg(PeakSamples, rows),
       peakSamples |-> MaxOf(PeakSamples, rows), averageDuration |-> Avg(Duration, rows)]

(***************************************************************************)
(* Time series.  time_buckets appends a bucket while the last one starts   *)
(* before the minute of to; a bucket holds the queries of                  *)
(* [start, start + interval).  Only the status distribution also filters   *)
(* them by the range.                                                      *)
(***************************************************************************)
(* Mutant of TimeBuckets: the recursion stops with a bucket that ends       *)
(* before to.                                                               *)
TimeBucketsShort(tr) ==
  LET interval == GetInterval(tr)
      first == TruncTo(tr.from, Minute)
      width == TruncTo(tr.to, Minute) - first
  IN  {first + k * interval : k \in {k \in 0..(width \div interval) : k * interval < width}}

TimeBuckets(tr) ==
  LET interval == GetInterval(tr)
      first == TruncTo(tr.from, Minute)
      width == TruncTo(tr.to, Minute) - first
      steps == IF width <= 0 THEN 0 ELSE (width + interval - 1) \div interval
  IN  {first + k * interval : k \in 0..steps}

InBucket(rows, bucket, tr) ==
  {q \in rows : bucket <= q.ts /\ q.ts < bucket + GetInterval(tr)}

GetQueryStatusDistribution(db, timeRange, fingerprint, now) ==
  LET tr == SetDefaultTimeRange(timeRange, now)
      filtered == {q \in db.queries : JulianBetween(q, tr) /\ HasFingerprint(q, fingerprint)}
  IN  [b \in TimeBuckets(tr) |->
         LET rows == InBucket(filtered, b, tr)
         IN  [status2xx |-> CountOf(rows, IsSuccess),
              status4xx |-> CountOf(rows, IsClientError),
              status5xx |-> CountOf(rows, IsServerError)]]

(* The 95th percentile is left out. *)
GetQueryLatencyTrends(db, timeRange, metricName, fingerprint, now) ==
  LET tr == SetDefaultTimeRange(timeRange, now)
      filtered == {q \in db.queries : /\ metricName = Any \/ MetricMatches(q, metricName)
                                      /\ HasFingerprint(q, fingerprint)}
  IN  [b \in TimeBuckets(tr) |-> OrZero(Avg(Duration, InBucket(filtered, b, tr)))]

GetQueryThroughputAnalysis(db, timeRange, now) ==
  LET tr == SetDefaultTimeRange(timeRange, now)
  IN  [b \in TimeBuckets(tr) |-> Cardinality(InBucket(db.queries, b, tr))]

GetQueryErrorAnalysis(db, timeRange, fingerprint, now) ==
  LET tr == SetDefaultTimeRange(timeRange, now)
      filtered == {q \in db.queries : HasFingerprint(q, fingerprint)}
  IN  [b \in TimeBuckets(tr) |-> CountOf(InBucket(filtered, b, tr), IsFailed)]
=============================================================================
