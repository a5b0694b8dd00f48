----------------------------- MODULE ApiRoutes ------------------------------
(***************************************************************************)
(* The handlers of api/routes/routes.go that read the tables, and what the *)
(* handlers of queries hand to the query ingester, as functions of the     *)
(* request, the clock and the tables.  A request is a record of parsed     *)
(* form values: Zero is a time, Missing a number and Any a text that is    *)
(* absent; Bad is a value that does not parse.                             *)
(***************************************************************************)
EXTENDS Provider

SQ == INSTANCE SqliteProvider
PG == INSTANCE PostgresProvider

Missing == -1000001
Bad == -1000002
BadRequest == {[status |-> 400]}

getTimeParam(t, now) == IF t = Zero THEN now ELSE t
getQueryParamAsInt(v, defaultValue) == IF v = Missing THEN defaultValue ELSE v

TimeRange(r, now) == [from |-> getTimeParam(r.from, now), to |-> getTimeParam(r.to, now)]

(* The parameters of a listing, with its default page size; each provider  *)
(* function reads the fields its own parameters have.                      *)
Listing(r, now, pageSize) ==
  [timeRange |-> TimeRange(r, now), page |-> getQueryParamAsInt(r.page, 1),
   pageSize |-> getQueryParamAsInt(r.pageSize, pageSize), sortBy |-> r.sortBy,
   sortOrder |-> r.sortOrder, filter |-> r.filter, serie |-> r.name,
   serieName |-> r.name, kind |-> r.kind, fingerprint |-> r.fingerprint,
   type |-> IF r.type \in {"instant", "range"} THEN r.type ELSE ""]
IsBad(r) == r.page = Bad \/ r.pageSize = Bad

(***************************************************************************)
(* Queries.                                                                *)
(***************************************************************************)
(* validateQuery: the errors are told apart only as valid or not. *)
Valid(q) ==
  /\ q.queryParam # Any
  /\ q.duration >= 0
  /\ q.type \in {"instant", "range"}
  /\ q.statusCode # Bad
  /\ q.type = "range" => q.start # Zero /\ q.end # Zero /\ q.end >= q.start

(* Mutant of validateQuery: the time of the client is kept. *)
validateQueryClientTime(q, now) ==
  LET time == IF q.time = Zero THEN now ELSE q.time
      orTime(t) == IF q.type = "instant" /\ t = Zero THEN time ELSE t
  IN  [q EXCEPT !.time = time, !.start = orTime(@), !.end = orTime(@)]

validateQuery(q, now) ==
  LET time == IF q.time = Zero THEN now ELSE q.time
      orTime(t) == IF q.type = "instant" /\ t = Zero THEN time ELSE t
  IN  [q EXCEPT !.ts = now, !.time = time, !.start = orTime(@), !.end = orTime(@)]

(* All queries of a push are valid, or none is ingested. *)
queryPush(queries, now) ==
  IF \E q \in queries : ~Valid(q) THEN {} ELSE {validateQuery(q, now) : q \in queries}

(* A proxied query is ingested whatever its parameters are; what Prometheus *)
(* answers is in r.                                                         *)
query(r, now) ==
  [ts |-> now, type |-> "instant", queryParam |-> r.queryParam,
   time |-> getTimeParam(r.time, now), start |-> Zero, end |-> Zero,
   statusCode |-> r.statusCode, duration |-> r.duration,
   peakSamples |-> r.peakSamples, samples |-> r.samples]
query_range(r, now) ==
  [ts |-> now, type |-> "range", queryParam |-> r.queryParam, time |-> Zero,
   start |-> getTimeParam(r.start, now), end |-> getTimeParam(r.end, now),
   statusCode |-> r.statusCode, duration |-> r.duration,
   peakSamples |-> r.peakSamples, samples |-> r.samples]

(***************************************************************************)
(* Analytics of queries.  p is the configured provider.                    *)
(***************************************************************************)
queryTypes(p, db, r, now) ==
  IF p = "sqlite" THEN SQ!GetQueryTypes(db, TimeRange(r, now), r.fingerprint, now)
                  ELSE PG!GetQueryTypes(db, TimeRange(r, now), r.fingerprint, now)
averageDuration(p, db, r, now) ==
  IF p = "sqlite" THEN SQ!GetAverageDuration(db, TimeRange(r, now), r.fingerprint)
                  ELSE PG!GetAverageDuration(db, TimeRange(r, now), r.fingerprint)
queryRate(p, db, r, now) ==
  IF p = "sqlite" THEN SQ!GetQueryRate(db, TimeRange(r, now), Any, r.fingerprint)
                  ELSE PG!GetQueryRate(db, TimeRange(r, now), Any, r.fingerprint)
queryStatusDistribution(p, db, r, now) ==
  IF p = "sqlite"
  THEN SQ!GetQueryStatusDistribution(db, TimeRange(r, now), r.fingerprint, now)
  ELSE PG!GetQueryStatusDistribution(db, TimeRange(r, now), r.fingerprint, now)
queryLatencyTrends(p, db, r, now) ==
  IF p = "sqlite"
  THEN SQ!GetQueryLatencyTrends(db, TimeRange(r, now), r.name, r.fingerprint, now)
  ELSE PG!GetQueryLatencyTrends(db, TimeRange(r, now), r.name, r.fingerprint, now)
queryThroughputAnalysis(p, db, r, now) ==
  IF p = "sqlite" THEN SQ!GetQueryThroughputAnalysis(db, TimeRange(r, now), now)
                  ELSE PG!GetQueryThroughputAnalysis(db, TimeRange(r, now), now)
queryErrorAnalysis(p, db, r, now) ==
  IF p = "sqlite"
  THEN SQ!GetQueryErrorAnalysis(db, TimeRange(r, now), r.fingerprint, now)
  ELSE PG!GetQueryErrorAnalysis(db, TimeRange(r, now), r.fingerprint, now)
queryTimeRangeDistribution(p, db, r, now) ==
  IF p = "sqlite"
  THEN SQ!GetQueryTimeRangeDistribution(db, TimeRange(r, now), r.fingerprint, now)
  ELSE PG!GetQueryTimeRangeDistribution(db, TimeRange(r, now), r.fingerprint, now)

queryExpressions(p, db, r, now) ==
  CASE IsBad(r) -> BadRequest
    [] ~IsBad(r) /\ p = "sqlite" -> SQ!GetQueryExpressions(db, Listing(r, now, 10))
    [] ~IsBad(r) /\ p # "sqlite" -> PG!GetQueryExpressions(db, Listing(r, now, 10))

queryExecutions(p, db, r, now) ==
  LET params == Listing(r, now, 10)
      refused == r.fingerprint = Any \/ IsBad(r)
  IN  CASE refused -> BadRequest
        [] ~refused /\ p = "sqlite" -> SQ!GetQueryExecutions(db, params)
        [] ~refused /\ p # "sqlite" -> PG!GetQueryExecutions(db, params)

(***************************************************************************)
(* Analytics of metrics.                                                   *)
(***************************************************************************)
(* A number that does not parse leaves the default.  An absent type stays   *)
(* the empty text "".                                                       *)
seriesMetadata(p, db, r) ==
  LET size == IF r.pageSize \in {Missing, Bad} THEN 10 ELSE r.pageSize
      params ==
        [page |-> IF r.page \in {Missing, Bad} THEN 1 ELSE r.page,
         pageSize |-> IF size < 1 THEN 1 ELSE IF size > MaxPageSize THEN MaxPageSize ELSE size,
         sortBy |-> r.sortBy, sortOrder |-> r.sortOrder, filter |-> r.filter,
         type |-> r.type, job |-> r.job,
         usage |-> CASE r.usage \in {"all", "used", "unused"} -> r.usage
                     [] r.usage = "" /\ r.unused -> "unused"
                     [] OTHER -> "all"]
  IN  IF p = "sqlite" THEN SQ!GetSeriesMetadata(db, params) ELSE PG!GetSeriesMetadata(db, params)

(* The series and labels it asks Prometheus for are left out. *)
GetMetricStatistics(p, db, r, now) ==
  IF p = "sqlite" THEN SQ!GetMetricStatistics(db, r.name, TimeRange(r, now))
                  ELSE PG!GetMetricStatistics(db, r.name, TimeRange(r, now))

GetMetricQueryPerformanceStatistics(p, db, r, now) ==
  LET tr == TimeRange(r, now)
  IN  IF p = "sqlite"
      THEN [rate |-> SQ!GetQueryRate(db, tr, r.name, Any),
            performance |-> SQ!GetMetricQueryPerformanceStatistics(db, r.name, tr)]
      ELSE [rate |-> PG!GetQueryRate(db, tr, r.name, Any),
            performance |-> PG!GetMetricQueryPerformanceStatistics(db, r.name, tr)]

serieExpressions(p, db, r, now) ==
  LET params == Listing(r, now, 1)
  IN  CASE IsBad(r) -> BadRequest
        [] ~IsBad(r) /\ p = "sqlite" -> SQ!GetQueriesBySerieName(db, params, now)
        [] ~IsBad(r) /\ p # "sqlite" -> PG!GetQueriesBySerieName(db, params, now)

GetMetricUsage(p, db, r, now) ==
  LET params == Listing(r, now, 1)
      refused == r.name = Any \/ r.kind = "" \/ IsBad(r)
  IN  CASE refused -> BadRequest
        [] ~refused /\ r.kind = "dashboard" /\ p = "sqlite" -> SQ!GetDashboardUsage(db, params, now)
        [] ~refused /\ r.kind = "dashboard" /\ p # "sqlite" -> PG!GetDashboardUsage(db, params, now)
        [] ~refused /\ r.kind # "dashboard" /\ p = "sqlite" -> SQ!GetRulesUsage(db, params, now)
        [] ~refused /\ r.kind # "dashboard" /\ p # "sqlite" -> PG!GetRulesUsage(db, params, now)

listJobs(p, db) == IF p = "sqlite" THEN SQ!ListJobs(db) ELSE PG!ListJobs(db)

metricsUnused(p, db, names, job) ==
  LET mm == IF p = "sqlite" THEN SQ!GetSeriesMetadataByNames(db, names, job)
                            ELSE PG!GetSeriesMetadataByNames(db, names, job)
  IN  IF names = {} \/ Cardinality(names) > 100 THEN BadRequest
      ELSE {[name |-> m.name, unused |-> ~IsUsed(m)] : m \in mm}
=============================================================================
