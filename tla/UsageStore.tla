----------------------------- MODULE UsageStore -----------------------------
(***************************************************************************)
(* The tables and everything that writes them: the handlers of queries     *)
(* through the query ingester, pushes of usage, the OTLP catalog and the   *)
(* inventory, the refresh of the usage summary and the retention worker.   *)
(* Here every write is one step; QueryIngester, CatalogBuffer,             *)
(* InventorySync and UsagePush look inside.                                *)
(***************************************************************************)
EXTENDS ApiRoutes

CONSTANTS
  Configs,       \* deployments: [provider, window, maxAge]
  Instants,      \* what the clock may show
  Metrics,       \* metric names
  Requests,      \* requests for proxied queries, with Prometheus's answer
  Pushes,        \* bodies of /query/push: sets of queries
  Texts,         \* the texts of queries, Any for an absent one
  Fingerprint,   \* text -> fingerprint
  Matchers,      \* text -> the names of its selectors
  RuleRows,      \* rules that use a metric: [serie, kind, group_name, name, expression]
  DashboardItems,\* dashboards that use a metric: [id, serie, name]
  Types,         \* types of metrics
  JobItems,      \* pairs <<metric, job>>
  MaxRows,       \* bound on queries, rules and dashboards together
  Ranges,        \* time ranges that readers ask for
  PageSizes      \* sizes of pages that readers ask for

ASSUME ConfigsAssumption ==
  Configs \subseteq [provider : {"sqlite", "postgresql"}, window : Nat, maxAge : Nat \ {0}]
ASSUME InstantsAssumption == Instants \subseteq Nat
ASSUME WindowsAssumption == \A c \in Configs, t \in Instants : c.window <= t
ASSUME MetricsAssumption == IsFiniteSet(Metrics) /\ Metrics \subseteq Nat \ {Any}
ASSUME TextsAssumption == Texts \subseteq Nat /\ Fingerprint \in [Texts -> Nat]
ASSUME MatchersAssumption == Matchers \in [Texts -> Seq(Nat)]

(* Prometheus answers with a status code of HTTP; http.StatusText knows no  *)
(* code above 511, so a pushed query has one below 600 or a bad one.        *)
Times == Nat \cup {Zero}
ASSUME RequestsAssumption ==
  Requests \subseteq
    [path : STRING, queryParam : Texts, time : Times, start : Times, end : Times,
     statusCode : 100..599, duration : Nat, peakSamples : Int, samples : Int]
ASSUME PushesAssumption ==
  \A qs \in Pushes :
    /\ IsFiniteSet(qs)
    /\ qs \subseteq
         [ts : Times, type : STRING, queryParam : Texts, time : Times, start : Times,
          end : Times, statusCode : (100..599) \cup {Bad}, duration : Int,
          peakSamples : Int, samples : Int]
ASSUME RowsAssumption ==
  /\ RuleRows \subseteq
       [serie : Nat, kind : STRING, group_name : Nat, name : Nat, expression : Nat]
  /\ DashboardItems \subseteq [id : Nat, serie : Nat, name : Nat]
(* The collation may sort texts in any other way than their bytes do. *)
ASSUME CollationAssumption ==
  \A t \in Metrics \cup Texts \cup {d.name : d \in DashboardItems}
            \cup UNION {{r.group_name, r.name, r.expression} : r \in RuleRows} :
    Collation[t] \in Int
ASSUME MaxRowsAssumption == MaxRows \in Nat
ASSUME ReadersAssumption ==
  Ranges \subseteq [from : Nat, to : Nat] /\ PageSizes \subseteq Nat \ {0}

VARIABLES
  conf,        \* the deployment
  now,         \* the clock
  pending,     \* queries handed to Ingest, not yet inserted
  queries, rules, dashboards, catalog, jobs, summary,   \* the tables
  history,     \* every query that was ever inserted
  fresh        \* the range of the last refresh if nothing it reads changed since

vars == <<conf, now, pending, queries, rules, dashboards, catalog, jobs, summary, history, fresh>>

db == [queries |-> queries, rules |-> rules, dashboards |-> dashboards,
       catalog |-> catalog, jobs |-> jobs, summary |-> summary]
NotFresh == {}
Rows == Cardinality(history \cup pending) + Cardinality(DOMAIN rules)
          + Cardinality(DOMAIN dashboards)

Init ==
  /\ conf \in Configs /\ now \in Instants
  /\ \A t \in Instants : now <= t
  /\ pending = {} /\ queries = {} /\ history = {}
  /\ rules = <<>> /\ dashboards = <<>> /\ catalog = <<>> /\ summary = <<>>
  /\ jobs = {} /\ fresh = NotFresh

(***************************************************************************)
(* Queries.                                                                *)
(***************************************************************************)
(* What the ingester adds to a query before it stores it. *)
Prepare(q, id) ==
  [id |-> id, ts |-> q.ts, type |-> q.type, queryParam |-> q.queryParam,
   start |-> q.start, end |-> q.end, statusCode |-> q.statusCode,
   duration |-> q.duration, peakSamples |-> q.peakSamples, samples |-> q.samples,
   fingerprint |-> Fingerprint[q.queryParam], labelMatchers |-> Matchers[q.queryParam]]

NextId == Cardinality(history \cup pending) + 1
Ingest(qs) ==
  \E ids \in {f \in [qs -> NextId..(NextId + Cardinality(qs) - 1)] :
                \A q, r \in qs : f[q] = f[r] => q = r} :
    /\ Rows + Cardinality(qs) <= MaxRows
    /\ pending' = pending \cup {Prepare(q, ids[q]) : q \in qs}
    /\ UNCHANGED <<conf, now, queries, rules, dashboards, catalog, jobs, summary, history, fresh>>

Query(r) == r.path = "query" /\ Ingest({query(r, now)})
QueryRange(r) == r.path = "query_range" /\ Ingest({query_range(r, now)})
QueryPush(qs) == queryPush(qs, now) # {} /\ Ingest(queryPush(qs, now))

(* A batch that fails is logged and dropped. *)
InsertQueries ==
  /\ pending # {}
  /\ queries' = IF conf.provider = "sqlite" THEN SQ!Insert(queries, pending)
                                            ELSE PG!Insert(queries, pending)
  /\ history' = history \cup pending
  /\ pending' = {}
  /\ fresh' = NotFresh
  /\ UNCHANGED <<conf, now, rules, dashboards, catalog, jobs, summary>>
InsertFails ==
  /\ pending # {}
  /\ pending' = {}
  /\ UNCHANGED <<conf, now, queries, rules, dashboards, catalog, jobs, summary, history, fresh>>

(***************************************************************************)
(* Usage, catalog and job index.                                           *)
(***************************************************************************)
InsertRulesUsage(rows) ==
  /\ rules' = IF conf.provider = "sqlite" THEN SQ!InsertRulesUsage(rules, rows, now)
                                          ELSE PG!InsertRulesUsage(rules, rows, now)
  /\ Rows + Cardinality(rows \ DOMAIN rules) <= MaxRows
  /\ fresh' = NotFresh
  /\ UNCHANGED <<conf, now, pending, queries, dashboards, catalog, jobs, summary, history>>

InsertDashboardUsage(items) ==
  /\ dashboards' = IF conf.provider = "sqlite"
                   THEN SQ!InsertDashboardUsage(dashboards, items, now)
                   ELSE PG!InsertDashboardUsage(dashboards, items, now)
  /\ Rows + Cardinality({d \in items : <<d.id, d.serie>> \notin DOMAIN dashboards}) <= MaxRows
  /\ fresh' = NotFresh
  /\ UNCHANGED <<conf, now, pending, queries, rules, catalog, jobs, summary, history>>

UpsertMetricsCatalog(items) ==
  /\ catalog' = IF conf.provider = "sqlite" THEN SQ!UpsertMetricsCatalog(catalog, items)
                                            ELSE PG!UpsertMetricsCatalog(catalog, items)
  /\ fresh' = NotFresh
  /\ UNCHANGED <<conf, now, pending, queries, rules, dashboards, jobs, summary, history>>

UpsertMetricsJobIndex(items) ==
  /\ jobs' = IF conf.provider = "sqlite" THEN SQ!UpsertMetricsJobIndex(jobs, items)
                                         ELSE PG!UpsertMetricsJobIndex(jobs, items)
  /\ UNCHANGED <<conf, now, pending, queries, rules, dashboards, catalog, summary, history, fresh>>

(***************************************************************************)
(* The inventory's refresh and the retention worker.                       *)
(***************************************************************************)
SummaryWindow == [from |-> now - conf.window, to |-> now]
Refresh ==
  /\ summary' = IF conf.provider = "sqlite"
                THEN SQ!RefreshMetricsUsageSummary(db, SummaryWindow)
                ELSE PG!RefreshMetricsUsageSummary(db, SummaryWindow)
  /\ fresh' = {SummaryWindow}
  /\ UNCHANGED <<conf, now, pending, queries, rules, dashboards, catalog, jobs, history>>

CutoffNow == now                     \* mutant: the maximal age is not subtracted
Cutoff == now - conf.maxAge
Retention ==
  /\ queries' = IF conf.provider = "sqlite" THEN SQ!DeleteQueriesBefore(queries, Cutoff)
                                            ELSE PG!DeleteQueriesBefore(queries, Cutoff)
  /\ fresh' = IF queries' = queries THEN fresh ELSE NotFresh
  /\ UNCHANGED <<conf, now, pending, rules, dashboards, catalog, jobs, summary, history>>

Tick ==
  /\ now' \in {t \in Instants : t > now}
  /\ UNCHANGED <<conf, pending, queries, rules, dashboards, catalog, jobs, summary, history, fresh>>

Next ==
  \/ \E r \in Requests : Query(r) \/ QueryRange(r)
  \/ \E qs \in Pushes : QueryPush(qs)
  \/ InsertQueries \/ InsertFails
  \/ \E r \in RuleRows : InsertRulesUsage({r})
  \/ \E d \in DashboardItems : InsertDashboardUsage({d})
  \/ \E t \in Types : UpsertMetricsCatalog([n \in Metrics |-> t])
  \/ UpsertMetricsJobIndex(JobItems)
  \/ Refresh \/ Retention \/ Tick

Spec == Init /\ [][Next]_vars

(***************************************************************************)
(* Properties.                                                             *)
(***************************************************************************)
UsageRow == [first : Instants, last : Instants]
IsQuery(q) == /\ q.id \in 1..MaxRows /\ q.ts \in Instants /\ q.ts <= now
              /\ q.queryParam \in Texts

(* The clock and the tables have their types, and every query that was      *)
(* handed over carries a time that has passed (routes.go sets TS when a     *)
(* request arrives).                                                        *)
TypeOK ==
  /\ conf \in Configs /\ now \in Instants
  /\ \A q \in pending \cup history : IsQuery(q)
  /\ queries \subseteq history
  /\ DOMAIN rules \subseteq RuleRows /\ \A r \in DOMAIN rules : rules[r] \in UsageRow
  /\ DOMAIN dashboards \subseteq {<<d.id, d.serie>> : d \in DashboardItems}
  /\ DOMAIN catalog \subseteq Metrics /\ DOMAIN summary \subseteq DOMAIN catalog
  /\ jobs \subseteq JobItems

(* How far beyond its maximal age SQLite's retention reaches. *)
Slack == IF conf.provider = "sqlite" THEN Day ELSE 0

(* A retention run deletes every query older than queries_max_age and, on   *)
(* SQLite up to the end of the cutoff's day, no other: no write, refresh or *)
(* clock step between the runs loses a query (retention.go runOnce,         *)
(* DeleteQueriesBefore).                                                    *)
RetentionHonoursAge ==
  [][/\ \A q \in queries \ queries' : q.ts < now - conf.maxAge + Slack
     /\ Retention => \A q \in queries' : q.ts >= now - conf.maxAge]_vars

(* What the flag's description promises: "Maximum age for queries before    *)
(* deletion" (README.md:331), and the provider's test that "all remaining   *)
(* queries should be after cutoff" and none of them deleted.                *)
DeletesOnlyPastMaxAge == [][\A q \in queries \ queries' : q.ts < now - conf.maxAge]_vars

(* When queries are kept at least as long as the summary's window (plus a   *)
(* day on SQLite), a refresh never gives a metric a query count of zero     *)
(* although a query whose first selector names it was stored within the     *)
(* window, whatever retention deleted meanwhile (syncer.go                  *)
(* syncCatalogAndSummary, retention.go runOnce).                            *)
InWindow(q) == /\ now - conf.window <= q.ts
               /\ TruncTo(q.ts, Second) < TruncTo(now, Second)
FirstSelector(q, n) == q.labelMatchers # <<>> /\ q.labelMatchers[1] = n
UsedNotCalledUnused ==
  [][(Refresh /\ conf.maxAge >= conf.window + Slack) =>
       \A n \in DOMAIN catalog :
         summary'[n].queryCount = 0 =>
           ~\E q \in history : FirstSelector(q, n) /\ InWindow(q)]_vars

(***************************************************************************)
(* What readers see in every reachable state.  The readers of buckets and  *)
(* listings below look neither at pending nor at jobs, and every state has *)
(* one like it without either (a batch fails, the index is not written     *)
(* yet), so it is enough to look at those.                                 *)
(***************************************************************************)
Settled == pending = {} /\ jobs = {}
Ask(tr) ==
  [from |-> tr.from, to |-> tr.to, page |-> Missing, pageSize |-> Missing,
   sortBy |-> "", sortOrder |-> "", filter |-> {}, name |-> Any, kind |-> "",
   fingerprint |-> Any, type |-> "", usage |-> "", unused |-> FALSE, job |-> Any]
Fingerprints == {q.fingerprint : q \in queries} \cup {Any}
Closing(tr) == {q \in queries : TruncTo(q.ts, Second) = TruncTo(tr.to, Second)}
Total(series, F(_)) == MapThenSumSet(LAMBDA b : F(series[b]), DOMAIN series)

(* The buckets of a time series neither lose nor repeat a query: their sums *)
(* are the totals that the query rate and the query types report for the    *)
(* same range, the closing second aside (GetQueryStatusDistribution,        *)
(* GetQueryThroughputAnalysis, GetQueryErrorAnalysis; on PostgreSQL only    *)
(* when a bucket is a minute wide).                                         *)
BucketsAddUp == Settled =>
  \A tr \in Ranges, f \in Fingerprints :
    LET r == [Ask(tr) EXCEPT !.fingerprint = f]
        d == [db EXCEPT !.queries = @ \ Closing(tr)]
        within == [d EXCEPT !.queries = {q \in @ : TruncTo(tr.from, Second) <= q.ts
                                                     /\ q.ts <= tr.to}]
        status == queryStatusDistribution(conf.provider, d, r, now)
        rate == queryRate(conf.provider, d, r, now)
    IN  (conf.provider = "sqlite" \/ GetInterval(tr) = Minute) =>
          /\ Total(status, LAMBDA b : b.status2xx) = OrZero(rate.successTotal)
          /\ Total(status, LAMBDA b : b.status4xx + b.status5xx) = OrZero(rate.errorTotal)
          /\ Total(queryErrorAnalysis(conf.provider, within, r, now), LAMBDA v : v)
               = OrZero(rate.errorTotal)
          /\ f = Any => Total(queryThroughputAnalysis(conf.provider, within, r, now), LAMBDA v : v)
                          = queryTypes(conf.provider, within, r, now).totalQueries

(* The answers to a request for a page of listing l, a pair of a kind and a *)
(* name or fingerprint.                                                     *)
Answers(l, tr, page, size) ==
  LET r == [Ask(tr) EXCEPT !.page = page, !.pageSize = size]
  IN  CASE l[1] = "catalog" ->
             seriesMetadata(conf.provider, db, [r EXCEPT !.type = "all", !.sortBy = "name"])
        [] l[1] = "expressions" ->
             queryExpressions(conf.provider, db, [r EXCEPT !.sortBy = "query"], now)
        [] l[1] = "executions" ->
             queryExecutions(conf.provider, db, [r EXCEPT !.fingerprint = l[2]], now)
        [] l[1] = "serie" ->
             serieExpressions(conf.provider, db,
                              [r EXCEPT !.name = l[2], !.sortBy = "queryParam"], now)
        [] OTHER ->
             GetMetricUsage(conf.provider, db,
                            [r EXCEPT !.name = l[2], !.kind = l[1], !.sortBy = "name"], now)
AllListings ==
  {<<"catalog", Any>>, <<"expressions", Any>>}
  \cup {"executions"} \X (Fingerprints \ {Any})
  \cup {"serie", "alert", "record", "dashboard"} \X Metrics

(* A reader who turns the pages of a listing sees every row once: the pages *)
(* up to the announced number have rows, none twice, as many as the         *)
(* announced total, and the next page is empty (CalculateTotalPages, the    *)
(* counting statements against the selecting ones).  A listing whose order  *)
(* leaves ties promises nothing, and neither does one of rules whose group  *)
(* and name, joined by '|' to be counted, do not tell them apart (rule c of *)
(* group a|b and rule b|c of group a): it announces fewer than it selects.  *)
CountedApart(l) ==
  \A r, s \in {u \in DOMAIN rules : <<u.kind, u.serie>> = l} :
    Joined[RuleKey(r)] = Joined[RuleKey(s)] => RuleKey(r) = RuleKey(s)
PagesPartition == Settled =>
  \A l \in {l \in AllListings : CountedApart(l)}, tr \in Ranges, size \in PageSizes :
    LET first == CHOOSE a \in Answers(l, tr, 1, size) : TRUE
        turned == UNION {{i} \X Answers(l, tr, i, size) : i \in 1..(first.totalPages + 1)}
        rows == UNION {t[2].data : t \in turned}
    IN  (\A t, u \in turned : t[1] = u[1] => t = u) =>
          /\ \A t, u \in turned : t # u => t[2].data \cap u[2].data = {}
          /\ \A t \in turned : t[2].data = {} <=> t[1] = first.totalPages + 1
          /\ Cardinality(rows) = first.total

(* While nothing has changed since a refresh, the metric that /metrics/     *)
(* unused and the catalog's unused filter report as unused is one for which *)
(* the usage, statistics and expression endpoints show nothing in the same  *)
(* window, queries of the closing second and queries that name it after     *)
(* another metric aside; a metric they report as used shows something, or a *)
(* query of the window's opening second, which PostgreSQL counts from its   *)
(* start and lists from the window's.  For every job on offer the two agree *)
(* about the metrics of that job.                                           *)
Opening(tr) == {q \in queries : TruncTo(tr.from, Second) <= q.ts /\ q.ts < tr.from}
Visible(d, n, tr) ==
  LET r == [Ask(tr) EXCEPT !.name = n]
      Shows(answers) == \A a \in answers : a.total > 0
      statistics == GetMetricStatistics(conf.provider, d, r, now)
  IN  \/ \E kind \in {"alert", "record", "dashboard"} :
           Shows(GetMetricUsage(conf.provider, d, [r EXCEPT !.kind = kind], now))
      \/ Shows(serieExpressions(conf.provider, d, r, now))
      \/ statistics.alertCount + statistics.recordCount + statistics.dashboardCount > 0
UnusedShowsNoUsage ==
  \A tr \in fresh, n \in DOMAIN catalog :
    LET Unused(job) == \E a \in metricsUnused(conf.provider, db, {n}, job) : a.unused
        Listed(job) == \E a \in seriesMetadata(conf.provider, db,
                                   [Ask(tr) EXCEPT !.type = "all", !.unused = TRUE, !.job = job]) :
                         \E m \in a.data : m.name = n
        plain == [db EXCEPT !.queries = {q \in @ \ Closing(tr) : FirstSelector(q, n)}]
    IN  /\ \A job \in listJobs(conf.provider, db) \cup {Any} : Unused(job) <=> Listed(job)
        /\ Unused(Any) => ~Visible(plain, n, tr)
        /\ ~Unused(Any) =>
             \/ Visible(db, n, tr)
             \/ conf.provider = "postgresql" /\ \E q \in Opening(tr) : FirstSelector(q, n)

(* Both providers answer alike from the same rows, for queries of one       *)
(* selector and rows outside the closing second, except where a range has   *)
(* no query (NULL and 0), in time series of buckets wider than a minute or  *)
(* of a range that ends before it starts, for range queries whose bounds    *)
(* have fractions (SQLite cuts them off before it takes the width, which    *)
(* PostgreSQL rounds), for the queries of a metric in the opening second,   *)
(* which only SQLite lists, and in listings sorted by a text, which SQLite  *)
(* sorts by its bytes and PostgreSQL by the collation of the database: the  *)
(* listings compared here have their default order.                         *)
IsWhole(t) == WholeSecond(t) = t
ProvidersAgree == Settled =>
  \A tr \in Ranges, n \in Metrics, f \in Fingerprints :
    LET r == [Ask(tr) EXCEPT !.fingerprint = f, !.sortBy = "duration"]
        named == [Ask(tr) EXCEPT !.name = n]
        d == [db EXCEPT !.queries = {q \in @ \ Closing(tr) : Len(q.labelMatchers) <= 1}]
        within == [d EXCEPT !.queries = {q \in @ : SQ!TsBetween(q, tr)}]
        later == [d EXCEPT !.queries = @ \ Opening(tr)]
        whole == [d EXCEPT !.queries = {q \in @ : q.type = "range" =>
                                          q.start < q.end /\ IsWhole(q.start) /\ IsWhole(q.end)}]
        some == \E q \in d.queries : SQ!TsBetween(q, tr) /\ HasFingerprint(q, f)
        inClosing(u) == TruncTo(u.first, Second) = TruncTo(tr.to, Second)
        Same(A(_)) == A("sqlite") = A("postgresql")
    IN  /\ some =>
             /\ Same(LAMBDA p : queryTypes(p, d, r, now))
             /\ Same(LAMBDA p : averageDuration(p, d, r, now).avgDuration)
             /\ Same(LAMBDA p : queryRate(p, d, r, now))
        /\ Same(LAMBDA p : queryTimeRangeDistribution(p, whole, r, now))
        /\ Same(LAMBDA p : queryExpressions(p, d, r, now))
        /\ f # Any => Same(LAMBDA p : {a.total : a \in queryExecutions(p, d, r, now)})
        /\ (GetInterval(tr) = Minute /\ tr.from <= tr.to) =>
             /\ Same(LAMBDA p : queryStatusDistribution(p, d, r, now))
             /\ Same(LAMBDA p : queryLatencyTrends(p, within, named, now))
        /\ Same(LAMBDA p : serieExpressions(p, later, named, now))
        /\ Same(LAMBDA p : GetMetricQueryPerformanceStatistics(p, d, named, now)
                             .performance.averageDuration)
        /\ (~\E u \in DOMAIN rules : inClosing(rules[u])) =>
             \A kind \in {"alert", "record"} :
               Same(LAMBDA p : GetMetricUsage(p, d, [named EXCEPT !.kind = kind], now))
        /\ (~\E u \in DOMAIN dashboards : inClosing(dashboards[u])) =>
             Same(LAMBDA p : GetMetricUsage(p, d, [named EXCEPT !.kind = "dashboard"], now))
=============================================================================
