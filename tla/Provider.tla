------------------------------ MODULE Provider ------------------------------
(***************************************************************************)
(* What the two storage providers share (internal/db/provider.go,          *)
(* common.go): the granularity of formatted times, default ranges,         *)
(* pagination, sorting, bucket widths, and the SQL aggregates their        *)
(* statements use.  Times are numbers of ticks; a name, an expression or a *)
(* fingerprint is a number that gives its place among the texts sorted by  *)
(* their bytes.                                                            *)
(***************************************************************************)
EXTENDS Integers, Sequences, FiniteSets, FiniteSetsExt

CONSTANTS
  Second,     \* ticks in a second: other times than its multiples have a fraction
  Collation,  \* text -> its place in the collation of the PostgreSQL database
  Joined      \* <<group, name>> -> the text group_name || '|' || name

ASSUME SecondAssumption == Second \in Nat \ {0}

Minute == 60 * Second
Hour == 3600 * Second
Day == 86400 * Second

Zero == -1           \* time.Time{}
Null == -1000000     \* SQL NULL in a numeric column
Any == 0             \* the empty string: no filter, no fingerprint, no name

(***************************************************************************)
(* Times.  TimeRange.Format and PrepareTimeRange print a bound without its *)
(* fraction of a second.                                                   *)
(***************************************************************************)
TruncTo(t, unit) == t - (t % unit)
WholeSecond(t) == TruncTo(t, Second)
Format(tr) == [from |-> TruncTo(tr.from, Second), to |-> TruncTo(tr.to, Second)]

PrepareTimeRange(tr) == Format(tr)

Previous(tr) == [from |-> tr.from - (tr.to - tr.from), to |-> tr.from]

SetDefaultTimeRange(tr, now) ==
  [from |-> IF tr.from = Zero THEN now - 30 * Day ELSE tr.from,
   to   |-> IF tr.to = Zero THEN now ELSE tr.to]

(* The width of a bucket of a time series over the range. *)
GetInterval(tr) ==
  LET duration == tr.to - tr.from
  IN  CASE duration <= 2 * Hour  -> Minute
        [] duration > 2 * Hour /\ duration <= 6 * Hour -> 5 * Minute
        [] duration > 6 * Hour /\ duration <= Day -> 15 * Minute
        [] duration > Day /\ duration <= 7 * Day -> Hour
        [] duration > 7 * Day /\ duration <= 30 * Day -> 6 * Hour
        [] duration > 30 * Day -> Day

(***************************************************************************)
(* Pagination and sorting.                                                 *)
(***************************************************************************)
MaxPageSize == 100

ValidatePagination(page, pageSize, defaultPageSize) ==
  [page |-> IF page <= 0 THEN 1 ELSE page,
   size |-> IF pageSize <= 0 THEN defaultPageSize
            ELSE IF pageSize > MaxPageSize THEN MaxPageSize ELSE pageSize]

(* The listings that do not bound the size of a page. *)
DefaultPagination(page, pageSize) ==
  [page |-> IF page <= 0 THEN 1 ELSE page,
   size |-> IF pageSize <= 0 THEN 10 ELSE pageSize]

(* Trimming and lower case are left out: a field is valid or it is not.     *)
(* The listings below leave out the columns the model has no values for.    *)
ValidateSortField(sortBy, sortOrder, validSortFields, defaultSort) ==
  [by  |-> IF sortBy \in validSortFields THEN sortBy ELSE defaultSort,
   dir |-> IF sortOrder = "asc" THEN "asc" ELSE "desc"]

(* Rules and dashboards check the field only.  By an order that is neither  *)
(* 'asc' nor 'desc' SQLite's CASE expressions sort nothing.                 *)
SortOrders == {"", "asc", "desc"}
CheckSortField(sortBy, sortOrder, validSortFields) ==
  [by  |-> IF sortBy \in validSortFields THEN sortBy ELSE "created_at",
   dir |-> CASE sortOrder = "asc" -> "asc"
             [] sortOrder \in {"", "desc"} -> "desc"
             [] OTHER -> "none"]

(* SQLite compares texts by their bytes, PostgreSQL by its collation. *)
TextColumns == {"name", "group_name", "expression", "queryParam", "query"}
OrderBy(sort, collated) ==
  [by |-> sort.by, dir |-> sort.dir, collated |-> collated /\ sort.by \in TextColumns]

NormalizeSeriesMetadataUsage(usage) ==
  IF usage \in {"all", "used", "unused"} THEN usage ELSE "all"

CalculateTotalPagesFloor(totalCount, pageSize) == totalCount \div pageSize  \* mutant
CalculateTotalPages(totalCount, pageSize) ==
  (totalCount + pageSize - 1) \div pageSize

(* ORDER BY ... LIMIT ... OFFSET.  Rows with equal keys come in any order,  *)
(* so a page is one of several: Firsts(n) holds the sets the first n rows   *)
(* may be.                                                                  *)
Place(order, r) == IF order.collated THEN Collation[r[order.by]] ELSE r[order.by]
Pages(rows, order, page) ==
  LET Before(r, s) == \/ order.dir = "desc" /\ Place(order, r) > Place(order, s)
                      \/ order.dir = "asc" /\ Place(order, r) < Place(order, s)
      Firsts(n) ==
        {Q \in SUBSET rows :
           /\ Cardinality(Q) = Min({n, Cardinality(rows)})
           /\ \A r \in Q, s \in rows \ Q : ~Before(s, r)}
      offset == (page.page - 1) * page.size
  IN  UNION {{P \ Q : Q \in Firsts(offset) \cap SUBSET P} :
               P \in Firsts(offset + page.size)}

(* A listing whose total is a column of its rows: a page without rows has   *)
(* none to read it from.                                                    *)
PagedByRows(rows, order, page) ==
  {LET total == IF P = {} THEN 0 ELSE Cardinality(rows)
   IN  [total |-> total, totalPages |-> CalculateTotalPages(total, page.size),
        data |-> P] : P \in Pages(rows, order, page)}

(* A listing that counts in a statement of its own. *)
PagedByCount(total, rows, order, page) ==
  {[total |-> total, totalPages |-> (total + page.size - 1) \div page.size,
    data |-> P] : P \in Pages(rows, order, page)}

(***************************************************************************)
(* SQL expressions.  ROUND(a / b, 2) is a number of hundredths.            *)
(***************************************************************************)
Round2(a, b) == IF a >= 0 THEN (200 * a + b) \div (2 * b)
                          ELSE -((200 * (-a) + b) \div (2 * b))
Avg(f(_), rows) ==
  IF rows = {} THEN Null ELSE Round2(MapThenSumSet(f, rows), Cardinality(rows))
Percent(n, total) == IF total = 0 THEN Null ELSE Round2(100 * n, total)
MaxOf(f(_), rows) == IF rows = {} THEN Null ELSE Max({f(r) : r \in rows})
LastQueriedAt(rows) == MaxOf(LAMBDA q : q.ts, rows)
Like(filter, v) == filter = {} \/ v \in filter  \* filter: what it matches

Duration(q) == q.duration
PeakSamples(q) == q.peakSamples
Samples(q) == q.samples
IsSuccess(q) == q.statusCode >= 200 /\ q.statusCode < 300
IsClientError(q) == q.statusCode >= 400 /\ q.statusCode < 500
IsServerError(q) == q.statusCode >= 500 /\ q.statusCode < 600
IsFailed(q) == q.statusCode >= 400
HasFingerprint(q, fingerprint) == fingerprint = Any \/ q.fingerprint = fingerprint

(***************************************************************************)
(* The parts of statements that both providers write alike.                *)
(***************************************************************************)
Keep(rows, P(_)) == {r \in rows : P(r)}
CountOf(rows, P(_)) == Cardinality(Keep(rows, P))
Ratio(n, total) == IF total = 0 THEN 0 ELSE Percent(n, total)
OrZero(v) == IF v = Null THEN 0 ELSE v

(* The change from the average of one set of queries to that of another. *)
DeltaPercent(current, previous) ==
  LET sum(rows) == MapThenSumSet(Duration, rows)
  IN  CASE previous = {} \/ sum(previous) = 0 -> 0
        [] previous # {} /\ sum(previous) # 0 /\ current = {} -> Null
        [] OTHER -> LET c == sum(current) * Cardinality(previous)
                        p == sum(previous) * Cardinality(current)
                    IN  Round2(100 * (c - p), p)

(* LEFT JOIN metrics_usage_summary, COALESCE(.., 0) *)
UsageOf(db, n) ==
  IF n \in DOMAIN db.summary THEN db.summary[n]
  ELSE [alertCount |-> 0, recordCount |-> 0, dashboardCount |-> 0,
        queryCount |-> 0, lastQueriedAt |-> Null]
MetricMetadata(db, n) ==
  LET u == UsageOf(db, n)
  IN  [name |-> n, type |-> db.catalog[n], alertCount |-> u.alertCount,
       recordCount |-> u.recordCount, dashboardCount |-> u.dashboardCount,
       queryCount |-> u.queryCount,
       lastQueriedAt |-> IF u.lastQueriedAt = Null THEN Null
                         ELSE TruncTo(u.lastQueriedAt, Second)]

HasType(type, wanted) ==
  \/ wanted = "all"
  \/ wanted = "histogram" /\ type \in {"histogram_bucket", "histogram_count", "histogram_sum"}
  \/ wanted = "summary" /\ type \in {"summary", "summary_count", "summary_sum"}
  \/ wanted \notin {"histogram", "summary"} /\ type = wanted

IsUsed(m) == \/ m.alertCount > 0 \/ m.recordCount > 0
             \/ m.dashboardCount > 0 \/ m.queryCount > 0
HasUsage(m, usage) == \/ usage = "all"
                      \/ usage = "used" /\ IsUsed(m)
                      \/ usage = "unused" /\ ~IsUsed(m)

RunsIn(db, n, job) == job = Any \/ <<n, job>> \in db.jobs

(* The rows of the catalog that a listing selects. *)
CatalogRows(db, p) ==
  {m \in {MetricMetadata(db, n) : n \in DOMAIN db.catalog} :
     /\ Like(p.filter, m.name)
     /\ HasType(m.type, p.type)
     /\ HasUsage(m, NormalizeSeriesMetadataUsage(p.usage))
     /\ RunsIn(db, m.name, p.job)}
CatalogPages(db, p, collated) ==
  LET rows == CatalogRows(db, p)
  IN  PagedByCount(Cardinality(rows), rows,
        OrderBy(ValidateSortField(p.sortBy, p.sortOrder,
                  {"name", "alertCount", "recordCount", "dashboardCount", "queryCount"},
                  "queryCount"), collated),
        DefaultPagination(p.page, p.pageSize))

(* One row per text of a query. *)
SerieQueryPages(rows, p, collated) ==
  LET Group(e) == {q \in rows : q.queryParam = e}
  IN  PagedByRows({[queryParam      |-> e,
                    avgDuration     |-> Avg(Duration, Group(e)),
                    avgPeakySamples |-> Avg(PeakSamples, Group(e)),
                    maxPeakSamples  |-> MaxOf(PeakSamples, Group(e))] :
                      e \in {q.queryParam : q \in rows}},
                  OrderBy(ValidateSortField(p.sortBy, p.sortOrder,
                    {"queryParam", "avgDuration", "avgPeakySamples", "maxPeakSamples"},
                    "avgDuration"), collated),
                  ValidatePagination(p.page, p.pageSize, 10))

(* One row per group and name of a rule: of its versions (expression,       *)
(* labels), one seen last.  The count joins the two into one text.          *)
RuleKey(r) == <<r.group_name, r.name>>
RulePages(db, rules, p, collated) ==
  LET overlapped == {r \in rules : /\ r.serie = p.serie /\ r.kind = p.kind
                                   /\ Like(p.filter, r.name) \/ Like(p.filter, r.expression)}
      latest(k) == {r \in overlapped : RuleKey(r) = k /\ \A s \in overlapped :
                      RuleKey(s) = k => db.rules[s].last <= db.rules[r].last}
      keys == {RuleKey(r) : r \in overlapped}
      Row(r) == [group_name |-> r.group_name, name |-> r.name,
                 expression |-> r.expression, created_at |-> db.rules[r].first]
  IN  UNION {PagedByCount(Cardinality({Joined[k] : k \in keys}), {Row(pick[k]) : k \in keys},
               OrderBy(CheckSortField(p.sortBy, p.sortOrder,
                 {"name", "group_name", "expression", "created_at"}), collated),
               ValidatePagination(p.page, p.pageSize, 10)) :
             pick \in {f \in [keys -> overlapped] : \A k \in keys : f[k] \in latest(k)}}

DashboardPages(db, keys, p, collated) ==
  LET overlapped == {k \in keys : k[2] = p.serie /\ Like(p.filter, db.dashboards[k].name)}
  IN  PagedByCount(Cardinality({k[1] : k \in overlapped}),
                   {[id |-> k[1], name |-> db.dashboards[k].name,
                     created_at |-> db.dashboards[k].first] : k \in overlapped},
                   OrderBy(CheckSortField(p.sortBy, p.sortOrder,
                     {"name", "created_at"}), collated),
                   DefaultPagination(p.page, p.pageSize))

(* One row per fingerprint, with the text of a latest query. *)
ExpressionRow(rows, f, query) ==
  LET group == {q \in rows : q.fingerprint = f}
  IN  [fingerprint |-> f, query |-> query, executions |-> Cardinality(group),
       avgDuration |-> Avg(Duration, group),
       errorRatePercent |-> Percent(CountOf(group, IsFailed), Cardinality(group)),
       peakSamples |-> MaxOf(PeakSamples, group)]
ExpressionPages(rows, p, collated) ==
  LET fps == {q.fingerprint : q \in rows}
      Latest(f) == {q.queryParam : q \in {q \in rows : q.fingerprint = f /\
                     \A r \in rows : r.fingerprint = f => r.ts <= q.ts}}
      Latests == {c \in [fps -> {q.queryParam : q \in rows}] :
                    \A f \in fps : c[f] \in Latest(f)}
  IN  UNION {PagedByRows({ExpressionRow(rows, f, c[f]) : f \in fps},
               OrderBy(ValidateSortField(p.sortBy, p.sortOrder,
                 {"query", "executions", "avgDuration", "errorRatePercent", "peakSamples"},
                 "executions"), collated),
               DefaultPagination(p.page, p.pageSize)) : c \in Latests}

(* The queries of one fingerprint, by the time Ts gives them. *)
ExecutionPages(rows, p, Ts(_)) ==
  PagedByRows({[id |-> q, ts |-> Ts(q), duration |-> q.duration,
                samples |-> q.samples, statusCode |-> q.statusCode] : q \in rows},
              OrderBy(ValidateSortField(p.sortBy, p.sortOrder,
                {"ts", "duration", "samples", "statusCode"}, "ts"), FALSE),
              ValidatePagination(p.page, p.pageSize, 10))

Labels == {"<24h", "24h", "7d", "30d", "60d", "90d+"}
LabelOf(seconds) ==
  CASE seconds < Day -> "<24h"
    [] seconds >= Day /\ seconds < 7 * Day -> "24h"
    [] seconds >= 7 * Day /\ seconds < 30 * Day -> "7d"
    [] seconds >= 30 * Day /\ seconds < 60 * Day -> "30d"
    [] seconds >= 60 * Day /\ seconds < 90 * Day -> "60d"
    [] seconds >= 90 * Day -> "90d+"
Distribution(rows, Width(_)) ==
  [l \in Labels |->
     LET count == Cardinality({q \in rows : LabelOf(Width(q)) = l})
     IN  [count |-> count, percent |-> Ratio(count, Cardinality(rows))]]

(* Rules are counted by row, dashboards by name. *)
Statistics(db, metricName, rules, dashboards) ==
  LET Of(kind) == {r \in rules : r.kind = kind}
      Names(ks) == {db.dashboards[k].name : k \in ks}
      Serie(r) == r.serie = metricName
  IN  [alertCount |-> CountOf(Of("alert"), Serie),
       recordCount |-> CountOf(Of("record"), Serie),
       dashboardCount |-> Cardinality(Names({k \in dashboards : k[2] = metricName})),
       totalAlerts |-> Cardinality(Of("alert")),
       totalRecords |-> Cardinality(Of("record")),
       totalDashboards |-> Cardinality(Names(dashboards))]
=============================================================================
