# A TLA+ model of prom-analytics-proxy

prom-analytics-proxy sits in front of Prometheus, records every query that
passes, relates queries, rules and dashboards to metrics, and (as `ingester`)
drops metrics nobody uses on their way to storage. This directory models the
parts of it that run concurrently or fail in interesting ways, checks them with
TLC on small instances, and proves what matters most with TLAPS for instances
of any size.

## 1. Inventory

| Component | State | Operations | Interacts with | Hard because of |
|---|---|---|---|---|
| Query ingester (`internal/ingester/queryIngester.go`) | `queriesC`, `closed`, `mu`, the batch | `Ingest`, `Run`, `drainWithGracePeriod`, `ingest` | HTTP handlers call `Ingest`; `Insert` of the storage provider | handlers racing with the close of the channel, a full channel, cancellation in the middle of a batch |
| Catalog buffer (`otlp/catalog_buffer.go`, `catalog_seen_cache.go`, `prometheus_names.go`) | `pending`, `seen`, Redis keys | `candidatesForBuffer`, `addBatch`, `drain`, `requeue`, `markFlushed`, `HasMany`, `MarkMany` | `Export` fills it, two flushers empty it into `metrics_catalog` | lock released between test and use, failing upserts, a bounded buffer, partial Redis failures |
| OTLP Export (`otlp/ingester.go`, `filter.go`, `metric_cache.go`, `downstream.go`) | per call: names, verdicts, the request; shared: the usage cache | `lookupUnused`, `filterUnused`, forward with one retry | usage rows, Redis, downstream | verdicts collected chunk by chunk from two sources that change, failures at each step |
| OTLP server lifecycle (`otlp/ingester.go` `Run`, `cmd/ingester`) | server and health status | start, drain delay, `GracefulStop`, `Stop`, last flush | catalog flusher, gRPC handlers | timeouts against late handlers |
| Leader election (`internal/inventory/leader_pg.go`) | advisory lock, session | `WithPGAdvisoryLeadership` | syncer, retention | a session that breaks while `fn` runs |
| Inventory syncer (`internal/inventory/syncer.go`) | none of its own | `runOnce`: catalog, summary, job index | Prometheus API, storage | a step that times out after an earlier one succeeded |
| Retention worker (`internal/retention`) | none of its own | `runOnce`: delete queries older than a cutoff | storage | ages against the window of the summary, two formats of times |
| Storage (`internal/db`) | tables `queries`, `metrics_catalog`, `metrics_usage_summary`, `RulesUsage`, `DashboardUsage`, `metrics_job_index` | inserts, upserts, refresh, lookups, analytics, in two SQL dialects | everything | transactions, SQLite's single writer and connection, ends of ranges, buckets and pages |
| HTTP routes (`api/routes`) | none | proxy, query push, usage push, analytics endpoints | query ingester, storage | deadlines between the transactions of one request, handlers that outlive the shutdown of the server |
| Run group (`cmd/api/run.go`) | actors | start, interrupt, wait | all of the API process | order of the interrupts |

Correctness in one line each. Query ingester: never panics, never loses,
repeats or reorders an accepted query on the way to `Insert`, always returns.
Catalog buffer: a name is suppressed only once it is stored, and leaves the
buffer only to the database or for lack of room. Export: drops a metric exactly
if it is on record as unused, and an acknowledged request has been forwarded.
Leadership: one leader, and always a next one. Syncer, retention and storage: a
used metric is never reported as unused, and what two endpoints or two
databases say of the same rows does not contradict itself. Usage push: what was
acknowledged is there, and every request and connection comes back.

The hazards are listed, each at its line, in `PROJECT.json`.

## 2. Modules

| Module | Models | Role |
|---|---|---|
| `IngestLog` | the promise of the query ingester | abstract specification |
| `QueryIngester` | `queryIngester.go` | component |
| `QueryIngesterProofs` | | theorems about it |
| `CatalogBuffer` | catalog buffering, flushing, the shutdown of `Run` | component |
| `CatalogBufferProofs` | | theorems about it |
| `MCCatalogBuffer` | | constants for TLC |
| `OtlpExport` | `Export`: lookup, filter, forward | component |
| `OtlpExportProofs` | | theorems about it |
| `MCOtlpExport` | | constants for TLC |
| `InventorySync` | `leader_pg.go` and `syncer.go` in several replicas | component |
| `InventorySyncProofs` | | theorems about it |
| `Provider` | `provider.go`, `common.go`, and what both dialects write alike | operators |
| `SqliteProvider` | the statements of `sqlite.go` | operators |
| `PostgresProvider` | the statements of `postgresql.go` | operators |
| `ApiRoutes` | the handlers of `routes.go` as functions of request and tables | operators, over both providers |
| `UsageStore` | the tables with everything that writes them, retention included | composition |
| `UsageStoreProofs` | | theorems about its types, retention and refresh |
| `UsageSummaryProofs` | | theorem about what readers see after a refresh |
| `UsageReaderProofs` | | theorems about buckets, pages and the two dialects |
| `MCUsageStore` | | constants for TLC |
| `UsagePush` | `PushMetricsUsage` with its transactions, several at a time | component, looks inside two writes of `UsageStore` |
| `UsagePushProofs` | | theorems about it |
| `MCUsagePush` | | constants for TLC |

`PROJECT.json` maps every definition to its lines. A definition whose comment
says *Mutant of* is not part of the model: it is a plausible defect of the
definition after it, and a property that does not notice the exchange would be
idle.

### QueryIngester

`hpc[q]` is the position in `Ingest` of the handler that proxied query `q`
(each handler calls it once), `rpc` the position of `Run`. `Ingest` is two
steps, because the read lock is held between the test of `closed` and the
send: `IngestEnter` (blocked while `Run` holds or waits for the write lock, as
a Go `RWMutex` does) and `IngestSend`, which drops when the channel is full.
The `select` of `Run` takes any ready case: `RunReceive`, `RunTick`,
`RunCtxDone`; then `RunClose` under the write lock and the drain. `Insert` is a
start and an end, so that the context can be cancelled in between; a failure is
only logged, and the batch is emptied either way (`Settle`). The content of a
query is abstracted to whether fingerprint and label matchers have been set
(`parsed`), which the drain does not do. `accepted`, `settled` and `stored` are
history variables. The timeout of an insert is part of `DBMayFail`.

### CatalogBuffer

An Export is at `idle`, `lookup` (Redis) or `add`; the buffer's mutex is
released between these steps. A flusher (the background goroutine `ticker`, or
`shutdown`) is at `idle`, `upsert`, `mark` or `requeue`. The suffixes of
histograms and summaries are modelled as the code adds them, since the
suppression of the base name decides about the variants. Expiry of suppression
is an action that may happen any time. `Run` goes from `serving` over
`stopping` (GracefulStop) to `stopped`, or to `abandoned` when handlers outlast
the timeout: `Stop` of the gRPC version used does not wait for them. `exited`
ends everything, whatever a goroutine was doing. Every metric keeps its OTLP
type, and a name is a pair of metric name and suffix: one name used with two
types, and a metric that has the name of another's variant, are left to
`OtlpExport`.

### OtlpExport

`row[n]` is what the lookup query finds of a name (`none`, `unused`, `used`),
and changes any time up to `MaxChanges` times; `cache[n]` is the Redis entry.
A name is the sequence of its parts, in which every suffix that the ingester
appends or looks for is a part of its own; two names are equal when their texts
are. So the gauge `lat_sum` has the name of a variant of the histogram `lat`,
the summary `lat` has the names of the histogram, and a counter that ends in
`_total` keeps its name. `lookupUnused` takes chunks in any order (the code
ranges over a map); for every chunk the cache answers for any subset of what it
holds, and the rest is one database query, then a best-effort write-back. The
state structs for histograms and summaries are `verdict`, and `Unused` is their
reconciliation: the verdict "unused" of a name goes to the histogram it is a
variant of, else to the summary of that name, else to the summary it is a variant
of, else to the name itself. `said` is a history variable: what database and cache had on
record of each name during the lookup. Reading the keys of one chunk from Redis
is one step. The catalog buffering that `Export` does before the lookup touches
none of this state and is `CatalogBuffer`'s.

### InventorySync

`pc[r]` is the position of the actor of replica `r`: `acquire` and `standby` in
`WithPGAdvisoryLeadership`, `wait` between two runs of the syncer, `catalog`,
`summary`, `refresh` and `jobs` inside one. `holder` is the replica whose
session holds the advisory lock. The lock goes with the session and not with
the actor: it survives the return of `fn` until the process ends, it survives
the process until the server notices (`Dead`), and it is gone when the session
breaks while `fn` runs (`lost`). The refresh of the summary is one SQL statement
modelled as a read and a write, because statements of two replicas may overlap;
`orphan` is one that the server executes although its client has given up or
crashed (one at a time). Usage is a set of names; how it is computed is left to
`UsageStore`.

### Provider, SqliteProvider, PostgresProvider

Every operation of the interface `Provider` is an operator that takes the tables
(a record `db`) and returns the new table or the set of possible answers; the
set has several members where the SQL leaves the order of rows open (`Pages`).
Times are ticks, `Second` to a second (four in the runs), so that a time may
have a fraction and the formats of `PrepareTimeRange`, which cut it off, do
something. Names, texts and fingerprints are numbers that stand for their place
among the texts sorted by their bytes; 0 is the empty text. `Collation` gives the
place of a text in the collation of the PostgreSQL database, which may be any, and
`Joined` the text into which a rule's group and name are joined.
`ROUND(x, 2)` is a number of hundredths.

What the dialects do differently is kept. SQLite stores a `time.Time` as the
text of `time.Time.String` and compares texts: a row of the second that closes
a range is beyond its end (`TsBetween`), a comparison through `julianday` is not
(`JulianBetween`), and the cutoff of `DeleteQueriesBefore`, printed as RFC3339,
is beyond every text of its own day. PostgreSQL compares instants, its time
series is half open, and a bucket wider than a minute collects only the queries
of its first minute (`InBucket`), because the statement groups by minute and
joins on the start of the bucket. SQLite finds a metric by the first selector of
a query, PostgreSQL's metric endpoints by any selector (`MetricMatches`); both
summaries by the first (`FirstName`). By a column of texts SQLite sorts in the
order of bytes and PostgreSQL by the collation (`OrderBy`, `Place`).

Rules are selected by group and name (`RuleKey`), the version seen last of each,
and counted by the joined text, as the statements do (`RulePages`). Listings of
rules and dashboards check the field they are sorted by and not the order
(`CheckSortField`): by another order than `asc` and `desc` SQLite sorts nothing,
and PostgreSQL's statement fails with status 500.

Left out: columns by which no property tells rows apart (help, unit, the url of a
dashboard, the labels of a rule, headers), upper case in the order of a listing
(which PostgreSQL takes and SQLite does not), percentiles, and the difference
between NULL and an absent row in JSON.

### ApiRoutes

One operator per handler: parameters with their defaults and errors (`Missing`,
`Bad`), then the call of the configured provider. `validateQuery` and
`queryPush`, `query` and `query_range` give what is handed to `Ingest`. An absent
`from` or `to` is the current time, as `getTimeParam` has it, so that a request
without them asks for an empty range; the defaults of thirty days in the
providers are reached by no handler.

### UsageStore

The tables, the clock and `pending`, the queries handed to `Ingest` and not yet
inserted. Every write is one step here; `QueryIngester`, `CatalogBuffer`,
`InventorySync` and `UsagePush` look inside them. `conf` is the deployment:
database, window of the summary, retention age. `Retention` may run at any time;
a run that fails is a stuttering step. `history` (every query ever inserted) and
`fresh` (the range of the last refresh while nothing it reads has changed) are
history variables. Reads do not change the state: the invariants evaluate them
in every reachable state.

### UsagePush

`pc[p]` follows a request of client `p`: `call` (about to call the insert of the
current table), `begin` (waits for a connection), `exec` (writes its rows one by
one), `commit`, `fail`. On SQLite a call holds the mutex `mu` throughout and the
pool has one connection; on PostgreSQL calls run side by side, and a row that
another open transaction has written is locked. `ctx[p]` ends by the deadline,
with the client, or by the deferred `cancel`. An error in the loop leaves the
transaction open (`tx[p]`): the `err` the deferred function looks at is the outer
one, which is nil. `database/sql` rolls it back once the context is done, and
only then does the connection return (`Rollback`). A failing commit may have
succeeded on the server. Metrics and rows come in any order, as Go's maps give
them.

## 3. Runs

| Run | Expect | Shows |
|---|---|---|
| `query_ingester` | pass | four handlers, channel 2, batch 2, failing inserts, cancellation any time: no send on the closed channel, FIFO conservation, nothing stranded, refinement of `IngestLog`, termination |
| `query_ingester_grace` | violation | the grace period does not cover the batch in hand (finding) |
| `catalog_memory` | pass | two Exports, a summary and a gauge, one request with the gauge twice, buffer 3: suppression is sound, variants go with their base name, no silent loss, capacity |
| `catalog_redis` | pass | partial Redis failures, buffer 1: suppression is sound, queued names get stored, shutdown ends |
| `catalog_shutdown` | violation | the last flush does not wait for the background flusher (finding) |
| `export_filter` | pass | histogram or summary, or both under one name, and a gauge with the name of a variant, in chunks of 2 with cache, a denied job, one change of the summary: only and all unused metrics are dropped, unless metrics of the request share a name |
| `export_freshness` | pass | two Exports sharing the cache, four changes: usage is honoured in the end |
| `inventory_sync` | pass | two replicas and three faults: one leader while sessions hold, the summary catches up with the usage in the end |
| `export_lookup_failure` | violation | a failing lookup discards the request (finding) |
| `usage_store` | pass | both databases, three instants around a minute and a midnight, two rows of queries, rules and dashboards, a collation that is not the order of bytes: buckets add up, pages partition a listing, "unused" agrees with the other endpoints, the databases agree, retention is exact and hides no query from the summary |
| `retention_age` | violation | SQLite's retention deletes younger queries (finding) |
| `usage_push` | pass | two clients on either database, one fault, deadlines: presence windows, acknowledged usage, termination of requests and return of connections |

Bounds. Four queries fill a batch of two and a channel of two, with one left
over for the full channel or the partial last batch. A buffer of three does not
hold the four names of the two metrics, so that it overflows in `addBatch` and
in `requeue`; `catalog_redis` has two names and room for one. Chunks of two
split the four names of a histogram and leave a partial chunk for a summary.
One change during a lookup suffices to make chunks disagree; four let a name
become used, unused and used again between two write-backs. The request with a
histogram and a summary of one name is the ambiguous one that `Unambiguous`
sets aside, and the gauge `lat_sum` beside either the one that `TakenFrom` does;
alone, and for the histogram and the summary beside it, the properties hold in
full. Three faults are a
crash or broken session of a leader, a failed call of its successor, and one
more. `Exports` is
symmetric in `catalog_memory`, which checks no liveness.

In `usage_store` the first two instants are exactly one window apart, the second
is in another minute and the third on the next day; the first has a fraction of a
second, a quarter. The retention age is the smallest at which both databases keep
the window, a day more than it on SQLite. A third deployment, on
PostgreSQL, has a window that opens a quarter of a second after the first instant,
so that a query of its opening second lies outside it. Of the two ranges
asked for, one begins a quarter of a second after the first instant, so that a
query lies in its opening second, ends in the middle of a minute and has
minute-wide buckets; the other ends in a row's own second and has wider ones.
Pages have one or two rows (`PageSizes`). Two rows fill two pages of one row, one
page of two, and make two queries of one metric or of two, two versions of a rule, a rule name in
two groups, a group with two rules, and two rules that are joined to one text.
The collation exchanges two texts, of metrics, queries, rules and dashboards.
In `usage_push` two rules suffice for row locks taken in opposite
orders, the second body has a metric without rows and a dashboard, and a request may live for one tick of a clock of two.

Deadlock is checked in all runs but these: in `usage_store`, `retention_age` and
`usage_push` clock, rows and requests are bounded, and a state in which they are
used up has no successor. In the others an ended process stutters by an explicit
action.

Fairness. `QueryIngester`: weak fairness of `Run` and of every call of
`Ingest` (goroutines are scheduled, the ticker ticks, inserts end because
their context has a timeout); nothing is assumed of cancellation or of the
grace timer. `CatalogBuffer`: weak fairness of the flusher and of shutdown
(ticker and timeouts fire), and strong fairness of `UpsertOK("ticker")` - a
database that fails every flush for ever stores nothing; Exports may hang.
`OtlpExport`: calls under way proceed because every external call has a
timeout, and cache entries expire because they are written with a TTL; clients
may stop exporting. `InventorySync`: weak fairness of each replica, of its
restart and of the server's clean-up of dead sessions, and strong fairness of
leaving `runLoop` once the context is cancelled, as Go's `select` chooses among
ready cases at random. Failing calls are faults, and faults are bounded.
`UsagePush`: handlers go on and the database answers a commit (weak fairness of
`Handle`); Go's mutex hands itself over to a waiter that has starved (strong
fairness of `Enter`); time passes and timers fire; a call whose context is done
returns; and `database/sql` runs the goroutine that rolls back. Nothing is
assumed of a statement that waits for a connection or a row: it may wait until
its deadline.

### Findings

1. `-insert-grace-period` promises to insert pending queries after shutdown.
   After the cancellation `Run` may still receive or tick, and an insert may be
   under way: these use the cancelled context and lose the batch.
2. `FlushCatalog` is said to lose no buffered entries on shutdown. Nothing
   joins the background flusher: names it has drained vanish with the process.
3. A failing lookup is logged as skipping drops, and a test named *FailOpen*
   says so. The call returns before forwarding: the request is lost, with OK.
4. `-retention-queries-max-age` is the maximum age before deletion. SQLite's
   retention deletes the whole calendar day of the cutoff, up to a day too early,
   because the text of the cutoff and the stored texts have different formats.

### Deviations noted on the way

The properties are stated around these.

* One request with a histogram and another metric of the same name drops both
  when the histogram is unused: the verdict is kept by name.
* A metric with the name of a variant of a histogram or summary in the same
  request (a gauge `lat_sum` beside the histogram `lat`) is kept although nothing
  uses it, because its verdict goes to the histogram only. So is a summary `lat`
  beside a summary `lat_sum`. `DropsAllUnused` names the exception (`TakenFrom`).
* The rules of a metric are counted by kind, group and name joined with `|` and
  selected by the columns. Rule `c` of group `a|b` and rule `b|c` of group `a` are
  one in the total and two among the rows, and the last page may not be announced.
  `PagesPartition` names the exception (`CountedApart`).
* SQLite sorts texts by bytes, PostgreSQL by the collation of the database: pages
  of a listing sorted by name differ where names mix upper and lower case.
  `ProvidersAgree` compares listings in their default order, of numbers and times.
* The order of listings of rules and dashboards is not checked: an unknown one
  gives unsorted rows on SQLite and an error on PostgreSQL.
* A full buffer drops the variants of a metric one by one, and the suppression of
  the base name hides that until it expires. Queries that the drain stores at
  shutdown count for no metric.
* `WithPGAdvisoryLeadership` lets `fn` go on when the session that holds the lock
  breaks, and another replica becomes a second leader. `OneLeader` excludes it,
  `SummaryConverges` shows that the summary survives it.
* PostgreSQL's time series over more than two hours show only the first minute
  of each bucket.
* The summary counts a query for its first selector only; PostgreSQL's metric
  endpoints count it for all.
* On PostgreSQL a slow push can set `last_seen_at` back, even before
  `first_seen_at`, by less than the push timeout. Two pushes of the same rules may
  deadlock, and one then fails.
* A failed push has stored a prefix of its metrics. Repeating it is harmless.
* Listings sorted by a column with equal values may show a row on two pages. A
  page beyond the end reports a total of 0 where the total is a column.
* `MaxPageSize` does not bound dashboards and query expressions.
* `GetMetricStatistics` counts dashboards by name, the summary by id.
* PostgreSQL's refresh counts from the whole second in which the window begins,
  the listing of a metric's expressions from the instant: a query of that second
  makes a metric used that shows no use. The proof of `UnusedShowsNoUsage`
  brought this to light; TLC meets it with instants in quarters of a second.
* The labels of the distribution of range queries are chosen by a width between
  whole seconds on SQLite, by the rounded width on PostgreSQL; a query that ends
  where it starts is counted by SQLite only.
* For a range that ends before it starts, SQLite's time series have a bucket and
  PostgreSQL's have none.
* SQLite lists the expressions of a metric from the whole second in which the
  range begins, PostgreSQL from the instant.
* `averageSamples` of a metric is an average of peak samples on SQLite.
* A listing of series without `type` finds only metrics without one.

## 4. Proofs

`QueryIngesterProofs` proves, for any set of handlers, any buffer and batch
size and any behaviour of the database:

* `TypeCorrect`: `TypeOK` is inductive by itself. Its last conjunct, that the
  batch has room wherever `Run` adds to it, carries the bound of the batch.
* `NoPanic`, `Conservation`, `NothingStranded`, `ParsedUntilClosed`, all from
  the inductive invariant `IInv`. It adds to the properties what the position
  of `Run` says: the channel is closed exactly in the drain and after it; after
  `Run` nothing is left in channel and batch; before the close everything in
  the batch has been parsed; a query in `accepted` belongs to a handler that
  has returned; a batch being flushed is not empty. `TakeConcat` is the fact
  about sequences behind conservation: receiving moves the boundary between
  batch and channel.
* `Refinement`: `Spec => Log!Spec`. `IngestSend` maps to `Offer` (the handler
  calls `Ingest` once, by `IInv`), the end of an insert to `SettleBatch` (the
  batch is the next piece of the log, by conservation), `RunClose` to `Close`,
  everything else to stuttering.

`CatalogBufferProofs` proves, for any metrics, requests, Exports and buffer size, in
memory and with Redis, from the inductive invariant `BufferInv`:

* `TypeCorrect`, with the capacity: `addBatch` and `requeue` add as many names as
  fit, and the rest is counted out (`Fits`).
* `SuppressionIsSafe` (`SeenIsStored`). The strengthening is that what a flusher is
  about to mark is stored, and so is what Redis told an Export (`known`).
* `VariantsFollowBase` (`SuppressedVariantsStored`). The property speaks of base
  names in `seen`; `Together` speaks of every name that is stored or held: while
  the buffer was never full, if one name of a metric is, all of them are. It is
  inductive because a metric's names are candidates together, and a name that
  `addBatch` skips is stored or held already.
* `NothingLostSilently` (`NoSilentLoss`), an action property, action by action.

`OtlpExportProofs` proves, for any metrics, requests, chunk size and number of
concurrent calls, `TypeCorrect`, `FilterIsSafe` (`DropsOnlyUnused`) and
`FilterIsComplete` (`DropsAllUnused`). Calls share only rows and cache, so
`ExportInv` is a conjunction over calls. While a call looks up, everything now on
record of its names is in `said` (`LookupOK`, which a changed row or cache entry
keeps); a verdict was on record, and a missing verdict of a name that has been
looked up means that its absence was (`VerdictOK`). The lemmas about the filter
then say what `Unused` concludes from verdicts, per kind of metric, for any names:
nothing is assumed of which are equal. Soundness needs that a verdict condemns only
the metric it goes to; completeness, that it reaches the metric, hence `TakenFrom`.

`InventorySyncProofs` proves `LeadershipIsExclusive` (`OneLeader`) for any
number of replicas and faults. `OneLeader` speaks of pairs of replicas and is
not inductive; `LeaderHolds`, that a syncing replica with an unbroken session is
the holder, is, together with the types of `pc` and `lost`. `TypeCorrect` adds the
statements under way (`SyncInv`): a refresh has read names of the catalog, and the
catalog only grows, so a late or orphaned write still gives the summary rows of
catalogued names only.

`UsageStoreProofs` proves for every deployment, set of instants, request, push and
bound, on both databases:

* `RetentionIsExact` (`RetentionHonoursAge`). Only `Retention` shrinks the table
  (`OnlyRetentionDeletes`), and what it deletes lies before the cutoff or, on
  SQLite, before the end of its day (`Deletion`, from `TruncBounds` about the
  remainder).
* `SummaryMissesNoQuery` (`UsedNotCalledUnused`), with the inductive invariant
  `StoreInv`: a query that was ever stored has a time not in the future and is
  still in the table unless it is older than the retention age, less a day on
  SQLite; queries on their way (`pending`) carry a time not in the future. The
  clock only makes the disjunct about age truer, so it is inductive, while the
  property itself, about one refresh, is not a state predicate at all.
  `WindowIsRead` then shows that every query of the window passes the comparison
  of the dialect, `RefreshCounts` that a count of zero means there is none.

* `TypeCorrect`, from `TableTypes`: numbered rows of queries whose times have
  passed, rules and dashboards that were pushed, a summary of catalogued names.

`UsageSummaryProofs` proves `UnusedIsTrue` (`UnusedShowsNoUsage`), which relates
five endpoints to the refresh. `SummaryInv` adds `SummaryExact` to `StoreInv` and
`TableTypes`: as long as `fresh` holds the range of the last refresh, the counts of
the summary are the cardinalities of what the tables have in it, for rules of each
kind, dashboards and queries, in the comparison of the dialect. A step that changes
one of the tables empties `fresh`; one that does not leaves the counts right. From
there on it is about one state. `CountedIsListed` and `ListedIsCounted` compare
the ranges of the refresh with those of the listings. The total of a listing
is zero exactly if it has no rows (`TotalOfRows`). For the endpoint that lists
unused series, the metric must be on some first page: `SubsetOfSize`, by a
bijection and no induction, builds a page around a row that ties with all others
(`TiedRowOnFirstPage`).

`UsageReaderProofs` proves what the statements answer, for any tables, ranges and
page sizes, on both databases, from the invariant `ReaderInv` (`SummaryInv`, and
that stored queries, rules and dashboards have the columns their writers gave them):

* `BucketsAreExact` (`BucketsAddUp`). The buckets are `Starts` of an interval; the
  lemmas `SqliteCovers`, `PostgresCovers` and `StartsApart` say that each query of
  the range is in exactly one (`HeldOnce`), from facts about remainders alone.
  `CountsAddUp` then turns sums over buckets into one cardinality.
* `PagesAreAPartition` (`PagesPartition`). `MoreRows` builds the first rows of an
  order one by one, so that every page exists (`PageExists`); where no order is open,
  the pages up to `i` hold the first `i` times size rows (`PagesAreCutInOrder`), and
  the announced number of pages is the number needed (`PagesNeeded`). One lemma
  per listing (`CatalogListing` to `DashboardsListing`) shows that its answers are
  such pages, and that the statement that counts and the one that selects
  speak of the same rows. Of rules that takes `CountedApart`: the joined texts are
  as many as the keys (`JoinedApart`, `RuleCellsCount`). The lemmas hold for every
  collation (`TextOrders`).
* `ProvidersAnswerAlike` (`ProvidersAgree`). Outside the closing second, the four
  comparisons that the dialects make select the same rows (`RangeFacts`,
  `SameOverlaps`, `SameMatches`), in minute-wide buckets too (`SameBuckets`). From
  the same rows both compute the same expressions, one lemma per request, and by a
  column of numbers they sort alike (`SameOrders`). The proof
  brought to light three of the deviations in section 3 (labels, reversed ranges,
  the opening second of expressions), and the statement now names them.

Both sums and pages need induction. The library's induction theorems are out of the
provers' reach, but that `<` is well-founded on the naturals is not: it gives a
least element of any set of naturals (`LeastNatural`), hence induction over the
members of a set (`NaturalsAreInductive`), where the statement to prove is a set and
no operator. The value of a fold is handled as a function on the subsets of a
finite set (`IsSum`), which exists by that induction (`SumExists`).

`UsagePushProofs` proves, for any clients, bodies, pool sizes, timeouts and faults
on either database, from the inductive invariant `PushInv`:

* `TypeCorrect`: in particular no more connections are out than the pool has, no
  row is locked by two transactions, and SQLite's mutex is held by exactly the
  push inside a call.
* `WindowIsAWindow` (`PresenceWindow`) and `AcknowledgedIsSeen` (`AckedUsageSeen`).
  Neither is inductive, since a transaction under way has yet to write. Both say
  that a row is last seen no earlier than certain instants, its `Claims`: its
  `first_seen_at`, every acknowledged push, and the start of every push under way
  that has committed it. `ClaimsMet` says so of the stored rows, `LocksMeetClaims`
  of the stamp of whoever holds the row's lock, up to `Lag`: zero under SQLite's
  mutex, where nothing is written between stamp and commit (`StampIsLatest`), the
  push timeout on PostgreSQL, because a live context is at most that old
  (`TimesOK`).

Assumptions on the constants are `ConstAssumption`, `CatalogAssumption`,
`ExportAssumption`, `SyncAssumption`, `PushAssumption`, and in the store
`SecondAssumption`, `ConfigsAssumption`, `InstantsAssumption`, `WindowsAssumption`
(the clock starts later than one window after its origin), `MetricsAssumption`
(names are not empty), `TextsAssumption`, `MatchersAssumption`,
`RequestsAssumption`, `PushesAssumption`, `RowsAssumption`, `CollationAssumption`,
`ReadersAssumption` and `MaxRowsAssumption`, named in the modules. They type the constants, and ask that a
push is finite, that chunk, buffer, batch and page are not empty, and that status
codes are codes of HTTP.

Only model-checked: the liveness properties, because fairness is out of the prover's
reach (`ShutdownTerminates`, `IngestReturns`, `AcceptedIsSettled`, `QueuedIsStored`,
`UsageHonoured`, `SummaryConverges`, `PushReturns`, `ConnectionsReturn`). Every
invariant and every other action property of a passing run is a theorem.

## 5. Plan

1. `UsageSystem`: Export over `UsageStore` and `InventorySync`, where a name is
   catalogued by the ingester before a refresh has counted its use.
2. Health status and drain delay of the OTLP server.

## 6. Not modelled

* The PromQL fingerprint: a rewriting of syntax trees by the Prometheus parser
  and a hash, without state. `UsageStore` takes it as a function of the text.
* Configuration, logging, tracing, migrations, errors: start-up code without
  concurrency.
* The reverse proxy, its pass-through paths, the UI and the configuration
  endpoint: input and output without state of their own.
* `internal/ingester/query`: a copy of the query ingester that neither command
  uses.
* Generated documentation, the demo and the TypeScript front end.
