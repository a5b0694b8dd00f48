----------------------------- MODULE OtlpExport -----------------------------
(***************************************************************************)
(* The write path of the OTLP ingester (internal/ingester/otlp): an Export *)
(* call looks up the usage of the metrics it carries, chunk by chunk, in   *)
(* the Redis cache and then in the database, drops the metrics that are    *)
(* unused, and forwards the rest downstream with one retry.  The rows of   *)
(* the usage summary and the cache change under its feet.  (The buffering  *)
(* of catalog entries that Export also does is module CatalogBuffer.)      *)
(***************************************************************************)
EXTENDS Naturals, FiniteSets, Sequences

CONSTANTS
  Metrics,      \* OTLP metrics: records [name, kind, job]
  Requests,     \* the metrics an Export call may carry
  Exports,      \* concurrent Export calls
  ChunkSize,    \* lookupChunkSize
  Cache,        \* "none", "all", or "usedOnly" (redis.used_only)
  AllowedJobs,  \* allowedJobs; {} allows every job
  DeniedJobs,   \* deniedJobs
  DryRun,       \* ingester.dry_run
  Downstream,   \* a downstream address is configured
  MaxChanges    \* bound: changes of the usage summary in a behaviour

Kinds == {"gauge", "counter", "histogram", "exponential", "summary"}

ASSUME ExportAssumption ==
  /\ \A m \in Metrics : m.kind \in Kinds /\ m.name \in Seq(STRING)
  /\ Requests \subseteq SUBSET Metrics
  /\ ChunkSize \in Nat \ {0} /\ MaxChanges \in Nat
  /\ Cache \in {"none", "all", "usedOnly"}
  /\ DryRun \in BOOLEAN /\ Downstream \in BOOLEAN

VARIABLES
  row,      \* row[n]: what the database says of the name n
  changes,  \* how often row has changed
  cache,    \* cache[n]: the unexpired metric_usage: entry of n
  pc,       \* pc[e]: where Export e is
  req,      \* req[e]: the metrics of its request
  todo,     \* todo[e]: names not yet looked up
  misses,   \* misses[e]: the names of its chunk the cache does not know
  verdict,  \* verdict[e][n]: what its lookup found out about n
  kept,     \* kept[e]: the metrics of the request after filtering
  sent,     \* sent[e]: its calls of the exporter that downstream accepted
  reply,    \* reply[e]: the answer to the client
  said      \* history: said[e][n], what was on record of n during its lookup

usageVars == <<row, changes>>
lookupVars == <<todo, misses, verdict>>
vars == <<usageVars, cache, pc, req, lookupVars, kept, sent, reply, said>>

(***************************************************************************)
(* Names.  A name is the sequence of its parts: a suffix that the ingester *)
(* appends or recognises is a part of its own wherever a name ends in it,  *)
(* so that names are equal when their texts are.  The gauge lat_sum, name  *)
(* <<"lat", "_sum">>, has the name of a variant of the histogram lat.      *)
(*                                                                         *)
(* prometheusMetricName gives a metric its base name; collectNamesAndCounts*)
(* adds the variants of classic histograms and of summaries, the series a  *)
(* Prometheus user queries.                                                *)
(***************************************************************************)
HasSuffix(name, suffix) == name # <<>> /\ name[Len(name)] = suffix
BaseName(m) ==
  IF m.kind = "counter" /\ m.name # <<>> /\ ~HasSuffix(m.name, "_total")
  THEN Append(m.name, "_total") ELSE m.name
HistogramVariants(b) == {Append(b, s) : s \in {"_bucket", "_count", "_sum"}}
SummaryVariants(b) == {Append(b, s) : s \in {"_count", "_sum"}}
NamesOf(m) ==
  {BaseName(m)} \cup CASE m.kind = "histogram" -> HistogramVariants(BaseName(m))
                       [] m.kind = "summary"   -> SummaryVariants(BaseName(m))
                       [] OTHER                -> {}
Named(ms) == {m \in ms : m.name # <<>>}
LookupNames(ms) == UNION {NamesOf(m) : m \in Named(ms)}
Names == LookupNames(Metrics)
BasesOf(ms, kind) == {BaseName(m) : m \in {x \in Named(ms) : x.kind = kind}}

(* The names whose use decides the fate of m: a histogram is queried by    *)
(* its variants only.                                                      *)
DecisiveNames(m) == IF m.kind = "histogram" THEN HistogramVariants(BaseName(m)) ELSE NamesOf(m)

Unknown == [n \in Names |-> "none"]

Init ==
  /\ row \in [Names -> {"none", "unused", "used"}] /\ changes = 0
  /\ cache = Unknown
  /\ pc = [e \in Exports |-> "idle"] /\ req = [e \in Exports |-> {}]
  /\ todo = [e \in Exports |-> {}] /\ misses = [e \in Exports |-> {}]
  /\ verdict = [e \in Exports |-> Unknown]
  /\ kept = [e \in Exports |-> {}] /\ sent = [e \in Exports |-> 0]
  /\ reply = [e \in Exports |-> "none"] /\ said = [e \in Exports |-> [n \in Names |-> {}]]

(***************************************************************************)
(* What database and cache have on record of a name, and the history of it *)
(* that every Export still looking up keeps.                               *)
(***************************************************************************)
CacheKnows(n) == cache[n] = "used" \/ (cache[n] = "unused" /\ Cache = "all")
Reports(n) == {row[n]} \cup IF CacheKnows(n) THEN {cache[n]} ELSE {}

LookingUp == {e \in Exports : pc[e] \in {"lookup", "query", "write"}}

Observe ==
  said' = [e \in Exports |-> [n \in Names |-> said[e][n] \cup
             IF e \in LookingUp /\ n \in LookupNames(req[e]) THEN Reports(n)' ELSE {}]]

(***************************************************************************)
(* The surroundings: metrics_catalog gets a row for n, a refresh of        *)
(* metrics_usage_summary finds n used or no longer used, a cache entry     *)
(* outlives its TTL.                                                       *)
(***************************************************************************)
SummaryChanges(n) ==
  /\ changes < MaxChanges /\ changes' = changes + 1
  /\ row' = [row EXCEPT ![n] = IF @ = "unused" THEN "used" ELSE "unused"]
  /\ UNCHANGED <<cache, pc, req, lookupVars, kept, sent, reply>>
  /\ Observe

(* Mutant of Expire: the entry of an unused name has no TTL. *)
ExpireUsed(n) ==
  /\ cache[n] = "used"
  /\ cache' = [cache EXCEPT ![n] = "none"]
  /\ UNCHANGED <<usageVars, pc, req, lookupVars, kept, sent, reply, said>>

Expire(n) ==
  /\ cache[n] # "none"
  /\ cache' = [cache EXCEPT ![n] = "none"]
  /\ UNCHANGED <<usageVars, pc, req, lookupVars, kept, sent, reply, said>>

(***************************************************************************)
(* Export, up to the lookup.  A request without a named metric is answered *)
(* at once.                                                                *)
(***************************************************************************)
Begin(e, ms) ==
  /\ pc[e] = "idle"
  /\ req' = [req EXCEPT ![e] = ms]
  /\ todo' = [todo EXCEPT ![e] = LookupNames(ms)]
  /\ kept' = [kept EXCEPT ![e] = ms] /\ sent' = [sent EXCEPT ![e] = 0]
  /\ said' = [said EXCEPT ![e] = [n \in Names |-> IF n \in LookupNames(ms) THEN Reports(n) ELSE {}]]
  /\ pc' = [pc EXCEPT ![e] = IF LookupNames(ms) = {} THEN "idle" ELSE "lookup"]
  /\ reply' = [reply EXCEPT ![e] = IF LookupNames(ms) = {} THEN "empty" ELSE "none"]
  /\ UNCHANGED <<usageVars, cache, misses, verdict>>

Step(e, next) == pc' = [pc EXCEPT ![e] = next]

(* lookupUnused returns, and its local state is gone. *)
EndLookup(e) ==
  /\ todo' = [todo EXCEPT ![e] = {}] /\ misses' = [misses EXCEPT ![e] = {}]
  /\ verdict' = [verdict EXCEPT ![e] = Unknown]

Reply(e, answer) ==
  /\ Step(e, "idle")
  /\ reply' = [reply EXCEPT ![e] = answer]

(***************************************************************************)
(* lookupUnused: the names, in any order, in chunks.  What the cache knows *)
(* of a chunk is taken from it, the rest is read from the database in one  *)
(* query and written back.  A cache that fails or times out knows nothing, *)
(* and single keys may fail.                                               *)
(***************************************************************************)
Chunks(e) ==
  {c \in SUBSET todo[e] : Cardinality(c) = ChunkSize \/ (c = todo[e] /\ Cardinality(c) < ChunkSize)}

(* Mutant of LookupCache: the batch is not emptied after a flush. *)
LookupCacheKeeps(e) ==
  /\ pc[e] = "lookup" /\ todo[e] # {}
  /\ \E c \in Chunks(e) : \E hits \in SUBSET {n \in c : CacheKnows(n)} :
       /\ verdict' = [verdict EXCEPT ![e] = [n \in Names |-> IF n \in hits THEN cache[n] ELSE @[n]]]
       /\ misses' = [misses EXCEPT ![e] = c \ hits]
       /\ Step(e, IF hits = c THEN "lookup" ELSE "query")
  /\ UNCHANGED <<usageVars, cache, req, todo, kept, sent, reply, said>>

LookupCache(e) ==
  /\ pc[e] = "lookup" /\ todo[e] # {}
  /\ \E c \in Chunks(e) : \E hits \in SUBSET {n \in c : CacheKnows(n)} :
       /\ verdict' = [verdict EXCEPT ![e] = [n \in Names |-> IF n \in hits THEN cache[n] ELSE @[n]]]
       /\ misses' = [misses EXCEPT ![e] = c \ hits]
       /\ todo' = [todo EXCEPT ![e] = @ \ c]
       /\ Step(e, IF hits = c THEN "lookup" ELSE "query")
  /\ UNCHANGED <<usageVars, cache, req, kept, sent, reply, said>>

(* GetSeriesMetadataByNames returns the names that have a catalog row. *)
SeriesMetadata(names) == [n \in {x \in names : row[x] # "none"} |-> row[n]]

QueryOK(e) ==
  LET metas == SeriesMetadata(misses[e]) IN
  /\ pc[e] = "query"
  /\ verdict' = [verdict EXCEPT ![e] = [n \in Names |-> IF n \in DOMAIN metas THEN metas[n] ELSE @[n]]]
  /\ Step(e, IF Cache = "none" THEN "lookup" ELSE "write")
  /\ UNCHANGED <<usageVars, cache, req, todo, misses, kept, sent, reply, said>>

(* Its failure ends the call: the client is told OK. *)
QueryFails(e) ==
  /\ pc[e] = "query"
  /\ Reply(e, "lookupFailed") /\ EndLookup(e)
  /\ UNCHANGED <<usageVars, cache, req, kept, sent, said>>

(* SetStates, best effort: any of the writes may fail. *)
WriteBack(e) ==
  LET cacheable == IF Cache = "all" THEN {"used", "unused"} ELSE {"used"}
      found == {n \in misses[e] : verdict[e][n] \in cacheable}
  IN
  /\ pc[e] = "write"
  /\ \E written \in SUBSET found :
       cache' = [n \in Names |-> IF n \in written THEN verdict[e][n] ELSE cache[n]]
  /\ misses' = [misses EXCEPT ![e] = {}]
  /\ Step(e, "lookup")
  /\ UNCHANGED <<usageVars, req, todo, verdict, kept, sent, reply>>
  /\ Observe

(***************************************************************************)
(* reconcileHistogramBases, reconcileSummaryBases: a histogram is unused   *)
(* when its three variants are, a summary when it and its two variants     *)
(* are.  A variant that was not found keeps the metric (fail open).  The   *)
(* verdict "unused" of a name goes to one place only: to the histogram it  *)
(* is a variant of, else to the summary of that name, else to the summary  *)
(* it is a variant of, else to the name itself.  ("used" may go to two, it *)
(* condemns nothing.)                                                      *)
(***************************************************************************)
(* Mutants of Unused: one unused variant condemns the histogram; the base  *)
(* name of a histogram must be unused too.                                 *)
UnusedAny(ms, found) ==
  {BaseName(m) : m \in {x \in Named(ms) : \E n \in DecisiveNames(x) : found[n] = "unused"}}

UnusedWithBase(ms, found) ==
  {BaseName(m) : m \in {x \in Named(ms) : \A n \in NamesOf(x) : found[n] = "unused"}}

VariantsOfHistograms(ms) == UNION {HistogramVariants(b) : b \in BasesOf(ms, "histogram")}
VariantsOfSummaries(ms) == UNION {SummaryVariants(b) : b \in BasesOf(ms, "summary")}

Unused(ms, found) ==
  LET histograms == BasesOf(ms, "histogram")
      summaries == BasesOf(ms, "summary")
      unused == {n \in Names : found[n] = "unused"}
      ofSummaries == unused \ VariantsOfHistograms(ms)
      plain == (ofSummaries \ summaries) \ VariantsOfSummaries(ms)
      unusedHistograms == {b \in histograms : HistogramVariants(b) \subseteq unused}
      unusedSummaries ==
        {b \in summaries : b \in ofSummaries /\ SummaryVariants(b) \subseteq ofSummaries \ summaries}
  IN  (((plain \ histograms) \cup unusedHistograms) \ summaries) \cup unusedSummaries

(* isUnusedDropActive *)
DropActive(job) == (AllowedJobs = {} \/ job \in AllowedJobs) /\ job \notin DeniedJobs

(* FilterExport with the predicate shouldDropUnused. *)
FilterExport(ms, unused) ==
  ms \ {m \in Named(ms) : BaseName(m) \in unused /\ DropActive(m.job)}

(* filterUnused, or countWouldDrop in a dry run, which changes nothing.    *)
Filter(e) ==
  /\ pc[e] = "lookup" /\ todo[e] = {} /\ EndLookup(e)
  /\ kept' = [kept EXCEPT ![e] = IF DryRun THEN @ ELSE FilterExport(@, Unused(req[e], verdict[e]))]
  /\ \/ Downstream /\ Step(e, "forward") /\ UNCHANGED reply
     \/ ~Downstream /\ Reply(e, "ok")
  /\ UNCHANGED <<usageVars, cache, req, sent, said>>

(***************************************************************************)
(* The export to the downstream, with one retry if it was unavailable and  *)
(* the time of the call is not over.  Downstream may have accepted a       *)
(* request whose answer is an error.                                       *)
(***************************************************************************)
Accepted(e, n) == sent' = [sent EXCEPT ![e] = @ + n]

ForwardOK(e) ==
  /\ pc[e] \in {"forward", "retry"}
  /\ Accepted(e, 1) /\ Reply(e, "ok")
  /\ UNCHANGED <<usageVars, cache, req, lookupVars, kept, said>>

ForwardFails(e) ==
  /\ pc[e] \in {"forward", "retry"}
  /\ \E n \in {0, 1} : Accepted(e, n)
  /\ \/ Reply(e, "error")
     \/ pc[e] = "forward" /\ Step(e, "backoff") /\ UNCHANGED reply
  /\ UNCHANGED <<usageVars, cache, req, lookupVars, kept, said>>

Backoff(e) ==
  /\ pc[e] = "backoff"
  /\ \/ Step(e, "retry") /\ UNCHANGED reply
     \/ Reply(e, "error")
  /\ UNCHANGED <<usageVars, cache, req, lookupVars, kept, sent, said>>

Export(e) ==
  \/ LookupCache(e) \/ QueryOK(e) \/ QueryFails(e) \/ WriteBack(e)
  \/ Filter(e) \/ ForwardOK(e) \/ ForwardFails(e) \/ Backoff(e)

Next ==
  \/ \E e \in Exports : Export(e) \/ \E ms \in Requests : Begin(e, ms)
  \/ \E n \in Names : SummaryChanges(n) \/ Expire(n)

Spec == Init /\ [][Next]_vars

(***************************************************************************)
(* Fairness: calls under way proceed (every external call has a timeout)   *)
(* and cache entries expire.  Nothing is assumed of the clients.           *)
(***************************************************************************)
FairSpec ==
  /\ Spec
  /\ \A e \in Exports : WF_vars(Export(e))
  /\ \A n \in Names : WF_vars(Expire(n))
-----------------------------------------------------------------------------
(* The values the variables range over; a name is looked up once, and a    *)
(* request is sent downstream at most twice.                               *)
TypeOK ==
  /\ row \in [Names -> {"none", "unused", "used"}] /\ changes \in 0..MaxChanges
  /\ cache \in [Names -> {"none", "unused", "used"}]
  /\ pc \in [Exports -> {"idle", "lookup", "query", "write", "forward", "backoff", "retry"}]
  /\ req \in [Exports -> SUBSET Metrics] /\ kept \in [Exports -> SUBSET Metrics]
  /\ todo \in [Exports -> SUBSET Names] /\ misses \in [Exports -> SUBSET Names]
  /\ verdict \in [Exports -> [Names -> {"none", "unused", "used"}]]
  /\ said \in [Exports -> [Names -> SUBSET {"none", "unused", "used"}]]
  /\ reply \in [Exports -> {"none", "empty", "ok", "lookupFailed", "error"}]
  /\ sent \in [Exports -> 0..2]
  /\ \A e \in Exports :
       /\ kept[e] \subseteq req[e] /\ misses[e] \cap todo[e] = {}
       /\ \A n \in todo[e] : verdict[e][n] = "none"

(* The lookup knows metrics by their base name only: it can tell m from    *)
(* the other metrics of a request ms unless one that it treats otherwise   *)
(* shares it.                                                              *)
Treatment(m) == IF m.kind \in {"histogram", "summary"} THEN m.kind ELSE "plain"
Unambiguous(ms, m) == \A x \in ms : BaseName(x) = BaseName(m) => Treatment(x) = Treatment(m)

(* Write-path filtering loses nothing that is in use: a metric is dropped  *)
(* only if dropping is on for its job and, unless its base name is         *)
(* ambiguous in the request, every name it is queried by was on record as  *)
(* unused during the lookup.  A name without a catalog row, a variant in   *)
(* another chunk, or a stale answer never turn into a drop.                *)
DropsOnlyUnused ==
  \A e \in Exports : \A m \in req[e] \ kept[e] :
    /\ ~DryRun /\ DropActive(m.job)
    /\ Unambiguous(req[e], m) => \A n \in DecisiveNames(m) : "unused" \in said[e][n]

(* Names whose verdict "unused" never reaches m because it goes to another *)
(* metric of the request: the gauge lat_sum beside the histogram or the    *)
(* summary lat, the summary lat_sum beside the histogram lat, and lat_sum, *)
(* a variant of the summary lat, beside a summary of that name.            *)
TakenFrom(ms, m) ==
  CASE m.kind = "histogram" -> {}
    [] m.kind = "summary" -> VariantsOfHistograms(ms) \cup (BasesOf(ms, "summary") \ {BaseName(m)})
    [] OTHER -> VariantsOfHistograms(ms) \cup VariantsOfSummaries(ms)

(* And it is complete: a metric all of whose names were on record as       *)
(* unused, and as nothing else, throughout the lookup is dropped, however  *)
(* the names fell into chunks, hits and misses, and even if a histogram or *)
(* summary has a gauge of the name of a variant beside it.  The exceptions *)
(* are names shared in the request: a base name that is ambiguous, and a   *)
(* name whose verdict another metric takes; such a metric may be kept for  *)
(* ever, although nothing uses it.                                         *)
DropsAllUnused ==
  \A e \in Exports : \A m \in Named(kept[e]) :
    /\ pc[e] \in {"forward", "backoff", "retry"} \/ reply[e] = "ok"
    /\ ~DryRun /\ DropActive(m.job) /\ Unambiguous(req[e], m)
    /\ DecisiveNames(m) \cap TakenFrom(req[e], m) = {}
    => \E n \in DecisiveNames(m) : said[e][n] # {"unused"}

(* Usage is honoured in the end: once the summary keeps saying that a      *)
(* metric is used, it is dropped no more, although the answers of earlier  *)
(* lookups are still being written to the cache.                           *)
UsageHonoured ==
  \A m \in Metrics :
    <>[](\E n \in DecisiveNames(m) : row[n] = "used")
      => <>[][\A e \in Exports : m \in kept[e] \ kept'[e] => req'[e] # req[e]]_vars

(* What the log message of a failing lookup and its test say, that drops   *)
(* are skipped: a request that is acknowledged to the client without a     *)
(* lookup has been forwarded.                                              *)
LookupFailureSkipsDrops ==
  \A e \in Exports : Downstream /\ reply[e] = "lookupFailed" => sent[e] > 0
=============================================================================
