--------------------------- MODULE CatalogBuffer ---------------------------
(***************************************************************************)
(* How the OTLP ingester feeds metrics_catalog: Export calls put the names *)
(* they see into a bounded buffer (catalog_buffer.go), a background        *)
(* flusher writes the buffer to the database every flush interval, and the *)
(* shutdown of Run flushes once more (ingester.go).  A name is suppressed  *)
(* for SeenTTL after a flush, by an in-memory map or by Redis              *)
(* (catalog_seen_cache.go).                                                *)
(***************************************************************************)
EXTENDS Integers, Sequences, FiniteSets

CONSTANTS
  Metrics,     \* OTLP metrics
  Kind,        \* Kind[m]: its OTLP data type
  Requests,    \* the metric lists an Export call may carry
  Exports,     \* concurrent Export calls
  BufferSize,  \* catalog_sync.buffer_size
  Remote       \* TRUE: the seen state is in Redis, FALSE: in memory

ASSUME CatalogAssumption ==
  /\ Kind \in [Metrics -> {"gauge", "counter", "histogram", "summary"}]
  /\ Requests \subseteq Seq(Metrics)
  /\ BufferSize \in Nat \ {0}
  /\ Remote \in BOOLEAN

VARIABLES
  pending,   \* catalogBuffer.pending: names queued for the next flush
  seen,      \* unexpired entries of catalogBuffer.seen
  remote,    \* unexpired catalog_seen: keys of Redis
  catalog,   \* names in the metrics_catalog table
  epc,       \* epc[e]: where Export e is in bufferCatalogEntries
  cand,      \* cand[e]: its candidates, by their place in the request
  known,     \* known[e]: its remotelySeenNames
  fpc,       \* fpc[f]: where flusher f is in flushCatalog
  items,     \* items[f]: the names f has drained
  server,    \* where Run is
  ctxDone,   \* the context of Run and of the background flusher is cancelled
  overflow,  \* history: a name was dropped because the buffer was full
  clean      \* history: GracefulStop ended in time, the last flush succeeded

exportVars == <<epc, cand, known>>
flushVars == <<fpc, items>>
stores == <<seen, remote, catalog>>
vars == <<pending, stores, exportVars, flushVars, server, ctxDone, overflow, clean>>

Flushers == {"ticker", "shutdown"}

(***************************************************************************)
(* prometheusMetricName and prometheusCatalogItems: a name is the metric   *)
(* and the suffix the OTLP translation gives it, the base name first (a    *)
(* counter that already ends in _total counts as the one that does not).   *)
(* Names of different metrics are different here.                          *)
(***************************************************************************)
NameSuffixes(kind) ==
  CASE kind = "gauge"     -> <<"">>
    [] kind = "counter"   -> <<"_total">>
    [] kind = "histogram" -> <<"", "_bucket", "_sum", "_count">>
    [] kind = "summary"   -> <<"", "_sum", "_count">>

CatalogItems(m) == [i \in 1..Len(NameSuffixes(Kind[m])) |-> <<m, NameSuffixes(Kind[m])[i]>>]
MetricName(m) == CatalogItems(m)[1]
NamesOf(m) == {CatalogItems(m)[i] : i \in 1..Len(CatalogItems(m))}
Names == UNION {NamesOf(m) : m \in Metrics}

InFlight == items["ticker"] \cup items["shutdown"]
Held == pending \cup InFlight
Room == BufferSize - Cardinality(pending)

Init ==
  /\ pending = {} /\ seen = {} /\ remote = {} /\ catalog = {}
  /\ epc = [e \in Exports |-> "idle"]
  /\ cand = [e \in Exports |-> <<>>] /\ known = [e \in Exports |-> {}]
  /\ fpc = [f \in Flushers |-> "idle"] /\ items = [f \in Flushers |-> {}]
  /\ server = "serving" /\ ctxDone = FALSE
  /\ overflow = FALSE /\ clean = TRUE

(***************************************************************************)
(* bufferCatalogEntries, one step per critical section.                    *)
(***************************************************************************)
Candidate(m) == MetricName(m) \notin pending \cup seen

CandidatesForBuffer(e, ms) ==
  LET cs == [i \in {j \in DOMAIN ms : Candidate(ms[j])} |-> ms[i]] IN
  /\ epc[e] = "idle" /\ server \in {"serving", "stopping", "abandoned"}
  /\ DOMAIN cs # {}
  /\ cand' = [cand EXCEPT ![e] = cs]
  /\ epc' = [epc EXCEPT ![e] = IF Remote THEN "lookup" ELSE "add"]
  /\ UNCHANGED <<pending, stores, known, flushVars, server, ctxDone, overflow, clean>>

CandidateNames(e) == UNION {NamesOf(cand[e][i]) : i \in DOMAIN cand[e]}

(* seenCache.HasMany: a name whose EXISTS failed counts as not seen. *)
LookupSeen(e) ==
  /\ epc[e] = "lookup" /\ server # "exited"
  /\ \E S \in SUBSET (remote \cap CandidateNames(e)) :
       known' = [known EXCEPT ![e] = S]
  /\ epc' = [epc EXCEPT ![e] = "add"]
  /\ UNCHANGED <<pending, stores, cand, flushVars, server, ctxDone, overflow, clean>>

(* The names of the candidates that are neither pending nor known, and the *)
(* order in which addBatch comes to them: by candidate, then by item.      *)
Fresh(e) == CandidateNames(e) \ (pending \cup known[e])

Before(e, n, k) ==
  \E i \in DOMAIN cand[e] :
    /\ n \in NamesOf(cand[e][i])
    /\ \A j \in DOMAIN cand[e] : k \in NamesOf(cand[e][j]) =>
         \/ i < j
         \/ i = j /\ \E a, b \in 1..Len(CatalogItems(cand[e][i])) :
                      a < b /\ CatalogItems(cand[e][i])[a] = n /\ CatalogItems(cand[e][i])[b] = k

(* What is put into the buffer of the names that come: all, or what fits.  *)
Fits(S, names) == IF Cardinality(names) <= Room THEN S = names ELSE Cardinality(S) = Room

(* Mutant of AddBatch: only the base name of a metric is queued.           *)
AddBatchBaseOnly(e) ==
  /\ epc[e] = "add" /\ server # "exited"
  /\ pending' = pending \cup {n \in Fresh(e) : n[2] = "" /\ Room > 0}
  /\ epc' = [epc EXCEPT ![e] = "idle"]
  /\ cand' = [cand EXCEPT ![e] = <<>>] /\ known' = [known EXCEPT ![e] = {}]
  /\ UNCHANGED <<overflow, stores, flushVars, server, ctxDone, clean>>

(* Mutant of AddBatch: the size of the buffer is tested once per batch.    *)
AddBatchUnbounded(e) ==
  /\ epc[e] = "add" /\ server # "exited"
  /\ pending' = IF Room > 0 THEN pending \cup Fresh(e) ELSE pending
  /\ epc' = [epc EXCEPT ![e] = "idle"]
  /\ cand' = [cand EXCEPT ![e] = <<>>] /\ known' = [known EXCEPT ![e] = {}]
  /\ UNCHANGED <<overflow, stores, flushVars, server, ctxDone, clean>>

AddBatch(e) ==
  /\ epc[e] = "add" /\ server # "exited"
  /\ \E S \in SUBSET Fresh(e) :
       /\ Fits(S, Fresh(e)) /\ \A n \in S, k \in Fresh(e) \ S : Before(e, n, k)
       /\ pending' = pending \cup S
       /\ overflow' = (overflow \/ S # Fresh(e))
  /\ epc' = [epc EXCEPT ![e] = "idle"]
  /\ cand' = [cand EXCEPT ![e] = <<>>] /\ known' = [known EXCEPT ![e] = {}]
  /\ UNCHANGED <<stores, flushVars, server, ctxDone, clean>>

(***************************************************************************)
(* flushCatalog, by the background flusher (on its ticker, until its       *)
(* select takes ctx.Done) and by flushCatalogOnShutdown.  A flush of the   *)
(* background flusher that starts after the cancellation fails.            *)
(***************************************************************************)
MayFlush(f) ==
  /\ server # "exited" /\ fpc[f] = "idle"
  /\ f = "shutdown" => server \in {"stopped", "abandoned"}

FlushGoto(f, pc, held) ==
  /\ fpc' = [fpc EXCEPT ![f] = pc]
  /\ items' = [items EXCEPT ![f] = held]

Drain(f) ==
  /\ MayFlush(f) /\ pending # {}
  /\ pending' = {}
  /\ FlushGoto(f, IF f = "ticker" /\ ctxDone THEN "requeue" ELSE "upsert", pending)
  /\ UNCHANGED <<stores, exportVars, server, ctxDone, overflow, clean>>

UpsertOK(f) ==
  /\ fpc[f] = "upsert" /\ server # "exited"
  /\ catalog' = catalog \cup items[f]
  /\ FlushGoto(f, "mark", items[f])
  /\ UNCHANGED <<pending, seen, remote, exportVars, server, ctxDone, overflow, clean>>

(* Mutant of UpsertFail: a failed flush is treated like a successful one.  *)
UpsertFailMarks(f) ==
  /\ fpc[f] = "upsert" /\ server # "exited"
  /\ FlushGoto(f, "mark", items[f])
  /\ UNCHANGED <<pending, stores, exportVars, server, ctxDone, overflow, clean>>

UpsertFail(f) ==
  /\ fpc[f] = "upsert" /\ server # "exited"
  /\ FlushGoto(f, "requeue", items[f])
  /\ clean' = (clean /\ f # "shutdown")
  /\ UNCHANGED <<pending, stores, exportVars, server, ctxDone, overflow>>

(* Mutant of AfterFlush: the background flusher ends with its first flush. *)
AfterFlushOnce(f) ==
  /\ FlushGoto(f, "done", {})
  /\ server' = IF f = "shutdown" THEN "exited" ELSE server

(* What f does after a flush: the ticker waits, Run returns.               *)
AfterFlush(f) ==
  /\ FlushGoto(f, IF f = "shutdown" THEN "done" ELSE "idle", {})
  /\ server' = IF f = "shutdown" THEN "exited" ELSE server

(* Mutant of Requeue: the drained items replace what is pending.           *)
RequeueOverwrites(f) ==
  /\ fpc[f] = "requeue" /\ server # "exited"
  /\ pending' = items[f]
  /\ AfterFlush(f)
  /\ UNCHANGED <<stores, exportVars, ctxDone, overflow, clean>>

(* Pending entries stay; the items come back in the order of a map, that   *)
(* is in any order, as far as there is room.                               *)
Requeue(f) ==
  /\ fpc[f] = "requeue" /\ server # "exited"
  /\ LET back == items[f] \ pending IN
     \E S \in SUBSET back :
       /\ Fits(S, back)
       /\ pending' = pending \cup S
       /\ overflow' = (overflow \/ S # back)
  /\ AfterFlush(f)
  /\ UNCHANGED <<stores, exportVars, ctxDone, clean>>

(* markFlushed, or seenCache.MarkMany (best effort, key by key).           *)
MarkSeen(f) == ~Remote /\ seen' = seen \cup items[f] /\ UNCHANGED remote

MarkMany(f) == Remote /\ UNCHANGED seen /\ \E S \in SUBSET items[f] : remote' = remote \cup S

MarkFlushed(f) ==
  /\ fpc[f] = "mark" /\ server # "exited"
  /\ MarkSeen(f) \/ MarkMany(f)
  /\ AfterFlush(f)
  /\ UNCHANGED <<pending, catalog, exportVars, ctxDone, overflow, clean>>

TickerStops ==
  /\ fpc["ticker"] = "idle" /\ ctxDone /\ server # "exited"
  /\ FlushGoto("ticker", "done", {})
  /\ UNCHANGED <<pending, stores, exportVars, server, ctxDone, overflow, clean>>

(* SeenTTL has passed for n. *)
Expire(n) ==
  /\ n \in seen \cup remote /\ server # "exited"
  /\ seen' = seen \ {n} /\ remote' = remote \ {n}
  /\ UNCHANGED <<pending, catalog, exportVars, flushVars, server, ctxDone, overflow, clean>>

(***************************************************************************)
(* Run after ctx.Done: GracefulStop refuses new calls and waits for those  *)
(* under way ("stopping"); if they outlast the timeout, Stop gives up on   *)
(* them but their handlers go on ("abandoned").  Then the last flush, then *)
(* Run returns and the process exits.  A failing Serve makes Run return at *)
(* once.                                                                   *)
(***************************************************************************)
Cancel ==
  /\ ~ctxDone /\ ctxDone' = TRUE
  /\ UNCHANGED <<pending, stores, exportVars, flushVars, server, overflow, clean>>

Serve(from, to) ==
  /\ server = from /\ server' = to
  /\ UNCHANGED <<pending, stores, exportVars, flushVars, ctxDone, overflow>>

ExportsReturned == \A e \in Exports : epc[e] = "idle"

GracefulStop == ctxDone /\ Serve("serving", "stopping") /\ UNCHANGED clean

GracefulStopEnds == ExportsReturned /\ Serve("stopping", "stopped") /\ UNCHANGED clean

(* Mutant of StopTimesOut: GracefulStop is waited for without a timeout.   *)
StopTimesOutNever == ExportsReturned /\ Serve("stopping", "abandoned") /\ clean' = FALSE

StopTimesOut == Serve("stopping", "abandoned") /\ clean' = FALSE

NothingToFlush ==
  /\ MayFlush("shutdown") /\ pending = {}
  /\ Serve(server, "exited")
  /\ UNCHANGED clean

ServeFails == Serve("serving", "exited") /\ clean' = FALSE

Exited == server = "exited" /\ UNCHANGED vars

Flush(f) ==
  Drain(f) \/ UpsertOK(f) \/ UpsertFail(f) \/ Requeue(f) \/ MarkFlushed(f)

Buffering(e) ==
  (\E ms \in Requests : CandidatesForBuffer(e, ms)) \/ LookupSeen(e) \/ AddBatch(e)

Shutdown ==
  \/ GracefulStop \/ GracefulStopEnds \/ StopTimesOut
  \/ NothingToFlush \/ Flush("shutdown")

Next ==
  \/ \E e \in Exports : Buffering(e)
  \/ Flush("ticker") \/ TickerStops
  \/ \E n \in Names : Expire(n)
  \/ Cancel \/ Shutdown \/ ServeFails
  \/ Exited

Spec == Init /\ [][Next]_vars

(***************************************************************************)
(* Fairness: goroutines run, the ticker and the graceful-stop timeout      *)
(* fire, a database call returns, and the database does not fail every     *)
(* flush for ever.  Nothing is assumed of Cancel, Expire and the traffic.  *)
(***************************************************************************)
FairSpec ==
  /\ Spec
  /\ WF_vars(Flush("ticker")) /\ SF_vars(UpsertOK("ticker")) /\ WF_vars(Shutdown)
-----------------------------------------------------------------------------
(* The values the variables range over; the buffer never outgrows its size *)
TypeOK ==
  /\ {pending, seen, remote, catalog} \subseteq SUBSET Names
  /\ epc \in [Exports -> {"idle", "lookup", "add"}]
  /\ \A e \in Exports : /\ \A i \in DOMAIN cand[e] : cand[e][i] \in Metrics
                         /\ known[e] \subseteq Names
  /\ fpc \in [Flushers -> {"idle", "upsert", "mark", "requeue", "done"}]
  /\ items \in [Flushers -> SUBSET Names]
  /\ server \in {"serving", "stopping", "stopped", "abandoned", "exited"}
  /\ {ctxDone, clean, overflow} \subseteq BOOLEAN
  /\ Cardinality(pending) <= BufferSize

(* A name is suppressed only if it reached the database: whatever fails or *)
(* interleaves, neither the seen map nor Redis holds a name that           *)
(* metrics_catalog lacks.                                                  *)
SeenIsStored == seen \cup remote \subseteq catalog

(* A name leaves the hands of the buffer and of its flushers only to the   *)
(* database, unless the buffer is full: a failed flush loses nothing else. *)
NoSilentLoss ==
  [][\A n \in Held \ Held' : n \in catalog' \/ Cardinality(pending') = BufferSize]_vars

(* While the base name of a metric is suppressed its variants are never    *)
(* looked at: they are in the database or on their way, as long as the     *)
(* buffer was never full.                                                  *)
SuppressedVariantsStored ==
  \A m \in Metrics :
    MetricName(m) \in seen /\ ~overflow => NamesOf(m) \subseteq catalog \cup Held

(* While the process runs, a queued name does not stay in the buffer or    *)
(* with a flusher for ever: it reaches the database (or was dropped for    *)
(* lack of room, NoSilentLoss).                                            *)
QueuedIsStored ==
  \A n \in Names :
    n \in pending ~> n \in catalog \/ n \notin Held \/ ctxDone \/ server = "exited"

(* Shutdown terminates. *)
ShutdownTerminates == ctxDone ~> server = "exited"

(* FlushCatalog on shutdown ensures that no buffered entries are lost:     *)
(* when GracefulStop ended in time and the last flush succeeded, nothing   *)
(* is left in the buffer or in the hands of a flusher.                     *)
ShutdownLosesNothing ==
  server = "exited" /\ clean => Held \subseteq catalog
=============================================================================
