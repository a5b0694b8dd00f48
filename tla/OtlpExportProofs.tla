-------------------------- MODULE OtlpExportProofs --------------------------
(***************************************************************************)
(* Proofs about OtlpExport for every set of metrics and requests, every    *)
(* number of concurrent Export calls, every chunk size and cache mode: the *)
(* filter of the write path drops what is unused, and only that.           *)
(***************************************************************************)
EXTENDS OtlpExport, TLAPS

(***************************************************************************)
(* Lemmas about names and about the reconciliation of base names.          *)
(***************************************************************************)

(* All names a metric is decided by are looked up. *)
LEMMA DecisiveLookedUp ==
  ASSUME NEW ms, NEW m \in Named(ms)
  PROVE  DecisiveNames(m) \subseteq LookupNames(ms)
  BY DEF DecisiveNames, LookupNames, NamesOf

LEMMA LookupNamesAreNames ==
  ASSUME NEW ms \in SUBSET Metrics
  PROVE  LookupNames(ms) \subseteq Names
  BY DEF LookupNames, Names, Named

(* The names a metric is decided by, by its kind. *)
LEMMA DecisiveByKind ==
  ASSUME NEW m
  PROVE  /\ m.kind = "histogram" => DecisiveNames(m) = HistogramVariants(BaseName(m))
         /\ m.kind = "summary" => DecisiveNames(m) = {BaseName(m)} \cup SummaryVariants(BaseName(m))
         /\ m.kind \notin {"histogram", "summary"} => DecisiveNames(m) = {BaseName(m)}
  BY DEF DecisiveNames, NamesOf

(* A summary's base name is not its own variant. *)
LEMMA BaseIsNoVariant ==
  ASSUME NEW m \in Metrics, m.kind = "summary"
  PROVE  BaseName(m) \notin SummaryVariants(BaseName(m))
  <1>1. BaseName(m) = m.name
    BY DEF BaseName
  <1>2. ASSUME NEW a \in Seq(STRING)
        PROVE  Append(a, "_count") # a /\ Append(a, "_sum") # a
    <2>1. Append(a, "_count") # a
      OBVIOUS
    <2>2. Append(a, "_sum") # a
      OBVIOUS
    <2> QED
      BY <2>1, <2>2
  <1>3. Append(m.name, "_count") # m.name /\ Append(m.name, "_sum") # m.name
    BY <1>2, ExportAssumption, Zenon
  <1> QED
    BY <1>1, <1>3, Zenon DEF SummaryVariants

(* If no metric of the request that is treated otherwise shares its base   *)
(* name, a metric is among the histograms or the summaries just if it is   *)
(* one.                                                                    *)
LEMMA BasesTell ==
  ASSUME NEW ms, NEW m \in Named(ms), Unambiguous(ms, m), NEW kind \in {"histogram", "summary"}
  PROVE  BaseName(m) \in BasesOf(ms, kind) <=> m.kind = kind
  BY DEF BasesOf, Unambiguous, Treatment, Named

(* unusedFromChunks and the two reconcile functions condemn a base name of *)
(* the request only if all the names that decide it were found unused.     *)
LEMMA UnusedIsSound ==
  ASSUME NEW ms, NEW m \in Named(ms), NEW found, Unambiguous(ms, m),
         BaseName(m) \in Unused(ms, found)
  PROVE  \A n \in DecisiveNames(m) : found[n] = "unused"
  <1> DEFINE b == BaseName(m)
             unused == {n \in Names : found[n] = "unused"}
  <1>1. b \in BasesOf(ms, "histogram") <=> m.kind = "histogram"
    BY BasesTell
  <1>2. b \in BasesOf(ms, "summary") <=> m.kind = "summary"
    BY BasesTell
  <1>3. CASE m.kind = "histogram"
    <2>1. HistogramVariants(b) \subseteq unused
      BY <1>1, <1>2, <1>3 DEF Unused
    <2> QED
      BY <1>3, <2>1, DecisiveByKind
  <1>4. CASE m.kind = "summary"
    <2>1. {b} \cup SummaryVariants(b) \subseteq unused
      BY <1>2, <1>4 DEF Unused
    <2> QED
      BY <1>4, <2>1, DecisiveByKind
  <1>5. CASE m.kind \notin {"histogram", "summary"}
    <2>1. b \in unused
      BY <1>1, <1>2, <1>5 DEF Unused
    <2> QED
      BY <1>5, <2>1, DecisiveByKind
  <1> QED
    BY <1>3, <1>4, <1>5

(* And they condemn every base name of which that is true, if no other     *)
(* metric of the request takes the verdict of one of those names.          *)
LEMMA UnusedIsComplete ==
  ASSUME NEW ms \in SUBSET Metrics, NEW m \in Named(ms), NEW found, Unambiguous(ms, m),
         DecisiveNames(m) \cap TakenFrom(ms, m) = {},
         \A n \in DecisiveNames(m) : found[n] = "unused"
  PROVE  BaseName(m) \in Unused(ms, found)
  <1> DEFINE b == BaseName(m)
             unused == {n \in Names : found[n] = "unused"}
  <1>1. b \in BasesOf(ms, "histogram") <=> m.kind = "histogram"
    BY BasesTell
  <1>2. b \in BasesOf(ms, "summary") <=> m.kind = "summary"
    BY BasesTell
  <1>3. DecisiveNames(m) \subseteq unused
    BY DecisiveLookedUp, LookupNamesAreNames
  <1>4. CASE m.kind = "histogram"
    <2>1. HistogramVariants(b) \subseteq unused
      BY <1>3, <1>4, DecisiveByKind
    <2> QED
      BY <1>1, <1>2, <1>4, <2>1 DEF Unused
  <1>5. CASE m.kind = "summary"
    <2>1. /\ {b} \cup SummaryVariants(b) \subseteq unused \ VariantsOfHistograms(ms)
          /\ SummaryVariants(b) \cap (BasesOf(ms, "summary") \ {b}) = {}
      BY <1>3, <1>5, DecisiveByKind DEF TakenFrom
    <2>2. b \notin SummaryVariants(b)
      BY <1>5, BaseIsNoVariant DEF Named
    <2>3. SummaryVariants(b) \cap BasesOf(ms, "summary") = {}
      BY <2>1, <2>2
    <2> QED
      BY <1>2, <1>5, <2>1, <2>3 DEF Unused
  <1>6. CASE m.kind \notin {"histogram", "summary"}
    <2>1. b \in unused /\ b \notin VariantsOfHistograms(ms) /\ b \notin VariantsOfSummaries(ms)
      BY <1>3, <1>6, DecisiveByKind DEF TakenFrom
    <2> QED
      BY <1>1, <1>2, <1>6, <2>1 DEF Unused
  <1> QED
    BY <1>4, <1>5, <1>6
-----------------------------------------------------------------------------
(***************************************************************************)
(* The inductive invariant, one call at a time.                            *)
(***************************************************************************)
Lookup == {"lookup", "query", "write"}
States == {"none", "unused", "used"}

(* A call that is looking up has filtered and sent nothing, works on the   *)
(* names of its request, and has seen all that is on record of them now.   *)
LookupOK(e) ==
  pc[e] \in Lookup =>
    /\ kept[e] = req[e] /\ sent[e] = 0 /\ reply[e] = "none"
    /\ todo[e] \cup misses[e] \subseteq LookupNames(req[e])
    /\ \A n \in LookupNames(req[e]) : Reports(n) \subseteq said[e][n]

(* Outside the lookup nothing of its local state is left. *)
LookupOver(e) ==
  pc[e] \notin Lookup => todo[e] = {} /\ misses[e] = {} /\ verdict[e] = Unknown

(* A verdict was on record during the lookup, and so was its absence once  *)
(* the name has been looked up in cache and database.                      *)
Pending(e) == todo[e] \cup IF pc[e] = "query" THEN misses[e] ELSE {}
VerdictOK(e) ==
  /\ \A n \in Names : verdict[e][n] # "none" => verdict[e][n] \in said[e][n]
  /\ pc[e] \in Lookup =>
       \A n \in LookupNames(req[e]) \ Pending(e) : verdict[e][n] = "none" => "none" \in said[e][n]

(* What the call has sent so far. *)
SentOK(e) ==
  /\ pc[e] = "forward" => sent[e] = 0
  /\ pc[e] \in {"backoff", "retry"} => sent[e] \in 0..1

(* TypeOK, and the two properties of the filter, of one call. *)
ShapeOK(e) ==
  /\ kept[e] \subseteq req[e] /\ misses[e] \cap todo[e] = {}
  /\ \A n \in todo[e] : verdict[e][n] = "none"
SoundFor(e) ==
  \A m \in req[e] \ kept[e] :
    /\ ~DryRun /\ DropActive(m.job)
    /\ Unambiguous(req[e], m) => \A n \in DecisiveNames(m) : "unused" \in said[e][n]
CompleteFor(e) ==
  \A m \in Named(kept[e]) :
    /\ pc[e] \in {"forward", "backoff", "retry"} \/ reply[e] = "ok"
    /\ ~DryRun /\ DropActive(m.job) /\ Unambiguous(req[e], m)
    /\ DecisiveNames(m) \cap TakenFrom(req[e], m) = {}
    => \E n \in DecisiveNames(m) : said[e][n] # {"unused"}

CallOK(e) ==
  /\ LookupOK(e) /\ LookupOver(e) /\ VerdictOK(e) /\ SentOK(e)
  /\ ShapeOK(e) /\ SoundFor(e) /\ CompleteFor(e)

Domains ==
  /\ row \in [Names -> States] /\ changes \in 0..MaxChanges /\ cache \in [Names -> States]
  /\ pc \in [Exports -> {"idle", "lookup", "query", "write", "forward", "backoff", "retry"}]
  /\ req \in [Exports -> SUBSET Metrics] /\ kept \in [Exports -> SUBSET Metrics]
  /\ todo \in [Exports -> SUBSET Names] /\ misses \in [Exports -> SUBSET Names]
  /\ verdict \in [Exports -> [Names -> States]]
  /\ said \in [Exports -> [Names -> SUBSET States]]
  /\ reply \in [Exports -> {"none", "empty", "ok", "lookupFailed", "error"}]
  /\ sent \in [Exports -> 0..2]

ExportInv == Domains /\ \A e \in Exports : CallOK(e)

LEMMA InvImplies == ExportInv => TypeOK /\ DropsOnlyUnused /\ DropsAllUnused
  <1> SUFFICES ASSUME ExportInv PROVE TypeOK /\ DropsOnlyUnused /\ DropsAllUnused
    OBVIOUS
  <1>1. TypeOK
    BY DEF ExportInv, Domains, CallOK, ShapeOK, TypeOK, States
  <1>2. DropsOnlyUnused
    BY DEF ExportInv, CallOK, SoundFor, DropsOnlyUnused
  <1>3. DropsAllUnused
    BY DEF ExportInv, CallOK, CompleteFor, DropsAllUnused
  <1> QED
    BY <1>1, <1>2, <1>3

LEMMA InitInv == Init => ExportInv
  <1> SUFFICES ASSUME Init PROVE ExportInv
    OBVIOUS
  <1>1. Domains
    BY ExportAssumption DEF Init, Domains, Unknown, States
  <1>2. ASSUME NEW e \in Exports PROVE CallOK(e)
    BY DEF Init, CallOK, LookupOK, LookupOver, VerdictOK, SentOK, ShapeOK, SoundFor,
           CompleteFor, Unknown, Lookup
  <1> QED
    BY <1>1, <1>2 DEF ExportInv

(***************************************************************************)
(* The calls a step does not move.  Their history is either as it was, or  *)
(* has been told what the step put on record.                              *)
(***************************************************************************)
Unmoved(f) ==
  /\ pc'[f] = pc[f] /\ req'[f] = req[f] /\ todo'[f] = todo[f] /\ misses'[f] = misses[f]
  /\ verdict'[f] = verdict[f] /\ kept'[f] = kept[f] /\ sent'[f] = sent[f] /\ reply'[f] = reply[f]

Informed(f) ==
  /\ \A n \in Names : said[f][n] \subseteq said'[f][n]
  /\ pc[f] \in Lookup => \A n \in LookupNames(req[f]) : Reports(n)' \subseteq said'[f][n]
  /\ pc[f] \notin Lookup => said'[f] = said[f]

LEMMA Bystander ==
  ASSUME Domains, NEW f \in Exports, CallOK(f), Unmoved(f), Informed(f)
  PROVE  CallOK(f)'
  <1> USE DEF Unmoved, Informed
  <1>1. LookupOK(f)'
    BY DEF CallOK, LookupOK
  <1>2. LookupOver(f)' /\ SentOK(f)' /\ ShapeOK(f)'
    BY DEF CallOK, LookupOver, SentOK, ShapeOK, Unknown
  <1>3. VerdictOK(f)'
    <2>1. LookupNames(req[f]) \subseteq Names
      BY LookupNamesAreNames DEF Domains
    <2> QED
      BY <2>1 DEF CallOK, VerdictOK, Pending
  <1>4. SoundFor(f)' /\ CompleteFor(f)'
    <2>1. CASE pc[f] \in Lookup
      BY <2>1 DEF CallOK, LookupOK, SoundFor, CompleteFor, Lookup
    <2>2. CASE pc[f] \notin Lookup
      BY <2>2 DEF CallOK, SoundFor, CompleteFor
    <2> QED
      BY <2>1, <2>2
  <1> QED
    BY <1>1, <1>2, <1>3, <1>4 DEF CallOK

(* A step of another call that touches neither the rows nor the cache. *)
LEMMA QuietBystander ==
  ASSUME Domains, NEW f \in Exports, CallOK(f), Unmoved(f), said'[f] = said[f],
         UNCHANGED <<row, cache>>
  PROVE  CallOK(f)'
  <1>1. \A n : Reports(n)' = Reports(n)
    BY DEF Reports, CacheKnows
  <1>2. Informed(f)
    BY <1>1 DEF Informed, CallOK, LookupOK
  <1> QED
    BY <1>2, Bystander

-----------------------------------------------------------------------------
(***************************************************************************)
(* The steps of a call, seen from the call.                                *)
(***************************************************************************)

(* Begin: the history starts with what is on record. *)
LEMMA BeginStep ==
  ASSUME ExportInv, NEW e \in Exports, NEW ms \in Requests, Begin(e, ms)
  PROVE  CallOK(e)'
  <1> DEFINE idle == LookupNames(ms) = {}
  <1>1. /\ req'[e] = ms /\ todo'[e] = LookupNames(ms) /\ kept'[e] = ms /\ sent'[e] = 0
        /\ said'[e] = [n \in Names |-> IF n \in LookupNames(ms) THEN Reports(n) ELSE {}]
        /\ pc'[e] = (IF idle THEN "idle" ELSE "lookup")
        /\ reply'[e] = (IF idle THEN "empty" ELSE "none")
        /\ misses'[e] = {} /\ verdict'[e] = Unknown
        /\ UNCHANGED <<row, cache>>
    BY DEF Begin, ExportInv, Domains, CallOK, LookupOver, Lookup, usageVars
  <1>2. \A n : Reports(n)' = Reports(n)
    BY <1>1 DEF Reports, CacheKnows
  <1>3. LookupNames(ms) \subseteq Names
    BY ExportAssumption, LookupNamesAreNames
  <1>4. LookupOK(e)'
    BY <1>1, <1>2, <1>3 DEF LookupOK, Lookup
  <1>5. LookupOver(e)' /\ SentOK(e)' /\ ShapeOK(e)'
    BY <1>1, <1>3 DEF LookupOver, SentOK, ShapeOK, Lookup, Unknown
  <1>6. VerdictOK(e)'
    BY <1>1, <1>3 DEF VerdictOK, Pending, Unknown
  <1>7. SoundFor(e)' /\ CompleteFor(e)'
    BY <1>1 DEF SoundFor, CompleteFor
  <1> QED
    BY <1>4, <1>5, <1>6, <1>7 DEF CallOK

(* A step that leaves the call in the lookup: the filter has not run. *)
LEMMA StillLookingUp ==
  ASSUME NEW e \in Exports, pc'[e] \in Lookup, LookupOK(e)'
  PROVE  LookupOver(e)' /\ SentOK(e)' /\ SoundFor(e)' /\ CompleteFor(e)'
  BY DEF LookupOK, LookupOver, SentOK, SoundFor, CompleteFor, Lookup

(* Reading the cache: a hit is on record, and a miss is pending. *)
LEMMA LookupCacheStep ==
  ASSUME ExportInv, NEW e \in Exports, LookupCache(e)
  PROVE  CallOK(e)'
  <1>1. PICK c \in SUBSET todo[e], hits \in SUBSET Names :
          /\ hits \subseteq c /\ \A n \in hits : CacheKnows(n)
          /\ verdict'[e] = [n \in Names |-> IF n \in hits THEN cache[n] ELSE verdict[e][n]]
          /\ misses'[e] = c \ hits /\ todo'[e] = todo[e] \ c
          /\ pc'[e] = IF hits = c THEN "lookup" ELSE "query"
    <2>1. PICK c \in Chunks(e) : \E hits \in SUBSET {n \in c : CacheKnows(n)} :
            /\ verdict' = [verdict EXCEPT ![e] = [n \in Names |-> IF n \in hits THEN cache[n] ELSE @[n]]]
            /\ misses' = [misses EXCEPT ![e] = c \ hits]
            /\ todo' = [todo EXCEPT ![e] = @ \ c]
            /\ Step(e, IF hits = c THEN "lookup" ELSE "query")
      BY DEF LookupCache
    <2>2. PICK hits \in SUBSET {n \in c : CacheKnows(n)} :
            /\ verdict' = [verdict EXCEPT ![e] = [n \in Names |-> IF n \in hits THEN cache[n] ELSE @[n]]]
            /\ misses' = [misses EXCEPT ![e] = c \ hits]
            /\ todo' = [todo EXCEPT ![e] = @ \ c]
            /\ Step(e, IF hits = c THEN "lookup" ELSE "query")
      BY <2>1
    <2>3. c \in SUBSET todo[e] /\ hits \in SUBSET Names /\ hits \subseteq c
      BY DEF Chunks, ExportInv, Domains
    <2> QED
      BY <2>2, <2>3 DEF Step, ExportInv, Domains
  <1>2. /\ UNCHANGED <<row, cache, req, kept, sent, reply, said>>
        /\ pc[e] = "lookup"
    BY DEF LookupCache, usageVars
  <1>3. \A n : Reports(n)' = Reports(n)
    BY <1>2 DEF Reports, CacheKnows
  <1>4. LookupNames(req[e]) \subseteq Names
    BY LookupNamesAreNames DEF ExportInv, Domains
  <1>5. /\ LookupOK(e) /\ VerdictOK(e) /\ ShapeOK(e)
        /\ pc[e] \in Lookup /\ pc'[e] \in Lookup
    BY <1>1, <1>2 DEF ExportInv, CallOK, Lookup
  <1>6. LookupOK(e)'
    BY <1>1, <1>2, <1>3, <1>5 DEF LookupOK
  <1>7. ShapeOK(e)'
    BY <1>1, <1>2, <1>4, <1>5 DEF ShapeOK, LookupOK
  <1>8. ASSUME NEW n \in hits
        PROVE  n \in Names /\ verdict'[e][n] = cache[n] /\ cache[n] \in said[e][n] /\ cache[n] # "none"
    <2>1. n \in LookupNames(req[e])
      BY <1>1, <1>5 DEF LookupOK
    <2>2. cache[n] \in Reports(n) /\ cache[n] # "none"
      BY <1>1 DEF Reports, CacheKnows
    <2> QED
      BY <2>1, <2>2, <1>1, <1>4, <1>5 DEF LookupOK
  <1>9. \A n \in Names \ hits : verdict'[e][n] = verdict[e][n]
    BY <1>1
  <1>10. VerdictOK(e)'
    <2>1. \A n \in Names : verdict'[e][n] # "none" => verdict'[e][n] \in said[e][n]
      BY <1>5, <1>8, <1>9 DEF VerdictOK
    <2>2. ASSUME NEW n \in LookupNames(req[e]) \ Pending(e)', verdict'[e][n] = "none"
          PROVE  "none" \in said[e][n]
      <3>1. n \notin hits
        BY <1>8, <2>2
      <3>2. n \notin todo[e]
        BY <1>1, <2>2, <3>1 DEF Pending
      <3> QED
        BY <1>2, <1>4, <1>5, <1>9, <2>2, <3>1, <3>2 DEF VerdictOK, Pending
    <2> QED
      BY <1>2, <2>1, <2>2 DEF VerdictOK
  <1> QED
    BY <1>5, <1>6, <1>7, <1>10, StillLookingUp DEF CallOK

(* Reading the database: what it returns is on record, and so is the       *)
(* absence of a row.                                                       *)
LEMMA QueryStep ==
  ASSUME ExportInv, NEW e \in Exports, QueryOK(e)
  PROVE  CallOK(e)'
  <1> DEFINE found == {n \in misses[e] : row[n] # "none"}
  <1>1. /\ verdict'[e] = [n \in Names |-> IF n \in found THEN row[n] ELSE verdict[e][n]]
        /\ pc'[e] \in {"lookup", "write"} /\ pc[e] = "query"
        /\ UNCHANGED <<row, cache, req, todo, misses, kept, sent, reply, said>>
    BY DEF QueryOK, SeriesMetadata, Step, ExportInv, Domains, usageVars
  <1>2. \A n : Reports(n)' = Reports(n)
    BY <1>1 DEF Reports, CacheKnows
  <1>3. LookupNames(req[e]) \subseteq Names
    BY LookupNamesAreNames DEF ExportInv, Domains
  <1>4. /\ LookupOK(e) /\ VerdictOK(e) /\ ShapeOK(e)
        /\ pc[e] \in Lookup /\ pc'[e] \in Lookup
    BY <1>1 DEF ExportInv, CallOK, Lookup
  <1>5. LookupOK(e)'
    BY <1>1, <1>2, <1>4 DEF LookupOK
  <1>6. \A n \in misses[e] : n \in LookupNames(req[e]) /\ row[n] \in said[e][n]
    BY <1>4 DEF LookupOK, Reports
  <1>7. ShapeOK(e)'
    BY <1>1, <1>3, <1>4 DEF ShapeOK, LookupOK
  <1>8. VerdictOK(e)'
    <2>1. \A n \in Names : verdict'[e][n] # "none" => verdict'[e][n] \in said[e][n]
      BY <1>1, <1>4, <1>6 DEF VerdictOK
    <2>2. ASSUME NEW n \in LookupNames(req[e]) \ todo[e], verdict'[e][n] = "none"
          PROVE  "none" \in said[e][n]
      <3>1. CASE n \in misses[e]
        BY <1>1, <1>3, <1>6, <2>2, <3>1
      <3>2. CASE n \notin misses[e]
        BY <1>1, <1>3, <1>4, <2>2, <3>2 DEF VerdictOK, Pending
      <3> QED
        BY <3>1, <3>2
    <2> QED
      BY <1>1, <2>1, <2>2 DEF VerdictOK, Pending
  <1> QED
    BY <1>4, <1>5, <1>7, <1>8, StillLookingUp DEF CallOK

(* Observe tells every call that is looking up what is on record now. *)
LEMMA ObserveInforms ==
  ASSUME ExportInv, Observe, NEW f \in Exports
  PROVE  Informed(f)
  <1>1. \A n \in Names : said'[f][n] = said[f][n] \cup
           IF f \in LookingUp /\ n \in LookupNames(req[f]) THEN Reports(n)' ELSE {}
    BY DEF Observe
  <1>2. f \in LookingUp <=> pc[f] \in Lookup
    BY DEF LookingUp, Lookup
  <1>3. LookupNames(req[f]) \subseteq Names
    BY LookupNamesAreNames DEF ExportInv, Domains
  <1>4. ASSUME pc[f] \notin Lookup PROVE said'[f] = said[f]
    <2>1. said'[f] = [n \in Names |-> said[f][n] \cup {}]
      BY <1>2, <1>4 DEF Observe
    <2> QED
      BY <2>1 DEF ExportInv, Domains
  <1> QED
    BY <1>1, <1>2, <1>3, <1>4 DEF Informed

(* Writing back to the cache is putting on record what was on record. *)
LEMMA WriteBackStep ==
  ASSUME ExportInv, NEW e \in Exports, WriteBack(e)
  PROVE  CallOK(e)'
  <1>1. /\ misses'[e] = {} /\ pc'[e] = "lookup" /\ pc[e] = "write"
        /\ UNCHANGED <<row, req, todo, verdict, kept, sent, reply>>
    BY DEF WriteBack, Step, ExportInv, Domains, usageVars
  <1>2. Informed(e)
    BY ObserveInforms DEF WriteBack
  <1>3. LookupNames(req[e]) \subseteq Names
    BY LookupNamesAreNames DEF ExportInv, Domains
  <1>4. /\ LookupOK(e) /\ VerdictOK(e) /\ ShapeOK(e)
        /\ pc[e] \in Lookup /\ pc'[e] \in Lookup
    BY <1>1 DEF ExportInv, CallOK, Lookup
  <1>5. LookupOK(e)'
    BY <1>1, <1>2, <1>4 DEF LookupOK, Informed
  <1>6. ShapeOK(e)'
    BY <1>1, <1>4 DEF ShapeOK
  <1>7. VerdictOK(e)'
    BY <1>1, <1>2, <1>3, <1>4 DEF VerdictOK, Pending, Informed
  <1> QED
    BY <1>4, <1>5, <1>6, <1>7, StillLookingUp DEF CallOK

(* A failing query ends the call with nothing dropped. *)
LEMMA QueryFailsStep ==
  ASSUME ExportInv, NEW e \in Exports, QueryFails(e)
  PROVE  CallOK(e)'
  <1>1. /\ pc'[e] = "idle" /\ reply'[e] = "lookupFailed" /\ pc[e] \in Lookup
        /\ todo'[e] = {} /\ misses'[e] = {} /\ verdict'[e] = Unknown
        /\ UNCHANGED <<req, kept, sent, said>>
    BY DEF QueryFails, Reply, Step, EndLookup, ExportInv, Domains, Lookup
  <1>2. kept[e] = req[e]
    BY <1>1 DEF ExportInv, CallOK, LookupOK
  <1> QED
    BY <1>1, <1>2 DEF CallOK, LookupOK, LookupOver, VerdictOK, SentOK, ShapeOK, SoundFor,
                      CompleteFor, Unknown, Lookup

(* The filter: every name has been looked up, so that the verdict "unused" *)
(* was on record, and what was on record as unused alone has that verdict. *)
LEMMA FilterStep ==
  ASSUME ExportInv, NEW e \in Exports, Filter(e)
  PROVE  CallOK(e)'
  <1> DEFINE unused == Unused(req[e], verdict[e])
  <1>1. /\ pc[e] = "lookup" /\ todo[e] = {}
        /\ pc'[e] \in {"forward", "idle"}
        /\ todo'[e] = {} /\ misses'[e] = {} /\ verdict'[e] = Unknown
        /\ kept'[e] = (IF DryRun THEN kept[e] ELSE FilterExport(kept[e], unused))
        /\ UNCHANGED <<req, sent, said>>
    BY DEF Filter, Reply, Step, EndLookup, ExportInv, Domains
  <1>2. kept[e] = req[e] /\ sent[e] = 0 /\ VerdictOK(e)
    BY <1>1 DEF ExportInv, CallOK, LookupOK, Lookup
  <1>3. req[e] \in SUBSET Metrics /\ LookupNames(req[e]) \subseteq Names
    BY LookupNamesAreNames DEF ExportInv, Domains
  <1>4. kept'[e] \subseteq req[e]
    BY <1>1, <1>2 DEF FilterExport
  <1>5. SoundFor(e)'
    <2> SUFFICES ASSUME NEW m \in req[e] \ kept'[e]
                 PROVE  /\ ~DryRun /\ DropActive(m.job)
                        /\ Unambiguous(req[e], m) => \A n \in DecisiveNames(m) : "unused" \in said[e][n]
      BY <1>1 DEF SoundFor
    <2>1. ~DryRun /\ DropActive(m.job) /\ m \in Named(req[e]) /\ BaseName(m) \in unused
      BY <1>1, <1>2 DEF FilterExport
    <2>2. ASSUME Unambiguous(req[e], m), NEW n \in DecisiveNames(m)
          PROVE  "unused" \in said[e][n]
      <3>1. verdict[e][n] = "unused"
        BY <2>1, <2>2, UnusedIsSound
      <3>2. n \in Names
        BY <1>3, <2>1, DecisiveLookedUp
      <3> QED
        BY <1>2, <3>1, <3>2 DEF VerdictOK
    <2> QED
      BY <2>1, <2>2
  <1>6. CompleteFor(e)'
    <2> SUFFICES ASSUME NEW m \in Named(kept'[e]), ~DryRun, DropActive(m.job),
                        Unambiguous(req[e], m), DecisiveNames(m) \cap TakenFrom(req[e], m) = {},
                        \A n \in DecisiveNames(m) : said[e][n] = {"unused"}
                 PROVE  FALSE
      BY <1>1 DEF CompleteFor
    <2>1. m \in Named(req[e])
      BY <1>4 DEF Named
    <2>2. ASSUME NEW n \in DecisiveNames(m) PROVE verdict[e][n] = "unused"
      <3>1. n \in LookupNames(req[e]) /\ n \in Names
        BY <1>3, <2>1, DecisiveLookedUp
      <3>2. Pending(e) = {} /\ pc[e] \in Lookup
        BY <1>1 DEF Pending, Lookup
      <3>3. verdict[e][n] # "none"
        BY <1>2, <3>1, <3>2 DEF VerdictOK
      <3> QED
        BY <1>2, <3>1, <3>3 DEF VerdictOK
    <2>3. BaseName(m) \in unused
      BY <1>3, <2>1, <2>2, UnusedIsComplete
    <2>4. kept'[e] = FilterExport(req[e], unused)
      BY <1>1, <1>2
    <2>5. m \in kept'[e]
      BY DEF Named
    <2> HIDE DEF unused
    <2> QED
      BY <2>1, <2>3, <2>4, <2>5 DEF FilterExport
  <1>7. LookupOK(e)' /\ LookupOver(e)' /\ SentOK(e)' /\ ShapeOK(e)'
    BY <1>1, <1>2, <1>4 DEF LookupOK, LookupOver, SentOK, ShapeOK, Lookup
  <1>8. VerdictOK(e)'
    BY <1>1 DEF VerdictOK, Unknown, Lookup
  <1> QED
    BY <1>5, <1>6, <1>7, <1>8 DEF CallOK

(* Sending changes nothing about what was dropped. *)
LEMMA SendStep ==
  ASSUME ExportInv, NEW e \in Exports, ForwardOK(e) \/ ForwardFails(e) \/ Backoff(e)
  PROVE  CallOK(e)'
  <1>1. /\ pc[e] \in {"forward", "backoff", "retry"}
        /\ pc'[e] \in {"idle", "backoff", "retry"}
        /\ UNCHANGED <<req, todo, misses, verdict, kept, said>>
    BY DEF ForwardOK, ForwardFails, Backoff, Reply, Step, ExportInv, Domains, lookupVars
  <1>2. CallOK(e)
    BY DEF ExportInv
  <1>3. LookupOK(e)' /\ LookupOver(e)' /\ ShapeOK(e)' /\ VerdictOK(e)'
    BY <1>1, <1>2 DEF CallOK, LookupOK, LookupOver, ShapeOK, VerdictOK, Unknown, Lookup
  <1>4. SoundFor(e)' /\ CompleteFor(e)'
    BY <1>1, <1>2 DEF CallOK, SoundFor, CompleteFor
  <1>5. SentOK(e)'
    <2>1. CASE ForwardOK(e)
      BY <2>1 DEF ForwardOK, Reply, Step, SentOK, ExportInv, Domains
    <2>2. CASE ForwardFails(e)
      BY <1>2, <2>2 DEF ForwardFails, Accepted, Reply, Step, SentOK, CallOK, ExportInv, Domains
    <2>3. CASE Backoff(e)
      BY <1>2, <2>3 DEF Backoff, Reply, Step, SentOK, CallOK, ExportInv, Domains
    <2> QED
      BY <2>1, <2>2, <2>3
  <1> QED
    BY <1>3, <1>4, <1>5 DEF CallOK

-----------------------------------------------------------------------------
(***************************************************************************)
(* The invariant is inductive.                                             *)
(***************************************************************************)
LEMMA ReportsAreStates ==
  ASSUME Domains, NEW n \in Names
  PROVE  Reports(n) \subseteq States
  BY DEF Domains, Reports

LEMMA ObserveTypes ==
  ASSUME Domains, Observe, row' \in [Names -> States], cache' \in [Names -> States]
  PROVE  said' \in [Exports -> [Names -> SUBSET States]]
  <1>1. \A n \in Names : Reports(n)' \subseteq States
    BY DEF Reports
  <1> QED
    BY <1>1 DEF Observe, Domains

LEMMA DomainsStep ==
  ASSUME ExportInv, [Next]_vars
  PROVE  Domains'
  <1> USE ExportAssumption
  <1>1. ASSUME NEW n \in Names, SummaryChanges(n)
        PROVE  Domains'
    <2>1. row' \in [Names -> States] /\ cache' = cache /\ changes' \in 0..MaxChanges
      BY <1>1 DEF SummaryChanges, ExportInv, Domains, States
    <2>2. said' \in [Exports -> [Names -> SUBSET States]]
      BY <1>1, <2>1, ObserveTypes DEF SummaryChanges, ExportInv, Domains
    <2> QED
      BY <1>1, <2>1, <2>2 DEF SummaryChanges, ExportInv, Domains, lookupVars
  <1>2. ASSUME NEW n \in Names, Expire(n)
        PROVE  Domains'
    BY <1>2 DEF Expire, ExportInv, Domains, usageVars, lookupVars, States
  <1>3. ASSUME NEW e \in Exports, NEW ms \in Requests, Begin(e, ms)
        PROVE  Domains'
    <2>1. ms \in SUBSET Metrics /\ LookupNames(ms) \subseteq Names
      BY LookupNamesAreNames
    <2>2. \A n \in Names : Reports(n) \subseteq States
      BY ReportsAreStates DEF ExportInv
    <2>3. said' \in [Exports -> [Names -> SUBSET States]]
      BY <1>3, <2>2 DEF Begin, ExportInv, Domains
    <2> QED
      BY <1>3, <2>1, <2>3 DEF Begin, ExportInv, Domains, usageVars
  <1>4. ASSUME NEW e \in Exports, LookupCache(e)
        PROVE  Domains'
    <2>1. verdict' \in [Exports -> [Names -> States]]
      BY <1>4 DEF LookupCache, ExportInv, Domains
    <2>2. misses' \in [Exports -> SUBSET Names] /\ todo' \in [Exports -> SUBSET Names]
      BY <1>4 DEF LookupCache, Chunks, ExportInv, Domains
    <2>3. pc' \in [Exports -> {"idle", "lookup", "query", "write", "forward", "backoff", "retry"}]
      BY <1>4 DEF LookupCache, Step, ExportInv, Domains
    <2> QED
      BY <1>4, <2>1, <2>2, <2>3 DEF LookupCache, ExportInv, Domains, usageVars
  <1>5. ASSUME NEW e \in Exports, QueryOK(e)
        PROVE  Domains'
    <2>1. verdict' \in [Exports -> [Names -> States]]
      BY <1>5 DEF QueryOK, SeriesMetadata, ExportInv, Domains
    <2> QED
      BY <1>5, <2>1 DEF QueryOK, Step, ExportInv, Domains, usageVars
  <1>6. ASSUME NEW e \in Exports, QueryFails(e)
        PROVE  Domains'
    BY <1>6 DEF QueryFails, Reply, Step, EndLookup, ExportInv, Domains, usageVars, Unknown, States
  <1>7. ASSUME NEW e \in Exports, WriteBack(e)
        PROVE  Domains'
    <2>1. cache' \in [Names -> States] /\ row' = row
      BY <1>7 DEF WriteBack, ExportInv, Domains, usageVars
    <2>2. said' \in [Exports -> [Names -> SUBSET States]]
      BY <1>7, <2>1, ObserveTypes DEF WriteBack, ExportInv, Domains
    <2> QED
      BY <1>7, <2>1, <2>2 DEF WriteBack, Step, ExportInv, Domains, usageVars
  <1>8. ASSUME NEW e \in Exports, Filter(e)
        PROVE  Domains'
    <2>1. kept' \in [Exports -> SUBSET Metrics]
      BY <1>8 DEF Filter, FilterExport, ExportInv, Domains
    <2> QED
      BY <1>8, <2>1 DEF Filter, Reply, Step, EndLookup, ExportInv, Domains, usageVars, Unknown, States
  <1>9. ASSUME NEW e \in Exports, ForwardOK(e) \/ ForwardFails(e)
        PROVE  Domains'
    <2>1. sent[e] \in 0..1
      BY <1>9 DEF ForwardOK, ForwardFails, ExportInv, CallOK, SentOK
    <2>2. PICK k \in {0, 1} : sent' = [sent EXCEPT ![e] = sent[e] + k]
      BY <1>9 DEF ForwardOK, ForwardFails, Accepted
    <2>3. sent[e] + k \in 0..2
      BY <2>1
    <2>4. sent' \in [Exports -> 0..2]
      BY <2>2, <2>3 DEF ExportInv, Domains
    <2> QED
      BY <1>9, <2>4 DEF ForwardOK, ForwardFails, Reply, Step, ExportInv, Domains, usageVars, lookupVars
  <1>10. ASSUME NEW e \in Exports, Backoff(e)
         PROVE  Domains'
    BY <1>10 DEF Backoff, Reply, Step, ExportInv, Domains, usageVars, lookupVars
  <1>11. CASE UNCHANGED vars
    BY <1>11 DEF vars, usageVars, lookupVars, ExportInv, Domains
  <1> QED
    BY <1>1, <1>2, <1>3, <1>4, <1>5, <1>6, <1>7, <1>8, <1>9, <1>10, <1>11 DEF Next, Export

(* A step of one call moves no other. *)
LEMMA OneMoves ==
  ASSUME ExportInv, NEW e \in Exports, Export(e) \/ \E ms \in Requests : Begin(e, ms),
         NEW f \in Exports, f # e
  PROVE  /\ Unmoved(f)
         /\ WriteBack(e) \/ (said'[f] = said[f] /\ UNCHANGED <<row, cache>>)
  <1> USE DEF ExportInv, Domains, Unmoved, usageVars, lookupVars, Step, Reply, EndLookup
  <1>1. CASE \E ms \in Requests : Begin(e, ms)
    BY <1>1 DEF Begin
  <1>2. CASE LookupCache(e)
    BY <1>2 DEF LookupCache
  <1>3. CASE QueryOK(e) \/ QueryFails(e)
    BY <1>3 DEF QueryOK, QueryFails
  <1>4. CASE WriteBack(e)
    BY <1>4 DEF WriteBack
  <1>5. CASE Filter(e)
    BY <1>5 DEF Filter
  <1>6. CASE ForwardOK(e) \/ ForwardFails(e) \/ Backoff(e)
    BY <1>6 DEF ForwardOK, ForwardFails, Backoff, Accepted
  <1> QED
    BY <1>1, <1>2, <1>3, <1>4, <1>5, <1>6 DEF Export

LEMMA CallsStep ==
  ASSUME ExportInv, [Next]_vars, NEW f \in Exports
  PROVE  CallOK(f)'
  <1>1. CallOK(f) /\ Domains
    BY DEF ExportInv
  <1>2. ASSUME NEW n \in Names, SummaryChanges(n)
        PROVE  CallOK(f)'
    <2>1. Unmoved(f)
      BY <1>2 DEF SummaryChanges, Unmoved, lookupVars
    <2>2. Informed(f)
      BY <1>2, ObserveInforms DEF SummaryChanges
    <2> QED
      BY <1>1, <2>1, <2>2, Bystander
  <1>3. ASSUME NEW n \in Names, Expire(n)
        PROVE  CallOK(f)'
    <2>1. Unmoved(f) /\ said' = said /\ row' = row
      BY <1>3 DEF Expire, Unmoved, usageVars, lookupVars
    <2>2. \A x \in Names : cache'[x] \in {cache[x], "none"}
      BY <1>1, <1>3 DEF Expire, Domains
    <2>3. \A x \in Names : Reports(x)' \subseteq Reports(x)
      BY <2>1, <2>2 DEF Reports, CacheKnows
    <2>4. LookupNames(req[f]) \subseteq Names
      BY <1>1, LookupNamesAreNames DEF Domains
    <2>5. Informed(f)
      BY <1>1, <2>1, <2>3, <2>4 DEF Informed, CallOK, LookupOK
    <2> QED
      BY <1>1, <2>1, <2>5, Bystander
  <1>4. ASSUME NEW e \in Exports, e # f, Export(e) \/ \E ms \in Requests : Begin(e, ms)
        PROVE  CallOK(f)'
    <2>1. Unmoved(f)
      BY <1>4, OneMoves
    <2>2. CASE WriteBack(e)
      BY <1>1, <2>1, <2>2, ObserveInforms, Bystander DEF WriteBack
    <2>3. CASE said'[f] = said[f] /\ UNCHANGED <<row, cache>>
      BY <1>1, <2>1, <2>3, QuietBystander
    <2> QED
      BY <1>4, <2>2, <2>3, OneMoves
  <1>5. ASSUME Export(f) \/ \E ms \in Requests : Begin(f, ms)
        PROVE  CallOK(f)'
    BY <1>5, BeginStep, LookupCacheStep, QueryStep, QueryFailsStep, WriteBackStep, FilterStep, SendStep
    DEF Export
  <1>6. CASE UNCHANGED vars
    <2>1. Unmoved(f) /\ said'[f] = said[f] /\ UNCHANGED <<row, cache>>
      BY <1>6 DEF vars, usageVars, lookupVars, Unmoved
    <2> QED
      BY <1>1, <2>1, QuietBystander
  <1> QED
    BY <1>2, <1>3, <1>4, <1>5, <1>6 DEF Next

LEMMA ExportInvariant == Spec => []ExportInv
  <1>1. ExportInv /\ [Next]_vars => ExportInv'
    BY DomainsStep, CallsStep DEF ExportInv
  <1> QED
    BY <1>1, InitInv, PTL DEF Spec

(* Type correctness: in particular no request is sent more than twice, and *)
(* the names of a chunk are never among the names still to look up.        *)
THEOREM TypeCorrect == Spec => []TypeOK
  BY ExportInvariant, InvImplies, PTL

(* Export drops no metric in use, for any number of concurrent calls and   *)
(* whatever they write to the cache, rows change and entries expire.       *)
THEOREM FilterIsSafe == Spec => []DropsOnlyUnused
  BY ExportInvariant, InvImplies, PTL

(* And it drops every metric that was unused throughout its lookup, unless *)
(* the request has another metric of the same name: one with the same base *)
(* name that is treated otherwise, or one that takes the verdict of a name *)
(* this metric is decided by.                                              *)
THEOREM FilterIsComplete == Spec => []DropsAllUnused
  BY ExportInvariant, InvImplies, PTL
=============================================================================
