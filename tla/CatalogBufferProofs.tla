------------------------ MODULE CatalogBufferProofs ------------------------
(***************************************************************************)
(* Proofs about CatalogBuffer for every set of metrics, requests and       *)
(* concurrent Export calls, every buffer size, with and without Redis.     *)
(***************************************************************************)
EXTENDS CatalogBuffer, FiniteSetTheorems, TLAPS

(***************************************************************************)
(* The inductive invariant.                                                *)
(***************************************************************************)
StoreTypes ==
  /\ pending \subseteq Names /\ catalog \subseteq Names
  /\ seen \subseteq catalog /\ remote \subseteq catalog
ExportTypes ==
  /\ epc \in [Exports -> {"idle", "lookup", "add"}]
  /\ DOMAIN cand = Exports /\ known \in [Exports -> SUBSET Names]
FlusherTypes ==
  /\ fpc \in [Flushers -> {"idle", "upsert", "mark", "requeue", "done"}]
  /\ items \in [Flushers -> SUBSET Names]
ServerTypes ==
  /\ server \in {"serving", "stopping", "stopped", "abandoned", "exited"}
  /\ ctxDone \in BOOLEAN /\ clean \in BOOLEAN /\ overflow \in BOOLEAN

(* A call has finitely many candidates, and what Redis told it is stored.  *)
ExportOK(e) ==
  /\ IsFiniteSet(DOMAIN cand[e]) /\ \A i \in DOMAIN cand[e] : cand[e][i] \in Metrics
  /\ known[e] \subseteq catalog

(* A flusher that waits or has ended holds nothing, and what one is about  *)
(* to mark as seen is stored.                                              *)
FlusherOK(f) ==
  /\ IsFiniteSet(items[f])
  /\ fpc[f] \in {"idle", "done"} => items[f] = {}
  /\ fpc[f] = "mark" => items[f] \subseteq catalog

Capacity == IsFiniteSet(pending) /\ Cardinality(pending) <= BufferSize

(* The names of a metric go through the buffer together: as long as it was *)
(* never full, when one of them is stored or on its way all of them are.   *)
Reached == catalog \cup Held
Together ==
  ~overflow => \A m \in Metrics : NamesOf(m) \cap Reached # {} => NamesOf(m) \subseteq Reached

BufferInv ==
  /\ StoreTypes /\ ExportTypes /\ FlusherTypes /\ ServerTypes
  /\ \A e \in Exports : ExportOK(e)
  /\ \A f \in Flushers : FlusherOK(f)
  /\ Capacity /\ Together

(* What a step may lose. *)
Loses == \A n \in Held \ Held' : n \in catalog' \/ (overflow' /\ Cardinality(pending') = BufferSize)
Safe == BufferInv' /\ Loses

-----------------------------------------------------------------------------
(***************************************************************************)
(* Lemmas about names and about the buffer.                                *)
(***************************************************************************)
LEMMA Suffixes ==
  ASSUME NEW m \in Metrics
  PROVE  Len(NameSuffixes(Kind[m])) \in Nat \ {0}
  BY CatalogAssumption DEF NameSuffixes

LEMMA ItemsOfMetric ==
  ASSUME NEW m \in Metrics
  PROVE  /\ Len(CatalogItems(m)) \in Nat \ {0}
         /\ \A i \in 1..Len(CatalogItems(m)) : CatalogItems(m)[i][1] = m
  BY Suffixes DEF CatalogItems

LEMMA NamesOfMetric ==
  ASSUME NEW m \in Metrics
  PROVE  /\ NamesOf(m) \subseteq Names /\ IsFiniteSet(NamesOf(m)) /\ MetricName(m) \in NamesOf(m)
         /\ \A n \in NamesOf(m) : n[1] = m
  <1> DEFINE D == 1..Len(CatalogItems(m))
             item == [i \in D |-> CatalogItems(m)[i]]
  <1>1. 1 \in D /\ IsFiniteSet(D)
    BY ItemsOfMetric, FS_Interval
  <1>2. item \in Surjection(D, NamesOf(m))
    BY DEF NamesOf, Surjection
  <1>3. IsFiniteSet(NamesOf(m))
    BY <1>1, <1>2, FS_Surjection
  <1>4. MetricName(m) \in NamesOf(m)
    BY <1>1 DEF MetricName, NamesOf
  <1>5. \A n \in NamesOf(m) : n[1] = m
    BY ItemsOfMetric DEF NamesOf
  <1> QED
    BY <1>3, <1>4, <1>5 DEF Names

LEMMA CandidatesAreFinite ==
  ASSUME NEW e \in Exports, ExportOK(e)
  PROVE  /\ CandidateNames(e) \subseteq Names /\ IsFiniteSet(CandidateNames(e))
         /\ \A i \in DOMAIN cand[e] : cand[e][i] \in Metrics /\ NamesOf(cand[e][i]) \subseteq CandidateNames(e)
         /\ \A n \in CandidateNames(e) : \E i \in DOMAIN cand[e] : n \in NamesOf(cand[e][i])
  <1> DEFINE D == DOMAIN cand[e]
             sets == {NamesOf(cand[e][i]) : i \in D}
             names == [i \in D |-> NamesOf(cand[e][i])]
  <1>1. IsFiniteSet(D) /\ \A i \in D : cand[e][i] \in Metrics
    BY DEF ExportOK
  <1>2. names \in Surjection(D, sets)
    BY DEF Surjection
  <1>3. IsFiniteSet(sets)
    BY <1>1, <1>2, FS_Surjection
  <1>4. \A T \in sets : IsFiniteSet(T) /\ T \subseteq Names
    BY <1>1, NamesOfMetric
  <1>5. IsFiniteSet(UNION sets)
    BY <1>3, <1>4, FS_UNION
  <1> QED
    BY <1>1, <1>4, <1>5 DEF CandidateNames

(* The cap on the buffer, and what it means to have dropped a name. *)
LEMMA FitsEffect ==
  ASSUME Capacity, NEW names, IsFiniteSet(names), names \cap pending = {},
         NEW S \in SUBSET names, Fits(S, names), pending' = pending \cup S
  PROVE  Capacity' /\ (S # names => Cardinality(pending') = BufferSize)
  <1>1. IsFiniteSet(S) /\ pending \cap S = {}
    BY FS_Subset
  <1>2. /\ Cardinality(pending) \in Nat /\ Cardinality(S) \in Nat /\ Cardinality(names) \in Nat
        /\ BufferSize \in Nat /\ Cardinality(pending) <= BufferSize /\ IsFiniteSet(pending)
    BY <1>1, FS_CardinalityType, CatalogAssumption DEF Capacity
  <1>3. Cardinality(pending \cap S) = 0
    BY <1>1, FS_EmptySet
  <1>4. IsFiniteSet(pending') /\ Cardinality(pending') = Cardinality(pending) + Cardinality(S)
    <2>1. /\ IsFiniteSet(pending \cup S)
          /\ Cardinality(pending \cup S) = Cardinality(pending) + Cardinality(S) - Cardinality(pending \cap S)
      BY <1>1, <1>2, FS_Union
    <2> QED
      BY <1>2, <1>3, <2>1
  <1>5. CASE Cardinality(names) <= Room
    BY <1>2, <1>4, <1>5 DEF Fits, Room, Capacity
  <1>6. CASE ~(Cardinality(names) <= Room)
    BY <1>2, <1>4, <1>6 DEF Fits, Room, Capacity
  <1> QED
    BY <1>5, <1>6

LEMMA HeldElements ==
  ASSUME NEW n
  PROVE  /\ n \in Held <=> n \in pending \/ \E f \in Flushers : n \in items[f]
         /\ n \in Held' <=> n \in pending' \/ \E f \in Flushers : n \in items'[f]
  BY DEF Held, InFlight, Flushers

LEMMA TogetherKept ==
  ASSUME Together, overflow => overflow', ~overflow' => Reached' = Reached
  PROVE  Together'
  BY DEF Together, NamesOf, CatalogItems

(* The Export calls have nothing to do with a growing catalog. *)
LEMMA SameExports ==
  ASSUME ExportTypes, \A e \in Exports : ExportOK(e), UNCHANGED exportVars, catalog \subseteq catalog'
  PROVE  ExportTypes' /\ \A e \in Exports : ExportOK(e)'
  BY DEF exportVars, ExportTypes, ExportOK

LEMMA SameFlushers ==
  ASSUME FlusherTypes, \A f \in Flushers : FlusherOK(f), UNCHANGED flushVars, catalog \subseteq catalog'
  PROVE  FlusherTypes' /\ \A f \in Flushers : FlusherOK(f)'
  BY DEF flushVars, FlusherTypes, FlusherOK

(* A step of a flusher f. *)
LEMMA GotoEffect ==
  ASSUME FlusherTypes, \A g \in Flushers : FlusherOK(g), catalog \subseteq catalog',
         NEW f \in Flushers, NEW to \in {"idle", "upsert", "mark", "requeue", "done"},
         NEW held \in SUBSET Names, FlushGoto(f, to, held), IsFiniteSet(held),
         to \in {"idle", "done"} => held = {}, to = "mark" => held \subseteq catalog'
  PROVE  /\ FlusherTypes' /\ \A g \in Flushers : FlusherOK(g)'
         /\ items'[f] = held /\ \A g \in Flushers \ {f} : items'[g] = items[g]
  <1>1. /\ FlusherTypes' /\ fpc'[f] = to /\ items'[f] = held
        /\ \A g \in Flushers \ {f} : items'[g] = items[g] /\ fpc'[g] = fpc[g]
    BY DEF FlusherTypes, FlushGoto
  <1>2. \A g \in Flushers : FlusherOK(g)'
    BY <1>1 DEF FlusherOK
  <1> QED
    BY <1>1, <1>2

-----------------------------------------------------------------------------
(***************************************************************************)
(* The steps of an Export call.                                            *)
(***************************************************************************)
LEMMA CandidatesStep ==
  ASSUME BufferInv, NEW e \in Exports, NEW ms \in Requests, CandidatesForBuffer(e, ms)
  PROVE  Safe
  <1> DEFINE cs == [i \in {j \in DOMAIN ms : Candidate(ms[j])} |-> ms[i]]
  <1>1. /\ cand' = [cand EXCEPT ![e] = cs] /\ epc' = [epc EXCEPT ![e] = IF Remote THEN "lookup" ELSE "add"]
        /\ UNCHANGED <<pending, stores, known, flushVars, server, ctxDone, overflow, clean>>
    BY DEF CandidatesForBuffer
  <1>2. IsFiniteSet(DOMAIN cs) /\ \A i \in DOMAIN cs : cs[i] \in Metrics
    <2>1. ms \in Seq(Metrics) /\ DOMAIN ms = 1..Len(ms) /\ Len(ms) \in Nat
      BY CatalogAssumption
    <2>2. IsFiniteSet(DOMAIN ms)
      BY <2>1, FS_Interval
    <2>3. DOMAIN cs \in SUBSET DOMAIN ms /\ \A i \in DOMAIN cs : cs[i] \in Metrics
      BY <2>1
    <2> QED
      BY <2>2, <2>3, FS_Subset
  <1> HIDE DEF cs
  <1>3. ExportTypes' /\ \A q \in Exports : ExportOK(q)'
    BY <1>1, <1>2 DEF BufferInv, ExportTypes, ExportOK, stores
  <1>4. FlusherTypes' /\ \A f \in Flushers : FlusherOK(f)'
    BY <1>1, SameFlushers DEF BufferInv, stores
  <1>5. Held' = Held /\ Reached' = Reached
    BY <1>1 DEF Held, InFlight, Reached, flushVars, stores
  <1>6. StoreTypes' /\ ServerTypes' /\ Capacity' /\ Together'
    BY <1>1, <1>5, TogetherKept DEF BufferInv, StoreTypes, ServerTypes, Capacity, stores
  <1> QED
    BY <1>3, <1>4, <1>5, <1>6 DEF Safe, BufferInv, Loses

LEMMA LookupStep ==
  ASSUME BufferInv, NEW e \in Exports, LookupSeen(e)
  PROVE  Safe
  <1>1. PICK S \in SUBSET (remote \cap CandidateNames(e)) : known' = [known EXCEPT ![e] = S]
    BY DEF LookupSeen
  <1>2. /\ epc' = [epc EXCEPT ![e] = "add"]
        /\ UNCHANGED <<pending, stores, cand, flushVars, server, ctxDone, overflow, clean>>
    BY DEF LookupSeen
  <1>3. S \subseteq catalog /\ S \subseteq Names
    BY <1>1 DEF BufferInv, StoreTypes
  <1>4. ExportTypes' /\ \A q \in Exports : ExportOK(q)'
    BY <1>1, <1>2, <1>3 DEF BufferInv, ExportTypes, ExportOK, stores
  <1>5. FlusherTypes' /\ \A f \in Flushers : FlusherOK(f)'
    BY <1>2, SameFlushers DEF BufferInv, stores
  <1>6. Held' = Held /\ Reached' = Reached
    BY <1>2 DEF Held, InFlight, Reached, flushVars, stores
  <1>7. StoreTypes' /\ ServerTypes' /\ Capacity' /\ Together'
    BY <1>2, <1>6, TogetherKept DEF BufferInv, StoreTypes, ServerTypes, Capacity, stores
  <1> QED
    BY <1>4, <1>5, <1>6, <1>7 DEF Safe, BufferInv, Loses

(* Without an overflow all names of each candidate are reached. *)
LEMMA AddBatchStep ==
  ASSUME BufferInv, NEW e \in Exports, AddBatch(e)
  PROVE  Safe
  <1>1. PICK S \in SUBSET Fresh(e) : /\ Fits(S, Fresh(e)) /\ pending' = pending \cup S
                                     /\ overflow' = (overflow \/ S # Fresh(e))
    BY DEF AddBatch
  <1>2. /\ epc' = [epc EXCEPT ![e] = "idle"] /\ cand' = [cand EXCEPT ![e] = <<>>]
        /\ known' = [known EXCEPT ![e] = {}]
        /\ UNCHANGED <<stores, flushVars, server, ctxDone, clean>>
    BY DEF AddBatch
  <1>3. ExportOK(e) /\ IsFiniteSet(CandidateNames(e)) /\ CandidateNames(e) \subseteq Names
    BY CandidatesAreFinite DEF BufferInv
  <1>4. /\ IsFiniteSet(Fresh(e)) /\ Fresh(e) \subseteq Names /\ Fresh(e) \cap pending = {}
    <2>1. Fresh(e) \in SUBSET CandidateNames(e) /\ Fresh(e) \cap pending = {}
      BY DEF Fresh
    <2> QED
      BY <1>3, <2>1, FS_Subset
  <1>5. Capacity'
    BY <1>1, <1>4, FitsEffect DEF BufferInv
  <1>6. ExportTypes' /\ \A q \in Exports : ExportOK(q)'
    <2>1. DOMAIN <<>> = {} /\ IsFiniteSet({})
      BY FS_EmptySet
    <2>2. catalog' = catalog
      BY <1>2 DEF stores
    <2> QED
      BY <1>2, <2>1, <2>2 DEF BufferInv, ExportTypes, ExportOK
  <1>7. FlusherTypes' /\ \A f \in Flushers : FlusherOK(f)'
    BY <1>2, SameFlushers DEF BufferInv, stores
  <1>8. Held' = Held \cup S /\ Reached' = Reached \cup S
    BY <1>1, <1>2 DEF Held, InFlight, Reached, flushVars, stores
  <1>9. StoreTypes' /\ ServerTypes'
    BY <1>1, <1>2, <1>4 DEF BufferInv, StoreTypes, ServerTypes, stores
  <1>10. Together'
    <2> SUFFICES ASSUME ~overflow', NEW m \in Metrics, NEW n \in NamesOf(m), n \in Reached'
                 PROVE  NamesOf(m) \subseteq Reached'
      BY DEF Together, NamesOf, CatalogItems
    <2>1. S = Fresh(e) /\ ~overflow
      BY <1>1
    <2>2. CASE n \in Reached
      BY <1>8, <2>1, <2>2 DEF BufferInv, Together
    <2>3. CASE n \in S
      <3>1. PICK i \in DOMAIN cand[e] : n \in NamesOf(cand[e][i])
        BY <1>3, <2>3, CandidatesAreFinite DEF Fresh
      <3>2. cand[e][i] = m /\ NamesOf(m) \subseteq CandidateNames(e)
        BY <1>3, <3>1, CandidatesAreFinite, NamesOfMetric
      <3>3. NamesOf(m) \subseteq pending \cup known[e] \cup S
        BY <2>1, <3>2 DEF Fresh
      <3>4. known[e] \subseteq catalog
        BY <1>3 DEF ExportOK
      <3> QED
        BY <1>8, <3>3, <3>4 DEF Reached, Held
    <2> QED
      BY <1>8, <2>2, <2>3
  <1> QED
    BY <1>5, <1>6, <1>7, <1>8, <1>9, <1>10 DEF Safe, BufferInv, Loses

-----------------------------------------------------------------------------
(***************************************************************************)
(* The steps of a flush.                                                   *)
(***************************************************************************)
LEMMA DrainStep ==
  ASSUME BufferInv, NEW f \in Flushers, Drain(f)
  PROVE  Safe
  <1> DEFINE to == IF f = "ticker" /\ ctxDone THEN "requeue" ELSE "upsert"
  <1>1. /\ pending' = {} /\ FlushGoto(f, to, pending) /\ fpc[f] = "idle"
        /\ UNCHANGED <<stores, exportVars, server, ctxDone, overflow, clean>>
    BY DEF Drain, MayFlush
  <1>2. pending \in SUBSET Names /\ IsFiniteSet(pending) /\ to \in {"requeue", "upsert"} /\ catalog' = catalog
    BY <1>1 DEF BufferInv, StoreTypes, Capacity, stores
  <1> HIDE DEF to
  <1>3. /\ FlusherTypes' /\ \A g \in Flushers : FlusherOK(g)'
        /\ items'[f] = pending /\ \A g \in Flushers \ {f} : items'[g] = items[g]
    BY <1>1, <1>2, GotoEffect DEF BufferInv
  <1>4. items[f] = {}
    BY <1>1 DEF BufferInv, FlusherOK
  <1>5. Held' = Held
    <2>1. ASSUME NEW n PROVE n \in Held' <=> n \in Held
      BY <1>1, <1>3, <1>4, HeldElements
    <2> QED
      BY <2>1
  <1>6. Reached' = Reached
    BY <1>2, <1>5 DEF Reached
  <1>7. Capacity'
    BY <1>1, FS_EmptySet, CatalogAssumption DEF Capacity
  <1>8. ExportTypes' /\ \A e \in Exports : ExportOK(e)'
    BY <1>1, <1>2, SameExports DEF BufferInv
  <1>9. StoreTypes' /\ ServerTypes' /\ Together'
    BY <1>1, <1>6, TogetherKept DEF BufferInv, StoreTypes, ServerTypes, stores
  <1> QED
    BY <1>3, <1>5, <1>7, <1>8, <1>9 DEF Safe, BufferInv, Loses

LEMMA UpsertStep ==
  ASSUME BufferInv, NEW f \in Flushers, UpsertOK(f) \/ UpsertFail(f)
  PROVE  Safe
  <1>1. /\ UNCHANGED <<pending, seen, remote, exportVars, server, ctxDone, overflow>>
        /\ clean' \in BOOLEAN
        /\ \/ FlushGoto(f, "mark", items[f]) /\ catalog' = catalog \cup items[f]
           \/ FlushGoto(f, "requeue", items[f]) /\ catalog' = catalog
    BY DEF UpsertOK, UpsertFail, BufferInv, ServerTypes, stores
  <1>2. items[f] \in SUBSET Names /\ IsFiniteSet(items[f])
    BY DEF BufferInv, FlusherTypes, FlusherOK
  <1>3. catalog \subseteq catalog' /\ catalog' \subseteq catalog \cup items[f]
    BY <1>1
  <1>4. /\ FlusherTypes' /\ \A g \in Flushers : FlusherOK(g)'
        /\ items'[f] = items[f] /\ \A g \in Flushers \ {f} : items'[g] = items[g]
    BY <1>1, <1>2, <1>3, GotoEffect DEF BufferInv
  <1>5. Held' = Held
    <2>1. ASSUME NEW n PROVE n \in Held' <=> n \in Held
      BY <1>1, <1>4, HeldElements
    <2> QED
      BY <2>1
  <1>6. Reached' = Reached
    <2>1. items[f] \subseteq Held
      BY HeldElements
    <2> QED
      BY <1>3, <1>5, <2>1 DEF Reached
  <1>7. ExportTypes' /\ \A e \in Exports : ExportOK(e)'
    BY <1>1, <1>3, SameExports DEF BufferInv
  <1>8. StoreTypes' /\ ServerTypes' /\ Capacity' /\ Together'
    BY <1>1, <1>2, <1>3, <1>6, TogetherKept DEF BufferInv, StoreTypes, ServerTypes, Capacity
  <1> QED
    BY <1>4, <1>5, <1>7, <1>8 DEF Safe, BufferInv, Loses

(* The last step of a flush: the flusher holds nothing any more. *)
LEMMA AfterFlushEffect ==
  ASSUME BufferInv, NEW f \in Flushers, AfterFlush(f), catalog' = catalog
  PROVE  /\ FlusherTypes' /\ \A g \in Flushers : FlusherOK(g)'
         /\ items'[f] = {} /\ \A g \in Flushers \ {f} : items'[g] = items[g]
         /\ server' \in {"serving", "stopping", "stopped", "abandoned", "exited"}
  <1>1. /\ FlushGoto(f, IF f = "shutdown" THEN "done" ELSE "idle", {})
        /\ server' = IF f = "shutdown" THEN "exited" ELSE server
    BY DEF AfterFlush
  <1>2. {} \in SUBSET Names /\ IsFiniteSet({})
    BY FS_EmptySet
  <1>3. /\ FlusherTypes' /\ \A g \in Flushers : FlusherOK(g)'
        /\ items'[f] = {} /\ \A g \in Flushers \ {f} : items'[g] = items[g]
    BY <1>1, <1>2, GotoEffect DEF BufferInv
  <1> QED
    BY <1>1, <1>3 DEF BufferInv, ServerTypes

LEMMA RequeueStep ==
  ASSUME BufferInv, NEW f \in Flushers, Requeue(f)
  PROVE  Safe
  <1> DEFINE back == items[f] \ pending
  <1>1. PICK S \in SUBSET back : /\ Fits(S, back) /\ pending' = pending \cup S
                                 /\ overflow' = (overflow \/ S # back)
    BY DEF Requeue
  <1>2. AfterFlush(f) /\ UNCHANGED <<stores, exportVars, ctxDone, clean>>
    BY DEF Requeue
  <1>3. catalog' = catalog /\ seen' = seen /\ remote' = remote
    BY <1>2 DEF stores
  <1>4. /\ FlusherTypes' /\ \A g \in Flushers : FlusherOK(g)'
        /\ items'[f] = {} /\ \A g \in Flushers \ {f} : items'[g] = items[g]
        /\ server' \in {"serving", "stopping", "stopped", "abandoned", "exited"}
    BY <1>2, <1>3, AfterFlushEffect
  <1>5. items[f] \subseteq Names /\ IsFiniteSet(items[f])
    BY DEF BufferInv, FlusherTypes, FlusherOK
  <1>6. Capacity' /\ (S # back => Cardinality(pending') = BufferSize)
    <2>1. IsFiniteSet(back) /\ back \cap pending = {}
      BY <1>5, FS_Difference
    <2> HIDE DEF back
    <2> QED
      BY <1>1, <2>1, FitsEffect DEF BufferInv
  <1>7. ASSUME NEW n \in Held PROVE n \in Held' \/ (n \in back /\ n \notin S)
    <2>1. CASE n \in pending
      BY <1>1, <2>1, HeldElements
    <2>2. CASE n \in items[f] /\ n \notin pending
      BY <1>1, <2>2, HeldElements
    <2>3. CASE \E g \in Flushers \ {f} : n \in items[g]
      BY <1>4, <2>3, HeldElements
    <2> QED
      BY <2>1, <2>2, <2>3, HeldElements
  <1>8. ASSUME NEW n \in Held' PROVE n \in Held
    BY <1>1, <1>4, <1>8, HeldElements
  <1>9. Loses
    BY <1>1, <1>6, <1>7 DEF Loses
  <1>10. Together'
    <2>1. ~overflow' => Held' = Held
      BY <1>1, <1>7, <1>8
    <2> QED
      BY <1>1, <1>3, <2>1, TogetherKept DEF Reached, BufferInv
  <1>11. ExportTypes' /\ \A e \in Exports : ExportOK(e)'
    BY <1>2, <1>3, SameExports DEF BufferInv
  <1>12. StoreTypes' /\ ServerTypes'
    BY <1>1, <1>2, <1>3, <1>4, <1>5 DEF BufferInv, StoreTypes, ServerTypes
  <1> QED
    BY <1>4, <1>6, <1>9, <1>10, <1>11, <1>12 DEF Safe, BufferInv

LEMMA MarkStep ==
  ASSUME BufferInv, NEW f \in Flushers, MarkFlushed(f)
  PROVE  Safe
  <1>1. /\ fpc[f] = "mark" /\ AfterFlush(f) /\ (MarkSeen(f) \/ MarkMany(f))
        /\ UNCHANGED <<pending, catalog, exportVars, ctxDone, overflow, clean>>
    BY DEF MarkFlushed
  <1>2. items[f] \subseteq catalog
    BY <1>1 DEF BufferInv, FlusherOK
  <1>3. /\ FlusherTypes' /\ \A g \in Flushers : FlusherOK(g)'
        /\ items'[f] = {} /\ \A g \in Flushers \ {f} : items'[g] = items[g]
        /\ server' \in {"serving", "stopping", "stopped", "abandoned", "exited"}
    BY <1>1, AfterFlushEffect
  <1>4. ASSUME NEW n \in Held PROVE n \in Held' \/ n \in catalog
    BY <1>1, <1>2, <1>3, <1>4, HeldElements
  <1>5. ASSUME NEW n \in Held' PROVE n \in Held
    BY <1>1, <1>3, <1>5, HeldElements
  <1>6. Loses /\ Reached' = Reached
    BY <1>1, <1>4, <1>5 DEF Loses, Reached
  <1>7. StoreTypes'
    BY <1>1, <1>2 DEF BufferInv, StoreTypes, MarkSeen, MarkMany
  <1>8. ExportTypes' /\ \A e \in Exports : ExportOK(e)'
    BY <1>1, SameExports DEF BufferInv
  <1>9. ServerTypes' /\ Capacity' /\ Together'
    BY <1>1, <1>3, <1>6, TogetherKept DEF BufferInv, ServerTypes, Capacity
  <1> QED
    BY <1>3, <1>6, <1>7, <1>8, <1>9 DEF Safe, BufferInv

-----------------------------------------------------------------------------
LEMMA TickerStopsStep ==
  ASSUME BufferInv, TickerStops
  PROVE  Safe
  <1>1. /\ fpc["ticker"] = "idle" /\ FlushGoto("ticker", "done", {})
        /\ UNCHANGED <<pending, stores, exportVars, server, ctxDone, overflow, clean>>
    BY DEF TickerStops
  <1>2. "ticker" \in Flushers /\ {} \in SUBSET Names /\ IsFiniteSet({}) /\ catalog' = catalog
    BY <1>1, FS_EmptySet DEF Flushers, stores
  <1>3. /\ FlusherTypes' /\ \A g \in Flushers : FlusherOK(g)'
        /\ items'["ticker"] = {} /\ \A g \in Flushers \ {"ticker"} : items'[g] = items[g]
    BY <1>1, <1>2, GotoEffect DEF BufferInv
  <1>4. items["ticker"] = {}
    BY <1>1, <1>2 DEF BufferInv, FlusherOK
  <1>5. Held' = Held /\ Reached' = Reached
    BY <1>1, <1>2, <1>3, <1>4 DEF Held, InFlight, Reached, Flushers
  <1>6. ExportTypes' /\ \A e \in Exports : ExportOK(e)'
    BY <1>1, <1>2, SameExports DEF BufferInv
  <1>7. StoreTypes' /\ ServerTypes' /\ Capacity' /\ Together'
    BY <1>1, <1>5, TogetherKept DEF BufferInv, StoreTypes, ServerTypes, Capacity, stores
  <1> QED
    BY <1>3, <1>5, <1>6, <1>7 DEF Safe, BufferInv, Loses

(* Expiry, the server and stuttering leave the buffer and the flushers alone. *)
LEMMA OtherSteps ==
  ASSUME BufferInv, UNCHANGED <<pending, catalog, exportVars, flushVars, overflow>>,
         seen' \subseteq seen, remote' \subseteq remote, ServerTypes'
  PROVE  Safe
  <1>1. Held' = Held /\ Reached' = Reached
    BY DEF Held, InFlight, Reached, flushVars
  <1>2. FlusherTypes' /\ \A f \in Flushers : FlusherOK(f)'
    BY SameFlushers DEF BufferInv
  <1>3. ExportTypes' /\ \A e \in Exports : ExportOK(e)'
    BY SameExports DEF BufferInv
  <1>4. StoreTypes' /\ Capacity' /\ Together'
    BY <1>1, TogetherKept DEF BufferInv, StoreTypes, Capacity
  <1> QED
    BY <1>1, <1>2, <1>3, <1>4 DEF Safe, BufferInv, Loses

LEMMA ServerSteps ==
  ASSUME BufferInv,
         \/ \E n \in Names : Expire(n)
         \/ Cancel \/ GracefulStop \/ GracefulStopEnds \/ StopTimesOut \/ NothingToFlush
         \/ ServeFails \/ Exited \/ UNCHANGED vars
  PROVE  Safe
  <1>1. CASE \E n \in Names : Expire(n)
    BY <1>1, OtherSteps DEF Expire, BufferInv, ServerTypes
  <1>2. CASE Cancel
    BY <1>2, OtherSteps DEF Cancel, stores, BufferInv, ServerTypes
  <1>3. CASE GracefulStop \/ GracefulStopEnds \/ StopTimesOut \/ NothingToFlush \/ ServeFails
    <2>1. /\ UNCHANGED <<pending, stores, exportVars, flushVars, ctxDone, overflow>>
          /\ server' \in {"stopping", "stopped", "abandoned", "exited"} /\ clean' \in {clean, FALSE}
      BY <1>3 DEF GracefulStop, GracefulStopEnds, StopTimesOut, NothingToFlush, ServeFails, Serve
    <2> QED
      BY <2>1, OtherSteps DEF stores, BufferInv, ServerTypes
  <1>4. CASE Exited \/ UNCHANGED vars
    BY <1>4, OtherSteps DEF Exited, vars, stores, BufferInv, ServerTypes
  <1> QED
    BY <1>1, <1>2, <1>3, <1>4

LEMMA NextSafe == BufferInv /\ [Next]_vars => Safe
  <1> SUFFICES ASSUME BufferInv, [Next]_vars PROVE Safe
    OBVIOUS
  <1>1. ASSUME NEW e \in Exports, Buffering(e) PROVE Safe
    BY <1>1, CandidatesStep, LookupStep, AddBatchStep DEF Buffering
  <1>2. ASSUME NEW f \in Flushers, Flush(f) PROVE Safe
    BY <1>2, DrainStep, UpsertStep, RequeueStep, MarkStep DEF Flush
  <1>3. Flush("ticker") \/ Flush("shutdown") => Safe
    BY <1>2 DEF Flushers
  <1> QED
    BY <1>1, <1>3, TickerStopsStep, ServerSteps DEF Next, Shutdown

LEMMA InitInv == Init => BufferInv
  <1> SUFFICES ASSUME Init PROVE BufferInv
    OBVIOUS
  <1>1. IsFiniteSet({}) /\ Cardinality({}) = 0 /\ DOMAIN <<>> = {}
    BY FS_EmptySet
  <1>2. StoreTypes /\ ServerTypes /\ Capacity
    <2>1. StoreTypes
      BY DEF Init, StoreTypes
    <2>2. ServerTypes
      BY DEF Init, ServerTypes
    <2>3. Capacity
      BY <1>1, CatalogAssumption DEF Init, Capacity
    <2> QED
      BY <2>1, <2>2, <2>3
  <1>3. ExportTypes /\ \A e \in Exports : ExportOK(e)
    BY <1>1 DEF Init, ExportTypes, ExportOK
  <1>4. FlusherTypes /\ \A f \in Flushers : FlusherOK(f)
    BY <1>1 DEF Init, FlusherTypes, FlusherOK
  <1>5. Together
    <2>1. Reached = {}
      BY DEF Init, Reached, Held, InFlight, Flushers
    <2> QED
      BY <2>1 DEF Together
  <1> QED
    BY <1>2, <1>3, <1>4, <1>5 DEF BufferInv

LEMMA SpecInv == Spec => []BufferInv
  <1>1. BufferInv /\ [Next]_vars => BufferInv'
    BY NextSafe DEF Safe
  <1> QED
    BY <1>1, InitInv, PTL DEF Spec

(* Whatever Export calls and failing flushes come back at once, the buffer *)
(* never holds more than catalog_sync.buffer_size names (addBatch and      *)
(* requeue test len(b.pending) for each name).                             *)
THEOREM TypeCorrect == Spec => []TypeOK
  <1>1. BufferInv => TypeOK
    <2> SUFFICES ASSUME BufferInv PROVE TypeOK
      OBVIOUS
    <2>1. {pending, seen, remote, catalog} \subseteq SUBSET Names
      BY DEF BufferInv, StoreTypes
    <2>2. \A e \in Exports : (\A i \in DOMAIN cand[e] : cand[e][i] \in Metrics) /\ known[e] \subseteq Names
      BY DEF BufferInv, ExportTypes, ExportOK
    <2>3. {ctxDone, clean, overflow} \subseteq BOOLEAN
      BY DEF BufferInv, ServerTypes
    <2> QED
      BY <2>1, <2>2, <2>3 DEF BufferInv, ExportTypes, FlusherTypes, ServerTypes, Capacity, TypeOK
  <1> QED
    BY <1>1, SpecInv, PTL

(* A suppressed name is in metrics_catalog: candidatesForBuffer and addBatch *)
(* skip a name only if an upsert of it has succeeded, in every interleaving *)
(* of Export calls, background and shutdown flush, failure and expiry.     *)
THEOREM SuppressionIsSafe == Spec => []SeenIsStored
  <1>1. BufferInv => SeenIsStored
    BY DEF BufferInv, StoreTypes, SeenIsStored
  <1> QED
    BY <1>1, SpecInv, PTL

(* candidatesForBuffer looks at the base name only: as long as the buffer  *)
(* was never full, the variants of a suppressed metric are in the database *)
(* or on their way, although addBatch runs after the lock was released and *)
(* Redis may know some of the names only.                                  *)
THEOREM VariantsFollowBase == Spec => []SuppressedVariantsStored
  <1>1. BufferInv => SuppressedVariantsStored
    <2> SUFFICES ASSUME BufferInv, NEW m \in Metrics, MetricName(m) \in seen, ~overflow
                 PROVE  NamesOf(m) \subseteq catalog \cup Held
      BY DEF SuppressedVariantsStored
    <2>1. MetricName(m) \in NamesOf(m) \cap Reached
      BY NamesOfMetric DEF BufferInv, StoreTypes, Reached
    <2> QED
      BY <2>1 DEF BufferInv, Together, Reached
  <1> QED
    BY <1>1, SpecInv, PTL

(* No step of any Export call, flush, failure or shutdown drops a name     *)
(* that the buffer or a flusher holds unless it is in the database or the  *)
(* buffer is full (drain, requeue, markFlushed).                           *)
THEOREM NothingLostSilently == Spec => NoSilentLoss
  <1>1. BufferInv /\ [Next]_vars =>
          [\A n \in Held \ Held' : n \in catalog' \/ Cardinality(pending') = BufferSize]_vars
    BY NextSafe DEF Safe, Loses
  <1> QED
    BY <1>1, SpecInv, PTL DEF Spec, NoSilentLoss
=============================================================================
