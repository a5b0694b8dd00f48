--------------------------- MODULE QueryIngester ---------------------------
(***************************************************************************)
(* The query ingester of the proxy (internal/ingester/queryIngester.go).   *)
(* Every HTTP handler that proxied a query calls Ingest once; one          *)
(* goroutine executes Run, which moves queries from the buffered channel   *)
(* queriesC to a batch, and the batch to the database.  When its context   *)
(* is cancelled, Run closes the channel under the write lock and drains    *)
(* what is left within a grace period, still holding the lock.             *)
(***************************************************************************)
EXTENDS Naturals, Sequences

CONSTANTS
  Queries,     \* the queries proxied; the handler of q calls Ingest(q) once
  BufferSize,  \* capacity of queriesC (WithBufferSize)
  BatchSize,   \* rows per Insert (WithBatchSize)
  DBMayFail    \* TRUE: Insert may fail for reasons other than its context

ASSUME ConstAssumption ==
  /\ BufferSize \in Nat \ {0}
  /\ BatchSize \in Nat \ {0}
  /\ DBMayFail \in BOOLEAN

VARIABLES
  hpc,        \* hpc[q]: where the handler of q is in Ingest
  queue,      \* content of queriesC, oldest first
  closed,     \* the field i.closed, and close(queriesC) has happened
  rpc,        \* where Run is
  batch,      \* the slice batch
  ctxDone,    \* the context of Run is cancelled
  graceDone,  \* the grace period of the drain is over
  parsed,     \* queries whose Fingerprint and LabelMatchers have been set
  accepted,   \* history: queries sent to queriesC, in order
  settled,    \* history: queries handed to an Insert that returned, in order
  stored      \* history: the queries an Insert reported as written

contexts == <<ctxDone, graceDone>>
outcome == <<settled, stored>>
vars == <<hpc, queue, closed, rpc, batch, contexts, parsed, accepted, outcome>>

(***************************************************************************)
(* hpc[q]: "ready"   before i.mu.RLock()                                   *)
(*         "sending" read lock held, i.closed was FALSE, before the send   *)
(*         "accepted", "blocked", "closed"  returned, and how              *)
(* rpc:    "select"  in the select of Run                                  *)
(*         "flush", "insert"  before and inside dbProvider.Insert          *)
(*         "locking" in i.mu.Lock()                                        *)
(*         "drain", "drainFlush", "drainInsert"  in drainWithGracePeriod   *)
(*         "done"    Run has returned                                      *)
(***************************************************************************)
Returned == {"accepted", "blocked", "closed"}
Draining == {"drain", "drainFlush", "drainInsert"}
Flushing == {"flush", "drainFlush"}
Inserting == {"insert", "drainInsert"}

(* sync.RWMutex i.mu: who holds it; a waiting writer keeps new readers out *)
Readers == {q \in Queries : hpc[q] = "sending"}
WriterHoldsForever == rpc \in Draining \cup {"done"}  \* mutant: no deferred Unlock
WriterHolds == rpc \in Draining
WriterWaits == rpc = "locking"

Init ==
  /\ hpc = [q \in Queries |-> "ready"]
  /\ queue = <<>> /\ closed = FALSE
  /\ rpc = "select" /\ batch = <<>>
  /\ ctxDone = FALSE /\ graceDone = FALSE
  /\ parsed = {}
  /\ accepted = <<>> /\ settled = <<>> /\ stored = {}

(***************************************************************************)
(* Ingest(query), called by the handler of q: RLock and the test of        *)
(* i.closed, then the non-blocking send; RUnlock comes with the return.    *)
(***************************************************************************)
IngestEnter(q) ==
  /\ hpc[q] = "ready"
  /\ ~WriterHolds /\ ~WriterWaits
  /\ hpc' = [hpc EXCEPT ![q] = IF closed THEN "closed" ELSE "sending"]
  /\ UNCHANGED <<queue, closed, rpc, batch, contexts, parsed, accepted, outcome>>

IngestSend(q) ==
  /\ hpc[q] = "sending"
  /\ \/ /\ Len(queue) < BufferSize
        /\ hpc' = [hpc EXCEPT ![q] = "accepted"]
        /\ queue' = Append(queue, q)
        /\ accepted' = Append(accepted, q)
     \/ /\ Len(queue) >= BufferSize
        /\ hpc' = [hpc EXCEPT ![q] = "blocked"]
        /\ UNCHANGED <<queue, accepted>>
  /\ UNCHANGED <<closed, rpc, batch, contexts, parsed, outcome>>

(***************************************************************************)
(* Run(ctx).  The select takes any ready case.                             *)
(***************************************************************************)
(* Mutant of Take: the batch is flushed one query too late.                *)
TakeLate(flush) ==
  /\ queue # <<>>
  /\ batch' = Append(batch, Head(queue))
  /\ queue' = Tail(queue)
  /\ rpc' = IF Len(batch) + 1 > BatchSize THEN flush ELSE rpc
  /\ UNCHANGED <<hpc, closed, contexts, accepted, outcome>>

(* Move the oldest query to the batch; a full batch is handed to Insert.   *)
Take(flush) ==
  /\ queue # <<>>
  /\ batch' = Append(batch, Head(queue))
  /\ queue' = Tail(queue)
  /\ rpc' = IF Len(batch) + 1 >= BatchSize THEN flush ELSE rpc
  /\ UNCHANGED <<hpc, closed, contexts, accepted, outcome>>

(* Mutant of RunReceive: the query joins the batch as it came.             *)
RunReceiveRaw == rpc = "select" /\ Take("flush") /\ UNCHANGED parsed

RunReceive ==
  /\ rpc = "select"
  /\ Take("flush")
  /\ parsed' = parsed \cup {Head(queue)}

Goto(pc) ==
  /\ rpc' = pc
  /\ UNCHANGED <<hpc, queue, closed, batch, contexts, parsed, accepted, outcome>>

(* Mutant of RunTick: the ticker leaves partial batches alone.             *)
RunTickFull == rpc = "select" /\ Len(batch) >= BatchSize /\ Goto("flush")

RunTick == rpc = "select" /\ batch # <<>> /\ Goto("flush")

RunCtxDone == rpc = "select" /\ ctxDone /\ Goto("locking")

(* Mutants of RunClose: the channel is closed without excluding the        *)
(* readers; the channel is not closed at all.                              *)
RunCloseUnlocked ==
  /\ rpc = "locking"
  /\ closed' = TRUE
  /\ rpc' = "drain"
  /\ UNCHANGED <<hpc, queue, batch, contexts, parsed, accepted, outcome>>

RunCloseForgotten == rpc = "locking" /\ Readers = {} /\ Goto("drain")

RunClose ==
  /\ rpc = "locking" /\ Readers = {}
  /\ closed' = TRUE
  /\ rpc' = "drain"
  /\ UNCHANGED <<hpc, queue, batch, contexts, parsed, accepted, outcome>>

(***************************************************************************)
(* drainWithGracePeriod(batch): queries received here are not parsed.      *)
(* Once the closed channel is empty, the last partial batch is flushed and *)
(* Run returns, which releases the write lock.                             *)
(***************************************************************************)
DrainReceive ==
  /\ rpc = "drain"
  /\ Take("drainFlush")
  /\ UNCHANGED parsed

(* Mutant of DrainEnd: the last partial batch is not flushed.              *)
DrainEndPartial == rpc = "drain" /\ closed /\ queue = <<>> /\ Goto("done")

DrainEnd ==
  /\ rpc = "drain" /\ closed /\ queue = <<>>
  /\ Goto(IF batch # <<>> THEN "drainFlush" ELSE "done")

(***************************************************************************)
(* ingest(ctx, queries).  An Insert whose context is already cancelled     *)
(* fails at once; one under way may succeed or fail.  A failure is only    *)
(* logged: the caller empties the batch either way.                        *)
(***************************************************************************)
InsertCtxDone == IF rpc \in Draining THEN graceDone ELSE ctxDone

(* Mutant of Settle: batch = batch[:0] is missing.                         *)
SettleKeep ==
  /\ settled' = settled \o batch
  /\ rpc' = IF rpc \in Draining THEN "drain" ELSE "select"
  /\ UNCHANGED <<hpc, queue, closed, batch, contexts, parsed, accepted>>

Settle ==
  /\ settled' = settled \o batch
  /\ batch' = <<>>
  /\ rpc' = IF rpc \in Draining THEN "drain" ELSE "select"
  /\ UNCHANGED <<hpc, queue, closed, contexts, parsed, accepted>>

InsertStart ==
  /\ rpc \in Flushing /\ ~InsertCtxDone
  /\ Goto(IF rpc \in Draining THEN "drainInsert" ELSE "insert")

(* Mutant of InsertOK: only the last row of the batch is written.          *)
InsertOKLast ==
  /\ rpc \in Inserting
  /\ stored' = stored \cup {batch[Len(batch)]}
  /\ Settle

InsertOK ==
  /\ rpc \in Inserting
  /\ stored' = stored \cup {batch[i] : i \in 1..Len(batch)}
  /\ Settle

InsertFail ==
  /\ \/ rpc \in Flushing /\ InsertCtxDone
     \/ rpc \in Inserting /\ (InsertCtxDone \/ DBMayFail)
  /\ Settle
  /\ UNCHANGED stored

(* The run group interrupts the actor; the grace timer fires.              *)
Cancel ==
  /\ ~ctxDone /\ ctxDone' = TRUE
  /\ UNCHANGED <<hpc, queue, closed, rpc, batch, graceDone, parsed, accepted, outcome>>

GraceExpires ==
  /\ rpc \in Draining
  /\ ~graceDone /\ graceDone' = TRUE
  /\ UNCHANGED <<hpc, queue, closed, rpc, batch, ctxDone, parsed, accepted, outcome>>

Ingest(q) == IngestEnter(q) \/ IngestSend(q)

Run ==
  \/ RunReceive \/ RunTick \/ RunCtxDone \/ RunClose
  \/ DrainReceive \/ DrainEnd
  \/ InsertStart \/ InsertOK \/ InsertFail

(* Run and every handler have returned. *)
Terminated ==
  /\ rpc = "done" /\ \A q \in Queries : hpc[q] \in Returned
  /\ UNCHANGED vars

Next ==
  \/ \E q \in Queries : Ingest(q)
  \/ Run
  \/ Cancel
  \/ GraceExpires
  \/ Terminated

Spec == Init /\ [][Next]_vars

(***************************************************************************)
(* Fairness: the Go scheduler runs every runnable goroutine, the flush     *)
(* ticker fires, and Insert returns (its context has a timeout).  Nothing  *)
(* is assumed of Cancel and of the grace timer.                            *)
(***************************************************************************)
FairSpec == Spec /\ WF_vars(Run) /\ \A q \in Queries : WF_vars(Ingest(q))
-----------------------------------------------------------------------------
(***************************************************************************)
(* Properties.                                                             *)
(***************************************************************************)

(* The values every variable ranges over; the channel and the batch keep   *)
(* to their limits, and the batch has room whenever Run is about to        *)
(* receive.                                                                *)
TypeOK ==
  /\ hpc \in [Queries -> {"ready", "sending"} \cup Returned]
  /\ queue \in Seq(Queries) /\ batch \in Seq(Queries)
  /\ rpc \in {"select", "flush", "insert", "locking", "done"} \cup Draining
  /\ closed \in BOOLEAN /\ ctxDone \in BOOLEAN /\ graceDone \in BOOLEAN
  /\ parsed \in SUBSET Queries
  /\ accepted \in Seq(Queries) /\ settled \in Seq(Queries)
  /\ stored \in SUBSET Queries
  /\ Len(queue) <= BufferSize /\ Len(batch) <= BatchSize
  /\ rpc \in {"select", "locking", "drain"} => Len(batch) < BatchSize

(* A send on a closed channel panics the whole process: no handler that    *)
(* read i.closed as FALSE is still about to send once Run has closed       *)
(* queriesC, because Run closes it only under the write lock.              *)
NoSendOnClosedChannel == closed => Readers = {}

(* Conservation and order: the queries accepted by Ingest are, in the      *)
(* order of their acceptance, those Insert has answered for, then those in *)
(* the batch, then those in the channel.  None is duplicated, reordered or *)
(* forgotten between the channel, the batch and the database, in the       *)
(* normal loop as in the drain.                                            *)
FIFOConservation == accepted = settled \o batch \o queue

(* When Run has returned, Insert has been tried for every query that       *)
(* Ingest ever accepted: none is stranded in the channel, and no later     *)
(* Ingest can put one there.                                               *)
ReturnMeansSettled == rpc = "done" => closed /\ accepted = settled

(* Only the drain writes a query without fingerprint and label matchers:   *)
(* while the process is not shutting down, every row can be attributed to  *)
(* the metrics it reads.                                                   *)
UnparsedOnlyInDrain == stored \subseteq parsed \/ closed

(* The inductive strengthening of the safety properties above: what the    *)
(* position of Run says of the lock, the channel and the batch, and that   *)
(* the handler of q knows whether q was accepted.                          *)
IInv ==
  /\ TypeOK /\ NoSendOnClosedChannel /\ FIFOConservation
  /\ closed <=> rpc \in Draining \cup {"done"}
  /\ rpc = "done" => queue = <<>> /\ batch = <<>>
  /\ ~closed => /\ stored \subseteq parsed
                /\ \A i \in 1..Len(batch) : batch[i] \in parsed
  /\ \A i \in 1..Len(accepted) : hpc[accepted[i]] = "accepted"
  /\ rpc \in Flushing \cup Inserting => batch # <<>>

(* The promise of the ingester as a component, IngestLog: a log of         *)
(* accepted queries that grows only while open, whose entries are settled  *)
(* in order, batch by batch, each batch stored as a whole or not at all.   *)
Log == INSTANCE IngestLog WITH
         log <- accepted, open <- ~closed, done <- Len(settled), kept <- stored
ImplementsIngestLog == Log!Spec

(* Shutdown terminates: after the context is cancelled, Run returns.       *)
ShutdownTerminates == ctxDone ~> rpc = "done"

(* No caller of Ingest is blocked for ever, the drain included.            *)
IngestReturns == \A q \in Queries : <>(hpc[q] \in Returned)

(* Every accepted query is eventually handed to the database, cancelled or *)
(* not: the ticker flushes partial batches.                                *)
AcceptedIsSettled ==
  \A q \in Queries :
    hpc[q] = "accepted" ~> \E i \in 1..Len(settled) : settled[i] = q

(* What the flag -insert-grace-period promises: pending queries are        *)
(* inserted after shutdown.  With a database that does not fail and a      *)
(* grace period that is long enough, every accepted query is stored.       *)
GraceInsertsPending ==
  rpc = "done" /\ ~graceDone /\ ~DBMayFail =>
    \A i \in 1..Len(accepted) : accepted[i] \in stored
=============================================================================
