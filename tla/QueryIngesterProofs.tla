------------------------ MODULE QueryIngesterProofs ------------------------
(***************************************************************************)
(* Proofs about QueryIngester for every set of queries, every buffer and   *)
(* batch size and every behaviour of the database.                         *)
(***************************************************************************)
EXTENDS QueryIngester, SequenceTheorems, TLAPS

(***************************************************************************)
(* Lemmas about the sequences of the model.                                *)
(***************************************************************************)

(* Receiving moves the boundary between batch and channel by one query.    *)
LEMMA TakeConcat ==
  ASSUME NEW S, NEW b \in Seq(S), NEW s \in Seq(S), s # <<>>
  PROVE  Append(b, Head(s)) \o Tail(s) = b \o s
<1> DEFINE l == Append(b, Head(s)) \o Tail(s)
           r == b \o s
<1>1. Head(s) \in S /\ Tail(s) \in Seq(S) /\ Len(Tail(s)) = Len(s) - 1
      /\ \A i \in 1 .. Len(Tail(s)) : Tail(s)[i] = s[i+1]
  BY HeadTailProperties
<1>2. Append(b, Head(s)) \in Seq(S) /\ Len(Append(b, Head(s))) = Len(b) + 1
      /\ \A i \in 1 .. Len(b) : Append(b, Head(s))[i] = b[i]
      /\ Append(b, Head(s))[Len(b) + 1] = Head(s)
  BY <1>1, AppendProperties
<1>3. Len(b) \in Nat /\ Len(s) \in Nat \ {0} /\ Head(s) = s[1]
  BY LenProperties, EmptySeq
<1>4. l \in Seq(S) /\ Len(l) = Len(b) + Len(s)
      /\ \A i \in 1 .. Len(b) + Len(s) : l[i] =
           IF i <= Len(b) + 1 THEN Append(b, Head(s))[i]
           ELSE Tail(s)[i - (Len(b) + 1)]
  BY <1>1, <1>2, <1>3, ConcatProperties
<1>5. r \in Seq(S) /\ Len(r) = Len(b) + Len(s)
      /\ \A i \in 1 .. Len(b) + Len(s) : r[i] =
           IF i <= Len(b) THEN b[i] ELSE s[i - Len(b)]
  BY ConcatProperties
<1>6. ASSUME NEW i \in 1 .. Len(l) PROVE l[i] = r[i]
  <2>1. CASE i <= Len(b)
    BY <2>1, <1>2, <1>3, <1>4, <1>5
  <2>2. CASE i = Len(b) + 1
    BY <2>2, <1>2, <1>3, <1>4, <1>5
  <2>3. CASE i > Len(b) + 1
    <3>1. i - (Len(b) + 1) \in 1 .. Len(Tail(s))
      BY <2>3, <1>1, <1>3, <1>4
    <3>2. l[i] = s[i - (Len(b) + 1) + 1]
      BY <2>3, <3>1, <1>1, <1>3, <1>4
    <3>3. QED
      BY <2>3, <3>2, <1>3, <1>4, <1>5
  <2>4. QED BY <2>1, <2>2, <2>3, <1>3, <1>4
<1> HIDE DEF l, r
<1>7. l = r
  BY <1>4, <1>5, <1>6, SeqEqual
<1>8. QED BY <1>7 DEF l, r

-----------------------------------------------------------------------------
(***************************************************************************)
(* Type correctness.  TypeOK is inductive: a batch that Run adds to has    *)
(* room, because Run left the select for the flush as soon as it was full. *)
(***************************************************************************)
LEMMA InitTypeOK == Init => TypeOK
<1>1. <<>> \in Seq(Queries) /\ Len(<<>>) = 0
  BY EmptySeq
<1>2. [q \in Queries |-> "ready"] \in [Queries -> {"ready", "sending"} \cup Returned]
  OBVIOUS
<1>3. ASSUME Init PROVE Len(queue) <= BufferSize /\ Len(batch) < BatchSize /\ Len(batch) <= BatchSize
  BY <1>1, <1>3, ConstAssumption DEF Init
<1>4. QED
  BY <1>1, <1>2, <1>3 DEF Init, TypeOK

LEMMA NextTypeOK == TypeOK /\ [Next]_vars => TypeOK'
<1> SUFFICES ASSUME TypeOK, [Next]_vars PROVE TypeOK'
  OBVIOUS
<1> USE ConstAssumption DEF TypeOK, Returned, Draining, contexts, outcome
<1>0. Len(queue) \in Nat /\ Len(batch) \in Nat
  BY LenProperties
<1>1. ASSUME NEW q \in Queries, IngestEnter(q) PROVE TypeOK'
  BY <1>1 DEF IngestEnter
<1>2. ASSUME NEW q \in Queries, IngestSend(q) PROVE TypeOK'
  <2>1. CASE Len(queue) < BufferSize
    <3>1. queue' = Append(queue, q) /\ accepted' = Append(accepted, q)
          /\ hpc' = [hpc EXCEPT ![q] = "accepted"]
          /\ UNCHANGED <<closed, rpc, batch, contexts, parsed, outcome>>
      BY <1>0, <1>2, <2>1 DEF IngestSend
    <3>2. queue' \in Seq(Queries) /\ Len(queue') = Len(queue) + 1
      BY <3>1, AppendProperties
    <3>3. accepted' \in Seq(Queries)
      BY <3>1, AppendProperties
    <3>4. QED BY <1>0, <2>1, <3>1, <3>2, <3>3
  <2>2. CASE Len(queue) >= BufferSize
    BY <1>0, <1>2, <2>2 DEF IngestSend
  <2>3. QED BY <1>0, <2>1, <2>2
<1>3. ASSUME NEW flush \in {"flush", "drainFlush"}, rpc \in {"select", "drain"},
             Take(flush), parsed' \in SUBSET Queries
      PROVE  TypeOK'
  <2>1. Head(queue) \in Queries /\ queue' \in Seq(Queries)
        /\ Len(queue') = Len(queue) - 1
    BY <1>3, HeadTailProperties DEF Take
  <2>2. batch' \in Seq(Queries) /\ Len(batch') = Len(batch) + 1
    BY <1>3, <2>1, AppendProperties DEF Take
  <2>3. Len(queue') <= BufferSize /\ Len(batch') <= BatchSize
    BY <1>0, <1>3, <2>1, <2>2
  <2>4. rpc' \in {"select", "locking", "drain"} => Len(batch') < BatchSize
    BY <1>0, <1>3, <2>2 DEF Take
  <2>5. QED BY <1>3, <2>1, <2>2, <2>3, <2>4 DEF Take
<1>4. CASE RunReceive
  <2>1. Head(queue) \in Queries
    BY <1>4, HeadTailProperties DEF RunReceive, Take
  <2>2. QED BY <1>3, <1>4, <2>1 DEF RunReceive
<1>5. CASE DrainReceive
  BY <1>3, <1>5 DEF DrainReceive
<1>6. CASE RunTick \/ RunCtxDone \/ RunClose \/ DrainEnd \/ InsertStart
  BY <1>6 DEF RunTick, RunCtxDone, RunClose, DrainEnd, InsertStart, Goto,
              Flushing
<1>7. ASSUME Settle, stored' \in SUBSET Queries PROVE TypeOK'
  <2>1. settled' \in Seq(Queries) /\ batch' = <<>> /\ batch' \in Seq(Queries)
        /\ Len(batch') = 0
    BY <1>7, ConcatProperties, EmptySeq DEF Settle
  <2>2. QED BY <1>7, <2>1 DEF Settle
<1>8. CASE InsertOK
  <2>1. \A i \in 1..Len(batch) : batch[i] \in Queries
    BY ElementOfSeq
  <2>2. stored' \in SUBSET Queries
    BY <1>8, <2>1 DEF InsertOK
  <2>3. QED BY <1>7, <1>8, <2>2 DEF InsertOK
<1>9. CASE InsertFail
  BY <1>7, <1>9 DEF InsertFail
<1>10. CASE Cancel \/ GraceExpires
  BY <1>10 DEF Cancel, GraceExpires
<1>11. CASE UNCHANGED vars
  BY <1>11 DEF vars
<1>12. QED
  BY <1>1, <1>2, <1>4, <1>5, <1>6, <1>8, <1>9, <1>10, <1>11
     DEF Next, Ingest, Run, Terminated

(* Every variable keeps to its type, the channel to its capacity and the   *)
(* batch to the batch size, for every configuration of the ingester.       *)
THEOREM TypeCorrect == Spec => []TypeOK
<1>1. QED BY InitTypeOK, NextTypeOK, PTL DEF Spec

-----------------------------------------------------------------------------
(***************************************************************************)
(* Safety.  The properties of the ingester are not inductive one by one:   *)
(* that Run leaves nothing behind needs the lock discipline (closed holds  *)
(* from the moment Run drains, and no handler is then about to send), and  *)
(* the conservation of queries.  IInv puts them together.                  *)
(***************************************************************************)
LEMMA InitIInv == Init => IInv
<1> SUFFICES ASSUME Init PROVE IInv
  OBVIOUS
<1>1. TypeOK
  BY InitTypeOK
<1>2. <<>> \o <<>> \o <<>> = <<>> /\ Len(<<>>) = 0
  BY ConcatEmptySeq, EmptySeq
<1>3. QED
  BY <1>1, <1>2 DEF Init, IInv, NoSendOnClosedChannel, FIFOConservation,
     Draining, Flushing, Inserting, Readers

LEMMA NextIInv == IInv /\ [Next]_vars => IInv'
<1> SUFFICES ASSUME IInv, [Next]_vars PROVE IInv'
  OBVIOUS
<1>t. TypeOK /\ TypeOK'
  BY NextTypeOK DEF IInv
<1>0. Len(queue) \in Nat /\ Len(batch) \in Nat /\ Len(accepted) \in Nat
  BY <1>t, LenProperties DEF TypeOK
<1>s. /\ queue \in Seq(Queries) /\ batch \in Seq(Queries)
      /\ settled \in Seq(Queries) /\ accepted \in Seq(Queries)
      /\ queue' \in Seq(Queries) /\ batch' \in Seq(Queries)
  BY <1>t DEF TypeOK
<1> USE DEF contexts, outcome, Draining, Flushing, Inserting, Readers,
            NoSendOnClosedChannel, FIFOConservation
<1>1. ASSUME NEW q \in Queries, IngestEnter(q) PROVE IInv'
  <2>1. \A p \in Queries : hpc[p] = "accepted" => hpc'[p] = "accepted"
    BY <1>1, <1>t DEF IngestEnter, TypeOK
  <2>2. \A i \in 1..Len(accepted) : accepted[i] \in Queries
    BY <1>t, ElementOfSeq DEF TypeOK
  <2>3. closed => Readers' = Readers
    BY <1>1, <1>t DEF IngestEnter, TypeOK
  <2>4. QED
    BY <1>1, <1>t, <2>1, <2>2, <2>3 DEF IngestEnter, IInv
<1>2. ASSUME NEW q \in Queries, IngestSend(q) PROVE IInv'
  <2>1. \A p \in Queries : hpc[p] = "accepted" => hpc'[p] = "accepted"
    BY <1>2, <1>t DEF IngestSend, TypeOK
  <2>2. \A i \in 1..Len(accepted) : accepted[i] \in Queries
    BY <1>t, ElementOfSeq DEF TypeOK
  <2>3. ~closed /\ ~closed' /\ rpc' = rpc
    BY <1>2, <1>t DEF IngestSend, IInv
  <2>4. CASE UNCHANGED <<queue, accepted>>
    BY <1>2, <1>t, <2>1, <2>2, <2>3, <2>4 DEF IngestSend, IInv
  <2>5. CASE /\ queue' = Append(queue, q) /\ accepted' = Append(accepted, q)
             /\ hpc' = [hpc EXCEPT ![q] = "accepted"]
    <3>1. accepted' = settled' \o batch' \o queue'
      <4> DEFINE sb == settled \o batch
                 w == <<q>>
      <4>1. sb \in Seq(Queries) /\ w \in Seq(Queries)
        BY <1>s, ConcatProperties
      <4>2. accepted = sb \o queue
        BY DEF IInv
      <4>3. accepted' = accepted \o w /\ queue' = queue \o w
        BY <1>s, <2>5, AppendIsConcat
      <4> HIDE DEF sb, w
      <4>4. (sb \o queue) \o w = sb \o (queue \o w)
        <5>1. queue \in Seq(Queries)
          BY <1>s
        <5>2. QED BY <4>1, <5>1, ConcatAssociative, SMT
      <4>5. accepted' = sb \o queue'
        BY <4>2, <4>3, <4>4
      <4>6. QED BY <1>2, <4>5 DEF IngestSend, sb
    <3>2. /\ Len(accepted') = Len(accepted) + 1
          /\ \A i \in 1..Len(accepted) : accepted'[i] = accepted[i]
          /\ accepted'[Len(accepted) + 1] = q
      BY <1>t, <2>5, AppendProperties DEF TypeOK
    <3>3. \A i \in 1..Len(accepted') : hpc'[accepted'[i]] = "accepted"
      <4>1. hpc'[q] = "accepted"
        BY <1>t, <2>5 DEF TypeOK
      <4>2. \A i \in 1..Len(accepted) : hpc'[accepted'[i]] = "accepted"
        BY <2>1, <2>2, <3>2 DEF IInv
      <4>3. QED BY <1>0, <3>2, <4>1, <4>2
    <3>4. QED BY <1>2, <1>t, <2>3, <3>1, <3>3 DEF IngestSend, IInv
  <2>6. QED BY <1>2, <2>4, <2>5 DEF IngestSend
<1>3. ASSUME NEW flush \in {"flush", "drainFlush"}, Take(flush),
             rpc = IF flush = "flush" THEN "select" ELSE "drain",
             parsed \subseteq parsed', ~closed => Head(queue) \in parsed'
      PROVE  IInv'
  <2>1. settled' \o batch' \o queue' = settled \o batch \o queue
    <3>1. Head(queue) \in Queries /\ Tail(queue) \in Seq(Queries)
      BY <1>3, <1>t, HeadTailProperties DEF Take, TypeOK
    <3>2. batch' \o queue' = batch \o queue
      BY <1>3, <1>t, TakeConcat DEF Take, TypeOK
    <3>3. (settled \o batch) \o queue = settled \o (batch \o queue)
      BY <1>s, ConcatAssociative
    <3>4. (settled \o batch') \o queue' = settled \o (batch' \o queue')
      BY <1>s, ConcatAssociative
    <3>5. settled' = settled
      BY <1>3 DEF Take
    <3>6. QED BY <3>2, <3>3, <3>4, <3>5
  <2>2. /\ Len(batch') = Len(batch) + 1 /\ batch' # <<>>
        /\ \A i \in 1..Len(batch) : batch'[i] = batch[i]
        /\ batch'[Len(batch) + 1] = Head(queue)
    <3>1. Head(queue) \in Queries
      BY <1>3, <1>t, HeadTailProperties DEF Take, TypeOK
    <3>2. batch' = Append(batch, Head(queue))
      BY <1>3 DEF Take
    <3>3. QED BY <1>s, <3>1, <3>2, AppendProperties
  <2>3. ~closed => \A i \in 1..Len(batch') : batch'[i] \in parsed'
    BY <1>0, <1>3, <2>2 DEF IInv
  <2>4. UNCHANGED <<hpc, closed, accepted, settled, stored>>
        /\ rpc' \in {rpc, flush}
    BY <1>3 DEF Take
  <2>5. (closed <=> rpc' \in Draining \cup {"done"}) /\ rpc' # "done"
    BY <1>3, <2>4 DEF IInv
  <2>6. accepted' = settled' \o batch' \o queue'
    BY <2>1, <2>4 DEF IInv
  <2>7. QED
    BY <1>3, <1>t, <2>2, <2>3, <2>4, <2>5, <2>6 DEF IInv
<1>4. CASE RunReceive
  <2>1. parsed \subseteq parsed' /\ Head(queue) \in parsed'
    BY <1>4 DEF RunReceive
  <2>2. Take("flush") /\ rpc = "select"
    BY <1>4 DEF RunReceive
  <2>3. QED BY <1>3, <2>1, <2>2
<1>5. CASE DrainReceive
  BY <1>3, <1>5 DEF DrainReceive, IInv
<1>6. ASSUME NEW pc, Goto(pc), closed <=> pc \in Draining \cup {"done"},
             pc = "done" => queue = <<>> /\ batch = <<>>,
             pc \in Flushing \cup Inserting => batch # <<>>
      PROVE  IInv'
  BY <1>6, <1>t DEF Goto, IInv
<1>6a. CASE RunTick
  BY <1>6, <1>6a DEF RunTick, IInv
<1>6b. CASE RunCtxDone
  BY <1>6, <1>6b DEF RunCtxDone, IInv
<1>6c. CASE InsertStart
  BY <1>6, <1>6c DEF InsertStart, IInv
<1>7. CASE RunClose
  BY <1>7, <1>t DEF RunClose, IInv
<1>8. CASE DrainEnd
  BY <1>6, <1>8 DEF DrainEnd, IInv
<1>9. ASSUME Settle, rpc \in Flushing \cup Inserting,
             ~closed => stored' \subseteq parsed
      PROVE  IInv'
  <2>1. settled' \o batch' \o queue' = settled \o batch \o queue
    <3>1. settled \o batch \in Seq(Queries)
      BY <1>t, ConcatProperties DEF TypeOK
    <3>2. (settled \o batch) \o <<>> = settled \o batch
      BY <3>1, ConcatEmptySeq
    <3>3. QED BY <1>9, <3>2 DEF Settle
  <2>2. /\ UNCHANGED <<hpc, queue, closed, parsed, accepted>> /\ batch' = <<>>
        /\ rpc' = IF rpc \in Draining THEN "drain" ELSE "select"
    BY <1>9 DEF Settle
  <2>3. Len(batch') = 0
    BY <2>2, EmptySeq
  <2>4. closed <=> rpc' \in Draining \cup {"done"}
    BY <1>9, <2>2 DEF IInv
  <2>5. accepted' = settled' \o batch' \o queue'
    BY <2>1, <2>2 DEF IInv
  <2>6. rpc' \notin Flushing \cup Inserting \cup {"done"}
    BY <2>2
  <2>7. ~closed' => /\ stored' \subseteq parsed'
                    /\ \A i \in 1..Len(batch') : batch'[i] \in parsed'
    BY <1>9, <2>2, <2>3
  <2>8. /\ closed' => Readers' = {}
        /\ \A i \in 1..Len(accepted') : hpc'[accepted'[i]] = "accepted"
    BY <2>2 DEF IInv
  <2>9. QED
    BY <1>t, <2>2, <2>4, <2>5, <2>6, <2>7, <2>8 DEF IInv
<1>10. CASE InsertOK
  <2>1. ~closed => stored' \subseteq parsed
    BY <1>10 DEF InsertOK, IInv
  <2>2. QED BY <1>9, <1>10, <2>1 DEF InsertOK
<1>11. CASE InsertFail
  BY <1>9, <1>11 DEF InsertFail, IInv
<1>12. CASE Cancel \/ GraceExpires
  <2>1. UNCHANGED <<hpc, queue, closed, rpc, batch, parsed, accepted, outcome>>
    BY <1>12 DEF Cancel, GraceExpires
  <2>2. QED BY <1>t, <2>1 DEF IInv
<1>13. CASE UNCHANGED vars
  BY <1>13, <1>t DEF vars, IInv
<1>14. QED
  BY <1>1, <1>2, <1>4, <1>5, <1>6a, <1>6b, <1>6c, <1>7, <1>8, <1>10, <1>11,
     <1>12, <1>13 DEF Next, Ingest, Run, Terminated

LEMMA Invariance == Spec => []IInv
<1>1. QED BY InitIInv, NextIInv, PTL DEF Spec

(* No handler is about to send on queriesC once Run has closed it: the     *)
(* process cannot panic on a send on a closed channel.                     *)
THEOREM NoPanic == Spec => []NoSendOnClosedChannel
<1>1. IInv => NoSendOnClosedChannel
  BY DEF IInv
<1>2. QED BY <1>1, Invariance, PTL

(* Accepted queries are settled, batched or queued, each exactly once and  *)
(* in the order of acceptance.                                             *)
THEOREM Conservation == Spec => []FIFOConservation
<1>1. IInv => FIFOConservation
  BY DEF IInv
<1>2. QED BY <1>1, Invariance, PTL

(* When Run returns, every query Ingest ever accepted has been handed to   *)
(* the database.                                                           *)
THEOREM NothingStranded == Spec => []ReturnMeansSettled
<1>1. IInv => ReturnMeansSettled
  <2> SUFFICES ASSUME IInv, rpc = "done" PROVE closed /\ accepted = settled
    BY DEF ReturnMeansSettled
  <2>1. settled \in Seq(Queries)
    BY DEF IInv, TypeOK
  <2>2. settled \o <<>> = settled
    BY <2>1, ConcatEmptySeq
  <2>3. closed /\ accepted = settled \o <<>> \o <<>>
    BY DEF IInv, FIFOConservation
  <2>4. QED BY <2>2, <2>3
<1>2. QED BY <1>1, Invariance, PTL

(* Rows without fingerprint and label matchers come from the drain only.   *)
THEOREM ParsedUntilClosed == Spec => []UnparsedOnlyInDrain
<1>1. IInv => UnparsedOnlyInDrain
  BY DEF IInv, UnparsedOnlyInDrain
<1>2. QED BY <1>1, Invariance, PTL

-----------------------------------------------------------------------------
(***************************************************************************)
(* Refinement.  A send is an offer, an Insert that returned settles the    *)
(* batch, closing the channel closes the log; everything else is invisible *)
(* in the log.                                                             *)
(***************************************************************************)
LEMMA LogInit == Init => Log!Init
BY EmptySeq DEF Init, Log!Init

(* A settled batch is the next stretch of the log.                         *)
LEMMA SettleRefines ==
  ASSUME IInv, Settle, rpc \in Flushing \cup Inserting,
         stored' \in {stored, stored \cup {batch[i] : i \in 1..Len(batch)}}
  PROVE  \E n \in 1..BatchSize : Log!SettleBatch(n)
<1> DEFINE n == Len(batch)
           d == Len(settled)
<1>s. settled \in Seq(Queries) /\ batch \in Seq(Queries) /\ queue \in Seq(Queries)
  BY DEF IInv, TypeOK
<1>1. n \in Nat \ {0} /\ d \in Nat /\ Len(queue) \in Nat
  BY <1>s, LenProperties, EmptySeq DEF IInv
<1>2. n \in 1..BatchSize
  BY <1>1, ConstAssumption DEF IInv, TypeOK
<1> DEFINE sb == settled \o batch
<1>3. sb \in Seq(Queries) /\ Len(sb) = d + n
      /\ \A i \in 1..(d + n) : sb[i] = IF i <= d THEN settled[i] ELSE batch[i - d]
  BY <1>s, ConcatProperties
<1>4. accepted = sb \o queue
  BY DEF IInv, FIFOConservation
<1> HIDE DEF sb
<1>5. Len(accepted) = d + n + Len(queue)
      /\ \A i \in 1..(d + n) : accepted[i] = sb[i]
  <2>1. /\ Len(sb \o queue) = Len(sb) + Len(queue)
        /\ \A i \in 1 .. Len(sb) + Len(queue) : (sb \o queue)[i] =
               IF i <= Len(sb) THEN sb[i] ELSE queue[i - Len(sb)]
    BY <1>s, <1>3, ConcatProperties
  <2>2. QED BY <1>1, <1>3, <1>4, <2>1
<1>6. {accepted[i] : i \in (d + 1)..(d + n)} = {batch[i] : i \in 1..n}
  <2>1. ASSUME NEW i \in (d + 1)..(d + n)
        PROVE  i - d \in 1..n /\ accepted[i] = batch[i - d]
    BY <1>1, <1>3, <1>5
  <2>2. ASSUME NEW i \in 1..n
        PROVE  d + i \in (d + 1)..(d + n) /\ accepted[d + i] = batch[i]
    <3>1. d + i \in (d + 1)..(d + n) /\ (d + i) - d = i
      BY <1>1
    <3>2. QED BY <2>1, <3>1
  <2>3. QED BY <2>1, <2>2
<1>7. Len(settled') = d + n
  BY <1>3 DEF Settle, sb
<1>8. UNCHANGED <<accepted, closed>>
  BY DEF Settle
<1>9. Log!SettleBatch(n)
  <2>1. n <= BatchSize /\ d + n <= Len(accepted)
    BY <1>1, <1>2, <1>5, ConstAssumption
  <2>2. stored' \in {stored, stored \cup {accepted[i] : i \in (d + 1)..(d + n)}}
    BY <1>6
  <2>3. QED BY <1>7, <1>8, <2>1, <2>2 DEF Log!SettleBatch
<1>10. QED BY <1>2, <1>9

LEMMA LogNext == IInv /\ [Next]_vars => [Log!Next]_(Log!logVars)
<1> SUFFICES ASSUME IInv, [Next]_vars PROVE [Log!Next]_(Log!logVars)
  OBVIOUS
<1> USE DEF outcome, contexts, Log!logVars
<1>1. ASSUME NEW q \in Queries, IngestEnter(q) PROVE UNCHANGED Log!logVars
  BY <1>1 DEF IngestEnter
<1>2. ASSUME NEW q \in Queries, IngestSend(q)
      PROVE  Log!Offer(q) \/ UNCHANGED Log!logVars
  <2>1. \A i \in 1..Len(accepted) : accepted[i] # q
    BY <1>2 DEF IInv, IngestSend
  <2>2. ~closed
    BY <1>2 DEF IInv, NoSendOnClosedChannel, Readers, IngestSend
  <2>3. QED BY <1>2, <2>1, <2>2 DEF IngestSend, Log!Offer
<1>3. CASE RunReceive \/ DrainReceive
  BY <1>3 DEF RunReceive, DrainReceive, Take
<1>4. CASE RunTick \/ RunCtxDone \/ DrainEnd \/ InsertStart
  BY <1>4 DEF RunTick, RunCtxDone, DrainEnd, InsertStart, Goto
<1>5. CASE RunClose
  <2>1. ~closed
    BY <1>5 DEF RunClose, IInv, Draining
  <2>2. Log!Close
    BY <1>5, <2>1 DEF RunClose, Log!Close
  <2>3. QED BY <2>2 DEF Log!Next
<1>6. CASE InsertOK \/ InsertFail
  <2>1. \E n \in 1..BatchSize : Log!SettleBatch(n)
    BY <1>6, SettleRefines DEF InsertOK, InsertFail
  <2>2. QED BY <2>1 DEF Log!Next
<1>7. CASE Cancel \/ GraceExpires
  BY <1>7 DEF Cancel, GraceExpires
<1>8. CASE UNCHANGED vars
  BY <1>8 DEF vars
<1>9. QED
  BY <1>1, <1>2, <1>3, <1>4, <1>5, <1>6, <1>7, <1>8
     DEF Next, Ingest, Run, Terminated, Log!Next

(* The ingester implements the best-effort log IngestLog: at most once, in *)
(* order, batch by batch, and nothing accepted after shutdown.             *)
THEOREM Refinement == Spec => ImplementsIngestLog
<1>1. QED
  BY LogInit, LogNext, Invariance, PTL DEF Spec, ImplementsIngestLog, Log!Spec
=============================================================================
