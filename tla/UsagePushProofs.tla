-------------------------- MODULE UsagePushProofs ---------------------------
(***************************************************************************)
(* Proofs about UsagePush for any number of pushers, any bodies, pools and *)
(* timeouts: what concurrent pushes write is bounded by what they claim.   *)
(***************************************************************************)
EXTENDS UsagePush, FiniteSetTheorems, SequenceTheorems, TLAPS

(***************************************************************************)
(* The inductive invariant.  Its heart are claims: instants no later than  *)
(* which a row must be last seen (Lag aside).                              *)
(***************************************************************************)
AllBodies == {NoBody} \cup UNION {Bodies[p] : p \in Pushers}
AllMetrics == UNION {DOMAIN b : b \in AllBodies}
AllRows == UNION {UNION {UNION {Rows(b, m, s) : s \in Stages} : m \in DOMAIN b} : b \in AllBodies}

Counters ==
  /\ provider \in Providers /\ now \in 0..MaxTime
  /\ pushes \in 0..MaxPushes /\ faults \in 0..MaxFaults
  /\ mu \in Pushers \cup {Nobody}
HandlerTypes ==
  /\ pc \in [Pushers -> {"idle", "call", "begin", "exec", "commit", "fail"}]
  /\ body \in [Pushers -> AllBodies] /\ start \in [Pushers -> Nat]
  /\ ctx \in [Pushers -> {"live", "done"}]
  /\ todo \in [Pushers -> SUBSET AllMetrics] /\ metric \in [Pushers -> AllMetrics \cup {0}]
  /\ stage \in [Pushers -> Stages]
TxTypes ==
  /\ tx \in [Pushers -> BOOLEAN] /\ stamp \in [Pushers -> Nat]
  /\ left \in [Pushers -> Seq(AllRows)] /\ written \in [Pushers -> SUBSET AllRows]
Domains == Counters /\ HandlerTypes /\ TxTypes

(* Times never lie in the future; a live context has not passed its        *)
(* deadline, because timers fire on time.                                  *)
TimesOK(p) ==
  /\ start[p] <= now /\ stamp[p] <= now
  /\ ctx[p] = "live" => pc[p] # "idle" /\ now <= start[p] + PushTimeout

(* The loop over the metrics of the body. *)
LoopOK(p) ==
  /\ todo[p] \subseteq DOMAIN body[p]
  /\ pc[p] = "idle" => DOMAIN body[p] = {} /\ stage[p] = "rules"
  /\ pc[p] # "idle" => /\ body[p] \in Bodies[p]
                       /\ metric[p] \in DOMAIN body[p] /\ metric[p] \notin todo[p]

(* A transaction that is open inside the call writes the current rows, and *)
(* took its stamp after the request came in.                               *)
RowsLeft(p) == {left[p][i] : i \in 1..Len(left[p])}
TxOK(p) ==
  /\ written[p] # {} => tx[p] /\ pc[p] \in {"exec", "commit"}
  /\ pc[p] = "exec" /\ ctx[p] = "live" => tx[p]
  /\ pc[p] = "commit" => tx[p] /\ left[p] = <<>>
  /\ pc[p] \in {"exec", "commit"} /\ tx[p] =>
       start[p] <= stamp[p] /\ written[p] \cup RowsLeft(p) = Current(p)

MutexOK(p) ==
  /\ mu = p => pc[p] \in InCall
  /\ provider = "sqlite" /\ pc[p] \in InCall => mu = p

PoolOK == IsFiniteSet(InUse) /\ Cardinality(InUse) <= Conns[provider]
LocksDisjoint == \A p \in Pushers : \A q \in Pushers \ {p} : Locks(p) \cap Locks(q) = {}

ControlOK(p) == TimesOK(p) /\ LoopOK(p) /\ TxOK(p) /\ MutexOK(p)

TablesOK ==
  /\ \A k \in DOMAIN rules : rules[k] \in [first : 0..now, last : 0..now]
  /\ \A k \in DOMAIN dashboards :
       /\ dashboards[k].first \in 0..now /\ dashboards[k].last \in 0..now
       /\ dashboards[k] = [first |-> dashboards[k].first, last |-> dashboards[k].last,
                           name |-> dashboards[k].name]

(* The rows of both tables by one kind of key; what a push has committed.  *)
KeyOf(k) == <<k[1], IF k[1] = "rules" THEN k[2] ELSE <<k[2].id, k[2].serie>>>>
Stored == ({"rules"} \X DOMAIN rules) \cup ({"dashboards"} \X DOMAIN dashboards)
RowOf(key) == IF key[1] = "rules" THEN rules[key[2]] ELSE dashboards[key[2]]
OfMetric(b, m) == UNION {{s} \X Rows(b, m, s) : s \in Stages}
Earlier(p) == UNION {OfMetric(body[p], m) : m \in DOMAIN body[p] \ (todo[p] \cup {metric[p]})}
Done(p) ==
  Earlier(p) \cup IF stage[p] = "dashboards" THEN {"rules"} \X Rows(body[p], metric[p], "rules") ELSE {}

(* The instants a row has to be last seen at or after: its first_seen_at,  *)
(* what was acknowledged of it, and the start of each push under way that  *)
(* has committed it.                                                       *)
Claims(key) ==
  {RowOf(k).first : k \in Stored \cap {key}}
  \cup {acked[k] : k \in {x \in DOMAIN acked : KeyOf(x) = key}}
  \cup {start[p] : p \in {x \in Pushers : \E d \in Done(x) : KeyOf(d) = key}}

ClaimsStored ==
  /\ \A k \in DOMAIN acked : k[1] \in Stages /\ acked[k] \in 0..now /\ KeyOf(k) \in Stored
  /\ \A p \in Pushers : \A d \in Done(p) : KeyOf(d) \in Stored
ClaimsMet == \A key \in Stored : \A t \in Claims(key) : t <= RowOf(key).last + Lag

(* Who holds the lock of a row has a stamp that meets its claims.          *)
LocksMeetClaims ==
  \A p \in Pushers : \A key \in Locks(p) : \A t \in Claims(key) : t <= stamp[p] + Lag

(* Under SQLite's mutex nothing has been written since the stamp was taken. *)
StampIsLatest ==
  \A p \in Pushers : provider = "sqlite" /\ pc[p] \in {"exec", "commit"} /\ tx[p] =>
    \A key \in Stored : RowOf(key).last <= stamp[p]

PushInv ==
  /\ Domains /\ PoolOK /\ LocksDisjoint /\ TablesOK
  /\ \A p \in Pushers : ControlOK(p)
  /\ ClaimsStored /\ ClaimsMet /\ LocksMeetClaims /\ StampIsLatest

-----------------------------------------------------------------------------
(***************************************************************************)
(* Lemmas about bodies, rows and sequences.                                *)
(***************************************************************************)
LEMMA StagesAre == Stages = {"rules", "dashboards"}
  BY DEF Stages

LEMMA BodyRows ==
  ASSUME NEW b \in AllBodies, NEW m \in DOMAIN b, NEW s \in Stages
  PROVE  Rows(b, m, s) \subseteq AllRows /\ m \in AllMetrics
  BY DEF AllRows, AllMetrics

LEMMA RowsAreFinite ==
  ASSUME NEW p \in Pushers, NEW b \in Bodies[p], NEW m \in DOMAIN b, NEW s \in Stages
  PROVE  IsFiniteSet(Rows(b, m, s))
  BY PushAssumption DEF Rows

LEMMA NoBodyIsEmpty == DOMAIN NoBody = {}
  BY DEF NoBody

(* The map iteration orders all the rows. *)
LEMMA OrderCovers ==
  ASSUME NEW S, IsFiniteSet(S), NEW order \in Bijection(1..Cardinality(S), S)
  PROVE  order \in Seq(S) /\ {order[i] : i \in 1..Len(order)} = S
  <1> DEFINE D == 1..Cardinality(S)
  <1>1. Cardinality(S) \in Nat
    BY FS_CardinalityType
  <1>2. order \in [D -> S] /\ \A t \in S : \E i \in D : order[i] = t
    BY DEF Bijection, Surjection
  <1>3. order \in Seq(S) /\ Len(order) = Cardinality(S)
    BY <1>1, <1>2
  <1> QED
    BY <1>2, <1>3

LEMMA HeadAndTail ==
  ASSUME NEW S, NEW s \in Seq(S), s # <<>>
  PROVE  /\ Head(s) \in S /\ Tail(s) \in Seq(S)
         /\ {s[i] : i \in 1..Len(s)} = {Head(s)} \cup {Tail(s)[i] : i \in 1..Len(Tail(s))}
  <1>1. /\ Head(s) \in S /\ Tail(s) \in Seq(S) /\ Head(s) = s[1]
        /\ Len(Tail(s)) = Len(s) - 1 /\ Len(s) \in Nat \ {0}
        /\ \A i \in 1..Len(Tail(s)) : Tail(s)[i] = s[i + 1]
    BY HeadTailProperties, EmptySeq, LenProperties
  <1>2. ASSUME NEW i \in 1..Len(s)
        PROVE  s[i] \in {Head(s)} \cup {Tail(s)[j] : j \in 1..Len(Tail(s))}
    <2>1. CASE i = 1
      BY <1>1, <2>1
    <2>2. CASE i # 1
      <3>1. i - 1 \in 1..Len(Tail(s)) /\ (i - 1) + 1 = i
        BY <1>1, <2>2
      <3>2. s[i] = Tail(s)[i - 1]
        BY <1>1, <3>1
      <3> QED
        BY <3>1, <3>2
    <2> QED
      BY <2>1, <2>2
  <1>3. ASSUME NEW j \in 1..Len(Tail(s))
        PROVE  \E i \in 1..Len(s) : s[i] = Tail(s)[j]
    <2>1. j + 1 \in 1..Len(s)
      BY <1>1
    <2> QED
      BY <1>1, <2>1
  <1>4. 1 \in 1..Len(s)
    BY <1>1
  <1>5. Head(s) \in {s[i] : i \in 1..Len(s)}
    BY <1>1, <1>4
  <1>6. \A x \in {Tail(s)[j] : j \in 1..Len(Tail(s))} : x \in {s[i] : i \in 1..Len(s)}
    BY <1>3
  <1> QED
    BY <1>1, <1>2, <1>5, <1>6

-----------------------------------------------------------------------------
(***************************************************************************)
(* The handler's own steps.                                                *)
(***************************************************************************)
SameHandler(q) ==
  /\ pc'[q] = pc[q] /\ body'[q] = body[q] /\ start'[q] = start[q] /\ ctx'[q] = ctx[q]
  /\ todo'[q] = todo[q] /\ metric'[q] = metric[q] /\ stage'[q] = stage[q]
SameTx(q) ==
  /\ tx'[q] = tx[q] /\ stamp'[q] = stamp[q] /\ left'[q] = left[q] /\ written'[q] = written[q]

LEMMA ReturnEffect ==
  ASSUME HandlerTypes, NEW p \in Pushers, Return(p)
  PROVE  /\ HandlerTypes' /\ LoopOK(p)' /\ \A q \in Pushers \ {p} : SameHandler(q)
         /\ pc'[p] = "idle" /\ ctx'[p] = "done" /\ start'[p] = 0
         /\ DOMAIN body'[p] = {} /\ stage'[p] = "rules"
  <1>1. /\ pc'[p] = "idle" /\ ctx'[p] = "done" /\ body'[p] = NoBody /\ start'[p] = 0
        /\ todo'[p] = {} /\ stage'[p] = "rules"
        /\ \A q \in Pushers \ {p} : SameHandler(q)
    BY DEF HandlerTypes, Return, SameHandler
  <1>2. HandlerTypes'
    BY StagesAre DEF HandlerTypes, Return, AllBodies
  <1>3. LoopOK(p)'
    BY <1>1, NoBodyIsEmpty DEF LoopOK
  <1> QED
    BY <1>1, <1>2, <1>3, NoBodyIsEmpty

LEMMA TurnEffect ==
  ASSUME HandlerTypes, NEW p \in Pushers, NEW rest, Turn(p, rest),
         body'[p] \in Bodies[p], rest \subseteq DOMAIN body'[p]
  PROVE  /\ LoopOK(p)' /\ pc'[p] = "call" /\ stage'[p] = "rules"
         /\ metric'[p] \in rest /\ todo'[p] = rest \ {metric'[p]}
         /\ pc' \in [Pushers -> {"idle", "call", "begin", "exec", "commit", "fail"}]
         /\ todo' \in [Pushers -> SUBSET AllMetrics] /\ metric' \in [Pushers -> AllMetrics \cup {0}]
         /\ stage' \in [Pushers -> Stages]
         /\ \A q \in Pushers \ {p} : /\ pc'[q] = pc[q] /\ todo'[q] = todo[q]
                                     /\ metric'[q] = metric[q] /\ stage'[q] = stage[q]
  <1>1. PICK m \in rest :
          /\ todo' = [todo EXCEPT ![p] = rest \ {m}]
          /\ metric' = [metric EXCEPT ![p] = m] /\ stage' = [stage EXCEPT ![p] = "rules"]
          /\ pc' = [pc EXCEPT ![p] = "call"]
    BY DEF Turn
  <1>2. rest \subseteq AllMetrics
    BY DEF AllMetrics, AllBodies
  <1>3. metric'[p] = m /\ todo'[p] = rest \ {m} /\ pc'[p] = "call" /\ stage'[p] = "rules"
    BY <1>1 DEF HandlerTypes
  <1>4. LoopOK(p)'
    BY <1>3 DEF LoopOK
  <1> QED
    BY <1>1, <1>2, <1>3, <1>4, StagesAre DEF HandlerTypes

(* What a nil error leads to: the dashboards, the next metric or an answer. *)
LEMMA ProceedEffect ==
  ASSUME HandlerTypes, NEW p \in Pushers, LoopOK(p), pc[p] \in {"call", "commit"}, Proceed(p)
  PROVE  /\ HandlerTypes' /\ LoopOK(p)' /\ \A q \in Pushers \ {p} : SameHandler(q)
         /\ \/ pc'[p] = "call" /\ ctx'[p] = ctx[p] /\ start'[p] = start[p]
            \/ pc'[p] = "idle" /\ ctx'[p] = "done" /\ start'[p] = 0
  <1>1. CASE /\ stage[p] = "rules" /\ stage' = [stage EXCEPT ![p] = "dashboards"]
             /\ pc' = [pc EXCEPT ![p] = "call"]
             /\ UNCHANGED <<todo, metric, body, start, ctx, acked>>
    BY <1>1, StagesAre DEF HandlerTypes, LoopOK, SameHandler
  <1>2. CASE /\ stage[p] = "dashboards" /\ Turn(p, todo[p])
             /\ UNCHANGED <<body, start, ctx, acked>>
    <2>1. body'[p] \in Bodies[p] /\ todo[p] \subseteq DOMAIN body'[p]
      BY <1>2 DEF LoopOK
    <2> QED
      BY <1>2, <2>1, TurnEffect DEF HandlerTypes, SameHandler
  <1>3. CASE Finish(p)
    BY <1>3, ReturnEffect DEF Finish
  <1> QED
    BY <1>1, <1>2, <1>3 DEF Proceed

LEMMA CloseEffect ==
  ASSUME TxTypes, NEW p \in Pushers, Close(p)
  PROVE  /\ TxTypes' /\ \A q \in Pushers \ {p} : SameTx(q)
         /\ ~tx'[p] /\ written'[p] = {} /\ stamp'[p] = 0
  <1>1. <<>> \in Seq(AllRows)
    OBVIOUS
  <1> QED
    BY <1>1 DEF Close, TxTypes, SameTx

-----------------------------------------------------------------------------
(***************************************************************************)
(* The control of a step of p: its own part of the invariant holds again,  *)
(* and it touches nothing of the other pushers.                            *)
(***************************************************************************)
Others(p) ==
  \A q \in Pushers \ {p} : SameHandler(q) /\ SameTx(q) /\ (mu' = q <=> mu = q)
StepOf(p) ==
  /\ Domains' /\ ControlOK(p)' /\ UNCHANGED <<now, provider>> /\ Others(p)

LEMMA SameHandlers ==
  ASSUME UNCHANGED <<pc, request, ctx>>, NEW q
  PROVE  SameHandler(q) /\ (HandlerTypes => HandlerTypes')
  BY DEF request, SameHandler, HandlerTypes

LEMMA SameTxs ==
  ASSUME UNCHANGED <<tx, transaction>>, NEW q
  PROVE  SameTx(q) /\ (TxTypes => TxTypes')
  BY DEF transaction, SameTx, TxTypes

(* Moving the handler of p to another place. *)
LEMMA GotoEffect ==
  ASSUME HandlerTypes, NEW p \in Pushers,
         NEW to \in {"idle", "call", "begin", "exec", "commit", "fail"},
         pc' = [pc EXCEPT ![p] = to], UNCHANGED <<request, ctx>>
  PROVE  /\ HandlerTypes' /\ pc'[p] = to /\ \A q \in Pushers \ {p} : SameHandler(q)
         /\ to # "idle" /\ pc[p] # "idle" /\ LoopOK(p) => LoopOK(p)'
  BY DEF HandlerTypes, request, SameHandler, LoopOK

LEMMA UnlockEffect ==
  ASSUME NEW p \in Pushers, Unlock(p), mu \in Pushers \cup {Nobody}
  PROVE  /\ mu' \in Pushers \cup {Nobody} /\ mu' # p
         /\ \A q \in Pushers \ {p} : mu' = q <=> mu = q
  BY PushAssumption DEF Unlock

LEMMA ReceiveControl ==
  ASSUME PushInv, NEW p \in Pushers, NEW b \in Bodies[p], Receive(p, b)
  PROVE  StepOf(p) /\ pc'[p] = "call" /\ stage'[p] = "rules"
         /\ body'[p] = b /\ metric'[p] \in DOMAIN b /\ todo'[p] = DOMAIN b \ {metric'[p]}
  <1>1. Domains /\ ControlOK(p)
    BY DEF PushInv
  <1>2. /\ pc[p] = "idle" /\ ~tx[p] /\ body'[p] = b /\ start'[p] = now /\ ctx'[p] = "live"
        /\ body' \in [Pushers -> AllBodies] /\ start' \in [Pushers -> Nat]
        /\ ctx' \in [Pushers -> {"live", "done"}]
        /\ \A q \in Pushers \ {p} : body'[q] = body[q] /\ start'[q] = start[q] /\ ctx'[q] = ctx[q]
    BY <1>1 DEF Receive, Domains, HandlerTypes, Counters, AllBodies
  <1>3. /\ LoopOK(p)' /\ pc'[p] = "call" /\ stage'[p] = "rules"
        /\ metric'[p] \in DOMAIN b /\ todo'[p] = DOMAIN b \ {metric'[p]}
        /\ HandlerTypes' /\ \A q \in Pushers \ {p} : SameHandler(q)
    BY <1>1, <1>2, TurnEffect DEF Receive, Domains, HandlerTypes, SameHandler
  <1>4. TxTypes' /\ \A q \in Pushers : SameTx(q)
    BY <1>1, SameTxs DEF Receive, Domains
  <1>5. Counters' /\ UNCHANGED <<now, provider, mu>>
    BY <1>1, PushAssumption DEF Receive, Domains, Counters
  <1>6. TimesOK(p)' /\ TxOK(p)' /\ MutexOK(p)'
    BY <1>1, <1>2, <1>3, <1>4, <1>5, PushAssumption
    DEF ControlOK, TimesOK, TxOK, MutexOK, SameTx, InCall, Domains, Counters
  <1> QED
    BY <1>2, <1>3, <1>4, <1>5, <1>6 DEF StepOf, Domains, ControlOK, Others

LEMMA FailControl ==
  ASSUME PushInv, NEW p \in Pushers, Fail(p)
  PROVE  StepOf(p)
  <1>1. Domains /\ ControlOK(p) /\ pc[p] = "fail"
    BY DEF PushInv, Fail
  <1>2. /\ HandlerTypes' /\ LoopOK(p)' /\ \A q \in Pushers \ {p} : SameHandler(q)
        /\ pc'[p] = "idle" /\ ctx'[p] = "done" /\ start'[p] = 0
    BY <1>1, ReturnEffect DEF Fail, Domains
  <1>3. TxTypes' /\ \A q \in Pushers : SameTx(q)
    BY <1>1, SameTxs DEF Fail, Domains
  <1>4. Counters' /\ UNCHANGED <<now, provider, mu>>
    BY <1>1 DEF Fail, Domains, Counters
  <1>5. TimesOK(p)' /\ TxOK(p)' /\ MutexOK(p)'
    BY <1>1, <1>2, <1>3, <1>4
    DEF ControlOK, TimesOK, TxOK, MutexOK, SameTx, InCall, Domains, Counters
  <1> QED
    BY <1>2, <1>3, <1>4, <1>5 DEF StepOf, Domains, ControlOK, Others

LEMMA EnterControl ==
  ASSUME PushInv, NEW p \in Pushers, Enter(p)
  PROVE  StepOf(p)
  <1>1. Domains /\ ControlOK(p) /\ pc[p] = "call" /\ (provider = "sqlite" => mu = Nobody)
    BY DEF PushInv, Enter
  <1>2. TxTypes' /\ \A q \in Pushers : SameTx(q)
    BY <1>1, SameTxs DEF Enter, Domains
  <1>3. UNCHANGED <<now, provider, pushes, faults>>
    BY DEF Enter
  <1>4. CASE Proceed(p) /\ UNCHANGED mu
    <2>1. /\ HandlerTypes' /\ LoopOK(p)' /\ \A q \in Pushers \ {p} : SameHandler(q)
          /\ \/ pc'[p] = "call" /\ ctx'[p] = ctx[p] /\ start'[p] = start[p]
             \/ pc'[p] = "idle" /\ ctx'[p] = "done" /\ start'[p] = 0
      BY <1>1, <1>4, ProceedEffect DEF Domains, ControlOK
    <2>2. TimesOK(p)' /\ TxOK(p)' /\ MutexOK(p)'
      BY <1>1, <1>2, <1>3, <1>4, <2>1
      DEF ControlOK, TimesOK, TxOK, MutexOK, SameTx, InCall, Domains, Counters
    <2> QED
      BY <1>1, <1>2, <1>3, <1>4, <2>1, <2>2 DEF StepOf, Domains, Counters, ControlOK, Others
  <1>5. CASE /\ pc' = [pc EXCEPT ![p] = "begin"]
             /\ mu' = IF provider = "sqlite" THEN p ELSE mu
             /\ UNCHANGED <<request, ctx, acked>>
    <2>1. /\ HandlerTypes' /\ LoopOK(p)' /\ \A q \in Pushers \ {p} : SameHandler(q)
          /\ pc'[p] = "begin"
      BY <1>1, <1>5, GotoEffect DEF Domains, ControlOK
    <2>2. start' = start /\ ctx' = ctx
      BY <1>5 DEF request
    <2>3. TimesOK(p)' /\ TxOK(p)' /\ MutexOK(p)'
      BY <1>1, <1>2, <1>3, <1>5, <2>1, <2>2
      DEF ControlOK, TimesOK, TxOK, MutexOK, SameTx, InCall, Domains, Counters
    <2>4. \A q \in Pushers \ {p} : mu' = q <=> mu = q
      BY <1>1, <1>5, PushAssumption
    <2> QED
      BY <1>1, <1>2, <1>3, <1>5, <2>1, <2>3, <2>4 DEF StepOf, Domains, Counters, ControlOK, Others
  <1> QED
    BY <1>4, <1>5 DEF Enter

LEMMA BeginTxControl ==
  ASSUME PushInv, NEW p \in Pushers, BeginTx(p)
  PROVE  StepOf(p) /\ tx' = [tx EXCEPT ![p] = TRUE] /\ stamp'[p] = now /\ written'[p] = {}
  <1>1. Domains /\ ControlOK(p) /\ pc[p] = "begin"
    BY DEF PushInv, BeginTx
  <1>2. /\ HandlerTypes' /\ LoopOK(p)' /\ \A q \in Pushers \ {p} : SameHandler(q)
        /\ pc'[p] = "exec"
    BY <1>1, GotoEffect DEF BeginTx, Open, Domains, ControlOK
  <1>3. body[p] \in Bodies[p] /\ metric[p] \in DOMAIN body[p] /\ stage[p] \in Stages
    BY <1>1 DEF ControlOK, LoopOK, Domains, HandlerTypes
  <1>4. IsFiniteSet(Current(p)) /\ Current(p) \subseteq AllRows
    BY <1>1, <1>3, RowsAreFinite, BodyRows DEF Current, Domains, HandlerTypes
  <1>5. PICK order \in Bijection(1..Cardinality(Current(p)), Current(p)) :
          left' = [left EXCEPT ![p] = order]
    BY DEF BeginTx, Open
  <1>6. order \in Seq(Current(p)) /\ {order[i] : i \in 1..Len(order)} = Current(p)
    BY <1>4, OrderCovers
  <1>7. order \in Seq(AllRows)
    BY <1>4, <1>6
  <1>8. /\ left'[p] = order /\ written'[p] = {} /\ tx'[p] /\ stamp'[p] = now
        /\ TxTypes' /\ \A q \in Pushers \ {p} : SameTx(q)
    BY <1>1, <1>5, <1>7 DEF BeginTx, Open, Domains, TxTypes, Counters, SameTx
  <1>9. Counters' /\ UNCHANGED <<now, provider, mu, ctx, body, metric, stage, start>>
    BY <1>1 DEF BeginTx, Open, Domains, Counters, request
  <1>10. Current(p)' = Current(p) /\ RowsLeft(p)' = Current(p)
    BY <1>6, <1>8, <1>9 DEF Current, RowsLeft
  <1>11. TimesOK(p)' /\ TxOK(p)' /\ MutexOK(p)'
    BY <1>1, <1>2, <1>8, <1>9, <1>10
    DEF ControlOK, TimesOK, TxOK, MutexOK, InCall, Domains, Counters
  <1> QED
    BY <1>2, <1>8, <1>9, <1>11 DEF StepOf, Domains, ControlOK, Others, BeginTx, Open

LEMMA BeginFailsControl ==
  ASSUME PushInv, NEW p \in Pushers, BeginFails(p)
  PROVE  StepOf(p)
  <1>1. Domains /\ ControlOK(p) /\ pc[p] = "begin"
    BY DEF PushInv, BeginFails
  <1>2. /\ HandlerTypes' /\ LoopOK(p)' /\ \A q \in Pushers \ {p} : SameHandler(q)
        /\ pc'[p] = "fail"
    BY <1>1, GotoEffect DEF BeginFails, Domains, ControlOK
  <1>3. TxTypes' /\ \A q \in Pushers : SameTx(q)
    BY <1>1, SameTxs DEF BeginFails, Domains
  <1>4. /\ mu' \in Pushers \cup {Nobody} /\ mu' # p
        /\ \A q \in Pushers \ {p} : mu' = q <=> mu = q
    BY <1>1, UnlockEffect DEF BeginFails, Domains, Counters
  <1>5. Counters' /\ UNCHANGED <<now, provider, ctx, start>>
    BY <1>1, <1>4, PushAssumption DEF BeginFails, Fault, Ended, Domains, Counters, request
  <1>6. TimesOK(p)' /\ TxOK(p)' /\ MutexOK(p)'
    BY <1>1, <1>2, <1>3, <1>4, <1>5
    DEF ControlOK, TimesOK, TxOK, MutexOK, SameTx, InCall, Domains, Counters
  <1> QED
    BY <1>2, <1>3, <1>4, <1>5, <1>6 DEF StepOf, Domains, ControlOK, Others

LEMMA UpsertControl ==
  ASSUME PushInv, NEW p \in Pushers, Upsert(p)
  PROVE  /\ StepOf(p) /\ tx[p] /\ UNCHANGED stage
         /\ written'[p] = written[p] \cup {Head(left[p])}
  <1>1. Domains /\ ControlOK(p) /\ pc[p] = "exec" /\ ctx[p] = "live" /\ left[p] # <<>>
    BY DEF PushInv, Upsert
  <1>2. tx[p]
    BY <1>1 DEF ControlOK, TxOK
  <1>3. /\ HandlerTypes' /\ (\A q \in Pushers : SameHandler(q))
        /\ UNCHANGED <<now, provider, mu, pc, ctx, tx, stamp, body, metric, stage, start, todo>>
    BY <1>1, SameHandlers DEF Upsert, Domains, request
  <1>4. left[p] \in Seq(AllRows)
    BY <1>1 DEF Domains, TxTypes
  <1>5. /\ Head(left[p]) \in AllRows /\ Tail(left[p]) \in Seq(AllRows)
        /\ RowsLeft(p) = {Head(left[p])} \cup {Tail(left[p])[i] : i \in 1..Len(Tail(left[p]))}
    BY <1>1, <1>4, HeadAndTail DEF RowsLeft
  <1>6. /\ left'[p] = Tail(left[p]) /\ written'[p] = written[p] \cup {Head(left[p])}
        /\ TxTypes' /\ \A q \in Pushers \ {p} : SameTx(q)
    BY <1>1, <1>5 DEF Upsert, Domains, TxTypes, SameTx
  <1>7. Current(p)' = Current(p) /\ written'[p] \cup RowsLeft(p)' = written[p] \cup RowsLeft(p)
    BY <1>3, <1>5, <1>6 DEF Current, RowsLeft
  <1>8. LoopOK(p)' /\ TimesOK(p)' /\ MutexOK(p)'
    BY <1>1, <1>3 DEF ControlOK, LoopOK, TimesOK, MutexOK
  <1>9. TxOK(p)'
    BY <1>1, <1>2, <1>3, <1>7 DEF ControlOK, TxOK
  <1>10. Counters'
    BY <1>1 DEF Upsert, Domains, Counters
  <1> QED
    BY <1>2, <1>3, <1>6, <1>8, <1>9, <1>10 DEF StepOf, Domains, ControlOK, Others

LEMMA ExecFailsControl ==
  ASSUME PushInv, NEW p \in Pushers, ExecFails(p)
  PROVE  StepOf(p) /\ written'[p] = {} /\ tx' = tx
  <1>1. Domains /\ ControlOK(p) /\ pc[p] = "exec"
    BY DEF PushInv, ExecFails
  <1>2. /\ HandlerTypes' /\ LoopOK(p)' /\ \A q \in Pushers \ {p} : SameHandler(q)
        /\ pc'[p] = "fail"
    BY <1>1, GotoEffect DEF ExecFails, Domains, ControlOK
  <1>3. /\ TxTypes' /\ \A q \in Pushers \ {p} : SameTx(q)
        /\ written'[p] = {} /\ UNCHANGED <<tx, stamp>>
    BY <1>1 DEF ExecFails, Domains, TxTypes, SameTx
  <1>4. /\ mu' \in Pushers \cup {Nobody} /\ mu' # p
        /\ \A q \in Pushers \ {p} : mu' = q <=> mu = q
    BY <1>1, UnlockEffect DEF ExecFails, Domains, Counters
  <1>5. Counters' /\ UNCHANGED <<now, provider, ctx, start>>
    BY <1>1, <1>4, PushAssumption DEF ExecFails, Fault, Ended, Domains, Counters, request
  <1>6. TimesOK(p)' /\ TxOK(p)' /\ MutexOK(p)'
    BY <1>1, <1>2, <1>3, <1>4, <1>5
    DEF ControlOK, TimesOK, TxOK, MutexOK, InCall, Domains, Counters
  <1> QED
    BY <1>2, <1>3, <1>4, <1>5, <1>6 DEF StepOf, Domains, ControlOK, Others

LEMMA CommitControl ==
  ASSUME PushInv, NEW p \in Pushers, Commit(p)
  PROVE  StepOf(p)
  <1>1. Domains /\ ControlOK(p) /\ pc[p] = "exec" /\ ctx[p] = "live" /\ left[p] = <<>>
    BY DEF PushInv, Commit
  <1>2. /\ HandlerTypes' /\ LoopOK(p)' /\ \A q \in Pushers \ {p} : SameHandler(q)
        /\ pc'[p] = "commit"
    BY <1>1, GotoEffect DEF Commit, Domains, ControlOK
  <1>3. TxTypes' /\ \A q \in Pushers : SameTx(q)
    BY <1>1, SameTxs DEF Commit, Domains
  <1>4. Counters' /\ UNCHANGED <<now, provider, mu, ctx, start, body, metric, stage>>
    BY <1>1 DEF Commit, Domains, Counters, request
  <1>5. Current(p)' = Current(p) /\ RowsLeft(p)' = RowsLeft(p)
    BY <1>3, <1>4 DEF Current, RowsLeft, SameTx
  <1>6. TimesOK(p)' /\ TxOK(p)' /\ MutexOK(p)'
    BY <1>1, <1>2, <1>3, <1>4, <1>5
    DEF ControlOK, TimesOK, TxOK, MutexOK, SameTx, InCall, Domains, Counters
  <1> QED
    BY <1>2, <1>3, <1>4, <1>6 DEF StepOf, Domains, ControlOK, Others

(* A commit that is answered, and one whose answer is an error. *)
LEMMA CommittedControl ==
  ASSUME PushInv, NEW p \in Pushers, Committed(p) \/ CommitFails(p)
  PROVE  StepOf(p) /\ Close(p) /\ written'[p] = {} /\ pc[p] = "commit" /\ tx[p] /\ ~tx'[p]
  <1>1. Domains /\ ControlOK(p) /\ pc[p] = "commit" /\ Close(p) /\ Unlock(p)
    BY DEF PushInv, Committed, CommitFails
  <1>2. /\ TxTypes' /\ \A q \in Pushers \ {p} : SameTx(q)
        /\ ~tx'[p] /\ written'[p] = {} /\ stamp'[p] = 0
    BY <1>1, CloseEffect DEF Domains
  <1>3. /\ mu' \in Pushers \cup {Nobody} /\ mu' # p
        /\ \A q \in Pushers \ {p} : mu' = q <=> mu = q
    BY <1>1, UnlockEffect DEF Domains, Counters
  <1>4. Counters' /\ UNCHANGED <<now, provider>>
    BY <1>1, <1>3, PushAssumption DEF Committed, CommitFails, Fault, Domains, Counters
  <1>5. /\ HandlerTypes' /\ LoopOK(p)' /\ \A q \in Pushers \ {p} : SameHandler(q)
        /\ \/ pc'[p] \in {"call", "fail"} /\ ctx'[p] = ctx[p] /\ start'[p] = start[p]
           \/ pc'[p] = "idle" /\ ctx'[p] = "done" /\ start'[p] = 0
    <2>1. CASE Proceed(p)
      BY <1>1, <2>1, ProceedEffect DEF Domains, ControlOK
    <2>2. CASE pc' = [pc EXCEPT ![p] = "fail"] /\ UNCHANGED <<request, ctx>>
      BY <1>1, <2>2, GotoEffect DEF Domains, ControlOK, request
    <2> QED
      BY <2>1, <2>2 DEF Committed, CommitFails
  <1>6. TimesOK(p)' /\ TxOK(p)' /\ MutexOK(p)'
    BY <1>1, <1>2, <1>3, <1>4, <1>5
    DEF ControlOK, TimesOK, TxOK, MutexOK, InCall, Domains, Counters
  <1>7. tx[p]
    BY <1>1 DEF ControlOK, TxOK
  <1> QED
    BY <1>1, <1>2, <1>3, <1>4, <1>5, <1>6, <1>7 DEF StepOf, Domains, ControlOK, Others

LEMMA RollbackControl ==
  ASSUME PushInv, NEW p \in Pushers, Rollback(p)
  PROVE  StepOf(p) /\ Close(p) /\ written'[p] = {} /\ ~tx'[p]
  <1>1. Domains /\ ControlOK(p) /\ pc[p] # "commit" /\ ctx[p] = "done" /\ Close(p)
    BY DEF PushInv, Rollback
  <1>2. /\ TxTypes' /\ \A q \in Pushers \ {p} : SameTx(q)
        /\ ~tx'[p] /\ written'[p] = {} /\ stamp'[p] = 0
    BY <1>1, CloseEffect DEF Domains
  <1>3. /\ HandlerTypes' /\ (\A q \in Pushers : SameHandler(q))
        /\ UNCHANGED <<now, provider, mu, pc, ctx, body, metric, stage, start, todo>>
    BY <1>1, SameHandlers DEF Rollback, Domains, request
  <1>4. Counters'
    BY <1>1 DEF Rollback, Domains, Counters
  <1>5. LoopOK(p)' /\ TimesOK(p)' /\ TxOK(p)' /\ MutexOK(p)'
    BY <1>1, <1>2, <1>3
    DEF ControlOK, LoopOK, TimesOK, TxOK, MutexOK, InCall, Domains, Counters
  <1> QED
    BY <1>1, <1>2, <1>3, <1>4, <1>5 DEF StepOf, Domains, ControlOK, Others

LEMMA CancelControl ==
  ASSUME PushInv, NEW p \in Pushers, Expire(p) \/ ClientGone(p)
  PROVE  StepOf(p)
  <1>1. Domains /\ ControlOK(p) /\ Cancel(p)
    BY DEF PushInv, Expire, ClientGone
  <1>2. /\ ctx'[p] = "done" /\ ctx' \in [Pushers -> {"live", "done"}]
        /\ \A q \in Pushers \ {p} : ctx'[q] = ctx[q]
        /\ UNCHANGED <<now, provider, mu, pc, body, metric, stage, start, todo>>
    BY <1>1 DEF Cancel, Domains, HandlerTypes, request
  <1>3. HandlerTypes' /\ \A q \in Pushers \ {p} : SameHandler(q)
    BY <1>1, <1>2 DEF Domains, HandlerTypes, SameHandler
  <1>4. TxTypes' /\ \A q \in Pushers : SameTx(q)
    BY <1>1, SameTxs DEF Cancel, Domains
  <1>5. Counters'
    BY <1>1, PushAssumption DEF Expire, ClientGone, Cancel, Fault, Domains, Counters
  <1>6. Current(p)' = Current(p) /\ RowsLeft(p)' = RowsLeft(p)
    BY <1>2, <1>4 DEF Current, RowsLeft, SameTx
  <1>7. LoopOK(p)' /\ TimesOK(p)' /\ TxOK(p)' /\ MutexOK(p)'
    BY <1>1, <1>2, <1>4, <1>6
    DEF ControlOK, LoopOK, TimesOK, TxOK, MutexOK, SameTx, InCall, Domains, Counters
  <1> QED
    BY <1>2, <1>3, <1>4, <1>5, <1>7 DEF StepOf, Domains, ControlOK, Others

(* Time passes only up to the deadlines. *)
LEMMA TickControl ==
  ASSUME PushInv, Tick
  PROVE  Domains' /\ \A p \in Pushers : ControlOK(p)'
  <1>1. Domains /\ UNCHANGED <<pc, ctx, body, metric, stage, start, todo, tx, stamp, left, written, mu, provider>>
    BY DEF PushInv, Tick, request, transaction
  <1>2. Domains'
    BY <1>1, PushAssumption DEF Tick, Domains, Counters, HandlerTypes, TxTypes
  <1>3. ASSUME NEW p \in Pushers PROVE ControlOK(p)'
    <2>1. ControlOK(p) /\ now' = now + 1 /\ (ctx[p] = "live" => now < start[p] + PushTimeout)
      BY DEF PushInv, Tick
    <2>2. now \in Nat /\ start[p] \in Nat /\ stamp[p] \in Nat
      BY <1>1, PushAssumption DEF Domains, Counters, HandlerTypes, TxTypes
    <2>3. TimesOK(p)'
      BY <1>1, <2>1, <2>2, PushAssumption DEF ControlOK, TimesOK
    <2>4. LoopOK(p)' /\ TxOK(p)' /\ MutexOK(p)'
      BY <1>1, <2>1 DEF ControlOK, LoopOK, TxOK, MutexOK, Current, RowsLeft
    <2> QED
      BY <2>3, <2>4 DEF ControlOK
  <1> QED
    BY <1>2, <1>3

(* A step of p leaves the others' part of the invariant true. *)
LEMMA OthersControl ==
  ASSUME PushInv, NEW p \in Pushers, StepOf(p)
  PROVE  \A q \in Pushers : ControlOK(q)'
  <1> SUFFICES ASSUME NEW q \in Pushers, q # p PROVE ControlOK(q)'
    BY DEF StepOf
  <1>1. ControlOK(q) /\ SameHandler(q) /\ SameTx(q) /\ (mu' = q <=> mu = q) /\ UNCHANGED <<now, provider>>
    BY DEF PushInv, StepOf, Others
  <1>2. Current(q)' = Current(q) /\ RowsLeft(q)' = RowsLeft(q)
    BY <1>1 DEF Current, RowsLeft, SameHandler, SameTx
  <1>3. LoopOK(q)' /\ TimesOK(q)' /\ TxOK(q)' /\ MutexOK(q)'
    BY <1>1, <1>2 DEF ControlOK, LoopOK, TimesOK, TxOK, MutexOK, SameHandler, SameTx
  <1> QED
    BY <1>3 DEF ControlOK

-----------------------------------------------------------------------------
(***************************************************************************)
(* What a step does to the claims: a claim is made by a row that p adds to *)
(* what it has committed, and an acknowledgement only repeats claims.      *)
(***************************************************************************)
Progress(p, newlyDone) ==
  /\ \A q \in Pushers : \A d \in Done(q)' :
       /\ start'[q] = start[q]
       /\ d \in Done(q) \/ (q = p /\ d \in newlyDone)
  /\ \A k \in DOMAIN acked' :
       \/ k \in DOMAIN acked /\ acked'[k] = acked[k]
       \/ k \in Done(p) \cup newlyDone /\ acked'[k] = start[p]

LEMMA DoneElements ==
  ASSUME NEW p, NEW d
  PROVE  d \in Done(p) <=>
           \/ \E m \in DOMAIN body[p] \ (todo[p] \cup {metric[p]}) : \E s \in Stages :
                d \in {s} \X Rows(body[p], m, s)
           \/ stage[p] = "dashboards" /\ d \in {"rules"} \X Rows(body[p], metric[p], "rules")
  <1>1. d \in Earlier(p) <=> \E m \in DOMAIN body[p] \ (todo[p] \cup {metric[p]}) : d \in OfMetric(body[p], m)
    BY DEF Earlier
  <1>2. \A m : d \in OfMetric(body[p], m) <=> \E s \in Stages : d \in {s} \X Rows(body[p], m, s)
    BY DEF OfMetric
  <1> QED
    BY <1>1, <1>2 DEF Done

LEMMA DoneHasStage ==
  ASSUME NEW p, NEW d \in Done(p)
  PROVE  d[1] \in Stages
  <1>1. PICK s \in Stages : \E S : d \in {s} \X S
    BY DoneElements, StagesAre
  <1> QED
    BY <1>1

LEMMA DoneSame ==
  ASSUME NEW q, body'[q] = body[q], todo'[q] = todo[q], metric'[q] = metric[q], stage'[q] = stage[q]
  PROVE  Done(q)' = Done(q)
  BY DEF Done, Earlier, OfMetric

(* Nothing is done of a request that has just come in, or is over. *)
LEMMA DoneNone ==
  ASSUME NEW p, stage'[p] = "rules", DOMAIN body'[p] \subseteq todo'[p] \cup {metric'[p]}
  PROVE  Done(p)' = {}
  BY DEF Done, Earlier

LEMMA SameRequests ==
  ASSUME NEW p, UNCHANGED <<request, acked>>
  PROVE  Progress(p, {})
  <1>1. \A q : Done(q)' = Done(q) /\ start'[q] = start[q]
    BY DoneSame DEF request
  <1> QED
    BY <1>1 DEF Progress

LEMMA ProceedProgress ==
  ASSUME HandlerTypes, NEW p \in Pushers, LoopOK(p), pc[p] \in {"call", "commit"}, Proceed(p)
  PROVE  Progress(p, {stage[p]} \X Current(p))
  <1> DEFINE D == {stage[p]} \X Current(p)
  <1>1. \A q \in Pushers \ {p} : Done(q)' = Done(q) /\ start'[q] = start[q]
    BY ProceedEffect, DoneSame DEF SameHandler
  (* All of the current metric, and of those before it. *)
  <1>2. ASSUME stage[p] = "dashboards", NEW m \in DOMAIN body[p] \ todo[p], NEW s \in Stages,
               NEW d \in {s} \X Rows(body[p], m, s)
        PROVE  d \in Done(p) \cup D
    <2>1. CASE m # metric[p]
      BY <1>2, <2>1, DoneElements
    <2>2. CASE m = metric[p] /\ s = "rules"
      BY <1>2, <2>2, DoneElements
    <2>3. CASE m = metric[p] /\ s = "dashboards"
      BY <1>2, <2>3 DEF Current
    <2> QED
      BY <2>1, <2>2, <2>3, StagesAre
  <1>3. CASE /\ stage[p] = "rules" /\ stage' = [stage EXCEPT ![p] = "dashboards"]
             /\ UNCHANGED <<todo, metric, body, start, ctx, acked>>
    <2>1. stage'[p] = "dashboards"
      BY <1>3 DEF HandlerTypes
    <2>2. Done(p)' \subseteq Done(p) \cup D
      <3>1. Earlier(p)' = Earlier(p)
        BY <1>3 DEF Earlier, OfMetric
      <3>2. Rows(body[p], metric[p], "rules") = Current(p)
        BY <1>3 DEF Current
      <3> QED
        BY <1>3, <2>1, <3>1, <3>2 DEF Done
    <2> QED
      BY <1>1, <1>3, <2>2 DEF Progress
  <1>4. CASE /\ stage[p] = "dashboards" /\ Turn(p, todo[p])
             /\ UNCHANGED <<body, start, ctx, acked>>
    <2>1. body'[p] \in Bodies[p] /\ todo[p] \subseteq DOMAIN body'[p]
      BY <1>4 DEF LoopOK
    <2>2. stage'[p] = "rules" /\ todo'[p] \cup {metric'[p]} = todo[p]
      BY <1>4, <2>1, TurnEffect
    <2>3. ASSUME NEW d \in Done(p)' PROVE d \in Done(p) \cup D
      <3>1. \E m \in DOMAIN body[p] \ todo[p] : \E s \in Stages : d \in {s} \X Rows(body[p], m, s)
        BY <1>4, <2>2 DEF Done, Earlier, OfMetric
      <3> QED
        BY <1>2, <1>4, <3>1
    <2> QED
      BY <1>1, <1>4, <2>3 DEF Progress
  <1>5. CASE stage[p] = "dashboards" /\ Finish(p)
    <2>1. Done(p)' = {}
      BY <1>5, ReturnEffect, DoneNone DEF Finish
    <2>2. Acknowledged(p) \subseteq Done(p) \cup D
      <3>1. ASSUME NEW d \in Acknowledged(p)
            PROVE  \E m \in DOMAIN body[p] \ todo[p] : \E s \in Stages : d \in {s} \X Rows(body[p], m, s)
        BY <1>5 DEF Finish, Acknowledged
      <3> QED
        BY <1>2, <1>5, <3>1
    <2>3. ASSUME NEW k \in DOMAIN acked'
          PROVE  \/ k \in DOMAIN acked /\ acked'[k] = acked[k]
                 \/ k \in Acknowledged(p) /\ acked'[k] = start[p]
      BY <1>5 DEF Finish
    <2> QED
      BY <1>1, <2>1, <2>2, <2>3 DEF Progress
  <1> QED
    BY <1>3, <1>4, <1>5 DEF Proceed

(* A claim of the new state that no row has made for the first time is an  *)
(* old one.                                                                *)
LEMMA ClaimElements ==
  ASSUME NEW key, NEW t
  PROVE  t \in Claims(key) <=>
           \/ key \in Stored /\ t = RowOf(key).first
           \/ \E k \in DOMAIN acked : KeyOf(k) = key /\ t = acked[k]
           \/ \E q \in Pushers : t = start[q] /\ \E d \in Done(q) : KeyOf(d) = key
  BY DEF Claims

LEMMA OldClaims ==
  ASSUME NEW p \in Pushers, NEW D, Progress(p, D), NEW key, NEW t \in Claims(key)'
  PROVE  \/ t \in Claims(key)
         \/ t = start[p] /\ \E d \in D : KeyOf(d) = key
         \/ key \in Stored' /\ t = (RowOf(key).first)'
  <1>1. CASE \E k \in DOMAIN acked' : KeyOf(k) = key /\ t = acked'[k]
    <2>1. PICK k \in DOMAIN acked' : KeyOf(k) = key /\ t = acked'[k]
      BY <1>1
    <2>2. CASE k \in DOMAIN acked /\ acked'[k] = acked[k]
      BY <2>1, <2>2, ClaimElements
    <2>3. CASE k \in Done(p) \cup D /\ acked'[k] = start[p]
      BY <2>1, <2>3, ClaimElements
    <2> QED
      BY <2>1, <2>2, <2>3 DEF Progress
  <1>2. CASE \E q \in Pushers : t = start'[q] /\ \E d \in Done(q)' : KeyOf(d) = key
    <2>1. PICK q \in Pushers : t = start'[q] /\ \E d \in Done(q)' : KeyOf(d) = key
      BY <1>2
    <2>2. PICK d \in Done(q)' : KeyOf(d) = key
      BY <2>1
    <2>3. t = start[q] /\ (d \in Done(q) \/ (q = p /\ d \in D))
      BY <2>1, <2>2 DEF Progress
    <2> QED
      BY <2>2, <2>3, ClaimElements
  <1> QED
    BY <1>1, <1>2, ClaimElements DEF Claims, KeyOf

LEMMA SameTables ==
  ASSUME UNCHANGED tables, NEW key
  PROVE  Stored' = Stored /\ RowOf(key)' = RowOf(key)
  BY DEF tables, Stored, RowOf

LEMMA StillStored ==
  ASSUME PushInv, NEW p \in Pushers, NEW D, Progress(p, D), Stored \subseteq Stored',
         \A d \in D : d[1] \in Stages /\ KeyOf(d) \in Stored', now' \in Nat, now <= now'
  PROVE  ClaimsStored'
  <1>1. start[p] \in 0..now /\ now \in Nat
    BY PushAssumption DEF PushInv, ControlOK, TimesOK, Domains, Counters, HandlerTypes
  <1>2. ClaimsStored
    BY DEF PushInv
  <1>3. ASSUME NEW k \in DOMAIN acked'
        PROVE  k[1] \in Stages /\ acked'[k] \in 0..now' /\ KeyOf(k) \in Stored'
    <2>1. CASE k \in DOMAIN acked /\ acked'[k] = acked[k]
      BY <1>1, <1>2, <2>1 DEF ClaimsStored
    <2>2. CASE k \in Done(p) \cup D /\ acked'[k] = start[p]
      <3>1. k[1] \in Stages /\ KeyOf(k) \in Stored'
        BY <1>2, <2>2, DoneHasStage DEF ClaimsStored
      <3> QED
        BY <1>1, <2>2, <3>1
    <2> QED
      BY <1>3, <2>1, <2>2 DEF Progress
  <1>4. ASSUME NEW q \in Pushers, NEW d \in Done(q)'
        PROVE  KeyOf(d) \in Stored'
    BY <1>2, <1>4 DEF ClaimsStored, Progress
  <1>5. \A k : KeyOf(k)' = KeyOf(k)
    BY DEF KeyOf
  <1> QED
    BY <1>3, <1>4, <1>5 DEF ClaimsStored

(***************************************************************************)
(* Calm steps of p write no table, take no lock, open no transaction and   *)
(* make no claim.                                                          *)
(***************************************************************************)
Calm(p) ==
  /\ StepOf(p) /\ UNCHANGED tables /\ Progress(p, {})
  /\ written'[p] = {} \/ (written'[p] = written[p] /\ stage'[p] = stage[p] /\ stamp'[p] = stamp[p])
  /\ tx'[p] => tx[p]
  /\ pc'[p] \in {"exec", "commit"} /\ tx'[p] => pc[p] \in {"exec", "commit"} /\ stamp'[p] = stamp[p]

LEMMA LocksOfOthers ==
  ASSUME NEW q, SameHandler(q), SameTx(q)
  PROVE  Locks(q)' = Locks(q)
  BY DEF SameHandler, SameTx, Locks, Key

LEMMA PoolKept ==
  ASSUME PushInv, provider' = provider, \A q \in Pushers : tx'[q] => tx[q]
  PROVE  PoolOK'
  <1>1. IsFiniteSet(InUse) /\ Cardinality(InUse) <= Conns[provider] /\ Conns[provider] \in Nat
    BY PushAssumption DEF PushInv, PoolOK, Domains, Counters
  <1>2. InUse' \in SUBSET InUse
    BY DEF InUse
  <1>3. /\ IsFiniteSet(InUse') /\ Cardinality(InUse') <= Cardinality(InUse)
        /\ Cardinality(InUse') \in Nat /\ Cardinality(InUse) \in Nat
    BY <1>1, <1>2, FS_Subset, FS_CardinalityType
  <1> QED
    BY <1>1, <1>3 DEF PoolOK

LEMMA CalmStep ==
  ASSUME PushInv, NEW p \in Pushers, Calm(p)
  PROVE  PushInv'
  <1>1. /\ StepOf(p) /\ Domains' /\ Others(p) /\ UNCHANGED <<now, provider>>
        /\ Progress(p, {}) /\ UNCHANGED tables
    BY DEF Calm, StepOf
  <1>2. \A q \in Pushers : ControlOK(q)'
    BY <1>1, OthersControl
  <1>3. \A q \in Pushers : Locks(q)' = {} \/ (Locks(q)' = Locks(q) /\ stamp'[q] = stamp[q])
    <2>1. \A q \in Pushers \ {p} : Locks(q)' = Locks(q) /\ stamp'[q] = stamp[q]
      BY <1>1, LocksOfOthers DEF Others, SameTx
    <2>2. Locks(p)' = {} \/ (Locks(p)' = Locks(p) /\ stamp'[p] = stamp[p])
      BY DEF Calm, Locks, Key
    <2> QED
      BY <2>1, <2>2
  <1>4. LocksDisjoint'
    BY <1>3 DEF PushInv, LocksDisjoint
  <1>5. PoolOK'
    BY <1>1, PoolKept DEF Calm, Others, SameTx
  <1>6. TablesOK'
    BY <1>1 DEF PushInv, TablesOK, tables
  <1>7. Stored' = Stored /\ \A key : RowOf(key)' = RowOf(key)
    BY <1>1, SameTables
  <1>8. ASSUME NEW key, NEW t \in Claims(key)' PROVE t \in Claims(key)
    BY <1>1, <1>7, <1>8, OldClaims, ClaimElements
  <1>9. ClaimsStored'
    <2>1. now \in Nat
      BY PushAssumption DEF PushInv, Domains, Counters
    <2> QED
      BY <1>1, <1>7, <2>1, StillStored
  <1>10. Lag' = Lag
    BY <1>1 DEF Lag
  <1>11. ClaimsMet'
    BY <1>7, <1>8, <1>10 DEF PushInv, ClaimsMet
  <1>12. LocksMeetClaims'
    BY <1>3, <1>8, <1>10 DEF PushInv, LocksMeetClaims
  <1>13. StampIsLatest'
    <2>1. \A q \in Pushers : pc'[q] \in {"exec", "commit"} /\ tx'[q] =>
            pc[q] \in {"exec", "commit"} /\ tx[q] /\ stamp'[q] = stamp[q]
      BY <1>1 DEF Calm, Others, SameHandler, SameTx
    <2> QED
      BY <1>1, <1>7, <2>1 DEF PushInv, StampIsLatest
  <1> QED
    BY <1>1, <1>2, <1>4, <1>5, <1>6, <1>9, <1>11, <1>12, <1>13 DEF PushInv

LEMMA CalmActions ==
  ASSUME PushInv, NEW p \in Pushers,
         \/ \E b \in Bodies[p] : Receive(p, b)
         \/ Fail(p) \/ Enter(p) \/ BeginFails(p) \/ ExecFails(p) \/ Commit(p)
         \/ Rollback(p) \/ Expire(p) \/ ClientGone(p)
  PROVE  Calm(p)
  <1>1. Domains /\ ControlOK(p)
    BY DEF PushInv
  <1>2. ASSUME NEW b \in Bodies[p], Receive(p, b)
        PROVE  Calm(p)
    <2>1. /\ StepOf(p) /\ pc'[p] = "call" /\ stage'[p] = "rules"
          /\ DOMAIN body'[p] \subseteq todo'[p] \cup {metric'[p]}
      BY <1>2, ReceiveControl
    <2>2. Done(p)' = {}
      BY <2>1, DoneNone
    <2>3. \A q \in Pushers \ {p} : Done(q)' = Done(q) /\ start'[q] = start[q]
      BY <2>1, DoneSame DEF StepOf, Others, SameHandler
    <2>4. pc[p] = "idle" /\ UNCHANGED <<tables, tx, transaction, acked>>
      BY <1>2 DEF Receive
    <2>5. Progress(p, {})
      BY <2>2, <2>3, <2>4 DEF Progress
    <2> QED
      BY <1>1, <2>1, <2>4, <2>5 DEF Calm, ControlOK, TxOK, transaction
  <1>3. CASE Fail(p)
    <2>1. StepOf(p)
      BY <1>3, FailControl
    <2>2. pc[p] = "fail" /\ UNCHANGED <<tables, tx, transaction, acked>>
      BY <1>3 DEF Fail
    <2>3. pc'[p] = "idle" /\ stage'[p] = "rules" /\ DOMAIN body'[p] = {}
      BY <1>1, <1>3, ReturnEffect DEF Fail, Domains
    <2>4. Done(p)' = {}
      BY <2>3, DoneNone
    <2>5. \A q \in Pushers \ {p} : Done(q)' = Done(q) /\ start'[q] = start[q]
      BY <2>1, DoneSame DEF StepOf, Others, SameHandler
    <2>6. Progress(p, {})
      BY <2>2, <2>4, <2>5 DEF Progress
    <2> QED
      BY <1>1, <2>1, <2>2, <2>3, <2>6 DEF Calm, ControlOK, TxOK, transaction
  <1>4. CASE Enter(p)
    <2>1. StepOf(p)
      BY <1>4, EnterControl
    <2>2. pc[p] = "call" /\ UNCHANGED <<tables, tx, transaction>>
      BY <1>4 DEF Enter
    <2>3. Progress(p, {})
      <3>1. CASE Current(p) = {} /\ Proceed(p)
        <4>1. {stage[p]} \X Current(p) = {}
          BY <3>1
        <4> QED
          BY <1>1, <2>2, <3>1, <4>1, ProceedProgress DEF Domains, ControlOK
      <3>2. CASE UNCHANGED <<request, acked>>
        BY <3>2, SameRequests
      <3> QED
        BY <1>4, <3>1, <3>2 DEF Enter
    <2>4. pc'[p] \in {"call", "idle", "begin"}
      BY <1>1, <1>4, ProceedEffect, GotoEffect DEF Enter, Domains, ControlOK
    <2> QED
      BY <1>1, <2>1, <2>2, <2>3, <2>4 DEF Calm, ControlOK, TxOK, transaction
  <1>5. CASE BeginFails(p)
    <2>1. StepOf(p)
      BY <1>5, BeginFailsControl
    <2>2. /\ pc[p] = "begin" /\ pc'[p] = "fail" /\ UNCHANGED <<tables, request, tx, transaction, acked>>
      BY <1>1, <1>5 DEF BeginFails, Domains, HandlerTypes
    <2> QED
      BY <1>1, <2>1, <2>2, SameRequests DEF Calm, ControlOK, TxOK, transaction
  <1>6. CASE ExecFails(p)
    <2>1. StepOf(p) /\ written'[p] = {} /\ tx' = tx
      BY <1>6, ExecFailsControl
    <2>2. pc'[p] = "fail" /\ UNCHANGED <<tables, request, acked>>
      BY <1>1, <1>6 DEF ExecFails, Domains, HandlerTypes
    <2> QED
      BY <2>1, <2>2, SameRequests DEF Calm
  <1>7. CASE Commit(p)
    <2>1. StepOf(p)
      BY <1>7, CommitControl
    <2>2. pc[p] = "exec" /\ UNCHANGED <<tables, request, tx, transaction, acked>>
      BY <1>7 DEF Commit
    <2> QED
      BY <2>1, <2>2, SameRequests DEF Calm, transaction, request
  <1>8. CASE Rollback(p)
    <2>1. StepOf(p) /\ written'[p] = {} /\ ~tx'[p]
      BY <1>8, RollbackControl
    <2>2. UNCHANGED <<tables, request, acked>>
      BY <1>8 DEF Rollback
    <2> QED
      BY <2>1, <2>2, SameRequests DEF Calm
  <1>9. CASE Expire(p) \/ ClientGone(p)
    <2>1. StepOf(p)
      BY <1>9, CancelControl
    <2>2. UNCHANGED <<tables, pc, request, tx, transaction, acked>>
      BY <1>9 DEF Expire, ClientGone, Cancel
    <2> QED
      BY <2>1, <2>2, SameRequests DEF Calm, transaction, request
  <1> QED
    BY <1>2, <1>3, <1>4, <1>5, <1>6, <1>7, <1>8, <1>9

-----------------------------------------------------------------------------
(***************************************************************************)
(* The other steps: time, a new transaction, a row written, a commit.      *)
(***************************************************************************)
LEMMA ClaimBounds ==
  ASSUME PushInv, NEW key, NEW t \in Claims(key)
  PROVE  t \in 0..now /\ key \in Stored
  <1>1. now \in Nat
    BY PushAssumption DEF PushInv, Domains, Counters
  <1>2. CASE key \in Stored /\ t = RowOf(key).first
    BY <1>2 DEF PushInv, TablesOK, Stored, RowOf
  <1>3. CASE \E k \in DOMAIN acked : KeyOf(k) = key /\ t = acked[k]
    BY <1>3 DEF PushInv, ClaimsStored
  <1>4. CASE \E q \in Pushers : t = start[q] /\ \E d \in Done(q) : KeyOf(d) = key
    BY <1>1, <1>4 DEF PushInv, ClaimsStored, ControlOK, TimesOK, Domains, HandlerTypes
  <1> QED
    BY <1>2, <1>3, <1>4, ClaimElements

LEMMA LastBounds ==
  ASSUME PushInv, NEW key \in Stored
  PROVE  RowOf(key).last \in 0..now
  BY DEF PushInv, TablesOK, Stored, RowOf

LEMMA TickStep ==
  ASSUME PushInv, Tick
  PROVE  PushInv'
  <1>1. /\ now \in Nat /\ now' = now + 1
        /\ UNCHANGED <<provider, tables, pc, request, tx, transaction, acked>>
    BY PushAssumption DEF PushInv, Domains, Counters, Tick
  <1>2. UNCHANGED <<rules, dashboards, start, stage, stamp, written>>
    BY <1>1 DEF tables, request, transaction
  <1>3. Domains' /\ \A p \in Pushers : ControlOK(p)'
    BY TickControl
  <1>4. PoolOK' /\ LocksDisjoint'
    BY <1>1, <1>2 DEF PushInv, PoolOK, InUse, LocksDisjoint, Locks, Key
  <1>5. TablesOK'
    BY <1>1, <1>2 DEF PushInv, TablesOK
  <1>6. Stored' = Stored /\ \A key : RowOf(key)' = RowOf(key)
    BY <1>1, SameTables
  <1>7. \A p \in Pushers : Done(p)' = Done(p) /\ Locks(p)' = Locks(p)
    BY <1>1, <1>2, DoneSame DEF request, Locks, Key
  <1>8. \A key : KeyOf(key)' = KeyOf(key)
    BY DEF KeyOf
  <1>9. ClaimsStored'
    BY <1>1, <1>6, <1>7, <1>8 DEF PushInv, ClaimsStored
  <1>10. \A key : Claims(key)' = Claims(key)
    BY <1>1, <1>2, <1>6, <1>7 DEF Claims, KeyOf
  <1>11. Lag' = Lag
    BY <1>1 DEF Lag
  <1>12. ClaimsMet' /\ LocksMeetClaims' /\ StampIsLatest'
    BY <1>1, <1>2, <1>6, <1>7, <1>10, <1>11 DEF PushInv, ClaimsMet, LocksMeetClaims, StampIsLatest
  <1> QED
    BY <1>3, <1>4, <1>5, <1>9, <1>12 DEF PushInv

LEMMA BeginTxStep ==
  ASSUME PushInv, NEW p \in Pushers, BeginTx(p)
  PROVE  PushInv'
  <1>1. StepOf(p) /\ tx' = [tx EXCEPT ![p] = TRUE] /\ stamp'[p] = now /\ written'[p] = {}
    BY BeginTxControl
  <1>2. Domains' /\ Others(p) /\ UNCHANGED <<now, provider>>
    BY <1>1 DEF StepOf
  <1>3. \A q \in Pushers : ControlOK(q)'
    BY <1>1, OthersControl
  <1>4. UNCHANGED <<tables, request, acked>>
    BY DEF BeginTx, Open
  <1>5. PoolOK'
    <2>1. InUse' = InUse \cup {p}
      BY <1>1 DEF PushInv, Domains, TxTypes, InUse
    <2>2. /\ IsFiniteSet(InUse) /\ Cardinality(InUse) < Conns[provider]
          /\ Conns[provider] \in Nat
      BY PushAssumption DEF PushInv, PoolOK, Domains, Counters, BeginTx
    <2>3. /\ IsFiniteSet(InUse \cup {p}) /\ Cardinality(InUse) \in Nat
          /\ Cardinality(InUse \cup {p}) = IF p \in InUse THEN Cardinality(InUse) ELSE Cardinality(InUse) + 1
      BY <2>2, FS_AddElement, FS_CardinalityType
    <2> QED
      BY <1>2, <2>1, <2>2, <2>3 DEF PoolOK
  <1>6. Locks(p)' = {} /\ \A q \in Pushers \ {p} : Locks(q)' = Locks(q) /\ stamp'[q] = stamp[q]
    BY <1>1, <1>2, LocksOfOthers DEF Locks, Others, SameTx
  <1>7. LocksDisjoint'
    BY <1>6 DEF PushInv, LocksDisjoint
  <1>8. TablesOK'
    BY <1>2, <1>4 DEF PushInv, TablesOK, tables
  <1>9. Stored' = Stored /\ \A key : RowOf(key)' = RowOf(key)
    BY <1>4, SameTables
  <1>10. Progress(p, {})
    BY <1>4, SameRequests
  <1>11. ASSUME NEW key, NEW t \in Claims(key)' PROVE t \in Claims(key)
    BY <1>9, <1>10, <1>11, OldClaims, ClaimElements
  <1>12. now \in Nat
    BY PushAssumption DEF PushInv, Domains, Counters
  <1>13. ClaimsStored'
    BY <1>2, <1>9, <1>10, <1>12, StillStored
  <1>14. Lag' = Lag
    BY <1>2 DEF Lag
  <1>15. ClaimsMet' /\ LocksMeetClaims'
    BY <1>6, <1>9, <1>11, <1>14 DEF PushInv, ClaimsMet, LocksMeetClaims
  <1>16. StampIsLatest'
    <2>1. \A key \in Stored : RowOf(key).last <= now
      BY <1>12, LastBounds
    <2>2. \A q \in Pushers \ {p} : pc'[q] = pc[q] /\ tx'[q] = tx[q] /\ stamp'[q] = stamp[q]
      BY <1>2 DEF Others, SameHandler, SameTx
    <2> QED
      BY <1>1, <1>2, <1>9, <2>1, <2>2 DEF PushInv, StampIsLatest
  <1> QED
    BY <1>2, <1>3, <1>5, <1>7, <1>8, <1>13, <1>15, <1>16 DEF PushInv

(* A row is locked while the context is live: on PostgreSQL no claim on it *)
(* is more than PushTimeout after the stamp, and with SQLite's mutex none  *)
(* is after the stamp.                                                     *)
LEMMA UpsertStep ==
  ASSUME PushInv, NEW p \in Pushers, Upsert(p)
  PROVE  PushInv'
  <1> DEFINE new == Key(p, Head(left[p]))
  <1>1. StepOf(p) /\ tx[p] /\ UNCHANGED stage /\ written'[p] = written[p] \cup {Head(left[p])}
    BY UpsertControl
  <1>2. Domains' /\ Others(p) /\ UNCHANGED <<now, provider>>
    BY <1>1 DEF StepOf
  <1>3. \A q \in Pushers : ControlOK(q)'
    BY <1>1, OthersControl
  <1>4. /\ UNCHANGED <<tables, request, acked, tx, stamp, pc>> /\ pc[p] = "exec" /\ ctx[p] = "live"
        /\ left[p] # <<>> /\ ~\E q \in Pushers : Waits(p, q)
    BY DEF Upsert
  <1>5. PoolOK'
    BY <1>2, <1>4, PoolKept
  <1>6. Locks(p)' = Locks(p) \cup {new} /\ \A q \in Pushers \ {p} : Locks(q)' = Locks(q)
    <2>1. \A q \in Pushers \ {p} : Locks(q)' = Locks(q)
      BY <1>2, LocksOfOthers DEF Others
    <2>2. \A r : Key(p, r)' = Key(p, r)
      BY <1>1 DEF Key
    <2>3. Locks(p)' = {Key(p, r) : r \in written'[p]}
      BY <2>2 DEF Locks
    <2> QED
      BY <1>1, <2>1, <2>3 DEF Locks
  <1>7. LocksDisjoint'
    <2>1. \A q \in Pushers \ {p} : new \notin Locks(q)
      BY <1>4 DEF Waits
    <2> QED
      BY <1>6, <2>1 DEF PushInv, LocksDisjoint
  <1>8. TablesOK'
    BY <1>2, <1>4 DEF PushInv, TablesOK, tables
  <1>9. Stored' = Stored /\ \A key : RowOf(key)' = RowOf(key)
    BY <1>4, SameTables
  <1>10. Progress(p, {})
    BY <1>4, SameRequests
  <1>11. ASSUME NEW key, NEW t \in Claims(key)' PROVE t \in Claims(key)
    BY <1>9, <1>10, <1>11, OldClaims, ClaimElements
  <1>12. /\ now \in Nat /\ stamp[p] \in Nat /\ start[p] \in Nat /\ PushTimeout \in Nat
         /\ start[p] <= stamp[p] /\ now <= start[p] + PushTimeout
    BY <1>1, <1>4, PushAssumption
    DEF PushInv, Domains, Counters, HandlerTypes, TxTypes, ControlOK, TimesOK, TxOK
  <1>13. ClaimsStored'
    BY <1>2, <1>9, <1>10, <1>12, StillStored
  <1>14. Lag' = Lag
    BY <1>2 DEF Lag
  <1>15. ClaimsMet'
    BY <1>9, <1>11, <1>14 DEF PushInv, ClaimsMet
  <1>16. ASSUME NEW t \in Claims(new) PROVE t <= stamp[p] + Lag
    <2>1. t \in 0..now /\ new \in Stored
      BY ClaimBounds
    <2>2. CASE provider = "sqlite"
      <3>1. t <= RowOf(new).last + Lag /\ RowOf(new).last <= stamp[p] /\ Lag = 0
        BY <1>1, <1>4, <2>1, <2>2 DEF PushInv, ClaimsMet, StampIsLatest, Lag
      <3>2. RowOf(new).last \in 0..now
        BY <2>1, LastBounds
      <3> QED
        BY <1>12, <2>1, <3>1, <3>2
    <2>3. CASE provider # "sqlite"
      BY <1>12, <2>1, <2>3 DEF Lag
    <2> QED
      BY <2>2, <2>3
  <1>17. LocksMeetClaims'
    BY <1>4, <1>6, <1>11, <1>14, <1>16 DEF PushInv, LocksMeetClaims
  <1>18. StampIsLatest'
    BY <1>2, <1>4, <1>9 DEF PushInv, StampIsLatest
  <1> QED
    BY <1>2, <1>3, <1>5, <1>7, <1>8, <1>13, <1>15, <1>17, <1>18 DEF PushInv

(* What the upserts of both providers do to first_seen_at and last_seen_at. *)
IsRuleRow(r, N) == r \in [first : N, last : N]
IsDashboardRow(r, N) ==
  /\ r.first \in N /\ r.last \in N
  /\ r = [first |-> r.first, last |-> r.last, name |-> r.name]

RulesWrite(T, T2, rows, t, N) ==
  /\ T2 = SQ!InsertRulesUsage(T, rows, t) \/ T2 = PG!InsertRulesUsage(T, rows, t)
  /\ t \in N /\ \A k \in DOMAIN T : IsRuleRow(T[k], N)
DashboardsWrite(T, T2, items, t, N) ==
  /\ T2 = SQ!InsertDashboardUsage(T, items, t) \/ T2 = PG!InsertDashboardUsage(T, items, t)
  /\ t \in N /\ \A k \in DOMAIN T : IsDashboardRow(T[k], N)

Stamped(T, T2, keys, t) ==
  /\ DOMAIN T2 = DOMAIN T \cup keys
  /\ \A k \in keys : T2[k].last = t
  /\ \A k \in keys : T2[k].first = IF k \in DOMAIN T THEN T[k].first ELSE t
  /\ \A k \in DOMAIN T \ keys : T2[k] = T[k]

LEMMA RulesUpserted ==
  ASSUME NEW T, NEW rows, NEW t, NEW T2, NEW N, RulesWrite(T, T2, rows, t, N)
  PROVE  Stamped(T, T2, rows, t) /\ \A k \in DOMAIN T2 : IsRuleRow(T2[k], N)
  <1>0. t \in N /\ \A k \in DOMAIN T : T[k] \in [first : N, last : N]
    BY DEF RulesWrite, IsRuleRow
  <1>1. T2 = [r \in DOMAIN T \cup rows |->
                CASE r \in rows /\ r \in DOMAIN T -> [T[r] EXCEPT !.last = t]
                  [] r \in rows /\ r \notin DOMAIN T -> [first |-> t, last |-> t]
                  [] OTHER -> T[r]]
    BY DEF RulesWrite, SQ!InsertRulesUsage, PG!InsertRulesUsage
  <1>2. \A k \in rows \cap DOMAIN T : T2[k] = [T[k] EXCEPT !.last = t]
    BY <1>1
  <1>3. \A k \in rows \ DOMAIN T : T2[k] = [first |-> t, last |-> t]
    BY <1>1
  <1>4. \A k \in DOMAIN T \ rows : T2[k] = T[k]
    BY <1>1
  <1>5. DOMAIN T2 = DOMAIN T \cup rows
    BY <1>1
  <1>6. \A k \in rows \cap DOMAIN T : /\ T2[k] \in [first : N, last : N]
                                     /\ T2[k].last = t /\ T2[k].first = T[k].first
    BY <1>0, <1>2
  <1>7. \A k \in rows \ DOMAIN T : /\ T2[k] \in [first : N, last : N]
                                  /\ T2[k].last = t /\ T2[k].first = t
    BY <1>0, <1>3
  <1> QED
    BY <1>0, <1>4, <1>5, <1>6, <1>7 DEF Stamped, IsRuleRow

LEMMA DashboardsUpserted ==
  ASSUME NEW T, NEW items, NEW t, NEW T2, NEW N, DashboardsWrite(T, T2, items, t, N)
  PROVE  /\ Stamped(T, T2, {<<d.id, d.serie>> : d \in items}, t)
         /\ \A k \in DOMAIN T2 : IsDashboardRow(T2[k], N)
  <1> DEFINE keys == {<<d.id, d.serie>> : d \in items}
             name(k) == (CHOOSE d \in items : <<d.id, d.serie>> = k).name
  <1>1. T2 = [k \in DOMAIN T \cup keys |->
                CASE k \in keys /\ k \in DOMAIN T -> [T[k] EXCEPT !.last = t, !.name = name(k)]
                  [] k \in keys /\ k \notin DOMAIN T -> [first |-> t, last |-> t, name |-> name(k)]
                  [] OTHER -> T[k]]
    BY DEF DashboardsWrite, SQ!InsertDashboardUsage, PG!InsertDashboardUsage
  <1>0. t \in N /\ \A k \in DOMAIN T : IsDashboardRow(T[k], N)
    BY DEF DashboardsWrite
  <1> HIDE DEF keys, name
  <1>2. \A k \in keys \cap DOMAIN T : T2[k] = [T[k] EXCEPT !.last = t, !.name = name(k)]
    BY <1>1
  <1>3. \A k \in keys \ DOMAIN T : T2[k] = [first |-> t, last |-> t, name |-> name(k)]
    BY <1>1
  <1>4. \A k \in DOMAIN T \ keys : T2[k] = T[k]
    BY <1>1
  <1>5. DOMAIN T2 = DOMAIN T \cup keys
    BY <1>1
  <1>6. ASSUME NEW k \in keys \cap DOMAIN T
        PROVE  IsDashboardRow(T2[k], N) /\ T2[k].last = t /\ T2[k].first = T[k].first
    <2>1. T[k].first \in N /\ T[k] = [first |-> T[k].first, last |-> T[k].last, name |-> T[k].name]
      BY <1>0 DEF IsDashboardRow
    <2>2. T2[k] = [first |-> T[k].first, last |-> t, name |-> name(k)]
      BY <1>2, <2>1
    <2> QED
      BY <1>0, <2>1, <2>2 DEF IsDashboardRow
  <1>7. ASSUME NEW k \in keys \ DOMAIN T
        PROVE  IsDashboardRow(T2[k], N) /\ T2[k].last = t /\ T2[k].first = t
    <2>1. T2[k] = [first |-> t, last |-> t, name |-> name(k)]
      BY <1>3
    <2> QED
      BY <1>0, <2>1 DEF IsDashboardRow
  <1>8. Stamped(T, T2, keys, t) /\ \A k \in DOMAIN T2 : IsDashboardRow(T2[k], N)
    BY <1>0, <1>4, <1>5, <1>6, <1>7 DEF Stamped
  <1> QED
    BY <1>8 DEF keys

(* A commit stamps the rows its transaction has locked, and no others.     *)
LEMMA WriteEffect ==
  ASSUME PushInv, NEW p \in Pushers, Write(p)
  PROVE  /\ Stored' = Stored \cup Locks(p)
         /\ \A key \in Locks(p) :
              /\ (RowOf(key).last)' = stamp[p]
              /\ (RowOf(key).first)' = IF key \in Stored THEN RowOf(key).first ELSE stamp[p]
         /\ \A key \in Stored \ Locks(p) : RowOf(key)' = RowOf(key)
         /\ now' = now => TablesOK'
  <1>1. stamp[p] \in 0..now /\ stage[p] \in Stages
    BY PushAssumption DEF PushInv, Domains, Counters, TxTypes, HandlerTypes, ControlOK, TimesOK
  <1>2. TablesOK
    BY DEF PushInv
  <1>3. CASE stage[p] = "rules"
    <2>1. RulesWrite(rules, rules', written[p], stamp[p], 0..now) /\ dashboards' = dashboards
      BY <1>1, <1>2, <1>3 DEF Write, RulesWrite, TablesOK, IsRuleRow
    <2>2. /\ Stamped(rules, rules', written[p], stamp[p])
          /\ \A k \in DOMAIN rules' : IsRuleRow(rules'[k], 0..now)
      BY <2>1, RulesUpserted
    <2>3. /\ DOMAIN rules' = DOMAIN rules \cup written[p]
          /\ \A k \in DOMAIN rules' : rules'[k] \in [first : 0..now, last : 0..now]
          /\ \A k \in written[p] : rules'[k].last = stamp[p]
          /\ \A k \in written[p] : rules'[k].first = IF k \in DOMAIN rules THEN rules[k].first ELSE stamp[p]
          /\ \A k \in DOMAIN rules \ written[p] : rules'[k] = rules[k]
      BY <2>2 DEF Stamped, IsRuleRow
    <2>4. Locks(p) = {"rules"} \X written[p]
      BY <1>3 DEF Locks, Key
    <2>5. Stored' = Stored \cup Locks(p)
      BY <2>1, <2>3, <2>4 DEF Stored
    <2>6. now' = now => TablesOK'
      BY <1>2, <2>1, <2>3 DEF TablesOK
    <2>7. ASSUME NEW key \in Locks(p)
          PROVE  /\ (RowOf(key).last)' = stamp[p]
                 /\ (RowOf(key).first)' = IF key \in Stored THEN RowOf(key).first ELSE stamp[p]
      <3>1. PICK k \in written[p] : key = <<"rules", k>>
        BY <2>4
      <3>2. RowOf(key)' = rules'[k] /\ RowOf(key) = rules[k] /\ (key \in Stored <=> k \in DOMAIN rules)
        BY <3>1 DEF RowOf, Stored
      <3> QED
        BY <2>3, <3>2
    <2>8. ASSUME NEW key \in Stored \ Locks(p)
          PROVE  RowOf(key)' = RowOf(key)
      BY <2>1, <2>3, <2>4 DEF Stored, RowOf
    <2> QED
      BY <2>5, <2>6, <2>7, <2>8
  <1>4. CASE stage[p] = "dashboards"
    <2> DEFINE keys == {<<d.id, d.serie>> : d \in written[p]}
    <2>1. DashboardsWrite(dashboards, dashboards', written[p], stamp[p], 0..now) /\ rules' = rules
      BY <1>1, <1>2, <1>4 DEF Write, DashboardsWrite, TablesOK, IsDashboardRow
    <2>2. /\ Stamped(dashboards, dashboards', keys, stamp[p])
          /\ \A k \in DOMAIN dashboards' : IsDashboardRow(dashboards'[k], 0..now)
      BY <2>1, DashboardsUpserted
    <2>3. /\ DOMAIN dashboards' = DOMAIN dashboards \cup keys
          /\ \A k \in DOMAIN dashboards' : IsDashboardRow(dashboards'[k], 0..now)
          /\ \A k \in keys : dashboards'[k].last = stamp[p]
          /\ \A k \in keys : dashboards'[k].first = IF k \in DOMAIN dashboards THEN dashboards[k].first ELSE stamp[p]
          /\ \A k \in DOMAIN dashboards \ keys : dashboards'[k] = dashboards[k]
      BY <2>2 DEF Stamped
    <2>4. Locks(p) = {<<"dashboards", k>> : k \in keys}
      BY <1>4 DEF Locks, Key
    <2> HIDE DEF keys
    <2>5. Stored' = Stored \cup Locks(p)
      BY <2>1, <2>3, <2>4 DEF Stored
    <2>6. now' = now => TablesOK'
      BY <1>2, <2>1, <2>3 DEF TablesOK, IsDashboardRow
    <2>7. ASSUME NEW key \in Locks(p)
          PROVE  /\ (RowOf(key).last)' = stamp[p]
                 /\ (RowOf(key).first)' = IF key \in Stored THEN RowOf(key).first ELSE stamp[p]
      <3>1. PICK k \in keys : key = <<"dashboards", k>>
        BY <2>4
      <3>2. /\ RowOf(key)' = dashboards'[k] /\ RowOf(key) = dashboards[k]
            /\ key \in Stored <=> k \in DOMAIN dashboards
        BY <3>1 DEF RowOf, Stored
      <3> QED
        BY <2>3, <3>2
    <2>8. ASSUME NEW key \in Stored \ Locks(p)
          PROVE  RowOf(key)' = RowOf(key)
      BY <2>1, <2>3, <2>4 DEF Stored, RowOf
    <2> QED
      BY <2>5, <2>6, <2>7, <2>8
  <1> QED
    BY <1>1, <1>3, <1>4, StagesAre
(* A commit under the locks of p, after which p may count D as done. *)
LEMMA WriteStep ==
  ASSUME PushInv, NEW p \in Pushers, Committed(p) \/ CommitFails(p), Write(p),
         NEW D, Progress(p, D), \A d \in D : d[1] \in Stages /\ KeyOf(d) \in Locks(p)
  PROVE  PushInv'
  <1>1. StepOf(p) /\ written'[p] = {} /\ pc[p] = "commit" /\ tx[p] /\ ~tx'[p]
    BY CommittedControl
  <1>2. Domains' /\ Others(p) /\ UNCHANGED <<now, provider>>
    BY <1>1 DEF StepOf
  <1>3. \A q \in Pushers : ControlOK(q)'
    BY <1>1, OthersControl
  <1>4. PoolOK'
    BY <1>1, <1>2, PoolKept DEF Others, SameTx
  <1>5. Locks(p)' = {} /\ \A q \in Pushers \ {p} : Locks(q)' = Locks(q) /\ stamp'[q] = stamp[q]
    BY <1>1, <1>2, LocksOfOthers DEF Locks, Others, SameTx
  <1>6. LocksDisjoint'
    BY <1>5 DEF PushInv, LocksDisjoint
  <1>7. /\ Stored' = Stored \cup Locks(p)
        /\ \A key \in Locks(p) :
             /\ (RowOf(key).last)' = stamp[p]
             /\ (RowOf(key).first)' = IF key \in Stored THEN RowOf(key).first ELSE stamp[p]
        /\ \A key \in Stored \ Locks(p) : RowOf(key)' = RowOf(key)
        /\ TablesOK'
    BY <1>2, WriteEffect
  <1>8. /\ now \in Nat /\ stamp[p] \in Nat /\ start[p] \in Nat /\ start[p] <= stamp[p]
        /\ Lag \in Nat /\ Lag' = Lag
    BY <1>1, <1>2, PushAssumption
    DEF PushInv, Domains, Counters, HandlerTypes, TxTypes, ControlOK, TxOK, Lag
  <1>9. ClaimsStored'
    BY <1>2, <1>7, <1>8, StillStored
  (* On a locked row the stamp meets all claims, elsewhere there are no new ones. *)
  <1>10. ASSUME NEW key \in Locks(p), NEW t \in Claims(key)'
         PROVE  t <= stamp[p] + Lag
    <2>1. CASE t \in Claims(key)
      BY <2>1 DEF PushInv, LocksMeetClaims
    <2>2. CASE t = start[p]
      BY <1>8, <2>2
    <2>3. CASE t = (RowOf(key).first)'
      <3>1. CASE key \in Stored
        <4>1. t \in Claims(key)
          BY <1>7, <2>3, <3>1, ClaimElements
        <4> QED
          BY <2>1, <4>1
      <3>2. CASE key \notin Stored
        BY <1>7, <1>8, <2>3, <3>2
      <3> QED
        BY <3>1, <3>2
    <2> QED
      BY <1>10, <2>1, <2>2, <2>3, OldClaims
  <1>11. ASSUME NEW key, key \notin Locks(p), NEW t \in Claims(key)'
         PROVE  t \in Claims(key)
    <2>1. \/ t \in Claims(key)
          \/ key \in Stored' /\ t = (RowOf(key).first)'
      BY <1>11, OldClaims
    <2>2. CASE key \in Stored' /\ t = (RowOf(key).first)'
      <3>1. key \in Stored /\ RowOf(key)' = RowOf(key)
        BY <1>7, <1>11, <2>2
      <3> QED
        BY <2>2, <3>1, ClaimElements
    <2> QED
      BY <2>1, <2>2
  <1>12. ClaimsMet'
    <2> SUFFICES ASSUME NEW key \in Stored', NEW t \in Claims(key)'
                 PROVE  t <= (RowOf(key).last)' + Lag
      BY <1>8 DEF ClaimsMet
    <2>1. CASE key \in Locks(p)
      BY <1>7, <1>10, <2>1
    <2>2. CASE key \notin Locks(p)
      <3>1. key \in Stored /\ RowOf(key)' = RowOf(key) /\ t \in Claims(key)
        BY <1>7, <1>11, <2>2
      <3> QED
        BY <3>1 DEF PushInv, ClaimsMet
    <2> QED
      BY <2>1, <2>2
  <1>13. LocksMeetClaims'
    <2> SUFFICES ASSUME NEW q \in Pushers, NEW key \in Locks(q)', NEW t \in Claims(key)'
                 PROVE  t <= stamp'[q] + Lag
      BY <1>8 DEF LocksMeetClaims
    <2>1. q # p /\ key \in Locks(q) /\ stamp'[q] = stamp[q]
      BY <1>5
    <2>2. key \notin Locks(p)
      BY <2>1 DEF PushInv, LocksDisjoint
    <2>3. t \in Claims(key)
      BY <1>11, <2>2
    <2> QED
      BY <2>1, <2>3 DEF PushInv, LocksMeetClaims
  (* Under the mutex of SQLite nobody else is in a transaction. *)
  <1>14. StampIsLatest'
    <2> SUFFICES ASSUME NEW q \in Pushers, provider' = "sqlite", pc'[q] \in {"exec", "commit"}, tx'[q]
                 PROVE  FALSE
      BY DEF StampIsLatest
    <2>1. q # p /\ pc[q] = pc'[q] /\ provider = "sqlite"
      BY <1>1, <1>2 DEF Others, SameHandler
    <2>2. mu = p /\ mu = q
      BY <1>1, <2>1 DEF PushInv, ControlOK, MutexOK, InCall
    <2> QED
      BY <2>1, <2>2
  <1> QED
    BY <1>2, <1>3, <1>4, <1>6, <1>7, <1>9, <1>12, <1>13, <1>14 DEF PushInv

LEMMA CommitStep ==
  ASSUME PushInv, NEW p \in Pushers, Committed(p) \/ CommitFails(p)
  PROVE  PushInv'
  <1>1. StepOf(p) /\ written'[p] = {} /\ pc[p] = "commit" /\ tx[p] /\ ~tx'[p]
    BY CommittedControl
  <1>2. Domains /\ ControlOK(p)
    BY DEF PushInv
  <1>3. CASE Committed(p)
    <2> DEFINE D == {stage[p]} \X Current(p)
    <2>1. Write(p) /\ Progress(p, D)
      BY <1>1, <1>2, <1>3, ProceedProgress DEF Committed, Domains, ControlOK
    <2>2. written[p] = Current(p) /\ stage[p] \in Stages
      <3>1. left[p] = <<>> /\ written[p] \cup RowsLeft(p) = Current(p)
        BY <1>1, <1>2 DEF ControlOK, TxOK
      <3>2. RowsLeft(p) = {}
        BY <3>1 DEF RowsLeft
      <3> QED
        BY <1>2, <3>1, <3>2 DEF Domains, HandlerTypes
    <2>3. ASSUME NEW d \in D PROVE d[1] \in Stages /\ KeyOf(d) \in Locks(p)
      <3>1. PICK r \in written[p] : d = <<stage[p], r>>
        BY <2>2
      <3>2. KeyOf(d) = Key(p, r)
        BY <3>1 DEF KeyOf, Key
      <3> QED
        BY <2>2, <3>1, <3>2 DEF Locks
    <2> HIDE DEF D
    <2> QED
      BY <1>3, <2>1, <2>3, WriteStep
  <1>4. CASE CommitFails(p) /\ Write(p)
    <2>1. Progress(p, {})
      BY <1>4, SameRequests DEF CommitFails
    <2> QED
      BY <1>4, <2>1, WriteStep
  <1>5. CASE CommitFails(p) /\ UNCHANGED tables
    <2>1. Progress(p, {})
      BY <1>5, SameRequests DEF CommitFails
    <2>2. Calm(p)
      BY <1>1, <1>5, <2>1 DEF Calm
    <2> QED
      BY <2>2, CalmStep
  <1> QED
    BY <1>3, <1>4, <1>5 DEF CommitFails

-----------------------------------------------------------------------------
(***************************************************************************)
(* The inductive invariant, and what follows from it.                      *)
(***************************************************************************)
LEMMA InitInv == Init => PushInv
  <1> SUFFICES ASSUME Init PROVE PushInv
    OBVIOUS
  <1>1. /\ <<>> \in Seq(AllRows) /\ DOMAIN <<>> = {} /\ Len(<<>>) = 0
    OBVIOUS
  <1>2. /\ DOMAIN rules = {} /\ DOMAIN dashboards = {} /\ DOMAIN acked = {}
        /\ now = 0 /\ mu = Nobody
        /\ \A p \in Pushers : /\ pc[p] = "idle" /\ start[p] = 0 /\ stamp[p] = 0 /\ metric[p] = 0
                              /\ ctx[p] = "done" /\ todo[p] = {} /\ stage[p] = "rules"
                              /\ ~tx[p] /\ left[p] = <<>> /\ written[p] = {}
                              /\ DOMAIN body[p] = {}
    BY NoBodyIsEmpty DEF Init
  <1>3. Domains
    <2>1. Counters
      BY PushAssumption DEF Init, Counters
    <2>2. HandlerTypes
      BY StagesAre DEF Init, HandlerTypes, AllBodies
    <2>3. TxTypes
      BY <1>1 DEF Init, TxTypes
    <2> QED
      BY <2>1, <2>2, <2>3 DEF Domains
  <1>4. PoolOK
    <2>1. InUse = {}
      BY <1>2 DEF InUse
    <2>2. Conns[provider] \in Nat
      BY <1>3, PushAssumption DEF Domains, Counters
    <2> QED
      BY <2>1, <2>2, FS_EmptySet DEF PoolOK
  <1>5. \A p \in Pushers : Locks(p) = {} /\ Done(p) = {}
    BY <1>2 DEF Locks, Done, Earlier
  <1>6. LocksDisjoint /\ LocksMeetClaims
    BY <1>5 DEF LocksDisjoint, LocksMeetClaims
  <1>7. TablesOK
    BY <1>2 DEF TablesOK
  <1>8. \A p \in Pushers : ControlOK(p)
    BY <1>2, PushAssumption DEF ControlOK, TimesOK, LoopOK, TxOK, MutexOK, InCall
  <1>9. Stored = {}
    BY <1>2 DEF Stored
  <1>10. ClaimsStored /\ ClaimsMet /\ StampIsLatest
    BY <1>2, <1>5, <1>9 DEF ClaimsStored, ClaimsMet, StampIsLatest
  <1> QED
    BY <1>3, <1>4, <1>6, <1>7, <1>8, <1>10 DEF PushInv

LEMMA StutterStep ==
  ASSUME PushInv, UNCHANGED vars
  PROVE  PushInv'
  <1>1. /\ UNCHANGED <<provider, now, pushes, faults, rules, dashboards, mu, pc, body, start, ctx>>
        /\ UNCHANGED <<todo, metric, stage, tx, stamp, left, written, acked>>
    BY DEF vars, tables, request, transaction
  <1>2. Domains' /\ PoolOK' /\ TablesOK'
    BY <1>1 DEF PushInv, Domains, Counters, HandlerTypes, TxTypes, PoolOK, InUse, TablesOK
  <1>3. \A p \in Pushers : /\ Locks(p)' = Locks(p) /\ Done(p)' = Done(p)
                           /\ Current(p)' = Current(p) /\ RowsLeft(p)' = RowsLeft(p)
    BY <1>1, DoneSame DEF Locks, Key, Current, RowsLeft
  <1>4. \A p \in Pushers : ControlOK(p)'
    BY <1>1, <1>3 DEF PushInv, ControlOK, TimesOK, LoopOK, TxOK, MutexOK
  <1>5. Stored' = Stored /\ \A key : RowOf(key)' = RowOf(key) /\ KeyOf(key)' = KeyOf(key)
    BY <1>1 DEF Stored, RowOf, KeyOf
  <1>6. \A key : Claims(key)' = Claims(key)
    BY <1>1, <1>3, <1>5 DEF Claims, KeyOf
  <1>7. ClaimsStored' /\ LocksDisjoint'
    BY <1>1, <1>3, <1>5 DEF PushInv, ClaimsStored, LocksDisjoint
  <1>8. ClaimsMet' /\ LocksMeetClaims' /\ StampIsLatest'
    BY <1>1, <1>3, <1>5, <1>6 DEF PushInv, ClaimsMet, LocksMeetClaims, StampIsLatest, Lag
  <1> QED
    BY <1>2, <1>4, <1>7, <1>8 DEF PushInv

LEMMA NextStep == PushInv /\ [Next]_vars => PushInv'
  <1> SUFFICES ASSUME PushInv, [Next]_vars PROVE PushInv'
    OBVIOUS
  <1>1. CASE UNCHANGED vars
    BY <1>1, StutterStep
  <1>2. CASE Tick
    BY <1>2, TickStep
  <1>3. ASSUME NEW p \in Pushers,
               \/ \E b \in Bodies[p] : Receive(p, b)
               \/ Fail(p) \/ Enter(p) \/ BeginFails(p) \/ ExecFails(p) \/ Commit(p)
               \/ Rollback(p) \/ Expire(p) \/ ClientGone(p)
        PROVE  PushInv'
    BY <1>3, CalmActions, CalmStep
  <1>4. ASSUME NEW p \in Pushers, BeginTx(p) PROVE PushInv'
    BY <1>4, BeginTxStep
  <1>5. ASSUME NEW p \in Pushers, Upsert(p) PROVE PushInv'
    BY <1>5, UpsertStep
  <1>6. ASSUME NEW p \in Pushers, Committed(p) \/ CommitFails(p) PROVE PushInv'
    BY <1>6, CommitStep
  <1> QED
    BY <1>1, <1>2, <1>3, <1>4, <1>5, <1>6 DEF Next, Handle

LEMMA SpecInv == Spec => []PushInv
  BY InitInv, NextStep, PTL DEF Spec

(* In every state of concurrent pushes the pool's bound holds, no two open *)
(* transactions of PostgreSQL have written the same row, and the mutex of  *)
(* SQLite is held by exactly the push inside InsertRulesUsage or           *)
(* InsertDashboardUsage.                                                   *)
THEOREM TypeCorrect == Spec => []TypeOK
  <1>1. PushInv => TypeOK
    <2> SUFFICES ASSUME PushInv PROVE TypeOK
      OBVIOUS
    <2>1. Domains /\ PoolOK /\ LocksDisjoint /\ \A p \in Pushers : ControlOK(p)
      BY DEF PushInv
    <2>2. now \in Nat
      BY <2>1, PushAssumption DEF Domains, Counters
    <2>3. \A p \in Pushers : start[p] \in 0..now /\ stamp[p] \in 0..now
      BY <2>1, <2>2 DEF Domains, HandlerTypes, TxTypes, ControlOK, TimesOK
    <2>4. \A p \in Pushers :
            /\ pc[p] \in {"idle", "call", "begin", "exec", "commit", "fail"}
            /\ ctx[p] \in {"live", "done"} /\ stage[p] \in Stages /\ tx[p] \in BOOLEAN
      BY <2>1 DEF Domains, HandlerTypes, TxTypes
    <2>5. \A p \in Pushers :
            /\ todo[p] \subseteq DOMAIN body[p]
            /\ written[p] # {} => tx[p] /\ pc[p] \in {"exec", "commit"}
            /\ mu = p => pc[p] \in InCall
            /\ (provider = "sqlite" /\ pc[p] \in InCall) => mu = p
      BY <2>1 DEF ControlOK, LoopOK, TxOK, MutexOK
    <2> QED
      BY <2>1, <2>3, <2>4, <2>5 DEF TypeOK, Domains, Counters, PoolOK, LocksDisjoint
  <1> QED
    BY <1>1, SpecInv, PTL

(* However pushes of the same rows overlap, fail or lose their answers, no *)
(* row of RulesUsage or DashboardUsage is first seen after it is last seen *)
(* (on PostgreSQL, by more than the push timeout).                         *)
THEOREM WindowIsAWindow == Spec => []PresenceWindow
  <1>1. PushInv => PresenceWindow
    <2> SUFFICES ASSUME PushInv PROVE PresenceWindow
      OBVIOUS
    <2>1. ASSUME NEW key \in Stored PROVE RowOf(key).first <= RowOf(key).last + Lag
      <3>1. RowOf(key).first \in Claims(key)
        BY ClaimElements
      <3> QED
        BY <3>1 DEF PushInv, ClaimsMet
    <2>2. Seen(rules)
      <3> SUFFICES ASSUME NEW k \in DOMAIN rules PROVE rules[k].first <= rules[k].last + Lag
        BY DEF Seen
      <3>1. <<"rules", k>> \in Stored /\ RowOf(<<"rules", k>>) = rules[k]
        BY DEF Stored, RowOf
      <3> QED
        BY <2>1, <3>1
    <2>3. Seen(dashboards)
      <3> SUFFICES ASSUME NEW k \in DOMAIN dashboards
                   PROVE  dashboards[k].first <= dashboards[k].last + Lag
        BY DEF Seen
      <3>1. <<"dashboards", k>> \in Stored /\ RowOf(<<"dashboards", k>>) = dashboards[k]
        BY DEF Stored, RowOf
      <3> QED
        BY <2>1, <3>1
    <2> QED
      BY <2>2, <2>3 DEF PresenceWindow
  <1> QED
    BY <1>1, SpecInv, PTL

(* A row that PushMetricsUsage answered 200 for stays stored, last seen no *)
(* earlier than that request came in (on PostgreSQL, than the push timeout *)
(* before it), whatever pushes of the same row do later.                   *)
THEOREM AcknowledgedIsSeen == Spec => []AckedUsageSeen
  <1>1. PushInv => AckedUsageSeen
    <2> SUFFICES ASSUME PushInv, NEW k \in DOMAIN acked
                 PROVE  Has(k) /\ LastOf(k) + Lag >= acked[k]
      BY DEF AckedUsageSeen
    <2>1. KeyOf(k) \in Stored /\ acked[k] \in Claims(KeyOf(k)) /\ k[1] \in Stages
      BY ClaimElements DEF PushInv, ClaimsStored
    <2>2. acked[k] <= RowOf(KeyOf(k)).last + Lag
      BY <2>1 DEF PushInv, ClaimsMet
    <2>3. Has(k) /\ LastOf(k) = RowOf(KeyOf(k)).last
      BY <2>1, StagesAre DEF Has, LastOf, KeyOf, RowOf, Stored
    <2>4. LastOf(k) \in Nat /\ acked[k] \in Nat /\ Lag \in Nat
      BY <2>1, <2>3, LastBounds, ClaimBounds, PushAssumption DEF Lag
    <2> QED
      BY <2>2, <2>3, <2>4
  <1> QED
    BY <1>1, SpecInv, PTL
=============================================================================
