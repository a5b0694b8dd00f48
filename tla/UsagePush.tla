----------------------------- MODULE UsagePush ------------------------------
(***************************************************************************)
(* Concurrent pushes of usage: the handler PushMetricsUsage with the       *)
(* transactions of InsertRulesUsage and InsertDashboardUsage inside.  What *)
(* UsageStore takes as one step is here a mutex (SQLite), a connection of  *)
(* the pool, a statement per row under row locks (PostgreSQL), a commit    *)
(* whose answer may be lost, a deadline, and a transaction that an error   *)
(* leaves open: the loop's err shadows the one that the deferred Rollback  *)
(* looks at, so it ends only when database/sql sees the context cancelled. *)
(***************************************************************************)
EXTENDS ApiRoutes

CONSTANTS
  Providers,     \* subset of {"sqlite", "postgresql"}
  Pushers,       \* clients, each with one request at a time
  Bodies,        \* pusher -> what it may send: metric -> [rules, dashboards]
  Conns,         \* provider -> bound of its connection pool
  PushTimeout,   \* server.push_metrics_usage_timeout
  MaxTime,       \* bound: the last instant
  MaxPushes,     \* bound: requests
  MaxFaults      \* bound: failing calls and clients that go away

Nobody == "nobody"

ASSUME PushAssumption ==
  /\ Providers \subseteq {"sqlite", "postgresql"} /\ \A d \in Providers : Conns[d] \in Nat
  /\ PushTimeout \in Nat /\ MaxTime \in Nat /\ MaxPushes \in Nat /\ MaxFaults \in Nat
  /\ Nobody \notin Pushers
  /\ \A p \in Pushers : \A b \in Bodies[p] : \A m \in DOMAIN b :
       IsFiniteSet(b[m].rules) /\ IsFiniteSet(b[m].dashboards)

VARIABLES
  provider, now,
  pushes, faults,         \* requests and failures so far
  rules, dashboards,      \* the tables
  mu,                     \* SQLiteProvider.mu: its holder or Nobody
  pc, body, start,        \* of each request: where it is, what it got and when
  ctx,                    \* "live" until the deadline, the client or cancel()
  todo, metric, stage,    \* metrics not begun, the current one, its current table
  tx, stamp, left, written, \* open transaction, its now, rows to write and written
  acked                   \* per acknowledged row, the start of its latest request

tables == <<rules, dashboards>>
request == <<body, start, todo, metric, stage>>
transaction == <<stamp, left, written>>
vars == <<provider, now, pushes, faults, tables, mu, pc, request, ctx, tx, transaction, acked>>

NoBody == <<>>
Stages == {"rules", "dashboards"}
Rows(b, m, s) == IF s = "rules" THEN b[m].rules ELSE b[m].dashboards
Current(p) == Rows(body[p], metric[p], stage[p])
InUse == {p \in Pushers : tx[p]}
Running(p) == pc[p] # "idle"

Init ==
  /\ provider \in Providers /\ now = 0 /\ pushes = 0 /\ faults = 0
  /\ rules = <<>> /\ dashboards = <<>> /\ acked = <<>>
  /\ mu = Nobody
  /\ pc = [p \in Pushers |-> "idle"]
  /\ body = [p \in Pushers |-> NoBody]
  /\ start = [p \in Pushers |-> 0] /\ stamp = start /\ metric = start
  /\ ctx = [p \in Pushers |-> "done"]
  /\ todo = [p \in Pushers |-> {}]
  /\ stage = [p \in Pushers |-> "rules"]
  /\ tx = [p \in Pushers |-> FALSE]
  /\ left = [p \in Pushers |-> <<>>] /\ written = todo

(***************************************************************************)
(* The handler.                                                            *)
(***************************************************************************)
(* The deferred cancel() ends the context, the locals are gone. *)
Return(p) ==
  /\ pc' = [pc EXCEPT ![p] = "idle"] /\ ctx' = [ctx EXCEPT ![p] = "done"]
  /\ body' = [body EXCEPT ![p] = NoBody] /\ start' = [start EXCEPT ![p] = 0]
  /\ todo' = [todo EXCEPT ![p] = {}] /\ metric' = [metric EXCEPT ![p] = 0]
  /\ stage' = [stage EXCEPT ![p] = "rules"]

(* The next metric of the loop, in any order: Go's map iteration. *)
Turn(p, rest) ==
  \E m \in rest :
    /\ todo' = [todo EXCEPT ![p] = rest \ {m}]
    /\ metric' = [metric EXCEPT ![p] = m] /\ stage' = [stage EXCEPT ![p] = "rules"]
    /\ pc' = [pc EXCEPT ![p] = "call"]

Receive(p, b) ==
  /\ pc[p] = "idle" /\ ~tx[p]
  /\ now + PushTimeout <= MaxTime /\ pushes < MaxPushes
  /\ pushes' = pushes + 1
  /\ body' = [body EXCEPT ![p] = b] /\ start' = [start EXCEPT ![p] = now]
  /\ ctx' = [ctx EXCEPT ![p] = "live"]
  /\ Turn(p, DOMAIN b)
  /\ UNCHANGED <<provider, now, faults, tables, mu, tx, transaction, acked>>

(* 200. *)
Acknowledged(p) ==
  UNION {{s} \X Rows(body[p], m, s) : m \in DOMAIN body[p], s \in Stages}
Finish(p) ==
  /\ todo[p] = {}
  /\ acked' = [k \in DOMAIN acked \cup Acknowledged(p) |->
                 IF k \in Acknowledged(p) /\ (k \in DOMAIN acked => acked[k] < start[p])
                 THEN start[p] ELSE acked[k]]
  /\ Return(p)

(* A nil error: on to the dashboards, to the next metric, or done. *)
Proceed(p) ==
  \/ /\ stage[p] = "rules" /\ stage' = [stage EXCEPT ![p] = "dashboards"]
     /\ pc' = [pc EXCEPT ![p] = "call"]
     /\ UNCHANGED <<todo, metric, body, start, ctx, acked>>
  \/ /\ stage[p] = "dashboards" /\ Turn(p, todo[p])
     /\ UNCHANGED <<body, start, ctx, acked>>
  \/ stage[p] = "dashboards" /\ Finish(p)

(* 500. *)
Fail(p) ==
  /\ pc[p] = "fail"
  /\ Return(p)
  /\ UNCHANGED <<provider, now, pushes, faults, tables, mu, tx, transaction, acked>>

(***************************************************************************)
(* InsertRulesUsage and InsertDashboardUsage.                              *)
(***************************************************************************)
UnlockNever(p) == mu' = mu           \* mutant: a return that keeps the mutex
Unlock(p) == mu' = IF mu = p THEN Nobody ELSE mu

(* SQLite takes the mutex, whatever the context says, even for no rows. *)
Enter(p) ==
  /\ pc[p] = "call"
  /\ provider = "sqlite" => mu = Nobody
  /\ \/ /\ Current(p) = {} /\ Proceed(p) /\ UNCHANGED mu
     \/ /\ Current(p) # {} /\ pc' = [pc EXCEPT ![p] = "begin"]
        /\ mu' = IF provider = "sqlite" THEN p ELSE mu
        /\ UNCHANGED <<request, ctx, acked>>
  /\ UNCHANGED <<provider, now, pushes, faults, tables, tx, transaction>>

(* BeginTx waits for a connection; the rows' order is that of the map. *)
Open(p, t) ==
  /\ tx' = [tx EXCEPT ![p] = TRUE] /\ stamp' = [stamp EXCEPT ![p] = t]
  /\ \E order \in Bijection(1..Cardinality(Current(p)), Current(p)) : left' = [left EXCEPT ![p] = order]
  /\ written' = [written EXCEPT ![p] = {}]
  /\ pc' = [pc EXCEPT ![p] = "exec"]
  /\ UNCHANGED <<provider, now, pushes, faults, tables, mu, request, ctx, acked>>
BeginUnbounded(p) == pc[p] = "begin" /\ ctx[p] = "live" /\ Open(p, now)  \* mutant: no pool
BeginStale(p) ==                     \* mutant: time.Now() before BeginTx
  /\ pc[p] = "begin" /\ ctx[p] = "live"
  /\ Cardinality(InUse) < Conns[provider] /\ Open(p, start[p])
BeginTx(p) ==
  /\ pc[p] = "begin" /\ ctx[p] = "live"
  /\ Cardinality(InUse) < Conns[provider] /\ Open(p, now)

Fault == faults < MaxFaults /\ faults' = faults + 1
Ended(p) == ctx[p] = "done" /\ UNCHANGED faults

(* BeginTx or PrepareContext fails: outer err, so nothing stays open. *)
BeginFails(p) ==
  /\ pc[p] = "begin" /\ (Fault \/ Ended(p))
  /\ pc' = [pc EXCEPT ![p] = "fail"] /\ Unlock(p)
  /\ UNCHANGED <<provider, now, pushes, tables, request, ctx, tx, transaction, acked>>

(* The unique key of a row: a row that another open transaction has written *)
(* is locked.                                                               *)
Key(p, r) == <<stage[p], IF stage[p] = "rules" THEN r ELSE <<r.id, r.serie>>>>
Locks(p) == {Key(p, r) : r \in written[p]}
Waits(p, q) == /\ p # q /\ pc[p] = "exec" /\ left[p] # <<>>
               /\ Key(p, Head(left[p])) \in Locks(q)
Upsert(p) ==
  /\ pc[p] = "exec" /\ ctx[p] = "live" /\ left[p] # <<>>
  /\ ~\E q \in Pushers : Waits(p, q)
  /\ written' = [written EXCEPT ![p] = @ \cup {Head(left[p])}]
  /\ left' = [left EXCEPT ![p] = Tail(@)]
  /\ UNCHANGED <<provider, now, pushes, faults, tables, mu, pc, request, ctx, tx, stamp, acked>>

(* A statement fails, or a commit finds its context done: the error that    *)
(* the deferred function sees is nil and tx stays open.  The server forgets *)
(* the rows and frees their locks.                                          *)
ExecFails(p) ==
  /\ pc[p] = "exec"
  /\ \/ left[p] # <<>> /\ Fault
     \/ Ended(p)
     \/ (\E q \in Pushers : Waits(p, q) /\ Waits(q, p)) /\ UNCHANGED faults  \* deadlock detected
  /\ pc' = [pc EXCEPT ![p] = "fail"] /\ Unlock(p)
  /\ written' = [written EXCEPT ![p] = {}]
  /\ UNCHANGED <<provider, now, pushes, tables, request, ctx, tx, stamp, left, acked>>

Commit(p) ==
  /\ pc[p] = "exec" /\ ctx[p] = "live" /\ left[p] = <<>>
  /\ pc' = [pc EXCEPT ![p] = "commit"]
  /\ UNCHANGED <<provider, now, pushes, faults, tables, mu, request, ctx, tx, transaction, acked>>

(* The server makes the rows visible and takes back the connection. *)
Write(p) ==
  /\ rules' = IF stage[p] # "rules" THEN rules
              ELSE IF provider = "sqlite" THEN SQ!InsertRulesUsage(rules, written[p], stamp[p])
              ELSE PG!InsertRulesUsage(rules, written[p], stamp[p])
  /\ dashboards' = IF stage[p] = "rules" THEN dashboards
                   ELSE IF provider = "sqlite"
                   THEN SQ!InsertDashboardUsage(dashboards, written[p], stamp[p])
                   ELSE PG!InsertDashboardUsage(dashboards, written[p], stamp[p])
Close(p) ==
  /\ tx' = [tx EXCEPT ![p] = FALSE]
  /\ written' = [written EXCEPT ![p] = {}] /\ left' = [left EXCEPT ![p] = <<>>]
  /\ stamp' = [stamp EXCEPT ![p] = 0]
Committed(p) ==
  /\ pc[p] = "commit"
  /\ Write(p) /\ Close(p) /\ Unlock(p) /\ Proceed(p)
  /\ UNCHANGED <<provider, now, pushes, faults>>

(* The commit fails, or it succeeds and its answer is lost. *)
CommitFailsIgnored(p) ==             \* mutant: the commit's error is not returned
  /\ pc[p] = "commit" /\ Fault
  /\ Write(p) \/ UNCHANGED tables
  /\ Close(p) /\ Unlock(p) /\ Proceed(p)
  /\ UNCHANGED <<provider, now, pushes>>
CommitFails(p) ==
  /\ pc[p] = "commit" /\ Fault
  /\ Write(p) \/ UNCHANGED tables
  /\ Close(p) /\ Unlock(p)
  /\ pc' = [pc EXCEPT ![p] = "fail"]
  /\ UNCHANGED <<provider, now, pushes, request, ctx, acked>>

(* database/sql rolls back a transaction whose context is done. *)
RollbackDetached(p) == FALSE /\ UNCHANGED vars  \* mutant: BeginTx(context.Background())
Rollback(p) ==
  /\ tx[p] /\ pc[p] # "commit" /\ ctx[p] = "done"
  /\ Close(p)
  /\ UNCHANGED <<provider, now, pushes, faults, tables, mu, pc, request, ctx, acked>>

(***************************************************************************)
(* Time and clients.                                                       *)
(***************************************************************************)
Cancel(p) ==
  /\ ctx[p] = "live" /\ Running(p)
  /\ ctx' = [ctx EXCEPT ![p] = "done"]
  /\ UNCHANGED <<provider, now, pushes, tables, mu, pc, request, tx, transaction, acked>>
Expire(p) == now >= start[p] + PushTimeout /\ Cancel(p) /\ UNCHANGED faults
ClientGone(p) == Fault /\ Cancel(p)

(* Timers fire on time: no context outlives its deadline. *)
Tick ==
  /\ now < MaxTime
  /\ \A p \in Pushers : ctx[p] = "live" => now < start[p] + PushTimeout
  /\ now' = now + 1
  /\ UNCHANGED <<provider, pushes, faults, tables, mu, pc, request, ctx, tx, transaction, acked>>

Handle(p) ==
  \/ Fail(p) \/ Enter(p) \/ Commit(p) \/ Committed(p)
  \/ BeginTx(p) \/ Upsert(p)
Next ==
  \/ \E p \in Pushers :
       \/ \E b \in Bodies[p] : Receive(p, b)
       \/ Handle(p) \/ Rollback(p) \/ Expire(p) \/ ClientGone(p)
       \/ BeginFails(p) \/ ExecFails(p) \/ CommitFails(p)
  \/ Tick

(* Handlers go on, the database answers a commit, Go's mutex starves nobody,*)
(* timers fire, time passes, and a call whose context is done returns.      *)
Fairness ==
  /\ SF_vars(Tick)
  /\ \A p \in Pushers :
       /\ WF_vars(Handle(p)) /\ SF_vars(Enter(p))
       /\ WF_vars(Expire(p)) /\ WF_vars(Rollback(p))
       /\ WF_vars(ctx[p] = "done" /\ (BeginFails(p) \/ ExecFails(p)))
Spec == Init /\ [][Next]_vars /\ Fairness

(***************************************************************************)
(* Properties.                                                             *)
(***************************************************************************)
Lag == IF provider = "sqlite" THEN 0 ELSE PushTimeout

InCall == {"begin", "exec", "commit"}
(* The pool's bound holds, an open transaction holds the row locks of what  *)
(* it wrote alone, and SQLite's mutex is held only inside a call.           *)
TypeOK ==
  /\ provider \in Providers /\ now \in 0..MaxTime
  /\ pushes \in 0..MaxPushes /\ faults \in 0..MaxFaults
  /\ mu \in Pushers \cup {Nobody}
  /\ \A p \in Pushers :
       /\ pc[p] \in {"idle", "call", "begin", "exec", "commit", "fail"}
       /\ start[p] \in 0..now /\ stamp[p] \in 0..now
       /\ ctx[p] \in {"live", "done"} /\ stage[p] \in Stages /\ tx[p] \in BOOLEAN
       /\ todo[p] \subseteq DOMAIN body[p]
       /\ written[p] # {} => tx[p] /\ pc[p] \in {"exec", "commit"}
       /\ mu = p => pc[p] \in InCall
       /\ (provider = "sqlite" /\ pc[p] \in InCall) => mu = p
       /\ \A q \in Pushers \ {p} : Locks(p) \cap Locks(q) = {}
  /\ Cardinality(InUse) <= Conns[provider]

Seen(table) == \A k \in DOMAIN table : table[k].first <= table[k].last + Lag
(* A row's presence window is a window: first_seen_at is not after          *)
(* last_seen_at.  SQLite's mutex makes it so; without one, on PostgreSQL, a *)
(* push that took its time before another created the row may write it      *)
(* last, and the window is off by less than a push may take.                *)
PresenceWindow == Seen(rules) /\ Seen(dashboards)

LastOf(k) == IF k[1] = "rules" THEN rules[k[2]].last
             ELSE dashboards[<<k[2].id, k[2].serie>>].last
Has(k) == IF k[1] = "rules" THEN k[2] \in DOMAIN rules
          ELSE <<k[2].id, k[2].serie>> \in DOMAIN dashboards
(* What a push was acknowledged for is in the tables, last seen no earlier  *)
(* than the request came in (on PostgreSQL, than PushTimeout before it):    *)
(* failing, late, repeated and abandoned pushes of the same rows do not     *)
(* undo it.                                                                 *)
AckedUsageSeen == \A k \in DOMAIN acked : Has(k) /\ LastOf(k) + Lag >= acked[k]

(* Every push is answered, although SQLite's mutex does not look at         *)
(* contexts and another push may have left its transaction open.            *)
PushReturns == \A p \in Pushers : Running(p) ~> ~Running(p)

(* A connection always comes back to the pool, also one whose transaction   *)
(* an error left open (sqlite.go:304, postgresql.go:338).                   *)
ConnectionsReturn == \A p \in Pushers : tx[p] ~> ~tx[p]
=============================================================================
