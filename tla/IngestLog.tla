----------------------------- MODULE IngestLog -----------------------------
(***************************************************************************)
(* What the query ingester promises to the proxy, without channel, batch,  *)
(* lock or context: a best-effort log.  A query is offered at most once    *)
(* and only while the log is open; a batch of the oldest pending queries   *)
(* is settled at a time, and is then kept as a whole or lost as a whole.   *)
(***************************************************************************)
EXTENDS Naturals, Sequences

CONSTANTS Queries, BatchSize

VARIABLES
  log,   \* the accepted queries, in order of acceptance
  open,  \* the log accepts queries
  done,  \* the first done queries of the log are settled
  kept   \* the settled queries that reached the database

logVars == <<log, open, done, kept>>

Init == log = <<>> /\ open = TRUE /\ done = 0 /\ kept = {}

Offer(q) ==
  /\ open /\ \A i \in 1..Len(log) : log[i] # q
  /\ log' = Append(log, q)
  /\ UNCHANGED <<open, done, kept>>

SettleBatch(n) ==
  /\ n <= BatchSize /\ done + n <= Len(log)
  /\ done' = done + n
  /\ kept' \in {kept, kept \cup {log[i] : i \in (done + 1)..(done + n)}}
  /\ UNCHANGED <<log, open>>

Close ==
  /\ open /\ open' = FALSE
  /\ UNCHANGED <<log, done, kept>>

Next ==
  \/ \E q \in Queries : Offer(q)
  \/ \E n \in 1..BatchSize : SettleBatch(n)
  \/ Close

Spec == Init /\ [][Next]_logVars
=============================================================================
