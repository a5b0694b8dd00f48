---------------------------- MODULE MCUsagePush -----------------------------
(* Two bodies that overlap in a rule; the first one has two rules, so that  *)
(* two pushes of it may lock them in opposite orders, the second one two    *)
(* metrics.                                                                 *)
EXTENDS UsagePush

Rule(n) == [serie |-> 1, name |-> n]
Dashboard == [id |-> 1, serie |-> 2, name |-> 1]
Rules == <<[rules |-> {Rule(1), Rule(2)}, dashboards |-> {}]>>
Mixed == <<[rules |-> {}, dashboards |-> {}], [rules |-> {}, dashboards |-> {Dashboard}]>>
PushersDef == {"a", "b"}
BodiesDef == [a |-> {Rules}, b |-> {Rules, Mixed}]
NoTexts == <<>>  \* the collation and the joined texts: a push reads no listing
ConnsDef == [sqlite |-> 1, postgresql |-> 2]
=============================================================================
