---------------------------- MODULE MCUsageStore ----------------------------
(* Two metrics, three texts (one names both metrics, one does not parse), a *)
(* clock that shows quarters of a second, minutes and days.                 *)
EXTENDS UsageStore

Midnight == 10 * Day
InstantsDef == {Midnight + 1, Midnight + 91 * Second, Midnight + Day + 3 * Minute}
Window == 91 * Second - 1  \* the first two instants are exactly this far apart
Sqlite == [provider |-> "sqlite", window |-> Window, maxAge |-> Window + Day]
Postgres(window) == [provider |-> "postgresql", window |-> window, maxAge |-> window]
(* A window may also open a quarter of a second after the first instant. *)
ConfigsDef == {Sqlite, Postgres(Window), Postgres(Window - 1)}
SqliteOnly == {Sqlite}

MetricsDef == {1, 2}
TextsDef == {0, 1, 2, 3}
FingerprintDef == [t \in TextsDef |-> IF t \in {0, 3} THEN Any ELSE t]
MatchersDef == [t \in TextsDef |-> CASE t = 1 -> <<1>> [] t = 2 -> <<2, 1>> [] OTHER -> <<>>]

Answer(path, text, status, duration) ==
  [path |-> path, queryParam |-> text, time |-> Zero, start |-> Midnight - 8 * Day, end |-> Midnight,
   statusCode |-> status, duration |-> duration, peakSamples |-> duration, samples |-> 3]
RequestsDef == {Answer("query", 1, 200, 4), Answer("query_range", 3, 422, 1)}
Pushed(text, type, start, end) ==
  [ts |-> Zero, type |-> type, queryParam |-> text, time |-> Zero, start |-> start,
   end |-> end, statusCode |-> 200, duration |-> 2, peakSamples |-> 7, samples |-> 9]
PushesDef == {{Pushed(2, "range", Midnight - 8 * Day, Midnight)},
              {Pushed(1, "instant", Zero, Zero), Pushed(2, "range", Midnight, Midnight - 1)}}

Alert(group, name, expression) ==
  [serie |-> 1, kind |-> "alert", group_name |-> group, name |-> name, expression |-> expression]
(* Two versions of a rule, and rules that share its name or its group. *)
RuleRowsDef == {Alert(1, 1, 1), Alert(1, 1, 2), Alert(2, 1, 1), Alert(1, 2, 1),
                [serie |-> 2, kind |-> "record", group_name |-> 1, name |-> 2, expression |-> 1]}
(* Rule 2 of group 1 and rule 1 of group 2 are joined to the same text. *)
JoinedDef == [k \in (1..2) \X (1..2) |-> k[1] + k[2]]
(* Texts 1 and 2 are sorted the other way round, as 'Zeta' and 'alpha' are. *)
CollationDef == [t \in 0..3 |-> CASE t = 1 -> 2 [] t = 2 -> 1 [] OTHER -> t]
DashboardItemsDef == {[id |-> 1, serie |-> 1, name |-> 1], [id |-> 2, serie |-> 1, name |-> 2]}
TypesDef == {"gauge"}
JobItemsDef == {<<1, 1>>}

(* One of minute-wide buckets, where the first instant is in the opening     *)
(* second, and one of wider ones that ends with a query.                    *)
RangesDef == {[from |-> Midnight + 2, to |-> Midnight + 92 * Second],
              [from |-> Midnight - 4 * Hour, to |-> Midnight + Day + 3 * Minute]}
=============================================================================
