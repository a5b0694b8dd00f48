------------------------- MODULE UsageSummaryProofs -------------------------
(***************************************************************************)
(* What the API says about unused metrics after a refresh, for any         *)
(* deployments, clock, metrics, queries, rules and dashboards.             *)
(***************************************************************************)
EXTENDS UsageStoreProofs

(***************************************************************************)
(* Finite sets.                                                            *)
(***************************************************************************)
LEMMA LesserOfTwo ==
  ASSUME NEW a \in Nat, NEW b \in Nat
  PROVE  Min({a, b}) = IF a <= b THEN a ELSE b
<1>1. \E x \in {a, b} : \A y \in {a, b} : x <= y
  BY SMT
<1>2. Min({a, b}) \in {a, b} /\ \A y \in {a, b} : Min({a, b}) <= y
  BY <1>1 DEF Min
<1> QED
  BY <1>2, SMT

(* The sets of a finite set's elements of any size up to its own; one of    *)
(* them holds a given element.                                              *)
LEMMA SubsetOfSize ==
  ASSUME NEW S, IsFiniteSet(S), NEW m \in S, NEW k \in Nat, 1 <= k, k <= Cardinality(S)
  PROVE  \E T \in SUBSET S : m \in T /\ Cardinality(T) = k
<1> DEFINE rest == S \ {m}
<1>1. IsFiniteSet(rest) /\ Cardinality(rest) = Cardinality(S) - 1 /\ Cardinality(S) \in Nat
  BY FS_RemoveElement, FS_CardinalityType
<1>2. PICK f : f \in Bijection(1..Cardinality(rest), rest)
  BY <1>1, FS_CardinalityType DEF ExistsBijection
<1> DEFINE few == {f[i] : i \in 1..(k - 1)}
<1>3. 1..(k - 1) \subseteq 1..Cardinality(rest)
  BY <1>1, SMT
<1>4. few \subseteq rest
  BY <1>2, <1>3 DEF Bijection, Injection
<1>5. IsFiniteSet(few) /\ Cardinality(few) = k - 1
  <2> DEFINE g == [i \in 1..(k - 1) |-> f[i]]
  <2>1. g \in Injection(1..(k - 1), few)
    <3>1. \A i, j \in 1..Cardinality(rest) : f[i] = f[j] => i = j
      BY <1>2 DEF Bijection, Injection, IsInjective
    <3>2. \A i, j \in 1..(k - 1) : g[i] = g[j] => i = j
      BY <1>3, <3>1
    <3>3. g \in [1..(k - 1) -> few]
      OBVIOUS
    <3> HIDE DEF g, few
    <3> QED
      BY <3>2, <3>3 DEF Injection, IsInjective
  <2>2. g \in Surjection(1..(k - 1), few)
    BY DEF Surjection
  <2>3. IsFiniteSet(1..(k - 1)) /\ Cardinality(1..(k - 1)) = k - 1
    BY FS_Interval, SMT
  <2> QED
    BY <2>1, <2>2, <2>3, FS_Surjection
<1> HIDE DEF few
<1>6. m \notin few
  BY <1>4
<1>7. Cardinality(few \cup {m}) = k
  <2>1. Cardinality(few \cup {m}) = Cardinality(few) + 1
    BY <1>5, <1>6, FS_AddElement
  <2> QED
    BY <1>5, <2>1, SMT
<1>8. few \cup {m} \in SUBSET S
  BY <1>4
<1> QED
  BY <1>7, <1>8

(***************************************************************************)
(* The first page of a listing.                                            *)
(***************************************************************************)
FirstPage(page) == page.page = 1 /\ page.size \in Nat \ {0}

(* What a first page holds: as many rows as fit, none of which a row left   *)
(* out precedes.                                                            *)
Precedes(order, r, s) == \/ order.dir = "desc" /\ Place(order, r) > Place(order, s)
                         \/ order.dir = "asc" /\ Place(order, r) < Place(order, s)
Firsts(rows, order, n) ==
  {Q \in SUBSET rows : /\ Cardinality(Q) = Min({n, Cardinality(rows)})
                       /\ \A r \in Q, s \in rows \ Q : ~Precedes(order, s, r)}
LEMMA FirstPageRows ==
  ASSUME NEW rows, IsFiniteSet(rows), NEW order, NEW page, FirstPage(page)
  PROVE  Pages(rows, order, page) = Firsts(rows, order, page.size)
<1>1. Pages(rows, order, page)
        = LET offset == (page.page - 1) * page.size
          IN  UNION {{P \ Q : Q \in Firsts(rows, order, offset) \cap SUBSET P} :
                       P \in Firsts(rows, order, offset + page.size)}
  BY DEF Pages, Firsts, Precedes
<1>2. (page.page - 1) * page.size = 0 /\ 0 + page.size = page.size
  BY SMT DEF FirstPage
<1>3. Firsts(rows, order, 0) = {{}}
  <2>1. Cardinality(rows) \in Nat /\ Min({0, Cardinality(rows)}) = 0
    BY FS_CardinalityType, LesserOfTwo, SMT
  <2>2. \A Q \in SUBSET rows : Cardinality(Q) = 0 <=> Q = {}
    BY FS_Subset, FS_EmptySet
  <2> QED
    BY <2>1, <2>2 DEF Firsts
<1>4. \A x : x \in Pages(rows, order, page) <=>
               \E P \in Firsts(rows, order, page.size) :
                 \E Q \in Firsts(rows, order, 0) \cap SUBSET P : x = P \ Q
  <2> DEFINE Turned(A, B) == UNION {{P \ Q : Q \in A \cap SUBSET P} : P \in B}
  <2>1. Pages(rows, order, page)
          = Turned(Firsts(rows, order, (page.page - 1) * page.size),
                   Firsts(rows, order, (page.page - 1) * page.size + page.size))
    BY <1>1
  <2>2. Pages(rows, order, page) = Turned(Firsts(rows, order, 0), Firsts(rows, order, page.size))
    BY <1>2, <2>1
  <2>3. ASSUME NEW A, NEW B, NEW x
        PROVE  x \in Turned(A, B) <=> \E P \in B : \E Q \in A \cap SUBSET P : x = P \ Q
    <3>1. x \in Turned(A, B) <=> \E P \in B : x \in {P \ Q : Q \in A \cap SUBSET P}
      OBVIOUS
    <3> QED
      BY <3>1
  <2> HIDE DEF Turned
  <2> QED
    BY <2>2, <2>3
<1>5. \A x : x \in Pages(rows, order, page) <=>
               \E P \in Firsts(rows, order, page.size) : x = P \ {}
  BY <1>3, <1>4
<1> QED
  BY <1>5

LEMMA FirstPageNotEmpty ==
  ASSUME NEW rows, IsFiniteSet(rows), rows # {}, NEW order, NEW page, FirstPage(page),
         NEW P \in Pages(rows, order, page)
  PROVE  P # {}
<1>1. Cardinality(rows) \in Nat /\ Cardinality(rows) # 0
  BY FS_CardinalityType, FS_EmptySet
<1>2. Cardinality(P) = Min({page.size, Cardinality(rows)})
  BY FirstPageRows DEF Firsts
<1>3. Cardinality(P) # 0
  BY <1>1, <1>2, LesserOfTwo, SMT DEF FirstPage
<1> QED
  BY <1>3, FS_EmptySet

LEMMA FirstPageOfNothing ==
  ASSUME NEW order, NEW page, FirstPage(page)
  PROVE  {} \in Pages({}, order, page)
<1>1. Min({page.size, 0}) = 0
  BY LesserOfTwo, SMT DEF FirstPage
<1> QED
  BY <1>1, FirstPageRows, FS_EmptySet DEF Firsts

(* Any row may be on the first page when the order does not tell the rows   *)
(* apart.                                                                   *)
LEMMA TiedRowOnFirstPage ==
  ASSUME NEW rows, IsFiniteSet(rows), NEW m \in rows, NEW order, NEW page, FirstPage(page),
         \A r \in rows : Place(order, r) = 0
  PROVE  \E P \in Pages(rows, order, page) : m \in P
<1> DEFINE k == Min({page.size, Cardinality(rows)})
<1>1. Cardinality(rows) \in Nat /\ Cardinality(rows) # 0
  BY FS_CardinalityType, FS_EmptySet
<1>2. k \in Nat /\ 1 <= k /\ k <= Cardinality(rows)
  BY <1>1, LesserOfTwo, SMT DEF FirstPage
<1> HIDE DEF k
<1>3. PICK T \in SUBSET rows : m \in T /\ Cardinality(T) = k
  BY <1>2, SubsetOfSize
<1>4. T \in Firsts(rows, order, page.size)
  BY <1>3 DEF Firsts, Precedes, k
<1> QED
  BY <1>3, <1>4, FirstPageRows

(***************************************************************************)
(* The totals of the listings.  The providers share the operators of       *)
(* Provider, each under its own name.                                      *)
(***************************************************************************)
LEMMA SamePagedByRows ==
  ASSUME NEW rows, NEW order, NEW page
  PROVE  /\ SQ!PagedByRows(rows, order, page) = PagedByRows(rows, order, page)
         /\ PG!PagedByRows(rows, order, page) = PagedByRows(rows, order, page)
  BY SMT DEF SQ!PagedByRows, PG!PagedByRows, PagedByRows, SQ!Pages, PG!Pages, Pages,
       SQ!Place, PG!Place, Place,
       SQ!CalculateTotalPages, PG!CalculateTotalPages, CalculateTotalPages,
       SQ!Cardinality, PG!Cardinality, Cardinality, SQ!Min, PG!Min, Min

LEMMA SamePagination ==
  ASSUME NEW page, NEW size, NEW default
  PROVE  /\ SQ!ValidatePagination(page, size, default) = ValidatePagination(page, size, default)
         /\ PG!ValidatePagination(page, size, default) = ValidatePagination(page, size, default)
  BY DEF SQ!ValidatePagination, PG!ValidatePagination, ValidatePagination,
         SQ!MaxPageSize, PG!MaxPageSize, MaxPageSize

LEMMA SameRulePages ==
  ASSUME NEW d, NEW rows, NEW p, NEW c
  PROVE  /\ SQ!RulePages(d, rows, p, c) = RulePages(d, rows, p, c)
         /\ PG!RulePages(d, rows, p, c) = RulePages(d, rows, p, c)
  BY SMT DEF SQ!RulePages, PG!RulePages, RulePages, SQ!PagedByCount, PG!PagedByCount,
       PagedByCount, SQ!Pages, PG!Pages, Pages, SQ!Cardinality, PG!Cardinality, Cardinality,
       SQ!Min, PG!Min, Min, SQ!Like, PG!Like, Like, SQ!RuleKey, PG!RuleKey, RuleKey,
       SQ!CheckSortField, PG!CheckSortField, CheckSortField, SQ!OrderBy, PG!OrderBy, OrderBy,
       SQ!TextColumns, PG!TextColumns, TextColumns, SQ!Place, PG!Place, Place,
       SQ!ValidatePagination, PG!ValidatePagination, ValidatePagination,
       SQ!MaxPageSize, PG!MaxPageSize, MaxPageSize

LEMMA SameDashboardPages ==
  ASSUME NEW d, NEW keys, NEW p, NEW c
  PROVE  /\ SQ!DashboardPages(d, keys, p, c) = DashboardPages(d, keys, p, c)
         /\ PG!DashboardPages(d, keys, p, c) = DashboardPages(d, keys, p, c)
  BY SMT DEF SQ!DashboardPages, PG!DashboardPages, DashboardPages,
       SQ!PagedByCount, PG!PagedByCount, PagedByCount, SQ!Pages, PG!Pages, Pages,
       SQ!Cardinality, PG!Cardinality, Cardinality, SQ!Min, PG!Min, Min,
       SQ!Like, PG!Like, Like,
       SQ!CheckSortField, PG!CheckSortField, CheckSortField, SQ!OrderBy, PG!OrderBy, OrderBy,
       SQ!TextColumns, PG!TextColumns, TextColumns, SQ!Place, PG!Place, Place,
       SQ!DefaultPagination, PG!DefaultPagination, DefaultPagination

LEMMA SameCatalogPages ==
  ASSUME NEW d, NEW p, NEW c
  PROVE  /\ SQ!CatalogPages(d, p, c) = CatalogPages(d, p, c)
         /\ PG!CatalogPages(d, p, c) = CatalogPages(d, p, c)
<1>1. SQ!CatalogRows(d, p) = CatalogRows(d, p) /\ PG!CatalogRows(d, p) = CatalogRows(d, p)
  BY SMT DEF SQ!CatalogRows, PG!CatalogRows, CatalogRows, SQ!Like, PG!Like, Like,
       SQ!MetricMetadata, PG!MetricMetadata, MetricMetadata, SQ!UsageOf, PG!UsageOf, UsageOf,
       SQ!Null, PG!Null, Null, SQ!TruncTo, PG!TruncTo, TruncTo,
       SQ!HasType, PG!HasType, HasType, SQ!HasUsage, PG!HasUsage, HasUsage,
       SQ!IsUsed, PG!IsUsed, IsUsed, SQ!NormalizeSeriesMetadataUsage,
       PG!NormalizeSeriesMetadataUsage, NormalizeSeriesMetadataUsage,
       SQ!RunsIn, PG!RunsIn, RunsIn, SQ!Any, PG!Any, Any
<1>2. \A rows, order, page :
        /\ SQ!PagedByCount(Cardinality(rows), rows, order, page)
             = PagedByCount(Cardinality(rows), rows, order, page)
        /\ PG!PagedByCount(Cardinality(rows), rows, order, page)
             = PagedByCount(Cardinality(rows), rows, order, page)
  BY SMT DEF SQ!PagedByCount, PG!PagedByCount, PagedByCount, SQ!Pages, PG!Pages, Pages,
       SQ!Place, PG!Place, Place, SQ!Cardinality, PG!Cardinality, Cardinality,
       SQ!Min, PG!Min, Min
<1>3. \A sort : SQ!OrderBy(sort, c) = OrderBy(sort, c) /\ PG!OrderBy(sort, c) = OrderBy(sort, c)
  BY DEF SQ!OrderBy, PG!OrderBy, OrderBy, SQ!TextColumns, PG!TextColumns, TextColumns
<1>4. \A valid, default :
        /\ SQ!ValidateSortField(p.sortBy, p.sortOrder, valid, default)
             = ValidateSortField(p.sortBy, p.sortOrder, valid, default)
        /\ PG!ValidateSortField(p.sortBy, p.sortOrder, valid, default)
             = ValidateSortField(p.sortBy, p.sortOrder, valid, default)
  BY DEF SQ!ValidateSortField, PG!ValidateSortField, ValidateSortField
<1>5. /\ SQ!DefaultPagination(p.page, p.pageSize) = DefaultPagination(p.page, p.pageSize)
      /\ PG!DefaultPagination(p.page, p.pageSize) = DefaultPagination(p.page, p.pageSize)
  BY DEF SQ!DefaultPagination, PG!DefaultPagination, DefaultPagination
<1>6. \A rows : SQ!Cardinality(rows) = Cardinality(rows) /\ PG!Cardinality(rows) = Cardinality(rows)
  BY DEF SQ!Cardinality, PG!Cardinality, Cardinality
<1> QED
  BY <1>1, <1>2, <1>3, <1>4, <1>5, <1>6 DEF SQ!CatalogPages, PG!CatalogPages, CatalogPages

LEMMA SameStatistics ==
  ASSUME NEW d, NEW n, NEW R, NEW D
  PROVE  /\ SQ!Statistics(d, n, R, D) = Statistics(d, n, R, D)
         /\ PG!Statistics(d, n, R, D) = Statistics(d, n, R, D)
  BY SMT DEF SQ!Statistics, PG!Statistics, Statistics, SQ!CountOf, PG!CountOf, CountOf,
       SQ!Keep, PG!Keep, Keep, SQ!Cardinality, PG!Cardinality, Cardinality

(* A listing whose rows carry the total (PagedByRows). *)
LEMMA TotalOfRows ==
  ASSUME NEW rows, IsFiniteSet(rows), NEW order, NEW page, FirstPage(page)
  PROVE  /\ rows = {} => \E a \in PagedByRows(rows, order, page) : a.total = 0
         /\ rows # {} => \A a \in PagedByRows(rows, order, page) : a.total > 0
<1>1. CASE rows = {}
  <2>1. {} \in Pages(rows, order, page)
    BY <1>1, FirstPageOfNothing
  <2> QED
    <3> DEFINE a == [total |-> 0, totalPages |-> CalculateTotalPages(0, page.size), data |-> {}]
    <3>1. a \in PagedByRows(rows, order, page)
      BY <2>1 DEF PagedByRows
    <3> QED
      BY <1>1, <3>1
<1>2. CASE rows # {}
  <2>1. Cardinality(rows) \in Nat /\ Cardinality(rows) # 0
    BY <1>2, FS_CardinalityType, FS_EmptySet
  <2>2. \A P \in Pages(rows, order, page) : P # {}
    BY <1>2, FirstPageNotEmpty
  <2>3. ASSUME NEW a \in PagedByRows(rows, order, page) PROVE a.total = Cardinality(rows)
    BY <2>2 DEF PagedByRows
  <2> QED
    BY <1>2, <2>1, <2>3, SMT
<1> QED
  BY <1>1, <1>2

(* A listing that is counted in a statement of its own (PagedByCount). *)
LEMMA TotalOfCount ==
  ASSUME NEW total, NEW rows, NEW order, NEW page
  PROVE  /\ \A a \in PagedByCount(total, rows, order, page) : a.total = total
         /\ {} \in Pages(rows, order, page) =>
              \E a \in PagedByCount(total, rows, order, page) : a.total = total
<1> DEFINE A(P) == [total |-> total, totalPages |-> (total + page.size - 1) \div page.size,
                    data |-> P]
<1>1. PagedByCount(total, rows, order, page) = {A(P) : P \in Pages(rows, order, page)}
  BY DEF PagedByCount
<1>2. \A P : A(P).total = total
  OBVIOUS
<1> HIDE DEF A
<1> QED
  BY <1>1, <1>2

(* The rules of a metric (GetRulesUsage). *)
RulesWith(rows, p) == {r \in rows : r.serie = p.serie /\ r.kind = p.kind}
RuleTexts(rows, p) == {Joined[k] : k \in {RuleKey(r) : r \in RulesWith(rows, p)}}
LEMMA TotalOfRules ==
  ASSUME NEW d, NEW rows, NEW p, p.filter = {}, p.page = 1, p.pageSize = 1, NEW c
  PROVE  /\ \A a \in RulePages(d, rows, p, c) : a.total = Cardinality(RuleTexts(rows, p))
         /\ RulesWith(rows, p) = {} => \E a \in RulePages(d, rows, p, c) : a.total = 0
<1> DEFINE over == {r \in rows : /\ r.serie = p.serie /\ r.kind = p.kind
                                 /\ Like(p.filter, r.name) \/ Like(p.filter, r.expression)}
<1> DEFINE latest(k) == {r \in over : RuleKey(r) = k /\ \A s \in over :
                           RuleKey(s) = k => d.rules[s].last <= d.rules[r].last}
<1> DEFINE keys == {RuleKey(r) : r \in over}
<1> DEFINE texts == {Joined[k] : k \in keys}
<1> DEFINE Row(r) == [group_name |-> r.group_name, name |-> r.name,
                      expression |-> r.expression, created_at |-> d.rules[r].first]
<1> DEFINE order == OrderBy(CheckSortField(p.sortBy, p.sortOrder,
                      {"name", "group_name", "expression", "created_at"}), c)
<1> DEFINE page == ValidatePagination(p.page, p.pageSize, 10)
<1> DEFINE picks == {f \in [keys -> over] : \A k \in keys : f[k] \in latest(k)}
<1>1. RulePages(d, rows, p, c)
        = UNION {PagedByCount(Cardinality(texts), {Row(pick[k]) : k \in keys}, order, page) :
                   pick \in picks}
  BY DEF RulePages
<1>2. over = RulesWith(rows, p)
  BY DEF Like, RulesWith
<1>3. texts = RuleTexts(rows, p)
  BY <1>2 DEF RuleTexts
<1>4. FirstPage(page)
  BY SMT DEF ValidatePagination, MaxPageSize, FirstPage
<1>5. \A pick, a : a \in PagedByCount(Cardinality(texts), {Row(pick[k]) : k \in keys},
                                      order, page)
                  => a.total = Cardinality(texts)
  BY TotalOfCount
<1>6. ASSUME over = {}
      PROVE  \E a \in RulePages(d, rows, p, c) : a.total = 0
  <2> DEFINE none == [k \in {} |-> k]
  <2>1. none \in picks /\ keys = {}
    BY <1>6
  <2>2. {Row(none[k]) : k \in keys} = {}
    BY <2>1
  <2>3. {} \in Pages({Row(none[k]) : k \in keys}, order, page)
    BY <1>4, <2>2, FirstPageOfNothing
  <2>4. Cardinality(texts) = 0
    BY <2>1, FS_EmptySet
  <2> DEFINE shown == {Row(none[k]) : k \in keys}
  <2>5. PagedByCount(Cardinality(texts), shown, order, page) \subseteq RulePages(d, rows, p, c)
    <3> HIDE DEF none, picks, keys, texts, page, order, Row
    <3> QED
      BY <1>1, <2>1
  <2> HIDE DEF shown, keys, texts, page, order
  <2>6. \E a \in PagedByCount(Cardinality(texts), shown, order, page) :
          a.total = Cardinality(texts)
    BY <2>3, TotalOfCount DEF shown
  <2> QED
    BY <2>4, <2>5, <2>6
<1>7. \A a \in RulePages(d, rows, p, c) :
        \E pick \in picks : a \in PagedByCount(Cardinality(texts), {Row(pick[k]) : k \in keys},
                                               order, page)
  <2> HIDE DEF picks, keys, texts, page, order, Row
  <2> QED
    BY <1>1
<1> HIDE DEF picks, keys, texts, page, order, Row, over
<1>8. \A a \in RulePages(d, rows, p, c) : a.total = Cardinality(texts)
  BY <1>5, <1>7
<1> QED
  BY <1>2, <1>3, <1>6, <1>8

(* The dashboards of a metric (GetDashboardUsage). *)
DashboardIds(keys, n) == {k[1] : k \in {l \in keys : l[2] = n}}
LEMMA TotalOfDashboards ==
  ASSUME NEW d, NEW keys, NEW p, p.filter = {}, p.page = 1, p.pageSize = 1, NEW c
  PROVE  /\ \A a \in DashboardPages(d, keys, p, c) :
              a.total = Cardinality(DashboardIds(keys, p.serie))
         /\ DashboardIds(keys, p.serie) = {} =>
              \E a \in DashboardPages(d, keys, p, c) : a.total = 0
<1> DEFINE over == {k \in keys : k[2] = p.serie /\ Like(p.filter, d.dashboards[k].name)}
<1> DEFINE rows == {[id |-> k[1], name |-> d.dashboards[k].name,
                     created_at |-> d.dashboards[k].first] : k \in over}
<1> DEFINE order == OrderBy(CheckSortField(p.sortBy, p.sortOrder, {"name", "created_at"}), c)
<1> DEFINE page == DefaultPagination(p.page, p.pageSize)
<1>1. DashboardPages(d, keys, p, c)
        = PagedByCount(Cardinality({k[1] : k \in over}), rows, order, page)
  BY DEF DashboardPages
<1>2. over = {k \in keys : k[2] = p.serie}
  BY DEF Like
<1>3. {k[1] : k \in over} = DashboardIds(keys, p.serie)
  BY <1>2 DEF DashboardIds
<1>4. FirstPage(page)
  BY SMT DEF DefaultPagination, FirstPage
<1>5. DashboardIds(keys, p.serie) = {} => {} \in Pages(rows, order, page)
  <2>1. DashboardIds(keys, p.serie) = {} => rows = {}
    BY <1>3
  <2> QED
    BY <1>4, <2>1, FirstPageOfNothing
<1> HIDE DEF over, rows, order, page
<1> DEFINE total == Cardinality(DashboardIds(keys, p.serie))
<1>6. DashboardPages(d, keys, p, c) = PagedByCount(total, rows, order, page)
  BY <1>1, <1>3
<1>7. DashboardIds(keys, p.serie) = {} => total = 0
  BY FS_EmptySet
<1> HIDE DEF total
<1>8. /\ \A a \in PagedByCount(total, rows, order, page) : a.total = total
      /\ {} \in Pages(rows, order, page) =>
           \E a \in PagedByCount(total, rows, order, page) : a.total = total
  BY TotalOfCount
<1> QED
  BY <1>5, <1>6, <1>7, <1>8 DEF total

(***************************************************************************)
(* What the endpoints show of a metric n in a window tr, in terms of the   *)
(* rows that the configured provider selects.                              *)
(***************************************************************************)
Seen(u, tr) == IF conf.provider = "sqlite" THEN SQ!Overlaps(u, tr) ELSE PG!Overlaps(u, tr)
RulesIn(tr) == {r \in DOMAIN rules : Seen(rules[r], tr)}
RulesOf(n, kind, tr) == {r \in RulesIn(tr) : r.serie = n /\ r.kind = kind}
DashboardsIn(tr) == {k \in DOMAIN dashboards : Seen(dashboards[k], tr)}
DashboardsOf(n, tr) == {k \in DashboardsIn(tr) : k[2] = n}
Counted(q, tr) == IF conf.provider = "sqlite" THEN SQ!TsBetween(q, tr) ELSE PG!TsBetween(q, tr)
QueriesOf(n, tr) == {q \in queries : Counted(q, tr) /\ FirstSelector(q, n)}
Listed(q, n, tr) == IF conf.provider = "sqlite"
                    THEN SQ!MetricMatches(q, n) /\ SQ!TsBetween(q, tr)
                    ELSE PG!MetricMatches(q, n) /\ tr.from <= q.ts /\ q.ts <= tr.to

(* Texts are sorted by the collation. *)
Collated == conf.provider # "sqlite"

IsWindow(tr) == tr = [from |-> tr.from, to |-> tr.to] /\ tr.from \in Nat /\ tr.to \in Nat
Named(n, tr) == [Ask(tr) EXCEPT !.name = n]
OfKind(n, kind, tr) == [Named(n, tr) EXCEPT !.kind = kind]

(* The handlers' defaults: one row per page, the whole window. *)
LEMMA Parameters ==
  ASSUME NEW tr, IsWindow(tr), NEW n, NEW kind
  PROVE  LET r == OfKind(n, kind, tr)
             p == Listing(r, now, 1)
         IN  /\ ~IsBad(r) /\ r.name = n /\ r.kind = kind /\ TimeRange(r, now) = tr
             /\ p.timeRange = tr /\ p.filter = {} /\ p.page = 1 /\ p.pageSize = 1
             /\ p.serie = n /\ p.serieName = n /\ p.kind = kind /\ p.sortOrder \in PG!SortOrders
             /\ SQ!SetDefaultTimeRange(tr, now) = tr /\ PG!SetDefaultTimeRange(tr, now) = tr
<1> DEFINE r == OfKind(n, kind, tr)
<1>1. /\ r.from = tr.from /\ r.to = tr.to /\ r.page = Missing /\ r.pageSize = Missing
      /\ r.filter = {} /\ r.name = n /\ r.kind = kind
  BY DEF OfKind, Named, Ask
<1>2. tr.from # -1 /\ tr.to # -1 /\ tr = [from |-> tr.from, to |-> tr.to]
  BY SMT DEF IsWindow
<1>3. TimeRange(r, now) = tr
  BY <1>1, <1>2, SMT DEF TimeRange, getTimeParam, Zero
<1>4. SQ!SetDefaultTimeRange(tr, now) = tr /\ PG!SetDefaultTimeRange(tr, now) = tr
  BY <1>2, SMT DEF SQ!SetDefaultTimeRange, PG!SetDefaultTimeRange, SQ!Zero, PG!Zero
<1>5. ~IsBad(r)
  BY <1>1, SMT DEF IsBad, Missing, Bad
<1>6. r.sortOrder \in PG!SortOrders
  BY Zenon DEF OfKind, Named, Ask, PG!SortOrders
<1> HIDE DEF r
<1> QED
  BY <1>1, <1>3, <1>4, <1>5, <1>6 DEF Listing, getQueryParamAsInt, r

LEMMA NoKind ==
  ASSUME NEW n, NEW tr
  PROVE  OfKind(n, "", tr) = Named(n, tr)
<1>1. Named(n, tr) = [x \in DOMAIN Named(n, tr) |-> Named(n, tr)[x]] /\ Named(n, tr).kind = ""
  BY DEF Named, Ask
<1> QED
  BY <1>1 DEF OfKind

(* The usage endpoint shows rules exactly if the window has some. *)
LEMMA RulesShown ==
  ASSUME TableTypes, NEW tr, IsWindow(tr), NEW n \in Nat \ {Any}, NEW kind \in {"alert", "record"},
         NEW d, d.rules = rules
  PROVE  (\A a \in GetMetricUsage(conf.provider, d, OfKind(n, kind, tr), now) : a.total > 0)
           <=> RulesOf(n, kind, tr) # {}
<1> DEFINE r == OfKind(n, kind, tr)
<1> DEFINE p == Listing(r, now, 1)
<1>1. /\ ~IsBad(r) /\ r.name = n /\ r.kind = kind
      /\ p.timeRange = tr /\ p.filter = {} /\ p.page = 1 /\ p.pageSize = 1
      /\ p.serie = n /\ p.kind = kind /\ p.sortOrder \in PG!SortOrders
      /\ SQ!SetDefaultTimeRange(tr, now) = tr /\ PG!SetDefaultTimeRange(tr, now) = tr
  BY Parameters
<1> HIDE DEF r, p
<1>2. GetMetricUsage(conf.provider, d, r, now) = RulePages(d, RulesIn(tr), p, Collated)
  <2>1. r.name # Any /\ r.kind # "" /\ r.kind # "dashboard"
    BY <1>1
  <2>2. GetMetricUsage(conf.provider, d, r, now)
          = IF conf.provider = "sqlite" THEN SQ!GetRulesUsage(d, p, now)
                                        ELSE PG!GetRulesUsage(d, p, now)
    BY <1>1, <2>1 DEF GetMetricUsage, p
  <2>3. CASE conf.provider = "sqlite"
    <3>1. SQ!GetRulesUsage(d, p, now) = SQ!RulePages(d, RulesIn(tr), p, FALSE)
      BY <1>1, <2>3 DEF SQ!GetRulesUsage, RulesIn, Seen
    <3> QED
      BY <2>2, <2>3, <3>1, SameRulePages DEF Collated
  <2>4. CASE conf.provider # "sqlite"
    <3>1. PG!GetRulesUsage(d, p, now) = PG!RulePages(d, RulesIn(tr), p, TRUE)
      BY <1>1, <2>4 DEF PG!GetRulesUsage, RulesIn, Seen
    <3> QED
      BY <2>2, <2>4, <3>1, SameRulePages DEF Collated
  <2> QED
    BY <2>3, <2>4
<1> DEFINE texts == RuleTexts(RulesIn(tr), p)
<1>3. RulesWith(RulesIn(tr), p) = RulesOf(n, kind, tr)
  BY <1>1 DEF RulesWith, RulesOf
<1>4. IsFiniteSet(texts)
  <2> DEFINE f == [x \in RulesOf(n, kind, tr) |-> Joined[RuleKey(x)]]
  <2>1. IsFiniteSet(RulesOf(n, kind, tr))
    BY FS_Subset DEF TableTypes, RuleTypes, RulesOf, RulesIn
  <2>2. f \in Surjection(RulesOf(n, kind, tr), texts)
    BY <1>3 DEF Surjection, RuleTexts
  <2> QED
    BY <2>1, <2>2, FS_Surjection
<1>5. texts = {} <=> RulesOf(n, kind, tr) = {}
  BY <1>3 DEF RuleTexts
<1> HIDE DEF texts
<1>6. Cardinality(texts) \in Nat /\ (Cardinality(texts) = 0 <=> texts = {})
  BY <1>4, FS_CardinalityType, FS_EmptySet
<1>7. /\ \A a \in RulePages(d, RulesIn(tr), p, Collated) : a.total = Cardinality(texts)
      /\ texts = {} => \E a \in RulePages(d, RulesIn(tr), p, Collated) : a.total = 0
  BY <1>1, <1>3, <1>5, TotalOfRules DEF texts
<1>8. CASE texts = {}
  BY <1>2, <1>5, <1>7, <1>8, SMT DEF r
<1>9. CASE texts # {}
  BY <1>2, <1>5, <1>6, <1>7, <1>9, SMT DEF r
<1> QED
  BY <1>8, <1>9

(* The same for dashboards. *)
LEMMA DashboardsShown ==
  ASSUME TableTypes, NEW tr, IsWindow(tr), NEW n \in Nat \ {Any},
         NEW d, d.dashboards = dashboards
  PROVE  (\A a \in GetMetricUsage(conf.provider, d, OfKind(n, "dashboard", tr), now) :
            a.total > 0)
           <=> DashboardsOf(n, tr) # {}
<1> DEFINE r == OfKind(n, "dashboard", tr)
<1> DEFINE p == Listing(r, now, 1)
<1>1. /\ ~IsBad(r) /\ r.name = n /\ r.kind = "dashboard"
      /\ p.timeRange = tr /\ p.filter = {} /\ p.page = 1 /\ p.pageSize = 1 /\ p.serie = n
      /\ p.sortOrder \in PG!SortOrders
      /\ SQ!SetDefaultTimeRange(tr, now) = tr /\ PG!SetDefaultTimeRange(tr, now) = tr
  BY Parameters
<1> HIDE DEF r, p
<1>2. GetMetricUsage(conf.provider, d, r, now) = DashboardPages(d, DashboardsIn(tr), p, Collated)
  <2>1. GetMetricUsage(conf.provider, d, r, now)
          = IF conf.provider = "sqlite" THEN SQ!GetDashboardUsage(d, p, now)
                                        ELSE PG!GetDashboardUsage(d, p, now)
    BY <1>1 DEF GetMetricUsage, p
  <2>2. CASE conf.provider = "sqlite"
    <3>1. SQ!GetDashboardUsage(d, p, now) = SQ!DashboardPages(d, DashboardsIn(tr), p, FALSE)
      BY <1>1, <2>2 DEF SQ!GetDashboardUsage, DashboardsIn, Seen
    <3> QED
      BY <2>1, <2>2, <3>1, SameDashboardPages DEF Collated
  <2>3. CASE conf.provider # "sqlite"
    <3>1. PG!GetDashboardUsage(d, p, now) = PG!DashboardPages(d, DashboardsIn(tr), p, TRUE)
      BY <1>1, <2>3 DEF PG!GetDashboardUsage, DashboardsIn, Seen
    <3> QED
      BY <2>1, <2>3, <3>1, SameDashboardPages DEF Collated
  <2> QED
    BY <2>2, <2>3
<1> DEFINE ids == DashboardIds(DashboardsIn(tr), n)
<1>3. ids = {k[1] : k \in DashboardsOf(n, tr)}
  BY DEF DashboardIds, DashboardsOf
<1>4. IsFiniteSet(ids)
  <2>1. IsFiniteSet(DashboardsOf(n, tr))
    BY FS_Subset DEF TableTypes, DashboardTypes, DashboardsOf, DashboardsIn
  <2> DEFINE f == [k \in DashboardsOf(n, tr) |-> k[1]]
  <2>2. f \in Surjection(DashboardsOf(n, tr), {k[1] : k \in DashboardsOf(n, tr)})
    BY DEF Surjection
  <2> QED
    BY <1>3, <2>1, <2>2, FS_Surjection
<1>5. ids = {} <=> DashboardsOf(n, tr) = {}
  BY <1>3
<1> HIDE DEF ids
<1>6. Cardinality(ids) \in Nat /\ (Cardinality(ids) = 0 <=> ids = {})
  BY <1>4, FS_CardinalityType, FS_EmptySet
<1>7. /\ \A a \in DashboardPages(d, DashboardsIn(tr), p, Collated) : a.total = Cardinality(ids)
      /\ ids = {} => \E a \in DashboardPages(d, DashboardsIn(tr), p, Collated) : a.total = 0
  BY <1>1, TotalOfDashboards DEF ids
<1>8. CASE ids = {}
  BY <1>2, <1>5, <1>7, <1>8, SMT DEF r
<1>9. CASE ids # {}
  BY <1>2, <1>5, <1>6, <1>7, <1>9, SMT DEF r
<1> QED
  BY <1>8, <1>9

(* The statistics of a metric count something exactly if the window has a   *)
(* rule or a dashboard for it.                                              *)
LEMMA StatisticsShown ==
  ASSUME TableTypes, NEW tr, IsWindow(tr), NEW n, NEW d, d.rules = rules, d.dashboards = dashboards
  PROVE  LET s == GetMetricStatistics(conf.provider, d, Named(n, tr), now)
         IN  s.alertCount + s.recordCount + s.dashboardCount > 0 <=>
               \/ RulesOf(n, "alert", tr) # {} \/ RulesOf(n, "record", tr) # {}
               \/ DashboardsOf(n, tr) # {}
<1> DEFINE s == GetMetricStatistics(conf.provider, d, Named(n, tr), now)
<1> DEFINE names == {dashboards[k].name : k \in DashboardsOf(n, tr)}
<1>1. Named(n, tr).name = n /\ TimeRange(Named(n, tr), now) = tr
  <2>1. \A kind : OfKind(n, kind, tr).name = n /\ TimeRange(OfKind(n, kind, tr), now) = tr
    BY Parameters
  <2> QED
    BY <2>1, NoKind
<1>2. s = Statistics(d, n, RulesIn(tr), DashboardsIn(tr))
  <2>1. CASE conf.provider = "sqlite"
    <3>1. s = SQ!Statistics(d, n, RulesIn(tr), DashboardsIn(tr))
      BY <1>1, <2>1 DEF GetMetricStatistics, SQ!GetMetricStatistics, RulesIn, DashboardsIn, Seen
    <3> QED
      BY <3>1, SameStatistics
  <2>2. CASE conf.provider # "sqlite"
    <3>1. s = PG!Statistics(d, n, RulesIn(tr), DashboardsIn(tr))
      BY <1>1, <2>2 DEF GetMetricStatistics, PG!GetMetricStatistics, RulesIn, DashboardsIn, Seen
    <3> QED
      BY <3>1, SameStatistics
  <2> QED
    BY <2>1, <2>2
<1>3. /\ s.alertCount = Cardinality(RulesOf(n, "alert", tr))
      /\ s.recordCount = Cardinality(RulesOf(n, "record", tr))
      /\ s.dashboardCount = Cardinality(names)
  <2>1. \A kind : {r \in {x \in RulesIn(tr) : x.kind = kind} : r.serie = n} = RulesOf(n, kind, tr)
    BY DEF RulesOf
  <2>2. {k \in DashboardsIn(tr) : k[2] = n} = DashboardsOf(n, tr)
    BY DEF DashboardsOf
  <2> HIDE DEF s
  <2> QED
    BY <1>2, <2>1, <2>2 DEF Statistics, CountOf, Keep
<1>4. /\ IsFiniteSet(RulesOf(n, "alert", tr)) /\ IsFiniteSet(RulesOf(n, "record", tr))
      /\ IsFiniteSet(DashboardsOf(n, tr))
  BY FS_Subset DEF TableTypes, RuleTypes, DashboardTypes, RulesOf, RulesIn, DashboardsOf,
                   DashboardsIn
<1>5. IsFiniteSet(names) /\ (names = {} <=> DashboardsOf(n, tr) = {})
  <2> DEFINE f == [k \in DashboardsOf(n, tr) |-> dashboards[k].name]
  <2>1. f \in Surjection(DashboardsOf(n, tr), names)
    BY DEF Surjection
  <2> QED
    BY <1>4, <2>1, FS_Surjection
<1> HIDE DEF s, names
<1>6. \A S : IsFiniteSet(S) => Cardinality(S) \in Nat /\ (Cardinality(S) = 0 <=> S = {})
  BY FS_CardinalityType, FS_EmptySet
<1> DEFINE a == Cardinality(RulesOf(n, "alert", tr))
<1> DEFINE b == Cardinality(RulesOf(n, "record", tr))
<1> DEFINE c == Cardinality(names)
<1>7. /\ a \in Nat /\ (a = 0 <=> RulesOf(n, "alert", tr) = {})
      /\ b \in Nat /\ (b = 0 <=> RulesOf(n, "record", tr) = {})
      /\ c \in Nat /\ (c = 0 <=> DashboardsOf(n, tr) = {})
  BY <1>4, <1>5, <1>6
<1>8. s.alertCount = a /\ s.recordCount = b /\ s.dashboardCount = c
  BY <1>3
<1> HIDE DEF a, b, c
<1>9. a + b + c > 0 <=> a # 0 \/ b # 0 \/ c # 0
  BY <1>7, SMT
<1> QED
  BY <1>7, <1>8, <1>9 DEF s

(* The listing of a metric's queries shows one exactly if the provider      *)
(* finds one.                                                               *)
LEMMA QueriesShown ==
  ASSUME StoreInv, NEW tr, IsWindow(tr), NEW n, NEW d, d.queries \subseteq queries
  PROVE  (\A a \in serieExpressions(conf.provider, d, Named(n, tr), now) : a.total > 0)
           <=> \E q \in d.queries : Listed(q, n, tr)
<1> DEFINE p == Listing(Named(n, tr), now, 1)
<1> DEFINE rows == {q \in d.queries : Listed(q, n, tr)}
<1> DEFINE texts == {q.queryParam : q \in rows}
<1> DEFINE A == serieExpressions(conf.provider, d, Named(n, tr), now)
<1>1. /\ ~IsBad(Named(n, tr)) /\ p.timeRange = tr /\ p.filter = {} /\ p.page = 1
      /\ p.pageSize = 1 /\ p.serieName = n
      /\ SQ!SetDefaultTimeRange(tr, now) = tr /\ PG!SetDefaultTimeRange(tr, now) = tr
  <2>1. ASSUME NEW kind, NEW r, r = OfKind(n, kind, tr)
        PROVE  LET pr == Listing(r, now, 1)
               IN  /\ ~IsBad(r) /\ pr.timeRange = tr /\ pr.filter = {} /\ pr.page = 1
                   /\ pr.pageSize = 1 /\ pr.serieName = n
                   /\ SQ!SetDefaultTimeRange(tr, now) = tr /\ PG!SetDefaultTimeRange(tr, now) = tr
    BY <2>1, Parameters
  <2> QED
    BY <2>1, NoKind
<1>2. IsFiniteSet(rows)
  BY FS_Subset DEF StoreInv
<1>3. IsFiniteSet(texts)
  <2> DEFINE f == [q \in rows |-> q.queryParam]
  <2>1. f \in Surjection(rows, texts)
    BY DEF Surjection
  <2> QED
    BY <1>2, <2>1, FS_Surjection
<1> DEFINE page == ValidatePagination(p.page, p.pageSize, 10)
<1>4. FirstPage(page)
  BY <1>1, SMT DEF ValidatePagination, MaxPageSize, FirstPage
<1>5. \E F, order : A = PagedByRows({F[e] : e \in texts}, order, page)
  <2> HIDE DEF p
  <2>1. CASE conf.provider = "sqlite"
    <3> DEFINE Group(e) == {q \in rows : q.queryParam = e}
    <3> DEFINE Cell(e) == [queryParam |-> e,
                           avgDuration     |-> SQ!Avg(SQ!Duration, Group(e)),
                           avgPeakySamples |-> SQ!Avg(SQ!PeakSamples, Group(e)),
                           maxPeakSamples  |-> SQ!MaxOf(SQ!PeakSamples, Group(e))]
    <3> DEFINE cells == {Cell(e) : e \in texts}
    <3> DEFINE F == [e \in texts |-> Cell(e)]
    <3> DEFINE order == SQ!OrderBy(SQ!ValidateSortField(p.sortBy, p.sortOrder,
                          {"queryParam", "avgDuration", "avgPeakySamples", "maxPeakSamples"},
                          "avgDuration"), FALSE)
    <3>1. A = SQ!GetQueriesBySerieName(d, p, now)
      BY <1>1, <2>1 DEF serieExpressions, p
    <3>2. rows = {q \in d.queries : /\ SQ!MetricMatches(q, p.serieName)
                                    /\ SQ!TsBetween(q, tr) /\ SQ!Like(p.filter, q.queryParam)}
      BY <1>1, <2>1 DEF Listed, SQ!Like
    <3>3. A = SQ!SerieQueryPages(rows, p, FALSE)
      BY <1>1, <3>1, <3>2 DEF SQ!GetQueriesBySerieName
    <3> HIDE DEF A, rows
    <3>4. SQ!SerieQueryPages(rows, p, FALSE)
            = SQ!PagedByRows(cells, order, SQ!ValidatePagination(p.page, p.pageSize, 10))
      BY DEF SQ!SerieQueryPages
    <3>5. cells = {F[e] : e \in texts}
      OBVIOUS
    <3> HIDE DEF F, order, texts, cells
    <3>6. A = PagedByRows(cells, order, page)
      BY <3>3, <3>4, SamePagedByRows, SamePagination
    <3> QED
      BY <3>5, <3>6
  <2>2. CASE conf.provider # "sqlite"
    <3> DEFINE Group(e) == {q \in rows : q.queryParam = e}
    <3> DEFINE Cell(e) == [queryParam |-> e,
                           avgDuration     |-> PG!Avg(PG!Duration, Group(e)),
                           avgPeakySamples |-> PG!Avg(PG!PeakSamples, Group(e)),
                           maxPeakSamples  |-> PG!MaxOf(PG!PeakSamples, Group(e))]
    <3> DEFINE cells == {Cell(e) : e \in texts}
    <3> DEFINE F == [e \in texts |-> Cell(e)]
    <3> DEFINE order == PG!OrderBy(PG!ValidateSortField(p.sortBy, p.sortOrder,
                          {"queryParam", "avgDuration", "avgPeakySamples", "maxPeakSamples"},
                          "avgDuration"), TRUE)
    <3>1. A = PG!GetQueriesBySerieName(d, p, now)
      BY <1>1, <2>2 DEF serieExpressions, p
    <3>2. rows = {q \in d.queries : /\ PG!MetricMatches(q, p.serieName)
                                    /\ tr.from <= q.ts /\ q.ts <= tr.to
                                    /\ PG!Like(p.filter, q.queryParam)}
      BY <1>1, <2>2 DEF Listed, PG!Like
    <3>3. A = PG!SerieQueryPages(rows, p, TRUE)
      BY <1>1, <3>1, <3>2 DEF PG!GetQueriesBySerieName
    <3> HIDE DEF A, rows
    <3>4. PG!SerieQueryPages(rows, p, TRUE)
            = PG!PagedByRows(cells, order, PG!ValidatePagination(p.page, p.pageSize, 10))
      BY DEF PG!SerieQueryPages
    <3>5. cells = {F[e] : e \in texts}
      OBVIOUS
    <3> HIDE DEF F, order, texts, cells
    <3>6. A = PagedByRows(cells, order, page)
      BY <3>3, <3>4, SamePagedByRows, SamePagination
    <3> QED
      BY <3>5, <3>6
  <2> QED
    BY <2>1, <2>2
<1>6. PICK F, order : A = PagedByRows({F[e] : e \in texts}, order, page)
  BY <1>5
<1> DEFINE shown == {F[e] : e \in texts}
<1>7. IsFiniteSet(shown)
  <2> DEFINE f == [e \in texts |-> F[e]]
  <2> HIDE DEF texts
  <2>1. f \in Surjection(texts, shown)
    BY DEF Surjection
  <2> QED
    BY <1>3, <2>1, FS_Surjection
<1>8. shown = {} <=> ~\E q \in d.queries : Listed(q, n, tr)
  OBVIOUS
<1> HIDE DEF A, shown, page
<1>9. /\ shown = {} => \E a \in A : a.total = 0
      /\ shown # {} => \A a \in A : a.total > 0
  BY <1>4, <1>6, <1>7, TotalOfRows DEF shown
<1>10. (\A a \in A : a.total > 0) <=> shown # {}
  BY <1>9, SMT
<1> QED
  BY <1>8, <1>10 DEF A

(***************************************************************************)
(* The invariant: until something it reads changes, the summary of a       *)
(* refresh counts exactly what the window has.                             *)
(***************************************************************************)
MatcherTypes == \A q \in pending \cup history : q.labelMatchers \in Seq(Nat)
Exact(tr) ==
  \A n \in DOMAIN catalog :
    /\ n \in DOMAIN summary
    /\ summary[n].alertCount = Cardinality(RulesOf(n, "alert", tr))
    /\ summary[n].recordCount = Cardinality(RulesOf(n, "record", tr))
    /\ summary[n].dashboardCount = Cardinality({k[1] : k \in DashboardsOf(n, tr)})
    /\ summary[n].queryCount = Cardinality(QueriesOf(n, tr))
SummaryExact == \A tr \in fresh : IsWindow(tr) /\ Exact(tr)

LEMMA MatcherTypesNext == TableTypes /\ MatcherTypes /\ [Next]_vars => MatcherTypes'
<1> SUFFICES ASSUME TableTypes, MatcherTypes, [Next]_vars PROVE MatcherTypes'
  OBVIOUS
<1>1. ASSUME NEW qs, Ingest(qs), \A q \in qs : q.queryParam \in Texts
      PROVE  MatcherTypes'
  <2>1. PICK ids : pending' = pending \cup {Prepare(q, ids[q]) : q \in qs}
    BY <1>1 DEF Ingest
  <2>2. \A q \in qs : Prepare(q, ids[q]).labelMatchers \in Seq(Nat)
    BY <1>1, MatchersAssumption DEF Prepare
  <2> QED
    BY <1>1, <2>1, <2>2 DEF Ingest, MatcherTypes
<1>2. ASSUME NEW r \in Requests, Query(r) \/ QueryRange(r)
      PROVE  MatcherTypes'
  <2>1. query(r, now).queryParam \in Texts /\ query_range(r, now).queryParam \in Texts
    BY RequestsAssumption DEF query, query_range
  <2> QED
    BY <1>1, <1>2, <2>1 DEF Query, QueryRange
<1>3. ASSUME NEW qs \in Pushes, QueryPush(qs)
      PROVE  MatcherTypes'
  <2>1. \A q \in qs : validateQuery(q, now).queryParam = q.queryParam
    BY PushesAssumption DEF validateQuery
  <2>2. \A q \in queryPush(qs, now) : q.queryParam \in Texts
    BY <2>1, PushesAssumption DEF queryPush
  <2> QED
    BY <1>1, <1>3, <2>2 DEF QueryPush
<1>4. CASE pending' \cup history' \subseteq pending \cup history
  BY <1>4 DEF MatcherTypes
<1>5. CASE InsertQueries \/ InsertFails
  BY <1>5, <1>4 DEF InsertQueries, InsertFails
<1>6. CASE UNCHANGED <<pending, history>>
  BY <1>4, <1>6
<1> QED
  BY <1>2, <1>3, <1>5, <1>6
     DEF Next, vars, InsertRulesUsage, InsertDashboardUsage, UpsertMetricsCatalog,
         UpsertMetricsJobIndex, Refresh, Retention, Tick

(* What RefreshMetricsUsageSummary of either provider writes for a metric. *)
LEMMA RefreshIsExact ==
  ASSUME StoreInv, TableTypes, Refresh, NEW tr, tr = SummaryWindow
  PROVE  IsWindow(tr) /\ Exact(tr)'
<1>1. IsWindow(tr)
  <2>1. now \in Nat /\ conf.window \in Nat /\ conf.window <= now
    BY ConfTypes, WindowsAssumption DEF StoreInv
  <2>2. now - conf.window \in Nat
    BY <2>1, SMT
  <2> QED
    BY <2>1, <2>2 DEF SummaryWindow, IsWindow
<1>2. UNCHANGED <<conf, queries, rules, dashboards, catalog>>
  BY DEF Refresh
<1>3. ASSUME NEW n
      PROVE  /\ \A kind : RulesOf(n, kind, tr)' = RulesOf(n, kind, tr)
             /\ DashboardsOf(n, tr)' = DashboardsOf(n, tr)
             /\ QueriesOf(n, tr)' = QueriesOf(n, tr)
  BY <1>2 DEF RulesOf, RulesIn, DashboardsOf, DashboardsIn, QueriesOf, Seen, Counted, FirstSelector
<1>4. ASSUME NEW n \in DOMAIN catalog
      PROVE  /\ n \in DOMAIN summary'
             /\ summary'[n].alertCount = Cardinality(RulesOf(n, "alert", tr))
             /\ summary'[n].recordCount = Cardinality(RulesOf(n, "record", tr))
             /\ summary'[n].dashboardCount = Cardinality({k[1] : k \in DashboardsOf(n, tr)})
             /\ summary'[n].queryCount = Cardinality(QueriesOf(n, tr))
  <2>1. n # -1000000
    BY MetricsAssumption, SMT DEF TableTypes, CatalogTypes
  <2>2. CASE conf.provider = "sqlite"
    <3>1. n \in DOMAIN summary' /\ summary'[n] = SQ!UsageCounts(db, tr, n)
      BY <2>2 DEF Refresh, SQ!RefreshMetricsUsageSummary, db
    <3>2. \A kind : SQ!RuleCount(db, tr, n, kind) = Cardinality(RulesOf(n, kind, tr))
      <4>1. \A kind : {r \in DOMAIN db.rules : /\ SQ!Overlaps(db.rules[r], tr)
                                              /\ r.serie = n /\ r.kind = kind}
                        = RulesOf(n, kind, tr)
        BY <2>2 DEF RulesOf, RulesIn, Seen, db
      <4> QED
        BY <4>1, SameCardinality DEF SQ!RuleCount
    <3>3. SQ!DashboardCount(db, tr, n) = Cardinality({k[1] : k \in DashboardsOf(n, tr)})
      <4>1. {k \in DOMAIN db.dashboards : SQ!Overlaps(db.dashboards[k], tr) /\ k[2] = n}
              = DashboardsOf(n, tr)
        BY <2>2 DEF DashboardsOf, DashboardsIn, Seen, db
      <4> QED
        BY <4>1, SameCardinality DEF SQ!DashboardCount
    <3>4. SQ!CountedQueries(db, tr, n) = QueriesOf(n, tr)
      BY <2>1, <2>2 DEF SQ!CountedQueries, SQ!FirstName, SQ!Null, QueriesOf, Counted,
                        FirstSelector, db
    <3> QED
      BY <3>1, <3>2, <3>3, <3>4, SameCardinality DEF SQ!UsageCounts
  <2>3. CASE conf.provider # "sqlite"
    <3>1. n \in DOMAIN summary' /\ summary'[n] = PG!UsageCounts(db, tr, n)
      BY <2>3 DEF Refresh, PG!RefreshMetricsUsageSummary, db
    <3>2. \A kind : PG!RuleCount(db, tr, n, kind) = Cardinality(RulesOf(n, kind, tr))
      <4>1. \A kind : {r \in DOMAIN db.rules : /\ PG!Overlaps(db.rules[r], tr)
                                              /\ r.serie = n /\ r.kind = kind}
                        = RulesOf(n, kind, tr)
        BY <2>3 DEF RulesOf, RulesIn, Seen, db
      <4> QED
        BY <4>1, SameCardinality DEF PG!RuleCount
    <3>3. PG!DashboardCount(db, tr, n) = Cardinality({k[1] : k \in DashboardsOf(n, tr)})
      <4>1. {k \in DOMAIN db.dashboards : PG!Overlaps(db.dashboards[k], tr) /\ k[2] = n}
              = DashboardsOf(n, tr)
        BY <2>3 DEF DashboardsOf, DashboardsIn, Seen, db
      <4> QED
        BY <4>1, SameCardinality DEF PG!DashboardCount
    <3>4. PG!CountedQueries(db, tr, n) = QueriesOf(n, tr)
      BY <2>1, <2>3 DEF PG!CountedQueries, PG!FirstName, PG!Null, QueriesOf, Counted,
                        FirstSelector, db
    <3> QED
      BY <3>1, <3>2, <3>3, <3>4, SameCardinality DEF PG!UsageCounts
  <2> QED
    BY <2>2, <2>3
<1> QED
  BY <1>1, <1>2, <1>3, <1>4 DEF Exact

(* A step that leaves alone what a refresh reads and writes. *)
LEMMA ExactKept ==
  ASSUME SummaryExact, fresh' \subseteq fresh,
         UNCHANGED <<conf, queries, rules, dashboards, catalog, summary>>
  PROVE  SummaryExact'
<1>1. ASSUME NEW tr, NEW n
      PROVE  /\ \A kind : RulesOf(n, kind, tr)' = RulesOf(n, kind, tr)
             /\ DashboardsOf(n, tr)' = DashboardsOf(n, tr)
             /\ QueriesOf(n, tr)' = QueriesOf(n, tr)
  BY DEF RulesOf, RulesIn, DashboardsOf, DashboardsIn, QueriesOf, Seen, Counted, FirstSelector
<1>2. \A tr : Exact(tr) => Exact(tr)'
  BY <1>1 DEF Exact
<1> QED
  BY <1>2 DEF SummaryExact, IsWindow

LEMMA SummaryExactNext == StoreInv /\ TableTypes /\ SummaryExact /\ [Next]_vars => SummaryExact'
<1> SUFFICES ASSUME StoreInv, TableTypes, SummaryExact, [Next]_vars PROVE SummaryExact'
  OBVIOUS
<1>1. ASSUME fresh' = {} PROVE SummaryExact'
  BY <1>1 DEF SummaryExact
<1>2. CASE Refresh
  <2>1. \A tr \in fresh' : tr = SummaryWindow
    BY <1>2 DEF Refresh
  <2> QED
    BY <1>2, <2>1, RefreshIsExact DEF SummaryExact, IsWindow
<1>3. CASE Retention
  <2>1. CASE queries' = queries
    BY <1>3, <2>1, ExactKept DEF Retention
  <2>2. CASE queries' # queries
    BY <1>1, <1>3, <2>2 DEF Retention, NotFresh
  <2> QED
    BY <2>1, <2>2
<1>4. CASE \/ \E r \in Requests : Query(r) \/ QueryRange(r)
           \/ \E qs \in Pushes : QueryPush(qs)
           \/ InsertFails \/ UpsertMetricsJobIndex(JobItems) \/ Tick \/ UNCHANGED vars
  BY <1>4, ExactKept DEF Query, QueryRange, QueryPush, Ingest, InsertFails,
       UpsertMetricsJobIndex, Tick, vars
<1>5. CASE \/ InsertQueries
           \/ \E r \in RuleRows : InsertRulesUsage({r})
           \/ \E d \in DashboardItems : InsertDashboardUsage({d})
           \/ \E t \in Types : UpsertMetricsCatalog([n \in Metrics |-> t])
  BY <1>1, <1>5 DEF InsertQueries, InsertRulesUsage, InsertDashboardUsage, UpsertMetricsCatalog,
       NotFresh
<1> QED
  BY <1>2, <1>3, <1>4, <1>5 DEF Next

(***************************************************************************)
(* The two endpoints that call a metric unused read the summary alike.     *)
(***************************************************************************)
InUse(n, tr) == \/ RulesOf(n, "alert", tr) # {} \/ RulesOf(n, "record", tr) # {}
                \/ DashboardsOf(n, tr) # {} \/ QueriesOf(n, tr) # {}

(* What the catalog's row of a metric says. *)
LEMMA MetadataOf ==
  ASSUME StoreInv, TableTypes, SummaryExact, NEW tr \in fresh, NEW n \in DOMAIN catalog
  PROVE  LET m == MetricMetadata(db, n)
         IN  /\ m.name = n /\ m.queryCount \in Nat
             /\ IsUsed(m) <=> InUse(n, tr)
<1> DEFINE m == MetricMetadata(db, n)
<1> DEFINE u == summary[n]
<1> DEFINE ids == {k[1] : k \in DashboardsOf(n, tr)}
<1>1. /\ n \in DOMAIN summary
      /\ u.alertCount = Cardinality(RulesOf(n, "alert", tr))
      /\ u.recordCount = Cardinality(RulesOf(n, "record", tr))
      /\ u.dashboardCount = Cardinality(ids)
      /\ u.queryCount = Cardinality(QueriesOf(n, tr))
  BY DEF SummaryExact, Exact
<1>2. /\ m.name = n /\ m.alertCount = u.alertCount /\ m.recordCount = u.recordCount
      /\ m.dashboardCount = u.dashboardCount /\ m.queryCount = u.queryCount
  BY <1>1 DEF MetricMetadata, UsageOf, db
<1>3. /\ IsFiniteSet(RulesOf(n, "alert", tr)) /\ IsFiniteSet(RulesOf(n, "record", tr))
      /\ IsFiniteSet(DashboardsOf(n, tr)) /\ IsFiniteSet(QueriesOf(n, tr))
  <2>1. /\ RulesOf(n, "alert", tr) \in SUBSET DOMAIN rules
        /\ RulesOf(n, "record", tr) \in SUBSET DOMAIN rules
        /\ DashboardsOf(n, tr) \in SUBSET DOMAIN dashboards
        /\ QueriesOf(n, tr) \in SUBSET history
    BY DEF StoreInv, RulesOf, RulesIn, DashboardsOf, DashboardsIn, QueriesOf
  <2> QED
    BY <2>1, FS_Subset DEF StoreInv, TableTypes, RuleTypes, DashboardTypes
<1>4. IsFiniteSet(ids) /\ (ids = {} <=> DashboardsOf(n, tr) = {})
  <2> DEFINE f == [k \in DashboardsOf(n, tr) |-> k[1]]
  <2>1. f \in Surjection(DashboardsOf(n, tr), ids)
    BY DEF Surjection
  <2> QED
    BY <1>3, <2>1, FS_Surjection
<1>5. \A S : IsFiniteSet(S) => Cardinality(S) \in Nat /\ (Cardinality(S) = 0 <=> S = {})
  BY FS_CardinalityType, FS_EmptySet
<1> HIDE DEF m, u, ids
<1>6. /\ m.alertCount \in Nat /\ (m.alertCount = 0 <=> RulesOf(n, "alert", tr) = {})
      /\ m.recordCount \in Nat /\ (m.recordCount = 0 <=> RulesOf(n, "record", tr) = {})
      /\ m.dashboardCount \in Nat /\ (m.dashboardCount = 0 <=> DashboardsOf(n, tr) = {})
      /\ m.queryCount \in Nat /\ (m.queryCount = 0 <=> QueriesOf(n, tr) = {})
  BY <1>1, <1>2, <1>3, <1>4, <1>5
<1>7. /\ m.alertCount > 0 <=> m.alertCount # 0
      /\ m.recordCount > 0 <=> m.recordCount # 0
      /\ m.dashboardCount > 0 <=> m.dashboardCount # 0
      /\ m.queryCount > 0 <=> m.queryCount # 0
  BY <1>6, SMT
<1>8. IsUsed(m) <=> InUse(n, tr)
  BY <1>6, <1>7 DEF IsUsed, InUse
<1> QED
  BY <1>2, <1>6, <1>8 DEF m

(* POST /metrics/unused for one metric. *)
LEMMA UnusedAnswer ==
  ASSUME StoreInv, TableTypes, SummaryExact, NEW tr \in fresh, NEW n \in DOMAIN catalog, NEW job
  PROVE  (\E a \in metricsUnused(conf.provider, db, {n}, job) : a.unused)
           <=> RunsIn(db, n, job) /\ ~InUse(n, tr)
<1> DEFINE m == MetricMetadata(db, n)
<1> DEFINE mm == {x \in {m} : RunsIn(db, n, job)}
<1>1. ~({n} = {} \/ Cardinality({n}) > 100)
  BY FS_Singleton, SMT
<1>2. SQ!GetSeriesMetadataByNames(db, {n}, job) = mm
      /\ PG!GetSeriesMetadataByNames(db, {n}, job) = mm
  <2>1. /\ SQ!MetricMetadata(db, n) = m /\ PG!MetricMetadata(db, n) = m
        /\ SQ!RunsIn(db, n, job) = RunsIn(db, n, job)
        /\ PG!RunsIn(db, n, job) = RunsIn(db, n, job)
    BY SMT DEF SQ!MetricMetadata, PG!MetricMetadata, MetricMetadata, SQ!UsageOf, PG!UsageOf,
         UsageOf, SQ!Null, PG!Null, Null, SQ!TruncTo, PG!TruncTo, TruncTo,
         SQ!RunsIn, PG!RunsIn, RunsIn, SQ!Any, PG!Any, Any
  <2>2. {x \in {n} \cap DOMAIN db.catalog : SQ!RunsIn(db, x, job)}
          = {x \in {n} : RunsIn(db, n, job)}
        /\ {x \in {n} \cap DOMAIN db.catalog : PG!RunsIn(db, x, job)}
          = {x \in {n} : RunsIn(db, n, job)}
    <3>1. n \in DOMAIN db.catalog
      BY DEF db
    <3> QED
      BY <2>1, <3>1
  <2> HIDE DEF m
  <2> QED
    BY <2>1, <2>2 DEF SQ!GetSeriesMetadataByNames, PG!GetSeriesMetadataByNames
<1>3. metricsUnused(conf.provider, db, {n}, job)
        = {[name |-> x.name, unused |-> ~IsUsed(x)] : x \in mm}
  BY <1>1, <1>2 DEF metricsUnused
<1>4. (\E a \in metricsUnused(conf.provider, db, {n}, job) : a.unused)
        <=> \E x \in mm : ~IsUsed(x)
  <2> DEFINE Row(x) == [name |-> x.name, unused |-> ~IsUsed(x)]
  <2>1. \A x : Row(x).unused <=> ~IsUsed(x)
    OBVIOUS
  <2>2. metricsUnused(conf.provider, db, {n}, job) = {Row(x) : x \in mm}
    BY <1>3
  <2> HIDE DEF mm, Row
  <2> QED
    BY <2>1, <2>2
<1>5. IsUsed(m) <=> InUse(n, tr)
  BY MetadataOf
<1> HIDE DEF m
<1> QED
  BY <1>4, <1>5

(* The catalog's listing with the unused filter: unused metrics tie in its  *)
(* order, so each may be on the first page.                                 *)
LEMMA UnusedListed ==
  ASSUME StoreInv, TableTypes, SummaryExact, NEW tr \in fresh, NEW n \in DOMAIN catalog, NEW job
  PROVE  (\E a \in seriesMetadata(conf.provider, db,
                      [Ask(tr) EXCEPT !.type = "all", !.unused = TRUE, !.job = job]) :
            \E m \in a.data : m.name = n)
           <=> RunsIn(db, n, job) /\ ~InUse(n, tr)
<1> DEFINE r == [Ask(tr) EXCEPT !.type = "all", !.unused = TRUE, !.job = job]
<1> DEFINE A == seriesMetadata(conf.provider, db, r)
<1>1. /\ r.page = Missing /\ r.pageSize = Missing /\ r.sortBy = "" /\ r.sortOrder = ""
      /\ r.filter = {} /\ r.type = "all" /\ r.job = job /\ r.usage = "" /\ r.unused
  BY DEF Ask
<1> HIDE DEF r
<1> DEFINE p == [page |-> 1, pageSize |-> 10, sortBy |-> "", sortOrder |-> "", filter |-> {},
                 type |-> "all", job |-> job, usage |-> "unused"]
<1>2. A = CatalogPages(db, p, Collated)
  <2>1. A = IF conf.provider = "sqlite" THEN SQ!GetSeriesMetadata(db, p)
                                        ELSE PG!GetSeriesMetadata(db, p)
    <3>1. r.page \in {Missing, Bad} /\ r.pageSize \in {Missing, Bad}
      BY <1>1
    <3>2. ~(10 < 1) /\ ~(10 > MaxPageSize)
      BY SMT DEF MaxPageSize
    <3>3. r.usage \notin {"all", "used", "unused"} /\ r.usage = "" /\ r.unused
      BY <1>1
    <3>4. (CASE r.usage \in {"all", "used", "unused"} -> r.usage
             [] r.usage = "" /\ r.unused -> "unused"
             [] OTHER -> "all") = "unused"
      BY <3>3
    <3> QED
      BY <1>1, <3>1, <3>2, <3>4 DEF seriesMetadata
  <2> QED
    BY <2>1, SameCatalogPages DEF SQ!GetSeriesMetadata, PG!GetSeriesMetadata, Collated
<1> DEFINE all == {MetricMetadata(db, x) : x \in DOMAIN catalog}
<1> DEFINE rows == CatalogRows(db, p)
<1>3. rows = {m \in all : ~IsUsed(m) /\ RunsIn(db, m.name, job)}
  BY DEF CatalogRows, Like, HasType, HasUsage, NormalizeSeriesMetadataUsage, db
<1>4. IsFiniteSet(rows)
  <2>1. IsFiniteSet(DOMAIN catalog)
    BY MetricsAssumption, FS_Subset DEF TableTypes, CatalogTypes
  <2> DEFINE f == [x \in DOMAIN catalog |-> MetricMetadata(db, x)]
  <2>2. f \in Surjection(DOMAIN catalog, all)
    BY DEF Surjection
  <2>3. IsFiniteSet(all)
    BY <2>1, <2>2, FS_Surjection
  <2>4. rows \in SUBSET all
    BY <1>3
  <2> QED
    BY <2>3, <2>4, FS_Subset
<1> DEFINE order == OrderBy(ValidateSortField(p.sortBy, p.sortOrder,
                      {"name", "alertCount", "recordCount", "dashboardCount", "queryCount"},
                      "queryCount"), Collated)
<1> DEFINE page == DefaultPagination(p.page, p.pageSize)
<1>5. order.by = "queryCount" /\ ~order.collated /\ FirstPage(page)
  <2>1. ValidateSortField(p.sortBy, p.sortOrder,
          {"name", "alertCount", "recordCount", "dashboardCount", "queryCount"},
          "queryCount").by = "queryCount"
    BY DEF ValidateSortField
  <2>2. FirstPage(page)
    BY SMT DEF DefaultPagination, FirstPage
  <2> QED
    BY <2>1, <2>2 DEF OrderBy, TextColumns
<1>6. A = PagedByCount(Cardinality(rows), rows, order, page)
  BY <1>2 DEF CatalogPages
<1>7. {a.data : a \in A} = Pages(rows, order, page)
  <2> DEFINE total == Cardinality(rows)
  <2> DEFINE Answer(P) == [total |-> total,
                           totalPages |-> (total + page.size - 1) \div page.size, data |-> P]
  <2>1. A = {Answer(P) : P \in Pages(rows, order, page)}
    BY <1>6 DEF PagedByCount
  <2>2. \A P : Answer(P).data = P
    OBVIOUS
  <2> HIDE DEF A, rows, order, page, Answer
  <2> QED
    BY <2>1, <2>2
<1>8. \A x \in DOMAIN catalog : /\ MetricMetadata(db, x).name = x
                                /\ MetricMetadata(db, x).queryCount \in Nat
                                /\ IsUsed(MetricMetadata(db, x)) <=> InUse(x, tr)
  BY MetadataOf
<1>9. (\E m \in rows : m.name = n) <=> RunsIn(db, n, job) /\ ~InUse(n, tr)
  BY <1>3, <1>8
<1>10. \A m \in rows : m["queryCount"] = 0
  <2> SUFFICES ASSUME NEW m \in rows PROVE m.queryCount = 0
    OBVIOUS
  <2>1. m.queryCount \in Nat /\ ~(m.queryCount > 0)
    BY <1>3, <1>8 DEF IsUsed
  <2> HIDE DEF rows
  <2> QED
    BY <2>1
<1> HIDE DEF A, rows, order, page, all, p
<1>11. ASSUME NEW m \in rows PROVE \E P \in Pages(rows, order, page) : m \in P
  <2>1. \A x \in rows : Place(order, x) = 0
    BY <1>5, <1>10 DEF Place
  <2> QED
    BY <1>4, <1>5, <1>11, <2>1, TiedRowOnFirstPage
<1>12. \A P \in Pages(rows, order, page) : P \subseteq rows
  <2>1. Pages(rows, order, page) = Firsts(rows, order, page.size)
    BY <1>4, <1>5, FirstPageRows
  <2> QED
    BY <2>1 DEF Firsts
<1>13. (\E a \in A : \E m \in a.data : m.name = n) <=> \E m \in rows : m.name = n
  <2>1. (\E a \in A : \E m \in a.data : m.name = n)
          <=> \E P \in {a.data : a \in A} : \E m \in P : m.name = n
    OBVIOUS
  <2> QED
    BY <1>7, <1>11, <1>12, <2>1
<1> QED
  BY <1>9, <1>13 DEF A, r

(***************************************************************************)
(* Counting against listing.                                               *)
(***************************************************************************)
LEMMA VisibleIs ==
  ASSUME StoreInv, TableTypes, NEW tr, IsWindow(tr), NEW n \in Nat \ {Any}, NEW d,
         d.rules = rules, d.dashboards = dashboards, d.queries \subseteq queries
  PROVE  Visible(d, n, tr) <=>
           \/ RulesOf(n, "alert", tr) # {} \/ RulesOf(n, "record", tr) # {}
           \/ DashboardsOf(n, tr) # {} \/ \E q \in d.queries : Listed(q, n, tr)
<1> DEFINE Shows(answers) == \A a \in answers : a.total > 0
<1> DEFINE s == GetMetricStatistics(conf.provider, d, Named(n, tr), now)
<1>1. Visible(d, n, tr) <=>
        \/ \E kind \in {"alert", "record", "dashboard"} :
             Shows(GetMetricUsage(conf.provider, d, OfKind(n, kind, tr), now))
        \/ Shows(serieExpressions(conf.provider, d, Named(n, tr), now))
        \/ s.alertCount + s.recordCount + s.dashboardCount > 0
  BY DEF Visible, OfKind, Named
<1>2. /\ Shows(GetMetricUsage(conf.provider, d, OfKind(n, "alert", tr), now))
           <=> RulesOf(n, "alert", tr) # {}
      /\ Shows(GetMetricUsage(conf.provider, d, OfKind(n, "record", tr), now))
           <=> RulesOf(n, "record", tr) # {}
  BY RulesShown
<1>3. Shows(GetMetricUsage(conf.provider, d, OfKind(n, "dashboard", tr), now))
        <=> DashboardsOf(n, tr) # {}
  BY DashboardsShown
<1>4. Shows(serieExpressions(conf.provider, d, Named(n, tr), now))
        <=> \E q \in d.queries : Listed(q, n, tr)
  BY QueriesShown
<1>5. s.alertCount + s.recordCount + s.dashboardCount > 0 <=>
        \/ RulesOf(n, "alert", tr) # {} \/ RulesOf(n, "record", tr) # {}
        \/ DashboardsOf(n, tr) # {}
  BY StatisticsShown
<1> HIDE DEF Shows, s
<1> QED
  BY <1>1, <1>2, <1>3, <1>4, <1>5

LEMMA QueryFacts ==
  ASSUME StoreInv, MatcherTypes, NEW q \in queries, NEW n \in Nat \ {Any}, NEW tr, IsWindow(tr)
  PROVE  /\ q.ts \in Nat /\ tr.from \in Nat /\ tr.to \in Nat /\ Second \in Nat \ {0}
         /\ SQ!MetricMatches(q, n) <=> FirstSelector(q, n)
         /\ FirstSelector(q, n) => PG!MetricMatches(q, n)
         /\ SQ!TsBetween(q, tr) <=> /\ TruncTo(tr.from, Second) <= q.ts
                                    /\ TruncTo(q.ts, Second) < TruncTo(tr.to, Second)
         /\ PG!TsBetween(q, tr) <=> /\ TruncTo(tr.from, Second) <= q.ts
                                    /\ q.ts <= TruncTo(tr.to, Second)
<1>1. q.ts \in Nat /\ q.labelMatchers \in Seq(Nat)
  BY DEF StoreInv, Timed, MatcherTypes
<1>2. n # -1000000
  BY SMT
<1>3. SQ!MetricMatches(q, n) <=> FirstSelector(q, n)
  BY <1>2 DEF SQ!MetricMatches, SQ!FirstName, SQ!Null, FirstSelector
<1>4. ASSUME FirstSelector(q, n) PROVE PG!MetricMatches(q, n)
  <2>1. 1 \in DOMAIN q.labelMatchers
    BY <1>1, <1>4 DEF FirstSelector
  <2> QED
    BY <1>4, <2>1 DEF FirstSelector, PG!MetricMatches
<1>5. SQ!TsBetween(q, tr) <=> /\ TruncTo(tr.from, Second) <= q.ts
                              /\ TruncTo(q.ts, Second) < TruncTo(tr.to, Second)
  BY DEF SQ!TsBetween, SQ!PrepareTimeRange, SQ!Format, SQ!WholeSecond, SQ!TruncTo, TruncTo
<1>6. PG!TsBetween(q, tr) <=> TruncTo(tr.from, Second) <= q.ts /\ q.ts <= TruncTo(tr.to, Second)
  BY DEF PG!TsBetween, PG!PrepareTimeRange, PG!Format, PG!TruncTo, TruncTo
<1> QED
  BY <1>1, <1>3, <1>4, <1>5, <1>6, SecondAssumption DEF IsWindow

(* A counted query is listed, unless PostgreSQL counts it from the start of *)
(* the window's opening second.                                             *)
LEMMA CountedIsListed ==
  ASSUME StoreInv, MatcherTypes, NEW q \in queries, NEW n \in Nat \ {Any}, NEW tr, IsWindow(tr),
         Counted(q, tr), FirstSelector(q, n)
  PROVE  Listed(q, n, tr) \/ (conf.provider = "postgresql" /\ q \in Opening(tr))
<1>1. CASE conf.provider = "sqlite"
  BY <1>1, QueryFacts DEF Counted, Listed
<1>2. CASE conf.provider # "sqlite"
  <2>1. conf.provider = "postgresql"
    BY <1>2, ConfTypes DEF StoreInv
  <2>2. /\ q.ts \in Nat /\ tr.from \in Nat /\ tr.to \in Nat
        /\ PG!MetricMatches(q, n) /\ TruncTo(tr.from, Second) <= q.ts
        /\ q.ts <= TruncTo(tr.to, Second)
    BY <1>2, QueryFacts DEF Counted
  <2>3. TruncTo(tr.to, Second) \in Int /\ TruncTo(tr.to, Second) <= tr.to
    BY QueryFacts, TruncBounds
  <2>4. q.ts <= tr.to
    BY <2>2, <2>3, SMT
  <2>5. tr.from <= q.ts \/ q.ts < tr.from
    BY <2>2, SMT
  <2> QED
    BY <1>2, <2>1, <2>2, <2>4, <2>5 DEF Listed, Opening
<1> QED
  BY <1>1, <1>2

(* A listed query that names the metric first is counted, the closing       *)
(* second aside.                                                            *)
LEMMA ListedIsCounted ==
  ASSUME StoreInv, MatcherTypes, NEW n \in Nat \ {Any}, NEW tr, IsWindow(tr),
         NEW q \in queries \ Closing(tr), Listed(q, n, tr), FirstSelector(q, n)
  PROVE  Counted(q, tr)
<1>1. CASE conf.provider = "sqlite"
  BY <1>1 DEF Counted, Listed
<1>2. CASE conf.provider # "sqlite"
  <2>1. /\ q.ts \in Int /\ tr.from \in Int /\ tr.to \in Int /\ Second \in Nat \ {0}
        /\ PG!TsBetween(q, tr) <=> /\ TruncTo(tr.from, Second) <= q.ts
                                   /\ q.ts <= TruncTo(tr.to, Second)
    BY QueryFacts
  <2>2. tr.from <= q.ts /\ q.ts <= tr.to
    BY <1>2 DEF Listed
  <2>3. /\ TruncTo(tr.from, Second) \in Int /\ TruncTo(tr.from, Second) <= tr.from
        /\ TruncTo(q.ts, Second) \in Int /\ TruncTo(q.ts, Second) <= q.ts
        /\ TruncTo(tr.to, Second) \in Int
    BY <2>1, TruncBounds
  <2>4. TruncTo(q.ts, Second) # TruncTo(tr.to, Second)
    BY DEF Closing
  <2>5. ~(TruncTo(tr.to, Second) < TruncTo(q.ts, Second))
    <3>1. SUFFICES ASSUME TruncTo(tr.to, Second) < TruncTo(q.ts, Second) PROVE FALSE
      OBVIOUS
    <3>2. tr.to < TruncTo(q.ts, Second)
      BY <2>1, <3>1, TruncBefore
    <3> QED
      BY <2>1, <2>2, <2>3, <3>2, SMT
  <2>6. TruncTo(q.ts, Second) < TruncTo(tr.to, Second)
    BY <2>3, <2>4, <2>5, SMT
  <2>7. q.ts < TruncTo(tr.to, Second)
    BY <2>1, <2>6, TruncBefore
  <2>8. TruncTo(tr.from, Second) <= q.ts /\ q.ts <= TruncTo(tr.to, Second)
    BY <2>1, <2>2, <2>3, <2>7, SMT
  <2> QED
    BY <1>2, <2>1, <2>8 DEF Counted
<1> QED
  BY <1>1, <1>2

(***************************************************************************)
(* The theorem.                                                            *)
(***************************************************************************)
SummaryInv == StoreInv /\ TableTypes /\ MatcherTypes /\ SummaryExact

LEMMA SummaryInvariant == Spec => []SummaryInv
<1>1. Init => SummaryInv
  BY StoreInvInit, TableTypesInit DEF Init, SummaryInv, MatcherTypes, SummaryExact, NotFresh
<1>2. SummaryInv /\ [Next]_vars => SummaryInv'
  BY StoreInvNext, TableTypesNext, MatcherTypesNext, SummaryExactNext DEF SummaryInv
<1> QED
  BY <1>1, <1>2, PTL DEF Spec

(* Whatever was inserted, deleted and refreshed before: while nothing has   *)
(* changed since a refresh, /metrics/unused and the catalog's unused filter *)
(* name the same metrics, for every job; the usage, statistics and          *)
(* expression endpoints show nothing of those metrics in the refreshed      *)
(* window and something of every other, the window's first and last second  *)
(* and later selectors aside (routes.go, both providers).                   *)
THEOREM UnusedIsTrue == Spec => []UnusedShowsNoUsage
<1>1. SummaryInv => UnusedShowsNoUsage
  <2> SUFFICES ASSUME SummaryInv, NEW tr \in fresh, NEW n \in DOMAIN catalog
               PROVE  LET Unused(job) ==
                            \E a \in metricsUnused(conf.provider, db, {n}, job) : a.unused
                          Shown(job) ==
                            \E a \in seriesMetadata(conf.provider, db,
                                 [Ask(tr) EXCEPT !.type = "all", !.unused = TRUE, !.job = job]) :
                              \E m \in a.data : m.name = n
                          plain == [db EXCEPT !.queries = {q \in @ \ Closing(tr) :
                                                             FirstSelector(q, n)}]
                      IN  /\ \A job \in listJobs(conf.provider, db) \cup {Any} :
                               Unused(job) <=> Shown(job)
                          /\ Unused(Any) => ~Visible(plain, n, tr)
                          /\ ~Unused(Any) =>
                               \/ Visible(db, n, tr)
                               \/ conf.provider = "postgresql"
                                    /\ \E q \in Opening(tr) : FirstSelector(q, n)
    BY DEF UnusedShowsNoUsage
  <2> USE DEF SummaryInv
  <2> DEFINE Unused(job) == \E a \in metricsUnused(conf.provider, db, {n}, job) : a.unused
  <2> DEFINE Shown(job) ==
               \E a \in seriesMetadata(conf.provider, db,
                          [Ask(tr) EXCEPT !.type = "all", !.unused = TRUE, !.job = job]) :
                 \E m \in a.data : m.name = n
  <2> DEFINE plain == [db EXCEPT !.queries = {q \in @ \ Closing(tr) : FirstSelector(q, n)}]
  <2>1. n \in Nat \ {Any} /\ IsWindow(tr)
    BY MetricsAssumption DEF TableTypes, CatalogTypes, SummaryExact
  <2>2. \A job : Unused(job) <=> RunsIn(db, n, job) /\ ~InUse(n, tr)
    BY UnusedAnswer
  <2>3. \A job : Shown(job) <=> RunsIn(db, n, job) /\ ~InUse(n, tr)
    BY UnusedListed
  <2>4. Unused(Any) <=> ~InUse(n, tr)
    BY <2>2 DEF RunsIn
  <2>5. /\ plain.rules = rules /\ plain.dashboards = dashboards
        /\ plain.queries = {q \in queries \ Closing(tr) : FirstSelector(q, n)}
    BY DEF db
  <2>6. db.rules = rules /\ db.dashboards = dashboards /\ db.queries = queries
    BY DEF db
  <2> HIDE DEF Unused, Shown, plain
  <2>7. ASSUME Visible(plain, n, tr) PROVE InUse(n, tr)
    <3>1. \/ RulesOf(n, "alert", tr) # {} \/ RulesOf(n, "record", tr) # {}
          \/ DashboardsOf(n, tr) # {} \/ \E q \in plain.queries : Listed(q, n, tr)
      BY <2>1, <2>5, <2>7, VisibleIs
    <3>2. ASSUME NEW q \in plain.queries, Listed(q, n, tr) PROVE QueriesOf(n, tr) # {}
      <4>1. q \in queries \ Closing(tr) /\ FirstSelector(q, n)
        BY <2>5, <3>2
      <4>2. Counted(q, tr)
        BY <2>1, <3>2, <4>1, ListedIsCounted
      <4> QED
        BY <4>1, <4>2 DEF QueriesOf
    <3> QED
      BY <3>1, <3>2 DEF InUse
  <2>8. ASSUME InUse(n, tr)
        PROVE  \/ Visible(db, n, tr)
               \/ conf.provider = "postgresql" /\ \E q \in Opening(tr) : FirstSelector(q, n)
    <3>1. Visible(db, n, tr) <=>
            \/ RulesOf(n, "alert", tr) # {} \/ RulesOf(n, "record", tr) # {}
            \/ DashboardsOf(n, tr) # {} \/ \E q \in queries : Listed(q, n, tr)
      BY <2>1, <2>6, VisibleIs
    <3>2. CASE QueriesOf(n, tr) # {}
      <4>1. PICK q \in queries : Counted(q, tr) /\ FirstSelector(q, n)
        BY <3>2 DEF QueriesOf
      <4>2. Listed(q, n, tr) \/ (conf.provider = "postgresql" /\ q \in Opening(tr))
        BY <2>1, <4>1, CountedIsListed
      <4> QED
        BY <3>1, <4>1, <4>2
    <3> QED
      BY <2>8, <3>1, <3>2 DEF InUse
  <2>9. /\ \A job \in listJobs(conf.provider, db) \cup {Any} : Unused(job) <=> Shown(job)
        /\ Unused(Any) => ~Visible(plain, n, tr)
        /\ ~Unused(Any) =>
             \/ Visible(db, n, tr)
             \/ conf.provider = "postgresql" /\ \E q \in Opening(tr) : FirstSelector(q, n)
    BY <2>2, <2>3, <2>4, <2>7, <2>8
  <2> QED
    BY <2>9 DEF Unused, Shown, plain
<1> QED
  BY <1>1, SummaryInvariant, PTL
=============================================================================
