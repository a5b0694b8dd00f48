------------------------- MODULE UsageReaderProofs --------------------------
(***************************************************************************)
(* What readers of the tables see, for any deployments, clock, queries,    *)
(* rules, dashboards, ranges and page sizes: the buckets of a time series  *)
(* add up to the totals, the pages of a listing partition its rows, and    *)
(* both providers give the same answers.                                   *)
(***************************************************************************)
EXTENDS UsageSummaryProofs, WellFoundedInduction

(***************************************************************************)
(* Induction, for sets of numbers: the least element of a set comes from   *)
(* the well-foundedness of < on Nat.                                       *)
(***************************************************************************)
LEMMA LeastNatural ==
  ASSUME NEW T \in SUBSET Nat, T # {}
  PROVE  \E m \in T : \A k \in T : m <= k
<1> DEFINE R == OpToRel(<, Nat)
<1>1. IsWellFoundedOn(R, Nat)
  BY NatLessThanWellFounded
<1>2. \A k, m \in T : k < m => <<k, m>> \in R
  BY DEF OpToRel
<1> HIDE DEF R
<1>3. PICK m \in T : \A k \in T : <<k, m>> \notin R
  BY <1>1, WFMin
<1>4. \A k \in T : ~(k < m)
  BY <1>2, <1>3
<1>5. \A k \in T : m <= k
  BY <1>4, SMT
<1> QED
  BY <1>5

LEMMA NaturalsAreInductive ==
  ASSUME NEW P \in SUBSET Nat, 0 \in P, \A n \in P : n + 1 \in P
  PROVE  P = Nat
<1> SUFFICES ASSUME Nat \ P # {} PROVE FALSE
  OBVIOUS
<1>1. PICK m \in Nat \ P : \A k \in Nat \ P : m <= k
  BY LeastNatural
<1>2. m # 0 /\ m - 1 \in Nat
  BY <1>1
<1>3. m - 1 \in P
  BY <1>1, <1>2
<1> QED
  BY <1>1, <1>2, <1>3

(***************************************************************************)
(* Sums over finite sets.  MapThenSumSet is the value at S of a function   *)
(* that takes one chosen element after another off a set.                  *)
(***************************************************************************)
Chosen(s) == CHOOSE x \in s : TRUE
IsSum(g, v, S) ==
  g = [s \in SUBSET S |-> IF s = {} THEN 0 ELSE v[Chosen(s)] + g[s \ {Chosen(s)}]]

LEMMA ChosenElement ==
  ASSUME NEW s, s # {}
  PROVE  Chosen(s) \in s
  BY DEF Chosen

LEMMA Smaller ==
  ASSUME NEW S, IsFiniteSet(S), NEW s \in SUBSET S, NEW n \in Nat, Cardinality(s) = n + 1
  PROVE  /\ s # {} /\ Chosen(s) \in s /\ s \ {Chosen(s)} \in SUBSET S
         /\ Cardinality(s \ {Chosen(s)}) = n
<1>1. IsFiniteSet(s)
  BY FS_Subset
<1>2. s # {}
  BY FS_EmptySet, SMT
<1>3. Chosen(s) \in s
  BY <1>2, ChosenElement
<1>4. Cardinality(s \ {Chosen(s)}) = Cardinality(s) - 1
  BY <1>1, <1>3, FS_RemoveElement
<1>5. Cardinality(s \ {Chosen(s)}) = n
  BY <1>4, SMT
<1> QED
  BY <1>2, <1>3, <1>5

(* The function exists: for sets of n elements it is defined from the one   *)
(* for sets of fewer.                                                       *)
LEMMA SumExists ==
  ASSUME NEW S, IsFiniteSet(S), NEW v
  PROVE  \E g : IsSum(g, v, S)
<1> DEFINE Step(g) == [s \in SUBSET S |-> IF s = {} THEN 0
                                          ELSE v[Chosen(s)] + g[s \ {Chosen(s)}]]
<1> DEFINE UpTo(g, n) == \A s \in SUBSET S : Cardinality(s) <= n => g[s] = Step(g)[s]
<1> DEFINE P == {n \in Nat : \E g : g = [s \in SUBSET S |-> g[s]] /\ UpTo(g, n)}
<1> DEFINE N == Cardinality(S)
<1>1. \A s \in SUBSET S : IsFiniteSet(s) /\ Cardinality(s) \in Nat /\ Cardinality(s) <= N
  BY FS_Subset, FS_CardinalityType
<1>2. 0 \in P
  <2> DEFINE g == [s \in SUBSET S |-> 0]
  <2>1. ASSUME NEW s \in SUBSET S, Cardinality(s) <= 0 PROVE g[s] = Step(g)[s]
    <3>1. Cardinality(s) = 0
      BY <1>1, <2>1, SMT
    <3>2. s = {}
      BY <1>1, <3>1, FS_EmptySet
    <3> QED
      BY <3>2
  <2> QED
    BY <2>1
<1>3. ASSUME NEW n \in P PROVE n + 1 \in P
  <2>1. PICK g : g = [s \in SUBSET S |-> g[s]] /\ UpTo(g, n)
    OBVIOUS
  <2> DEFINE h == Step(g)
  <2>2. \A s \in SUBSET S : Cardinality(s) <= n => h[s] = g[s]
    BY <2>1
  <2>3. ASSUME NEW s \in SUBSET S, Cardinality(s) <= n + 1 PROVE h[s] = Step(h)[s]
    <3>1. CASE s = {}
      BY <3>1
    <3>2. CASE s # {}
      <4> DEFINE t == s \ {Chosen(s)}
      <4>1. t \in SUBSET S /\ Cardinality(t) = Cardinality(s) - 1
        BY <1>1, <3>2, ChosenElement, FS_RemoveElement
      <4>2. Cardinality(t) <= n
        BY <1>1, <2>3, <4>1, SMT
      <4>3. h[t] = g[t]
        BY <2>2, <4>1, <4>2
      <4>4. h[s] = v[Chosen(s)] + g[t] /\ Step(h)[s] = v[Chosen(s)] + h[t]
        BY <3>2, <4>1
      <4> QED
        BY <4>3, <4>4
    <3> QED
      BY <3>1, <3>2
  <2> HIDE DEF Step
  <2>4. h = [s \in SUBSET S |-> h[s]]
    BY DEF Step
  <2>5. UpTo(h, n + 1) /\ n + 1 \in Nat
    BY <2>3
  <2> QED
    BY <2>4, <2>5
<1> HIDE DEF P
<1>4. P = Nat
  <2>1. P \in SUBSET Nat
    BY DEF P
  <2> QED
    BY <1>2, <1>3, <2>1, NaturalsAreInductive
<1>5. PICK g : g = [s \in SUBSET S |-> g[s]] /\ UpTo(g, N)
  BY <1>1, <1>4 DEF P
<1>6. \A s \in SUBSET S : g[s] = Step(g)[s]
  BY <1>1, <1>5
<1>7. g = Step(g)
  BY <1>5, <1>6
<1> QED
  BY <1>7 DEF IsSum

LEMMA SumOfNaturals ==
  ASSUME NEW S, IsFiniteSet(S), NEW v, \A x \in S : v[x] \in Nat, NEW g, IsSum(g, v, S)
  PROVE  g[S] \in Nat
<1> DEFINE P == {n \in Nat : \A s \in SUBSET S : Cardinality(s) = n => g[s] \in Nat}
<1>1. 0 \in P
  <2>1. ASSUME NEW s \in SUBSET S, Cardinality(s) = 0 PROVE g[s] \in Nat
    <3>1. s = {}
      BY <2>1, FS_Subset, FS_EmptySet
    <3> QED
      BY <3>1, 0 \in Nat DEF IsSum
  <2> QED
    BY <2>1
<1>2. ASSUME NEW n \in P PROVE n + 1 \in P
  <2>1. ASSUME NEW s \in SUBSET S, Cardinality(s) = n + 1 PROVE g[s] \in Nat
    <3>1. /\ s # {} /\ Chosen(s) \in S /\ s \ {Chosen(s)} \in SUBSET S
          /\ Cardinality(s \ {Chosen(s)}) = n
      BY <2>1, Smaller
    <3>2. g[s] = v[Chosen(s)] + g[s \ {Chosen(s)}]
      BY <3>1 DEF IsSum
    <3>3. g[s \ {Chosen(s)}] \in Nat /\ v[Chosen(s)] \in Nat
      BY <3>1
    <3> QED
      BY <3>2, <3>3
  <2> QED
    BY <2>1
<1>3. P = Nat
  <2>1. P \in SUBSET Nat
    OBVIOUS
  <2> HIDE DEF P
  <2> QED
    BY <1>1, <1>2, <2>1, NaturalsAreInductive
<1> QED
  BY <1>3, FS_CardinalityType

(* The sizes of disjoint sets add up to the size of their union. *)
LEMMA SumOfSizes ==
  ASSUME NEW S, IsFiniteSet(S), NEW A,
         \A x \in S : IsFiniteSet(A[x]),
         \A x, y \in S : x # y => A[x] \cap A[y] = {},
         NEW v, \A x \in S : v[x] = Cardinality(A[x]),
         NEW g, IsSum(g, v, S)
  PROVE  g[S] = Cardinality(UNION {A[x] : x \in S})
<1> DEFINE All(s) == UNION {A[x] : x \in s}
<1> DEFINE P == {n \in Nat : \A s \in SUBSET S : Cardinality(s) = n =>
                               IsFiniteSet(All(s)) /\ g[s] = Cardinality(All(s))}
<1>1. 0 \in P
  <2>1. ASSUME NEW s \in SUBSET S, Cardinality(s) = 0
        PROVE  IsFiniteSet(All(s)) /\ g[s] = Cardinality(All(s))
    <3>1. s = {}
      BY <2>1, FS_Subset, FS_EmptySet
    <3>2. All(s) = {} /\ g[s] = 0
      BY <3>1 DEF IsSum
    <3> QED
      BY <3>2, FS_EmptySet
  <2> QED
    BY <2>1
<1>2. ASSUME NEW n \in P PROVE n + 1 \in P
  <2>1. ASSUME NEW s \in SUBSET S, Cardinality(s) = n + 1
        PROVE  IsFiniteSet(All(s)) /\ g[s] = Cardinality(All(s))
    <3> DEFINE c == Chosen(s)
    <3> DEFINE t == s \ {c}
    <3>1. s # {} /\ c \in s /\ t \in SUBSET S /\ Cardinality(t) = n
      BY <2>1, Smaller
    <3>2. g[s] = Cardinality(A[c]) + g[t]
      BY <3>1 DEF IsSum
    <3>3. IsFiniteSet(All(t)) /\ g[t] = Cardinality(All(t)) /\ IsFiniteSet(A[c])
      BY <3>1
    <3> HIDE DEF c
    <3>4. All(s) = A[c] \cup All(t) /\ A[c] \cap All(t) = {}
      BY <3>1
    <3> HIDE DEF All, t
    <3>5. IsFiniteSet(All(s)) /\ Cardinality(All(s)) = Cardinality(A[c]) + Cardinality(All(t)) - 0
      BY <3>3, <3>4, FS_Union, FS_EmptySet
    <3>6. Cardinality(A[c]) \in Nat /\ Cardinality(All(t)) \in Nat
      BY <3>3, FS_CardinalityType
    <3> QED
      BY <3>2, <3>3, <3>5, <3>6
  <2> QED
    BY <2>1
<1>3. P = Nat
  <2>1. P \in SUBSET Nat
    OBVIOUS
  <2> HIDE DEF P
  <2> QED
    BY <1>1, <1>2, <2>1, NaturalsAreInductive
<1> QED
  BY <1>3, FS_CardinalityType

(* The sums that the readers take. *)
SumOver(v, S) == MapThenSumSet(LAMBDA x : v[x], S)
SuccessesOver(w, S) == MapThenSumSet(LAMBDA x : w[x].status2xx, S)
ErrorsOver(w, S) == MapThenSumSet(LAMBDA x : w[x].status4xx + w[x].status5xx, S)
SuccessesIn(w, S) == [x \in S |-> w[x].status2xx]
ErrorsIn(w, S) == [x \in S |-> w[x].status4xx + w[x].status5xx]
LEMMA SumOfValues ==
  ASSUME NEW S, IsFiniteSet(S), NEW v
  PROVE  \E g : IsSum(g, v, S) /\ SumOver(v, S) = g[S]
<1>1. PICK f : IsSum(f, v, S)
  BY SumExists
<1>2. f = [s \in SUBSET S |-> IF s = {} THEN 0 ELSE v[Chosen(s)] + f[s \ {Chosen(s)}]]
  BY <1>1, Zenon DEF IsSum
<1>3. \E g : g = [s \in SUBSET S |-> IF s = {} THEN 0 ELSE v[Chosen(s)] + g[s \ {Chosen(s)}]]
  BY <1>2, Zenon
<1> QED
  BY <1>3, Zenon DEF SumOver, MapThenSumSet, MapThenFoldSet, Chosen, IsSum

LEMMA SumOfDurations ==
  ASSUME NEW S, IsFiniteSet(S), NEW v, v = [x \in S |-> x.duration]
  PROVE  \E g : IsSum(g, v, S) /\ MapThenSumSet(Duration, S) = g[S]
<1> DEFINE Step(g) == [s \in SUBSET S |-> IF s = {} THEN 0
                         ELSE Chosen(s).duration + g[s \ {Chosen(s)}]]
<1>1. \A g : IsSum(g, v, S) <=> g = Step(g)
  <2>1. \A s \in SUBSET S : s # {} => v[Chosen(s)] = Chosen(s).duration
    BY ChosenElement
  <2>2. \A g : [s \in SUBSET S |-> IF s = {} THEN 0 ELSE v[Chosen(s)] + g[s \ {Chosen(s)}]] = Step(g)
    BY <2>1
  <2> QED
    BY <2>2 DEF IsSum
<1>2. \E g : g = Step(g)
  BY <1>1, SumExists
<1>3. \E g : g = Step(g) /\ MapThenSumSet(Duration, S) = g[S]
  BY <1>2, Zenon DEF MapThenSumSet, MapThenFoldSet, Chosen, Duration
<1> QED
  BY <1>1, <1>3

LEMMA SumOfSuccesses ==
  ASSUME NEW S, IsFiniteSet(S), NEW w
  PROVE  \E g : IsSum(g, SuccessesIn(w, S), S) /\ SuccessesOver(w, S) = g[S]
<1> DEFINE v == SuccessesIn(w, S)
<1> DEFINE Step(g) == [s \in SUBSET S |-> IF s = {} THEN 0
                         ELSE w[Chosen(s)].status2xx + g[s \ {Chosen(s)}]]
<1>1. \A g : IsSum(g, v, S) <=> g = Step(g)
  <2>1. \A s \in SUBSET S : s # {} => v[Chosen(s)] = w[Chosen(s)].status2xx
    BY ChosenElement DEF SuccessesIn
  <2> HIDE DEF v
  <2>2. \A g : [s \in SUBSET S |-> IF s = {} THEN 0 ELSE v[Chosen(s)] + g[s \ {Chosen(s)}]] = Step(g)
    BY <2>1
  <2> QED
    BY <2>2 DEF IsSum
<1>2. \E g : g = Step(g)
  BY <1>1, SumExists
<1>3. \E g : g = Step(g) /\ SuccessesOver(w, S) = g[S]
  BY <1>2, Zenon DEF SuccessesOver, MapThenSumSet, MapThenFoldSet, Chosen
<1> QED
  BY <1>1, <1>3

LEMMA SumOfErrors ==
  ASSUME NEW S, IsFiniteSet(S), NEW w
  PROVE  \E g : /\ IsSum(g, ErrorsIn(w, S), S)
                /\ ErrorsOver(w, S) = g[S]
<1> DEFINE v == ErrorsIn(w, S)
<1> DEFINE Step(g) == [s \in SUBSET S |-> IF s = {} THEN 0
                         ELSE (w[Chosen(s)].status4xx + w[Chosen(s)].status5xx)
                                + g[s \ {Chosen(s)}]]
<1>1. \A g : IsSum(g, v, S) <=> g = Step(g)
  <2>1. \A s \in SUBSET S : s # {} =>
          v[Chosen(s)] = w[Chosen(s)].status4xx + w[Chosen(s)].status5xx
    BY ChosenElement DEF ErrorsIn
  <2> HIDE DEF v
  <2>2. \A g : [s \in SUBSET S |-> IF s = {} THEN 0 ELSE v[Chosen(s)] + g[s \ {Chosen(s)}]] = Step(g)
    BY <2>1
  <2> QED
    BY <2>2 DEF IsSum
<1>2. \E g : g = Step(g)
  BY <1>1, SumExists
<1>3. \E g : /\ g = Step(g)
             /\ ErrorsOver(w, S) = g[S]
  BY <1>2, Zenon DEF ErrorsOver, MapThenSumSet, MapThenFoldSet, Chosen
<1> QED
  BY <1>1, <1>3, Zenon

(***************************************************************************)
(* Pages of ordered rows.                                                  *)
(***************************************************************************)
Keyed(rows, order) == IsFiniteSet(rows) /\ \A r \in rows : Place(order, r) \in Int

LEMMA RowThatComesFirst ==
  ASSUME NEW rows, NEW order, Keyed(rows, order), rows # {}
  PROVE  \E m \in rows : \A s \in rows : ~Precedes(order, s, m)
<1> DEFINE First(T, m) == m \in T /\ \A s \in T : ~Precedes(order, s, m)
<1> DEFINE P == {n \in Nat : \A T \in SUBSET rows : Cardinality(T) = n + 1 => \E m : First(T, m)}
<1>1. \A r, s \in rows : /\ ~Precedes(order, r, r)
                         /\ ~Precedes(order, r, s) \/ ~Precedes(order, s, r)
                         /\ \A t \in rows : ~Precedes(order, r, s) /\ ~Precedes(order, s, t)
                                              => ~Precedes(order, r, t)
  BY DEF Keyed, Precedes
<1>2. 0 \in P
  <2>1. ASSUME NEW T \in SUBSET rows, Cardinality(T) = 0 + 1 PROVE \E m : First(T, m)
    <3>1. IsFiniteSet(T) /\ Cardinality(T) = 1
      BY <2>1, FS_Subset DEF Keyed
    <3>2. PICK m : T = {m}
      BY <3>1, FS_Singleton
    <3>3. First(T, m)
      BY <1>1, <3>2
    <3> QED
      BY <3>3
  <2> QED
    BY <2>1
<1>3. ASSUME NEW n \in P PROVE n + 1 \in P
  <2>1. ASSUME NEW T \in SUBSET rows, Cardinality(T) = (n + 1) + 1 PROVE \E m : First(T, m)
    <3> DEFINE c == Chosen(T)
    <3>1. c \in T /\ T \ {c} \in SUBSET rows /\ Cardinality(T \ {c}) = n + 1
      BY <2>1, Smaller DEF Keyed
    <3>2. PICK m : First(T \ {c}, m)
      BY <3>1
    <3> HIDE DEF c
    <3>3. CASE Precedes(order, c, m)
      <4>1. \A s \in T : ~Precedes(order, s, c)
        BY <1>1, <3>1, <3>2, <3>3
      <4> QED
        BY <3>1, <4>1
    <3>4. CASE ~Precedes(order, c, m)
      BY <3>2, <3>4
    <3> QED
      BY <3>3, <3>4
  <2> QED
    BY <2>1
<1>4. P = Nat
  <2>1. P \in SUBSET Nat
    OBVIOUS
  <2> HIDE DEF P
  <2> QED
    BY <1>2, <1>3, <2>1, NaturalsAreInductive
<1>5. Cardinality(rows) - 1 \in Nat /\ Cardinality(rows) = (Cardinality(rows) - 1) + 1
  BY FS_CardinalityType, FS_EmptySet, SMT DEF Keyed
<1> QED
  BY <1>4, <1>5

LEMMA NoRowFirst ==
  ASSUME NEW rows, IsFiniteSet(rows), NEW order
  PROVE  {} \in Firsts(rows, order, 0)
<1>1. Cardinality(rows) \in Nat
  BY FS_CardinalityType
<1>2. Min({0, Cardinality(rows)}) = 0
  BY <1>1, LesserOfTwo, SMT
<1> QED
  BY <1>2, FS_EmptySet DEF Firsts

(* The first n rows, whichever they are, can be continued. *)
LEMMA OneRowMore ==
  ASSUME NEW rows, NEW order, Keyed(rows, order), NEW n \in Nat, NEW Q \in Firsts(rows, order, n)
  PROVE  \E P \in Firsts(rows, order, n + 1) : Q \subseteq P
<1> DEFINE N == Cardinality(rows)
<1>1. N \in Nat /\ n + 1 \in Nat
  BY FS_CardinalityType DEF Keyed
<1>2. Q \in SUBSET rows /\ Cardinality(Q) = Min({n, N})
      /\ \A r \in Q, s \in rows \ Q : ~Precedes(order, s, r)
  BY DEF Firsts
<1>3. IsFiniteSet(Q) /\ Cardinality(Q) = (IF n <= N THEN n ELSE N)
      /\ Min({n + 1, N}) = (IF n + 1 <= N THEN n + 1 ELSE N)
  BY <1>1, <1>2, LesserOfTwo, FS_Subset DEF Keyed
<1>4. CASE n >= N
  <2>1. Cardinality(Q) = Min({n + 1, N})
    BY <1>1, <1>3, <1>4, SMT
  <2> QED
    BY <1>2, <2>1 DEF Firsts
<1>5. CASE n < N
  <2>1. Keyed(rows \ Q, order)
    BY FS_Difference DEF Keyed
  <2>2. rows \ Q # {}
    <3>1. Q # rows
      BY <1>1, <1>3, <1>5, SMT
    <3> QED
      BY <1>2, <3>1
  <2>3. PICK m \in rows \ Q : \A s \in rows \ Q : ~Precedes(order, s, m)
    BY <2>1, <2>2, RowThatComesFirst
  <2> DEFINE P == Q \cup {m}
  <2>4. Cardinality(P) = Cardinality(Q) + 1
    BY <1>3, <2>3, FS_AddElement
  <2>5. Cardinality(P) = Min({n + 1, N})
    BY <1>1, <1>3, <1>5, <2>4, SMT
  <2>6. P \in SUBSET rows /\ \A r \in P, s \in rows \ P : ~Precedes(order, s, r)
    BY <1>2, <2>3
  <2> HIDE DEF P
  <2>7. P \in Firsts(rows, order, n + 1)
    BY <2>5, <2>6 DEF Firsts
  <2> QED
    BY <2>7 DEF P
<1> QED
  BY <1>1, <1>4, <1>5, SMT

LEMMA MoreRows ==
  ASSUME NEW rows, NEW order, Keyed(rows, order), NEW n \in Nat, NEW Q \in Firsts(rows, order, n),
         NEW k \in Nat
  PROVE  \E P \in Firsts(rows, order, n + k) : Q \subseteq P
<1> DEFINE I == {i \in Nat : \E P \in Firsts(rows, order, n + i) : Q \subseteq P}
<1>1. 0 \in I
  <2>1. n + 0 = n
    OBVIOUS
  <2> QED
    BY <2>1
<1>2. ASSUME NEW i \in I PROVE i + 1 \in I
  <2>1. PICK P \in Firsts(rows, order, n + i) : Q \subseteq P
    OBVIOUS
  <2>2. n + i \in Nat /\ n + (i + 1) = (n + i) + 1 /\ i + 1 \in Nat
    OBVIOUS
  <2>3. PICK R \in Firsts(rows, order, (n + i) + 1) : P \subseteq R
    BY <2>2, OneRowMore
  <2>4. R \in Firsts(rows, order, n + (i + 1)) /\ Q \subseteq R
    BY <2>1, <2>2, <2>3
  <2> QED
    BY <2>2, <2>4
<1>3. I = Nat
  <2>1. I \in SUBSET Nat
    OBVIOUS
  <2> HIDE DEF I
  <2> QED
    BY <1>1, <1>2, <2>1, NaturalsAreInductive
<1> QED
  BY <1>3

PageAt(i, size) == [page |-> i, size |-> size]
LEMMA PageRows ==
  ASSUME NEW rows, NEW order, NEW i \in Nat, NEW size \in Nat,
         NEW Q \in Firsts(rows, order, i * size),
         NEW P \in Firsts(rows, order, i * size + size), Q \subseteq P
  PROVE  P \ Q \in Pages(rows, order, PageAt(i + 1, size))
<1> DEFINE offset == (PageAt(i + 1, size).page - 1) * PageAt(i + 1, size).size
<1> DEFINE next == offset + PageAt(i + 1, size).size
<1>1. Pages(rows, order, PageAt(i + 1, size))
        = UNION {{V \ W : W \in Firsts(rows, order, offset) \cap SUBSET V} :
                   V \in Firsts(rows, order, next)}
  BY DEF Pages, Firsts, Precedes
<1>2. offset = i * size /\ next = i * size + size
  BY DEF PageAt
<1> HIDE DEF offset, next
<1>3. Q \in Firsts(rows, order, offset) \cap SUBSET P /\ P \in Firsts(rows, order, next)
  BY <1>2
<1> QED
  BY <1>1, <1>3

LEMMA PageExists ==
  ASSUME NEW rows, NEW order, Keyed(rows, order), NEW i \in Nat \ {0}, NEW size \in Nat
  PROVE  Pages(rows, order, PageAt(i, size)) # {}
<1> DEFINE j == i - 1
<1>1. j \in Nat /\ j + 1 = i
  OBVIOUS
<1> HIDE DEF j
<1> DEFINE off == j * size
<1>2. off \in Nat /\ 0 + off = off
  BY <1>1
<1> HIDE DEF off
<1>4. PICK Q \in Firsts(rows, order, off) : TRUE
  BY <1>2, NoRowFirst, MoreRows DEF Keyed
<1>5. PICK P \in Firsts(rows, order, off + size) : Q \subseteq P
  BY <1>2, MoreRows
<1>6. P \ Q \in Pages(rows, order, PageAt(j + 1, size))
  BY <1>1, <1>4, <1>5, PageRows DEF off
<1> QED
  BY <1>1, <1>6

Through(D, i) == UNION {D[j] : j \in 1..i}  \* the rows of the pages up to i

(* If every page up to number T + 1 is determined, the pages D[i] are cut   *)
(* from the ordered rows one after the other.                               *)
LEMMA PagesAreCutInOrder ==
  ASSUME NEW rows, NEW order, Keyed(rows, order), NEW size \in Nat \ {0}, NEW T \in Nat, NEW D,
         \A i \in 1..T : Pages(rows, order, PageAt(i, size)) \subseteq {D[i]}
  PROVE  \A i \in 0..T :
           /\ Through(D, i) \in Firsts(rows, order, i * size)
           /\ i < T => D[i + 1] \cap Through(D, i) = {}
<1> DEFINE U(i) == Through(D, i)
<1> USE DEF Through
<1> DEFINE I == {i \in Nat : i <= T => U(i) \in Firsts(rows, order, i * size)}
<1>1. ASSUME NEW i \in Nat, i < T, U(i) \in Firsts(rows, order, i * size)
      PROVE  U(i + 1) \in Firsts(rows, order, (i + 1) * size) /\ D[i + 1] \cap U(i) = {}
  <2>1. i * size \in Nat /\ i + 1 \in 1..T /\ (i + 1) * size = i * size + size
    BY <1>1
  <2>2. U(i + 1) = U(i) \cup D[i + 1]
    <3>1. 1..(i + 1) = 1..i \cup {i + 1}
      BY SMT
    <3> QED
      BY <3>1
  <2> HIDE DEF U, Through
  <2>3. PICK P \in Firsts(rows, order, i * size + size) : U(i) \subseteq P
    BY <1>1, <2>1, MoreRows
  <2>4. P \ U(i) \in Pages(rows, order, PageAt(i + 1, size))
    BY <1>1, <2>3, PageRows
  <2>5. D[i + 1] = P \ U(i)
    BY <2>1, <2>4
  <2>6. U(i + 1) = P /\ D[i + 1] \cap U(i) = {}
    BY <2>2, <2>3, <2>5
  <2> QED
    BY <2>1, <2>3, <2>6
<1>2. 0 \in I
  <2>1. U(0) = {} /\ 0 * size = 0
    OBVIOUS
  <2> HIDE DEF U, Through
  <2> QED
    BY <2>1, NoRowFirst DEF Keyed
<1>3. ASSUME NEW i \in I PROVE i + 1 \in I
  <2> HIDE DEF U, Through
  <2>1. CASE i + 1 <= T
    <3>1. i \in Nat /\ i < T /\ i <= T
      BY <2>1
    <3> QED
      BY <1>1, <3>1
  <2>2. CASE ~(i + 1 <= T)
    BY <2>2
  <2> QED
    BY <2>1, <2>2
<1> HIDE DEF U, Through
<1>4. I = Nat
  <2>1. I \in SUBSET Nat
    OBVIOUS
  <2> HIDE DEF I
  <2> QED
    BY <1>2, <1>3, <2>1, NaturalsAreInductive
<1>5. \A i \in 0..T : i \in Nat /\ U(i) \in Firsts(rows, order, i * size)
  BY <1>4
<1>6. \A i \in 0..T : i < T => D[i + 1] \cap U(i) = {}
  BY <1>1, <1>5
<1> QED
  BY <1>5, <1>6 DEF U

(* The number of pages: all but the last are full, and the last one is not  *)
(* empty.                                                                   *)
LEMMA PagesNeeded ==
  ASSUME NEW N \in Nat, NEW size \in Nat \ {0}
  PROVE  LET T == (N + size - 1) \div size
         IN  /\ T \in Nat /\ N <= T * size /\ N <= (T + 1) * size
             /\ \A i \in Nat : i < T => i * size < N
<1> DEFINE T == (N + size - 1) \div size
<1> DEFINE m == (N + size - 1) % size
<1>1. T \in Int /\ m \in 0..(size - 1) /\ N + size - 1 = size * T + m
  BY SMT
<1> HIDE DEF T, m
<1>2. size * T >= N /\ size * T <= N + size - 1
  BY <1>1, SMT
<1>3. T >= 0
  <2> SUFFICES ASSUME T < 0 PROVE FALSE
    BY <1>1, SMT
  <2> DEFINE b == size * T
  <2>1. b \in Int /\ b <= 0 - size
    BY <1>1, SMT
  <2>2. b >= N
    BY <1>2
  <2> HIDE DEF b
  <2> QED
    BY <2>1, <2>2, SMT
<1>4. T \in Nat /\ size * T = T * size /\ (T + 1) * size = T * size + size
  BY <1>1, <1>3, SMT
<1>5. ASSUME NEW i \in Nat, i < T PROVE i * size < N
  <2> DEFINE e == T - (i + 1)
  <2>2. e \in Nat /\ T = (i + 1) + e
    BY <1>4, <1>5, SMT
  <2> HIDE DEF e
  <2>3. /\ e * size \in Nat /\ i * size \in Nat
        /\ ((i + 1) + e) * size = i * size + size + e * size
    BY <2>2, SMT
  <2>1. i * size + size <= T * size
    BY <2>2, <2>3, SMT
  <2> QED
    BY <1>2, <1>4, <2>1, <2>3, SMT
<1>6. N <= T * size /\ N <= (T + 1) * size
  BY <1>2, <1>4, SMT
<1> QED
  BY <1>4, <1>5, <1>6 DEF T

LEMMA PagesPartitionRows ==
  ASSUME NEW rows, NEW order, Keyed(rows, order), NEW size \in Nat \ {0}, NEW T \in Nat, NEW D,
         \A i \in 1..(T + 1) : Pages(rows, order, PageAt(i, size)) \subseteq {D[i]},
         T = (Cardinality(rows) + size - 1) \div size
  PROVE  /\ \A i, j \in 1..(T + 1) : i # j => D[i] \cap D[j] = {}
         /\ \A i \in 1..(T + 1) : D[i] = {} <=> i = T + 1
         /\ UNION {D[i] : i \in 1..(T + 1)} = rows
<1> DEFINE N == Cardinality(rows)
<1> DEFINE U(i) == Through(D, i)
<1>1. N \in Nat
  BY FS_CardinalityType DEF Keyed
<1>2. /\ N <= T * size /\ N <= (T + 1) * size
      /\ \A i \in Nat : i < T => i * size < N
  BY <1>1, PagesNeeded
<1>3. \A i \in Nat : i + 1 \in Nat /\ i * size \in Nat /\ (i + 1) * size = i * size + size
  OBVIOUS
<1>4. \A i \in 0..(T + 1) : /\ U(i) \in Firsts(rows, order, i * size)
                            /\ i < T + 1 => D[i + 1] \cap U(i) = {}
  <2>1. T + 1 \in Nat
    BY <1>3
  <2> QED
    BY <2>1, PagesAreCutInOrder
<1>5. \A i \in Nat : U(i + 1) = U(i) \cup D[i + 1]
  <2>1. \A i \in Nat : 1..(i + 1) = 1..i \cup {i + 1}
    BY SMT
  <2> QED
    BY <2>1 DEF Through
<1>6. \A j \in Nat : \A i \in 1..j : D[i] \subseteq U(j)
  BY DEF Through
<1> HIDE DEF U
<1>7. ASSUME NEW i \in 0..(T + 1)
      PROVE  U(i) \subseteq rows /\ Cardinality(U(i)) = IF i * size <= N THEN i * size ELSE N
  <2>1. i * size \in Nat
    BY <1>3
  <2>2. U(i) \subseteq rows /\ Cardinality(U(i)) = Min({i * size, N})
    BY <1>4 DEF Firsts
  <2> QED
    BY <1>1, <2>1, <2>2, LesserOfTwo
<1>8. ASSUME NEW i \in 1..(T + 1), NEW j \in 1..(T + 1), i < j PROVE D[i] \cap D[j] = {}
  <2>1. j - 1 \in 0..(T + 1) /\ j - 1 < T + 1 /\ (j - 1) + 1 = j /\ i \in 1..(j - 1)
    BY <1>8
  <2>2. D[j] \cap U(j - 1) = {} /\ D[i] \subseteq U(j - 1)
    BY <1>4, <1>6, <2>1
  <2> QED
    BY <2>2
<1>9. ASSUME NEW i \in 0..(T + 1), N <= i * size PROVE U(i) = rows
  <2>1. i * size \in Nat
    BY <1>3
  <2>2. U(i) \subseteq rows /\ Cardinality(U(i)) = IF i * size <= N THEN i * size ELSE N
    BY <1>7
  <2> DEFINE a == i * size
  <2>3. a \in Nat /\ N <= a /\ Cardinality(U(i)) = IF a <= N THEN a ELSE N
    BY <1>9, <2>1, <2>2
  <2> HIDE DEF a
  <2>4. Cardinality(U(i)) = N
    BY <1>1, <2>3
  <2> QED
    BY <2>2, <2>4, FS_Subset DEF Keyed
<1>10. U(T + 1) = rows /\ U(T) = rows
  BY <1>2, <1>9
<1>11. D[T + 1] = {}
  <2>1. T \in 0..(T + 1) /\ T < T + 1
    OBVIOUS
  <2>2. D[T + 1] \cap U(T) = {} /\ D[T + 1] \subseteq U(T + 1)
    BY <1>4, <1>5, <2>1
  <2> QED
    BY <1>10, <2>2
<1>12. ASSUME NEW i \in Nat, i < T PROVE D[i + 1] # {}
  <2> SUFFICES ASSUME D[i + 1] = {} PROVE FALSE
    OBVIOUS
  <2>1. U(i + 1) = U(i)
    BY <1>5
  <2> DEFINE a == i * size
  <2> DEFINE b == (i + 1) * size
  <2>2. a \in Nat /\ b = a + size /\ a < N
    BY <1>2, <1>3, <1>12
  <2>3. i \in 0..(T + 1) /\ i + 1 \in 0..(T + 1)
    BY <1>12
  <2>4. Cardinality(U(i + 1)) = (IF b <= N THEN b ELSE N)
        /\ Cardinality(U(i)) = (IF a <= N THEN a ELSE N)
    BY <1>7, <2>3
  <2> HIDE DEF a, b, N
  <2> QED
    BY <1>1, <2>1, <2>2, <2>4
<1>13. ASSUME NEW i \in 1..(T + 1) PROVE D[i] = {} <=> i = T + 1
  <2>1. CASE i = T + 1
    BY <1>11, <2>1
  <2>2. CASE i # T + 1
    <3>1. i - 1 \in Nat /\ i - 1 < T /\ (i - 1) + 1 = i
      BY <2>2
    <3> QED
      BY <1>12, <2>2, <3>1
  <2> QED
    BY <2>1, <2>2
<1>14. \A i, j \in 1..(T + 1) : i # j => D[i] \cap D[j] = {}
  <2>1. \A i, j \in 1..(T + 1) : i # j => i < j \/ j < i
    OBVIOUS
  <2> QED
    BY <1>8, <2>1
<1> QED
  BY <1>10, <1>13, <1>14 DEF U, Through

(* A reader who gets one answer for every page sees every row once. *)
Turned(ans, T) == UNION {{i} \X ans[i] : i \in 1..(T + 1)}
OneAnswerEach(turned) == \A t, u \in turned : t[1] = u[1] => t = u
Gives(ans, rows, order, size, I) ==
  \A i \in I : \A P \in Pages(rows, order, PageAt(i, size)) : \E a \in ans[i] : a.data = P
SeesEveryRowOnce(turned, T, N) ==
  /\ \A t, u \in turned : t # u => t[2].data \cap u[2].data = {}
  /\ \A t \in turned : t[2].data = {} <=> t[1] = T + 1
  /\ Cardinality(UNION {t[2].data : t \in turned}) = N
LEMMA PagesTurned ==
  ASSUME NEW rows, NEW order, Keyed(rows, order), NEW size \in Nat \ {0}, NEW T,
         T = (Cardinality(rows) + size - 1) \div size, NEW ans,
         Gives(ans, rows, order, size, 1..(T + 1)), OneAnswerEach(Turned(ans, T))
  PROVE  SeesEveryRowOnce(Turned(ans, T), T, Cardinality(rows))
<1> DEFINE D == [i \in 1..(T + 1) |-> (CHOOSE a \in ans[i] : TRUE).data]
<1>1. T \in Nat
  <2>1. Cardinality(rows) \in Nat
    BY FS_CardinalityType DEF Keyed
  <2> QED
    BY <2>1, PagesNeeded
<1>2. \A i \in 1..(T + 1) : \A a \in ans[i] : <<i, a>> \in Turned(ans, T)
  BY DEF Turned
<1>3. ASSUME NEW i \in 1..(T + 1), NEW a \in ans[i] PROVE D[i] = a.data
  <2> DEFINE c == CHOOSE b \in ans[i] : TRUE
  <2>1. c \in ans[i]
    OBVIOUS
  <2> HIDE DEF c
  <2>2. <<i, a>>[1] = <<i, c>>[1]
    OBVIOUS
  <2>3. <<i, a>> = <<i, c>>
    BY <1>2, <2>1, <2>2 DEF OneAnswerEach
  <2> QED
    BY <2>3 DEF c
<1>4. ASSUME NEW i \in 1..(T + 1) PROVE \E a \in ans[i] : TRUE
  <2>1. i \in Nat \ {0} /\ size \in Nat
    BY <1>1
  <2>2. PICK P : P \in Pages(rows, order, PageAt(i, size))
    BY <2>1, PageExists
  <2> QED
    BY <2>2 DEF Gives
<1>5. ASSUME NEW i \in 1..(T + 1) PROVE Pages(rows, order, PageAt(i, size)) \subseteq {D[i]}
  BY <1>3 DEF Gives
<1>6. ASSUME NEW t \in Turned(ans, T)
      PROVE  t[1] \in 1..(T + 1) /\ t[2].data = D[t[1]]
  <2>1. PICK i \in 1..(T + 1) : \E a \in ans[i] : t = <<i, a>>
    BY DEF Turned
  <2>2. PICK a \in ans[i] : t = <<i, a>>
    BY <2>1
  <2>3. t[1] = i /\ t[2] = a
    BY <2>2
  <2> QED
    BY <1>3, <2>3
<1>7. \A i \in 1..(T + 1) : \E t \in Turned(ans, T) : t[1] = i
  <2>1. ASSUME NEW i \in 1..(T + 1) PROVE \E t \in Turned(ans, T) : t[1] = i
    <3>1. PICK a \in ans[i] : TRUE
      BY <1>4
    <3>2. <<i, a>> \in Turned(ans, T) /\ <<i, a>>[1] = i
      BY <1>2
    <3> QED
      BY <3>2
  <2> QED
    BY <2>1
<1> HIDE DEF D
<1>8. /\ \A i, j \in 1..(T + 1) : i # j => D[i] \cap D[j] = {}
      /\ \A i \in 1..(T + 1) : D[i] = {} <=> i = T + 1
      /\ UNION {D[i] : i \in 1..(T + 1)} = rows
  BY <1>1, <1>5, PagesPartitionRows
<1>9. UNION {t[2].data : t \in Turned(ans, T)} = UNION {D[i] : i \in 1..(T + 1)}
  BY <1>6, <1>7
<1>10. ASSUME NEW t \in Turned(ans, T), NEW u \in Turned(ans, T), t # u
       PROVE  t[2].data \cap u[2].data = {}
  <2>1. t[1] # u[1]
    BY <1>10 DEF OneAnswerEach
  <2>2. t[1] \in 1..(T + 1) /\ u[1] \in 1..(T + 1) /\ t[2].data = D[t[1]] /\ u[2].data = D[u[1]]
    BY <1>6
  <2> QED
    BY <1>8, <2>1, <2>2
<1>11. \A t \in Turned(ans, T) : t[2].data = {} <=> t[1] = T + 1
  BY <1>6, <1>8
<1> QED
  BY <1>8, <1>9, <1>10, <1>11 DEF SeesEveryRowOnce

(***************************************************************************)
(* Both providers have their own copies of the definitions of Provider.    *)
(***************************************************************************)
LEMMA SameSums ==
  ASSUME NEW rows
  PROVE  /\ SQ!MapThenSumSet(SQ!Duration, rows) = MapThenSumSet(Duration, rows)
         /\ PG!MapThenSumSet(PG!Duration, rows) = MapThenSumSet(Duration, rows)
         /\ SQ!MapThenSumSet(SQ!PeakSamples, rows) = MapThenSumSet(PeakSamples, rows)
         /\ PG!MapThenSumSet(PG!PeakSamples, rows) = MapThenSumSet(PeakSamples, rows)
  BY SMT DEF SQ!Duration, PG!Duration, Duration, SQ!PeakSamples, PG!PeakSamples, PeakSamples,
       SQ!MapThenSumSet, PG!MapThenSumSet, MapThenSumSet,
       SQ!MapThenFoldSet, PG!MapThenFoldSet, MapThenFoldSet

LEMMA SameAverages ==
  ASSUME NEW rows
  PROVE  /\ SQ!Avg(SQ!Duration, rows) = Avg(Duration, rows)
         /\ PG!Avg(PG!Duration, rows) = Avg(Duration, rows)
         /\ SQ!Avg(SQ!PeakSamples, rows) = Avg(PeakSamples, rows)
         /\ PG!Avg(PG!PeakSamples, rows) = Avg(PeakSamples, rows)
  BY SameSums, SameCardinality, SMT DEF SQ!Avg, PG!Avg, Avg, SQ!Null, PG!Null, Null,
       SQ!Round2, PG!Round2, Round2

LEMMA SameMaxima ==
  ASSUME NEW rows
  PROVE  /\ SQ!MaxOf(SQ!PeakSamples, rows) = MaxOf(PeakSamples, rows)
         /\ PG!MaxOf(PG!PeakSamples, rows) = MaxOf(PeakSamples, rows)
  BY SMT DEF SQ!PeakSamples, PG!PeakSamples, PeakSamples, SQ!Null, PG!Null, Null,
       SQ!MaxOf, PG!MaxOf, MaxOf, SQ!Max, PG!Max, Max

LEMMA SameSorting ==
  ASSUME NEW by, NEW sortOrder, NEW fields, NEW default, NEW col
  PROVE  /\ SQ!OrderBy(SQ!ValidateSortField(by, sortOrder, fields, default), col)
              = OrderBy(ValidateSortField(by, sortOrder, fields, default), col)
         /\ PG!OrderBy(PG!ValidateSortField(by, sortOrder, fields, default), col)
              = OrderBy(ValidateSortField(by, sortOrder, fields, default), col)
<1>1. /\ SQ!ValidateSortField(by, sortOrder, fields, default)
           = ValidateSortField(by, sortOrder, fields, default)
      /\ PG!ValidateSortField(by, sortOrder, fields, default)
           = ValidateSortField(by, sortOrder, fields, default)
  BY DEF SQ!ValidateSortField, PG!ValidateSortField, ValidateSortField
<1>2. \A sort : SQ!OrderBy(sort, col) = OrderBy(sort, col) /\ PG!OrderBy(sort, col) = OrderBy(sort, col)
  BY DEF SQ!OrderBy, PG!OrderBy, OrderBy, SQ!TextColumns, PG!TextColumns, TextColumns
<1> QED
  BY <1>1, <1>2

(* A row of the listing of a metric's expressions. *)
SerieRow(rows, e) ==
  LET group == {q \in rows : q.queryParam = e}
  IN  [queryParam |-> e, avgDuration |-> Avg(Duration, group),
       avgPeakySamples |-> Avg(PeakSamples, group), maxPeakSamples |-> MaxOf(PeakSamples, group)]
SerieOrder(p, col) ==
  OrderBy(ValidateSortField(p.sortBy, p.sortOrder,
    {"queryParam", "avgDuration", "avgPeakySamples", "maxPeakSamples"}, "avgDuration"), col)
SerieListing(rows, p, col) ==
  PagedByRows({SerieRow(rows, e) : e \in {q.queryParam : q \in rows}}, SerieOrder(p, col),
              ValidatePagination(p.page, p.pageSize, 10))

LEMMA SameSerieQueryPages ==
  ASSUME NEW rows, NEW p, NEW col
  PROVE  /\ SQ!SerieQueryPages(rows, p, col) = SerieListing(rows, p, col)
         /\ PG!SerieQueryPages(rows, p, col) = SerieListing(rows, p, col)
<1> DEFINE texts == {q.queryParam : q \in rows}
<1> DEFINE Group(e) == {q \in rows : q.queryParam = e}
<1> DEFINE cells == {SerieRow(rows, e) : e \in texts}
<1> DEFINE cellsS == {[queryParam      |-> e,
                       avgDuration     |-> SQ!Avg(SQ!Duration, Group(e)),
                       avgPeakySamples |-> SQ!Avg(SQ!PeakSamples, Group(e)),
                       maxPeakSamples  |-> SQ!MaxOf(SQ!PeakSamples, Group(e))] : e \in texts}
<1> DEFINE cellsP == {[queryParam      |-> e,
                       avgDuration     |-> PG!Avg(PG!Duration, Group(e)),
                       avgPeakySamples |-> PG!Avg(PG!PeakSamples, Group(e)),
                       maxPeakSamples  |-> PG!MaxOf(PG!PeakSamples, Group(e))] : e \in texts}
<1>1. cellsS = cells /\ cellsP = cells
  BY SameAverages, SameMaxima DEF SerieRow
<1> DEFINE fields == {"queryParam", "avgDuration", "avgPeakySamples", "maxPeakSamples"}
<1>2. /\ SQ!SerieQueryPages(rows, p, col)
           = SQ!PagedByRows(cellsS, SQ!OrderBy(SQ!ValidateSortField(p.sortBy, p.sortOrder, fields, "avgDuration"), col),
                            SQ!ValidatePagination(p.page, p.pageSize, 10))
      /\ PG!SerieQueryPages(rows, p, col)
           = PG!PagedByRows(cellsP, PG!OrderBy(PG!ValidateSortField(p.sortBy, p.sortOrder, fields, "avgDuration"), col),
                            PG!ValidatePagination(p.page, p.pageSize, 10))
  BY DEF SQ!SerieQueryPages, PG!SerieQueryPages
<1>3. SerieOrder(p, col) = OrderBy(ValidateSortField(p.sortBy, p.sortOrder, fields, "avgDuration"), col)
  BY DEF SerieOrder
<1>4. SerieListing(rows, p, col) = PagedByRows(cells, SerieOrder(p, col), ValidatePagination(p.page, p.pageSize, 10))
  BY DEF SerieListing
<1> HIDE DEF cells, cellsS, cellsP, fields
<1> QED
  BY <1>1, <1>2, <1>3, <1>4, SamePagedByRows, SameSorting, SamePagination

LEMMA SameExpressionRow ==
  ASSUME NEW rows, NEW f, NEW text
  PROVE  /\ SQ!ExpressionRow(rows, f, text) = ExpressionRow(rows, f, text)
         /\ PG!ExpressionRow(rows, f, text) = ExpressionRow(rows, f, text)
<1> DEFINE group == {q \in rows : q.fingerprint = f}
<1>1. \A S : /\ SQ!CountOf(S, SQ!IsFailed) = CountOf(S, IsFailed)
             /\ PG!CountOf(S, PG!IsFailed) = CountOf(S, IsFailed)
  BY SameCardinality DEF SQ!CountOf, PG!CountOf, CountOf, SQ!Keep, PG!Keep, Keep,
       SQ!IsFailed, PG!IsFailed, IsFailed
<1>2. \A a, b : SQ!Percent(a, b) = Percent(a, b) /\ PG!Percent(a, b) = Percent(a, b)
  BY SMT DEF SQ!Percent, PG!Percent, Percent, SQ!Null, PG!Null, Null,
       SQ!Round2, PG!Round2, Round2
<1> QED
  BY <1>1, <1>2, SameCardinality, SameAverages, SameMaxima
     DEF SQ!ExpressionRow, PG!ExpressionRow, ExpressionRow

(* The texts that the rows of the listing of expressions may show. *)
Prints(rows) == {q.fingerprint : q \in rows}
LatestTexts(rows) ==
  {c \in [Prints(rows) -> {q.queryParam : q \in rows}] :
     \A f \in Prints(rows) :
       c[f] \in {q.queryParam : q \in {q \in rows : q.fingerprint = f /\
                                         \A r \in rows : r.fingerprint = f => r.ts <= q.ts}}}
ExpressionCells(rows, c) == {ExpressionRow(rows, f, c[f]) : f \in Prints(rows)}
ExpressionOrder(p, col) ==
  OrderBy(ValidateSortField(p.sortBy, p.sortOrder,
    {"query", "executions", "avgDuration", "errorRatePercent", "peakSamples"}, "executions"), col)
ExpressionListing(rows, p, col) ==
  UNION {PagedByRows(ExpressionCells(rows, c), ExpressionOrder(p, col),
                     DefaultPagination(p.page, p.pageSize)) : c \in LatestTexts(rows)}

LEMMA SameExpressionPages ==
  ASSUME NEW rows, NEW p, NEW col
  PROVE  /\ SQ!ExpressionPages(rows, p, col) = ExpressionListing(rows, p, col)
         /\ PG!ExpressionPages(rows, p, col) = ExpressionListing(rows, p, col)
<1> DEFINE fields == {"query", "executions", "avgDuration", "errorRatePercent", "peakSamples"}
<1> DEFINE S(c) == SQ!PagedByRows({SQ!ExpressionRow(rows, f, c[f]) : f \in Prints(rows)},
                     SQ!OrderBy(SQ!ValidateSortField(p.sortBy, p.sortOrder, fields, "executions"), col),
                     SQ!DefaultPagination(p.page, p.pageSize))
<1> DEFINE G(c) == PG!PagedByRows({PG!ExpressionRow(rows, f, c[f]) : f \in Prints(rows)},
                     PG!OrderBy(PG!ValidateSortField(p.sortBy, p.sortOrder, fields, "executions"), col),
                     PG!DefaultPagination(p.page, p.pageSize))
<1> DEFINE L(c) == PagedByRows(ExpressionCells(rows, c), ExpressionOrder(p, col),
                     DefaultPagination(p.page, p.pageSize))
<1>1. /\ SQ!ExpressionPages(rows, p, col) = UNION {S(c) : c \in LatestTexts(rows)}
      /\ PG!ExpressionPages(rows, p, col) = UNION {G(c) : c \in LatestTexts(rows)}
  BY DEF SQ!ExpressionPages, PG!ExpressionPages, LatestTexts, Prints
<1>2. ASSUME NEW c PROVE S(c) = L(c) /\ G(c) = L(c)
  <2>1. /\ {SQ!ExpressionRow(rows, f, c[f]) : f \in Prints(rows)} = ExpressionCells(rows, c)
        /\ {PG!ExpressionRow(rows, f, c[f]) : f \in Prints(rows)} = ExpressionCells(rows, c)
    BY SameExpressionRow DEF ExpressionCells
  <2>2. ExpressionOrder(p, col) = OrderBy(ValidateSortField(p.sortBy, p.sortOrder, fields, "executions"), col)
    BY DEF ExpressionOrder
  <2>3. /\ SQ!DefaultPagination(p.page, p.pageSize) = DefaultPagination(p.page, p.pageSize)
        /\ PG!DefaultPagination(p.page, p.pageSize) = DefaultPagination(p.page, p.pageSize)
    BY DEF SQ!DefaultPagination, PG!DefaultPagination, DefaultPagination
  <2> HIDE DEF fields
  <2>4. /\ SQ!OrderBy(SQ!ValidateSortField(p.sortBy, p.sortOrder, fields, "executions"), col)
             = ExpressionOrder(p, col)
        /\ PG!OrderBy(PG!ValidateSortField(p.sortBy, p.sortOrder, fields, "executions"), col)
             = ExpressionOrder(p, col)
    BY <2>2, SameSorting, SMT
  <2> DEFINE cells == ExpressionCells(rows, c)
  <2> DEFINE order == ExpressionOrder(p, col)
  <2> DEFINE page == DefaultPagination(p.page, p.pageSize)
  <2>5. SQ!PagedByRows(cells, order, page) = PagedByRows(cells, order, page)
        /\ PG!PagedByRows(cells, order, page) = PagedByRows(cells, order, page)
    BY SamePagedByRows
  <2>6. S(c) = SQ!PagedByRows(cells, order, page) /\ G(c) = PG!PagedByRows(cells, order, page)
    BY <2>1, <2>3, <2>4
  <2> QED
    BY <2>5, <2>6
<1>3. ExpressionListing(rows, p, col) = UNION {L(c) : c \in LatestTexts(rows)}
  BY DEF ExpressionListing
<1> HIDE DEF S, G, L
<1> QED
  BY <1>1, <1>2, <1>3

(* A row of the listing of executions, by the time it is sorted by. *)
ExecutionRow(q, ts) == [id |-> q, ts |-> ts, duration |-> q.duration,
                        samples |-> q.samples, statusCode |-> q.statusCode]
ExecutionOrder(p) ==
  OrderBy(ValidateSortField(p.sortBy, p.sortOrder,
    {"ts", "duration", "samples", "statusCode"}, "ts"), FALSE)
ExecutionListing(rows, p, time) ==
  PagedByRows({ExecutionRow(q, time[q]) : q \in rows}, ExecutionOrder(p),
              ValidatePagination(p.page, p.pageSize, 10))

LEMMA SameExecutionPages ==
  ASSUME NEW rows, NEW p
  PROVE  /\ SQ!ExecutionPages(rows, p, LAMBDA q : SQ!WholeSecond(q.ts))
              = ExecutionListing(rows, p, [q \in rows |-> WholeSecond(q.ts)])
         /\ PG!ExecutionPages(rows, p, LAMBDA q : q.ts)
              = ExecutionListing(rows, p, [q \in rows |-> q.ts])
<1> DEFINE col == FALSE
<1> DEFINE fields == {"ts", "duration", "samples", "statusCode"}
<1> DEFINE cellsS == {[id |-> q, ts |-> SQ!WholeSecond(q.ts), duration |-> q.duration,
                samples |-> q.samples, statusCode |-> q.statusCode] : q \in rows}
<1> DEFINE cellsP == {[id |-> q, ts |-> q.ts, duration |-> q.duration,
                samples |-> q.samples, statusCode |-> q.statusCode] : q \in rows}
<1> DEFINE S == {ExecutionRow(q, [x \in rows |-> WholeSecond(x.ts)][q]) : q \in rows}
<1> DEFINE G == {ExecutionRow(q, [x \in rows |-> x.ts][q]) : q \in rows}
<1>1. /\ SQ!ExecutionPages(rows, p, LAMBDA q : SQ!WholeSecond(q.ts))
           = SQ!PagedByRows(cellsS, SQ!OrderBy(SQ!ValidateSortField(p.sortBy, p.sortOrder, fields, "ts"), col),
                            SQ!ValidatePagination(p.page, p.pageSize, 10))
      /\ PG!ExecutionPages(rows, p, LAMBDA q : q.ts)
           = PG!PagedByRows(cellsP, PG!OrderBy(PG!ValidateSortField(p.sortBy, p.sortOrder, fields, "ts"), col),
                            PG!ValidatePagination(p.page, p.pageSize, 10))
  BY DEF SQ!ExecutionPages, PG!ExecutionPages
<1>2. cellsS = S /\ cellsP = G
  BY DEF ExecutionRow, SQ!WholeSecond, WholeSecond, SQ!TruncTo, TruncTo
<1>3. /\ ExecutionListing(rows, p, [q \in rows |-> WholeSecond(q.ts)])
           = PagedByRows(S, ExecutionOrder(p), ValidatePagination(p.page, p.pageSize, 10))
      /\ ExecutionListing(rows, p, [q \in rows |-> q.ts])
           = PagedByRows(G, ExecutionOrder(p), ValidatePagination(p.page, p.pageSize, 10))
  BY DEF ExecutionListing
<1>4. ExecutionOrder(p) = OrderBy(ValidateSortField(p.sortBy, p.sortOrder, fields, "ts"), col)
  BY DEF ExecutionOrder
<1> HIDE DEF col, fields, cellsS, cellsP, S, G
<1>5. /\ SQ!OrderBy(SQ!ValidateSortField(p.sortBy, p.sortOrder, fields, "ts"), col)
           = ExecutionOrder(p)
      /\ PG!OrderBy(PG!ValidateSortField(p.sortBy, p.sortOrder, fields, "ts"), col)
           = ExecutionOrder(p)
  BY <1>4, SameSorting, SMT
<1> QED
  BY <1>1, <1>2, <1>3, <1>5, SamePagedByRows, SamePagination, SMT

(***************************************************************************)
(* What the stored rows hold.                                              *)
(***************************************************************************)
Stored(q) == /\ q.duration \in Nat /\ q.statusCode \in 100..599
             /\ q.start \in Int /\ q.end \in Int /\ q.fingerprint \in Nat
QueryValues == \A q \in pending \cup history : Stored(q)
DashboardNames == {d.name : d \in DashboardItems}
DashboardRow == [first : Instants, last : Instants, name : DashboardNames]
DashboardValues == \A k \in DOMAIN dashboards : dashboards[k] \in DashboardRow

Proxied(q) == /\ q.duration \in Nat /\ q.statusCode \in 100..599
              /\ q.start \in Int /\ q.end \in Int /\ q.queryParam \in Texts

LEMMA HandoverValues ==
  ASSUME QueryValues, NEW qs, Ingest(qs), \A q \in qs : Proxied(q)
  PROVE  QueryValues'
<1>1. PICK ids : pending' = pending \cup {Prepare(q, ids[q]) : q \in qs}
  BY DEF Ingest
<1>2. ASSUME NEW q \in qs PROVE Stored(Prepare(q, ids[q]))
  <2>1. Prepare(q, ids[q]).fingerprint \in Nat
    BY TextsAssumption DEF Prepare, Proxied
  <2> QED
    BY <2>1 DEF Prepare, Stored, Proxied
<1> QED
  BY <1>1, <1>2 DEF Ingest, QueryValues

LEMMA PushedValues ==
  ASSUME NEW qs \in Pushes, now \in Nat, NEW q \in queryPush(qs, now)
  PROVE  Proxied(q)
<1>1. PICK p \in qs : q = validateQuery(p, now) /\ Valid(p)
  BY DEF queryPush
<1>2. /\ p.duration \in Int /\ p.statusCode \in (100..599) \cup {Bad} /\ p.queryParam \in Texts
      /\ p.start \in Times /\ p.end \in Times /\ p.time \in Times
      /\ {"ts", "time", "start", "end"} \subseteq DOMAIN p
  BY PushesAssumption
<1>3. /\ q.duration = p.duration /\ q.statusCode = p.statusCode /\ q.queryParam = p.queryParam
      /\ q.start \in {p.start, p.time, now} /\ q.end \in {p.end, p.time, now}
  BY <1>1, <1>2 DEF validateQuery
<1>4. p.duration >= 0 /\ p.statusCode # Bad
  BY <1>1 DEF Valid
<1>5. \A t \in Times : t \in Int
  BY DEF Times, Zero
<1> QED
  BY <1>2, <1>3, <1>4, <1>5 DEF Proxied

LEMMA QueryValuesNext == StoreInv /\ QueryValues /\ [Next]_vars => QueryValues'
<1> SUFFICES ASSUME StoreInv, QueryValues, [Next]_vars PROVE QueryValues'
  OBVIOUS
<1>1. now \in Nat
  BY ConfTypes DEF StoreInv
<1>2. ASSUME NEW r \in Requests, Query(r) \/ QueryRange(r)
      PROVE  QueryValues'
  <2>1. /\ r.duration \in Nat /\ r.statusCode \in 100..599 /\ r.queryParam \in Texts
        /\ r.start \in Times /\ r.end \in Times
    BY RequestsAssumption
  <2>2. \A t \in Times : getTimeParam(t, now) \in Int
    BY <1>1 DEF Times, Zero, getTimeParam
  <2>3. Proxied(query(r, now)) /\ Proxied(query_range(r, now))
    BY <2>1, <2>2 DEF query, query_range, Proxied, Zero
  <2>4. \A q \in {query(r, now)} : Proxied(q)
    BY <2>3
  <2>5. \A q \in {query_range(r, now)} : Proxied(q)
    BY <2>3
  <2> QED
    BY <1>2, <2>4, <2>5, HandoverValues DEF Query, QueryRange
<1>3. ASSUME NEW qs \in Pushes, QueryPush(qs)
      PROVE  QueryValues'
  BY <1>1, <1>3, PushedValues, HandoverValues DEF QueryPush
<1>4. CASE pending' \cup history' \subseteq pending \cup history
  BY <1>4 DEF QueryValues
<1>5. CASE InsertQueries \/ InsertFails
  BY <1>5, <1>4 DEF InsertQueries, InsertFails
<1>6. CASE UNCHANGED <<pending, history>>
  BY <1>4, <1>6
<1> QED
  BY <1>2, <1>3, <1>5, <1>6
     DEF Next, vars, InsertRulesUsage, InsertDashboardUsage, UpsertMetricsCatalog,
         UpsertMetricsJobIndex, Refresh, Retention, Tick

LEMMA DashboardValuesNext == StoreInv /\ DashboardValues /\ [Next]_vars => DashboardValues'
<1> SUFFICES ASSUME StoreInv, DashboardValues, [Next]_vars PROVE DashboardValues'
  OBVIOUS
<1>1. ASSUME NEW d \in DashboardItems, InsertDashboardUsage({d}) PROVE DashboardValues'
  <2> DEFINE key == <<d.id, d.serie>>
  <2>1. now \in Instants /\ d.name \in DashboardNames
    BY DEF StoreInv, DashboardNames
  <2> DEFINE keys == {<<e.id, e.serie>> : e \in {d}}
  <2> DEFINE Item(k) == CHOOSE e \in {d} : <<e.id, e.serie>> = k
  <2>2. keys = {key} /\ Item(key) = d
    OBVIOUS
  <2> DEFINE F == [k \in DOMAIN dashboards \cup keys |->
          CASE k \in keys /\ k \in DOMAIN dashboards ->
                 [dashboards[k] EXCEPT !.last = now, !.name = Item(k).name]
            [] k \in keys /\ k \notin DOMAIN dashboards ->
                 [first |-> now, last |-> now, name |-> Item(k).name]
            [] OTHER -> dashboards[k]]
  <2>3. SQ!InsertDashboardUsage(dashboards, {d}, now) = F
    BY DEF SQ!InsertDashboardUsage
  <2>4. PG!InsertDashboardUsage(dashboards, {d}, now) = F
    BY DEF PG!InsertDashboardUsage
  <2> HIDE DEF key, keys, Item
  <2>5. /\ DOMAIN F = DOMAIN dashboards \cup {key}
        /\ key \in DOMAIN dashboards =>
             F[key] = [dashboards[key] EXCEPT !.last = now, !.name = d.name]
        /\ key \notin DOMAIN dashboards =>
             F[key] = [first |-> now, last |-> now, name |-> d.name]
        /\ \A k \in DOMAIN dashboards : k # key => F[k] = dashboards[k]
    BY <2>2
  <2> HIDE DEF F
  <2>6. ASSUME NEW k \in DOMAIN F PROVE F[k] \in DashboardRow
    <3>1. CASE k = key /\ k \in DOMAIN dashboards
      <4>1. dashboards[k] \in DashboardRow
        BY <3>1 DEF DashboardValues
      <4> QED
        BY <2>1, <2>5, <3>1, <4>1 DEF DashboardRow
    <3>2. CASE k = key /\ k \notin DOMAIN dashboards
      BY <2>1, <2>5, <3>2 DEF DashboardRow
    <3>3. CASE k # key
      BY <2>5, <2>6, <3>3 DEF DashboardValues
    <3> QED
      BY <3>1, <3>2, <3>3
  <2>7. dashboards' = F
    BY <1>1, <2>3, <2>4 DEF InsertDashboardUsage
  <2> QED
    BY <2>6, <2>7 DEF DashboardValues, DashboardRow, DashboardNames
<1>2. CASE UNCHANGED dashboards
  BY <1>2 DEF DashboardValues, DashboardRow, DashboardNames
<1> QED
  BY <1>1, <1>2
     DEF Next, vars, Query, QueryRange, QueryPush, Ingest, InsertQueries, InsertFails,
         InsertRulesUsage, UpsertMetricsCatalog, UpsertMetricsJobIndex, Refresh, Retention, Tick

ReaderInv == SummaryInv /\ QueryValues /\ DashboardValues
LEMMA ReaderInvariant == Spec => []ReaderInv
<1>1. Init => QueryValues /\ DashboardValues
  BY DEF Init, QueryValues, DashboardValues
<1>2. SummaryInv /\ QueryValues /\ [Next]_vars => QueryValues'
  BY QueryValuesNext DEF SummaryInv
<1>3. SummaryInv /\ DashboardValues /\ [Next]_vars => DashboardValues'
  BY DashboardValuesNext DEF SummaryInv
<1> QED
  BY <1>1, <1>2, <1>3, SummaryInvariant, PTL DEF Spec, ReaderInv

(***************************************************************************)
(* Listings.                                                               *)
(***************************************************************************)
(* The answers ans[i] to requests for page i of one of several orders of    *)
(* as many rows.                                                            *)
IsListing(ans) ==
  \E rows, order, size :
    /\ Keyed(rows, order) /\ size \in Nat \ {0}
    /\ Gives(ans, rows, order, size, Nat \ {0})
    /\ \A a \in ans[1] : /\ a.total = Cardinality(rows)
                         /\ a.totalPages = (Cardinality(rows) + size - 1) \div size

LEMMA ListingIsPartitioned ==
  ASSUME NEW ans, IsListing(ans), NEW first, first = CHOOSE a \in ans[1] : TRUE,
         NEW T, T = first.totalPages
  PROVE  /\ T \in Nat
         /\ OneAnswerEach(Turned(ans, T)) => SeesEveryRowOnce(Turned(ans, T), T, first.total)
<1>1. PICK rows, order, size :
        /\ Keyed(rows, order) /\ size \in Nat \ {0}
        /\ Gives(ans, rows, order, size, Nat \ {0})
        /\ \A a \in ans[1] : /\ a.total = Cardinality(rows)
                             /\ a.totalPages = (Cardinality(rows) + size - 1) \div size
  BY DEF IsListing
<1>2. first \in ans[1]
  <2>1. 1 \in Nat \ {0} /\ size \in Nat
    BY <1>1
  <2>2. PICK P : P \in Pages(rows, order, PageAt(1, size))
    BY <1>1, <2>1, PageExists
  <2>3. \E a \in ans[1] : TRUE
    BY <1>1, <2>1, <2>2 DEF Gives
  <2> QED
    BY <2>3
<1>3. T = (Cardinality(rows) + size - 1) \div size /\ first.total = Cardinality(rows)
  BY <1>1, <1>2
<1>4. T \in Nat /\ Gives(ans, rows, order, size, 1..(T + 1))
  <2>1. Cardinality(rows) \in Nat
    BY <1>1, FS_CardinalityType DEF Keyed
  <2>2. T \in Nat
    BY <1>1, <1>3, <2>1, PagesNeeded
  <2>3. \A i \in 1..(T + 1) : i \in Nat \ {0}
    BY <2>2
  <2> QED
    BY <1>1, <2>2, <2>3 DEF Gives
<1>5. OneAnswerEach(Turned(ans, T)) => SeesEveryRowOnce(Turned(ans, T), T, Cardinality(rows))
  BY <1>1, <1>3, <1>4, PagesTurned
<1> QED
  BY <1>3, <1>4, <1>5

(* A listing whose total is read from its rows. *)
RowsPages(C, order, page) == UNION {PagedByRows(rows, order, page) : rows \in C}
LEMMA RowsListing ==
  ASSUME NEW C, C # {}, NEW order, NEW size \in Nat \ {0}, NEW N,
         \A rows \in C : Keyed(rows, order) /\ Cardinality(rows) = N,
         NEW ans, \A i \in Nat \ {0} : ans[i] = RowsPages(C, order, PageAt(i, size))
  PROVE  IsListing(ans)
<1> DEFINE A(rows, P, s) == LET total == IF P = {} THEN 0 ELSE Cardinality(rows)
                            IN  [total |-> total, totalPages |-> CalculateTotalPages(total, s),
                                 data |-> P]
<1>1. \A rows, page : PagedByRows(rows, order, page)
                        = {A(rows, P, page.size) : P \in Pages(rows, order, page)}
  BY DEF PagedByRows
<1>2. \A rows, P, s : A(rows, P, s).data = P
  OBVIOUS
<1>3. PICK rows \in C : TRUE
  OBVIOUS
<1>4. ASSUME NEW i \in Nat \ {0}, NEW P \in Pages(rows, order, PageAt(i, size))
      PROVE  \E a \in ans[i] : a.data = P
  <2>1. A(rows, P, PageAt(i, size).size) \in PagedByRows(rows, order, PageAt(i, size))
    BY <1>1
  <2> HIDE DEF A
  <2>2. A(rows, P, PageAt(i, size).size) \in ans[i]
    BY <1>3, <2>1 DEF RowsPages
  <2> QED
    BY <1>2, <2>2
<1>5. ASSUME NEW a \in ans[1]
      PROVE  a.total = N /\ a.totalPages = (N + size - 1) \div size
  <2>1. PICK r \in C : a \in PagedByRows(r, order, PageAt(1, size))
    <3>1. 1 \in Nat \ {0}
      OBVIOUS
    <3> QED
      BY <1>5, <3>1 DEF RowsPages
  <2>2. PICK P \in Pages(r, order, PageAt(1, size)) : a = A(r, P, PageAt(1, size).size)
    BY <1>1, <2>1
  <2>3. PageAt(1, size).size = size /\ FirstPage(PageAt(1, size))
    BY DEF PageAt, FirstPage
  <2>4. IF P = {} THEN N = 0 ELSE Cardinality(r) = N
    <3>1. P = {} => r = {}
      BY <2>1, <2>3, FirstPageNotEmpty DEF Keyed
    <3> QED
      BY <2>1, <3>1, FS_EmptySet
  <2>5. a.total = N /\ a.totalPages = CalculateTotalPages(N, size)
    BY <2>2, <2>3, <2>4
  <2> QED
    BY <2>5 DEF CalculateTotalPages
<1>6. /\ Keyed(rows, order) /\ size \in Nat \ {0}
      /\ Gives(ans, rows, order, size, Nat \ {0})
      /\ \A a \in ans[1] : /\ a.total = Cardinality(rows)
                           /\ a.totalPages = (Cardinality(rows) + size - 1) \div size
  BY <1>3, <1>4, <1>5 DEF Gives
<1> QED
  BY <1>6, Zenon DEF IsListing

(* A listing that counts its rows in a statement of its own. *)
CountPages(N, C, order, page) == UNION {PagedByCount(N, rows, order, page) : rows \in C}
LEMMA CountListing ==
  ASSUME NEW C, C # {}, NEW order, NEW size \in Nat \ {0}, NEW N,
         \A rows \in C : Keyed(rows, order) /\ Cardinality(rows) = N,
         NEW ans, \A i \in Nat \ {0} : ans[i] = CountPages(N, C, order, PageAt(i, size))
  PROVE  IsListing(ans)
<1> DEFINE A(P, s) == [total |-> N, totalPages |-> (N + s - 1) \div s, data |-> P]
<1>1. \A rows, page : PagedByCount(N, rows, order, page)
                        = {A(P, page.size) : P \in Pages(rows, order, page)}
  BY DEF PagedByCount
<1>2. \A P, s : A(P, s).data = P /\ A(P, s).total = N /\ A(P, s).totalPages = (N + s - 1) \div s
  OBVIOUS
<1> HIDE DEF A
<1>3. PICK rows \in C : TRUE
  OBVIOUS
<1>4. ASSUME NEW i \in Nat \ {0}, NEW P \in Pages(rows, order, PageAt(i, size))
      PROVE  \E a \in ans[i] : a.data = P
  <2>1. A(P, PageAt(i, size).size) \in PagedByCount(N, rows, order, PageAt(i, size))
    BY <1>1
  <2>2. A(P, PageAt(i, size).size) \in ans[i]
    BY <1>3, <2>1 DEF CountPages
  <2> QED
    BY <1>2, <2>2
<1>5. ASSUME NEW a \in ans[1]
      PROVE  a.total = N /\ a.totalPages = (N + size - 1) \div size
  <2>1. PICK r \in C : a \in PagedByCount(N, r, order, PageAt(1, size))
    <3>1. 1 \in Nat \ {0}
      OBVIOUS
    <3> QED
      BY <1>5, <3>1 DEF CountPages
  <2>2. PICK P : a = A(P, PageAt(1, size).size)
    BY <1>1, <2>1
  <2>3. PageAt(1, size).size = size
    BY DEF PageAt
  <2> QED
    BY <1>2, <2>2, <2>3
<1>6. /\ Keyed(rows, order) /\ size \in Nat \ {0}
      /\ Gives(ans, rows, order, size, Nat \ {0})
      /\ \A a \in ans[1] : /\ a.total = Cardinality(rows)
                           /\ a.totalPages = (Cardinality(rows) + size - 1) \div size
  BY <1>3, <1>4, <1>5 DEF Gives
<1> QED
  BY <1>6, Zenon DEF IsListing

(* A listing of one set of rows. *)
LEMMA OneSetOfRows ==
  ASSUME NEW rows, NEW order, Keyed(rows, order), NEW size \in Nat \ {0}, NEW ans,
         \A i \in Nat \ {0} : ans[i] = PagedByRows(rows, order, PageAt(i, size))
  PROVE  IsListing(ans)
<1> DEFINE C == {rows}
<1> DEFINE N == Cardinality(rows)
<1>1. \A i \in Nat \ {0} : ans[i] = RowsPages(C, order, PageAt(i, size))
  BY Zenon DEF RowsPages
<1>2. C # {} /\ \A v \in C : Keyed(v, order) /\ Cardinality(v) = N
  OBVIOUS
<1> HIDE DEF C, N
<1> QED
  BY <1>1, <1>2, RowsListing

LEMMA OneSetCounted ==
  ASSUME NEW rows, NEW order, Keyed(rows, order), NEW size \in Nat \ {0},
         NEW N, Cardinality(rows) = N, NEW ans,
         \A i \in Nat \ {0} : ans[i] = PagedByCount(N, rows, order, PageAt(i, size))
  PROVE  IsListing(ans)
<1> DEFINE C == {rows}
<1>1. \A i \in Nat \ {0} : ans[i] = CountPages(N, C, order, PageAt(i, size))
  BY Zenon DEF CountPages
<1>2. C # {} /\ \A v \in C : Keyed(v, order) /\ Cardinality(v) = N
  OBVIOUS
<1> HIDE DEF C
<1> QED
  BY <1>1, <1>2, CountListing

(***************************************************************************)
(* The listings of the API.                                                *)
(***************************************************************************)
LEMMA ImageSize ==
  ASSUME NEW S, IsFiniteSet(S), NEW F, \A x, y \in S : F[x] = F[y] => x = y
  PROVE  IsFiniteSet({F[x] : x \in S}) /\ Cardinality({F[x] : x \in S}) = Cardinality(S)
<1> DEFINE T == {F[x] : x \in S}
<1> DEFINE f == [x \in S |-> F[x]]
<1>1. f \in Injection(S, T)
  BY DEF Injection, IsInjective
<1>2. f \in Surjection(S, T)
  BY DEF Surjection
<1> HIDE DEF T, f
<1>3. IsFiniteSet(T) /\ Cardinality(T) = Cardinality(S)
  BY <1>1, <1>2, FS_Bijection DEF ExistsBijection, Bijection
<1> QED
  BY <1>3 DEF T

LEMMA ImageFinite ==
  ASSUME NEW S, IsFiniteSet(S), NEW F
  PROVE  IsFiniteSet({F[x] : x \in S})
<1> DEFINE T == {F[x] : x \in S}
<1> DEFINE f == [x \in S |-> F[x]]
<1>1. f \in Surjection(S, T)
  BY DEF Surjection
<1> HIDE DEF T, f
<1>2. IsFiniteSet(T)
  BY <1>1, FS_Surjection
<1> QED
  BY <1>2 DEF T

(* What the handlers make of a request for page i of size rows. *)
Bounded(size) == IF size > MaxPageSize THEN MaxPageSize ELSE size
Absent(text) == text = ""
AnyType(wanted) == \A type : wanted \in {"", type}
LEMMA PagedParameters ==
  ASSUME NEW tr, IsWindow(tr), NEW i \in Nat \ {0}, NEW size \in Nat \ {0}, NEW r,
         r.from = tr.from, r.to = tr.to, r.page = i, r.pageSize = size, NEW k
  PROVE  LET p == Listing(r, now, k)
         IN  /\ ~IsBad(r) /\ TimeRange(r, now) = tr
             /\ SQ!SetDefaultTimeRange(tr, now) = tr /\ PG!SetDefaultTimeRange(tr, now) = tr
             /\ p.timeRange = tr /\ p.sortBy = r.sortBy /\ p.sortOrder = r.sortOrder
             /\ p.filter = r.filter /\ p.serie = r.name /\ p.serieName = r.name
             /\ p.kind = r.kind /\ p.fingerprint = r.fingerprint /\ (Absent(r.type) => AnyType(p.type))
             /\ ValidatePagination(p.page, p.pageSize, 10) = PageAt(i, Bounded(size))
             /\ DefaultPagination(p.page, p.pageSize) = PageAt(i, size)
             /\ Bounded(size) \in Nat \ {0}
<1>1. tr.from \in Nat /\ tr.to \in Nat /\ tr = [from |-> tr.from, to |-> tr.to]
  BY DEF IsWindow
<1>2. ~IsBad(r)
  BY SMT DEF IsBad, Bad
<1>3. TimeRange(r, now) = tr
  BY <1>1, SMT DEF TimeRange, getTimeParam, Zero
<1>4. SQ!SetDefaultTimeRange(tr, now) = tr /\ PG!SetDefaultTimeRange(tr, now) = tr
  BY Parameters
<1> DEFINE p == Listing(r, now, k)
<1>5. p.page = getQueryParamAsInt(r.page, 1) /\ p.pageSize = getQueryParamAsInt(r.pageSize, k)
  BY DEF Listing
<1>6. p.page = i /\ p.pageSize = size
  BY <1>5, SMT DEF getQueryParamAsInt, Missing
<1>7. /\ p.timeRange = TimeRange(r, now) /\ p.sortBy = r.sortBy /\ p.sortOrder = r.sortOrder
      /\ p.filter = r.filter /\ p.serie = r.name /\ p.serieName = r.name /\ p.kind = r.kind
      /\ p.fingerprint = r.fingerprint /\ (Absent(r.type) => AnyType(p.type))
  BY DEF Listing, Absent, AnyType
<1>8. ValidatePagination(i, size, 10) = PageAt(i, Bounded(size))
      /\ DefaultPagination(i, size) = PageAt(i, size) /\ Bounded(size) \in Nat \ {0}
  BY DEF ValidatePagination, DefaultPagination, PageAt, Bounded, MaxPageSize
<1> HIDE DEF p
<1>9. /\ ~IsBad(r) /\ TimeRange(r, now) = tr
      /\ SQ!SetDefaultTimeRange(tr, now) = tr /\ PG!SetDefaultTimeRange(tr, now) = tr
      /\ p.timeRange = tr /\ p.sortBy = r.sortBy /\ p.sortOrder = r.sortOrder
      /\ p.filter = r.filter /\ p.serie = r.name /\ p.serieName = r.name
      /\ p.kind = r.kind /\ p.fingerprint = r.fingerprint /\ (Absent(r.type) => AnyType(p.type))
      /\ ValidatePagination(p.page, p.pageSize, 10) = PageAt(i, Bounded(size))
      /\ DefaultPagination(p.page, p.pageSize) = PageAt(i, size)
      /\ Bounded(size) \in Nat \ {0}
  BY <1>2, <1>3, <1>4, <1>6, <1>7, <1>8
<1> QED
  BY <1>9 DEF p

(* Orders by a column of numbers, and by one of texts. *)
NumberOrder(column) == [by |-> column, dir |-> "desc", collated |-> FALSE]
TextOrder(column) == [by |-> column, dir |-> "desc", collated |-> Collated /\ column \in TextColumns]
Text(v) == v \in Nat /\ Collation[v] \in Int
LEMMA CollatedValue ==
  (conf.provider = "sqlite" => Collated = FALSE) /\ (conf.provider # "sqlite" => Collated = TRUE)
  BY DEF Collated

LEMMA NumberOrders ==
  ASSUME NEW column
  PROVE  /\ OrderBy([by |-> column, dir |-> "desc"], FALSE) = NumberOrder(column)
         /\ \A r : Place(NumberOrder(column), r) = r[column]
         /\ \A r, s : Precedes(NumberOrder(column), r, s) <=> r[column] > s[column]
  BY DEF OrderBy, NumberOrder, Place, Precedes

LEMMA TextOrders ==
  ASSUME NEW column
  PROVE  /\ OrderBy([by |-> column, dir |-> "desc"], Collated) = TextOrder(column)
         /\ \A r : Text(r[column]) => Place(TextOrder(column), r) \in Int
  BY DEF OrderBy, TextOrder, Place, Text

LEMMA DefaultOrder ==
  (CASE "" = "asc" -> "asc" [] "" \in {"", "desc"} -> "desc" [] OTHER -> "none") = "desc"
  BY Zenon

PageOf(tr, i, size) == [Ask(tr) EXCEPT !.page = i, !.pageSize = size]
CatalogRequest(tr, i, size) == [PageOf(tr, i, size) EXCEPT !.type = "all", !.sortBy = "name"]
CatalogAnswers(tr, i, size) == seriesMetadata(conf.provider, db, CatalogRequest(tr, i, size))
LEMMA CatalogListing ==
  ASSUME ReaderInv, NEW tr, NEW size \in Nat \ {0}, NEW ans,
         \A i \in Nat \ {0} : ans[i] = CatalogAnswers(tr, i, size)
  PROVE  IsListing(ans)
<1> DEFINE F == [n \in DOMAIN catalog |-> MetricMetadata(db, n)]
<1> DEFINE rows == {F[n] : n \in DOMAIN catalog}
<1> DEFINE order == TextOrder("name")
<1>1. IsFiniteSet(DOMAIN catalog) /\ \A n \in DOMAIN catalog : Text(n)
  BY MetricsAssumption, CollationAssumption, FS_Subset
     DEF ReaderInv, SummaryInv, TableTypes, CatalogTypes, Text
<1>2. \A n \in DOMAIN catalog : F[n].name = n
  BY DEF MetricMetadata
<1>3. IsFiniteSet(rows)
  <2> HIDE DEF F
  <2> QED
    BY <1>1, ImageFinite
<1>4. Keyed(rows, order)
  <2> HIDE DEF F
  <2>1. \A m \in rows : Text(m["name"])
    BY <1>1, <1>2
  <2> QED
    BY <1>3, <2>1, TextOrders DEF Keyed
<1>5. ASSUME NEW i \in Nat \ {0}
      PROVE  ans[i] = PagedByCount(Cardinality(rows), rows, order, PageAt(i, Bounded(size)))
  <2> DEFINE r == CatalogRequest(tr, i, size)
  <2>1. /\ r.page = i /\ r.pageSize = size /\ r.sortBy = "name" /\ r.sortOrder = ""
        /\ r.filter = {} /\ r.type = "all" /\ r.job = Any /\ r.usage = "" /\ r.unused = FALSE
    BY DEF CatalogRequest, PageOf, Ask
  <2>2. ans[i] = seriesMetadata(conf.provider, db, r)
    BY DEF CatalogAnswers
  <2> HIDE DEF r
  <2> DEFINE params ==
        [page |-> i, pageSize |-> Bounded(size), sortBy |-> "name", sortOrder |-> "",
         filter |-> {}, type |-> "all", job |-> Any, usage |-> "all"]
  <2>3. ans[i] = CatalogPages(db, params, Collated)
    <3>1. r.page \notin {Missing, Bad} /\ r.pageSize \notin {Missing, Bad}
      <4>1. r.page = i /\ r.pageSize = size
        BY <2>1
      <4> QED
        BY <4>1, SMT DEF Missing, Bad
    <3>2. (IF size < 1 THEN 1 ELSE IF size > MaxPageSize THEN MaxPageSize ELSE size) = Bounded(size)
      BY SMT DEF Bounded
    <3>3. (CASE r.usage \in {"all", "used", "unused"} -> r.usage
             [] r.usage = "" /\ r.unused -> "unused"
             [] OTHER -> "all") = "all"
      BY <2>1, Zenon
    <3>4. seriesMetadata(conf.provider, db, r)
            = IF conf.provider = "sqlite" THEN SQ!GetSeriesMetadata(db, params)
                                          ELSE PG!GetSeriesMetadata(db, params)
      BY <2>1, <3>1, <3>2, <3>3, Zenon DEF seriesMetadata
    <3> QED
      BY <2>2, <3>4, SameCatalogPages, Zenon
         DEF SQ!GetSeriesMetadata, PG!GetSeriesMetadata, Collated
  <2>4. CatalogRows(db, params) = rows
    <3>1. \A m : HasUsage(m, NormalizeSeriesMetadataUsage("all")) /\ HasType(m.type, "all")
                 /\ Like({}, m.name) /\ RunsIn(db, m.name, Any)
      BY DEF HasUsage, NormalizeSeriesMetadataUsage, HasType, Like, RunsIn
    <3>2. db.catalog = catalog
      BY DEF db
    <3>3. {MetricMetadata(db, n) : n \in DOMAIN db.catalog} = rows
      BY <3>2
    <3> HIDE DEF rows
    <3> QED
      BY <3>1, <3>3, Zenon DEF CatalogRows
  <2>5. DefaultPagination(i, Bounded(size)) = PageAt(i, Bounded(size))
    BY SMT DEF DefaultPagination, PageAt, Bounded, MaxPageSize
  <2>6. ValidateSortField("name", "", {"name", "alertCount", "recordCount", "dashboardCount",
                                       "queryCount"}, "queryCount")
          = [by |-> "name", dir |-> "desc"]
    BY Zenon DEF ValidateSortField
  <2>7. OrderBy([by |-> "name", dir |-> "desc"], Collated) = order
    BY TextOrders
  <2> HIDE DEF rows, order
  <2> QED
    BY <2>3, <2>4, <2>5, <2>6, <2>7, Zenon DEF CatalogPages
<1> DEFINE N == Cardinality(rows)
<1>6. Bounded(size) \in Nat \ {0} /\ Cardinality(rows) = N
  BY SMT DEF Bounded, MaxPageSize
<1> HIDE DEF rows, order, N
<1> QED
  BY <1>4, <1>5, <1>6, OneSetCounted

(* Some query of every fingerprint is a latest one, and its text is shown. *)
LatestOf(rows, f) ==
  {q.queryParam : q \in {q \in rows : q.fingerprint = f /\
                           \A r \in rows : r.fingerprint = f => r.ts <= q.ts}}
LEMMA LatestTextsExist ==
  ASSUME NEW rows, IsFiniteSet(rows), \A q \in rows : q.ts \in Nat
  PROVE  LatestTexts(rows) # {}
<1> DEFINE texts == {q.queryParam : q \in rows}
<1>1. ASSUME NEW f \in Prints(rows) PROVE \E t \in texts : t \in LatestOf(rows, f)
  <2> DEFINE group == {q \in rows : q.fingerprint = f}
  <2> DEFINE order == NumberOrder("ts")
  <2>1. /\ \A r : Place(order, r) = r["ts"]
        /\ \A r, s : Precedes(order, r, s) <=> r["ts"] > s["ts"]
    BY NumberOrders
  <2>2. IsFiniteSet(group) /\ group # {}
    <3>1. group \in SUBSET rows /\ group # {}
      BY DEF Prints
    <3> QED
      BY <3>1, FS_Subset
  <2>3. Keyed(group, order)
    BY <2>1, <2>2 DEF Keyed
  <2> HIDE DEF order
  <2>4. PICK m \in group : \A s \in group : ~Precedes(order, s, m)
    <3> HIDE DEF group
    <3> QED
      BY <2>2, <2>3, RowThatComesFirst
  <2>5. \A s \in group : s.ts <= m.ts
    BY <2>1, <2>4
  <2> QED
    BY <2>4, <2>5 DEF LatestOf
<1> DEFINE c == [f \in Prints(rows) |-> CHOOSE t \in texts : t \in LatestOf(rows, f)]
<1>2. c \in [Prints(rows) -> texts] /\ \A f \in Prints(rows) : c[f] \in LatestOf(rows, f)
  BY <1>1
<1> HIDE DEF c
<1>3. c \in LatestTexts(rows)
  BY <1>2, Zenon DEF LatestTexts, LatestOf
<1> QED
  BY <1>3

LEMMA ExpressionCellsCount ==
  ASSUME NEW rows, IsFiniteSet(rows), \A q \in rows : Text(q.queryParam),
         NEW c \in LatestTexts(rows)
  PROVE  /\ Keyed(ExpressionCells(rows, c), TextOrder("query"))
         /\ Cardinality(ExpressionCells(rows, c)) = Cardinality(Prints(rows))
<1> DEFINE F == [f \in Prints(rows) |-> ExpressionRow(rows, f, c[f])]
<1> DEFINE G == [q \in rows |-> q.fingerprint]
<1>1. IsFiniteSet(Prints(rows))
  <2>1. Prints(rows) = {G[q] : q \in rows}
    BY DEF Prints
  <2> HIDE DEF G
  <2> QED
    BY <2>1, ImageFinite
<1>2. \A f \in Prints(rows) : F[f].fingerprint = f /\ F[f]["query"] = c[f]
  BY DEF ExpressionRow
<1>3. \A f \in Prints(rows) : Text(c[f])
  BY DEF LatestTexts
<1>4. ExpressionCells(rows, c) = {F[f] : f \in Prints(rows)}
  BY DEF ExpressionCells
<1> HIDE DEF F
<1>5. \A f, g \in Prints(rows) : F[f] = F[g] => f = g
  BY <1>2
<1>6. /\ IsFiniteSet({F[f] : f \in Prints(rows)})
      /\ Cardinality({F[f] : f \in Prints(rows)}) = Cardinality(Prints(rows))
  BY <1>1, <1>5, ImageSize
<1>7. \A m \in {F[f] : f \in Prints(rows)} : Text(m["query"])
  BY <1>2, <1>3
<1> QED
  BY <1>4, <1>6, <1>7, TextOrders DEF Keyed

ExpressionsRequest(tr, i, size) == [PageOf(tr, i, size) EXCEPT !.sortBy = "query"]
ExpressionsAnswers(tr, i, size) ==
  queryExpressions(conf.provider, db, ExpressionsRequest(tr, i, size), now)
CountedIn(tr) == {q \in queries : Counted(q, tr)}
LEMMA StoredQueries ==
  ASSUME ReaderInv
  PROVE  /\ IsFiniteSet(queries)
         /\ \A q \in queries : /\ q.ts \in Nat /\ Text(q.queryParam) /\ Stored(q)
                               /\ q.labelMatchers \in Seq(Nat)
<1>1. IsFiniteSet(queries)
  BY FS_Subset DEF ReaderInv, SummaryInv, StoreInv
<1>2. queries \subseteq history
  BY DEF ReaderInv, SummaryInv, StoreInv
<1> QED
  BY <1>1, <1>2, TextsAssumption, CollationAssumption
     DEF ReaderInv, SummaryInv, StoreInv, TableTypes, QueryTypes, QueryValues, MatcherTypes, Timed, Text

LEMMA ExpressionsListing ==
  ASSUME ReaderInv, NEW tr, IsWindow(tr), NEW size \in Nat \ {0}, NEW ans,
         \A i \in Nat \ {0} : ans[i] = ExpressionsAnswers(tr, i, size)
  PROVE  IsListing(ans)
<1> DEFINE rows == CountedIn(tr)
<1> DEFINE order == TextOrder("query")
<1> DEFINE C == {ExpressionCells(rows, c) : c \in LatestTexts(rows)}
<1> DEFINE N == Cardinality(Prints(rows))
<1>1. IsFiniteSet(rows) /\ \A q \in rows : q.ts \in Nat /\ Text(q.queryParam)
  <2>1. rows \in SUBSET queries
    BY DEF CountedIn
  <2> QED
    BY <2>1, StoredQueries, FS_Subset
<1>2. ASSUME NEW i \in Nat \ {0}
      PROVE  ans[i] = RowsPages(C, order, PageAt(i, size))
  <2> DEFINE r == ExpressionsRequest(tr, i, size)
  <2> DEFINE p == Listing(r, now, 10)
  <2>1. /\ r.from = tr.from /\ r.to = tr.to /\ r.page = i /\ r.pageSize = size
        /\ r.sortBy = "query" /\ r.sortOrder = "" /\ r.filter = {}
    BY DEF ExpressionsRequest, PageOf, Ask
  <2>2. ans[i] = queryExpressions(conf.provider, db, r, now)
    BY DEF ExpressionsAnswers
  <2> HIDE DEF r
  <2>3. /\ ~IsBad(r) /\ p.timeRange = tr /\ p.sortBy = r.sortBy /\ p.sortOrder = r.sortOrder
        /\ p.filter = r.filter /\ DefaultPagination(p.page, p.pageSize) = PageAt(i, size)
    <3>1. r.from = tr.from /\ r.to = tr.to /\ r.page = i /\ r.pageSize = size
      BY <2>1
    <3> QED
      BY <3>1, PagedParameters
  <2> HIDE DEF p
  <2>4. ExpressionOrder(p, Collated) = order
    <3>1. ValidateSortField(p.sortBy, p.sortOrder,
            {"query", "executions", "avgDuration", "errorRatePercent", "peakSamples"}, "executions")
              = [by |-> "query", dir |-> "desc"]
      BY <2>1, <2>3, Zenon DEF ValidateSortField
    <3> QED
      BY <3>1, TextOrders, Zenon DEF ExpressionOrder
  <2>5. \A v : SQ!Like({}, v) /\ PG!Like({}, v)
    BY DEF SQ!Like, PG!Like
  <2>6. queryExpressions(conf.provider, db, r, now) = ExpressionListing(rows, p, Collated)
    <3>1. db.queries = queries
      BY DEF db
    <3>2. CASE conf.provider = "sqlite"
      <4>1. rows = {q \in db.queries : SQ!TsBetween(q, p.timeRange) /\ SQ!Like(p.filter, q.queryParam)}
        BY <2>1, <2>3, <2>5, <3>1, <3>2, Zenon DEF CountedIn, Counted
      <4>2. SQ!GetQueryExpressions(db, p) = SQ!ExpressionPages(rows, p, FALSE)
        BY <4>1, Zenon DEF SQ!GetQueryExpressions
      <4> HIDE DEF rows
      <4> QED
        BY <2>3, <3>2, <4>2, SameExpressionPages, CollatedValue, Zenon DEF queryExpressions, p
    <3>3. CASE conf.provider # "sqlite"
      <4>1. rows = {q \in db.queries : PG!TsBetween(q, p.timeRange) /\ PG!Like(p.filter, q.queryParam)}
        BY <2>1, <2>3, <2>5, <3>1, <3>3, Zenon DEF CountedIn, Counted
      <4>2. PG!GetQueryExpressions(db, p) = PG!ExpressionPages(rows, p, TRUE)
        BY <4>1, Zenon DEF PG!GetQueryExpressions
      <4> HIDE DEF rows
      <4> QED
        BY <2>3, <3>3, <4>2, SameExpressionPages, CollatedValue, Zenon DEF queryExpressions, p
    <3> QED
      BY <3>2, <3>3
  <2> HIDE DEF rows, order
  <2>7. ExpressionListing(rows, p, Collated) = RowsPages(C, order, PageAt(i, size))
    BY <2>3, <2>4 DEF ExpressionListing, RowsPages
  <2> QED
    BY <2>2, <2>6, <2>7, Zenon
<1> HIDE DEF rows
<1>3. C # {}
  BY <1>1, LatestTextsExist
<1>4. \A v \in C : Keyed(v, order) /\ Cardinality(v) = N
  BY <1>1, ExpressionCellsCount
<1> HIDE DEF C, N, order
<1> QED
  BY <1>2, <1>3, <1>4, RowsListing

ExecutionsRequest(f, tr, i, size) == [PageOf(tr, i, size) EXCEPT !.fingerprint = f]
ExecutionsAnswers(f, tr, i, size) ==
  queryExecutions(conf.provider, db, ExecutionsRequest(f, tr, i, size), now)
ExecutedIn(q, tr) == IF conf.provider = "sqlite" THEN SQ!JulianBetween(q, tr)
                                                 ELSE PG!TsBetween(q, tr)
ExecutionTime(q) == IF conf.provider = "sqlite" THEN WholeSecond(q.ts) ELSE q.ts
LEMMA ExecutionsListing ==
  ASSUME ReaderInv, NEW tr, IsWindow(tr), NEW size \in Nat \ {0}, NEW f, f # Any, NEW ans,
         \A i \in Nat \ {0} : ans[i] = ExecutionsAnswers(f, tr, i, size)
  PROVE  IsListing(ans)
<1> DEFINE rows == {q \in queries : ExecutedIn(q, tr) /\ q.fingerprint = f}
<1> DEFINE time == [q \in rows |-> ExecutionTime(q)]
<1> DEFINE F == [q \in rows |-> ExecutionRow(q, time[q])]
<1> DEFINE cells == {ExecutionRow(q, time[q]) : q \in rows}
<1> DEFINE order == NumberOrder("ts")
<1>1. IsFiniteSet(rows) /\ \A q \in rows : q.ts \in Nat
  <2>1. rows \in SUBSET queries
    OBVIOUS
  <2> QED
    BY <2>1, StoredQueries, FS_Subset
<1>2. \A m : Place(order, m) = m["ts"]
  BY NumberOrders
<1>3. Keyed(cells, order)
  <2>1. \A q \in rows : time[q] \in Int
    <3>1. ASSUME NEW q \in rows PROVE TruncTo(q.ts, Second) \in Int
      <4>1. q.ts \in Int /\ Second \in Nat \ {0}
        BY <1>1, SecondAssumption
      <4> QED
        BY <4>1, TruncBounds
    <3>2. \A q \in rows : ExecutionTime(q) \in Int
      <4> HIDE DEF rows
      <4> QED
        BY <1>1, <3>1 DEF ExecutionTime, WholeSecond
    <3> QED
      BY <3>2
  <2>2. \A q \in rows : F[q]["ts"] = time[q]
    BY DEF ExecutionRow
  <2>3. cells = {F[q] : q \in rows}
    OBVIOUS
  <2> HIDE DEF rows, time, F, cells, order
  <2>4. IsFiniteSet({F[q] : q \in rows})
    BY <1>1, ImageFinite
  <2>5. \A m \in {F[q] : q \in rows} : m["ts"] \in Int
    BY <2>1, <2>2
  <2> QED
    BY <1>2, <2>3, <2>4, <2>5 DEF Keyed
<1>4. ASSUME NEW i \in Nat \ {0}
      PROVE  ans[i] = PagedByRows(cells, order, PageAt(i, Bounded(size)))
  <2> DEFINE r == ExecutionsRequest(f, tr, i, size)
  <2> DEFINE p == Listing(r, now, 10)
  <2>1. /\ r.from = tr.from /\ r.to = tr.to /\ r.page = i /\ r.pageSize = size
        /\ r.sortBy = "" /\ r.sortOrder = "" /\ r.type = "" /\ r.fingerprint = f
    BY DEF ExecutionsRequest, PageOf, Ask
  <2>2. ans[i] = queryExecutions(conf.provider, db, r, now)
    BY DEF ExecutionsAnswers
  <2> HIDE DEF r
  <2>3. /\ ~IsBad(r) /\ p.timeRange = tr /\ p.sortBy = r.sortBy /\ p.sortOrder = r.sortOrder
        /\ p.fingerprint = r.fingerprint /\ (Absent(r.type) => AnyType(p.type))
        /\ ValidatePagination(p.page, p.pageSize, 10) = PageAt(i, Bounded(size))
    <3>1. r.from = tr.from /\ r.to = tr.to /\ r.page = i /\ r.pageSize = size
      BY <2>1
    <3> QED
      BY <3>1, PagedParameters
  <2> HIDE DEF p
  <2>4. \A q : p.type \in {"", q.type}
    BY <2>1, <2>3, Zenon DEF Absent, AnyType
  <2>5. ExecutionOrder(p) = order
    <3>1. ValidateSortField(p.sortBy, p.sortOrder, {"ts", "duration", "samples", "statusCode"}, "ts")
            = [by |-> "ts", dir |-> "desc"]
      BY <2>1, <2>3, Zenon DEF ValidateSortField
    <3> QED
      BY <3>1, NumberOrders, Zenon DEF ExecutionOrder
  <2>6. queryExecutions(conf.provider, db, r, now) = ExecutionListing(rows, p, time)
    <3>1. db.queries = queries /\ ~(r.fingerprint = Any \/ IsBad(r))
      BY <2>1, <2>3, Zenon DEF db
    <3>2. CASE conf.provider = "sqlite"
      <4> DEFINE S == {q \in db.queries : /\ SQ!JulianBetween(q, p.timeRange)
                                          /\ q.fingerprint = p.fingerprint
                                          /\ p.type \in {"", q.type}}
      <4>1. S = rows
        BY <2>1, <2>3, <2>4, <3>1, <3>2, Zenon DEF ExecutedIn
      <4>2. SQ!GetQueryExecutions(db, p) = SQ!ExecutionPages(S, p, LAMBDA q : SQ!WholeSecond(q.ts))
        BY DEF SQ!GetQueryExecutions
      <4>3. time = [q \in rows |-> WholeSecond(q.ts)]
        BY <3>2, Zenon DEF ExecutionTime
      <4>4. queryExecutions(conf.provider, db, r, now) = SQ!GetQueryExecutions(db, p)
        BY <3>1, <3>2, Zenon DEF queryExecutions, p
      <4> HIDE DEF rows, S, time
      <4>5. SQ!ExecutionPages(rows, p, LAMBDA q : SQ!WholeSecond(q.ts)) = ExecutionListing(rows, p, time)
        BY <4>3, SameExecutionPages
      <4> QED
        BY <4>1, <4>2, <4>4, <4>5
    <3>3. CASE conf.provider # "sqlite"
      <4> DEFINE S == {q \in db.queries : /\ PG!TsBetween(q, p.timeRange)
                                          /\ q.fingerprint = p.fingerprint
                                          /\ p.type \in {"", q.type}}
      <4>1. S = rows
        BY <2>1, <2>3, <2>4, <3>1, <3>3, Zenon DEF ExecutedIn
      <4>2. PG!GetQueryExecutions(db, p) = PG!ExecutionPages(S, p, LAMBDA q : q.ts)
        BY DEF PG!GetQueryExecutions
      <4>3. time = [q \in rows |-> q.ts]
        BY <3>3, Zenon DEF ExecutionTime
      <4>4. queryExecutions(conf.provider, db, r, now) = PG!GetQueryExecutions(db, p)
        BY <3>1, <3>3, Zenon DEF queryExecutions, p
      <4> HIDE DEF rows, S, time
      <4>5. PG!ExecutionPages(rows, p, LAMBDA q : q.ts) = ExecutionListing(rows, p, time)
        BY <4>3, SameExecutionPages
      <4> QED
        BY <4>1, <4>2, <4>4, <4>5
    <3> QED
      BY <3>2, <3>3
  <2>7. ExecutionListing(rows, p, time) = PagedByRows(cells, order, PageAt(i, Bounded(size)))
    <3> HIDE DEF rows, order, time
    <3> QED
      BY <2>3, <2>5, Zenon DEF ExecutionListing
  <2> HIDE DEF rows, order, time, cells
  <2> QED
    BY <2>2, <2>6, <2>7, Zenon
<1>5. Bounded(size) \in Nat \ {0}
  BY SMT DEF Bounded, MaxPageSize
<1> HIDE DEF rows, order, time, cells
<1> QED
  BY <1>3, <1>4, <1>5, OneSetOfRows

(* The queries that the listing of a metric's expressions reads. *)
ListedOf(n, tr) == {q \in queries : Listed(q, n, tr)}
SerieRequest(n, tr, i, size) == [PageOf(tr, i, size) EXCEPT !.name = n, !.sortBy = "queryParam"]
SerieAnswers(n, tr, i, size) ==
  serieExpressions(conf.provider, db, SerieRequest(n, tr, i, size), now)
LEMMA SerieExpressionsListing ==
  ASSUME ReaderInv, NEW tr, IsWindow(tr), NEW size \in Nat \ {0}, NEW n, NEW ans,
         \A i \in Nat \ {0} : ans[i] = SerieAnswers(n, tr, i, size)
  PROVE  IsListing(ans)
<1> DEFINE rows == ListedOf(n, tr)
<1> DEFINE texts == {q.queryParam : q \in rows}
<1> DEFINE F == [e \in texts |-> SerieRow(rows, e)]
<1> DEFINE cells == {SerieRow(rows, e) : e \in texts}
<1> DEFINE order == TextOrder("queryParam")
<1>1. IsFiniteSet(rows) /\ \A q \in rows : Text(q.queryParam)
  <2>1. rows \in SUBSET queries
    BY DEF ListedOf
  <2> QED
    BY <2>1, StoredQueries, FS_Subset
<1>2. \A m : Text(m["queryParam"]) => Place(order, m) \in Int
  BY TextOrders
<1>3. Keyed(cells, order)
  <2> DEFINE G == [q \in rows |-> q.queryParam]
  <2>1. texts = {G[q] : q \in rows}
    OBVIOUS
  <2>2. \A e \in texts : F[e]["queryParam"] = e /\ Text(e)
    BY <1>1 DEF SerieRow
  <2>3. cells = {F[e] : e \in texts}
    OBVIOUS
  <2> HIDE DEF rows, texts, F, G, cells, order
  <2>4. IsFiniteSet(texts)
    BY <1>1, <2>1, ImageFinite
  <2>5. IsFiniteSet({F[e] : e \in texts})
    BY <2>4, ImageFinite
  <2>6. \A m \in {F[e] : e \in texts} : Text(m["queryParam"])
    BY <2>2
  <2> QED
    BY <1>2, <2>3, <2>5, <2>6 DEF Keyed
<1>4. ASSUME NEW i \in Nat \ {0}
      PROVE  ans[i] = PagedByRows(cells, order, PageAt(i, Bounded(size)))
  <2> DEFINE r == SerieRequest(n, tr, i, size)
  <2> DEFINE p == Listing(r, now, 1)
  <2>1. /\ r.from = tr.from /\ r.to = tr.to /\ r.page = i /\ r.pageSize = size
        /\ r.sortBy = "queryParam" /\ r.sortOrder = "" /\ r.name = n /\ r.filter = {}
    BY DEF SerieRequest, PageOf, Ask
  <2>2. ans[i] = serieExpressions(conf.provider, db, r, now)
    BY DEF SerieAnswers
  <2> HIDE DEF r
  <2>3. /\ ~IsBad(r) /\ p.timeRange = tr /\ p.sortBy = r.sortBy /\ p.sortOrder = r.sortOrder
        /\ p.serieName = r.name /\ p.filter = r.filter
        /\ ValidatePagination(p.page, p.pageSize, 10) = PageAt(i, Bounded(size))
        /\ SQ!SetDefaultTimeRange(tr, now) = tr /\ PG!SetDefaultTimeRange(tr, now) = tr
    <3>1. r.from = tr.from /\ r.to = tr.to /\ r.page = i /\ r.pageSize = size
      BY <2>1
    <3> QED
      BY <3>1, PagedParameters
  <2> HIDE DEF p
  <2>4. SerieOrder(p, Collated) = order
    <3>1. ValidateSortField(p.sortBy, p.sortOrder,
            {"queryParam", "avgDuration", "avgPeakySamples", "maxPeakSamples"}, "avgDuration")
              = [by |-> "queryParam", dir |-> "desc"]
      BY <2>1, <2>3, Zenon DEF ValidateSortField
    <3> QED
      BY <3>1, TextOrders, Zenon DEF SerieOrder
  <2>5. \A v : SQ!Like({}, v) /\ PG!Like({}, v)
    BY DEF SQ!Like, PG!Like
  <2>6. serieExpressions(conf.provider, db, r, now) = SerieListing(rows, p, Collated)
    <3>1. db.queries = queries
      BY DEF db
    <3>2. CASE conf.provider = "sqlite"
      <4>1. rows = {q \in db.queries : /\ SQ!MetricMatches(q, p.serieName)
                                       /\ SQ!TsBetween(q, SQ!SetDefaultTimeRange(p.timeRange, now))
                                       /\ SQ!Like(p.filter, q.queryParam)}
        BY <2>1, <2>3, <2>5, <3>1, <3>2, Zenon DEF ListedOf, Listed
      <4>2. SQ!GetQueriesBySerieName(db, p, now) = SQ!SerieQueryPages(rows, p, FALSE)
        BY <4>1, Zenon DEF SQ!GetQueriesBySerieName
      <4> HIDE DEF rows
      <4> QED
        BY <2>3, <3>2, <4>2, SameSerieQueryPages, CollatedValue, Zenon DEF serieExpressions, p
    <3>3. CASE conf.provider # "sqlite"
      <4> DEFINE w == PG!SetDefaultTimeRange(p.timeRange, now)
      <4>1. rows = {q \in db.queries : /\ PG!MetricMatches(q, p.serieName)
                                       /\ w.from <= q.ts /\ q.ts <= w.to
                                       /\ PG!Like(p.filter, q.queryParam)}
        BY <2>1, <2>3, <2>5, <3>1, <3>3, Zenon DEF ListedOf, Listed
      <4>2. PG!GetQueriesBySerieName(db, p, now) = PG!SerieQueryPages(rows, p, TRUE)
        BY <4>1, Zenon DEF PG!GetQueriesBySerieName
      <4> HIDE DEF rows
      <4> QED
        BY <2>3, <3>3, <4>2, SameSerieQueryPages, CollatedValue, Zenon DEF serieExpressions, p
    <3> QED
      BY <3>2, <3>3
  <2>7. SerieListing(rows, p, Collated) = PagedByRows(cells, order, PageAt(i, Bounded(size)))
    <3> HIDE DEF rows, order
    <3> QED
      BY <2>3, <2>4, Zenon DEF SerieListing
  <2> HIDE DEF rows, order, cells
  <2> QED
    BY <2>2, <2>6, <2>7, Zenon
<1>5. Bounded(size) \in Nat \ {0}
  BY SMT DEF Bounded, MaxPageSize
<1> HIDE DEF rows, order, cells
<1> QED
  BY <1>3, <1>4, <1>5, OneSetOfRows

(* The rules of a metric: of the versions of one group and name, one seen   *)
(* last.                                                                    *)
KeysOf(S) == {RuleKey(r) : r \in S}
SeenLast(S, m) ==
  {r \in S : RuleKey(r) = m /\ \A s \in S : RuleKey(s) = m => rules[s].last <= rules[r].last}
RulePicks(S) == {f \in [KeysOf(S) -> S] : \A m \in KeysOf(S) : f[m] \in SeenLast(S, m)}
RuleRow(r) == [group_name |-> r.group_name, name |-> r.name, expression |-> r.expression,
               created_at |-> rules[r].first]
RuleCells(S, pick) == {RuleRow(pick[m]) : m \in KeysOf(S)}
TextsOf(S) == {Joined[m] : m \in KeysOf(S)}
JoinedApart(S) == \A l, m \in KeysOf(S) : Joined[l] = Joined[m] => l = m
LEMMA RulePicksExist ==
  ASSUME NEW S, IsFiniteSet(S), \A r \in S : rules[r].last \in Nat
  PROVE  RulePicks(S) # {}
<1>1. ASSUME NEW m \in KeysOf(S) PROVE \E r \in S : r \in SeenLast(S, m)
  <2> DEFINE group == {r \in S : RuleKey(r) = m}
  <2> DEFINE F == [r \in group |-> [rule |-> r, last |-> rules[r].last]]
  <2> DEFINE seen == {F[r] : r \in group}
  <2> DEFINE order == NumberOrder("last")
  <2>1. /\ \A r : Place(order, r) = r["last"]
        /\ \A r, s : Precedes(order, r, s) <=> r["last"] > s["last"]
    BY NumberOrders
  <2>2. IsFiniteSet(group) /\ group # {}
    <3>1. group \in SUBSET S /\ group # {}
      BY DEF KeysOf
    <3> QED
      BY <3>1, FS_Subset
  <2>3. \A r \in group : F[r].rule = r /\ F[r]["last"] = rules[r].last
    OBVIOUS
  <2>4. \A r \in group : rules[r].last \in Nat /\ r \in S /\ RuleKey(r) = m
    OBVIOUS
  <2>5. \A r \in S : RuleKey(r) = m => r \in group
    OBVIOUS
  <2> HIDE DEF group, F, order
  <2>6. IsFiniteSet(seen) /\ seen # {}
    BY <2>2, ImageFinite
  <2>7. Keyed(seen, order)
    <3>1. \A s \in seen : s["last"] \in Int
      BY <2>3, <2>4
    <3> QED
      BY <2>1, <2>6, <3>1 DEF Keyed
  <2>8. PICK t \in seen : \A s \in seen : ~Precedes(order, s, t)
    <3> HIDE DEF seen
    <3> QED
      BY <2>6, <2>7, RowThatComesFirst
  <2>9. PICK r \in group : t = F[r]
    BY <2>8
  <2>10. ASSUME NEW s \in group PROVE rules[s].last <= rules[r].last
    <3>1. ~Precedes(order, F[s], F[r])
      BY <2>8, <2>9
    <3>2. ~(F[s]["last"] > F[r]["last"])
      BY <2>1, <3>1
    <3> QED
      BY <2>3, <2>4, <2>9, <3>2
  <2>11. r \in S /\ RuleKey(r) = m /\ \A s \in S : RuleKey(s) = m => rules[s].last <= rules[r].last
    BY <2>4, <2>5, <2>9, <2>10
  <2> QED
    BY <2>11 DEF SeenLast
<1> DEFINE c == [m \in KeysOf(S) |-> CHOOSE r \in S : r \in SeenLast(S, m)]
<1>2. c \in [KeysOf(S) -> S] /\ \A m \in KeysOf(S) : c[m] \in SeenLast(S, m)
  BY <1>1
<1> HIDE DEF c
<1>3. c \in RulePicks(S)
  BY <1>2, Zenon DEF RulePicks
<1> QED
  BY <1>3

LEMMA RuleCellsCount ==
  ASSUME NEW S, IsFiniteSet(S), \A r \in S : Text(r.name), JoinedApart(S),
         NEW pick \in RulePicks(S)
  PROVE  /\ Keyed(RuleCells(S, pick), TextOrder("name"))
         /\ Cardinality(RuleCells(S, pick)) = Cardinality(TextsOf(S))
<1> DEFINE F == [m \in KeysOf(S) |-> RuleRow(pick[m])]
<1> DEFINE G == [r \in S |-> RuleKey(r)]
<1>1. IsFiniteSet(KeysOf(S))
  <2>1. KeysOf(S) = {G[r] : r \in S}
    BY DEF KeysOf
  <2> HIDE DEF G
  <2> QED
    BY <2>1, ImageFinite
<1>2. \A m \in KeysOf(S) : pick[m] \in S /\ m = <<pick[m].group_name, pick[m].name>>
  BY DEF RulePicks, SeenLast, RuleKey
<1>3. \A m \in KeysOf(S) : F[m].group_name = pick[m].group_name /\ F[m]["name"] = pick[m].name
  BY DEF RuleRow
<1>4. RuleCells(S, pick) = {F[m] : m \in KeysOf(S)}
  BY DEF RuleCells
<1> HIDE DEF F
<1>5. \A l, m \in KeysOf(S) : F[l] = F[m] => l = m
  BY <1>2, <1>3
<1>6. /\ IsFiniteSet({F[m] : m \in KeysOf(S)})
      /\ Cardinality({F[m] : m \in KeysOf(S)}) = Cardinality(KeysOf(S))
  BY <1>1, <1>5, ImageSize
<1>7. \A v \in {F[m] : m \in KeysOf(S)} : Text(v["name"])
  BY <1>2, <1>3
<1>8. Cardinality(TextsOf(S)) = Cardinality(KeysOf(S))
  BY <1>1, ImageSize DEF TextsOf, JoinedApart
<1> QED
  BY <1>4, <1>6, <1>7, <1>8, TextOrders DEF Keyed

UsageRequest(n, kind, tr, i, size) ==
  [PageOf(tr, i, size) EXCEPT !.name = n, !.kind = kind, !.sortBy = "name"]
UsageAnswers(n, kind, tr, i, size) ==
  GetMetricUsage(conf.provider, db, UsageRequest(n, kind, tr, i, size), now)
LEMMA RulesListing ==
  ASSUME ReaderInv, NEW tr, IsWindow(tr), NEW size \in Nat \ {0}, NEW n, n # Any,
         NEW kind \in {"alert", "record"}, CountedApart(<<kind, n>>), NEW ans,
         \A i \in Nat \ {0} : ans[i] = UsageAnswers(n, kind, tr, i, size)
  PROVE  IsListing(ans)
<1> DEFINE S == RulesOf(n, kind, tr)
<1> DEFINE C == {RuleCells(S, pick) : pick \in RulePicks(S)}
<1> DEFINE N == Cardinality(TextsOf(S))
<1> DEFINE order == TextOrder("name")
<1>1. IsFiniteSet(S) /\ \A r \in S : Text(r.name) /\ rules[r].last \in Nat
  <2>1. S \in SUBSET DOMAIN rules
    BY DEF RulesOf, RulesIn
  <2>2. IsFiniteSet(DOMAIN rules) /\ DOMAIN rules \subseteq RuleRows
        /\ \A r \in DOMAIN rules : rules[r] \in UsageRow
    BY DEF ReaderInv, SummaryInv, TableTypes, RuleTypes
  <2>3. \A r \in RuleRows : Text(r.name)
    BY RowsAssumption, CollationAssumption DEF Text
  <2>4. \A u \in UsageRow : u.last \in Nat
    BY InstantsAssumption DEF UsageRow
  <2> HIDE DEF S
  <2> QED
    BY <2>1, <2>2, <2>3, <2>4, FS_Subset
<1>2. JoinedApart(S)
  <2>1. \A r \in S : r \in DOMAIN rules /\ <<r.kind, r.serie>> = <<kind, n>>
    BY DEF RulesOf, RulesIn
  <2> HIDE DEF S
  <2>2. \A r, s \in S : Joined[RuleKey(r)] = Joined[RuleKey(s)] => RuleKey(r) = RuleKey(s)
    BY <2>1 DEF CountedApart
  <2> QED
    BY <2>2 DEF JoinedApart, KeysOf
<1>3. ASSUME NEW i \in Nat \ {0}
      PROVE  ans[i] = CountPages(N, C, order, PageAt(i, Bounded(size)))
  <2> DEFINE r == UsageRequest(n, kind, tr, i, size)
  <2> DEFINE p == Listing(r, now, 1)
  <2>1. /\ r.from = tr.from /\ r.to = tr.to /\ r.page = i /\ r.pageSize = size
        /\ r.sortBy = "name" /\ r.sortOrder = "" /\ r.name = n /\ r.kind = kind /\ r.filter = {}
    BY DEF UsageRequest, PageOf, Ask
  <2>2. ans[i] = GetMetricUsage(conf.provider, db, r, now)
    BY DEF UsageAnswers
  <2> HIDE DEF r
  <2>3. /\ ~IsBad(r) /\ p.timeRange = tr /\ p.sortBy = r.sortBy /\ p.sortOrder = r.sortOrder
        /\ p.serie = r.name /\ p.kind = r.kind /\ p.filter = r.filter
        /\ ValidatePagination(p.page, p.pageSize, 10) = PageAt(i, Bounded(size))
        /\ SQ!SetDefaultTimeRange(tr, now) = tr /\ PG!SetDefaultTimeRange(tr, now) = tr
    <3>1. r.from = tr.from /\ r.to = tr.to /\ r.page = i /\ r.pageSize = size
      BY <2>1
    <3> QED
      BY <3>1, PagedParameters
  <2> HIDE DEF p
  <2>4. /\ OrderBy(CheckSortField(p.sortBy, p.sortOrder,
                    {"name", "group_name", "expression", "created_at"}), Collated) = order
        /\ p.sortOrder \in PG!SortOrders
    <3>1. CheckSortField(p.sortBy, p.sortOrder, {"name", "group_name", "expression", "created_at"})
            = [by |-> "name", dir |-> "desc"]
      BY <2>1, <2>3, DefaultOrder, Zenon DEF CheckSortField
    <3>2. p.sortOrder \in PG!SortOrders
      BY <2>1, <2>3, Zenon DEF PG!SortOrders
    <3> QED
      BY <3>1, <3>2, TextOrders, Zenon
  <2>5. GetMetricUsage(conf.provider, db, r, now) = RulePages(db, RulesIn(tr), p, Collated)
    <3>1. db.rules = rules /\ ~(r.name = Any \/ r.kind = "" \/ IsBad(r)) /\ r.kind # "dashboard"
      BY <2>1, <2>3, Zenon DEF db
    <3>2. CASE conf.provider = "sqlite"
      <4>1. RulesIn(tr) = {v \in DOMAIN db.rules :
                             SQ!Overlaps(db.rules[v], SQ!SetDefaultTimeRange(p.timeRange, now))}
        BY <2>3, <3>1, <3>2, Zenon DEF RulesIn, Seen
      <4>2. SQ!GetRulesUsage(db, p, now) = SQ!RulePages(db, RulesIn(tr), p, FALSE)
        BY <4>1, Zenon DEF SQ!GetRulesUsage
      <4> QED
        BY <3>1, <3>2, <4>2, SameRulePages, CollatedValue, Zenon DEF GetMetricUsage, p
    <3>3. CASE conf.provider # "sqlite"
      <4>1. RulesIn(tr) = {v \in DOMAIN db.rules :
                             PG!Overlaps(db.rules[v], PG!SetDefaultTimeRange(p.timeRange, now))}
        BY <2>3, <3>1, <3>3, Zenon DEF RulesIn, Seen
      <4>2. PG!GetRulesUsage(db, p, now) = PG!RulePages(db, RulesIn(tr), p, TRUE)
        BY <2>4, <4>1, Zenon DEF PG!GetRulesUsage
      <4> QED
        BY <3>1, <3>3, <4>2, SameRulePages, CollatedValue, Zenon DEF GetMetricUsage, p
    <3> QED
      BY <3>2, <3>3
  <2>6. RulePages(db, RulesIn(tr), p, Collated) = CountPages(N, C, order, PageAt(i, Bounded(size)))
    <3> DEFINE overlapped == {v \in RulesIn(tr) :
            /\ v.serie = p.serie /\ v.kind = p.kind
            /\ Like(p.filter, v.name) \/ Like(p.filter, v.expression)}
    <3> DEFINE latest(m) == {v \in overlapped : RuleKey(v) = m /\ \A s \in overlapped :
                               RuleKey(s) = m => db.rules[s].last <= db.rules[v].last}
    <3> DEFINE keys == {RuleKey(v) : v \in overlapped}
    <3> DEFINE Row(v) == [group_name |-> v.group_name, name |-> v.name,
                          expression |-> v.expression, created_at |-> db.rules[v].first]
    <3> DEFINE picks == {f \in [keys -> overlapped] : \A m \in keys : f[m] \in latest(m)}
    <3> DEFINE o == OrderBy(CheckSortField(p.sortBy, p.sortOrder,
                      {"name", "group_name", "expression", "created_at"}), Collated)
    <3> DEFINE texts == {Joined[m] : m \in keys}
    <3>1. RulePages(db, RulesIn(tr), p, Collated) =
            UNION {PagedByCount(Cardinality(texts), {Row(pick[m]) : m \in keys}, o,
                                ValidatePagination(p.page, p.pageSize, 10)) : pick \in picks}
      BY Zenon DEF RulePages
    <3>2. db.rules = rules
      BY DEF db
    <3>3. overlapped = S
      BY <2>1, <2>3, Zenon DEF RulesOf, Like
    <3> HIDE DEF overlapped, S, o
    <3>4. keys = KeysOf(S) /\ texts = TextsOf(S)
      BY <3>3 DEF KeysOf, TextsOf
    <3>5. \A m : latest(m) = SeenLast(S, m)
      BY <3>2, <3>3, Zenon DEF SeenLast
    <3>6. \A v : Row(v) = RuleRow(v)
      BY <3>2, Zenon DEF RuleRow
    <3> HIDE DEF latest, keys, texts, Row
    <3>7. picks = RulePicks(S)
      BY <3>3, <3>4, <3>5, Zenon DEF RulePicks
    <3> HIDE DEF picks
    <3>8. \A pick : {Row(pick[m]) : m \in keys} = RuleCells(S, pick)
      BY <3>4, <3>6, Zenon DEF RuleCells
    <3>9. o = order /\ ValidatePagination(p.page, p.pageSize, 10) = PageAt(i, Bounded(size))
      BY <2>3, <2>4, Zenon DEF o
    <3> DEFINE page == PageAt(i, Bounded(size))
    <3> HIDE DEF order, page
    <3>10. RulePages(db, RulesIn(tr), p, Collated) =
             UNION {PagedByCount(N, RuleCells(S, pick), order, page) : pick \in RulePicks(S)}
      <4> DEFINE A(pick) == PagedByCount(Cardinality(texts), {Row(pick[m]) : m \in keys}, o,
                                         ValidatePagination(p.page, p.pageSize, 10))
      <4> DEFINE B(pick) == PagedByCount(N, RuleCells(S, pick), order, page)
      <4>1. \A pick : A(pick) = B(pick)
        BY <3>4, <3>8, <3>9, Zenon DEF page
      <4>2. RulePages(db, RulesIn(tr), p, Collated) = UNION {A(pick) : pick \in picks}
        BY <3>1
      <4> HIDE DEF A, B
      <4>3. RulePages(db, RulesIn(tr), p, Collated) = UNION {B(pick) : pick \in RulePicks(S)}
        BY <3>7, <4>1, <4>2
      <4> QED
        BY <4>3 DEF B
    <3> HIDE DEF N
    <3>11. CountPages(N, C, order, page)
             = UNION {PagedByCount(N, RuleCells(S, pick), order, page) : pick \in RulePicks(S)}
      BY DEF CountPages
    <3> QED
      BY <3>10, <3>11, Zenon DEF page
  <2> HIDE DEF S, C, N, order
  <2> QED
    BY <2>2, <2>5, <2>6, Zenon
<1> HIDE DEF S
<1>4. C # {}
  BY <1>1, RulePicksExist
<1>5. \A v \in C : Keyed(v, order) /\ Cardinality(v) = N
  BY <1>1, <1>2, RuleCellsCount
<1>6. Bounded(size) \in Nat \ {0}
  BY SMT DEF Bounded, MaxPageSize
<1> HIDE DEF C, N, order
<1> QED
  BY <1>3, <1>4, <1>5, <1>6, CountListing

(* The dashboards of a metric: their ids tell them apart. *)
DashboardCell(k) == [id |-> k[1], name |-> dashboards[k].name, created_at |-> dashboards[k].first]
LEMMA DashboardsListing ==
  ASSUME ReaderInv, NEW tr, IsWindow(tr), NEW size \in Nat \ {0}, NEW n, n # Any, NEW ans,
         \A i \in Nat \ {0} : ans[i] = UsageAnswers(n, "dashboard", tr, i, size)
  PROVE  IsListing(ans)
<1> DEFINE S == DashboardsOf(n, tr)
<1> DEFINE F == [k \in S |-> DashboardCell(k)]
<1> DEFINE G == [k \in S |-> k[1]]
<1> DEFINE cells == {DashboardCell(k) : k \in S}
<1> DEFINE N == Cardinality({k[1] : k \in S})
<1> DEFINE order == TextOrder("name")
<1>1. IsFiniteSet(S) /\ \A k \in S : k = <<k[1], n>> /\ Text(dashboards[k].name)
  <2>1. S \in SUBSET DOMAIN dashboards /\ \A k \in S : k[2] = n
    BY DEF DashboardsOf, DashboardsIn
  <2>2. IsFiniteSet(DOMAIN dashboards)
        /\ DOMAIN dashboards \subseteq {<<d.id, d.serie>> : d \in DashboardItems}
    BY DEF ReaderInv, SummaryInv, TableTypes, DashboardTypes
  <2>3. \A k \in DOMAIN dashboards : k = <<k[1], k[2]>>
    BY <2>2
  <2>4. \A k \in DOMAIN dashboards : Text(dashboards[k].name)
    BY RowsAssumption, CollationAssumption
       DEF ReaderInv, DashboardValues, DashboardRow, DashboardNames, Text
  <2> HIDE DEF S
  <2> QED
    BY <2>1, <2>2, <2>3, <2>4, FS_Subset
<1>2. \A m : Text(m["name"]) => Place(order, m) \in Int
  BY TextOrders
<1>3. Keyed(cells, order) /\ Cardinality(cells) = N
  <2>1. \A k \in S : F[k]["name"] = dashboards[k].name /\ F[k].id = k[1] /\ G[k] = k[1]
    BY DEF DashboardCell
  <2>2. cells = {F[k] : k \in S} /\ {k[1] : k \in S} = {G[k] : k \in S}
    OBVIOUS
  <2> HIDE DEF S, F, G, cells, order
  <2>3. /\ \A k, l \in S : F[k] = F[l] => k = l
        /\ \A k, l \in S : G[k] = G[l] => k = l
    BY <1>1, <2>1
  <2>4. IsFiniteSet({F[k] : k \in S}) /\ Cardinality({F[k] : k \in S}) = Cardinality(S)
    BY <1>1, <2>3, ImageSize
  <2>5. Cardinality({G[k] : k \in S}) = Cardinality(S)
    BY <1>1, <2>3, ImageSize
  <2>6. \A m \in {F[k] : k \in S} : Text(m["name"])
    BY <1>1, <2>1
  <2> QED
    BY <1>2, <2>2, <2>4, <2>5, <2>6 DEF Keyed
<1>4. ASSUME NEW i \in Nat \ {0}
      PROVE  ans[i] = PagedByCount(N, cells, order, PageAt(i, size))
  <2> DEFINE r == UsageRequest(n, "dashboard", tr, i, size)
  <2> DEFINE p == Listing(r, now, 1)
  <2>1. /\ r.from = tr.from /\ r.to = tr.to /\ r.page = i /\ r.pageSize = size
        /\ r.sortBy = "name" /\ r.sortOrder = "" /\ r.name = n /\ r.kind = "dashboard"
        /\ r.filter = {}
    BY DEF UsageRequest, PageOf, Ask
  <2>2. ans[i] = GetMetricUsage(conf.provider, db, r, now)
    BY DEF UsageAnswers
  <2> HIDE DEF r
  <2>3. /\ ~IsBad(r) /\ p.timeRange = tr /\ p.sortBy = r.sortBy /\ p.sortOrder = r.sortOrder
        /\ p.serie = r.name /\ p.filter = r.filter
        /\ DefaultPagination(p.page, p.pageSize) = PageAt(i, size)
        /\ SQ!SetDefaultTimeRange(tr, now) = tr /\ PG!SetDefaultTimeRange(tr, now) = tr
    <3>1. r.from = tr.from /\ r.to = tr.to /\ r.page = i /\ r.pageSize = size
      BY <2>1
    <3> QED
      BY <3>1, PagedParameters
  <2> HIDE DEF p
  <2>4. /\ OrderBy(CheckSortField(p.sortBy, p.sortOrder, {"name", "created_at"}), Collated) = order
        /\ p.sortOrder \in PG!SortOrders
    <3>1. CheckSortField(p.sortBy, p.sortOrder, {"name", "created_at"})
            = [by |-> "name", dir |-> "desc"]
      BY <2>1, <2>3, DefaultOrder, Zenon DEF CheckSortField
    <3>2. p.sortOrder \in PG!SortOrders
      BY <2>1, <2>3, Zenon DEF PG!SortOrders
    <3> QED
      BY <3>1, <3>2, TextOrders, Zenon
  <2>5. GetMetricUsage(conf.provider, db, r, now) = DashboardPages(db, DashboardsIn(tr), p, Collated)
    <3>1. db.dashboards = dashboards /\ ~(r.name = Any \/ r.kind = "" \/ IsBad(r))
          /\ r.kind = "dashboard"
      BY <2>1, <2>3, Zenon DEF db
    <3>2. CASE conf.provider = "sqlite"
      <4>1. DashboardsIn(tr) = {k \in DOMAIN db.dashboards :
              SQ!Overlaps(db.dashboards[k], SQ!SetDefaultTimeRange(p.timeRange, now))}
        BY <2>3, <3>1, <3>2, Zenon DEF DashboardsIn, Seen
      <4>2. SQ!GetDashboardUsage(db, p, now) = SQ!DashboardPages(db, DashboardsIn(tr), p, FALSE)
        BY <4>1, Zenon DEF SQ!GetDashboardUsage
      <4> QED
        BY <3>1, <3>2, <4>2, SameDashboardPages, CollatedValue, Zenon DEF GetMetricUsage, p
    <3>3. CASE conf.provider # "sqlite"
      <4>1. DashboardsIn(tr) = {k \in DOMAIN db.dashboards :
              PG!Overlaps(db.dashboards[k], PG!SetDefaultTimeRange(p.timeRange, now))}
        BY <2>3, <3>1, <3>3, Zenon DEF DashboardsIn, Seen
      <4>2. PG!GetDashboardUsage(db, p, now) = PG!DashboardPages(db, DashboardsIn(tr), p, TRUE)
        BY <2>4, <4>1, Zenon DEF PG!GetDashboardUsage
      <4> QED
        BY <3>1, <3>3, <4>2, SameDashboardPages, CollatedValue, Zenon DEF GetMetricUsage, p
    <3> QED
      BY <3>2, <3>3
  <2>6. DashboardPages(db, DashboardsIn(tr), p, Collated) = PagedByCount(N, cells, order, PageAt(i, size))
    <3> DEFINE overlapped == {k \in DashboardsIn(tr) : k[2] = p.serie
                                                       /\ Like(p.filter, db.dashboards[k].name)}
    <3> DEFINE o == OrderBy(CheckSortField(p.sortBy, p.sortOrder, {"name", "created_at"}), Collated)
    <3>1. DashboardPages(db, DashboardsIn(tr), p, Collated) =
            PagedByCount(Cardinality({k[1] : k \in overlapped}),
                         {[id |-> k[1], name |-> db.dashboards[k].name,
                           created_at |-> db.dashboards[k].first] : k \in overlapped},
                         o, DefaultPagination(p.page, p.pageSize))
      BY Zenon DEF DashboardPages
    <3>2. overlapped = S
      BY <2>1, <2>3, Zenon DEF DashboardsOf, Like
    <3>3. db.dashboards = dashboards
      BY DEF db
    <3> HIDE DEF overlapped, S, o
    <3>4. {[id |-> k[1], name |-> db.dashboards[k].name,
            created_at |-> db.dashboards[k].first] : k \in overlapped} = cells
      BY <3>2, <3>3, Zenon DEF DashboardCell
    <3>5. o = order
      BY <2>4 DEF o
    <3> HIDE DEF cells, order
    <3> QED
      BY <2>3, <3>1, <3>2, <3>4, <3>5, Zenon
  <2> HIDE DEF S, N, cells, order
  <2> QED
    BY <2>2, <2>5, <2>6, Zenon
<1> HIDE DEF cells, order, N
<1> QED
  BY <1>3, <1>4, OneSetCounted

(* Every listing that PagesPartition names is one. *)
LEMMA AnswersList ==
  ASSUME ReaderInv, NEW l \in AllListings, CountedApart(l), NEW tr, IsWindow(tr),
         NEW size \in Nat \ {0}, NEW ans,
         \A i \in Nat \ {0} : ans[i] = Answers(l, tr, i, size)
  PROVE  IsListing(ans)
<1> USE DEF Answers
<1>1. CASE l = <<"catalog", Any>>
  <2>1. l[1] = "catalog"
    BY <1>1
  <2>2. \A i \in Nat \ {0} : ans[i] = CatalogAnswers(tr, i, size)
    BY <2>1, Zenon DEF CatalogAnswers, CatalogRequest, PageOf
  <2> HIDE DEF Answers
  <2> QED
    BY <2>2, CatalogListing
<1>2. CASE l = <<"expressions", Any>>
  <2>1. l[1] = "expressions"
    BY <1>2
  <2>2. \A i \in Nat \ {0} : ans[i] = ExpressionsAnswers(tr, i, size)
    BY <2>1, Zenon DEF ExpressionsAnswers, ExpressionsRequest, PageOf
  <2> HIDE DEF Answers
  <2> QED
    BY <2>2, ExpressionsListing
<1>3. CASE l \in {"executions"} \X (Fingerprints \ {Any})
  <2>1. l[1] = "executions" /\ l[2] # Any
    BY <1>3
  <2>2. \A i \in Nat \ {0} : ans[i] = ExecutionsAnswers(l[2], tr, i, size)
    BY <2>1, Zenon DEF ExecutionsAnswers, ExecutionsRequest, PageOf
  <2> HIDE DEF Answers
  <2> QED
    BY <2>1, <2>2, ExecutionsListing
<1>4. CASE l \in {"serie", "alert", "record", "dashboard"} \X Metrics
  <2>1. l[1] \in {"serie", "alert", "record", "dashboard"} /\ l[2] # Any
    BY <1>4, MetricsAssumption
  <2>2. CASE l[1] = "serie"
    <3>1. \A i \in Nat \ {0} : ans[i] = SerieAnswers(l[2], tr, i, size)
      BY <2>2, Zenon DEF SerieAnswers, SerieRequest, PageOf
    <3> HIDE DEF Answers
    <3> QED
      BY <3>1, SerieExpressionsListing
  <2>3. CASE l[1] \in {"alert", "record", "dashboard"}
    <3>1. l[1] \notin {"catalog", "expressions", "executions", "serie"}
      BY <2>3
    <3>2. \A i \in Nat \ {0} : ans[i] = UsageAnswers(l[2], l[1], tr, i, size)
      BY <3>1, Zenon DEF UsageAnswers, UsageRequest, PageOf
    <3> HIDE DEF Answers
    <3>3. CASE l[1] = "dashboard"
      BY <2>1, <3>2, <3>3, DashboardsListing
    <3>4. CASE l[1] \in {"alert", "record"}
      <4>1. \A k, m : l = <<k, m>> => CountedApart(<<k, m>>)
        OBVIOUS
      <4>2. PICK k \in {"serie", "alert", "record", "dashboard"}, m \in Metrics : l = <<k, m>>
        BY <1>4
      <4>3. l[1] = k /\ l[2] = m
        BY <4>2
      <4>4. m # Any /\ k \in {"alert", "record"} /\ CountedApart(<<k, m>>)
        BY <2>1, <3>4, <4>1, <4>2, <4>3
      <4>5. \A i \in Nat \ {0} : ans[i] = UsageAnswers(m, k, tr, i, size)
        BY <3>2, <4>3
      <4> QED
        BY <4>4, <4>5, RulesListing
    <3> QED
      BY <2>3, <3>3, <3>4
  <2> QED
    BY <2>1, <2>2, <2>3
<1> HIDE DEF Answers
<1> QED
  BY <1>1, <1>2, <1>3, <1>4 DEF AllListings

LEMMA RangesAreWindows ==
  ASSUME NEW tr \in Ranges
  PROVE  IsWindow(tr)
  BY ReadersAssumption DEF IsWindow

(* In every reachable state, whatever the ranges and page sizes are, a      *)
(* reader who turns the pages of any listing sees every row once, if its    *)
(* order leaves no ties and the texts by which rules are counted tell them  *)
(* apart.                                                                   *)
THEOREM PagesAreAPartition == Spec => []PagesPartition
<1>1. ReaderInv => PagesPartition
  <2> SUFFICES ASSUME ReaderInv, NEW l \in {l \in AllListings : CountedApart(l)},
                      NEW tr \in Ranges, NEW size \in PageSizes
               PROVE
                 LET first == CHOOSE a \in Answers(l, tr, 1, size) : TRUE
                     turned == UNION {{i} \X Answers(l, tr, i, size) : i \in 1..(first.totalPages + 1)}
                     rows == UNION {t[2].data : t \in turned}
                 IN  (\A t, u \in turned : t[1] = u[1] => t = u) =>
                       /\ \A t, u \in turned : t # u => t[2].data \cap u[2].data = {}
                       /\ \A t \in turned : t[2].data = {} <=> t[1] = first.totalPages + 1
                       /\ Cardinality(rows) = first.total
    BY Zenon DEF PagesPartition
  <2> DEFINE ans == [i \in Nat \ {0} |-> Answers(l, tr, i, size)]
  <2> DEFINE first == CHOOSE a \in Answers(l, tr, 1, size) : TRUE
  <2> DEFINE T == first.totalPages
  <2> DEFINE turned == UNION {{i} \X Answers(l, tr, i, size) : i \in 1..(T + 1)}
  <2>1. \A i \in Nat \ {0} : ans[i] = Answers(l, tr, i, size)
    OBVIOUS
  <2>2. size \in Nat \ {0} /\ IsWindow(tr)
    BY ReadersAssumption, RangesAreWindows
  <2> HIDE DEF ans
  <2>3. IsListing(ans)
    BY <2>1, <2>2, AnswersList
  <2>4. first = CHOOSE a \in ans[1] : TRUE
    <3>1. ans[1] = Answers(l, tr, 1, size)
      BY <2>1
    <3> QED
      BY <3>1
  <2> HIDE DEF first
  <2>5. T \in Nat /\ (OneAnswerEach(Turned(ans, T)) => SeesEveryRowOnce(Turned(ans, T), T, first.total))
    BY <2>3, <2>4, ListingIsPartitioned
  <2>6. Turned(ans, T) = turned
    <3>1. \A i \in 1..(T + 1) : i \in Nat \ {0}
      BY <2>5
    <3> HIDE DEF T
    <3> QED
      BY <2>1, <3>1 DEF Turned
  <2>7. OneAnswerEach(turned) => SeesEveryRowOnce(turned, T, first.total)
    BY <2>5, <2>6
  <2> HIDE DEF turned
  <2>8. (\A t, u \in turned : t[1] = u[1] => t = u) =>
          /\ \A t, u \in turned : t # u => t[2].data \cap u[2].data = {}
          /\ \A t \in turned : t[2].data = {} <=> t[1] = T + 1
          /\ Cardinality(UNION {t[2].data : t \in turned}) = first.total
    BY <2>7, Zenon DEF OneAnswerEach, SeesEveryRowOnce
  <2> QED
    BY <2>8, Zenon DEF turned, first
<1> QED
  BY <1>1, ReaderInvariant, PTL

(***************************************************************************)
(* Buckets of time series.                                                 *)
(***************************************************************************)
LEMMA Quotient ==
  ASSUME NEW a \in Nat, NEW i \in Nat \ {0}
  PROVE  LET k == a \div i
         IN  k \in Nat /\ k * i \in Nat /\ k * i <= a /\ a < k * i + i
<1> DEFINE k == a \div i
<1> DEFINE m == a % i
<1>1. k \in Int /\ m \in 0..(i - 1) /\ a = i * k + m
  BY SMT
<1> HIDE DEF k, m
<1>2. k >= 0
  <2> SUFFICES ASSUME k < 0 PROVE FALSE
    BY <1>1, SMT
  <2> DEFINE b == i * k
  <2>1. b \in Int /\ b <= 0 - i
    BY <1>1, SMT
  <2>2. a = b + m
    BY <1>1
  <2> HIDE DEF b
  <2> QED
    BY <1>1, <2>1, <2>2, SMT
<1>3. i * k = k * i /\ k * i \in Int
  BY <1>1, SMT
<1> DEFINE b == k * i
<1>4. b \in Int /\ a = b + m
  BY <1>1, <1>3
<1>5. b >= 0
  BY <1>1, <1>2, SMT
<1> HIDE DEF b
<1>6. b \in Nat /\ b <= a /\ a < b + i
  BY <1>1, <1>4, <1>5, SMT
<1> QED
  BY <1>1, <1>2, <1>6 DEF k, b

LEMMA TruncMultiple ==
  ASSUME NEW t \in Int, NEW u \in Nat \ {0}
  PROVE  \E k \in Int : TruncTo(t, u) = u * k
<1>1. t \div u \in Int /\ t = u * (t \div u) + (t % u)
  BY SMT
<1>2. TruncTo(t, u) = u * (t \div u)
  BY <1>1, SMT DEF TruncTo
<1> QED
  BY <1>1, <1>2

LEMMA MultipleTrunc ==
  ASSUME NEW u \in Nat \ {0}, NEW k \in Int
  PROVE  u * k \in Int /\ TruncTo(u * k, u) = u * k
<1> DEFINE a == u * k
<1>1. a \in Int
  BY SMT
<1>2. (u * k) % u = 0
  BY SMT
<1> HIDE DEF a
<1> QED
  BY <1>1, <1>2, SMT DEF TruncTo, a

LEMMA TruncAgain ==
  ASSUME NEW t \in Int, NEW u \in Nat \ {0}
  PROVE  TruncTo(TruncTo(t, u), u) = TruncTo(t, u)
  BY TruncMultiple, MultipleTrunc

LEMMA TruncInOrder ==
  ASSUME NEW s \in Int, NEW t \in Int, s <= t, NEW u \in Nat \ {0}
  PROVE  TruncTo(s, u) <= TruncTo(t, u)
<1> SUFFICES ASSUME TruncTo(t, u) < TruncTo(s, u) PROVE FALSE
  BY TruncBounds, SMT
<1>1. t < TruncTo(s, u)
  BY TruncBefore
<1> QED
  BY <1>1, TruncBounds, SMT

LEMMA MinutesOfSeconds ==
  ASSUME NEW t \in Int
  PROVE  /\ Minute \in Nat \ {0} /\ Second \in Nat \ {0} /\ Minute = 60 * Second
         /\ TruncTo(t, Minute) \in Int /\ TruncTo(t, Second) \in Int
         /\ TruncTo(t, Minute) <= TruncTo(t, Second)
<1>1. Minute \in Nat \ {0} /\ Second \in Nat \ {0} /\ Minute = 60 * Second
  BY SecondAssumption, SMT DEF Minute
<1> DEFINE m == TruncTo(t, Minute)
<1>2. m \in Int /\ m <= t /\ TruncTo(t, Second) \in Int
  BY <1>1, TruncBounds
<1>3. PICK k \in Int : m = Minute * k
  BY <1>1, TruncMultiple
<1>4. m = Second * (60 * k) /\ 60 * k \in Int
  BY <1>1, <1>3, SMT
<1>5. TruncTo(m, Second) = m
  BY <1>1, <1>4, MultipleTrunc
<1> HIDE DEF m
<1>6. TruncTo(m, Second) <= TruncTo(t, Second)
  BY <1>1, <1>2, TruncInOrder
<1> QED
  BY <1>1, <1>2, <1>5, <1>6 DEF m

LEMMA Intervals ==
  ASSUME NEW tr, IsWindow(tr)
  PROVE  /\ GetInterval(tr) \in Nat \ {0} /\ Minute <= GetInterval(tr)
         /\ SQ!GetInterval(tr) = GetInterval(tr) /\ PG!GetInterval(tr) = GetInterval(tr)
<1>1. tr.from \in Nat /\ tr.to \in Nat /\ Second \in Nat \ {0}
  BY SecondAssumption DEF IsWindow
<1> DEFINE w == tr.to - tr.from
<1>2. w \in Int
  BY <1>1
<1>3. GetInterval(tr) = CASE w <= 2 * Hour  -> Minute
        [] w > 2 * Hour /\ w <= 6 * Hour -> 5 * Minute
        [] w > 6 * Hour /\ w <= Day -> 15 * Minute
        [] w > Day /\ w <= 7 * Day -> Hour
        [] w > 7 * Day /\ w <= 30 * Day -> 6 * Hour
        [] w > 30 * Day -> Day
  BY DEF GetInterval
<1>4. SQ!GetInterval(tr) = GetInterval(tr) /\ PG!GetInterval(tr) = GetInterval(tr)
  BY DEF SQ!GetInterval, PG!GetInterval, GetInterval, SQ!Minute, SQ!Hour, SQ!Day, PG!Minute,
         PG!Hour, PG!Day, Minute, Hour, Day
<1> HIDE DEF w
<1>5. GetInterval(tr) \in {Minute, 5 * Minute, 15 * Minute, Hour, 6 * Hour, Day}
  BY <1>1, <1>2, <1>3, SMT DEF Minute, Hour, Day
<1> QED
  BY <1>1, <1>4, <1>5, SMT DEF Minute, Hour, Day

(* The starts of buckets: steps + 1 of them, an interval apart. *)
Starts(first, interval, steps) == {first + k * interval : k \in 0..steps}
LEMMA StartsFinite ==
  ASSUME NEW first \in Int, NEW interval \in Nat \ {0}, NEW steps \in Int
  PROVE  IsFiniteSet(Starts(first, interval, steps)) /\ Starts(first, interval, steps) \subseteq Int
<1> DEFINE F == [k \in 0..steps |-> first + k * interval]
<1>1. Starts(first, interval, steps) = {F[k] : k \in 0..steps}
  BY DEF Starts
<1>2. \A k \in 0..steps : F[k] \in Int
  OBVIOUS
<1>3. IsFiniteSet(0..steps)
  BY FS_Interval
<1> HIDE DEF F
<1> QED
  BY <1>1, <1>2, <1>3, ImageFinite

LEMMA StartsApart ==
  ASSUME NEW first \in Int, NEW interval \in Nat \ {0}, NEW steps \in Int, NEW t \in Int,
         NEW b \in Starts(first, interval, steps), NEW c \in Starts(first, interval, steps),
         b <= t, t < b + interval, c <= t, t < c + interval
  PROVE  b = c
<1>1. PICK j \in 0..steps : b = first + j * interval
  BY DEF Starts
<1>2. PICK k \in 0..steps : c = first + k * interval
  BY DEF Starts
<1>3. ASSUME NEW x \in Int, NEW y \in Int, x + 1 <= y
      PROVE  x * interval + interval <= y * interval
  <2> DEFINE e == y - (x + 1)
  <2>1. e \in Nat /\ y = (x + 1) + e
    BY <1>3, SMT
  <2> HIDE DEF e
  <2>2. /\ e * interval \in Nat /\ x * interval \in Int
        /\ ((x + 1) + e) * interval = x * interval + interval + e * interval
    BY <2>1, SMT
  <2> QED
    BY <2>1, <2>2, SMT
<1>4. j \in Int /\ k \in Int /\ (j = k \/ j + 1 <= k \/ k + 1 <= j)
  BY SMT
<1> DEFINE u == j * interval
<1> DEFINE v == k * interval
<1>5. u \in Int /\ v \in Int /\ b = first + u /\ c = first + v
  BY <1>1, <1>2, <1>4, SMT
<1>6. u = v \/ u + interval <= v \/ v + interval <= u
  BY <1>3, <1>4
<1> HIDE DEF u, v
<1> QED
  BY <1>5, <1>6, SMT

LEMMA FewerSteps ==
  ASSUME NEW k \in Int, NEW n \in Int, NEW i \in Nat \ {0}, k * i < n * i + i
  PROVE  k <= n
<1> SUFFICES ASSUME k > n PROVE FALSE
  BY SMT
<1>1. PICK j \in Nat : k = (n + 1) + j
  <2>1. k - (n + 1) \in Nat /\ k = (n + 1) + (k - (n + 1))
    BY SMT
  <2> QED
    BY <2>1
<1>2. ((n + 1) + j) * i = n * i + i + j * i /\ j * i \in Nat /\ n * i \in Int
  BY SMT
<1> DEFINE e == n * i
<1> DEFINE h == j * i
<1>3. e \in Int /\ h \in Nat /\ e + i + h < e + i
  BY <1>1, <1>2
<1> HIDE DEF e, h
<1> QED
  BY <1>3, SMT

LEMMA SqliteBuckets ==
  ASSUME NEW tr, IsWindow(tr)
  PROVE  LET first == TruncTo(tr.from, Minute)
             width == TruncTo(tr.to, Minute) - first
             steps == IF width <= 0 THEN 0 ELSE (width + GetInterval(tr) - 1) \div GetInterval(tr)
         IN  /\ SQ!TimeBuckets(tr) = Starts(first, GetInterval(tr), steps)
             /\ first \in Int /\ width \in Int /\ steps \in Nat
<1> DEFINE i == GetInterval(tr)
<1> DEFINE first == TruncTo(tr.from, Minute)
<1> DEFINE width == TruncTo(tr.to, Minute) - first
<1> DEFINE steps == IF width <= 0 THEN 0 ELSE (width + i - 1) \div i
<1>1. SQ!Minute = Minute /\ \A t : SQ!TruncTo(t, Minute) = TruncTo(t, Minute)
  BY DEF SQ!Minute, Minute, SQ!TruncTo, TruncTo
<1>2. SQ!TimeBuckets(tr) = Starts(first, i, steps)
  <2>1. SQ!GetInterval(tr) = GetInterval(tr)
    BY Intervals
  <2> DEFINE f == SQ!TruncTo(tr.from, SQ!Minute)
  <2> DEFINE w == SQ!TruncTo(tr.to, SQ!Minute) - f
  <2> DEFINE n == IF w <= 0 THEN 0 ELSE (w + SQ!GetInterval(tr) - 1) \div SQ!GetInterval(tr)
  <2>2. SQ!TimeBuckets(tr) = {f + k * SQ!GetInterval(tr) : k \in 0..n}
    BY DEF SQ!TimeBuckets
  <2>3. f = first /\ w = width
    BY <1>1
  <2> HIDE DEF f, w, first, width
  <2>4. n = steps
    BY <2>1, <2>3
  <2> HIDE DEF n, steps
  <2> QED
    BY <2>1, <2>2, <2>3, <2>4 DEF Starts
<1>3. first \in Int /\ width \in Int /\ i \in Nat \ {0}
  <2>1. tr.from \in Int /\ tr.to \in Int
    BY DEF IsWindow
  <2>2. first \in Int /\ TruncTo(tr.to, Minute) \in Int
    BY <2>1, MinutesOfSeconds
  <2>3. i \in Nat \ {0}
    BY Intervals
  <2> HIDE DEF first, i
  <2> QED
    BY <2>2, <2>3
<1> HIDE DEF i, first, width
<1>4. steps \in Nat
  <2>1. CASE width <= 0
    BY <2>1
  <2>2. CASE ~(width <= 0)
    <3>1. width + i - 1 \in Nat
      BY <1>3, <2>2, SMT
    <3> QED
      BY <1>3, <2>2, <3>1, Quotient
  <2> QED
    BY <2>1, <2>2
<1> QED
  BY <1>2, <1>3, <1>4 DEF i, first, width

(* Every time of the range is in a bucket. *)
LEMMA SqliteCovers ==
  ASSUME NEW tr, IsWindow(tr), NEW t \in Nat, TruncTo(tr.from, Second) <= t,
         TruncTo(t, Second) < TruncTo(tr.to, Second)
  PROVE  \E b \in SQ!TimeBuckets(tr) : b <= t /\ t < b + GetInterval(tr)
<1> DEFINE i == GetInterval(tr)
<1> DEFINE first == TruncTo(tr.from, Minute)
<1> DEFINE last == TruncTo(tr.to, Minute)
<1> DEFINE width == last - first
<1> DEFINE steps == IF width <= 0 THEN 0 ELSE (width + i - 1) \div i
<1>1. /\ SQ!TimeBuckets(tr) = Starts(first, i, steps) /\ first \in Int /\ width \in Int
      /\ steps \in Nat
  BY SqliteBuckets
<1>2. i \in Nat \ {0} /\ Minute <= i
  BY Intervals
<1>3. tr.from \in Int /\ tr.to \in Int
  BY DEF IsWindow
<1>4. /\ first <= TruncTo(tr.from, Second) /\ last \in Int /\ last <= TruncTo(tr.to, Second)
      /\ TruncTo(tr.from, Second) \in Int /\ TruncTo(tr.to, Second) \in Int
      /\ Minute \in Nat \ {0} /\ Second \in Nat \ {0}
  BY <1>3, MinutesOfSeconds
<1>5. t < TruncTo(tr.to, Second)
  BY <1>3, <1>4, TruncBefore
<1>6. TruncTo(tr.to, Second) <= tr.to /\ tr.to < last + Minute
  BY <1>3, <1>4, TruncBounds
<1> DEFINE a == t - first
<1> DEFINE k == a \div i
<1> HIDE DEF i, first, last
<1>7. a \in Nat /\ a < width + i
  BY <1>1, <1>2, <1>3, <1>4, <1>5, <1>6, SMT
<1> HIDE DEF a
<1>8. k \in Nat /\ k * i \in Nat /\ k * i <= a /\ a < k * i + i
  BY <1>2, <1>7, Quotient
<1> DEFINE c == k * i
<1>9. c \in Nat /\ c <= a /\ a < c + i
  BY <1>8
<1> HIDE DEF k
<1>10. k <= steps
  <2>1. CASE width <= 0
    <3>1. k * i < 0 * i + i
      <4>1. c < i /\ 0 * i + i = i
        BY <1>1, <1>2, <1>7, <1>9, <2>1, SMT
      <4> QED
        BY <4>1
    <3> QED
      BY <1>2, <1>8, <2>1, <3>1, FewerSteps
  <2>2. CASE ~(width <= 0)
    <3> DEFINE w == width + i - 1
    <3>1. w \in Nat
      BY <1>1, <1>2, <2>2, SMT
    <3>2. steps = w \div i
      BY <2>2
    <3> HIDE DEF w, steps
    <3>3. steps * i \in Nat /\ w < steps * i + i
      BY <1>2, <3>1, <3>2, Quotient
    <3> DEFINE e == steps * i
    <3>4. e \in Nat /\ w < e + i /\ c <= w
      BY <1>1, <1>2, <1>7, <1>9, <3>3, SMT DEF w
    <3>5. c < e + i
      BY <1>2, <1>9, <3>1, <3>4, SMT
    <3> QED
      BY <1>1, <1>2, <1>8, <3>5, FewerSteps
  <2> QED
    BY <2>1, <2>2
<1> DEFINE b == first + k * i
<1>11. b <= t /\ t < b + i
  BY <1>1, <1>2, <1>9, SMT DEF a
<1>12. b \in Starts(first, i, steps)
  <2>1. k \in 0..steps
    BY <1>1, <1>8, <1>10
  <2> HIDE DEF steps
  <2> QED
    BY <2>1 DEF Starts
<1> HIDE DEF b
<1> QED
  BY <1>1, <1>11, <1>12 DEF i

LEMMA PostgresBuckets ==
  ASSUME NEW tr, IsWindow(tr)
  PROVE  LET first == TruncTo(tr.from, Minute)
             width == TruncTo(tr.to, Minute) - first
             steps == IF width < 0 THEN -1 ELSE width \div GetInterval(tr)
         IN  /\ PG!TimeBuckets(tr) = Starts(first, GetInterval(tr), steps)
             /\ first \in Int /\ width \in Int /\ steps \in Int
<1> DEFINE i == GetInterval(tr)
<1> DEFINE first == TruncTo(tr.from, Minute)
<1> DEFINE width == TruncTo(tr.to, Minute) - first
<1> DEFINE steps == IF width < 0 THEN -1 ELSE width \div i
<1>1. PG!Minute = Minute /\ \A t : PG!TruncTo(t, Minute) = TruncTo(t, Minute)
  BY DEF PG!Minute, Minute, PG!TruncTo, TruncTo
<1>2. PG!TimeBuckets(tr) = Starts(first, i, steps)
  <2>1. PG!GetInterval(tr) = GetInterval(tr)
    BY Intervals
  <2> DEFINE f == PG!TruncTo(tr.from, PG!Minute)
  <2> DEFINE w == PG!TruncTo(tr.to, PG!Minute) - f
  <2> DEFINE n == w \div PG!GetInterval(tr)
  <2>2. PG!TimeBuckets(tr) = {f + k * PG!GetInterval(tr) : k \in IF w < 0 THEN {} ELSE 0..n}
    BY DEF PG!TimeBuckets
  <2>3. f = first /\ w = width
    BY <1>1
  <2> HIDE DEF f, w, first, width
  <2>4. (IF w < 0 THEN {} ELSE 0..n) = 0..steps
    BY <2>1, <2>3
  <2> HIDE DEF n, steps
  <2> QED
    BY <2>1, <2>2, <2>3, <2>4 DEF Starts
<1>3. first \in Int /\ width \in Int /\ i \in Nat \ {0}
  <2>1. tr.from \in Int /\ tr.to \in Int
    BY DEF IsWindow
  <2>2. first \in Int /\ TruncTo(tr.to, Minute) \in Int
    BY <2>1, MinutesOfSeconds
  <2>3. i \in Nat \ {0}
    BY Intervals
  <2> HIDE DEF first, i
  <2> QED
    BY <2>2, <2>3
<1> HIDE DEF i, first, width
<1>4. steps \in Int
  BY <1>3, SMT
<1> QED
  BY <1>2, <1>3, <1>4 DEF i, first, width

LEMMA PostgresCovers ==
  ASSUME NEW tr, IsWindow(tr), GetInterval(tr) = Minute, NEW t \in Nat,
         TruncTo(tr.from, Second) <= t, TruncTo(t, Second) < TruncTo(tr.to, Second)
  PROVE  TruncTo(t, Minute) \in PG!TimeBuckets(tr)
<1> DEFINE i == Minute
<1> DEFINE first == TruncTo(tr.from, i)
<1> DEFINE last == TruncTo(tr.to, i)
<1> DEFINE m == TruncTo(t, i)
<1> DEFINE width == last - first
<1> DEFINE steps == IF width < 0 THEN -1 ELSE width \div i
<1>1. /\ PG!TimeBuckets(tr) = Starts(first, i, steps) /\ first \in Int /\ width \in Int
      /\ steps \in Int
  BY PostgresBuckets
<1>2. tr.from \in Int /\ tr.to \in Int /\ t \in Int /\ i \in Nat \ {0}
  BY MinutesOfSeconds DEF IsWindow
<1>3. /\ first <= TruncTo(tr.from, Second) /\ last \in Int
      /\ TruncTo(tr.from, Second) \in Int /\ TruncTo(tr.to, Second) \in Int /\ Second \in Nat \ {0}
  BY <1>2, MinutesOfSeconds
<1>4. t < TruncTo(tr.to, Second) /\ TruncTo(tr.to, Second) <= tr.to
  BY <1>2, <1>3, TruncBefore, TruncBounds
<1>5. m \in Int /\ m <= last
  <2>1. t <= tr.to
    BY <1>2, <1>3, <1>4, SMT
  <2> QED
    BY <1>2, <2>1, TruncInOrder, TruncBounds
<1>6. first <= m
  <2>1. first <= t
    BY <1>1, <1>2, <1>3, SMT
  <2>2. TruncTo(first, i) = first
    BY <1>2, TruncAgain
  <2> HIDE DEF i, first
  <2>3. TruncTo(first, i) <= TruncTo(t, i)
    BY <1>1, <1>2, <2>1, TruncInOrder
  <2> QED
    BY <2>2, <2>3
<1>7. PICK x \in Int : m = i * x
  BY <1>2, TruncMultiple
<1>8. PICK y \in Int : first = i * y
  BY <1>2, TruncMultiple
<1> HIDE DEF i, first, last, m
<1>9. width \in Nat /\ steps = width \div i
  BY <1>1, <1>3, <1>5, <1>6, SMT
<1> HIDE DEF steps
<1>10. steps \in Nat /\ steps * i \in Nat /\ width < steps * i + i
  BY <1>2, <1>9, Quotient
<1> DEFINE k == x - y
<1>11. k \in Int /\ k * i = i * x - i * y /\ k * i \in Int
  BY <1>2, SMT
<1>12. k * i = m - first
  BY <1>7, <1>8, <1>11
<1>13. k * i < steps * i + i
  <2> DEFINE c == k * i
  <2> DEFINE e == steps * i
  <2>1. c \in Int /\ c = m - first /\ e \in Nat /\ width < e + i
    BY <1>10, <1>11, <1>12
  <2> HIDE DEF c, e
  <2>2. c < e + i
    BY <1>1, <1>2, <1>3, <1>5, <2>1, SMT
  <2> QED
    BY <2>2 DEF c, e
<1>14. k <= steps
  <2> HIDE DEF k
  <2> QED
    BY <1>1, <1>2, <1>11, <1>13, FewerSteps
<1>15. k >= 0
  <2>1. (0 - 1) * i + i = 0 /\ 0 * i = 0
    BY <1>2, SMT
  <2> HIDE DEF k
  <2>2. 0 * i < k * i + i
    BY <1>1, <1>2, <1>5, <1>6, <1>12, <2>1, SMT
  <2> QED
    BY <1>2, <1>11, <2>2, FewerSteps
<1>16. k \in 0..steps /\ m = first + k * i
  BY <1>1, <1>5, <1>11, <1>12, <1>14, <1>15, SMT
<1> HIDE DEF k
<1>17. m \in Starts(first, i, steps)
  BY <1>16 DEF Starts
<1> QED
  BY <1>1, <1>17 DEF m, i

(***************************************************************************)
(* The queries of a range: outside the closing second, every comparison    *)
(* that a statement makes selects the same ones.                           *)
(***************************************************************************)
InRange(q, tr) == /\ TruncTo(tr.from, Second) <= q.ts
                  /\ TruncTo(q.ts, Second) < TruncTo(tr.to, Second)
LEMMA RangeFacts ==
  ASSUME NEW tr, IsWindow(tr), NEW q, q.ts \in Nat,
         TruncTo(q.ts, Second) # TruncTo(tr.to, Second)
  PROVE  /\ SQ!TsBetween(q, tr) <=> InRange(q, tr)
         /\ SQ!JulianBetween(q, tr) <=> InRange(q, tr)
         /\ PG!TsBetween(q, tr) <=> InRange(q, tr)
         /\ TruncTo(tr.from, Second) <= q.ts /\ q.ts <= tr.to <=> InRange(q, tr)
         /\ TruncTo(tr.from, Second) <= q.ts /\ q.ts < TruncTo(tr.to, Second) <=> InRange(q, tr)
<1> DEFINE a == TruncTo(tr.from, Second)
<1> DEFINE b == TruncTo(tr.to, Second)
<1> DEFINE c == TruncTo(q.ts, Second)
<1>1. q.ts \in Int /\ tr.from \in Int /\ tr.to \in Int /\ Second \in Nat \ {0}
  BY SecondAssumption DEF IsWindow
<1>2. a \in Int /\ b \in Int /\ b <= tr.to /\ c \in Int /\ c <= q.ts
  BY <1>1, TruncBounds
<1>3. c < b => q.ts < b
  BY <1>1, TruncBefore
<1>4. q.ts <= tr.to => c <= b
  BY <1>1, TruncInOrder
<1>5. /\ SQ!TsBetween(q, tr) <=> a <= q.ts /\ c < b
      /\ SQ!JulianBetween(q, tr) <=> a <= q.ts /\ c <= b
      /\ PG!TsBetween(q, tr) <=> a <= q.ts /\ q.ts <= b
  BY DEF SQ!TsBetween, SQ!JulianBetween, PG!TsBetween, SQ!PrepareTimeRange, PG!PrepareTimeRange,
         SQ!Format, PG!Format, SQ!WholeSecond, SQ!TruncTo, PG!TruncTo, TruncTo
<1>6. c # b
  OBVIOUS
<1>7. InRange(q, tr) <=> a <= q.ts /\ c < b
  BY DEF InRange
<1> HIDE DEF a, b, c
<1>8. /\ SQ!TsBetween(q, tr) <=> InRange(q, tr)
      /\ SQ!JulianBetween(q, tr) <=> InRange(q, tr)
      /\ PG!TsBetween(q, tr) <=> InRange(q, tr)
      /\ (a <= q.ts /\ q.ts <= tr.to) <=> InRange(q, tr)
      /\ (a <= q.ts /\ q.ts < b) <=> InRange(q, tr)
  BY <1>1, <1>2, <1>3, <1>4, <1>5, <1>6, <1>7, SMT
<1> QED
  BY <1>8 DEF a, b

(* The counts of disjoint parts that cover R add up. *)
Parts(A, S, R) == /\ \A b \in S : A[b] \subseteq R
                  /\ \A q \in R : \E b \in S : q \in A[b]
                  /\ \A b, c \in S : b # c => A[b] \cap A[c] = {}
Counts(v, A, S, X) == \A b \in S : v[b] = Cardinality(A[b] \cap X)
LEMMA CountsAddUp ==
  ASSUME NEW R, IsFiniteSet(R), NEW S, IsFiniteSet(S), NEW A, Parts(A, S, R),
         NEW X, NEW v, Counts(v, A, S, X), NEW g, IsSum(g, v, S)
  PROVE  g[S] = Cardinality(R \cap X)
<1> DEFINE B == [b \in S |-> A[b] \cap X]
<1>1. \A b \in S : B[b] = A[b] \cap X
  OBVIOUS
<1> HIDE DEF B
<1>2. \A b \in S : IsFiniteSet(B[b])
  <2>1. \A b \in S : B[b] \subseteq R
    BY <1>1 DEF Parts
  <2> QED
    BY <2>1, FS_Subset
<1>3. \A b, c \in S : b # c => B[b] \cap B[c] = {}
  BY <1>1 DEF Parts
<1>4. \A b \in S : v[b] = Cardinality(B[b])
  BY <1>1 DEF Counts
<1>5. g[S] = Cardinality(UNION {B[b] : b \in S})
  BY <1>2, <1>3, <1>4, SumOfSizes
<1>6. UNION {B[b] : b \in S} = R \cap X
  BY <1>1 DEF Parts
<1> QED
  BY <1>5, <1>6

(* What the handlers and the providers make of a range that is given. *)
Asks(r, f, tr) == r.from = tr.from /\ r.to = tr.to /\ r.fingerprint = f
LEMMA RangeParameters ==
  ASSUME NEW f, NEW tr, IsWindow(tr), NEW r, Asks(r, f, tr)
  PROVE  /\ TimeRange(r, now) = tr
         /\ SQ!SetDefaultTimeRange(tr, now) = tr /\ PG!SetDefaultTimeRange(tr, now) = tr
<1>1. tr.from \in Nat /\ tr.to \in Nat /\ tr = [from |-> tr.from, to |-> tr.to]
  BY DEF IsWindow
<1>2. TimeRange(r, now) = tr
  BY <1>1, SMT DEF Asks, TimeRange, getTimeParam, Zero
<1> QED
  BY <1>2, Parameters

LEMMA SameCounts ==
  ASSUME NEW S
  PROVE  /\ SQ!CountOf(S, SQ!IsSuccess) = Cardinality({q \in S : IsSuccess(q)})
         /\ PG!CountOf(S, PG!IsSuccess) = Cardinality({q \in S : IsSuccess(q)})
         /\ SQ!CountOf(S, SQ!IsFailed) = Cardinality({q \in S : IsFailed(q)})
         /\ PG!CountOf(S, PG!IsFailed) = Cardinality({q \in S : IsFailed(q)})
         /\ SQ!CountOf(S, SQ!IsClientError) = Cardinality({q \in S : IsClientError(q)})
         /\ PG!CountOf(S, PG!IsClientError) = Cardinality({q \in S : IsClientError(q)})
         /\ SQ!CountOf(S, SQ!IsServerError) = Cardinality({q \in S : IsServerError(q)})
         /\ PG!CountOf(S, PG!IsServerError) = Cardinality({q \in S : IsServerError(q)})
  BY SameCardinality DEF SQ!CountOf, PG!CountOf, SQ!Keep, PG!Keep,
       SQ!IsSuccess, PG!IsSuccess, IsSuccess, SQ!IsFailed, PG!IsFailed, IsFailed,
       SQ!IsClientError, PG!IsClientError, IsClientError,
       SQ!IsServerError, PG!IsServerError, IsServerError

(* The queries that the rate counts, the buckets, and what each one holds. *)
Outside(tr) == queries \ Closing(tr)
RangeRows(tr) == {q \in Outside(tr) : InRange(q, tr)}
Rated(f, tr) == {q \in Outside(tr) : InRange(q, tr) /\ HasFingerprint(q, f)}
Buckets(tr) == IF conf.provider = "sqlite" THEN SQ!TimeBuckets(tr) ELSE PG!TimeBuckets(tr)
HeldIn(b, q, tr) == IF conf.provider = "sqlite" THEN b <= q.ts /\ q.ts < b + GetInterval(tr)
                                                ELSE TruncTo(q.ts, Minute) = b
HeldOf(b, f, tr) == {q \in Rated(f, tr) : HeldIn(b, q, tr)}
Held(f, tr) == [b \in Buckets(tr) |-> HeldOf(b, f, tr)]

LEMMA RatedFacts ==
  ASSUME ReaderInv, NEW f, NEW tr
  PROVE  /\ IsFiniteSet(Rated(f, tr))
         /\ \A q \in Rated(f, tr) : /\ q \in queries /\ q.ts \in Nat /\ Stored(q)
                                    /\ TruncTo(q.ts, Second) # TruncTo(tr.to, Second)
                                    /\ InRange(q, tr) /\ HasFingerprint(q, f)
<1>1. Rated(f, tr) \subseteq queries
  BY DEF Rated, Outside
<1> QED
  BY <1>1, StoredQueries, FS_Subset DEF Rated, Outside, Closing

(* Each query of the range is in one bucket. *)
LEMMA HeldOnce ==
  ASSUME ReaderInv, NEW f, NEW tr, IsWindow(tr),
         conf.provider = "sqlite" \/ GetInterval(tr) = Minute
  PROVE  LET A == Held(f, tr)
         IN  /\ IsFiniteSet(Buckets(tr))
             /\ \A b \in Buckets(tr) : A[b] = HeldOf(b, f, tr)
             /\ Parts(A, Buckets(tr), Rated(f, tr))
<1> DEFINE S == Buckets(tr)
<1> DEFINE R == Rated(f, tr)
<1> DEFINE i == GetInterval(tr)
<1>1. \A b \in S : Held(f, tr)[b] = HeldOf(b, f, tr) /\ HeldOf(b, f, tr) \subseteq R
  BY DEF Held, HeldOf
<1>2. i \in Nat \ {0}
  BY Intervals
<1>3. \A q \in R : q.ts \in Nat /\ InRange(q, tr)
  BY RatedFacts
<1>4. CASE conf.provider = "sqlite"
  <2>1. S = SQ!TimeBuckets(tr) /\ \A b, q : HeldIn(b, q, tr) <=> b <= q.ts /\ q.ts < b + i
    BY <1>4 DEF Buckets, HeldIn
  <2>2. PICK first \in Int, steps \in Nat : S = Starts(first, i, steps)
    BY <2>1, SqliteBuckets
  <2>3. IsFiniteSet(S)
    BY <1>2, <2>2, StartsFinite
  <2>4. ASSUME NEW q \in R PROVE \E b \in S : q \in HeldOf(b, f, tr)
    <3>1. \E b \in S : b <= q.ts /\ q.ts < b + i
      BY <1>3, <2>1, SqliteCovers DEF InRange
    <3> QED
      BY <2>1, <3>1 DEF HeldOf
  <2>5. ASSUME NEW b \in S, NEW c \in S, NEW q \in HeldOf(b, f, tr) \cap HeldOf(c, f, tr)
        PROVE  b = c
    <3>1. b <= q.ts /\ q.ts < b + i /\ c <= q.ts /\ q.ts < c + i /\ q.ts \in Int
      BY <1>3, <2>1 DEF HeldOf
    <3> HIDE DEF S, i
    <3> QED
      BY <1>2, <2>2, <3>1, StartsApart
  <2> HIDE DEF S, R
  <2> QED
    BY <1>1, <2>3, <2>4, <2>5 DEF S, R, Parts
<1>5. CASE conf.provider # "sqlite"
  <2>1. S = PG!TimeBuckets(tr) /\ \A b, q : HeldIn(b, q, tr) <=> TruncTo(q.ts, Minute) = b
    BY <1>5 DEF Buckets, HeldIn
  <2>2. PICK first \in Int, steps \in Int : S = Starts(first, i, steps)
    BY <2>1, PostgresBuckets
  <2>3. IsFiniteSet(S)
    BY <1>2, <2>2, StartsFinite
  <2>4. ASSUME NEW q \in R PROVE \E b \in S : q \in HeldOf(b, f, tr)
    <3>1. TruncTo(q.ts, Minute) \in S
      BY <1>3, <1>5, <2>1, PostgresCovers DEF InRange
    <3> QED
      BY <2>1, <3>1 DEF HeldOf
  <2>5. ASSUME NEW b \in S, NEW c \in S, NEW q \in HeldOf(b, f, tr) \cap HeldOf(c, f, tr)
        PROVE  b = c
    BY <2>1 DEF HeldOf
  <2> HIDE DEF S, R
  <2> QED
    BY <1>1, <2>3, <2>4, <2>5 DEF S, R, Parts
<1> QED
  BY <1>4, <1>5

(* The totals of the query rate. *)
LEMMA RateTotals ==
  ASSUME ReaderInv, NEW f, NEW tr, IsWindow(tr), NEW r, Asks(r, f, tr),
         NEW d, d.queries = Outside(tr)
  PROVE  LET rate == queryRate(conf.provider, d, r, now)
         IN  /\ OrZero(rate.successTotal) = Cardinality({q \in Rated(f, tr) : IsSuccess(q)})
             /\ OrZero(rate.errorTotal) = Cardinality({q \in Rated(f, tr) : IsFailed(q)})
<1> DEFINE R == Rated(f, tr)
<1> DEFINE s == Cardinality({q \in R : IsSuccess(q)})
<1> DEFINE e == Cardinality({q \in R : IsFailed(q)})
<1> DEFINE rate == queryRate(conf.provider, d, r, now)
<1>1. TimeRange(r, now) = tr
  BY RangeParameters
<1>2. \A q \in d.queries : /\ SQ!TsBetween(q, tr) <=> InRange(q, tr)
                           /\ PG!TsBetween(q, tr) <=> InRange(q, tr)
  BY StoredQueries, RangeFacts DEF Outside, Closing
<1>3. \A q : /\ SQ!HasFingerprint(q, f) <=> HasFingerprint(q, f)
             /\ PG!HasFingerprint(q, f) <=> HasFingerprint(q, f)
  BY DEF SQ!HasFingerprint, PG!HasFingerprint, HasFingerprint, SQ!Any, PG!Any, Any
<1>4. SQ!Any = Any /\ PG!Any = Any
  BY DEF SQ!Any, PG!Any, Any
<1>5. s \in Nat /\ e \in Nat /\ (R = {} => s = 0 /\ e = 0)
  <2>1. /\ {q \in R : IsSuccess(q)} \in SUBSET R /\ {q \in R : IsFailed(q)} \in SUBSET R
        /\ IsFiniteSet(R)
    BY RatedFacts
  <2>2. R = {} => {q \in R : IsSuccess(q)} = {} /\ {q \in R : IsFailed(q)} = {}
    OBVIOUS
  <2> HIDE DEF R
  <2> QED
    BY <2>1, <2>2, FS_Subset, FS_CardinalityType, FS_EmptySet
<1>6. CASE conf.provider = "sqlite"
  <2> DEFINE rows == {q \in d.queries : /\ SQ!TsBetween(q, tr)
                                        /\ Any = SQ!Any \/ SQ!MetricMatches(q, Any)
                                        /\ SQ!HasFingerprint(q, f)}
  <2>1. rows = R
    BY <1>2, <1>3, <1>4 DEF Rated
  <2>2. /\ rate.successTotal = IF rows = {} THEN SQ!Null ELSE SQ!CountOf(rows, SQ!IsSuccess)
        /\ rate.errorTotal = IF rows = {} THEN SQ!Null ELSE SQ!CountOf(rows, SQ!IsFailed)
    BY <1>1, <1>6 DEF Asks, queryRate, SQ!GetQueryRate
  <2>3. SQ!Null = Null
    BY SMT DEF SQ!Null, Null
  <2> HIDE DEF rows, R, rate
  <2>4. /\ rate.successTotal = IF R = {} THEN Null ELSE s
        /\ rate.errorTotal = IF R = {} THEN Null ELSE e
    BY <2>1, <2>2, <2>3, SameCounts
  <2> HIDE DEF s, e
  <2>5. OrZero(rate.successTotal) = s /\ OrZero(rate.errorTotal) = e
    BY <1>5, <2>4, SMT DEF OrZero, Null
  <2> QED
    BY <2>5 DEF s, e, rate, R
<1>7. CASE conf.provider # "sqlite"
  <2> DEFINE rows == {q \in d.queries : /\ PG!TsBetween(q, tr)
                                        /\ Any = PG!Any \/ PG!MetricMatches(q, Any)
                                        /\ PG!HasFingerprint(q, f)}
  <2>1. rows = R
    BY <1>2, <1>3, <1>4 DEF Rated
  <2>2. /\ rate.successTotal = PG!CountOf(rows, PG!IsSuccess)
        /\ rate.errorTotal = PG!CountOf(rows, PG!IsFailed)
    BY <1>1, <1>7 DEF Asks, queryRate, PG!GetQueryRate
  <2> HIDE DEF rows, R, rate
  <2>3. rate.successTotal = s /\ rate.errorTotal = e
    BY <2>1, <2>2, SameCounts
  <2> HIDE DEF s, e
  <2>4. OrZero(rate.successTotal) = s /\ OrZero(rate.errorTotal) = e
    BY <1>5, <2>3, SMT DEF OrZero, Null
  <2> QED
    BY <2>4 DEF s, e, rate, R
<1> QED
  BY <1>6, <1>7

(* The queries of a range that a bucket of each provider holds. *)
LEMMA BucketRows ==
  ASSUME ReaderInv, NEW tr, IsWindow(tr), NEW b, NEW T, T \subseteq Outside(tr)
  PROVE  /\ SQ!InBucket(T, b, tr) = {q \in T : b <= q.ts /\ q.ts < b + GetInterval(tr)}
         /\ PG!InBucket(T, b, tr) = {q \in T : InRange(q, tr) /\ TruncTo(q.ts, Minute) = b}
<1>1. \A q \in T : /\ q.ts \in Nat
                   /\ TruncTo(tr.from, Second) <= q.ts /\ q.ts < TruncTo(tr.to, Second) <=> InRange(q, tr)
  BY StoredQueries, RangeFacts DEF Outside, Closing
<1>2. SQ!InBucket(T, b, tr) = {q \in T : b <= q.ts /\ q.ts < b + GetInterval(tr)}
  BY Intervals DEF SQ!InBucket
<1>3. PG!InBucket(T, b, tr)
        = {q \in T : /\ TruncTo(tr.from, Second) <= q.ts /\ q.ts < TruncTo(tr.to, Second)
                     /\ TruncTo(q.ts, Minute) = b}
  BY DEF PG!InBucket, PG!PrepareTimeRange, PG!Format, PG!TruncTo, TruncTo, PG!Minute, Minute
<1> QED
  BY <1>1, <1>2, <1>3

StatusOf(S) == [status2xx |-> Cardinality({q \in S : IsSuccess(q)}),
                status4xx |-> Cardinality({q \in S : IsClientError(q)}),
                status5xx |-> Cardinality({q \in S : IsServerError(q)})]
LEMMA StatusSeries ==
  ASSUME ReaderInv, NEW f, NEW tr, IsWindow(tr), NEW r, Asks(r, f, tr),
         NEW d, d.queries = Outside(tr)
  PROVE  queryStatusDistribution(conf.provider, d, r, now)
           = [b \in Buckets(tr) |-> StatusOf(HeldOf(b, f, tr))]
<1>1. /\ TimeRange(r, now) = tr
      /\ SQ!SetDefaultTimeRange(tr, now) = tr /\ PG!SetDefaultTimeRange(tr, now) = tr
  BY RangeParameters
<1>2. \A q \in d.queries : SQ!JulianBetween(q, tr) <=> InRange(q, tr)
  BY StoredQueries, RangeFacts DEF Outside, Closing
<1>3. \A q : /\ SQ!HasFingerprint(q, f) <=> HasFingerprint(q, f)
             /\ PG!HasFingerprint(q, f) <=> HasFingerprint(q, f)
  BY DEF SQ!HasFingerprint, PG!HasFingerprint, HasFingerprint, SQ!Any, PG!Any, Any
<1>4. CASE conf.provider = "sqlite"
  <2> DEFINE T == {q \in d.queries : SQ!JulianBetween(q, tr) /\ SQ!HasFingerprint(q, f)}
  <2> DEFINE V(b) == SQ!InBucket(T, b, tr)
  <2>1. T \subseteq Outside(tr) /\ T = Rated(f, tr)
    BY <1>2, <1>3 DEF Rated
  <2>2. queryStatusDistribution(conf.provider, d, r, now)
          = [b \in SQ!TimeBuckets(tr) |-> [status2xx |-> SQ!CountOf(V(b), SQ!IsSuccess),
                                           status4xx |-> SQ!CountOf(V(b), SQ!IsClientError),
                                           status5xx |-> SQ!CountOf(V(b), SQ!IsServerError)]]
    BY <1>1, <1>4 DEF Asks, queryStatusDistribution, SQ!GetQueryStatusDistribution
  <2> HIDE DEF T
  <2>3. \A b : V(b) = HeldOf(b, f, tr)
    BY <1>4, <2>1, BucketRows DEF HeldOf, HeldIn
  <2>4. Buckets(tr) = SQ!TimeBuckets(tr)
    BY <1>4 DEF Buckets
  <2> HIDE DEF V
  <2> QED
    BY <2>2, <2>3, <2>4, SameCounts DEF StatusOf
<1>5. CASE conf.provider # "sqlite"
  <2> DEFINE T == {q \in d.queries : PG!HasFingerprint(q, f)}
  <2> DEFINE V(b) == PG!InBucket(T, b, tr)
  <2>1. T \subseteq Outside(tr) /\ {q \in T : InRange(q, tr)} = Rated(f, tr)
    BY <1>3 DEF Rated
  <2>2. queryStatusDistribution(conf.provider, d, r, now)
          = [b \in PG!TimeBuckets(tr) |-> [status2xx |-> PG!CountOf(V(b), PG!IsSuccess),
                                           status4xx |-> PG!CountOf(V(b), PG!IsClientError),
                                           status5xx |-> PG!CountOf(V(b), PG!IsServerError)]]
    BY <1>1, <1>5 DEF Asks, queryStatusDistribution, PG!GetQueryStatusDistribution
  <2> HIDE DEF T
  <2>3. \A b : V(b) = HeldOf(b, f, tr)
    <3>1. \A b : V(b) = {q \in T : InRange(q, tr) /\ TruncTo(q.ts, Minute) = b}
      BY <2>1, BucketRows
    <3>2. \A b, q : HeldIn(b, q, tr) <=> TruncTo(q.ts, Minute) = b
      BY <1>5 DEF HeldIn
    <3> HIDE DEF V
    <3> QED
      BY <2>1, <3>1, <3>2 DEF HeldOf
  <2>4. Buckets(tr) = PG!TimeBuckets(tr)
    BY <1>5 DEF Buckets
  <2> HIDE DEF V
  <2> QED
    BY <2>2, <2>3, <2>4, SameCounts DEF StatusOf
<1> QED
  BY <1>4, <1>5

(* The series of errors and of all queries, from the queries of the range. *)
FailedHeld(f, tr) == [b \in Buckets(tr) |-> Cardinality({q \in HeldOf(b, f, tr) : IsFailed(q)})]
CountHeld(f, tr) == [b \in Buckets(tr) |-> Cardinality(HeldOf(b, f, tr))]
LEMMA ErrorAndThroughputSeries ==
  ASSUME ReaderInv, NEW f, NEW tr, IsWindow(tr), NEW r, Asks(r, f, tr),
         NEW d, d.queries = RangeRows(tr)
  PROVE  /\ queryErrorAnalysis(conf.provider, d, r, now) = FailedHeld(f, tr)
         /\ f = Any => queryThroughputAnalysis(conf.provider, d, r, now) = CountHeld(f, tr)
         /\ f = Any => queryTypes(conf.provider, d, r, now).totalQueries = Cardinality(Rated(f, tr))
<1>1. /\ TimeRange(r, now) = tr
      /\ SQ!SetDefaultTimeRange(tr, now) = tr /\ PG!SetDefaultTimeRange(tr, now) = tr
  BY RangeParameters
<1>2. \A q \in d.queries : /\ InRange(q, tr)
                           /\ SQ!TsBetween(q, tr) <=> InRange(q, tr)
                           /\ PG!TsBetween(q, tr) <=> InRange(q, tr)
  BY StoredQueries, RangeFacts DEF Outside, Closing, RangeRows
<1>3. \A q : /\ SQ!HasFingerprint(q, f) <=> HasFingerprint(q, f)
             /\ PG!HasFingerprint(q, f) <=> HasFingerprint(q, f)
  BY DEF SQ!HasFingerprint, PG!HasFingerprint, HasFingerprint, SQ!Any, PG!Any, Any
<1>4. d.queries \subseteq Outside(tr) /\ (f = Any => d.queries = Rated(f, tr))
  BY DEF Rated, HasFingerprint, RangeRows
<1>5. CASE conf.provider = "sqlite"
  <2> DEFINE T == {q \in d.queries : SQ!HasFingerprint(q, f)}
  <2> DEFINE V(b) == SQ!InBucket(T, b, tr)
  <2> DEFINE U == {q \in d.queries : SQ!TsBetween(q, tr) /\ SQ!HasFingerprint(q, f)}
  <2>1. T \subseteq Outside(tr) /\ T = Rated(f, tr) /\ U = T
    BY <1>2, <1>3 DEF Rated, RangeRows
  <2>2. /\ queryErrorAnalysis(conf.provider, d, r, now)
             = [b \in SQ!TimeBuckets(tr) |-> SQ!CountOf(V(b), SQ!IsFailed)]
        /\ queryThroughputAnalysis(conf.provider, d, r, now)
             = [b \in SQ!TimeBuckets(tr) |-> SQ!Cardinality(SQ!InBucket(d.queries, b, tr))]
        /\ queryTypes(conf.provider, d, r, now).totalQueries = SQ!Cardinality(U)
    BY <1>1, <1>5 DEF Asks, queryErrorAnalysis, SQ!GetQueryErrorAnalysis, queryThroughputAnalysis,
         SQ!GetQueryThroughputAnalysis, queryTypes, SQ!GetQueryTypes
  <2>3. f = Any => d.queries = T
    BY <1>4, <2>1
  <2> HIDE DEF T, U
  <2>4. \A b : V(b) = HeldOf(b, f, tr)
    BY <1>5, <2>1, BucketRows DEF HeldOf, HeldIn
  <2>5. Buckets(tr) = SQ!TimeBuckets(tr)
    BY <1>5 DEF Buckets
  <2>6. f = Any => \A b : SQ!InBucket(d.queries, b, tr) = HeldOf(b, f, tr)
    BY <2>3, <2>4
  <2> HIDE DEF V
  <2> QED
    BY <2>1, <2>2, <2>4, <2>5, <2>6, SameCounts, SameCardinality DEF FailedHeld, CountHeld
<1>6. CASE conf.provider # "sqlite"
  <2> DEFINE T == {q \in d.queries : PG!HasFingerprint(q, f)}
  <2> DEFINE V(b) == PG!InBucket(T, b, tr)
  <2> DEFINE U == {q \in d.queries : PG!TsBetween(q, tr) /\ PG!HasFingerprint(q, f)}
  <2>1. T \subseteq Outside(tr) /\ T = Rated(f, tr) /\ U = T
    BY <1>2, <1>3 DEF Rated, RangeRows
  <2>2. /\ queryErrorAnalysis(conf.provider, d, r, now)
             = [b \in PG!TimeBuckets(tr) |-> PG!CountOf(V(b), PG!IsFailed)]
        /\ queryThroughputAnalysis(conf.provider, d, r, now)
             = [b \in PG!TimeBuckets(tr) |-> PG!Cardinality(PG!InBucket(d.queries, b, tr))]
        /\ queryTypes(conf.provider, d, r, now).totalQueries = PG!Cardinality(U)
    BY <1>1, <1>6 DEF Asks, queryErrorAnalysis, PG!GetQueryErrorAnalysis, queryThroughputAnalysis,
         PG!GetQueryThroughputAnalysis, queryTypes, PG!GetQueryTypes
  <2>3. f = Any => d.queries = T
    BY <1>4, <2>1
  <2>4. \A q \in T : InRange(q, tr)
    BY <1>2
  <2> HIDE DEF T, U
  <2>5. \A b : V(b) = HeldOf(b, f, tr)
    <3>1. \A b : V(b) = {q \in T : InRange(q, tr) /\ TruncTo(q.ts, Minute) = b}
      BY <2>1, BucketRows
    <3>2. \A b, q : HeldIn(b, q, tr) <=> TruncTo(q.ts, Minute) = b
      BY <1>6 DEF HeldIn
    <3> HIDE DEF V
    <3> QED
      BY <2>1, <2>4, <3>1, <3>2 DEF HeldOf
  <2>6. Buckets(tr) = PG!TimeBuckets(tr)
    BY <1>6 DEF Buckets
  <2>7. f = Any => \A b : PG!InBucket(d.queries, b, tr) = HeldOf(b, f, tr)
    BY <2>3, <2>5
  <2> HIDE DEF V
  <2> QED
    BY <2>1, <2>2, <2>5, <2>6, <2>7, SameCounts, SameCardinality DEF FailedHeld, CountHeld
<1> QED
  BY <1>5, <1>6

(* Adding up what the buckets hold. *)
LEMMA StatusAddsUp ==
  ASSUME ReaderInv, NEW f, NEW tr, IsWindow(tr),
         conf.provider = "sqlite" \/ GetInterval(tr) = Minute,
         NEW w, w = [b \in Buckets(tr) |-> StatusOf(HeldOf(b, f, tr))]
  PROVE  /\ Total(w, LAMBDA b : b.status2xx) = Cardinality({q \in Rated(f, tr) : IsSuccess(q)})
         /\ Total(w, LAMBDA b : b.status4xx + b.status5xx)
              = Cardinality({q \in Rated(f, tr) : IsFailed(q)})
<1> DEFINE S == Buckets(tr)
<1> DEFINE R == Rated(f, tr)
<1> DEFINE A == Held(f, tr)
<1> DEFINE X == {q \in queries : IsSuccess(q)}
<1> DEFINE Y == {q \in queries : IsFailed(q)}
<1>1. /\ IsFiniteSet(S) /\ Parts(A, S, R)
      /\ \A b \in S : A[b] = HeldOf(b, f, tr)
  BY HeldOnce
<1>2. IsFiniteSet(R) /\ \A q \in R : q \in queries /\ q.statusCode \in 100..599
  BY RatedFacts DEF Stored
<1>3. \A T \in SUBSET R : /\ {q \in T : IsSuccess(q)} = T \cap X
                          /\ {q \in T : IsFailed(q)} = T \cap Y
  BY <1>2
<1>4. DOMAIN w = S /\ \A b \in S : w[b] = StatusOf(A[b])
  BY <1>1
<1>5. \A b \in S : A[b] \subseteq R
  BY <1>1 DEF Parts
<1> HIDE DEF S, R, A, X, Y
<1>6. ASSUME NEW b \in S PROVE w[b].status2xx = Cardinality(A[b] \cap X)
  BY <1>3, <1>4, <1>5 DEF StatusOf
<1>7. ASSUME NEW b \in S
      PROVE  w[b].status4xx + w[b].status5xx = Cardinality(A[b] \cap Y)
  <2> DEFINE C == {q \in A[b] : IsClientError(q)}
  <2> DEFINE D == {q \in A[b] : IsServerError(q)}
  <2>1. \A q \in A[b] : q.statusCode \in 100..599
    BY <1>2, <1>5
  <2>2. C \cup D = {q \in A[b] : IsFailed(q)} /\ C \cap D = {}
    <3>1. ASSUME NEW q \in A[b]
          PROVE  /\ IsFailed(q) <=> IsClientError(q) \/ IsServerError(q)
                 /\ ~(IsClientError(q) /\ IsServerError(q))
      <4> DEFINE code == q.statusCode
      <4>1. code \in 100..599
        BY <2>1
      <4>2. /\ IsFailed(q) <=> code >= 400
            /\ IsClientError(q) <=> code >= 400 /\ code < 500
            /\ IsServerError(q) <=> code >= 500 /\ code < 600
        BY DEF IsClientError, IsServerError, IsFailed
      <4> HIDE DEF code
      <4> QED
        BY <4>1, <4>2, SMT
    <3> QED
      BY <3>1, Zenon
  <2>3. IsFiniteSet(C) /\ IsFiniteSet(D)
    <3>1. C \in SUBSET R /\ D \in SUBSET R
      BY <1>5
    <3> QED
      BY <1>2, <3>1, FS_Subset
  <2>4. w[b].status4xx = Cardinality(C) /\ w[b].status5xx = Cardinality(D)
    BY <1>4 DEF StatusOf
  <2> HIDE DEF C, D
  <2>5. Cardinality(C \cup D) = Cardinality(C) + Cardinality(D) - Cardinality({})
    BY <2>2, <2>3, FS_Union
  <2>6. Cardinality(C) \in Nat /\ Cardinality(D) \in Nat /\ Cardinality({}) = 0
    BY <2>3, FS_CardinalityType, FS_EmptySet
  <2>7. {q \in A[b] : IsFailed(q)} = A[b] \cap Y
    BY <1>3, <1>5
  <2>8. Cardinality(A[b] \cap Y) = Cardinality(C) + Cardinality(D) - 0
    BY <2>2, <2>5, <2>6, <2>7
  <2>9. w[b].status4xx + w[b].status5xx = Cardinality(C) + Cardinality(D)
    BY <2>4
  <2> DEFINE x == Cardinality(C)
  <2> DEFINE y == Cardinality(D)
  <2> HIDE DEF x, y
  <2>10. x + y - 0 = x + y
    BY <2>6, SMT DEF x, y
  <2> QED
    BY <2>8, <2>9, <2>10 DEF x, y
<1> DEFINE v == SuccessesIn(w, S)
<1> DEFINE u == ErrorsIn(w, S)
<1>8. Counts(v, A, S, X) /\ Counts(u, A, S, Y)
  BY <1>6, <1>7 DEF Counts, SuccessesIn, ErrorsIn
<1>9. PICK g : IsSum(g, v, S) /\ SuccessesOver(w, S) = g[S]
  BY <1>1, SumOfSuccesses
<1>10. PICK h : IsSum(h, u, S) /\ ErrorsOver(w, S) = h[S]
  BY <1>1, SumOfErrors
<1>11. Total(w, LAMBDA b : b.status2xx) = SuccessesOver(w, S)
  BY <1>4 DEF Total, SumOver, SuccessesOver, ErrorsOver
<1>12. Total(w, LAMBDA b : b.status4xx + b.status5xx)
         = ErrorsOver(w, S)
  BY <1>4 DEF Total, SumOver, SuccessesOver, ErrorsOver
<1> HIDE DEF u, v
<1>13. g[S] = Cardinality(R \cap X)
  BY <1>1, <1>2, <1>8, <1>9, CountsAddUp
<1>14. h[S] = Cardinality(R \cap Y)
  BY <1>1, <1>2, <1>8, <1>10, CountsAddUp
<1>15. /\ {q \in R : IsSuccess(q)} = R \cap X
       /\ {q \in R : IsFailed(q)} = R \cap Y
  BY <1>3
<1> QED
  BY <1>9, <1>10, <1>11, <1>12, <1>13, <1>15, <1>14 DEF R

LEMMA CountedAddsUp ==
  ASSUME ReaderInv, NEW f, NEW tr, IsWindow(tr),
         conf.provider = "sqlite" \/ GetInterval(tr) = Minute, NEW X, NEW w,
         DOMAIN w = Buckets(tr), \A b \in Buckets(tr) : w[b] = Cardinality(HeldOf(b, f, tr) \cap X)
  PROVE  Total(w, LAMBDA v : v) = Cardinality(Rated(f, tr) \cap X)
<1> DEFINE S == Buckets(tr)
<1> DEFINE R == Rated(f, tr)
<1> DEFINE A == Held(f, tr)
<1>1. /\ IsFiniteSet(S) /\ Parts(A, S, R)
      /\ \A b \in S : A[b] = HeldOf(b, f, tr)
  BY HeldOnce
<1>2. IsFiniteSet(R)
  BY RatedFacts
<1>3. Counts(w, A, S, X)
  BY <1>1 DEF Counts
<1>4. DOMAIN w = S
  OBVIOUS
<1> HIDE DEF S, R, A
<1>5. PICK g : IsSum(g, w, S) /\ SumOver(w, S) = g[S]
  BY <1>1, SumOfValues
<1>6. Total(w, LAMBDA v : v) = SumOver(w, S)
  BY <1>4 DEF Total, SumOver, SuccessesOver, ErrorsOver
<1>7. g[S] = Cardinality(R \cap X)
  BY <1>1, <1>2, <1>3, <1>5, CountsAddUp
<1> QED
  BY <1>5, <1>6, <1>7 DEF R

(* The tables without the closing second, and those of the range only. *)
Without(tr) == [db EXCEPT !.queries = @ \ Closing(tr)]
Within(tr) == [Without(tr) EXCEPT !.queries = {q \in @ : TruncTo(tr.from, Second) <= q.ts
                                                           /\ q.ts <= tr.to}]
AskFor(f, tr) == [Ask(tr) EXCEPT !.fingerprint = f]
LEMMA RangeTables ==
  ASSUME ReaderInv, NEW tr, IsWindow(tr), NEW f
  PROVE  /\ Without(tr).queries = Outside(tr)
         /\ Within(tr).queries = RangeRows(tr)
         /\ Asks(AskFor(f, tr), f, tr)
<1>1. Without(tr).queries = Outside(tr)
  BY DEF Without, Outside, db
<1>2. Within(tr).queries = {q \in Without(tr).queries : TruncTo(tr.from, Second) <= q.ts /\ q.ts <= tr.to}
  BY DEF Within, Without, db
<1>3. \A q \in Outside(tr) :
        TruncTo(tr.from, Second) <= q.ts /\ q.ts <= tr.to <=> InRange(q, tr)
  BY StoredQueries, RangeFacts DEF Outside, Closing
<1>4. Asks(AskFor(f, tr), f, tr)
  BY DEF Asks, AskFor, Ask
<1> QED
  BY <1>1, <1>2, <1>3, <1>4 DEF RangeRows

BucketSums(f, tr) ==
  LET r == AskFor(f, tr)
      status == queryStatusDistribution(conf.provider, Without(tr), r, now)
      rate == queryRate(conf.provider, Without(tr), r, now)
  IN  /\ Total(status, LAMBDA b : b.status2xx) = OrZero(rate.successTotal)
      /\ Total(status, LAMBDA b : b.status4xx + b.status5xx) = OrZero(rate.errorTotal)
      /\ Total(queryErrorAnalysis(conf.provider, Within(tr), r, now), LAMBDA v : v)
           = OrZero(rate.errorTotal)
      /\ f = Any => Total(queryThroughputAnalysis(conf.provider, Within(tr), r, now), LAMBDA v : v)
                      = queryTypes(conf.provider, Within(tr), r, now).totalQueries
LEMMA BucketSumsExact ==
  ASSUME ReaderInv, NEW f, NEW tr, IsWindow(tr),
         conf.provider = "sqlite" \/ GetInterval(tr) = Minute
  PROVE  BucketSums(f, tr)
<1> DEFINE r == AskFor(f, tr)
<1> DEFINE rate == queryRate(conf.provider, Without(tr), r, now)
<1> DEFINE status == queryStatusDistribution(conf.provider, Without(tr), r, now)
<1> DEFINE errors == queryErrorAnalysis(conf.provider, Within(tr), r, now)
<1> DEFINE through == queryThroughputAnalysis(conf.provider, Within(tr), r, now)
<1> DEFINE types == queryTypes(conf.provider, Within(tr), r, now)
<1> DEFINE R == Rated(f, tr)
<1> DEFINE Y == {q \in queries : IsFailed(q)}
<1>1. /\ Asks(r, f, tr) /\ Without(tr).queries = Outside(tr)
      /\ Within(tr).queries = RangeRows(tr)
  BY RangeTables
<1> HIDE DEF r
<1>2. /\ OrZero(rate.successTotal) = Cardinality({q \in R : IsSuccess(q)})
      /\ OrZero(rate.errorTotal) = Cardinality({q \in R : IsFailed(q)})
  BY <1>1, RateTotals
<1>3. status = [b \in Buckets(tr) |-> StatusOf(HeldOf(b, f, tr))]
  BY <1>1, StatusSeries
<1>4. /\ errors = FailedHeld(f, tr)
      /\ f = Any => through = CountHeld(f, tr)
      /\ f = Any => types.totalQueries = Cardinality(R)
  BY <1>1, ErrorAndThroughputSeries
<1>5. R \subseteq queries /\ \A b : HeldOf(b, f, tr) \subseteq R
  BY RatedFacts DEF HeldOf
<1> HIDE DEF rate, status, errors, through, types, R
<1>6. /\ Total(status, LAMBDA b : b.status2xx) = Cardinality({q \in R : IsSuccess(q)})
      /\ Total(status, LAMBDA b : b.status4xx + b.status5xx) = Cardinality({q \in R : IsFailed(q)})
  BY <1>3, StatusAddsUp DEF R
<1>7. /\ {q \in R : IsFailed(q)} = R \cap Y
      /\ \A b : {q \in HeldOf(b, f, tr) : IsFailed(q)} = HeldOf(b, f, tr) \cap Y
  BY <1>5
<1> HIDE DEF Y
<1>8. Total(errors, LAMBDA v : v) = Cardinality(R \cap Y)
  <2>1. /\ DOMAIN errors = Buckets(tr)
        /\ \A b \in Buckets(tr) : errors[b] = Cardinality(HeldOf(b, f, tr) \cap Y)
    BY <1>4, <1>7 DEF FailedHeld
  <2> QED
    BY <2>1, CountedAddsUp DEF R
<1>9. ASSUME f = Any PROVE Total(through, LAMBDA v : v) = types.totalQueries
  <2>1. \A b : HeldOf(b, f, tr) \cap queries = HeldOf(b, f, tr)
    BY <1>5
  <2>2. /\ DOMAIN through = Buckets(tr)
        /\ \A b \in Buckets(tr) : through[b] = Cardinality(HeldOf(b, f, tr) \cap queries)
    BY <1>4, <1>9, <2>1 DEF CountHeld
  <2>3. Total(through, LAMBDA v : v) = Cardinality(R \cap queries)
    BY <2>2, CountedAddsUp DEF R
  <2>4. R \cap queries = R
    BY <1>5
  <2> QED
    BY <1>4, <1>9, <2>3, <2>4
<1>10. /\ Total(status, LAMBDA b : b.status2xx) = OrZero(rate.successTotal)
       /\ Total(status, LAMBDA b : b.status4xx + b.status5xx) = OrZero(rate.errorTotal)
       /\ Total(errors, LAMBDA v : v) = OrZero(rate.errorTotal)
       /\ f = Any => Total(through, LAMBDA v : v) = types.totalQueries
  BY <1>2, <1>6, <1>7, <1>8, <1>9
<1> QED
  BY <1>10, Zenon DEF BucketSums, status, rate, errors, through, types, r

(* In every reachable state and for every range, the buckets of the status  *)
(* distribution, the error analysis and the throughput analysis add up to   *)
(* what the query rate and the query types report: no query of the range    *)
(* falls between two buckets or into both.                                  *)
THEOREM BucketsAreExact == Spec => []BucketsAddUp
<1>1. ReaderInv => BucketsAddUp
  <2> SUFFICES ASSUME ReaderInv, NEW tr \in Ranges, NEW f \in Fingerprints,
                      conf.provider = "sqlite" \/ GetInterval(tr) = Minute
               PROVE  BucketSums(f, tr)
    BY Zenon DEF BucketsAddUp, BucketSums, AskFor, Without, Within
  <2> QED
    BY RangesAreWindows, BucketSumsExact
<1> QED
  BY <1>1, ReaderInvariant, PTL

(***************************************************************************)
(* The answers of the two providers, from tables d whose queries are       *)
(* outside the closing second.                                             *)
(***************************************************************************)
RowsOf(d, f, tr) == {q \in d.queries : InRange(q, tr) /\ HasFingerprint(q, f)}
Spared(d, tr) == d.queries \subseteq Outside(tr)

LEMMA SparedFacts ==
  ASSUME ReaderInv, NEW tr, IsWindow(tr), NEW d, Spared(d, tr), NEW f
  PROVE  /\ \A q \in d.queries : /\ q.ts \in Nat /\ Stored(q) /\ q.labelMatchers \in Seq(Nat)
                                 /\ TruncTo(q.ts, Second) # TruncTo(tr.to, Second)
                                 /\ SQ!TsBetween(q, tr) <=> InRange(q, tr)
                                 /\ SQ!JulianBetween(q, tr) <=> InRange(q, tr)
                                 /\ PG!TsBetween(q, tr) <=> InRange(q, tr)
                                 /\ SQ!HasFingerprint(q, f) <=> HasFingerprint(q, f)
                                 /\ PG!HasFingerprint(q, f) <=> HasFingerprint(q, f)
         /\ IsFiniteSet(d.queries) /\ IsFiniteSet(RowsOf(d, f, tr))
<1>1. d.queries \subseteq queries
  BY DEF Spared, Outside
<1>2. IsFiniteSet(d.queries)
  BY <1>1, StoredQueries, FS_Subset
<1>3. RowsOf(d, f, tr) \subseteq d.queries
  BY DEF RowsOf
<1>4. IsFiniteSet(RowsOf(d, f, tr))
  BY <1>2, <1>3, FS_Subset
<1>5. \A q : /\ SQ!HasFingerprint(q, f) <=> HasFingerprint(q, f)
             /\ PG!HasFingerprint(q, f) <=> HasFingerprint(q, f)
  BY DEF SQ!HasFingerprint, PG!HasFingerprint, HasFingerprint, SQ!Any, PG!Any, Any
<1>6. ASSUME NEW q \in d.queries
      PROVE  /\ q.ts \in Nat /\ Stored(q) /\ q.labelMatchers \in Seq(Nat)
             /\ TruncTo(q.ts, Second) # TruncTo(tr.to, Second)
  BY <1>1, StoredQueries DEF Spared, Outside, Closing
<1> QED
  BY <1>2, <1>4, <1>5, <1>6, RangeFacts

LEMMA SamePercents ==
  ASSUME NEW a, NEW b
  PROVE  /\ SQ!Percent(a, b) = Percent(a, b) /\ PG!Percent(a, b) = Percent(a, b)
         /\ SQ!Ratio(a, b) = Ratio(a, b) /\ PG!Ratio(a, b) = Ratio(a, b)
  BY SMT DEF SQ!Percent, PG!Percent, Percent, SQ!Null, PG!Null, Null,
       SQ!Round2, PG!Round2, Round2, SQ!Ratio, PG!Ratio, Ratio

(* An average of durations is not NULL when there is something to average. *)
LEMMA AverageIsNumber ==
  ASSUME NEW rows, IsFiniteSet(rows), rows # {}, \A q \in rows : q.duration \in Nat
  PROVE  Avg(Duration, rows) \in Nat /\ OrZero(Avg(Duration, rows)) = Avg(Duration, rows)
<1> DEFINE v == [q \in rows |-> q.duration]
<1> DEFINE n == Cardinality(rows)
<1> DEFINE a == MapThenSumSet(Duration, rows)
<1>1. \A q \in rows : v[q] \in Nat
  OBVIOUS
<1>2. v = [q \in rows |-> q.duration]
  OBVIOUS
<1> HIDE DEF v
<1>3. PICK g : IsSum(g, v, rows) /\ a = g[rows]
  BY <1>2, SumOfDurations
<1>4. a \in Nat
  BY <1>1, <1>3, SumOfNaturals
<1>5. n \in Nat \ {0}
  BY FS_CardinalityType, FS_EmptySet
<1>6. Avg(Duration, rows) = Round2(a, n)
  BY DEF Avg
<1> HIDE DEF a, n
<1>7. Round2(a, n) = (200 * a + n) \div (2 * n)
  BY <1>4, SMT DEF Round2
<1>8. 200 * a + n \in Nat /\ 2 * n \in Nat \ {0}
  BY <1>4, <1>5, SMT
<1>9. (200 * a + n) \div (2 * n) \in Nat
  BY <1>8, Quotient
<1> DEFINE c == Avg(Duration, rows)
<1>10. c \in Nat
  BY <1>6, <1>7, <1>9
<1> HIDE DEF c
<1>11. OrZero(c) = c
  BY <1>10, SMT DEF OrZero, Null
<1> QED
  BY <1>10, <1>11 DEF c

LEMMA TypesAgree ==
  ASSUME ReaderInv, NEW f, NEW tr, IsWindow(tr), NEW r, Asks(r, f, tr),
         NEW d, Spared(d, tr), RowsOf(d, f, tr) # {}
  PROVE  queryTypes("sqlite", d, r, now) = queryTypes("postgresql", d, r, now)
<1> DEFINE R == RowsOf(d, f, tr)
<1> DEFINE S == {q \in d.queries : SQ!TsBetween(q, tr) /\ SQ!HasFingerprint(q, f)}
<1> DEFINE G == {q \in d.queries : PG!TsBetween(q, tr) /\ PG!HasFingerprint(q, f)}
<1>1. S = R /\ G = R
  BY SparedFacts DEF RowsOf
<1>2. /\ TimeRange(r, now) = tr /\ r.fingerprint = f
      /\ SQ!SetDefaultTimeRange(tr, now) = tr /\ PG!SetDefaultTimeRange(tr, now) = tr
  BY RangeParameters DEF Asks
<1>3. Cardinality(R) # 0
  BY SparedFacts, FS_EmptySet
<1> DEFINE C(rows, type) == Cardinality({q \in rows : q.type = type})
<1> DEFINE PS(type) == SQ!Ratio(SQ!Cardinality({q \in S : q.type = type}), SQ!Cardinality(S))
<1> DEFINE PP(type) == PG!Percent(PG!Cardinality({q \in G : q.type = type}), PG!Cardinality(G))
<1>4. queryTypes("sqlite", d, r, now)
        = [totalQueries |-> SQ!Cardinality(S), instantPercent |-> PS("instant"),
           rangePercent |-> PS("range")]
  BY <1>2 DEF queryTypes, SQ!GetQueryTypes
<1>5. queryTypes("postgresql", d, r, now)
        = [totalQueries |-> PG!Cardinality(G), instantPercent |-> PP("instant"),
           rangePercent |-> PP("range")]
  BY <1>2 DEF queryTypes, PG!GetQueryTypes
<1> HIDE DEF S, G, R
<1>6. \A type : PS(type) = Ratio(C(R, type), Cardinality(R)) /\ PP(type) = Percent(C(R, type), Cardinality(R))
  BY <1>1, SameCardinality, SamePercents
<1>7. \A a : Ratio(a, Cardinality(R)) = Percent(a, Cardinality(R))
  BY <1>3, Zenon DEF Ratio
<1> HIDE DEF PS, PP, C
<1>8. \A type : PS(type) = PP(type)
  BY <1>6, <1>7
<1> QED
  BY <1>1, <1>4, <1>5, <1>8, SameCardinality

LEMMA AveragesAgree ==
  ASSUME ReaderInv, NEW f, NEW tr, IsWindow(tr), NEW r, Asks(r, f, tr),
         NEW d, Spared(d, tr), RowsOf(d, f, tr) # {}
  PROVE  averageDuration("sqlite", d, r, now).avgDuration
           = averageDuration("postgresql", d, r, now).avgDuration
<1> DEFINE R == RowsOf(d, f, tr)
<1> DEFINE S == {q \in d.queries : SQ!TsBetween(q, tr) /\ SQ!HasFingerprint(q, f)}
<1> DEFINE G == {q \in d.queries : PG!TsBetween(q, tr) /\ PG!HasFingerprint(q, f)}
<1>1. S = R /\ G = R
  BY SparedFacts DEF RowsOf
<1>2. TimeRange(r, now) = tr /\ r.fingerprint = f
  BY RangeParameters DEF Asks
<1>3. /\ averageDuration("sqlite", d, r, now).avgDuration = SQ!Avg(SQ!Duration, S)
      /\ averageDuration("postgresql", d, r, now).avgDuration = PG!OrZero(PG!Avg(PG!Duration, G))
  BY <1>2 DEF averageDuration, SQ!GetAverageDuration, PG!GetAverageDuration
<1>4. \A q \in R : q.duration \in Nat
  BY SparedFacts DEF RowsOf, Stored
<1>5. IsFiniteSet(R)
  BY SparedFacts
<1> HIDE DEF S, G, R
<1>6. OrZero(Avg(Duration, R)) = Avg(Duration, R)
  BY <1>4, <1>5, AverageIsNumber DEF R
<1>7. \A v : PG!OrZero(v) = OrZero(v)
  BY SMT DEF PG!OrZero, OrZero, PG!Null, Null
<1> QED
  BY <1>1, <1>3, <1>6, <1>7, SameAverages

LEMMA RatesAgree ==
  ASSUME ReaderInv, NEW f, NEW tr, IsWindow(tr), NEW r, Asks(r, f, tr),
         NEW d, Spared(d, tr), RowsOf(d, f, tr) # {}
  PROVE  queryRate("sqlite", d, r, now) = queryRate("postgresql", d, r, now)
<1> DEFINE R == RowsOf(d, f, tr)
<1> DEFINE S == {q \in d.queries : /\ SQ!TsBetween(q, tr)
                                   /\ Any = SQ!Any \/ SQ!MetricMatches(q, Any)
                                   /\ SQ!HasFingerprint(q, f)}
<1> DEFINE G == {q \in d.queries : /\ PG!TsBetween(q, tr)
                                   /\ Any = PG!Any \/ PG!MetricMatches(q, Any)
                                   /\ PG!HasFingerprint(q, f)}
<1>1. SQ!Any = Any /\ PG!Any = Any
  BY DEF SQ!Any, PG!Any, Any
<1>2. S = R /\ G = R
  BY <1>1, SparedFacts DEF RowsOf
<1>3. TimeRange(r, now) = tr /\ r.fingerprint = f
  BY RangeParameters DEF Asks
<1>4. queryRate("sqlite", d, r, now)
        = [successTotal |-> IF S = {} THEN SQ!Null ELSE SQ!CountOf(S, SQ!IsSuccess),
           successRatePercent |-> SQ!Percent(SQ!CountOf(S, SQ!IsSuccess), SQ!Cardinality(S)),
           errorTotal |-> IF S = {} THEN SQ!Null ELSE SQ!CountOf(S, SQ!IsFailed),
           errorRatePercent |-> SQ!Percent(SQ!CountOf(S, SQ!IsFailed), SQ!Cardinality(S))]
  BY <1>3 DEF queryRate, SQ!GetQueryRate
<1>5. queryRate("postgresql", d, r, now)
        = [successTotal |-> PG!CountOf(G, PG!IsSuccess),
           successRatePercent |-> PG!Percent(PG!CountOf(G, PG!IsSuccess), PG!Cardinality(G)),
           errorTotal |-> PG!CountOf(G, PG!IsFailed),
           errorRatePercent |-> PG!Percent(PG!CountOf(G, PG!IsFailed), PG!Cardinality(G))]
  BY <1>3 DEF queryRate, PG!GetQueryRate
<1>6. R # {}
  OBVIOUS
<1> HIDE DEF S, G, R
<1>7. /\ SQ!CountOf(S, SQ!IsSuccess) = PG!CountOf(G, PG!IsSuccess)
      /\ SQ!CountOf(S, SQ!IsFailed) = PG!CountOf(G, PG!IsFailed)
      /\ SQ!Cardinality(S) = PG!Cardinality(G)
  BY <1>2, SameCounts, SameCardinality
<1>8. S # {} /\ \A a, b : SQ!Percent(a, b) = PG!Percent(a, b)
  BY <1>2, <1>6, SamePercents
<1> QED
  BY <1>4, <1>5, <1>7, <1>8, Zenon

(* Both providers sort by a column of numbers alike. *)
LEMMA SameOrders ==
  ASSUME NEW p, p.sortBy \notin TextColumns
  PROVE  /\ ExpressionOrder(p, TRUE) = ExpressionOrder(p, FALSE)
         /\ SerieOrder(p, TRUE) = SerieOrder(p, FALSE)
         /\ \A fields : OrderBy(CheckSortField(p.sortBy, p.sortOrder, fields), TRUE)
                        = OrderBy(CheckSortField(p.sortBy, p.sortOrder, fields), FALSE)
<1>1. \A sort : sort.by \notin TextColumns => OrderBy(sort, TRUE) = OrderBy(sort, FALSE)
  BY Zenon DEF OrderBy
<1>2. "executions" \notin TextColumns /\ "avgDuration" \notin TextColumns
      /\ "created_at" \notin TextColumns
  BY DEF TextColumns
<1>3. \A fields, default : default \notin TextColumns =>
        ValidateSortField(p.sortBy, p.sortOrder, fields, default).by \notin TextColumns
  BY Zenon DEF ValidateSortField
<1>4. \A fields : CheckSortField(p.sortBy, p.sortOrder, fields).by \notin TextColumns
  BY <1>2, Zenon DEF CheckSortField
<1>5. \A fields, default : default \notin TextColumns =>
        OrderBy(ValidateSortField(p.sortBy, p.sortOrder, fields, default), TRUE)
          = OrderBy(ValidateSortField(p.sortBy, p.sortOrder, fields, default), FALSE)
  BY <1>1, <1>3, Zenon
<1> QED
  BY <1>1, <1>2, <1>4, <1>5, Zenon DEF ExpressionOrder, SerieOrder

LEMMA ExpressionsAgree ==
  ASSUME ReaderInv, NEW f, NEW tr, IsWindow(tr), NEW r, Asks(r, f, tr), NEW d, Spared(d, tr),
         r.sortBy \notin TextColumns
  PROVE  queryExpressions("sqlite", d, r, now) = queryExpressions("postgresql", d, r, now)
<1> DEFINE p == Listing(r, now, 10)
<1> DEFINE S == {q \in d.queries : SQ!TsBetween(q, p.timeRange) /\ SQ!Like(p.filter, q.queryParam)}
<1> DEFINE G == {q \in d.queries : PG!TsBetween(q, p.timeRange) /\ PG!Like(p.filter, q.queryParam)}
<1>1. p.timeRange = tr /\ p.sortBy = r.sortBy
  BY RangeParameters DEF Listing
<1> HIDE DEF p
<1>2. \A v : SQ!Like(p.filter, v) <=> PG!Like(p.filter, v)
  BY DEF SQ!Like, PG!Like
<1>3. S = G
  BY <1>1, <1>2, SparedFacts
<1>4. SQ!GetQueryExpressions(d, p) = SQ!ExpressionPages(S, p, FALSE)
      /\ PG!GetQueryExpressions(d, p) = PG!ExpressionPages(G, p, TRUE)
  BY Zenon DEF SQ!GetQueryExpressions, PG!GetQueryExpressions
<1> HIDE DEF S, G
<1>5. SQ!GetQueryExpressions(d, p) = PG!GetQueryExpressions(d, p)
  <2>1. ExpressionOrder(p, TRUE) = ExpressionOrder(p, FALSE)
    BY <1>1, SameOrders
  <2>2. ExpressionListing(S, p, FALSE) = ExpressionListing(G, p, TRUE)
    BY <1>3, <2>1 DEF ExpressionListing
  <2> QED
    BY <1>4, <2>2, SameExpressionPages
<1>6. "postgresql" # "sqlite"
  OBVIOUS
<1> QED
  BY <1>5, <1>6, Zenon DEF queryExpressions, p

(* The first page of a listing announces all its rows. *)
LEMMA FirstPageTotal ==
  ASSUME NEW rows, NEW order, Keyed(rows, order), NEW size \in Nat \ {0}
  PROVE  {a.total : a \in PagedByRows(rows, order, PageAt(1, size))} = {Cardinality(rows)}
<1> DEFINE page == PageAt(1, size)
<1> DEFINE N(P) == IF P = {} THEN 0 ELSE Cardinality(rows)
<1> DEFINE A(P) == [total |-> N(P), totalPages |-> CalculateTotalPages(N(P), page.size), data |-> P]
<1>1. IsFiniteSet(rows) /\ FirstPage(page)
  BY DEF Keyed, FirstPage, PageAt
<1>2. Pages(rows, order, page) # {}
  BY PageExists
<1>3. ASSUME NEW P \in Pages(rows, order, page) PROVE N(P) = Cardinality(rows)
  <2>1. CASE rows = {}
    BY <2>1, FS_EmptySet
  <2>2. CASE rows # {}
    BY <1>1, <2>2, FirstPageNotEmpty
  <2> QED
    BY <2>1, <2>2
<1>4. PagedByRows(rows, order, page) = {A(P) : P \in Pages(rows, order, page)}
  BY DEF PagedByRows
<1>5. \A P : A(P).total = N(P)
  OBVIOUS
<1> HIDE DEF A, N, page
<1>6. {a.total : a \in PagedByRows(rows, order, page)} = {Cardinality(rows)}
  BY <1>2, <1>3, <1>4, <1>5
<1> QED
  BY <1>6 DEF page

LEMMA ExecutionTotals ==
  ASSUME NEW rows, IsFiniteSet(rows), \A q \in rows : q.duration \in Nat, NEW time, NEW p,
         p.sortBy = "duration", ValidatePagination(p.page, p.pageSize, 10) = PageAt(1, 10)
  PROVE  {a.total : a \in ExecutionListing(rows, p, time)} = {Cardinality(rows)}
<1> DEFINE F == [q \in rows |-> ExecutionRow(q, time[q])]
<1> DEFINE cells == {ExecutionRow(q, time[q]) : q \in rows}
<1> DEFINE order == ExecutionOrder(p)
<1>1. order.by = "duration" /\ order.collated = FALSE
  BY Zenon DEF ExecutionOrder, ValidateSortField, OrderBy
<1>2. cells = {F[q] : q \in rows}
  OBVIOUS
<1>3. \A q \in rows : F[q].id = q /\ F[q]["duration"] = q.duration
  BY DEF ExecutionRow
<1>4. ExecutionListing(rows, p, time) = PagedByRows(cells, order, PageAt(1, 10))
  BY DEF ExecutionListing
<1> HIDE DEF F, cells, order
<1>5. \A q, s \in rows : F[q] = F[s] => q = s
  BY <1>3
<1>6. IsFiniteSet(cells) /\ Cardinality(cells) = Cardinality(rows)
  BY <1>2, <1>5, ImageSize
<1>7. Keyed(cells, order)
  BY <1>1, <1>2, <1>3, <1>6 DEF Keyed, Place
<1>8. 10 \in Nat \ {0}
  OBVIOUS
<1> QED
  BY <1>4, <1>6, <1>7, <1>8, FirstPageTotal

AsksFirst(r) == r.page = Missing /\ r.pageSize = Missing
LEMMA FirstPageParameters ==
  ASSUME NEW r, AsksFirst(r)
  PROVE  /\ ~IsBad(r)
         /\ LET p == Listing(r, now, 10)
            IN  ValidatePagination(p.page, p.pageSize, 10) = PageAt(1, 10)
<1>1. ~IsBad(r)
  BY SMT DEF AsksFirst, IsBad, Missing, Bad
<1> DEFINE p == Listing(r, now, 10)
<1>2. p.page = getQueryParamAsInt(r.page, 1) /\ p.pageSize = getQueryParamAsInt(r.pageSize, 10)
  BY DEF Listing
<1> HIDE DEF p
<1>3. p.page = 1 /\ p.pageSize = 10
  BY <1>2 DEF AsksFirst, getQueryParamAsInt
<1>4. ValidatePagination(1, 10, 10) = PageAt(1, 10)
  BY DEF ValidatePagination, PageAt, MaxPageSize
<1> QED
  BY <1>1, <1>3, <1>4 DEF p

ExecutionTotalsOf(p, d, r) == {a.total : a \in queryExecutions(p, d, r, now)}
LEMMA ExecutionsAgree ==
  ASSUME ReaderInv, NEW f, f # Any, NEW tr, IsWindow(tr), NEW r, Asks(r, f, tr), AsksFirst(r),
         r.sortBy = "duration", NEW d, Spared(d, tr)
  PROVE  ExecutionTotalsOf("sqlite", d, r) = ExecutionTotalsOf("postgresql", d, r)
<1> DEFINE p == Listing(r, now, 10)
<1> DEFINE S == {q \in d.queries : /\ SQ!JulianBetween(q, p.timeRange)
                                   /\ q.fingerprint = p.fingerprint
                                   /\ p.type \in {"", q.type}}
<1> DEFINE G == {q \in d.queries : /\ PG!TsBetween(q, p.timeRange)
                                   /\ q.fingerprint = p.fingerprint
                                   /\ p.type \in {"", q.type}}
<1>1. ~(r.fingerprint = Any \/ IsBad(r)) /\ "postgresql" # "sqlite"
  BY FirstPageParameters DEF Asks
<1>2. /\ queryExecutions("sqlite", d, r, now) = SQ!GetQueryExecutions(d, p)
      /\ queryExecutions("postgresql", d, r, now) = PG!GetQueryExecutions(d, p)
  BY <1>1, Zenon DEF queryExecutions
<1>3. p.timeRange = tr /\ p.sortBy = "duration"
  BY RangeParameters DEF Listing
<1>4. ValidatePagination(p.page, p.pageSize, 10) = PageAt(1, 10)
  BY FirstPageParameters
<1> HIDE DEF p
<1>5. \A q \in d.queries : SQ!JulianBetween(q, p.timeRange) <=> PG!TsBetween(q, p.timeRange)
  BY <1>3, SparedFacts
<1>6. S = G
  BY <1>5, Zenon
<1>7. G \subseteq d.queries
  BY Zenon
<1>8. /\ SQ!GetQueryExecutions(d, p) = SQ!ExecutionPages(S, p, LAMBDA q : SQ!WholeSecond(q.ts))
      /\ PG!GetQueryExecutions(d, p) = PG!ExecutionPages(G, p, LAMBDA q : q.ts)
  BY Zenon DEF SQ!GetQueryExecutions, PG!GetQueryExecutions
<1> HIDE DEF S, G
<1>9. IsFiniteSet(G) /\ \A q \in G : q.duration \in Nat
  <2>1. IsFiniteSet(d.queries) /\ \A q \in d.queries : q.duration \in Nat
    BY SparedFacts DEF Stored
  <2> QED
    BY <1>7, <2>1, FS_Subset
<1> DEFINE ts == [q \in G |-> WholeSecond(q.ts)]
<1> DEFINE tp == [q \in G |-> q.ts]
<1>10. /\ SQ!GetQueryExecutions(d, p) = ExecutionListing(G, p, ts)
       /\ PG!GetQueryExecutions(d, p) = ExecutionListing(G, p, tp)
  BY <1>6, <1>8, SameExecutionPages
<1> HIDE DEF ts, tp
<1>11. /\ {a.total : a \in ExecutionListing(G, p, ts)} = {Cardinality(G)}
       /\ {a.total : a \in ExecutionListing(G, p, tp)} = {Cardinality(G)}
  BY <1>3, <1>4, <1>9, ExecutionTotals
<1> QED
  BY <1>2, <1>10, <1>11 DEF ExecutionTotalsOf

LEMMA LabelsAgree ==
  ASSUME NEW v \in Int
  PROVE  SQ!LabelOf(v) = LabelOf(v) /\ PG!LabelOf(v) = LabelOf(v)
  BY DEF SQ!LabelOf, PG!LabelOf, LabelOf, SQ!Day, PG!Day, Day

(* Between whole seconds the width is whole: nothing is rounded. *)
LEMMA WholeWidth ==
  ASSUME NEW s \in Int, NEW t \in Int, TruncTo(s, Second) = s, TruncTo(t, Second) = t
  PROVE  PG!NearestSecond(t - s) = t - s
<1> DEFINE u == Second
<1>1. u \in Nat \ {0}
  BY SecondAssumption
<1>2. PICK x \in Int : s = u * x
  BY <1>1, TruncMultiple
<1>3. PICK y \in Int : t = u * y
  BY <1>1, TruncMultiple
<1> HIDE DEF u
<1> DEFINE k == y - x
<1> DEFINE h == u \div 2
<1> DEFINE a == u * k
<1>4. k \in Int /\ t - s = a
  BY <1>1, <1>2, <1>3, SMT
<1>5. h \in Nat /\ h < u /\ a \in Int
  BY <1>1, <1>4, SMT
<1>6. TruncTo(a + h, u) = a
  <2>0. a + h \in Int
    BY <1>5
  <2>1. PICK z \in Int : TruncTo(a + h, u) = u * z
    <3> HIDE DEF a, h
    <3> QED
      BY <1>1, <2>0, TruncMultiple
  <2> DEFINE b == u * z
  <2>2. b \in Int /\ b <= a + h /\ a + h < b + u
    BY <1>1, <2>0, <2>1, TruncBounds
  <2> HIDE DEF a, h
  <2>3. a < b + u /\ b < a + u
    <3> HIDE DEF b
    <3> QED
      BY <1>1, <1>5, <2>2, SMT
  <2>4. a = k * u /\ b = z * u
    BY <1>1, <1>4, SMT DEF a
  <2>5. k <= z /\ z <= k
    <3>1. k * u < z * u + u /\ z * u < k * u + u
      BY <2>3, <2>4
    <3> QED
      BY <1>1, <1>4, <3>1, FewerSteps
  <2>6. k = z
    BY <1>4, <2>5, SMT
  <2> QED
    BY <2>1, <2>6 DEF a
<1>7. PG!NearestSecond(t - s) = TruncTo(t - s + h, u)
  BY DEF PG!NearestSecond, PG!TruncTo, TruncTo, u
<1> QED
  BY <1>4, <1>6, <1>7

WholeRanges(d) == \A q \in d.queries : q.type = "range" =>
                    q.start < q.end /\ IsWhole(q.start) /\ IsWhole(q.end)
LEMMA DistributionsAgree ==
  ASSUME ReaderInv, NEW f, NEW tr, IsWindow(tr), NEW r, Asks(r, f, tr),
         NEW d, Spared(d, tr), WholeRanges(d)
  PROVE  queryTimeRangeDistribution("sqlite", d, r, now)
           = queryTimeRangeDistribution("postgresql", d, r, now)
<1> DEFINE Seconds(q) == SQ!WholeSecond(q.end) - SQ!WholeSecond(q.start)
<1> DEFINE S == {q \in d.queries : /\ SQ!JulianBetween(q, tr) /\ SQ!HasFingerprint(q, f)
                                   /\ q.type = "range" /\ Seconds(q) >= 0}
<1> DEFINE G == {q \in d.queries : /\ PG!TsBetween(q, tr) /\ PG!HasFingerprint(q, f)
                                   /\ q.type = "range" /\ q.end > q.start}
<1>1. /\ TimeRange(r, now) = tr /\ r.fingerprint = f
      /\ SQ!SetDefaultTimeRange(tr, now) = tr /\ PG!SetDefaultTimeRange(tr, now) = tr
  BY RangeParameters DEF Asks
<1>2. /\ queryTimeRangeDistribution("sqlite", d, r, now) = SQ!Distribution(S, Seconds)
      /\ queryTimeRangeDistribution("postgresql", d, r, now)
           = PG!Distribution(G, LAMBDA q : PG!NearestSecond(q.end - q.start))
  BY <1>1 DEF queryTimeRangeDistribution, SQ!GetQueryTimeRangeDistribution,
       PG!GetQueryTimeRangeDistribution
<1>3. ASSUME NEW q \in d.queries, q.type = "range"
      PROVE  /\ Seconds(q) = PG!NearestSecond(q.end - q.start) /\ Seconds(q) \in Int
             /\ Seconds(q) >= 0 /\ q.end > q.start
  <2>1. q.start \in Int /\ q.end \in Int
    BY SparedFacts DEF Stored
  <2>2. q.start < q.end /\ WholeSecond(q.start) = q.start /\ WholeSecond(q.end) = q.end
    BY <1>3 DEF WholeRanges, IsWhole
  <2>3. \A t : SQ!WholeSecond(t) = WholeSecond(t)
    BY DEF SQ!WholeSecond, WholeSecond, SQ!TruncTo, TruncTo
  <2>4. Seconds(q) = q.end - q.start
    BY <2>2, <2>3
  <2>5. PG!NearestSecond(q.end - q.start) = q.end - q.start
    BY <2>1, <2>2, WholeWidth DEF WholeSecond
  <2> HIDE DEF Seconds
  <2> QED
    BY <2>1, <2>2, <2>4, <2>5
<1>4. S = G
  BY <1>3, SparedFacts
<1>5. \A q \in G : Seconds(q) = PG!NearestSecond(q.end - q.start) /\ Seconds(q) \in Int
  BY <1>3
<1> DEFINE CS(l) == SQ!Cardinality({q \in S : SQ!LabelOf(Seconds(q)) = l})
<1> DEFINE CP(l) == PG!Cardinality({q \in G : PG!LabelOf(PG!NearestSecond(q.end - q.start)) = l})
<1>6. /\ SQ!Distribution(S, Seconds)
           = [l \in SQ!Labels |-> [count |-> CS(l), percent |-> SQ!Ratio(CS(l), SQ!Cardinality(S))]]
      /\ PG!Distribution(G, LAMBDA q : PG!NearestSecond(q.end - q.start))
           = [l \in PG!Labels |-> [count |-> CP(l), percent |-> PG!Ratio(CP(l), PG!Cardinality(G))]]
  BY Zenon DEF SQ!Distribution, PG!Distribution
<1> HIDE DEF S, G, Seconds
<1>7. \A l : {q \in S : SQ!LabelOf(Seconds(q)) = l} = {q \in G : PG!LabelOf(PG!NearestSecond(q.end - q.start)) = l}
  BY <1>4, <1>5, LabelsAgree
<1>8. \A l : CS(l) = CP(l)
  BY <1>7, SameCardinality
<1> HIDE DEF CS, CP
<1>9. SQ!Labels = PG!Labels
  BY DEF SQ!Labels, PG!Labels
<1>10. \A l : SQ!Ratio(CS(l), SQ!Cardinality(S)) = PG!Ratio(CP(l), PG!Cardinality(G))
  BY <1>4, <1>8, SameCardinality, SamePercents
<1>11. [l \in SQ!Labels |-> [count |-> CS(l), percent |-> SQ!Ratio(CS(l), SQ!Cardinality(S))]]
         = [l \in PG!Labels |-> [count |-> CP(l), percent |-> PG!Ratio(CP(l), PG!Cardinality(G))]]
  BY <1>8, <1>9, <1>10
<1> QED
  BY <1>2, <1>6, <1>11, Zenon

(* The buckets of a minute, over a range that does not end before it        *)
(* starts.                                                                  *)
LEMMA MinuteBuckets ==
  ASSUME NEW tr, IsWindow(tr), GetInterval(tr) = Minute, tr.from <= tr.to
  PROVE  SQ!TimeBuckets(tr) = PG!TimeBuckets(tr)
<1> DEFINE i == Minute
<1> DEFINE first == TruncTo(tr.from, i)
<1> DEFINE last == TruncTo(tr.to, i)
<1> DEFINE width == last - first
<1> DEFINE ns == IF width <= 0 THEN 0 ELSE (width + i - 1) \div i
<1> DEFINE np == IF width < 0 THEN -1 ELSE width \div i
<1>1. /\ SQ!TimeBuckets(tr) = Starts(first, i, ns) /\ PG!TimeBuckets(tr) = Starts(first, i, np)
      /\ first \in Int /\ width \in Int
  BY SqliteBuckets, PostgresBuckets
<1>2. tr.from \in Int /\ tr.to \in Int /\ i \in Nat \ {0}
  BY MinutesOfSeconds DEF IsWindow
<1>3. PICK x \in Int : first = i * x
  BY <1>2, TruncMultiple
<1>4. PICK y \in Int : last = i * y
  BY <1>2, TruncMultiple
<1>5. first <= last
  BY <1>2, TruncInOrder
<1> DEFINE k == y - x
<1>6. k \in Int /\ k * i = i * y - i * x
  BY <1>2, SMT
<1>7. width = k * i
  BY <1>3, <1>4, <1>6
<1>8. last \in Int /\ width >= 0
  <2>1. last \in Int
    BY <1>2, MinutesOfSeconds
  <2> HIDE DEF first, last
  <2> QED
    BY <1>1, <1>5, <2>1, SMT
<1> HIDE DEF i, first, last, width, k
<1>9. ASSUME NEW w \in Nat, w < k * i + i, k * i <= w PROVE w \div i = k
  <2> DEFINE j == w \div i
  <2>1. j \in Nat /\ j * i \in Nat /\ j * i <= w /\ w < j * i + i
    BY <1>2, Quotient
  <2> HIDE DEF j
  <2>2. j * i < k * i + i /\ k * i < j * i + i
    <3> DEFINE a == j * i
    <3> DEFINE b == k * i
    <3>1. a \in Int /\ b \in Int /\ a <= w /\ w < a + i /\ w < b + i /\ b <= w
      BY <1>1, <1>7, <1>9, <2>1
    <3> HIDE DEF a, b
    <3>2. a < b + i /\ b < a + i
      BY <1>2, <3>1, SMT
    <3> QED
      BY <3>2 DEF a, b
  <2>3. j <= k /\ k <= j
    BY <1>2, <1>6, <2>1, <2>2, FewerSteps
  <2> QED
    BY <1>6, <2>1, <2>3, SMT DEF j
<1>10. np = k
  <2>1. np = width \div i
    BY <1>1, <1>8, SMT
  <2>2. width \in Nat /\ width < width + i
    BY <1>1, <1>2, <1>8, SMT
  <2> QED
    BY <1>7, <1>9, <2>1, <2>2
<1>11. ns = k
  <2>1. CASE width = 0
    <3>1. ns = 0 /\ np = 0 \div i
      BY <2>1
    <3>2. 0 \div i = 0
      BY <1>2, SMT
    <3> QED
      BY <1>10, <3>1, <3>2
  <2>2. CASE width # 0
    <3>1. ns = (width + i - 1) \div i
      BY <1>1, <1>8, <2>2, SMT
    <3> DEFINE w == width + i - 1
    <3>2. w \in Nat /\ w < width + i /\ width <= w
      BY <1>1, <1>2, <1>8, <2>2, SMT
    <3> HIDE DEF w
    <3>3. w \div i = k
      BY <1>7, <1>9, <3>2
    <3> QED
      BY <3>1, <3>3 DEF w
  <2> QED
    BY <2>1, <2>2
<1> QED
  BY <1>1, <1>10, <1>11

LEMMA InMinute ==
  ASSUME NEW tr, IsWindow(tr), GetInterval(tr) = Minute, NEW b \in PG!TimeBuckets(tr), NEW t \in Int
  PROVE  b <= t /\ t < b + Minute <=> TruncTo(t, Minute) = b
<1> DEFINE i == Minute
<1> DEFINE first == TruncTo(tr.from, i)
<1>1. PICK steps \in Int : PG!TimeBuckets(tr) = Starts(first, i, steps)
  BY PostgresBuckets
<1>2. tr.from \in Int /\ i \in Nat \ {0}
  BY MinutesOfSeconds DEF IsWindow
<1>3. PICK x \in Int : first = i * x
  BY <1>2, TruncMultiple
<1>4. PICK k \in 0..steps : b = first + k * i
  BY <1>1 DEF Starts
<1>5. TruncTo(t, i) \in Int /\ TruncTo(t, i) <= t /\ t < TruncTo(t, i) + i
  BY <1>2, TruncBounds
<1>6. PICK y \in Int : TruncTo(t, i) = i * y
  BY <1>2, TruncMultiple
<1> HIDE DEF i, first
<1> DEFINE z == x + k
<1>7. z \in Int /\ i * x + k * i = z * i /\ i * y = y * i
  BY <1>2, SMT
<1>8. b = z * i /\ TruncTo(t, i) = y * i
  BY <1>3, <1>4, <1>6, <1>7
<1> HIDE DEF z
<1>9. ASSUME b <= t, t < b + i PROVE TruncTo(t, i) = b
  <2> DEFINE u == z * i
  <2> DEFINE v == y * i
  <2>1. u \in Int /\ v \in Int /\ u = b /\ v = TruncTo(t, i)
    BY <1>2, <1>7, <1>8, SMT
  <2> HIDE DEF u, v
  <2>2. u < v + i /\ v < u + i
    BY <1>2, <1>5, <1>9, <2>1, SMT
  <2>3. z * i < y * i + i /\ y * i < z * i + i
    BY <2>2 DEF u, v
  <2>4. z <= y /\ y <= z
    BY <1>2, <1>7, <2>3, FewerSteps
  <2> QED
    BY <1>7, <1>8, <2>4, SMT
<1>10. TruncTo(t, i) = b => b <= t /\ t < b + i
  BY <1>5
<1> QED
  BY <1>9, <1>10 DEF i

(* A bucket of a minute holds the same queries of the range. *)
LEMMA SameBuckets ==
  ASSUME ReaderInv, NEW tr, IsWindow(tr), GetInterval(tr) = Minute,
         NEW T, T \subseteq Outside(tr), NEW U, U \subseteq Outside(tr),
         {q \in U : InRange(q, tr)} = T, NEW b \in PG!TimeBuckets(tr)
  PROVE  SQ!InBucket(T, b, tr) = PG!InBucket(U, b, tr)
<1>1. \A q \in T : q.ts \in Int
  BY StoredQueries DEF Outside
<1>2. \A q \in T : b <= q.ts /\ q.ts < b + Minute <=> TruncTo(q.ts, Minute) = b
  BY <1>1, InMinute
<1>3. /\ SQ!InBucket(T, b, tr) = {q \in T : b <= q.ts /\ q.ts < b + Minute}
      /\ PG!InBucket(U, b, tr) = {q \in U : InRange(q, tr) /\ TruncTo(q.ts, Minute) = b}
  BY BucketRows
<1>4. {q \in U : InRange(q, tr) /\ TruncTo(q.ts, Minute) = b} = {q \in T : TruncTo(q.ts, Minute) = b}
  OBVIOUS
<1> QED
  BY <1>2, <1>3, <1>4

LEMMA StatusAgree ==
  ASSUME ReaderInv, NEW f, NEW tr, IsWindow(tr), NEW r, Asks(r, f, tr),
         NEW d, Spared(d, tr), GetInterval(tr) = Minute, tr.from <= tr.to
  PROVE  queryStatusDistribution("sqlite", d, r, now)
           = queryStatusDistribution("postgresql", d, r, now)
<1> DEFINE S == {q \in d.queries : SQ!JulianBetween(q, tr) /\ SQ!HasFingerprint(q, f)}
<1> DEFINE G == {q \in d.queries : PG!HasFingerprint(q, f)}
<1> DEFINE VS(b) == SQ!InBucket(S, b, tr)
<1> DEFINE VP(b) == PG!InBucket(G, b, tr)
<1>1. /\ TimeRange(r, now) = tr /\ r.fingerprint = f
      /\ SQ!SetDefaultTimeRange(tr, now) = tr /\ PG!SetDefaultTimeRange(tr, now) = tr
  BY RangeParameters DEF Asks
<1>2. S \subseteq Outside(tr) /\ G \subseteq Outside(tr) /\ {q \in G : InRange(q, tr)} = S
  BY SparedFacts DEF Spared
<1>3. queryStatusDistribution("sqlite", d, r, now)
        = [b \in SQ!TimeBuckets(tr) |-> [status2xx |-> SQ!CountOf(VS(b), SQ!IsSuccess),
                                         status4xx |-> SQ!CountOf(VS(b), SQ!IsClientError),
                                         status5xx |-> SQ!CountOf(VS(b), SQ!IsServerError)]]
  BY <1>1 DEF queryStatusDistribution, SQ!GetQueryStatusDistribution
<1>4. queryStatusDistribution("postgresql", d, r, now)
        = [b \in PG!TimeBuckets(tr) |-> [status2xx |-> PG!CountOf(VP(b), PG!IsSuccess),
                                         status4xx |-> PG!CountOf(VP(b), PG!IsClientError),
                                         status5xx |-> PG!CountOf(VP(b), PG!IsServerError)]]
  BY <1>1 DEF queryStatusDistribution, PG!GetQueryStatusDistribution
<1> HIDE DEF S, G
<1>5. \A b \in PG!TimeBuckets(tr) : VS(b) = VP(b)
  BY <1>2, SameBuckets
<1>6. SQ!TimeBuckets(tr) = PG!TimeBuckets(tr)
  BY MinuteBuckets
<1> HIDE DEF VS, VP
<1>7. \A b \in PG!TimeBuckets(tr) :
        /\ SQ!CountOf(VS(b), SQ!IsSuccess) = PG!CountOf(VP(b), PG!IsSuccess)
        /\ SQ!CountOf(VS(b), SQ!IsClientError) = PG!CountOf(VP(b), PG!IsClientError)
        /\ SQ!CountOf(VS(b), SQ!IsServerError) = PG!CountOf(VP(b), PG!IsServerError)
  BY <1>5, SameCounts
<1> QED
  BY <1>3, <1>4, <1>6, <1>7

LEMMA SameOrZero ==
  ASSUME NEW v
  PROVE  SQ!OrZero(v) = OrZero(v) /\ PG!OrZero(v) = OrZero(v)
  BY SMT DEF SQ!OrZero, PG!OrZero, OrZero, SQ!Null, PG!Null, Null

(* For a query of one selector, the first name is the only one. *)
LEMMA SameMatches ==
  ASSUME NEW q, q.labelMatchers \in Seq(Nat), Len(q.labelMatchers) <= 1, NEW n \in Nat
  PROVE  SQ!MetricMatches(q, n) <=> PG!MetricMatches(q, n)
<1> DEFINE s == q.labelMatchers
<1>1. /\ SQ!MetricMatches(q, n) <=> (IF s = <<>> THEN SQ!Null ELSE s[1]) = n
      /\ PG!MetricMatches(q, n) <=> \E i \in DOMAIN s : s[i] = n
  BY DEF SQ!MetricMatches, PG!MetricMatches, SQ!FirstName
<1>2. s \in Seq(Nat) /\ Len(s) <= 1
  OBVIOUS
<1>3. SQ!Null # n
  BY SMT DEF SQ!Null
<1> HIDE DEF s
<1>4. CASE s = <<>>
  BY <1>1, <1>3, <1>4
<1>5. CASE s # <<>>
  <2>1. Len(s) \in Nat /\ DOMAIN s = 1..Len(s) /\ Len(s) # 0
    BY <1>2, <1>5
  <2>2. Len(s) = 1
    BY <1>2, <2>1
  <2>3. DOMAIN s = {1}
    BY <2>1, <2>2
  <2> HIDE DEF s
  <2> QED
    BY <1>1, <1>5, <2>3
<1> QED
  BY <1>4, <1>5

Single(d) == \A q \in d.queries : Len(q.labelMatchers) <= 1
Ranged(d, tr) == \A q \in d.queries : InRange(q, tr)
LEMMA LatencyAgree ==
  ASSUME ReaderInv, NEW f, NEW tr, IsWindow(tr), NEW r, Asks(r, f, tr), NEW n \in Nat, r.name = n,
         NEW d, Spared(d, tr), Single(d), Ranged(d, tr), GetInterval(tr) = Minute, tr.from <= tr.to
  PROVE  queryLatencyTrends("sqlite", d, r, now) = queryLatencyTrends("postgresql", d, r, now)
<1> DEFINE S == {q \in d.queries : /\ n = SQ!Any \/ SQ!MetricMatches(q, n)
                                   /\ SQ!HasFingerprint(q, f)}
<1> DEFINE G == {q \in d.queries : /\ n = PG!Any \/ PG!MetricMatches(q, n)
                                   /\ PG!HasFingerprint(q, f)}
<1> DEFINE VS(b) == SQ!InBucket(S, b, tr)
<1> DEFINE VP(b) == PG!InBucket(G, b, tr)
<1>1. /\ TimeRange(r, now) = tr /\ r.fingerprint = f
      /\ SQ!SetDefaultTimeRange(tr, now) = tr /\ PG!SetDefaultTimeRange(tr, now) = tr
  BY RangeParameters DEF Asks
<1>2. \A q \in d.queries : SQ!MetricMatches(q, n) <=> PG!MetricMatches(q, n)
  BY SparedFacts, SameMatches DEF Single
<1>3. SQ!Any = PG!Any
  BY DEF SQ!Any, PG!Any
<1>4. S = G
  BY <1>2, <1>3, SparedFacts
<1>5. G \subseteq Outside(tr) /\ {q \in G : InRange(q, tr)} = G
  BY DEF Spared, Ranged
<1>6. /\ queryLatencyTrends("sqlite", d, r, now)
           = [b \in SQ!TimeBuckets(tr) |-> SQ!OrZero(SQ!Avg(SQ!Duration, VS(b)))]
      /\ queryLatencyTrends("postgresql", d, r, now)
           = [b \in PG!TimeBuckets(tr) |-> PG!OrZero(PG!Avg(PG!Duration, VP(b)))]
  BY <1>1 DEF queryLatencyTrends, SQ!GetQueryLatencyTrends, PG!GetQueryLatencyTrends
<1> HIDE DEF S, G
<1>7. \A b \in PG!TimeBuckets(tr) : VS(b) = VP(b)
  BY <1>4, <1>5, SameBuckets
<1>8. SQ!TimeBuckets(tr) = PG!TimeBuckets(tr)
  BY MinuteBuckets
<1> HIDE DEF VS, VP
<1>9. \A b \in PG!TimeBuckets(tr) :
        SQ!OrZero(SQ!Avg(SQ!Duration, VS(b))) = PG!OrZero(PG!Avg(PG!Duration, VP(b)))
  BY <1>7, SameAverages, SameOrZero
<1> QED
  BY <1>6, <1>8, <1>9

LEMMA PerformanceAgrees ==
  ASSUME ReaderInv, NEW f, NEW tr, IsWindow(tr), NEW r, Asks(r, f, tr), NEW n \in Nat, r.name = n,
         NEW d, Spared(d, tr), Single(d)
  PROVE  GetMetricQueryPerformanceStatistics("sqlite", d, r, now).performance.averageDuration
           = GetMetricQueryPerformanceStatistics("postgresql", d, r, now).performance.averageDuration
<1> DEFINE S == {q \in d.queries : SQ!MetricMatches(q, n) /\ SQ!TsBetween(q, tr)}
<1> DEFINE G == {q \in d.queries : PG!MetricMatches(q, n) /\ PG!TsBetween(q, tr)}
<1>1. TimeRange(r, now) = tr
  BY RangeParameters
<1>2. \A q \in d.queries : SQ!MetricMatches(q, n) <=> PG!MetricMatches(q, n)
  BY SparedFacts, SameMatches DEF Single
<1>3. S = G
  BY <1>2, SparedFacts
<1>4. /\ GetMetricQueryPerformanceStatistics("sqlite", d, r, now).performance.averageDuration
           = SQ!Avg(SQ!Duration, S)
      /\ GetMetricQueryPerformanceStatistics("postgresql", d, r, now).performance.averageDuration
           = PG!Avg(PG!Duration, G)
  BY <1>1 DEF GetMetricQueryPerformanceStatistics, SQ!GetMetricQueryPerformanceStatistics,
       PG!GetMetricQueryPerformanceStatistics
<1> HIDE DEF S, G
<1> QED
  BY <1>3, <1>4, SameAverages

(* Past the opening second, the bounds with and without their fractions     *)
(* select the same queries.                                                 *)
Past(d, tr) == \A q \in d.queries : q \notin Opening(tr)
LEMMA SerieExpressionsAgree ==
  ASSUME ReaderInv, NEW f, NEW tr, IsWindow(tr), NEW r, Asks(r, f, tr), NEW n \in Nat, r.name = n,
         NEW d, Spared(d, tr), Single(d), Past(d, tr), r.sortBy \notin TextColumns
  PROVE  serieExpressions("sqlite", d, r, now) = serieExpressions("postgresql", d, r, now)
<1> DEFINE p == Listing(r, now, 1)
<1> DEFINE S == {q \in d.queries : /\ SQ!MetricMatches(q, p.serieName)
                                   /\ SQ!TsBetween(q, tr)
                                   /\ SQ!Like(p.filter, q.queryParam)}
<1> DEFINE G == {q \in d.queries : /\ PG!MetricMatches(q, p.serieName)
                                   /\ tr.from <= q.ts /\ q.ts <= tr.to
                                   /\ PG!Like(p.filter, q.queryParam)}
<1>1. p.timeRange = tr /\ p.serieName = n /\ p.sortBy = r.sortBy
  BY RangeParameters DEF Listing
<1>2. SQ!SetDefaultTimeRange(tr, now) = tr /\ PG!SetDefaultTimeRange(tr, now) = tr
  BY RangeParameters
<1> HIDE DEF p
<1>3. \A v : SQ!Like(p.filter, v) <=> PG!Like(p.filter, v)
  BY DEF SQ!Like, PG!Like
<1>4. \A q \in d.queries : SQ!MetricMatches(q, n) <=> PG!MetricMatches(q, n)
  BY SparedFacts, SameMatches DEF Single
<1>5. ASSUME NEW q \in d.queries
      PROVE  SQ!TsBetween(q, tr) <=> tr.from <= q.ts /\ q.ts <= tr.to
  <2> DEFINE a == TruncTo(tr.from, Second)
  <2>1. q.ts \in Nat /\ TruncTo(q.ts, Second) # TruncTo(tr.to, Second)
    BY SparedFacts
  <2>2. /\ SQ!TsBetween(q, tr) <=> InRange(q, tr)
        /\ a <= q.ts /\ q.ts <= tr.to <=> InRange(q, tr)
    BY <2>1, RangeFacts
  <2>3. q \in queries /\ q \notin Opening(tr)
    BY DEF Spared, Outside, Past
  <2>4. ~(a <= q.ts /\ q.ts < tr.from)
    BY <2>3 DEF Opening
  <2>5. tr.from \in Int /\ tr.to \in Int /\ Second \in Nat \ {0}
    BY SecondAssumption DEF IsWindow
  <2>6. a \in Int /\ a <= tr.from
    BY <2>5, TruncBounds
  <2> HIDE DEF a
  <2> QED
    BY <2>1, <2>2, <2>4, <2>5, <2>6, SMT
<1>6. S = G
  BY <1>1, <1>3, <1>4, <1>5
<1>7. /\ SQ!GetQueriesBySerieName(d, p, now) = SQ!SerieQueryPages(S, p, FALSE)
      /\ PG!GetQueriesBySerieName(d, p, now) = PG!SerieQueryPages(G, p, TRUE)
  BY <1>1, <1>2, Zenon DEF SQ!GetQueriesBySerieName, PG!GetQueriesBySerieName
<1> HIDE DEF S, G
<1>8. SQ!GetQueriesBySerieName(d, p, now) = PG!GetQueriesBySerieName(d, p, now)
  <2>1. SerieOrder(p, TRUE) = SerieOrder(p, FALSE)
    BY <1>1, SameOrders
  <2>2. SerieListing(S, p, FALSE) = SerieListing(G, p, TRUE)
    BY <1>6, <2>1 DEF SerieListing
  <2> QED
    BY <1>7, <2>2, SameSerieQueryPages
<1>9. "postgresql" # "sqlite"
  OBVIOUS
<1> QED
  BY <1>8, <1>9, Zenon DEF serieExpressions, p

(* A usage that does not start in the closing second overlaps the range for *)
(* both providers or for neither.                                           *)
LEMMA SameOverlaps ==
  ASSUME NEW tr, IsWindow(tr), NEW u, u.first \in Nat,
         TruncTo(u.first, Second) # TruncTo(tr.to, Second)
  PROVE  SQ!Overlaps(u, tr) <=> PG!Overlaps(u, tr)
<1> DEFINE b == TruncTo(tr.to, Second)
<1> DEFINE c == TruncTo(u.first, Second)
<1>1. u.first \in Int /\ tr.to \in Int /\ Second \in Nat \ {0}
  BY SecondAssumption DEF IsWindow
<1>2. b \in Int /\ c \in Int /\ c <= u.first
  BY <1>1, TruncBounds
<1>3. c < b => u.first < b
  BY <1>1, TruncBefore
<1>4. /\ SQ!Overlaps(u, tr) <=> c < b /\ TruncTo(tr.from, Second) <= u.last
      /\ PG!Overlaps(u, tr) <=> u.first <= b /\ TruncTo(tr.from, Second) <= u.last
  BY DEF SQ!Overlaps, PG!Overlaps, SQ!PrepareTimeRange, PG!PrepareTimeRange, SQ!Format, PG!Format,
         SQ!WholeSecond, SQ!TruncTo, PG!TruncTo, TruncTo
<1>5. c # b
  OBVIOUS
<1> HIDE DEF b, c
<1>6. c < b <=> u.first <= b
  BY <1>1, <1>2, <1>3, <1>5, SMT
<1> QED
  BY <1>4, <1>6

NoneCloses(usage, tr) ==
  \A u \in DOMAIN usage : TruncTo(usage[u].first, Second) # TruncTo(tr.to, Second)
RuleSheet(d, rows, p, order) ==
  LET overlapped == {r \in rows : /\ r.serie = p.serie /\ r.kind = p.kind
                                  /\ Like(p.filter, r.name) \/ Like(p.filter, r.expression)}
      latest(k) == {r \in overlapped : RuleKey(r) = k /\ \A s \in overlapped :
                      RuleKey(s) = k => d.rules[s].last <= d.rules[r].last}
      keys == {RuleKey(r) : r \in overlapped}
      Row(r) == [group_name |-> r.group_name, name |-> r.name,
                 expression |-> r.expression, created_at |-> d.rules[r].first]
  IN  UNION {PagedByCount(Cardinality({Joined[k] : k \in keys}), {Row(pick[k]) : k \in keys},
               order, ValidatePagination(p.page, p.pageSize, 10)) :
             pick \in {f \in [keys -> overlapped] : \A k \in keys : f[k] \in latest(k)}}
DefaultSort(r) == r.sortBy \notin TextColumns /\ r.sortOrder \in PG!SortOrders
LEMMA RulesAgree ==
  ASSUME ReaderInv, NEW f, NEW tr, IsWindow(tr), NEW r, Asks(r, f, tr), AsksFirst(r), r.name # Any,
         r.kind \in {"alert", "record"}, DefaultSort(r), NEW d, d.rules = rules, NoneCloses(rules, tr)
  PROVE  GetMetricUsage("sqlite", d, r, now) = GetMetricUsage("postgresql", d, r, now)
<1> DEFINE p == Listing(r, now, 1)
<1> DEFINE S == {v \in DOMAIN d.rules : SQ!Overlaps(d.rules[v], tr)}
<1> DEFINE G == {v \in DOMAIN d.rules : PG!Overlaps(d.rules[v], tr)}
<1>1. p.timeRange = tr /\ p.sortBy \notin TextColumns /\ p.sortOrder \in PG!SortOrders
  BY RangeParameters DEF Listing, DefaultSort
<1>2. SQ!SetDefaultTimeRange(tr, now) = tr /\ PG!SetDefaultTimeRange(tr, now) = tr
  BY RangeParameters
<1>3. \A v \in DOMAIN rules : rules[v].first \in Nat
  <2>1. \A v \in DOMAIN rules : rules[v] \in UsageRow
    BY DEF ReaderInv, SummaryInv, TableTypes, RuleTypes
  <2>2. \A u \in UsageRow : u.first \in Nat
    BY InstantsAssumption DEF UsageRow
  <2> QED
    BY <2>1, <2>2
<1>4. \A v \in DOMAIN rules : SQ!Overlaps(rules[v], tr) <=> PG!Overlaps(rules[v], tr)
  BY <1>3, SameOverlaps DEF NoneCloses
<1>5. S = G
  BY <1>4
<1> HIDE DEF p
<1>6. /\ SQ!GetRulesUsage(d, p, now) = SQ!RulePages(d, S, p, FALSE)
      /\ PG!GetRulesUsage(d, p, now) = PG!RulePages(d, G, p, TRUE)
  BY <1>1, <1>2, Zenon DEF SQ!GetRulesUsage, PG!GetRulesUsage
<1> HIDE DEF S, G
<1>7. SQ!GetRulesUsage(d, p, now) = PG!GetRulesUsage(d, p, now)
  <2>1. \A fields : OrderBy(CheckSortField(p.sortBy, p.sortOrder, fields), TRUE)
                    = OrderBy(CheckSortField(p.sortBy, p.sortOrder, fields), FALSE)
    BY <1>1, SameOrders
  <2>2. RulePages(d, S, p, FALSE) = RulePages(d, G, p, TRUE)
    <3> DEFINE o(c) == OrderBy(CheckSortField(p.sortBy, p.sortOrder,
                                 {"name", "group_name", "expression", "created_at"}), c)
    <3>1. o(FALSE) = o(TRUE)
      BY <2>1
    <3> DEFINE W(o0) == RuleSheet(d, S, p, o0)
    <3>2. RulePages(d, S, p, FALSE) = W(o(FALSE)) /\ RulePages(d, S, p, TRUE) = W(o(TRUE))
      BY DEF RulePages, RuleSheet
    <3> HIDE DEF o, W
    <3> QED
      BY <1>5, <3>1, <3>2, Zenon
  <2> QED
    BY <1>6, <2>2, SameRulePages
<1>8. "postgresql" # "sqlite" /\ r.kind # "dashboard" /\ r.kind # "" /\ ~IsBad(r)
  BY FirstPageParameters, Zenon
<1> QED
  BY <1>7, <1>8, Zenon DEF GetMetricUsage, p

LEMMA DashboardsAgree ==
  ASSUME ReaderInv, NEW f, NEW tr, IsWindow(tr), NEW r, Asks(r, f, tr), AsksFirst(r), r.name # Any,
         r.kind = "dashboard", DefaultSort(r), NEW d, d.dashboards = dashboards, NoneCloses(dashboards, tr)
  PROVE  GetMetricUsage("sqlite", d, r, now) = GetMetricUsage("postgresql", d, r, now)
<1> DEFINE p == Listing(r, now, 1)
<1> DEFINE S == {k \in DOMAIN d.dashboards : SQ!Overlaps(d.dashboards[k], tr)}
<1> DEFINE G == {k \in DOMAIN d.dashboards : PG!Overlaps(d.dashboards[k], tr)}
<1>1. p.timeRange = tr /\ p.sortBy \notin TextColumns /\ p.sortOrder \in PG!SortOrders
  BY RangeParameters DEF Listing, DefaultSort
<1>2. SQ!SetDefaultTimeRange(tr, now) = tr /\ PG!SetDefaultTimeRange(tr, now) = tr
  BY RangeParameters
<1>3. \A k \in DOMAIN dashboards : dashboards[k].first \in Nat
  BY InstantsAssumption DEF ReaderInv, DashboardValues, DashboardRow
<1>4. \A k \in DOMAIN dashboards : SQ!Overlaps(dashboards[k], tr) <=> PG!Overlaps(dashboards[k], tr)
  BY <1>3, SameOverlaps DEF NoneCloses
<1>5. S = G
  BY <1>4
<1> HIDE DEF p
<1>6. /\ SQ!GetDashboardUsage(d, p, now) = SQ!DashboardPages(d, S, p, FALSE)
      /\ PG!GetDashboardUsage(d, p, now) = PG!DashboardPages(d, G, p, TRUE)
  BY <1>1, <1>2, Zenon DEF SQ!GetDashboardUsage, PG!GetDashboardUsage
<1> HIDE DEF S, G
<1>7. SQ!GetDashboardUsage(d, p, now) = PG!GetDashboardUsage(d, p, now)
  <2>1. \A fields : OrderBy(CheckSortField(p.sortBy, p.sortOrder, fields), TRUE)
                    = OrderBy(CheckSortField(p.sortBy, p.sortOrder, fields), FALSE)
    BY <1>1, SameOrders
  <2>2. DashboardPages(d, S, p, FALSE) = DashboardPages(d, G, p, TRUE)
    <3> DEFINE o(c) == OrderBy(CheckSortField(p.sortBy, p.sortOrder, {"name", "created_at"}), c)
    <3>1. o(FALSE) = o(TRUE)
      BY <2>1
    <3> QED
      BY <1>5, <3>1 DEF DashboardPages
  <2> QED
    BY <1>6, <2>2, SameDashboardPages
<1>8. "postgresql" # "sqlite" /\ r.kind # "" /\ ~IsBad(r)
  BY FirstPageParameters, Zenon
<1> QED
  BY <1>7, <1>8, Zenon DEF GetMetricUsage, p

(* The tables and the requests of ProvidersAgree. *)
Plain(tr) == [db EXCEPT !.queries = {q \in @ \ Closing(tr) : Len(q.labelMatchers) <= 1}]
PlainWithin(tr) == [Plain(tr) EXCEPT !.queries = {q \in @ : SQ!TsBetween(q, tr)}]
PlainLater(tr) == [Plain(tr) EXCEPT !.queries = @ \ Opening(tr)]
PlainWhole(tr) == [Plain(tr) EXCEPT !.queries =
                     {q \in @ : q.type = "range" =>
                                  q.start < q.end /\ IsWhole(q.start) /\ IsWhole(q.end)}]
ByDuration(f, tr) == [Ask(tr) EXCEPT !.fingerprint = f, !.sortBy = "duration"]
NamedOnly(n, tr) == [Ask(tr) EXCEPT !.name = n]
NamedKind(n, kind, tr) == [NamedOnly(n, tr) EXCEPT !.kind = kind]

LEMMA AgreedTables ==
  ASSUME ReaderInv, NEW tr, IsWindow(tr)
  PROVE  /\ Spared(Plain(tr), tr) /\ Single(Plain(tr))
         /\ Plain(tr).rules = rules /\ Plain(tr).dashboards = dashboards
         /\ Spared(PlainWithin(tr), tr) /\ Single(PlainWithin(tr)) /\ Ranged(PlainWithin(tr), tr)
         /\ Spared(PlainLater(tr), tr) /\ Single(PlainLater(tr)) /\ Past(PlainLater(tr), tr)
         /\ Spared(PlainWhole(tr), tr) /\ WholeRanges(PlainWhole(tr))
<1>1. /\ Plain(tr).queries = {q \in queries \ Closing(tr) : Len(q.labelMatchers) <= 1}
      /\ Plain(tr).rules = rules /\ Plain(tr).dashboards = dashboards
  BY DEF Plain, db
<1>2. /\ PlainWithin(tr).queries = {q \in Plain(tr).queries : SQ!TsBetween(q, tr)}
      /\ PlainLater(tr).queries = Plain(tr).queries \ Opening(tr)
      /\ PlainWhole(tr).queries =
           {q \in Plain(tr).queries : q.type = "range" =>
                                        q.start < q.end /\ IsWhole(q.start) /\ IsWhole(q.end)}
  BY Zenon DEF PlainWithin, PlainLater, PlainWhole, Plain, db
<1>3. Spared(Plain(tr), tr) /\ Single(Plain(tr))
  BY <1>1 DEF Spared, Outside, Single
<1>4. \A q \in Plain(tr).queries : SQ!TsBetween(q, tr) => InRange(q, tr)
  BY <1>3, SparedFacts
<1>5. Spared(PlainWithin(tr), tr) /\ Single(PlainWithin(tr)) /\ Ranged(PlainWithin(tr), tr)
  BY <1>2, <1>3, <1>4, Zenon DEF Spared, Single, Ranged
<1>6. Spared(PlainLater(tr), tr) /\ Single(PlainLater(tr)) /\ Past(PlainLater(tr), tr)
  BY <1>2, <1>3, Zenon DEF Spared, Single, Past
<1>7. Spared(PlainWhole(tr), tr) /\ WholeRanges(PlainWhole(tr))
  BY <1>2, <1>3, Zenon DEF Spared, WholeRanges
<1> QED
  BY <1>1, <1>3, <1>5, <1>6, <1>7

LEMMA AgreedRequests ==
  ASSUME NEW tr, NEW f, NEW n, NEW kind
  PROVE  /\ Asks(ByDuration(f, tr), f, tr) /\ AsksFirst(ByDuration(f, tr))
         /\ ByDuration(f, tr).sortBy = "duration" /\ "duration" \notin TextColumns
         /\ Asks(NamedOnly(n, tr), Any, tr) /\ NamedOnly(n, tr).name = n
         /\ NamedOnly(n, tr).sortBy \notin TextColumns
         /\ Asks(NamedKind(n, kind, tr), Any, tr) /\ AsksFirst(NamedKind(n, kind, tr))
         /\ NamedKind(n, kind, tr).name = n /\ NamedKind(n, kind, tr).kind = kind
         /\ DefaultSort(NamedKind(n, kind, tr))
<1>1. /\ Asks(ByDuration(f, tr), f, tr) /\ AsksFirst(ByDuration(f, tr))
      /\ ByDuration(f, tr).sortBy = "duration"
  BY Zenon DEF Asks, AsksFirst, ByDuration, Ask
<1>2. Asks(NamedOnly(n, tr), Any, tr) /\ NamedOnly(n, tr).name = n
  BY Zenon DEF Asks, NamedOnly, Ask
<1>3. /\ Asks(NamedKind(n, kind, tr), Any, tr) /\ AsksFirst(NamedKind(n, kind, tr))
      /\ NamedKind(n, kind, tr).name = n /\ NamedKind(n, kind, tr).kind = kind
  BY Zenon DEF Asks, AsksFirst, NamedKind, NamedOnly, Ask
<1>4. "duration" \notin TextColumns /\ "" \notin TextColumns /\ "" \in PG!SortOrders
  BY Zenon DEF TextColumns, PG!SortOrders
<1>5. NamedOnly(n, tr).sortBy = "" /\ NamedKind(n, kind, tr).sortBy = ""
      /\ NamedKind(n, kind, tr).sortOrder = ""
  BY Zenon DEF NamedKind, NamedOnly, Ask
<1> QED
  BY <1>1, <1>2, <1>3, <1>4, <1>5, Zenon DEF DefaultSort

AnswersAgree(f, n, tr) ==
  LET r == ByDuration(f, tr)
      named == NamedOnly(n, tr)
      d == Plain(tr)
  IN  /\ (\E q \in d.queries : SQ!TsBetween(q, tr) /\ HasFingerprint(q, f)) =>
           /\ queryTypes("sqlite", d, r, now) = queryTypes("postgresql", d, r, now)
           /\ averageDuration("sqlite", d, r, now).avgDuration
                = averageDuration("postgresql", d, r, now).avgDuration
           /\ queryRate("sqlite", d, r, now) = queryRate("postgresql", d, r, now)
      /\ queryTimeRangeDistribution("sqlite", PlainWhole(tr), r, now)
           = queryTimeRangeDistribution("postgresql", PlainWhole(tr), r, now)
      /\ queryExpressions("sqlite", d, r, now) = queryExpressions("postgresql", d, r, now)
      /\ f # Any => {a.total : a \in queryExecutions("sqlite", d, r, now)}
                      = {a.total : a \in queryExecutions("postgresql", d, r, now)}
      /\ (GetInterval(tr) = Minute /\ tr.from <= tr.to) =>
           /\ queryStatusDistribution("sqlite", d, r, now)
                = queryStatusDistribution("postgresql", d, r, now)
           /\ queryLatencyTrends("sqlite", PlainWithin(tr), named, now)
                = queryLatencyTrends("postgresql", PlainWithin(tr), named, now)
      /\ serieExpressions("sqlite", PlainLater(tr), named, now)
           = serieExpressions("postgresql", PlainLater(tr), named, now)
      /\ GetMetricQueryPerformanceStatistics("sqlite", d, named, now).performance.averageDuration
           = GetMetricQueryPerformanceStatistics("postgresql", d, named, now)
               .performance.averageDuration
      /\ (~\E u \in DOMAIN rules : TruncTo(rules[u].first, Second) = TruncTo(tr.to, Second)) =>
           \A kind \in {"alert", "record"} :
             GetMetricUsage("sqlite", d, NamedKind(n, kind, tr), now)
               = GetMetricUsage("postgresql", d, NamedKind(n, kind, tr), now)
      /\ (~\E u \in DOMAIN dashboards :
             TruncTo(dashboards[u].first, Second) = TruncTo(tr.to, Second)) =>
           GetMetricUsage("sqlite", d, NamedKind(n, "dashboard", tr), now)
             = GetMetricUsage("postgresql", d, NamedKind(n, "dashboard", tr), now)

LEMMA AllAnswersAgree ==
  ASSUME ReaderInv, NEW f, NEW n \in Nat \ {Any}, NEW tr, IsWindow(tr)
  PROVE  AnswersAgree(f, n, tr)
<1> DEFINE r == ByDuration(f, tr)
<1> DEFINE named == NamedOnly(n, tr)
<1> DEFINE d == Plain(tr)
<1> DEFINE within == PlainWithin(tr)
<1> DEFINE later == PlainLater(tr)
<1> DEFINE whole == PlainWhole(tr)
<1>1. /\ Spared(d, tr) /\ Single(d) /\ d.rules = rules /\ d.dashboards = dashboards
      /\ Spared(within, tr) /\ Single(within) /\ Ranged(within, tr)
      /\ Spared(later, tr) /\ Single(later) /\ Past(later, tr)
      /\ Spared(whole, tr) /\ WholeRanges(whole)
  BY AgreedTables
<1>2. /\ Asks(r, f, tr) /\ AsksFirst(r) /\ r.sortBy = "duration"
      /\ r.sortBy \notin TextColumns
      /\ Asks(named, Any, tr) /\ named.name = n /\ named.sortBy \notin TextColumns
  BY AgreedRequests
<1> HIDE DEF r, named, d, within, later, whole
<1>3. ASSUME NEW q \in d.queries, SQ!TsBetween(q, tr), HasFingerprint(q, f)
      PROVE  /\ queryTypes("sqlite", d, r, now) = queryTypes("postgresql", d, r, now)
             /\ averageDuration("sqlite", d, r, now).avgDuration
                  = averageDuration("postgresql", d, r, now).avgDuration
             /\ queryRate("sqlite", d, r, now) = queryRate("postgresql", d, r, now)
  <2>1. q \in RowsOf(d, f, tr)
    BY <1>1, <1>3, SparedFacts DEF RowsOf
  <2>2. RowsOf(d, f, tr) # {}
    BY <2>1
  <2> QED
    BY <1>1, <1>2, <2>2, TypesAgree, AveragesAgree, RatesAgree
<1>4. queryTimeRangeDistribution("sqlite", whole, r, now)
        = queryTimeRangeDistribution("postgresql", whole, r, now)
  BY <1>1, <1>2, DistributionsAgree
<1>5. queryExpressions("sqlite", d, r, now) = queryExpressions("postgresql", d, r, now)
  BY <1>1, <1>2, ExpressionsAgree
<1>6. f # Any => ExecutionTotalsOf("sqlite", d, r) = ExecutionTotalsOf("postgresql", d, r)
  BY <1>1, <1>2, ExecutionsAgree
<1>7. ASSUME GetInterval(tr) = Minute, tr.from <= tr.to
      PROVE  /\ queryStatusDistribution("sqlite", d, r, now)
                  = queryStatusDistribution("postgresql", d, r, now)
             /\ queryLatencyTrends("sqlite", within, named, now)
                  = queryLatencyTrends("postgresql", within, named, now)
  BY <1>1, <1>2, <1>7, StatusAgree, LatencyAgree
<1>8. serieExpressions("sqlite", later, named, now)
        = serieExpressions("postgresql", later, named, now)
  BY <1>1, <1>2, SerieExpressionsAgree
<1>9. GetMetricQueryPerformanceStatistics("sqlite", d, named, now).performance.averageDuration
        = GetMetricQueryPerformanceStatistics("postgresql", d, named, now)
            .performance.averageDuration
  BY <1>1, <1>2, PerformanceAgrees
<1>10. ASSUME ~\E u \in DOMAIN rules : TruncTo(rules[u].first, Second) = TruncTo(tr.to, Second),
              NEW kind \in {"alert", "record"}
       PROVE  GetMetricUsage("sqlite", d, NamedKind(n, kind, tr), now)
                = GetMetricUsage("postgresql", d, NamedKind(n, kind, tr), now)
  <2> DEFINE k == NamedKind(n, kind, tr)
  <2>1. Asks(k, Any, tr) /\ AsksFirst(k) /\ k.name = n /\ k.kind = kind /\ DefaultSort(k)
    BY AgreedRequests
  <2>2. NoneCloses(rules, tr)
    BY <1>10 DEF NoneCloses
  <2> HIDE DEF k
  <2>3. GetMetricUsage("sqlite", d, k, now) = GetMetricUsage("postgresql", d, k, now)
    BY <1>1, <2>1, <2>2, RulesAgree
  <2> QED
    BY <2>3 DEF k
<1>11. ASSUME ~\E u \in DOMAIN dashboards :
                  TruncTo(dashboards[u].first, Second) = TruncTo(tr.to, Second)
       PROVE  GetMetricUsage("sqlite", d, NamedKind(n, "dashboard", tr), now)
                = GetMetricUsage("postgresql", d, NamedKind(n, "dashboard", tr), now)
  <2> DEFINE k == NamedKind(n, "dashboard", tr)
  <2>1. Asks(k, Any, tr) /\ AsksFirst(k) /\ k.name = n /\ k.kind = "dashboard"
        /\ DefaultSort(k)
    BY AgreedRequests
  <2>2. NoneCloses(dashboards, tr)
    BY <1>11 DEF NoneCloses
  <2> HIDE DEF k
  <2>3. GetMetricUsage("sqlite", d, k, now) = GetMetricUsage("postgresql", d, k, now)
    BY <1>1, <2>1, <2>2, DashboardsAgree
  <2> QED
    BY <2>3 DEF k
<1> QED
  BY <1>3, <1>4, <1>5, <1>6, <1>7, <1>8, <1>9, <1>10, <1>11, Zenon
     DEF AnswersAgree, ExecutionTotalsOf, r, named, d, within, later, whole

(* In every reachable state, SQLite and PostgreSQL give the same answer     *)
(* from the same rows to every handler that ProvidersAgree names: outside   *)
(* the exceptions it lists (listings sorted by a text among them, which the *)
(* collation may order otherwise than the bytes do), it does not matter     *)
(* which one is configured.                                                 *)
THEOREM ProvidersAnswerAlike == Spec => []ProvidersAgree
<1>1. ReaderInv => ProvidersAgree
  <2> SUFFICES ASSUME ReaderInv, NEW tr \in Ranges, NEW n \in Metrics, NEW f \in Fingerprints
               PROVE  AnswersAgree(f, n, tr)
    BY Zenon DEF ProvidersAgree, AnswersAgree, ByDuration, NamedOnly, NamedKind, Plain, PlainWithin,
         PlainLater, PlainWhole
  <2>1. n \in Nat \ {Any} /\ IsWindow(tr)
    BY MetricsAssumption, RangesAreWindows
  <2> QED
    BY <2>1, AllAnswersAgree
<1> QED
  BY <1>1, ReaderInvariant, PTL
=============================================================================
