---------------------------- MODULE ExecutionProofs ----------------------------
(***************************************************************************)
(* The plans of ExecutionPlanner, the security steps they put in order,    *)
(* and the arguments with which Pipes invokes a handler: for any           *)
(* declarations of steps, any handlers, policies and requests.             *)
(***************************************************************************)
EXTENDS ExecutionPlanner, Security, Pipes, SelectionProofs, FiniteSetTheorems

-----------------------------------------------------------------------------
(* The sort.                                                               *)

\* What the order of two steps looks at.
Sortable(S) == \A x \in S : x.priority \in Nat /\ x.id \in Nat
DistinctIds(s) == \A i, j \in DOMAIN s : i # j => s[i].id # s[j].id

LEMMA HigherFirstIsTransitive ==
    ASSUME NEW x, NEW y, NEW z, x.priority \in Nat, y.priority \in Nat, z.priority \in Nat,
           x.id \in Nat, y.id \in Nat, z.id \in Nat, HigherFirst(x, y), HigherFirst(y, z)
    PROVE  HigherFirst(x, z)
<1>1. PICK a \in Nat, b \in Nat, c \in Nat : a = x.priority /\ b = y.priority /\ c = z.priority
  OBVIOUS
<1>2. PICK i \in Nat, j \in Nat, k \in Nat : i = x.id /\ j = y.id /\ k = z.id
  OBVIOUS
<1>3. (a > b \/ (a = b /\ i < j)) /\ (b > c \/ (b = c /\ j < k))
  BY <1>1, <1>2 DEF HigherFirst
<1>4. a > c \/ (a = c /\ i < k)
  BY <1>3
<1>. QED  BY <1>1, <1>2, <1>4 DEF HigherFirst

LEMMA HigherFirstIsTotal ==
    ASSUME NEW x, NEW y, x.priority \in Nat, y.priority \in Nat, x.id \in Nat, y.id \in Nat,
           x.id # y.id, ~HigherFirst(x, y)
    PROVE  HigherFirst(y, x)
<1>1. PICK a \in Nat, b \in Nat, i \in Nat, j \in Nat :
        a = x.priority /\ b = y.priority /\ i = x.id /\ j = y.id
  OBVIOUS
<1>2. i # j /\ ~(a > b \/ (a = b /\ i < j))
  BY <1>1 DEF HigherFirst
<1>3. b > a \/ (b = a /\ j < i)
  BY <1>2
<1>. QED  BY <1>1, <1>3 DEF HigherFirst

\* f has the sorted first elements of s, up to the m-th.
IsSorting(f, s, m) == f = [n \in 0 .. m |-> IF n = 0 THEN <<>> ELSE Insert(f[n - 1], s[n])]

LEMMA SortingExists ==
    ASSUME NEW S, NEW s \in Seq(S)
    PROVE  \E f : IsSorting(f, s, Len(s))
<1>. DEFINE T == {m \in Nat : \E f : IsSorting(f, s, m)}
<1>1. 0 \in T
  <2>. DEFINE f == [n \in 0 .. 0 |-> <<>>]
  <2>1. IsSorting(f, s, 0)
    BY DEF IsSorting
  <2>. QED  BY <2>1
<1>2. ASSUME NEW m \in T PROVE m + 1 \in T
  <2>1. PICK f : IsSorting(f, s, m)
    OBVIOUS
  <2>. DEFINE g == [n \in 0 .. m + 1 |-> IF n = m + 1 THEN Insert(f[m], s[n]) ELSE f[n]]
  <2>2. \A n \in 0 .. m : g[n] = f[n]
    OBVIOUS
  <2>3. \A n \in 0 .. m : f[n] = IF n = 0 THEN <<>> ELSE Insert(f[n - 1], s[n])
    BY <2>1 DEF IsSorting
  <2>4. \A n \in 0 .. m + 1 : g[n] = IF n = 0 THEN <<>> ELSE Insert(g[n - 1], s[n])
    <3>. SUFFICES ASSUME NEW n \in 0 .. m + 1
                  PROVE  g[n] = IF n = 0 THEN <<>> ELSE Insert(g[n - 1], s[n])
      OBVIOUS
    <3>1. CASE n = m + 1
      <4>1. n # 0 /\ n - 1 = m /\ g[n - 1] = f[m]
        BY <3>1, <2>2
      <4>2. g[n] = Insert(f[m], s[n])
        BY <3>1
      <4>. QED  BY <4>1, <4>2
    <3>2. CASE n \in 0 .. m
      <4>1. n = 0 \/ n - 1 \in 0 .. m
        BY <3>2
      <4>2. g[n] = f[n] /\ (n # 0 => g[n - 1] = f[n - 1])
        BY <2>2, <3>2, <4>1
      <4>. HIDE DEF g
      <4>. QED  BY <2>3, <3>2, <4>2
    <3>. QED  BY <3>1, <3>2
  <2>5. g = [n \in 0 .. m + 1 |-> g[n]]
    OBVIOUS
  <2>. HIDE DEF g
  <2>6. IsSorting(g, s, m + 1)
    BY <2>4, <2>5 DEF IsSorting
  <2>. QED  BY <2>6
<1>3. T \in SUBSET Nat
  OBVIOUS
<1>. HIDE DEF T
<1>4. Len(s) \in T
  BY <1>1, <1>2, <1>3, NumberInduction, LenProperties
<1>. QED  BY <1>4 DEF T

\* The steps of the recursion, to reason about instead of its definition.
LEMMA SortSteps ==
    ASSUME NEW S, NEW s \in Seq(S)
    PROVE  \E f : /\ Sort(s) = f[Len(s)] /\ f[0] = <<>>
                  /\ \A n \in 1 .. Len(s) : f[n] = Insert(f[n - 1], s[n])
<1>. DEFINE g == CHOOSE f : IsSorting(f, s, Len(s))
<1>1. IsSorting(g, s, Len(s))
  BY SortingExists
<1>2. Sort(s) = g[Len(s)]
  BY Zenon DEF Sort, IsSorting
<1>. HIDE DEF g
<1>3. PICK m \in Nat : m = Len(s)
  OBVIOUS
<1>4. \A n \in 0 .. m : g[n] = IF n = 0 THEN <<>> ELSE Insert(g[n - 1], s[n])
  BY <1>1, <1>3 DEF IsSorting
<1>5. g[0] = <<>> /\ \A n \in 1 .. m : g[n] = Insert(g[n - 1], s[n])
  BY <1>3, <1>4
<1>. QED  BY <1>2, <1>3, <1>5

\* Where x belongs in a sorted sequence: behind those that precede it.
LEMMA PlaceExists ==
    ASSUME NEW S, Sortable(S), NEW t \in Seq(S), NEW x \in S, SortedBy(t, HigherFirst)
    PROVE  \E k \in 0 .. Len(t) : \A i \in DOMAIN t : i <= k <=> HigherFirst(t[i], x)
<1>1. PICK n \in Nat : n = Len(t) /\ DOMAIN t = 1 .. n
  OBVIOUS
<1>2. /\ \A i \in 1 .. n : t[i].priority \in Nat /\ t[i].id \in Nat
      /\ x.priority \in Nat /\ x.id \in Nat
  BY <1>1 DEF Sortable
<1>3. \A i, j \in 1 .. n : i < j /\ HigherFirst(t[j], x) => HigherFirst(t[i], x)
  <2>. SUFFICES ASSUME NEW i \in 1 .. n, NEW j \in 1 .. n, i < j, HigherFirst(t[j], x)
                PROVE  HigherFirst(t[i], x)
    OBVIOUS
  <2>1. HigherFirst(t[i], t[j])
    BY <1>1 DEF SortedBy
  <2>. QED  BY <1>2, <2>1, HigherFirstIsTransitive
<1>. DEFINE T == {m \in Nat : m <= n =>
                    \E k \in 0 .. m : \A i \in 1 .. m : i <= k <=> HigherFirst(t[i], x)}
<1>4. 0 \in T
  <2>1. 0 \in 0 .. 0 /\ 1 .. 0 = {}
    OBVIOUS
  <2>. QED  BY <2>1
<1>5. ASSUME NEW m \in T PROVE m + 1 \in T
  <2>. SUFFICES ASSUME m + 1 <= n
                PROVE  \E k \in 0 .. m + 1 : \A i \in 1 .. m + 1 : i <= k <=> HigherFirst(t[i], x)
    OBVIOUS
  <2>1. PICK k \in 0 .. m : \A i \in 1 .. m : i <= k <=> HigherFirst(t[i], x)
    BY <1>1
  <2>2. CASE HigherFirst(t[m + 1], x)
    <3>1. \A i \in 1 .. m + 1 : HigherFirst(t[i], x)
      BY <1>1, <1>3, <2>2
    <3>2. m + 1 \in 0 .. m + 1 /\ \A i \in 1 .. m + 1 : i <= m + 1
      OBVIOUS
    <3>. QED  BY <3>1, <3>2
  <2>3. CASE ~HigherFirst(t[m + 1], x)
    <3>1. k \in 0 .. m + 1 /\ \A i \in 1 .. m + 1 : i <= k <=> HigherFirst(t[i], x)
      BY <2>1, <2>3
    <3>. QED  BY <3>1
  <2>. QED  BY <2>2, <2>3
<1>6. T \in SUBSET Nat
  OBVIOUS
<1>. HIDE DEF T
<1>7. n \in T
  BY <1>4, <1>5, <1>6, NumberInduction
<1>. QED  BY <1>1, <1>7 DEF T

\* Insert keeps a sequence sorted and adds the one element.
LEMMA InsertSorts ==
    ASSUME NEW S, Sortable(S), NEW t \in Seq(S), NEW x \in S, SortedBy(t, HigherFirst),
           \A i \in DOMAIN t : t[i].id # x.id
    PROVE  /\ Insert(t, x) \in Seq(S) /\ Len(Insert(t, x)) = Len(t) + 1
           /\ Elements(Insert(t, x)) = Elements(t) \cup {x}
           /\ SortedBy(Insert(t, x), HigherFirst)
<1>1. PICK n \in Nat : n = Len(t) /\ DOMAIN t = 1 .. n
  OBVIOUS
<1>2. PICK k \in 0 .. n :
        /\ \A i \in 1 .. n : i <= k <=> HigherFirst(t[i], x)
        /\ Insert(t, x) = [i \in 1 .. n + 1 |-> IF i <= k THEN t[i] ELSE IF i = k + 1 THEN x ELSE t[i - 1]]
  <2>. DEFINE P(k) == \A i \in DOMAIN t : i <= k <=> HigherFirst(t[i], x)
              c == CHOOSE k \in 0 .. Len(t) : P(k)
  <2>1. \E k \in 0 .. Len(t) : P(k)
    BY PlaceExists
  <2>2. c \in 0 .. Len(t) /\ P(c)
    <3>. HIDE DEF P
    <3>. QED  BY <2>1
  <2>3. Insert(t, x) = [i \in 1 .. Len(t) + 1 |-> IF i <= c THEN t[i] ELSE IF i = c + 1 THEN x ELSE t[i - 1]]
    BY DEF Insert
  <2>. HIDE DEF c
  <2>. QED  BY <1>1, <2>2, <2>3
<1>3. PICK u : u = Insert(t, x)
  OBVIOUS
<1>4. /\ \A i \in 1 .. n : t[i] \in S /\ t[i].priority \in Nat /\ t[i].id \in Nat /\ t[i].id # x.id
      /\ x.priority \in Nat /\ x.id \in Nat
  BY <1>1 DEF Sortable
<1>5. \A i \in 1 .. n + 1 :
        \/ i <= k /\ i \in 1 .. n /\ u[i] = t[i]
        \/ i = k + 1 /\ u[i] = x
        \/ i > k + 1 /\ i - 1 \in 1 .. n /\ u[i] = t[i - 1]
  BY <1>2, <1>3
<1>6. u \in Seq(S) /\ Len(u) = n + 1 /\ DOMAIN u = 1 .. n + 1
  <2>1. \A i \in 1 .. n + 1 : u[i] \in S
    BY <1>4, <1>5
  <2>2. u \in [1 .. n + 1 -> S]
    BY <1>2, <1>3, <2>1
  <2>. QED  BY <2>2
<1>7. Elements(u) = Elements(t) \cup {x}
  <2>1. Elements(u) \subseteq Elements(t) \cup {x}
    BY <1>1, <1>5, <1>6 DEF Elements
  <2>2. x \in Elements(u)
    <3>1. k + 1 \in 1 .. n + 1 /\ u[k + 1] = x
      BY <1>2, <1>3
    <3>. QED  BY <1>6, <3>1 DEF Elements
  <2>3. ASSUME NEW i \in 1 .. n PROVE t[i] \in Elements(u)
    <3>1. CASE i <= k
      <4>1. i \in 1 .. n + 1 /\ u[i] = t[i]
        BY <1>2, <1>3, <3>1
      <4>. QED  BY <1>6, <4>1 DEF Elements
    <3>2. CASE i > k
      <4>1. i + 1 \in 1 .. n + 1 /\ u[i + 1] = t[i]
        BY <1>2, <1>3, <3>2
      <4>. QED  BY <1>6, <4>1 DEF Elements
    <3>. QED  BY <3>1, <3>2
  <2>. QED  BY <1>1, <2>1, <2>2, <2>3 DEF Elements
<1>8. ASSUME NEW i \in 1 .. n + 1, NEW j \in 1 .. n + 1, i < j PROVE HigherFirst(u[i], u[j])
  <2>1. \A p, q \in 1 .. n : p < q => HigherFirst(t[p], t[q])
    BY <1>1 DEF SortedBy
  <2>2. \A p \in 1 .. n : p <= k => HigherFirst(t[p], x)
    BY <1>2
  <2>3. \A p \in 1 .. n : p > k => HigherFirst(x, t[p])
    <3>. SUFFICES ASSUME NEW p \in 1 .. n, p > k PROVE HigherFirst(x, t[p])
      OBVIOUS
    <3>1. ~HigherFirst(t[p], x)
      BY <1>2
    <3>. QED  BY <1>4, <3>1, HigherFirstIsTotal
  <2>4. CASE j <= k
    <3>1. i \in 1 .. n /\ j \in 1 .. n /\ u[i] = t[i] /\ u[j] = t[j]
      <4>1. i <= k /\ i # k + 1 /\ j # k + 1
        BY <1>2, <1>8, <2>4
      <4>. QED  BY <1>5, <2>4, <4>1
    <3>. QED  BY <1>8, <2>1, <3>1
  <2>5. CASE j = k + 1
    <3>1. i <= k /\ i \in 1 .. n /\ u[i] = t[i] /\ u[j] = x
      BY <1>5, <1>8, <2>5
    <3>. QED  BY <2>2, <3>1
  <2>6. CASE j > k + 1
    <3>1. j - 1 \in 1 .. n /\ j - 1 > k /\ u[j] = t[j - 1]
      BY <1>5, <2>6
    <3>2. CASE i <= k
      <4>1. i \in 1 .. n /\ u[i] = t[i] /\ i < j - 1
        BY <1>5, <2>6, <3>2
      <4>. QED  BY <2>1, <3>1, <4>1
    <3>3. CASE i = k + 1
      <4>1. u[i] = x
        BY <1>5, <3>3
      <4>. QED  BY <2>3, <3>1, <4>1
    <3>4. CASE i > k + 1
      <4>1. i - 1 \in 1 .. n /\ u[i] = t[i - 1] /\ i - 1 < j - 1
        BY <1>5, <1>8, <3>4
      <4>. QED  BY <2>1, <3>1, <4>1
    <3>. QED  BY <3>2, <3>3, <3>4
  <2>. QED  BY <2>4, <2>5, <2>6
<1>9. SortedBy(u, HigherFirst)
  BY <1>6, <1>8 DEF SortedBy
<1>. QED  BY <1>1, <1>3, <1>6, <1>7, <1>9

\* Sort has the elements of s, sorted.
LEMMA SortSorts ==
    ASSUME NEW S, Sortable(S), NEW s \in Seq(S), DistinctIds(s)
    PROVE  /\ Sort(s) \in Seq(S) /\ Elements(Sort(s)) = Elements(s)
           /\ SortedBy(Sort(s), HigherFirst)
<1>1. PICK n \in Nat : n = Len(s) /\ DOMAIN s = 1 .. n
  OBVIOUS
<1>2. PICK f : /\ Sort(s) = f[n] /\ f[0] = <<>>
               /\ \A m \in 1 .. n : f[m] = Insert(f[m - 1], s[m])
  BY <1>1, SortSteps
<1>. DEFINE Sorts(m, t) ==
              /\ t \in Seq(S) /\ Elements(t) = {s[i] : i \in 1 .. m} /\ SortedBy(t, HigherFirst)
            T == {m \in Nat : m <= n => Sorts(m, f[m])}
<1>3. 0 \in T
  <2>1. PICK t : t = f[0]
    OBVIOUS
  <2>2. t \in Seq(S) /\ DOMAIN t = {} /\ 1 .. 0 = {}
    BY <1>2, <2>1
  <2>3. Sorts(0, t)
    BY <2>2 DEF Elements, SortedBy
  <2>. HIDE DEF Sorts
  <2>. QED  BY <2>1, <2>3
<1>4. ASSUME NEW m \in T PROVE m + 1 \in T
  <2>. SUFFICES ASSUME m + 1 <= n PROVE Sorts(m + 1, f[m + 1])
    OBVIOUS
  <2>1. m \in Nat /\ m + 1 \in 1 .. n /\ (m + 1) - 1 = m
    BY <1>1
  <2>2. PICK t : t = f[m]
    OBVIOUS
  <2>3. Sorts(m, t)
    BY <2>1, <2>2
  <2>4. f[m + 1] = Insert(t, s[m + 1])
    BY <1>2, <2>1, <2>2
  <2>5. ASSUME NEW i \in DOMAIN t PROVE t[i].id # s[m + 1].id
    <3>1. t[i] \in Elements(t)
      BY DEF Elements
    <3>2. PICK j \in 1 .. m : t[i] = s[j]
      BY <2>3, <3>1
    <3>3. j \in DOMAIN s /\ m + 1 \in DOMAIN s /\ j # m + 1
      BY <1>1, <2>1
    <3>. QED  BY <3>2, <3>3 DEF DistinctIds
  <2>6. t \in Seq(S) /\ s[m + 1] \in S
    BY <1>1, <2>1, <2>3
  <2>7. PICK u : u = Insert(t, s[m + 1])
    OBVIOUS
  <2>8. u \in Seq(S) /\ Elements(u) = Elements(t) \cup {s[m + 1]} /\ SortedBy(u, HigherFirst)
    <3>1. SortedBy(t, HigherFirst)
      BY <2>3
    <3>. QED  BY <2>5, <2>6, <2>7, <3>1, InsertSorts
  <2>9. {s[i] : i \in 1 .. m} \cup {s[m + 1]} = {s[i] : i \in 1 .. m + 1}
    <3>1. 1 .. m + 1 = (1 .. m) \cup {m + 1}
      BY <2>1
    <3>. QED  BY <3>1
  <2>10. Elements(t) = {s[i] : i \in 1 .. m}
    BY <2>3
  <2>11. Sorts(m + 1, u)
    BY <2>8, <2>9, <2>10
  <2>. HIDE DEF Sorts
  <2>. QED  BY <2>4, <2>7, <2>11
<1>5. T \in SUBSET Nat
  OBVIOUS
<1>. HIDE DEF T
<1>6. T = Nat
  BY <1>3, <1>4, <1>5, NumberInduction
<1>7. PICK t : t = Sort(s)
  OBVIOUS
<1>8. Sorts(n, t)
  <2>. HIDE DEF Sorts
  <2>. QED  BY <1>2, <1>6, <1>7 DEF T
<1>9. {s[i] : i \in 1 .. n} = Elements(s)
  BY <1>1 DEF Elements
<1>. QED  BY <1>7, <1>8, <1>9

-----------------------------------------------------------------------------
(* Sequences that are sorted by a relation, a set of pairs.                *)

SortedIn(s, R) == \A i, j \in DOMAIN s : i < j => <<s[i], s[j]>> \in R
OuterIn(S) == {p \in S \X S : Outer(p[1], p[2])}
InnerIn(S) == {p \in S \X S : Inner(p[1], p[2])}
PrecedesIn(S) == {p \in S \X S : Precedes(p[1], p[2])}
NearerIn(S) == {p \in S \X S : Nearer(p[1], p[2])}

LEMMA SelectionSorted ==
    ASSUME NEW S, NEW s \in Seq(S), NEW I, NEW R
    PROVE  /\ Select(s, I) \in Seq(S)
           /\ Elements(Select(s, I)) = {s[i] : i \in I \cap DOMAIN s}
           /\ SortedIn(s, R) => SortedIn(Select(s, I), R)
<1>1. PICK u : u = Select(s, I)
  OBVIOUS
<1>2. u \in Seq(S)
  BY <1>1, SelectPlaces
<1>3. PICK g \in [1 .. Len(u) -> (1 .. Len(s)) \cap I] :
        /\ \A k \in 1 .. Len(u) : u[k] = s[g[k]]
        /\ \A j, k \in 1 .. Len(u) : j < k => g[j] < g[k]
        /\ \A i \in (1 .. Len(s)) \cap I : \E k \in 1 .. Len(u) : g[k] = i
  BY <1>1, SelectPlaces
<1>4. DOMAIN u = 1 .. Len(u) /\ DOMAIN s = 1 .. Len(s)
  BY <1>2
<1>5. Elements(u) = {s[i] : i \in I \cap DOMAIN s}
  <2>1. \A k \in DOMAIN u : g[k] \in I \cap DOMAIN s /\ u[k] = s[g[k]]
    BY <1>3, <1>4
  <2>2. \A i \in I \cap DOMAIN s : \E k \in DOMAIN u : u[k] = s[i]
    BY <1>3, <1>4
  <2>. QED  BY <2>1, <2>2 DEF Elements
<1>6. ASSUME SortedIn(s, R) PROVE SortedIn(u, R)
  <2>. SUFFICES ASSUME NEW j \in DOMAIN u, NEW k \in DOMAIN u, j < k PROVE <<u[j], u[k]>> \in R
    BY DEF SortedIn
  <2>1. g[j] \in DOMAIN s /\ g[k] \in DOMAIN s /\ g[j] < g[k] /\ u[j] = s[g[j]] /\ u[k] = s[g[k]]
    BY <1>3, <1>4
  <2>. QED  BY <1>6, <2>1 DEF SortedIn
<1>. QED  BY <1>1, <1>2, <1>5, <1>6

LEMMA ConcatenationSorted ==
    ASSUME NEW S, NEW s \in Seq(S), NEW t \in Seq(S), NEW R
    PROVE  /\ s \o t \in Seq(S)
           /\ Elements(s \o t) = Elements(s) \cup Elements(t)
           /\ SortedIn(s, R) /\ SortedIn(t, R) /\ (\A x \in Elements(s), y \in Elements(t) : <<x, y>> \in R)
                => SortedIn(s \o t, R)
<1>1. PICK n \in Nat, m \in Nat : n = Len(s) /\ DOMAIN s = 1 .. n /\ m = Len(t) /\ DOMAIN t = 1 .. m
  OBVIOUS
<1>2. PICK u : u = s \o t
  OBVIOUS
<1>3. /\ u \in Seq(S) /\ DOMAIN u = 1 .. n + m
      /\ \A i \in 1 .. n + m : u[i] = IF i <= n THEN s[i] ELSE t[i - n]
  BY <1>1, <1>2
<1>4. Elements(u) = Elements(s) \cup Elements(t)
  <2>1. \A i \in 1 .. n : i \in 1 .. n + m /\ u[i] = s[i]
    BY <1>3
  <2>2. \A j \in 1 .. m : n + j \in 1 .. n + m /\ u[n + j] = t[j]
    BY <1>3
  <2>3. \A i \in 1 .. n + m : (i \in 1 .. n /\ u[i] = s[i]) \/ (i - n \in 1 .. m /\ u[i] = t[i - n])
    BY <1>3
  <2>4. Elements(s) \subseteq Elements(u)
    BY <1>1, <1>3, <2>1 DEF Elements
  <2>5. Elements(t) \subseteq Elements(u)
    BY <1>1, <1>3, <2>2 DEF Elements
  <2>6. Elements(u) \subseteq Elements(s) \cup Elements(t)
    BY <1>1, <1>3, <2>3 DEF Elements
  <2>. QED  BY <2>4, <2>5, <2>6
<1>5. ASSUME SortedIn(s, R), SortedIn(t, R), \A x \in Elements(s), y \in Elements(t) : <<x, y>> \in R
      PROVE  SortedIn(u, R)
  <2>. SUFFICES ASSUME NEW i \in 1 .. n + m, NEW j \in 1 .. n + m, i < j PROVE <<u[i], u[j]>> \in R
    BY <1>3 DEF SortedIn
  <2>1. CASE j <= n
    <3>1. i \in 1 .. n /\ j \in 1 .. n /\ u[i] = s[i] /\ u[j] = s[j]
      BY <1>3, <2>1
    <3>. QED  BY <1>1, <1>5, <3>1 DEF SortedIn
  <2>2. CASE i <= n /\ j > n
    <3>1. i \in 1 .. n /\ j - n \in 1 .. m /\ u[i] = s[i] /\ u[j] = t[j - n]
      BY <1>3, <2>2
    <3>. QED  BY <1>1, <1>5, <3>1 DEF Elements
  <2>3. CASE i > n
    <3>1. i - n \in 1 .. m /\ j - n \in 1 .. m /\ i - n < j - n /\ u[i] = t[i - n] /\ u[j] = t[j - n]
      BY <1>3, <2>3
    <3>. QED  BY <1>1, <1>5, <3>1 DEF SortedIn
  <2>. QED  BY <2>1, <2>2, <2>3
<1>. QED  BY <1>2, <1>3, <1>4, <1>5

LEMMA ReversalSorted ==
    ASSUME NEW S, NEW s \in Seq(S)
    PROVE  /\ ToReversed(s) \in Seq(S) /\ Elements(ToReversed(s)) = Elements(s)
           /\ SortedIn(s, OuterIn(S)) => SortedIn(ToReversed(s), InnerIn(S))
<1>1. PICK n \in Nat : n = Len(s) /\ DOMAIN s = 1 .. n
  OBVIOUS
<1>2. PICK u : u = ToReversed(s)
  OBVIOUS
<1>3. /\ DOMAIN u = 1 .. n
      /\ \A i \in 1 .. n : n + 1 - i \in 1 .. n /\ n + 1 - (n + 1 - i) = i /\ u[i] = s[n + 1 - i] /\ u[i] \in S
  BY <1>1, <1>2 DEF ToReversed
<1>4. u \in Seq(S)
  <2>1. u = [i \in 1 .. n |-> u[i]]
    BY <1>1, <1>2 DEF ToReversed
  <2>2. u \in [1 .. n -> S]
    BY <1>3, <2>1
  <2>. QED  BY <2>2
<1>5. Elements(u) = Elements(s)
  <2>1. \A i \in 1 .. n : u[n + 1 - i] = s[i]
    BY <1>3
  <2>2. ASSUME NEW i \in 1 .. n PROVE u[i] \in Elements(s) /\ s[i] \in Elements(u)
    <3>1. PICK k \in 1 .. n : k = n + 1 - i /\ u[i] = s[k] /\ u[k] = s[i]
      BY <1>3, <2>1
    <3>. QED  BY <1>1, <1>3, <3>1 DEF Elements
  <2>. QED  BY <1>1, <1>3, <2>2 DEF Elements
<1>6. ASSUME SortedIn(s, OuterIn(S)) PROVE SortedIn(u, InnerIn(S))
  <2>. SUFFICES ASSUME NEW i \in 1 .. n, NEW j \in 1 .. n, i < j PROVE <<u[i], u[j]>> \in InnerIn(S)
    BY <1>3 DEF SortedIn
  <2>1. PICK k \in 1 .. n, l \in 1 .. n : k = n + 1 - j /\ l = n + 1 - i /\ k < l
    BY <1>3
  <2>2. u[j] = s[k] /\ u[i] = s[l]
    BY <1>3, <2>1
  <2>3. <<u[j], u[i]>> \in OuterIn(S)
    BY <1>1, <1>6, <2>1, <2>2 DEF SortedIn
  <2>. QED  BY <1>3, <2>3 DEF OuterIn, InnerIn, Inner
<1>. QED  BY <1>2, <1>4, <1>5, <1>6

\* Where no element is twice there are as many as places.
LEMMA LengthIsCardinality ==
    ASSUME NEW S, NEW s \in Seq(S), \A i, j \in DOMAIN s : i < j => s[i] # s[j]
    PROVE  Len(s) = Cardinality(Elements(s))
<1>1. PICK n \in Nat : n = Len(s) /\ DOMAIN s = 1 .. n /\ s \in [1 .. n -> S]
  OBVIOUS
<1>2. \A i, j \in 1 .. n : s[i] = s[j] => i = j
  BY <1>1
<1>3. s \in Bijection(1 .. n, Elements(s))
  <2>1. s \in [1 .. n -> Elements(s)]
    BY <1>1 DEF Elements
  <2>2. \A y \in Elements(s) : \E i \in 1 .. n : s[i] = y
    BY <1>1 DEF Elements
  <2>. QED  BY <1>2, <2>1, <2>2 DEF Bijection, Injection, Surjection, IsInjective
<1>4. IsFiniteSet(1 .. n) /\ Cardinality(1 .. n) = n
  BY FS_Interval
<1>5. ExistsBijection(1 .. n, Elements(s))
  BY <1>3 DEF ExistsBijection
<1>. QED  BY <1>1, <1>4, <1>5, FS_Bijection

-----------------------------------------------------------------------------
(* The plan.                                                               *)

\* Steps of the kinds there are; StepDefinition gives a step that is not global
\* the priority 0.
AreSteps(S) ==
    \A x \in S : /\ x.type \in Types /\ x.global \in BOOLEAN
                 /\ x.priority \in Nat /\ x.id \in Nat
                 /\ ~x.global => x.priority = 0

\* Global and local steps are each in the order of their declaration.
DeclaredIn(S) == {p \in S \X S : p[1].global = p[2].global => p[1].id < p[2].id}

LEMMA StepsOfTheKinds ==
    ASSUME NEW S, AreSteps(S), NEW x \in S
    PROVE  /\ x.type \in Types /\ (x.global = TRUE \/ x.global = FALSE)
           /\ x.priority \in Nat /\ x.id \in Nat
           /\ x.global = FALSE => x.priority = 0
           /\ Rank(x) \in Nat /\ ~Outer(x, x)
<1>1. x.type \in Types /\ x.global \in BOOLEAN /\ x.priority \in Nat /\ x.id \in Nat
  BY Zenon DEF AreSteps
<1>2. x.global = FALSE => x.priority = 0
  BY Zenon DEF AreSteps
<1>3. Rank(x) \in Nat
  BY <1>1 DEF Types, Rank
<1>4. ~(x.priority > x.priority) /\ ~(x.id < x.id)
  BY <1>1
<1>5. ~Outer(x, x)
  BY Zenon, <1>4 DEF Outer
<1>. QED  BY <1>1, <1>2, <1>3, <1>5

LEMMA GetStepsNest ==
    ASSUME NEW S, AreSteps(S), NEW s \in Seq(S), SortedIn(s, DeclaredIn(S)),
           NEW type, NEW global \in BOOLEAN
    PROVE  /\ GetSteps(s, type, global) \in Seq(S)
           /\ Elements(GetSteps(s, type, global)) = {x \in Elements(s) : x.type = type /\ x.global = global}
           /\ SortedIn(GetSteps(s, type, global), OuterIn(S))
<1>1. PICK I : I = {i \in DOMAIN s : s[i].type = type /\ s[i].global = global}
  OBVIOUS
<1>2. PICK v : v = Select(s, I)
  OBVIOUS
<1>3. v \in Seq(S) /\ Elements(v) = {s[i] : i \in I \cap DOMAIN s} /\ SortedIn(v, DeclaredIn(S))
  BY <1>2, SelectionSorted
<1>4. Elements(v) = {x \in Elements(s) : x.type = type /\ x.global = global}
  BY <1>1, <1>3 DEF Elements
<1>5. ASSUME NEW i \in DOMAIN v
      PROVE  /\ v[i] \in S /\ v[i].global = global
             /\ v[i].priority \in Nat /\ v[i].id \in Nat /\ (~global => v[i].priority = 0)
  <2>1. v[i] \in Elements(v) /\ v[i] \in S
    BY <1>3 DEF Elements
  <2>. QED  BY <1>4, <2>1 DEF AreSteps
<1>6. ASSUME NEW i \in DOMAIN v, NEW j \in DOMAIN v, i < j PROVE v[i].id < v[j].id
  <2>1. <<v[i], v[j]>> \in DeclaredIn(S)
    BY <1>3, <1>6 DEF SortedIn
  <2>. QED  BY <1>5, <2>1 DEF DeclaredIn
<1>7. CASE global
  <2>1. GetSteps(s, type, global) = Sort(v)
    BY <1>1, <1>2, <1>7 DEF GetSteps
  <2>2. DistinctIds(v)
    <3>. SUFFICES ASSUME NEW i \in DOMAIN v, NEW j \in DOMAIN v, i # j PROVE v[i].id # v[j].id
      BY DEF DistinctIds
    <3>1. i < j \/ j < i
      BY <1>3
    <3>. QED  BY <1>5, <1>6, <3>1
  <2>3. PICK u : u = Sort(v)
    OBVIOUS
  <2>4. u \in Seq(S) /\ Elements(u) = Elements(v) /\ SortedBy(u, HigherFirst)
    <3>1. Sortable(S)
      BY DEF AreSteps, Sortable
    <3>. QED  BY <1>3, <2>2, <2>3, <3>1, SortSorts
  <2>5. SortedIn(u, OuterIn(S))
    <3>. SUFFICES ASSUME NEW i \in DOMAIN u, NEW j \in DOMAIN u, i < j PROVE <<u[i], u[j]>> \in OuterIn(S)
      BY DEF SortedIn
    <3>1. HigherFirst(u[i], u[j])
      BY <2>4 DEF SortedBy
    <3>2. u[i] \in S /\ u[j] \in S /\ u[i].global = u[j].global
      <4>1. u[i] \in Elements(u) /\ u[j] \in Elements(u)
        BY DEF Elements
      <4>. QED  BY <1>4, <2>4, <4>1
    <3>. QED  BY <3>1, <3>2 DEF HigherFirst, Outer, OuterIn
  <2>. QED  BY <1>4, <2>1, <2>3, <2>4, <2>5
<1>8. CASE ~global
  <2>1. GetSteps(s, type, global) = v
    BY <1>1, <1>2, <1>8 DEF GetSteps
  <2>2. SortedIn(v, OuterIn(S))
    <3>. SUFFICES ASSUME NEW i \in DOMAIN v, NEW j \in DOMAIN v, i < j PROVE <<v[i], v[j]>> \in OuterIn(S)
      BY DEF SortedIn
    <3>. QED  BY <1>5, <1>6, <1>8 DEF Outer, OuterIn
  <2>. QED  BY <1>3, <1>4, <2>1, <2>2
<1>. QED  BY <1>7, <1>8

LEMMA GetAllNest ==
    ASSUME NEW S, AreSteps(S), NEW s \in Seq(S), SortedIn(s, DeclaredIn(S)), NEW type
    PROVE  /\ GetAll(s, type) \in Seq(S)
           /\ Elements(GetAll(s, type)) = {x \in Elements(s) : x.type = type}
           /\ SortedIn(GetAll(s, type), OuterIn(S))
<1>1. PICK u, v : u = GetSteps(s, type, TRUE) /\ v = GetSteps(s, type, FALSE)
  OBVIOUS
<1>a. ASSUME NEW global \in BOOLEAN, NEW w, w = GetSteps(s, type, global)
      PROVE  /\ w \in Seq(S) /\ SortedIn(w, OuterIn(S))
             /\ Elements(w) = {x \in Elements(s) : x.type = type /\ x.global = global}
  BY <1>a, GetStepsNest
<1>2. /\ u \in Seq(S) /\ SortedIn(u, OuterIn(S))
      /\ Elements(u) = {x \in Elements(s) : x.type = type /\ x.global = TRUE}
  BY Zenon, <1>1, <1>a
<1>3. /\ v \in Seq(S) /\ SortedIn(v, OuterIn(S))
      /\ Elements(v) = {x \in Elements(s) : x.type = type /\ x.global = FALSE}
  BY Zenon, <1>1, <1>a
<1>4. \A x \in Elements(s) : x \in S /\ x.global \in BOOLEAN
  BY DEF Elements, AreSteps
<1>5. \A x \in Elements(u), y \in Elements(v) : <<x, y>> \in OuterIn(S)
  BY <1>2, <1>3, <1>4 DEF OuterIn, Outer
<1>6. /\ u \o v \in Seq(S) /\ Elements(u \o v) = Elements(u) \cup Elements(v)
      /\ SortedIn(u \o v, OuterIn(S))
  BY <1>2, <1>3, <1>5, ConcatenationSorted
<1>7. Elements(u) \cup Elements(v) = {x \in Elements(s) : x.type = type}
  BY <1>2, <1>3, <1>4
<1>. QED  BY <1>1, <1>6, <1>7 DEF GetAll

LEMMA InScopeNest ==
    ASSUME NEW S, AreSteps(S), NEW s \in Seq(S), SortedIn(s, DeclaredIn(S)), NEW type, NEW scope
    PROVE  /\ InScope(GetAll(s, type), scope) \in Seq(S)
           /\ Elements(InScope(GetAll(s, type), scope)) = {x \in Elements(s) : x.type = type /\ x.scope = scope}
           /\ SortedIn(InScope(GetAll(s, type), scope), OuterIn(S))
<1>1. PICK u : u = GetAll(s, type)
  OBVIOUS
<1>2. u \in Seq(S) /\ Elements(u) = {x \in Elements(s) : x.type = type} /\ SortedIn(u, OuterIn(S))
  BY <1>1, GetAllNest
<1>3. PICK I : I = {i \in DOMAIN u : u[i].scope = scope}
  OBVIOUS
<1>4. /\ Select(u, I) \in Seq(S) /\ Elements(Select(u, I)) = {u[i] : i \in I \cap DOMAIN u}
      /\ SortedIn(Select(u, I), OuterIn(S))
  BY <1>2, SelectionSorted
<1>5. {u[i] : i \in I \cap DOMAIN u} = {x \in Elements(u) : x.scope = scope}
  BY <1>3 DEF Elements
<1>6. {x \in Elements(u) : x.scope = scope} = {x \in Elements(s) : x.type = type /\ x.scope = scope}
  BY <1>2
<1>. QED  BY <1>1, <1>3, <1>4, <1>5, <1>6 DEF InScope

\* What is sorted by an order that no step has with itself has no step twice.
LEMMA SortedHasNoDoubles ==
    ASSUME NEW S, AreSteps(S), NEW s \in Seq(S),
           \/ SortedIn(s, PrecedesIn(S)) \/ SortedIn(s, InnerIn(S)) \/ SortedIn(s, NearerIn(S))
    PROVE  Len(s) = Cardinality(Elements(s))
<1>1. \A x \in S : ~Outer(x, x)
  BY DEF AreSteps, Outer
<1>2. \A x \in S : Rank(x) \in Nat
  BY DEF AreSteps, Types, Rank
<1>3. \A x \in S : ~Precedes(x, x) /\ ~Inner(x, x) /\ ~Nearer(x, x)
  BY <1>1, <1>2 DEF Precedes, Inner, Nearer
<1>4. ASSUME NEW i \in DOMAIN s, NEW j \in DOMAIN s, i < j PROVE s[i] # s[j]
  <2>1. s[i] \in S
    OBVIOUS
  <2>2. CASE SortedIn(s, PrecedesIn(S))
    BY <1>3, <1>4, <2>1, <2>2 DEF SortedIn, PrecedesIn
  <2>3. CASE SortedIn(s, InnerIn(S))
    BY <1>3, <1>4, <2>1, <2>3 DEF SortedIn, InnerIn
  <2>4. CASE SortedIn(s, NearerIn(S))
    BY <1>3, <1>4, <2>1, <2>4 DEF SortedIn, NearerIn
  <2>. QED  BY <2>2, <2>3, <2>4
<1>. QED  BY <1>4, LengthIsCardinality

\* Among steps of one type the outer one precedes.
LEMMA OuterPrecedes ==
    ASSUME NEW S, NEW u \in Seq(S), NEW type, \A x \in Elements(u) : x.type = type, SortedIn(u, OuterIn(S))
    PROVE  SortedIn(u, PrecedesIn(S))
<1>. SUFFICES ASSUME NEW i \in DOMAIN u, NEW j \in DOMAIN u, i < j PROVE <<u[i], u[j]>> \in PrecedesIn(S)
  BY DEF SortedIn
<1>1. <<u[i], u[j]>> \in OuterIn(S)
  BY DEF SortedIn
<1>2. u[i].type = type /\ u[j].type = type
  BY DEF Elements
<1>3. Rank(u[i]) = Rank(u[j])
  BY Zenon, <1>2 DEF Rank
<1>. QED  BY <1>1, <1>3 DEF OuterIn, PrecedesIn, Precedes

LEMMA GetAllPrecede ==
    ASSUME NEW S, AreSteps(S), NEW s \in Seq(S), SortedIn(s, DeclaredIn(S)), NEW type
    PROVE  SortedIn(GetAll(s, type), PrecedesIn(S))
<1>1. PICK u : u = GetAll(s, type)
  OBVIOUS
<1>2. u \in Seq(S) /\ Elements(u) = {x \in Elements(s) : x.type = type} /\ SortedIn(u, OuterIn(S))
  BY <1>1, GetAllNest
<1>3. SortedIn(u, PrecedesIn(S))
  BY <1>2, OuterPrecedes
<1>. QED  BY <1>1, <1>3

\* What runs before the handler.
IsBefore(x) == x.type \in {"middleware", "guard"} \/ (x.type = "interceptor" /\ x.scope = "before")

LEMMA BeforeNests ==
    ASSUME NEW S, AreSteps(S), NEW s \in Seq(S), SortedIn(s, DeclaredIn(S))
    PROVE  /\ Before(s) \in Seq(S) /\ SortedIn(Before(s), PrecedesIn(S))
           /\ Elements(Before(s)) = {x \in Elements(s) : IsBefore(x)}
<1>1. PICK u, v, w : u = GetAll(s, "middleware") /\ v = GetAll(s, "guard")
                     /\ w = InScope(GetAll(s, "interceptor"), "before")
  OBVIOUS
<1>2. /\ u \in Seq(S) /\ Elements(u) = {x \in Elements(s) : x.type = "middleware"}
      /\ SortedIn(u, PrecedesIn(S))
  BY <1>1, GetAllNest, GetAllPrecede
<1>3. /\ v \in Seq(S) /\ Elements(v) = {x \in Elements(s) : x.type = "guard"}
      /\ SortedIn(v, PrecedesIn(S))
  BY <1>1, GetAllNest, GetAllPrecede
<1>4. /\ w \in Seq(S)
      /\ Elements(w) = {x \in Elements(s) : x.type = "interceptor" /\ x.scope = "before"}
      /\ SortedIn(w, PrecedesIn(S))
  BY <1>1, InScopeNest, OuterPrecedes
<1>5. \A x \in Elements(s) : x \in S
  BY DEF Elements
<1>6. \A x : /\ x.type = "middleware" => Rank(x) = 1
             /\ x.type = "guard" => Rank(x) = 2
             /\ x.type = "interceptor" => Rank(x) = 3
  BY DEF Rank
<1>7. \A x \in Elements(u), y \in Elements(v) : <<x, y>> \in PrecedesIn(S)
  BY <1>2, <1>3, <1>5, <1>6 DEF PrecedesIn, Precedes
<1>8. /\ u \o v \in Seq(S) /\ Elements(u \o v) = Elements(u) \cup Elements(v)
      /\ SortedIn(u \o v, PrecedesIn(S))
  BY <1>2, <1>3, <1>7, ConcatenationSorted
<1>9. PICK uv : uv = u \o v
  OBVIOUS
<1>10. \A x \in Elements(uv), y \in Elements(w) : <<x, y>> \in PrecedesIn(S)
  BY <1>2, <1>3, <1>4, <1>5, <1>6, <1>8, <1>9 DEF PrecedesIn, Precedes
<1>11. /\ uv \o w \in Seq(S) /\ Elements(uv \o w) = Elements(uv) \cup Elements(w)
       /\ SortedIn(uv \o w, PrecedesIn(S))
  <2>1. uv \in Seq(S) /\ SortedIn(uv, PrecedesIn(S))
    BY <1>8, <1>9
  <2>. QED  BY <1>4, <1>10, <2>1, ConcatenationSorted
<1>12. Before(s) = uv \o w
  BY <1>1, <1>9 DEF Before
<1>13. Elements(uv) \cup Elements(w) = {x \in Elements(s) : IsBefore(x)}
  BY <1>2, <1>3, <1>4, <1>8, <1>9 DEF IsBefore
<1>. QED  BY <1>11, <1>12, <1>13

LEMMA AfterNests ==
    ASSUME NEW S, AreSteps(S), NEW s \in Seq(S), SortedIn(s, DeclaredIn(S))
    PROVE  /\ After(s) \in Seq(S) /\ SortedIn(After(s), InnerIn(S))
           /\ Elements(After(s)) = {x \in Elements(s) : x.type = "interceptor" /\ x.scope = "after"}
<1>1. PICK u : u = InScope(GetAll(s, "interceptor"), "after")
  OBVIOUS
<1>2. /\ u \in Seq(S) /\ SortedIn(u, OuterIn(S))
      /\ Elements(u) = {x \in Elements(s) : x.type = "interceptor" /\ x.scope = "after"}
  BY <1>1, InScopeNest
<1>3. ToReversed(u) \in Seq(S) /\ Elements(ToReversed(u)) = Elements(u) /\ SortedIn(ToReversed(u), InnerIn(S))
  BY <1>2, ReversalSorted
<1>. QED  BY <1>1, <1>2, <1>3 DEF After

LEMMA CatchNests ==
    ASSUME NEW S, AreSteps(S), NEW s \in Seq(S), SortedIn(s, DeclaredIn(S))
    PROVE  /\ Catch(s) \in Seq(S) /\ SortedIn(Catch(s), NearerIn(S))
           /\ Elements(Catch(s)) = {x \in Elements(s) : x.type = "filter"}
<1>1. PICK u, v, w : u = GetSteps(s, "filter", FALSE) /\ v = GetSteps(s, "filter", TRUE) /\ w = ToReversed(u)
  OBVIOUS
<1>a. ASSUME NEW global \in BOOLEAN, NEW t, t = GetSteps(s, "filter", global)
      PROVE  /\ t \in Seq(S) /\ SortedIn(t, OuterIn(S))
             /\ Elements(t) = {x \in Elements(s) : x.type = "filter" /\ x.global = global}
  BY <1>a, GetStepsNest
<1>2. /\ u \in Seq(S) /\ SortedIn(u, OuterIn(S))
      /\ Elements(u) = {x \in Elements(s) : x.type = "filter" /\ x.global = FALSE}
  BY Zenon, <1>1, <1>a
<1>3. /\ v \in Seq(S) /\ SortedIn(v, OuterIn(S))
      /\ Elements(v) = {x \in Elements(s) : x.type = "filter" /\ x.global = TRUE}
  BY Zenon, <1>1, <1>a
<1>4. w \in Seq(S) /\ Elements(w) = Elements(u) /\ SortedIn(w, InnerIn(S))
  BY <1>1, <1>2, ReversalSorted
<1>5. SortedIn(w, NearerIn(S))
  <2>. SUFFICES ASSUME NEW i \in DOMAIN w, NEW j \in DOMAIN w, i < j PROVE <<w[i], w[j]>> \in NearerIn(S)
    BY DEF SortedIn
  <2>1. <<w[i], w[j]>> \in InnerIn(S)
    BY <1>4 DEF SortedIn
  <2>2. w[i].global = FALSE /\ w[j].global = FALSE
    <3>1. w[i] \in Elements(w) /\ w[j] \in Elements(w)
      BY DEF Elements
    <3>. QED  BY <1>2, <1>4, <3>1
  <2>. QED  BY <2>1, <2>2 DEF InnerIn, NearerIn, Nearer
<1>6. SortedIn(v, NearerIn(S))
  <2>. SUFFICES ASSUME NEW i \in DOMAIN v, NEW j \in DOMAIN v, i < j PROVE <<v[i], v[j]>> \in NearerIn(S)
    BY DEF SortedIn
  <2>1. <<v[i], v[j]>> \in OuterIn(S)
    BY <1>3 DEF SortedIn
  <2>2. v[i].global = TRUE /\ v[j].global = TRUE
    <3>1. v[i] \in Elements(v) /\ v[j] \in Elements(v)
      BY DEF Elements
    <3>. QED  BY <1>3, <3>1
  <2>. QED  BY <2>1, <2>2 DEF OuterIn, NearerIn, Nearer
<1>7. \A x \in Elements(s) : x \in S /\ (x.global = TRUE \/ x.global = FALSE)
  BY StepsOfTheKinds DEF Elements
<1>8. \A x \in Elements(w), y \in Elements(v) : <<x, y>> \in NearerIn(S)
  BY <1>2, <1>3, <1>4, <1>7 DEF NearerIn, Nearer
<1>9. /\ w \o v \in Seq(S) /\ Elements(w \o v) = Elements(w) \cup Elements(v)
      /\ SortedIn(w \o v, NearerIn(S))
  BY <1>3, <1>4, <1>5, <1>6, <1>8, ConcatenationSorted
<1>10. Elements(w) \cup Elements(v) = {x \in Elements(s) : x.type = "filter"}
  BY <1>2, <1>3, <1>4, <1>7
<1>11. Catch(s) = w \o v
  BY <1>1 DEF Catch
<1>. QED  BY <1>9, <1>10, <1>11

-----------------------------------------------------------------------------
(* The planner.                                                            *)

PlannerSteps == {x \in Steps : ~x.global => x.priority = 0}

LEMMA PlannerStepsAreSteps == AreSteps(PlannerSteps)
BY DEF AreSteps, PlannerSteps, Steps

\* What a request is given to plan from.
DeclarationsOk ==
    globalSteps \in GlobalLists /\ \A h \in Handler : localSteps[h] \in LocalLists[h]

LEMMA StepsAreDeclared ==
    ASSUME DeclarationsOk, NEW h \in Handler
    PROVE  StepsOf(h) \in Seq(PlannerSteps) /\ SortedIn(StepsOf(h), DeclaredIn(PlannerSteps))
<1>. DEFINE S == PlannerSteps
<1>1. PICK u, v : u = globalSteps /\ v = localSteps[h]
  OBVIOUS
<1>2. u \in Seq(Steps) /\ Ordered(u) /\ \A i \in DOMAIN u : u[i].global
  BY <1>1, PlannerAssumptions DEF DeclarationsOk
<1>3. v \in Seq(Steps) /\ Ordered(v) /\ \A i \in DOMAIN v : ~v[i].global /\ v[i].priority = 0
  BY <1>1, PlannerAssumptions DEF DeclarationsOk
<1>4. ASSUME NEW t \in Seq(Steps), Ordered(t), \A i \in DOMAIN t : t[i].global \/ t[i].priority = 0
      PROVE  t \in Seq(S) /\ SortedIn(t, DeclaredIn(S))
  <2>1. PICK n \in Nat : n = Len(t) /\ DOMAIN t = 1 .. n
    OBVIOUS
  <2>2. \A i \in 1 .. n : t[i] \in S
    BY <1>4, <2>1 DEF PlannerSteps
  <2>3. t \in [1 .. n -> S]
    BY <2>1, <2>2
  <2>4. t \in Seq(S)
    BY <2>1, <2>3
  <2>5. SortedIn(t, DeclaredIn(S))
    BY <1>4, <2>1, <2>2 DEF SortedIn, DeclaredIn, Ordered
  <2>. QED  BY <2>4, <2>5
<1>5. u \in Seq(S) /\ SortedIn(u, DeclaredIn(S))
  BY <1>2, <1>4
<1>6. v \in Seq(S) /\ SortedIn(v, DeclaredIn(S))
  BY <1>3, <1>4
<1>7. \A x \in Elements(u), y \in Elements(v) : <<x, y>> \in DeclaredIn(S)
  BY <1>2, <1>3, <1>5, <1>6 DEF Elements, DeclaredIn
<1>8. u \o v \in Seq(S) /\ SortedIn(u \o v, DeclaredIn(S))
  BY <1>5, <1>6, <1>7, ConcatenationSorted
<1>. QED  BY <1>1, <1>8 DEF StepsOf

\* The steps declared for a request.
DeclaredFor(r) == {x \in Elements(StepsOf(TargetOf[r])) : x.transport \in {"all", TransportOf[r]}}

LEMMA PlanNests ==
    ASSUME DeclarationsOk, NEW r \in Request
    PROVE  LET p == PlanOf(r) IN
           /\ p.handler = TargetOf[r]
           /\ p.before \in Seq(PlannerSteps) /\ SortedIn(p.before, PrecedesIn(PlannerSteps))
           /\ p.after \in Seq(PlannerSteps) /\ SortedIn(p.after, InnerIn(PlannerSteps))
           /\ p.catch \in Seq(PlannerSteps) /\ SortedIn(p.catch, NearerIn(PlannerSteps))
           /\ Elements(p.before) = {x \in DeclaredFor(r) : IsBefore(x)}
           /\ Elements(p.after) = {x \in DeclaredFor(r) : x.type = "interceptor" /\ x.scope = "after"}
           /\ Elements(p.catch) = {x \in DeclaredFor(r) : x.type = "filter"}
<1>. DEFINE S == PlannerSteps
<1>1. PICK s : s = StepsOf(TargetOf[r])
  OBVIOUS
<1>2. s \in Seq(S) /\ SortedIn(s, DeclaredIn(S))
  <2>1. TargetOf[r] \in Handler
    BY PlannerAssumptions
  <2>. QED  BY <1>1, <2>1, StepsAreDeclared
<1>3. PICK I : I = {i \in DOMAIN s : s[i].transport \in {"all", TransportOf[r]}}
  OBVIOUS
<1>4. PICK v : v = Select(s, I)
  OBVIOUS
<1>5. v = Valid(StepsOf(TargetOf[r]), TransportOf[r])
  BY <1>1, <1>3, <1>4 DEF Valid
<1>6. v \in Seq(S) /\ SortedIn(v, DeclaredIn(S)) /\ Elements(v) = {s[i] : i \in I \cap DOMAIN s}
  BY <1>2, <1>4, SelectionSorted
<1>7. Elements(v) = DeclaredFor(r)
  BY <1>1, <1>3, <1>6 DEF Elements, DeclaredFor
<1>8. PICK p : p = PlanOf(r)
  OBVIOUS
<1>9. p = [handler |-> TargetOf[r], before |-> Before(v), after |-> After(v), catch |-> Catch(v)]
  BY <1>5, <1>8 DEF PlanOf, GeneratePlan
<1>10. p.handler = TargetOf[r] /\ p.before = Before(v) /\ p.after = After(v) /\ p.catch = Catch(v)
  BY <1>9
<1>11. /\ p.before \in Seq(S) /\ SortedIn(p.before, PrecedesIn(S))
       /\ Elements(p.before) = {x \in DeclaredFor(r) : IsBefore(x)}
  BY <1>6, <1>7, <1>10, BeforeNests, PlannerStepsAreSteps
<1>12. /\ p.after \in Seq(S) /\ SortedIn(p.after, InnerIn(S))
       /\ Elements(p.after) = {x \in DeclaredFor(r) : x.type = "interceptor" /\ x.scope = "after"}
  BY <1>6, <1>7, <1>10, AfterNests, PlannerStepsAreSteps
<1>13. /\ p.catch \in Seq(S) /\ SortedIn(p.catch, NearerIn(S))
       /\ Elements(p.catch) = {x \in DeclaredFor(r) : x.type = "filter"}
  BY <1>6, <1>7, <1>10, CatchNests, PlannerStepsAreSteps
<1>. QED  BY <1>8, <1>10, <1>11, <1>12, <1>13

\* Every plan, registered or given, is the one of a request of its key.
PlansOk ==
    /\ registeredPlans = [k \in Keys |-> registeredPlans[k]]
    /\ at = [r \in Request |-> at[r]]
    /\ planned = [r \in Request |-> planned[r]]
    /\ \A k \in Keys : registeredPlans[k] # NoPlan =>
            \E q \in Request : KeyOf(q) = k /\ registeredPlans[k] = PlanOf(q)
    /\ \A r \in Planned : \E q \in Request : KeyOf(q) = KeyOf(r) /\ planned[r] = PlanOf(q)

PlannerInv == DeclarationsOk /\ PlansOk

LEMMA PlannerInitially == PlannerInit => PlannerInv
<1>. SUFFICES ASSUME PlannerInit PROVE PlannerInv
  OBVIOUS
<1>1. DeclarationsOk
  BY DEF PlannerInit, DeclarationsOk
<1>2. \A r \in Request : at[r] # "planned"
  BY DEF PlannerInit
<1>3. PlansOk
  BY <1>2 DEF PlannerInit, PlansOk, Planned
<1>. QED  BY <1>1, <1>3 DEF PlannerInv

LEMMA PlannerInductive == PlannerInv /\ [PlannerNext]_plannerVars => PlannerInv'
<1>. SUFFICES ASSUME PlannerInv, [PlannerNext]_plannerVars PROVE PlannerInv'
  OBVIOUS
<1>. USE DEF PlannerInv
<1>1. globalSteps' = globalSteps /\ localSteps' = localSteps
  BY DEF PlannerNext, plannerVars, CacheHit, CacheMiss, Generate
<1>2. DeclarationsOk'
  BY <1>1 DEF DeclarationsOk
<1>3. \A q \in Request : PlanOf(q)' = PlanOf(q) /\ KeyOf(q)' = KeyOf(q) /\ KeyOf(q) \in Keys
  <2>1. \A q \in Request : KeyOf(q) \in Keys
    BY PlannerAssumptions DEF KeyOf, Keys
  <2>. QED  BY <1>1, <2>1 DEF PlanOf, GeneratePlan, StepsOf, KeyOf
<1>4. PlansOk'
  <2>1. ASSUME NEW r \in Request, CacheHit(r) PROVE PlansOk'
    <3>1. KeyOf(r) \in Keys /\ registeredPlans[KeyOf(r)] # NoPlan
      BY <1>3, <2>1 DEF CacheHit, IsRegistered
    <3>2. PICK q \in Request : KeyOf(q) = KeyOf(r) /\ registeredPlans[KeyOf(r)] = PlanOf(q)
      BY <3>1 DEF PlansOk
    <3>3. /\ registeredPlans' = registeredPlans
          /\ at' = [at EXCEPT ![r] = "planned"]
          /\ planned' = [planned EXCEPT ![r] = registeredPlans[KeyOf(r)]]
      BY <2>1 DEF CacheHit
    <3>4. planned'[r] = PlanOf(q) /\ \A x \in Request \ {r} : at'[x] = at[x] /\ planned'[x] = planned[x]
      BY <3>2, <3>3 DEF PlansOk
    <3>5. \A x \in Planned' : \E y \in Request : KeyOf(y) = KeyOf(x) /\ planned'[x] = PlanOf(y)
      BY <3>2, <3>4 DEF PlansOk, Planned
    <3>6. /\ at' = [x \in Request |-> at'[x]] /\ planned' = [x \in Request |-> planned'[x]]
          /\ registeredPlans' = [k \in Keys |-> registeredPlans'[k]]
      BY <3>3 DEF PlansOk
    <3>7. \A k \in Keys : registeredPlans'[k] # NoPlan =>
             \E y \in Request : KeyOf(y) = k /\ registeredPlans'[k] = PlanOf(y)
      BY <3>3 DEF PlansOk
    <3>. QED  BY <1>3, <3>5, <3>6, <3>7 DEF PlansOk, Planned
  <2>2. ASSUME NEW r \in Request, CacheMiss(r) PROVE PlansOk'
    <3>1. /\ registeredPlans' = registeredPlans /\ planned' = planned
          /\ at' = [at EXCEPT ![r] = "generating"]
      BY <2>2 DEF CacheMiss
    <3>2. Planned' \subseteq Planned
      BY <3>1 DEF PlansOk, Planned
    <3>3. at' = [x \in Request |-> at'[x]]
      BY <3>1 DEF PlansOk
    <3>4. \A x \in Planned' : \E y \in Request : KeyOf(y) = KeyOf(x) /\ planned'[x] = PlanOf(y)
      BY <3>1, <3>2 DEF PlansOk
    <3>5. /\ planned' = [x \in Request |-> planned'[x]]
          /\ registeredPlans' = [k \in Keys |-> registeredPlans'[k]]
          /\ \A k \in Keys : registeredPlans'[k] # NoPlan =>
             \E y \in Request : KeyOf(y) = k /\ registeredPlans'[k] = PlanOf(y)
      BY <3>1 DEF PlansOk
    <3>6. Planned' \subseteq Request
      BY DEF Planned
    <3>. QED  BY <1>3, <3>3, <3>4, <3>5, <3>6 DEF PlansOk
  <2>3. ASSUME NEW r \in Request, Generate(r) PROVE PlansOk'
    <3>1. /\ registeredPlans' = [registeredPlans EXCEPT ![KeyOf(r)] = PlanOf(r)]
          /\ at' = [at EXCEPT ![r] = "planned"]
          /\ planned' = [planned EXCEPT ![r] = PlanOf(r)]
      BY <2>3 DEF Generate
    <3>2. planned'[r] = PlanOf(r) /\ \A x \in Request \ {r} : at'[x] = at[x] /\ planned'[x] = planned[x]
      BY <3>1 DEF PlansOk
    <3>3. \A x \in Planned' : \E y \in Request : KeyOf(y) = KeyOf(x) /\ planned'[x] = PlanOf(y)
      BY <3>2 DEF PlansOk, Planned
    <3>4. /\ at' = [x \in Request |-> at'[x]] /\ planned' = [x \in Request |-> planned'[x]]
          /\ registeredPlans' = [k \in Keys |-> registeredPlans'[k]]
      BY <3>1 DEF PlansOk
    <3>5. registeredPlans'[KeyOf(r)] = PlanOf(r) /\ \A k \in Keys \ {KeyOf(r)} : registeredPlans'[k] = registeredPlans[k]
      BY <1>3, <3>1 DEF PlansOk
    <3>6. \A k \in Keys : registeredPlans'[k] # NoPlan =>
             \E y \in Request : KeyOf(y) = k /\ registeredPlans'[k] = PlanOf(y)
      BY <3>5 DEF PlansOk
    <3>7. Planned' \subseteq Request
      BY DEF Planned
    <3>. QED  BY <1>3, <3>3, <3>4, <3>6, <3>7 DEF PlansOk
  <2>4. CASE UNCHANGED plannerVars
    BY <1>3, <2>4 DEF PlansOk, Planned, plannerVars
  <2>. QED  BY <2>1, <2>2, <2>3, <2>4 DEF PlannerNext
<1>. QED  BY <1>2, <1>4

LEMMA PlannerInvariant == PlannerSpec => []PlannerInv
BY PlannerInitially, PlannerInductive, PTL DEF PlannerSpec

\* ExecutionPlanner.plan: every plan that a request is given nests, whoever it
\* was made for: global steps around local ones, by priority and then in the
\* order of declaration, and after steps the other way round.
THEOREM StepsNestCorrect == PlannerSpec => []StepsNest
<1>1. PlannerInv => StepsNest
  <2>. SUFFICES ASSUME PlannerInv, NEW r \in Planned
                PROVE  /\ SortedBy(planned[r].before, Precedes)
                       /\ SortedBy(planned[r].after, Inner)
                       /\ SortedBy(planned[r].catch, Nearer)
    BY DEF StepsNest
  <2>1. PICK q \in Request : planned[r] = PlanOf(q)
    BY DEF PlannerInv, PlansOk
  <2>2. PICK p : p = planned[r]
    OBVIOUS
  <2>3. /\ SortedIn(p.before, PrecedesIn(PlannerSteps))
        /\ SortedIn(p.after, InnerIn(PlannerSteps))
        /\ SortedIn(p.catch, NearerIn(PlannerSteps))
    BY <2>1, <2>2, PlanNests DEF PlannerInv
  <2>4. SortedBy(p.before, Precedes)
    BY <2>3 DEF SortedIn, SortedBy, PrecedesIn
  <2>5. SortedBy(p.after, Inner)
    BY <2>3 DEF SortedIn, SortedBy, InnerIn
  <2>6. SortedBy(p.catch, Nearer)
    BY <2>3 DEF SortedIn, SortedBy, NearerIn
  <2>. QED  BY <2>2, <2>4, <2>5, <2>6
<1>. QED  BY <1>1, PlannerInvariant, PTL

\* A key is one handler, and its requests use one transport: what the cache of
\* plans, whose keys are "<target name>.<propertyKey>", relies on.
OnePlanPerKey ==
    \A q, r \in Request : KeyOf(q) = KeyOf(r) => TargetOf[q] = TargetOf[r] /\ TransportOf[q] = TransportOf[r]

\* ExecutionPlanner.plan: where each key of the cache is one handler that one
\* transport calls, every request is given its own handler with exactly its
\* steps, each of them once, even when requests race for the plan.
THEOREM PlanFitsCorrect == ASSUME OnePlanPerKey PROVE PlannerSpec => []PlanFits
<1>1. PlannerInv => PlanFits
  <2>. SUFFICES ASSUME PlannerInv, NEW r \in Planned, NEW p, p = planned[r]
                PROVE  LET exactly(s, T) == Elements(s) = T /\ Len(s) = Cardinality(T) IN
                       /\ p.handler = TargetOf[r]
                       /\ exactly(p.catch, {x \in DeclaredFor(r) : x.type = "filter"})
                       /\ exactly(p.after, {x \in DeclaredFor(r) : x.type = "interceptor" /\ x.scope = "after"})
                       /\ exactly(p.before, {x \in DeclaredFor(r) : IsBefore(x)})
    BY DEF PlanFits, DeclaredFor, IsBefore
  <2>1. PICK q \in Request : KeyOf(q) = KeyOf(r) /\ p = PlanOf(q)
    BY DEF PlannerInv, PlansOk
  <2>2. TargetOf[q] = TargetOf[r] /\ TransportOf[q] = TransportOf[r]
    BY <2>1 DEF OnePlanPerKey, Planned
  <2>3. DeclaredFor(q) = DeclaredFor(r)
    BY <2>2 DEF DeclaredFor
  <2>4. /\ p.handler = TargetOf[q]
        /\ p.before \in Seq(PlannerSteps) /\ SortedIn(p.before, PrecedesIn(PlannerSteps))
        /\ p.after \in Seq(PlannerSteps) /\ SortedIn(p.after, InnerIn(PlannerSteps))
        /\ p.catch \in Seq(PlannerSteps) /\ SortedIn(p.catch, NearerIn(PlannerSteps))
        /\ Elements(p.before) = {x \in DeclaredFor(q) : IsBefore(x)}
        /\ Elements(p.after) = {x \in DeclaredFor(q) : x.type = "interceptor" /\ x.scope = "after"}
        /\ Elements(p.catch) = {x \in DeclaredFor(q) : x.type = "filter"}
    BY <2>1, PlanNests DEF PlannerInv
  <2>5. /\ Len(p.before) = Cardinality(Elements(p.before))
        /\ Len(p.after) = Cardinality(Elements(p.after))
        /\ Len(p.catch) = Cardinality(Elements(p.catch))
    BY <2>4, SortedHasNoDoubles, PlannerStepsAreSteps
  <2>. QED  BY <2>2, <2>3, <2>4, <2>5
<1>. QED  BY <1>1, PlannerInvariant, PTL

-----------------------------------------------------------------------------
(* Security: what the plan makes of the four steps.                        *)

Place(name) ==
    CASE name = "authenticate" -> 1 [] name = "authorize" -> 2
      [] name = "checkAuthentication" -> 3 [] name = "checkAuthorization" -> 4

SecuritySteps == {StepOf(name, id) : name \in StepNames, id \in Nat}

IsStepOf(x, name, id) ==
    /\ x.name = name /\ x.id = id /\ x.global = TRUE
    /\ x.type = IF Place(name) < 3 THEN "middleware" ELSE "guard"
    /\ x.priority = IF Place(name) = 1 \/ Place(name) = 3 THEN 50 ELSE 25

LEMMA StepsOfSecurity ==
    ASSUME NEW name \in StepNames, NEW id \in Nat
    PROVE  IsStepOf(StepOf(name, id), name, id) /\ Place(name) \in 1 .. 4
<1>1. CASE name = "authenticate"
  <2>1. StepOf(name, id) = SecurityStep("middleware", name, 50, id) /\ Place(name) = 1
    BY <1>1 DEF StepOf, Place
  <2>. QED  BY <2>1 DEF SecurityStep, IsStepOf
<1>2. CASE name = "authorize"
  <2>1. StepOf(name, id) = SecurityStep("middleware", name, 25, id) /\ Place(name) = 2
    BY <1>2 DEF StepOf, Place
  <2>. QED  BY <2>1 DEF SecurityStep, IsStepOf
<1>3. CASE name = "checkAuthentication"
  <2>1. StepOf(name, id) = SecurityStep("guard", name, 50, id) /\ Place(name) = 3
    BY <1>3 DEF StepOf, Place
  <2>. QED  BY <2>1 DEF SecurityStep, IsStepOf
<1>4. CASE name = "checkAuthorization"
  <2>1. StepOf(name, id) = SecurityStep("guard", name, 25, id) /\ Place(name) = 4
    BY <1>4 DEF StepOf, Place
  <2>. QED  BY <2>1 DEF SecurityStep, IsStepOf
<1>. QED  BY <1>1, <1>2, <1>3, <1>4 DEF StepNames

LEMMA SecurityStepsAreSteps == AreSteps(SecuritySteps)
<1>. SUFFICES ASSUME NEW name \in StepNames, NEW id \in Nat, NEW x, x = StepOf(name, id)
              PROVE  /\ x.type \in Types /\ x.global \in BOOLEAN /\ x.priority \in Nat /\ x.id \in Nat
                     /\ ~x.global => x.priority = 0
  BY DEF AreSteps, SecuritySteps
<1>1. IsStepOf(x, name, id) /\ Place(name) \in 1 .. 4
  BY StepsOfSecurity
<1>2. x.type \in Types /\ x.priority \in Nat /\ x.id \in Nat
  BY <1>1 DEF Types, IsStepOf
<1>3. x.global = TRUE
  BY <1>1 DEF IsStepOf
<1>. QED  BY Zenon, <1>2, <1>3

LEMMA PlacesAreDistinct ==
    ASSUME NEW m \in StepNames, NEW n \in StepNames, Place(m) = Place(n)
    PROVE  m = n
BY DEF StepNames, Place

LEMMA PrecedingIsPlaced ==
    ASSUME NEW m \in StepNames, NEW n \in StepNames, NEW i \in Nat, NEW j \in Nat,
           Precedes(StepOf(m, i), StepOf(n, j)), m # n
    PROVE  Place(m) < Place(n)
<1>1. PICK x, y : x = StepOf(m, i) /\ y = StepOf(n, j)
  OBVIOUS
<1>2. PICK k \in 1 .. 4, l \in 1 .. 4 : k = Place(m) /\ l = Place(n)
  BY StepsOfSecurity
<1>3. k # l
  BY <1>2, PlacesAreDistinct
<1>a. IsStepOf(x, m, i) /\ IsStepOf(y, n, j)
  BY <1>1, StepsOfSecurity
<1>4. /\ x.type = (IF k < 3 THEN "middleware" ELSE "guard") /\ x.global = TRUE
      /\ x.priority = IF k = 1 \/ k = 3 THEN 50 ELSE 25
  BY <1>2, <1>a DEF IsStepOf
<1>5. /\ y.type = (IF l < 3 THEN "middleware" ELSE "guard") /\ y.global = TRUE
      /\ y.priority = IF l = 1 \/ l = 3 THEN 50 ELSE 25
  BY <1>2, <1>a DEF IsStepOf
<1>6. Rank(x) = (IF k < 3 THEN 1 ELSE 2) /\ Rank(y) = IF l < 3 THEN 1 ELSE 2
  BY <1>4, <1>5 DEF Rank
<1>7. Rank(x) < Rank(y) \/ (Rank(x) = Rank(y) /\ x.priority >= y.priority)
  BY <1>1, <1>4, <1>5 DEF Precedes, Outer
<1>. QED  BY <1>2, <1>3, <1>4, <1>5, <1>6, <1>7

\* Whatever the order of their registration, the steps are planned in the one
\* order: the middlewares before the guards, and identity before permission.
PlanOk(p) ==
    /\ Len(p) = 4
    /\ p[1].name = "authenticate" /\ p[2].name = "authorize"
    /\ p[3].name = "checkAuthentication" /\ p[4].name = "checkAuthorization"

LEMMA PlanIsOrdered == ASSUME config \in Configurations PROVE PlanOk(Plan)
<1>. DEFINE S == SecuritySteps
<1>1. PICK o : o = config.order
  OBVIOUS
<1>2. o \in [1 .. 4 -> StepNames] /\ \A i, j \in 1 .. 4 : i # j => o[i] # o[j]
  BY <1>1, SecurityAssumptions
<1>3. PICK s : s = [i \in 1 .. 4 |-> StepOf(o[i], i)]
  OBVIOUS
<1>4. s \in Seq(S) /\ DOMAIN s = 1 .. 4 /\ Len(s) = 4
  <2>1. \A i \in 1 .. 4 : StepOf(o[i], i) \in S
    BY <1>2 DEF SecuritySteps
  <2>2. PICK n \in Nat : n = 4
    OBVIOUS
  <2>3. s \in [1 .. n -> S]
    BY <1>3, <2>1, <2>2
  <2>4. s \in Seq(S) /\ DOMAIN s = 1 .. n /\ Len(s) = n
    BY <2>3
  <2>. QED  BY <2>2, <2>4
<1>5. \A i \in 1 .. 4 : /\ s[i] = StepOf(o[i], i) /\ o[i] \in StepNames /\ s[i].id = i /\ s[i].name = o[i]
                       /\ s[i].type \in {"middleware", "guard"} /\ s[i].global = TRUE
  <2>. SUFFICES ASSUME NEW i \in 1 .. 4
                PROVE  /\ s[i] = StepOf(o[i], i) /\ o[i] \in StepNames /\ s[i].id = i /\ s[i].name = o[i]
                       /\ s[i].type \in {"middleware", "guard"} /\ s[i].global = TRUE
    OBVIOUS
  <2>1. s[i] = StepOf(o[i], i) /\ o[i] \in StepNames /\ i \in Nat
    BY <1>2, <1>3
  <2>2. IsStepOf(s[i], o[i], i)
    BY <2>1, StepsOfSecurity
  <2>. QED  BY <2>1, <2>2 DEF IsStepOf
<1>6. SortedIn(s, DeclaredIn(S))
  <2>. SUFFICES ASSUME NEW i \in 1 .. 4, NEW j \in 1 .. 4, i < j PROVE <<s[i], s[j]>> \in DeclaredIn(S)
    BY <1>4 DEF SortedIn
  <2>1. s[i] \in S /\ s[j] \in S
    BY <1>4
  <2>2. s[i].id = i /\ s[j].id = j
    BY <1>5
  <2>. QED  BY <2>1, <2>2 DEF DeclaredIn
<1>7. PICK p : p = Before(s)
  OBVIOUS
<1>8. p \in Seq(S) /\ SortedIn(p, PrecedesIn(S)) /\ Elements(p) = {x \in Elements(s) : IsBefore(x)}
  BY <1>4, <1>6, <1>7, BeforeNests, SecurityStepsAreSteps
<1>9. Elements(p) = Elements(s)
  <2>1. \A i \in DOMAIN s : IsBefore(s[i])
    BY <1>4, <1>5 DEF IsBefore
  <2>. QED  BY <1>8, <2>1 DEF Elements
<1>10. Len(p) = 4
  <2>1. Len(p) = Cardinality(Elements(p))
    BY <1>8, SortedHasNoDoubles, SecurityStepsAreSteps
  <2>2. Len(s) = Cardinality(Elements(s))
    <3>1. \A i, j \in DOMAIN s : i < j => s[i] # s[j]
      BY <1>4, <1>5
    <3>. QED  BY <1>4, <3>1, LengthIsCardinality
  <2>. QED  BY <1>4, <1>9, <2>1, <2>2
<1>11. DOMAIN p = 1 .. 4
  BY <1>8, <1>10
<1>12. \A k \in 1 .. 4 : \E i \in 1 .. 4 : p[k] = s[i]
  BY <1>4, <1>9, <1>11 DEF Elements
<1>13. ASSUME NEW k \in 1 .. 4, NEW l \in 1 .. 4, k < l
       PROVE  Place(p[k].name) < Place(p[l].name)
  <2>1. PICK i \in 1 .. 4, j \in 1 .. 4 : p[k] = s[i] /\ p[l] = s[j]
    BY <1>12
  <2>2. Precedes(s[i], s[j])
    BY <1>8, <1>11, <1>13, <2>1 DEF SortedIn, PrecedesIn
  <2>3. i # j
    <3>1. s[i] \in S
      BY <1>4
    <3>2. ~Outer(s[i], s[i]) /\ Rank(s[i]) \in Nat
      BY <3>1, StepsOfTheKinds, SecurityStepsAreSteps
    <3>. QED  BY <2>2, <3>2 DEF Precedes
  <2>4. Place(o[i]) < Place(o[j])
    BY <1>2, <1>5, <2>2, <2>3, PrecedingIsPlaced
  <2>. QED  BY <1>5, <2>1, <2>4
<1>14. \A k \in 1 .. 4 : p[k].name \in StepNames /\ Place(p[k].name) \in 1 .. 4
  <2>1. \A k \in 1 .. 4 : p[k].name \in StepNames
    BY <1>5, <1>12
  <2>2. \A n \in StepNames : Place(n) \in 1 .. 4
    BY StepsOfSecurity
  <2>. QED  BY <2>1, <2>2
<1>15. \A k \in 1 .. 4 : Place(p[k].name) = k
  <2>1. /\ Place(p[1].name) < Place(p[2].name) /\ Place(p[2].name) < Place(p[3].name)
        /\ Place(p[3].name) < Place(p[4].name)
    BY <1>13
  <2>2. /\ Place(p[1].name) \in 1 .. 4 /\ Place(p[2].name) \in 1 .. 4
        /\ Place(p[3].name) \in 1 .. 4 /\ Place(p[4].name) \in 1 .. 4
    BY <1>14
  <2>3. /\ Place(p[1].name) = 1 /\ Place(p[2].name) = 2
        /\ Place(p[3].name) = 3 /\ Place(p[4].name) = 4
    BY <2>1, <2>2
  <2>. QED  BY <2>3
<1>16. PlanOk(p)
  <2>1. \A n \in StepNames : /\ Place(n) = 1 => n = "authenticate"
                             /\ Place(n) = 2 => n = "authorize"
                             /\ Place(n) = 3 => n = "checkAuthentication"
                             /\ Place(n) = 4 => n = "checkAuthorization"
    BY DEF StepNames, Place
  <2>2. /\ p[1].name \in StepNames /\ p[2].name \in StepNames /\ p[3].name \in StepNames /\ p[4].name \in StepNames
        /\ Place(p[1].name) = 1 /\ Place(p[2].name) = 2 /\ Place(p[3].name) = 3 /\ Place(p[4].name) = 4
    BY <1>14, <1>15
  <2>. QED  BY <1>10, <2>1, <2>2 DEF PlanOk
<1>17. Plan = p
  <2>1. DOMAIN config.order = 1 .. 4
    BY <1>1, <1>2
  <2>. QED  BY <1>1, <1>3, <1>7, <2>1 DEF Plan
<1>. QED  BY <1>16, <1>17

-----------------------------------------------------------------------------
(* Security: one execution.                                                *)

Decisions == [policy : STRING, authorized : BOOLEAN]

Contexts ==
    [securedMethod : BOOLEAN, authenticated : BOOLEAN, authenticationMethod : STRING \cup {"none"},
     authorized : BOOLEAN, decisions : Seq(Decisions)]

SecurityType ==
    /\ config \in Configurations /\ secured = (IsSecured /\ IsEnabled) /\ PlanOk(steps)
    /\ stage \in 1 .. 5 /\ asked \in Nat /\ context \in Contexts

\* Who is authenticated is known by an authenticator of the transport.
IdentityOk ==
    /\ context.authenticated = TRUE => context.authenticationMethod \in Elements(Authenticators)
    /\ context.authenticated = FALSE => context.authenticationMethod = "none"

\* The mark that the guards look at says that the execution is to be secured.
MarkOk ==
    /\ stage = 1 /\ context.securedMethod = TRUE => IsSecured /\ IsEnabled
    /\ stage > 1 => context.securedMethod = secured

AllAllow == \A i \in DOMAIN context.decisions : context.decisions[i].authorized = TRUE

\* The policies decide in their order, and what they say together is known as
\* soon as one has decided.
DecisionsOk ==
    /\ stage = 1 => Len(context.decisions) = 0
    /\ stage = 2 => asked <= Len(Policies) /\ Len(context.decisions) = asked
    /\ stage > 2 => Len(context.decisions) = Len(Policies)
    /\ \A i \in DOMAIN context.decisions : context.decisions[i].policy = Policies[i]
    /\ stage > 2 \/ (stage = 2 /\ asked > 0) => (context.authorized = TRUE <=> AllAllow)

\* What each guard that has let the execution pass has seen.
ChecksOk ==
    /\ stage > 3 /\ secured = TRUE => context.authenticated = TRUE
    /\ stage > 4 /\ secured = TRUE => context.authorized = TRUE

OutcomeOk ==
    /\ outcome = "handled" => stage = 5
    /\ outcome = "AuthenticationError" => stage = 3 /\ secured = TRUE /\ context.authenticated = FALSE
    /\ outcome = "AuthorizationError" => stage = 4 /\ secured = TRUE /\ context.authorized = FALSE

SecurityInv == SecurityType /\ IdentityOk /\ MarkOk /\ DecisionsOk /\ ChecksOk /\ OutcomeOk

\* What is declared is read off what does not change.
LEMMA DeclarationsAreFixed ==
    ASSUME fixed' = fixed
    PROVE  /\ Policies' = Policies /\ Authenticators' = Authenticators
           /\ IsSecured' = IsSecured /\ IsEnabled' = IsEnabled
           /\ config' = config /\ secured' = secured /\ steps' = steps
<1>1. config' = config /\ secured' = secured /\ steps' = steps /\ transport' = transport
  BY DEF fixed
<1>2. Policies' = Policies
  BY <1>1 DEF Policies, PoliciesOf, Nearest
<1>3. Authenticators' = Authenticators
  BY <1>1 DEF Authenticators, Candidates
<1>4. IsSecured' = IsSecured
  BY <1>1 DEF IsSecured, Nearest
<1>5. IsEnabled' = IsEnabled
  BY <1>1 DEF IsEnabled, AllowedTransports
<1>. QED  BY <1>1, <1>2, <1>3, <1>4, <1>5

LEMMA DeclarationsAreLists ==
    ASSUME config \in Configurations
    PROVE  /\ \A kind \in {"class", "method"} : PoliciesOf(kind) \in Seq(STRING)
           /\ Policies \in Seq(STRING)
           /\ Authenticators \in Seq(STRING \ {"none"})
           /\ Elements(Authenticators) =
                 {x \in Elements(Candidates) : config.supports[x] \cap {"all", transport} # {}}
<1>1. /\ config.registered \in Seq(STRING \ {"none"}) /\ config.options.selected \in Seq(STRING \ {"none"})
      /\ config.classes \in Seq([class : Seq(STRING) \cup {None}, method : Seq(STRING) \cup {None}])
  BY SecurityAssumptions
<1>2. ASSUME NEW kind \in {"class", "method"} PROVE PoliciesOf(kind) \in Seq(STRING)
  <2>1. PICK classes : classes = config.classes
    OBVIOUS
  <2>2. PICK n \in Nat : n = Len(classes) /\ DOMAIN classes = 1 .. n
    BY <1>1, <2>1
  <2>3. \A i \in 1 .. n : classes[i][kind] \in Seq(STRING) \cup {None}
    <3>a. PICK R : R = [class : Seq(STRING) \cup {None}, method : Seq(STRING) \cup {None}]
      OBVIOUS
    <3>b. classes \in Seq(R)
      BY <1>1, <2>1, <3>a
    <3>c. \A i \in 1 .. n : classes[i] \in R
      BY <2>2, <3>b
    <3>1. \A i \in 1 .. n : classes[i] \in [class : Seq(STRING) \cup {None}, method : Seq(STRING) \cup {None}]
      BY <3>a, <3>c
    <3>2. CASE kind = "class"
      BY <3>1, <3>2
    <3>3. CASE kind = "method"
      BY <3>1, <3>3
    <3>. QED  BY <3>2, <3>3
  <2>4. PICK D : D = {i \in DOMAIN classes : classes[i][kind] # None}
    OBVIOUS
  <2>5. CASE D = {}
    <3>1. Nearest(kind) = None
      BY <2>1, <2>4, <2>5 DEF Nearest
    <3>2. PoliciesOf(kind) = <<>>
      BY <3>1 DEF PoliciesOf
    <3>. QED  BY <3>2
  <2>6. CASE D # {}
    <3>1. \E i \in D : \A j \in D : i <= j
      <4>1. PICK i \in D : TRUE
        BY <2>6
      <4>2. D \subseteq Nat
        BY <2>2, <2>4
      <4>. QED  BY <4>1, <4>2, LeastExists
    <3>2. PICK i \in D : i = CHOOSE k \in D : \A j \in D : k <= j
      BY <3>1
    <3>3. Nearest(kind) = classes[i][kind]
      BY <2>1, <2>4, <2>6, <3>2 DEF Nearest
    <3>4. classes[i][kind] \in Seq(STRING) /\ classes[i][kind] # None
      BY <2>2, <2>3, <2>4
    <3>5. PoliciesOf(kind) = classes[i][kind]
      BY <3>3, <3>4 DEF PoliciesOf
    <3>. QED  BY <3>4, <3>5
  <2>. QED  BY <2>5, <2>6
<1>3. Policies \in Seq(STRING)
  BY <1>2 DEF Policies
<1>4. PICK c : c = Candidates
  OBVIOUS
<1>5. c \in Seq(STRING \ {"none"})
  BY <1>1, <1>4 DEF Candidates
<1>6. PICK I : I = {i \in DOMAIN c : config.supports[c[i]] \cap {"all", transport} # {}}
  OBVIOUS
<1>7. Authenticators = Select(c, I)
  BY <1>4, <1>6 DEF Authenticators
<1>8. Authenticators \in Seq(STRING \ {"none"}) /\ Elements(Authenticators) = {c[i] : i \in I \cap DOMAIN c}
  BY <1>5, <1>7, SelectionSorted
<1>9. Elements(Authenticators) = {x \in Elements(c) : config.supports[x] \cap {"all", transport} # {}}
  BY <1>6, <1>8 DEF Elements
<1>. QED  BY <1>2, <1>3, <1>4, <1>8, <1>9

LEMMA SecurityInitially == SecurityInit => SecurityInv
<1>. SUFFICES ASSUME SecurityInit PROVE SecurityInv
  OBVIOUS
<1>1. config \in Configurations /\ secured = (IsSecured /\ IsEnabled) /\ steps = Plan
      /\ stage = 1 /\ asked = 0 /\ context = NoContext /\ outcome = "none"
  BY DEF SecurityInit
<1>2. context \in Contexts /\ context.securedMethod = FALSE /\ context.authenticated = FALSE
      /\ context.authenticationMethod = "none" /\ context.decisions = <<>>
  <2>1. PICK empty \in Seq(Decisions) : empty = <<>>
    BY EmptySeq
  <2>2. context = [securedMethod |-> FALSE, authenticated |-> FALSE, authenticationMethod |-> "none",
                   authorized |-> FALSE, decisions |-> empty]
    BY <1>1, <2>1 DEF NoContext
  <2>4. /\ context.securedMethod = FALSE /\ context.authenticated = FALSE
        /\ context.authenticationMethod = "none" /\ context.decisions = empty
    BY <2>2
  <2>5. context \in Contexts
    BY <2>2 DEF Contexts
  <2>. QED  BY <2>1, <2>4, <2>5
<1>3. SecurityType
  BY <1>1, <1>2, PlanIsOrdered DEF SecurityType
<1>4. IdentityOk /\ MarkOk
  BY <1>1, <1>2 DEF IdentityOk, MarkOk
<1>5. DecisionsOk
  BY <1>1, <1>2 DEF DecisionsOk
<1>6. ChecksOk /\ OutcomeOk
  BY <1>1 DEF ChecksOk, OutcomeOk
<1>. QED  BY <1>3, <1>4, <1>5, <1>6 DEF SecurityInv

LEMMA SecurityInductive == SecurityInv /\ [SecurityNext]_securityVars => SecurityInv'
<1>. SUFFICES ASSUME SecurityInv, [SecurityNext]_securityVars PROVE SecurityInv'
  OBVIOUS
<1>1. /\ config \in Configurations /\ secured = (IsSecured /\ IsEnabled) /\ PlanOk(steps)
      /\ stage \in 1 .. 5 /\ asked \in Nat /\ context \in Contexts
      /\ IdentityOk /\ MarkOk /\ DecisionsOk /\ ChecksOk /\ OutcomeOk
  BY DEF SecurityInv, SecurityType
<1>2. fixed' = fixed
  BY DEF SecurityNext, securityVars, fixed, SkipAuthentication, AskAuthenticator, NoneAuthenticated,
         EvaluatePolicy, AllEvaluated, CheckAuthentication, CheckAuthorization, Check, Invoke
<1>3. /\ Policies' = Policies /\ Authenticators' = Authenticators
      /\ IsSecured' = IsSecured /\ IsEnabled' = IsEnabled
      /\ config' = config /\ secured' = secured /\ steps' = steps
  BY <1>2, DeclarationsAreFixed
<1>4. Policies \in Seq(STRING) /\ Authenticators \in Seq(STRING \ {"none"})
  BY <1>1, DeclarationsAreLists
<1>5. secured \in BOOLEAN /\ IsSecured \in BOOLEAN /\ IsEnabled \in BOOLEAN
  BY <1>1 DEF IsSecured, IsEnabled
<1>6. /\ Running("authenticate") => stage = 1
      /\ Running("authorize") => stage = 2
      /\ Running("checkAuthentication") => stage = 3
      /\ Running("checkAuthorization") => stage = 4
      /\ stage > Len(steps) => stage = 5
  BY <1>1 DEF Running, PlanOk
<1>7. /\ context.securedMethod \in BOOLEAN /\ context.authenticated \in BOOLEAN
      /\ context.authenticationMethod \in STRING \cup {"none"} /\ context.authorized \in BOOLEAN
      /\ context.decisions \in Seq(Decisions)
  BY <1>1 DEF Contexts
\* Steps that leave the context as it is and go on, or end.
<1>8. SecurityType' <=> stage' \in 1 .. 5 /\ asked' \in Nat /\ context' \in Contexts
  BY <1>1, <1>3 DEF SecurityType, PlanOk
<1>9. ASSUME SkipAuthentication PROVE SecurityInv'
  <2>1. stage = 1 /\ stage' = 2 /\ asked' = 0 /\ outcome' = outcome /\ context' = context /\ ~IsEnabled /\ outcome = "none"
    BY <1>6, <1>9 DEF SkipAuthentication, Proceed, Running
  <2>2. SecurityType'
    BY <1>1, <1>8, <2>1
  <2>3. IdentityOk'
    BY <1>1, <1>3, <2>1 DEF IdentityOk
  <2>4. MarkOk'
    <3>1. secured = FALSE
      BY Zenon, <1>1, <2>1
    <3>2. context.securedMethod = FALSE
      BY <1>1, <1>7, <2>1 DEF MarkOk
    <3>. QED  BY <1>3, <2>1, <3>1, <3>2 DEF MarkOk
  <2>5. DecisionsOk'
    BY <1>1, <1>3, <1>4, <2>1 DEF DecisionsOk
  <2>6. ChecksOk' /\ OutcomeOk'
    BY <1>1, <2>1 DEF ChecksOk, OutcomeOk
  <2>. QED  BY <2>2, <2>3, <2>4, <2>5, <2>6 DEF SecurityInv
<1>10. ASSUME AskAuthenticator \/ NoneAuthenticated PROVE SecurityInv'
  <2>1. stage = 1 /\ IsEnabled /\ outcome = "none"
    BY <1>6, <1>10 DEF AskAuthenticator, NoneAuthenticated, Running
  <2>2. /\ context'.decisions = context.decisions /\ context'.authorized = context.authorized
        /\ context'.securedMethod = IsSecured
        /\ context' \in Contexts
        /\ \/ context'.authenticated = context.authenticated /\ context'.authenticationMethod = context.authenticationMethod
           \/ context'.authenticated = TRUE /\ context'.authenticationMethod \in Elements(Authenticators)
    <3>1. CASE context' = Marked
      BY <1>1, <1>5, <3>1 DEF Marked, Contexts
    <3>2. CASE context' # Marked
      <4>1. context' = [Marked EXCEPT !.authenticated = TRUE, !.authenticationMethod = Authenticators[asked + 1]]
        BY <1>10, <3>2 DEF AskAuthenticator, NoneAuthenticated
      <4>2. asked + 1 \in DOMAIN Authenticators
        BY <1>1, <1>4, <1>10, <3>2 DEF AskAuthenticator, NoneAuthenticated
      <4>3. Authenticators[asked + 1] \in Elements(Authenticators) /\ Authenticators[asked + 1] \in STRING
        BY <1>4, <4>2 DEF Elements
      <4>. QED  BY <1>1, <1>5, <4>1, <4>3 DEF Marked, Contexts
    <3>. QED  BY <3>1, <3>2
  <2>3. /\ stage' \in {1, 2} /\ asked' \in Nat /\ outcome' \in {"none", "ErrorOfAuthenticator"}
        /\ stage' = 2 => asked' = 0
    BY <1>1, <1>10, <2>1 DEF AskAuthenticator, NoneAuthenticated, Proceed, End
  <2>4. SecurityType'
    BY <1>8, <2>2, <2>3
  <2>5. IdentityOk'
    BY <1>1, <1>3, <2>2 DEF IdentityOk
  <2>6. MarkOk'
    <3>1. secured = IsSecured
      BY Zenon, <1>1, <1>5, <2>1
    <3>. QED  BY <1>3, <2>1, <2>2, <2>3, <3>1 DEF MarkOk
  <2>7. DecisionsOk'
    <3>1. Len(context'.decisions) = 0 /\ DOMAIN context'.decisions = {}
      BY <1>1, <1>7, <2>1, <2>2 DEF DecisionsOk
    <3>. QED  BY <1>3, <1>4, <2>3, <3>1 DEF DecisionsOk
  <2>8. ChecksOk' /\ OutcomeOk'
    BY <2>3 DEF ChecksOk, OutcomeOk
  <2>. QED  BY <2>4, <2>5, <2>6, <2>7, <2>8 DEF SecurityInv
<1>11. ASSUME EvaluatePolicy PROVE SecurityInv'
  <2>1. stage = 2 /\ stage' = 2 /\ outcome = "none" /\ asked < Len(Policies)
    BY <1>6, <1>11 DEF EvaluatePolicy, Running, End
  <2>2. CASE context' = context /\ asked' = asked /\ outcome' = "ErrorOfPolicy"
    <3>1. SecurityType'
      BY <1>1, <1>8, <2>1, <2>2
    <3>2. IdentityOk' /\ MarkOk'
      BY <1>1, <1>3, <2>1, <2>2 DEF IdentityOk, MarkOk
    <3>3. DecisionsOk'
      BY <1>1, <1>3, <2>1, <2>2 DEF DecisionsOk, AllAllow
    <3>4. ChecksOk' /\ OutcomeOk'
      BY <1>1, <2>1, <2>2 DEF ChecksOk, OutcomeOk
    <3>. QED  BY <3>1, <3>2, <3>3, <3>4 DEF SecurityInv
  <2>3. CASE ~(context' = context /\ asked' = asked /\ outcome' = "ErrorOfPolicy")
    <3>1. PICK allowed \in BOOLEAN :
            LET decision == [policy |-> Policies[asked + 1], authorized |-> allowed] IN
            /\ context' = [context EXCEPT !.decisions = Append(DecisionsSoFar, decision),
                                          !.authorized = Authorized(decision)]
            /\ asked' = asked + 1 /\ outcome' = outcome
      BY <1>11, <2>3 DEF EvaluatePolicy, End
    <3>2. PICK n \in Nat, ds \in Seq(Decisions) :
            n = asked /\ ds = context.decisions /\ Len(ds) = n /\ DOMAIN ds = 1 .. n
      BY <1>1, <1>7, <2>1 DEF DecisionsOk
    <3>3. DecisionsSoFar = ds
      BY <3>2 DEF DecisionsSoFar
    <3>4. PICK d : d = [policy |-> Policies[n + 1], authorized |-> allowed]
      OBVIOUS
    <3>5. n + 1 \in DOMAIN Policies /\ d \in Decisions
          /\ d.policy = Policies[n + 1] /\ d.authorized = allowed
      BY <1>4, <2>1, <3>2, <3>4 DEF Decisions
    <3>6. PICK es : es = Append(ds, d)
      OBVIOUS
    <3>7. /\ es \in Seq(Decisions) /\ Len(es) = n + 1 /\ DOMAIN es = 1 .. n + 1
          /\ es[n + 1] = d /\ \A i \in 1 .. n : es[i] = ds[i]
      BY <3>2, <3>5, <3>6
    <3>8. Authorized(d) \in BOOLEAN /\ (Authorized(d) = TRUE <=> allowed = TRUE /\ (n = 0 \/ context.authorized = TRUE))
      BY <1>7, <3>2, <3>5 DEF Authorized
    <3>9. /\ context'.decisions = es /\ context'.authorized = Authorized(d)
          /\ context'.securedMethod = context.securedMethod /\ context'.authenticated = context.authenticated
          /\ context'.authenticationMethod = context.authenticationMethod /\ context' \in Contexts
      <4>1. context' = [context EXCEPT !.decisions = es, !.authorized = Authorized(d)]
        BY <3>1, <3>2, <3>3, <3>4, <3>6
      <4>. QED  BY <1>1, <3>7, <3>8, <4>1 DEF Contexts
    <3>10. asked' = n + 1 /\ outcome' = "none"
      BY <2>1, <3>1, <3>2
    <3>11. SecurityType'
      BY <1>8, <2>1, <3>9, <3>10
    <3>12. IdentityOk' /\ MarkOk'
      BY <1>1, <1>3, <2>1, <3>9 DEF IdentityOk, MarkOk
    <3>13. DecisionsOk'
      <4>1. asked' <= Len(Policies') /\ Len(context'.decisions) = asked'
        BY <1>3, <1>4, <2>1, <3>2, <3>7, <3>9, <3>10
      <4>2. \A i \in DOMAIN context'.decisions : context'.decisions[i].policy = Policies'[i]
        <5>1. \A i \in 1 .. n : ds[i].policy = Policies[i]
          BY <1>1, <3>2 DEF DecisionsOk
        <5>2. \A i \in 1 .. n + 1 : es[i].policy = Policies[i]
          <6>. SUFFICES ASSUME NEW i \in 1 .. n + 1 PROVE es[i].policy = Policies[i]
            OBVIOUS
          <6>1. CASE i = n + 1
            BY <3>5, <3>7, <6>1
          <6>2. CASE i \in 1 .. n
            BY <3>7, <5>1, <6>2
          <6>. QED  BY <6>1, <6>2
        <5>. QED  BY <1>3, <3>7, <3>9, <5>2
      <4>3. Authorized(d) = TRUE <=> \A i \in 1 .. n + 1 : es[i].authorized = TRUE
        <5>1. n > 0 => (context.authorized = TRUE <=> \A i \in 1 .. n : ds[i].authorized = TRUE)
          BY <1>1, <2>1, <3>2 DEF DecisionsOk, AllAllow
        <5>2. (\A i \in 1 .. n + 1 : es[i].authorized = TRUE)
                 <=> allowed = TRUE /\ \A i \in 1 .. n : ds[i].authorized = TRUE
          <6>1. es[n + 1].authorized = allowed /\ \A i \in 1 .. n : es[i].authorized = ds[i].authorized
            BY <3>5, <3>7
          <6>2. \A i \in 1 .. n + 1 : i = n + 1 \/ i \in 1 .. n
            OBVIOUS
          <6>3. n + 1 \in 1 .. n + 1 /\ \A i \in 1 .. n : i \in 1 .. n + 1
            OBVIOUS
          <6>. QED  BY Zenon, <6>1, <6>2, <6>3
        <5>. QED  BY <3>8, <5>1, <5>2
      <4>4. context'.authorized = TRUE <=> AllAllow'
        BY <3>7, <3>9, <4>3 DEF AllAllow
      <4>. QED  BY <2>1, <4>1, <4>2, <4>4 DEF DecisionsOk
    <3>14. ChecksOk' /\ OutcomeOk'
      BY <2>1, <3>10 DEF ChecksOk, OutcomeOk
    <3>. QED  BY <3>11, <3>12, <3>13, <3>14 DEF SecurityInv
  <2>. QED  BY <2>2, <2>3
<1>12. ASSUME AllEvaluated PROVE SecurityInv'
  <2>1. stage = 2 /\ stage' = 3 /\ outcome' = "none" /\ asked' = 0 /\ asked = Len(Policies)
        /\ context' = IF Policies = <<>> THEN [context EXCEPT !.authorized = TRUE] ELSE context
    BY <1>6, <1>12 DEF AllEvaluated, Running, Proceed
  <2>2. /\ context'.decisions = context.decisions
        /\ context'.securedMethod = context.securedMethod /\ context'.authenticated = context.authenticated
        /\ context'.authenticationMethod = context.authenticationMethod /\ context' \in Contexts
        /\ context'.authorized = IF Policies = <<>> THEN TRUE ELSE context.authorized
    BY <1>1, <2>1 DEF Contexts
  <2>3. SecurityType'
    BY <1>8, <2>1, <2>2
  <2>4. IdentityOk' /\ MarkOk'
    BY <1>1, <1>3, <2>1, <2>2 DEF IdentityOk, MarkOk
  <2>5. DecisionsOk'
    <3>1. Len(context.decisions) = Len(Policies)
      BY <1>1, <2>1 DEF DecisionsOk
    <3>2. \A i \in DOMAIN context'.decisions : context'.decisions[i].policy = Policies'[i]
      BY <1>1, <1>3, <2>2 DEF DecisionsOk
    <3>3. context'.authorized = TRUE <=> AllAllow'
      <4>1. CASE Policies = <<>>
        <5>1. DOMAIN context.decisions = {}
          BY <1>7, <3>1, <4>1
        <5>. QED  BY <2>2, <4>1, <5>1 DEF AllAllow
      <4>2. CASE Policies # <<>>
        <5>1. asked > 0
          BY <1>4, <2>1, <4>2
        <5>2. context.authorized = TRUE <=> AllAllow
          BY <1>1, <2>1, <5>1 DEF DecisionsOk
        <5>. QED  BY <2>2, <4>2, <5>2 DEF AllAllow
      <4>. QED  BY <4>1, <4>2
    <3>. QED  BY <1>3, <2>1, <2>2, <3>1, <3>2, <3>3 DEF DecisionsOk
  <2>6. ChecksOk' /\ OutcomeOk'
    BY <2>1 DEF ChecksOk, OutcomeOk
  <2>. QED  BY <2>3, <2>4, <2>5, <2>6 DEF SecurityInv
<1>13. ASSUME CheckAuthentication \/ CheckAuthorization \/ Invoke PROVE SecurityInv'
  <2>1. /\ context' = context /\ asked' \in Nat /\ stage > 2 /\ stage' \in stage .. 5
        /\ \/ /\ stage = 3 /\ stage' = 4 /\ outcome' = "none"
              /\ ~(context.securedMethod /\ ~context.authenticated)
           \/ /\ stage = 3 /\ stage' = 3 /\ outcome' = "AuthenticationError"
              /\ context.securedMethod /\ ~context.authenticated
           \/ /\ stage = 4 /\ stage' = 5 /\ outcome' = "none"
              /\ ~(context.securedMethod /\ ~context.authorized)
           \/ /\ stage = 4 /\ stage' = 4 /\ outcome' = "AuthorizationError"
              /\ context.securedMethod /\ ~context.authorized
           \/ stage = 5 /\ stage' = 5 /\ outcome' = "handled"
    <3>1. CASE CheckAuthentication
      BY <1>1, <1>6, <3>1 DEF CheckAuthentication, Check, Running, Proceed, End
    <3>2. CASE CheckAuthorization
      BY <1>1, <1>6, <3>2 DEF CheckAuthorization, Check, Running, Proceed, End
    <3>3. CASE Invoke
      BY <1>1, <1>6, <3>3 DEF Invoke, End
    <3>. QED  BY <1>13, <3>1, <3>2, <3>3
  <2>2. context.securedMethod = secured
    BY <1>1, <2>1 DEF MarkOk
  <2>3. SecurityType'
    BY <1>1, <1>8, <2>1
  <2>4. IdentityOk' /\ MarkOk'
    BY <1>1, <1>3, <2>1 DEF IdentityOk, MarkOk
  <2>5. DecisionsOk'
    BY <1>1, <1>3, <2>1 DEF DecisionsOk, AllAllow
  <2>6. ChecksOk' /\ OutcomeOk'
    BY <1>1, <1>3, <1>5, <1>7, <2>1, <2>2 DEF ChecksOk, OutcomeOk
  <2>. QED  BY <2>3, <2>4, <2>5, <2>6 DEF SecurityInv
<1>14. CASE UNCHANGED securityVars
  <2>1. stage' = stage /\ asked' = asked /\ context' = context /\ outcome' = outcome
    BY <1>14 DEF securityVars
  <2>2. SecurityType'
    BY <1>1, <1>8, <2>1
  <2>3. IdentityOk' /\ MarkOk' /\ ChecksOk' /\ OutcomeOk'
    BY <1>1, <1>3, <2>1 DEF IdentityOk, MarkOk, ChecksOk, OutcomeOk
  <2>4. DecisionsOk'
    BY <1>1, <1>3, <2>1 DEF DecisionsOk, AllAllow
  <2>. QED  BY <2>2, <2>3, <2>4 DEF SecurityInv
<1>. QED  BY <1>9, <1>10, <1>11, <1>12, <1>13, <1>14 DEF SecurityNext

LEMMA SecurityInvariant == SecuritySpec => []SecurityInv
BY SecurityInitially, SecurityInductive, PTL DEF SecuritySpec

\* AuthenticationMiddleware, AuthorizationMiddleware and the two guards: for any
\* configuration, any order of registration and any answers, a secured handler
\* runs only for an identified caller whom every policy has allowed, and a
\* refusal tells its reason.
THEOREM SecuredCorrect == SecuritySpec => []SecuredRunsAuthorized
<1>1. SecurityInv => SecuredRunsAuthorized
  <2>. SUFFICES ASSUME SecurityInv PROVE SecuredRunsAuthorized
    OBVIOUS
  <2>1. /\ config \in Configurations /\ context \in Contexts
        /\ secured = (IsSecured /\ IsEnabled) /\ secured \in BOOLEAN
        /\ IdentityOk /\ MarkOk /\ DecisionsOk /\ ChecksOk /\ OutcomeOk
    BY DEF SecurityInv, SecurityType
  <2>2. SecuredIsIdentified
    <3>. SUFFICES ASSUME outcome = "handled", secured
                  PROVE  /\ context.authenticationMethod \in Elements(Candidates)
                         /\ config.supports[context.authenticationMethod] \cap {"all", transport} # {}
      BY DEF SecuredIsIdentified, Candidates
    <3>1. context.authenticationMethod \in Elements(Authenticators)
      BY <2>1 DEF OutcomeOk, ChecksOk, IdentityOk
    <3>. QED  BY <2>1, <3>1, DeclarationsAreLists
  <2>3. PICK n \in Nat, ds \in Seq(Decisions) :
          ds = context.decisions /\ n = Len(ds) /\ DOMAIN ds = 1 .. n
    <3>1. context.decisions \in Seq(Decisions)
      BY <2>1 DEF Contexts
    <3>. QED  BY <3>1
  <2>4. PICK c, m : c = PoliciesOf("class") /\ m = PoliciesOf("method") /\ Policies = c \o m
    BY DEF Policies
  <2>5. c \in Seq(STRING) /\ m \in Seq(STRING)
    BY <2>1, <2>4, DeclarationsAreLists
  <2>6. stage > 2 => n = Len(c \o m) /\ \A i \in 1 .. n : ds[i].policy = (c \o m)[i]
    BY <2>1, <2>3, <2>4 DEF DecisionsOk
  <2>7. SecuredIsAllowed
    <3>. SUFFICES ASSUME outcome = "handled", secured
                  PROVE  /\ \A kind \in {"class", "method"} : Nearest(kind) # None =>
                               \A policy \in Elements(Nearest(kind)) : Decided(policy)
                         /\ \A d \in Elements(context.decisions) : d.authorized
      BY DEF SecuredIsAllowed
    <3>1. stage = 5 /\ context.authorized = TRUE
      BY <2>1 DEF OutcomeOk, ChecksOk
    <3>2. \A d \in Elements(context.decisions) : d.authorized
      BY <2>1, <2>3, <3>1 DEF DecisionsOk, AllAllow, Elements
    <3>3. ASSUME NEW i \in 1 .. n PROVE Decided((c \o m)[i])
      <4>1. ds[i] \in Elements(context.decisions) /\ ds[i].policy = (c \o m)[i]
        BY <2>3, <2>6, <3>1 DEF Elements
      <4>. QED  BY <4>1 DEF Decided
    <3>4. n = Len(c) + Len(m)
      BY <2>5, <2>6, <3>1
    <3>5. ASSUME NEW i \in DOMAIN c PROVE Decided(c[i])
      <4>1. i \in 1 .. n /\ (c \o m)[i] = c[i]
        BY <2>5, <3>4
      <4>. QED  BY <3>3, <4>1
    <3>6. ASSUME NEW i \in DOMAIN m PROVE Decided(m[i])
      <4>1. Len(c) + i \in 1 .. n /\ (c \o m)[Len(c) + i] = m[i]
        BY <2>5, <3>4
      <4>. QED  BY <3>3, <4>1
    <3>7. ASSUME NEW kind \in {"class", "method"}, Nearest(kind) # None,
                 NEW policy \in Elements(Nearest(kind))
          PROVE  Decided(policy)
      <4>1. Nearest(kind) = PoliciesOf(kind)
        BY <3>7 DEF PoliciesOf
      <4>2. policy \in Elements(c) \/ policy \in Elements(m)
        BY <2>4, <4>1
      <4>. QED  BY <3>5, <3>6, <4>2 DEF Elements
    <3>. QED  BY <3>2, <3>7
  <2>8. RefusalsAreExplained
    <3>1. ASSUME outcome = "AuthenticationError"
          PROVE  secured /\ context.authenticationMethod = "none"
      BY <2>1, <3>1 DEF OutcomeOk, IdentityOk
    <3>2. ASSUME outcome = "AuthorizationError"
          PROVE  /\ secured /\ context.authenticationMethod # "none"
                 /\ [i \in DOMAIN context.decisions |-> context.decisions[i].policy] =
                        PoliciesOf("class") \o PoliciesOf("method")
                 /\ \E d \in Elements(context.decisions) : ~d.authorized
      <4>1. stage = 4 /\ secured = TRUE /\ context.authorized = FALSE
        BY <2>1, <3>2 DEF OutcomeOk
      <4>2. context.authenticationMethod # "none"
        <5>1. context.authenticationMethod \in Elements(Authenticators)
          BY <2>1, <4>1 DEF ChecksOk, IdentityOk
        <5>2. Authenticators \in Seq(STRING \ {"none"})
          BY <2>1, DeclarationsAreLists
        <5>. QED  BY <5>1, <5>2 DEF Elements
      <4>3. [i \in 1 .. n |-> ds[i].policy] = c \o m
        <5>1. c \o m \in Seq(STRING) /\ n = Len(c \o m) /\ \A i \in 1 .. n : ds[i].policy = (c \o m)[i]
          BY <2>5, <2>6, <4>1
        <5>2. PICK p : p = c \o m
          OBVIOUS
        <5>3. p = [i \in 1 .. n |-> p[i]]
          <6>1. p \in Seq(STRING) /\ n = Len(p)
            BY <5>1, <5>2
          <6>. QED  BY <6>1
        <5>. QED  BY <5>1, <5>2, <5>3
      <4>4. \E i \in 1 .. n : ds[i].authorized # TRUE
        <5>1. ~AllAllow
          BY <2>1, <4>1 DEF DecisionsOk
        <5>. QED  BY <2>3, <5>1 DEF AllAllow
      <4>5. \E d \in Elements(context.decisions) : ~d.authorized
        BY <2>3, <4>4 DEF Elements
      <4>. QED  BY <2>3, <2>4, <4>1, <4>2, <4>3, <4>5
    <3>. QED  BY <3>1, <3>2 DEF RefusalsAreExplained
  <2>. QED  BY <2>2, <2>7, <2>8 DEF SecuredRunsAuthorized
<1>. QED  BY <1>1, SecurityInvariant, PTL

-----------------------------------------------------------------------------
(* The pipes: what a sequence of steps makes of a value.                   *)

\* f has what the first steps made of v, up to the m-th.
IsPiping(f, s, v, m) == f = [n \in 0 .. m |-> IF n = 0 THEN v ELSE Apply(f[n - 1], s[n])]

LEMMA PipingExists ==
    ASSUME NEW S, NEW s \in Seq(S), NEW v
    PROVE  \E f : IsPiping(f, s, v, Len(s))
<1>. DEFINE T == {m \in Nat : \E f : IsPiping(f, s, v, m)}
<1>1. 0 \in T
  <2>. DEFINE f == [n \in 0 .. 0 |-> v]
  <2>1. IsPiping(f, s, v, 0)
    BY DEF IsPiping
  <2>. QED  BY <2>1
<1>2. ASSUME NEW m \in T PROVE m + 1 \in T
  <2>1. PICK f : IsPiping(f, s, v, m)
    OBVIOUS
  <2>. DEFINE g == [n \in 0 .. m + 1 |-> IF n = m + 1 THEN Apply(f[m], s[n]) ELSE f[n]]
  <2>2. \A n \in 0 .. m : g[n] = f[n]
    OBVIOUS
  <2>3. \A n \in 0 .. m : f[n] = IF n = 0 THEN v ELSE Apply(f[n - 1], s[n])
    BY <2>1 DEF IsPiping
  <2>4. \A n \in 0 .. m + 1 : g[n] = IF n = 0 THEN v ELSE Apply(g[n - 1], s[n])
    <3>. SUFFICES ASSUME NEW n \in 0 .. m + 1
                  PROVE  g[n] = IF n = 0 THEN v ELSE Apply(g[n - 1], s[n])
      OBVIOUS
    <3>1. CASE n = m + 1
      <4>1. n # 0 /\ n - 1 = m /\ g[n - 1] = f[m]
        BY <3>1, <2>2
      <4>2. g[n] = Apply(f[m], s[n])
        BY <3>1
      <4>. QED  BY <4>1, <4>2
    <3>2. CASE n \in 0 .. m
      <4>1. n = 0 \/ n - 1 \in 0 .. m
        BY <3>2
      <4>2. g[n] = f[n] /\ (n # 0 => g[n - 1] = f[n - 1])
        BY <2>2, <3>2, <4>1
      <4>. HIDE DEF g
      <4>. QED  BY <2>3, <3>2, <4>2
    <3>. QED  BY <3>1, <3>2
  <2>5. g = [n \in 0 .. m + 1 |-> g[n]]
    OBVIOUS
  <2>. HIDE DEF g
  <2>6. IsPiping(g, s, v, m + 1)
    BY <2>4, <2>5 DEF IsPiping
  <2>. QED  BY <2>6
<1>3. T \in SUBSET Nat
  OBVIOUS
<1>. HIDE DEF T
<1>4. Len(s) \in T
  BY <1>1, <1>2, <1>3, NumberInduction, LenProperties
<1>. QED  BY <1>4 DEF T

\* The steps of the recursion.
LEMMA ThroughStepsUnfolds ==
    ASSUME NEW S, NEW s \in Seq(S), NEW v
    PROVE  \E f : /\ ThroughSteps(s, v) = f[Len(s)] /\ f[0] = v
                  /\ \A n \in 1 .. Len(s) : f[n] = Apply(f[n - 1], s[n])
<1>. DEFINE g == CHOOSE f : IsPiping(f, s, v, Len(s))
<1>1. IsPiping(g, s, v, Len(s))
  BY PipingExists
<1>2. ThroughSteps(s, v) = g[Len(s)]
  BY Zenon DEF ThroughSteps, IsPiping
<1>. HIDE DEF g
<1>3. PICK m \in Nat : m = Len(s)
  OBVIOUS
<1>4. \A n \in 0 .. m : g[n] = IF n = 0 THEN v ELSE Apply(g[n - 1], s[n])
  BY <1>1, <1>3 DEF IsPiping
<1>5. g[0] = v /\ \A n \in 1 .. m : g[n] = Apply(g[n - 1], s[n])
  BY <1>3, <1>4
<1>. QED  BY <1>2, <1>3, <1>5

LEMMA ThroughNoStep ==
    ASSUME NEW v
    PROVE  ThroughSteps(<<>>, v) = v
<1>1. ASSUME NEW S, NEW s \in Seq(S), Len(s) = 0 PROVE ThroughSteps(s, v) = v
  <2>1. PICK f : /\ ThroughSteps(s, v) = f[Len(s)] /\ f[0] = v
                 /\ \A n \in 1 .. Len(s) : f[n] = Apply(f[n - 1], s[n])
    BY ThroughStepsUnfolds
  <2>. QED  BY <1>1, <2>1
<1>2. <<>> \in Seq({v}) /\ Len(<<>>) = 0
  BY EmptySeq
<1>. QED  BY <1>1, <1>2

LEMMA ThroughOneMore ==
    ASSUME NEW S, NEW s \in Seq(S), NEW x \in S, NEW v
    PROVE  ThroughSteps(Append(s, x), v) = Apply(ThroughSteps(s, v), x)
<1>1. PICK m \in Nat : m = Len(s)
  OBVIOUS
<1>. DEFINE t == Append(s, x)
<1>2. t \in Seq(S) /\ Len(t) = m + 1 /\ t[m + 1] = x /\ \A n \in 1 .. m : t[n] = s[n]
  BY <1>1
<1>. HIDE DEF t
<1>3. PICK f : /\ ThroughSteps(s, v) = f[m] /\ f[0] = v
               /\ \A n \in 1 .. m : f[n] = Apply(f[n - 1], s[n])
  BY <1>1, ThroughStepsUnfolds
<1>4. PICK g : /\ ThroughSteps(t, v) = g[m + 1] /\ g[0] = v
               /\ \A n \in 1 .. m + 1 : g[n] = Apply(g[n - 1], t[n])
  BY <1>2, ThroughStepsUnfolds
<1>. DEFINE T == {n \in Nat : n <= m => g[n] = f[n]}
<1>5. 0 \in T
  BY <1>3, <1>4
<1>6. ASSUME NEW n \in T PROVE n + 1 \in T
  <2>. SUFFICES ASSUME n + 1 <= m PROVE g[n + 1] = f[n + 1]
    OBVIOUS
  <2>1. n + 1 \in 1 .. m /\ n + 1 \in 1 .. m + 1 /\ (n + 1) - 1 = n /\ g[n] = f[n]
    OBVIOUS
  <2>2. t[n + 1] = s[n + 1]
    BY <2>1, <1>2
  <2>3. g[n + 1] = Apply(g[n], t[n + 1]) /\ f[n + 1] = Apply(f[n], s[n + 1])
    BY <2>1, <1>3, <1>4
  <2>. QED  BY <2>1, <2>2, <2>3
<1>7. T \in SUBSET Nat
  OBVIOUS
<1>8. m \in T
  <2>. HIDE DEF T
  <2>. QED  BY <1>5, <1>6, <1>7, NumberInduction
<1>9. g[m] = f[m]
  BY <1>8
<1>10. g[m + 1] = Apply(g[(m + 1) - 1], t[m + 1]) /\ (m + 1) - 1 = m
  BY <1>4
<1>. QED  BY <1>2, <1>3, <1>4, <1>9, <1>10 DEF t

\* The steps of two lists, one after the other.
LEMMA ThroughBoth ==
    ASSUME NEW S, NEW s \in Seq(S), NEW t \in Seq(S), NEW v
    PROVE  ThroughSteps(s \o t, v) = ThroughSteps(t, ThroughSteps(s, v))
<1>. DEFINE T == {u \in Seq(S) : ThroughSteps(s \o u, v) = ThroughSteps(u, ThroughSteps(s, v))}
<1>1. <<>> \in T
  <2>1. s \o <<>> = s /\ <<>> \in Seq(S)
    OBVIOUS
  <2>. QED  BY <2>1, ThroughNoStep
<1>2. ASSUME NEW u \in T, NEW x \in S PROVE Append(u, x) \in T
  <2>1. s \o Append(u, x) = Append(s \o u, x) /\ s \o u \in Seq(S) /\ u \in Seq(S) /\ Append(u, x) \in Seq(S)
    OBVIOUS
  <2>2. ThroughSteps(Append(s \o u, x), v) = Apply(ThroughSteps(s \o u, v), x)
    BY <2>1, ThroughOneMore
  <2>3. ThroughSteps(Append(u, x), ThroughSteps(s, v)) = Apply(ThroughSteps(u, ThroughSteps(s, v)), x)
    BY <2>1, ThroughOneMore
  <2>. QED  BY <2>1, <2>2, <2>3
<1>3. T \in SUBSET Seq(S)
  OBVIOUS
<1>. HIDE DEF T
<1>4. T = Seq(S)
  BY <1>1, <1>2, <1>3, SequenceInduction
<1>. QED  BY <1>4 DEF T

LEMMA ThroughTheNext ==
    ASSUME NEW S, NEW s \in Seq(S), NEW n \in Nat, n + 1 <= Len(s), NEW v
    PROVE  ThroughSteps(SubSeq(s, 1, n + 1), v) = Apply(ThroughSteps(SubSeq(s, 1, n), v), s[n + 1])
<1>1. /\ SubSeq(s, 1, n) \in Seq(S) /\ s[n + 1] \in S
      /\ SubSeq(s, 1, n + 1) = Append(SubSeq(s, 1, n), s[n + 1])
  OBVIOUS
<1>. QED  BY <1>1, ThroughOneMore

-----------------------------------------------------------------------------
(* What a step returns.                                                    *)

PipeErrors == {"PipeStepError", "PipeStepValidationError", "PipeStepParsingError", "TypeError"}

LEMMA ValuesAreNoErrors ==
    ASSUME NEW v \in PipeValues
    PROVE  v.type # "error"
BY DEF PipeValues

LEMMA ErrorsAreErrors ==
    ASSUME NEW c
    PROVE  Error(c).type = "error" /\ Error(c).error = c
BY DEF Error

\* A value, or one of the errors that end an execution.
IsResult(r) == r \in PipeValues \/ \E c \in PipeErrors : r = Error(c)

LEMMA ExecuteReturns ==
    ASSUME PipesAssumptions, NEW step \in PipeSteps, NEW v \in PipeValues
    PROVE  IsResult(Execute(step, v))
<1>1. IsResult(v) /\ IsResult(ValidationError) /\ IsResult(ParsingError) /\ IsResult(TypeError) /\ IsResult(Error("PipeStepError"))
  BY DEF IsResult, ValidationError, ParsingError, TypeError, PipeErrors
<1>2. CASE step.step = "Trim"
  <2>1. IsResult(Trim(v))
    BY DEF IsResult, Trim, PipeValues
  <2>. QED  BY <1>2, <2>1 DEF Execute, Transform
<1>3. CASE step.step = "LowerCase"
  <2>1. IsResult(LowerCase(v))
    BY DEF IsResult, LowerCase, PipeValues
  <2>. QED  BY <1>3, <2>1 DEF Execute, Transform
<1>4. CASE step.step = "UpperCase"
  <2>1. IsResult(UpperCase(v))
    BY DEF IsResult, UpperCase, PipeValues
  <2>. QED  BY <1>4, <2>1 DEF Execute, Transform
<1>5. CASE step.step \in {"NotEmpty", "Min", "Max", "Range", "MinLength", "MaxLength", "Regex"}
  <2>. QED  BY <1>1, <1>5 DEF Execute, Transform, NotEmpty, Min, Max, InRange, MinLength, MaxLength, Regex
<1>6. CASE step.step \in {"ParseInt", "ParseFloat"}
  <2>1. Parsed(v) # NaN => IsResult(Number(Parsed(v)))
    <3>. SUFFICES ASSUME Parsed(v) # NaN PROVE Parsed(v) \in Int
      BY DEF IsResult, Number, PipeValues
    <3>1. CASE v.type = "number"
      BY <3>1 DEF Parsed, PipeValues
    <3>2. CASE v.type = "string"
      BY <3>2 DEF Parsed, PipesAssumptions
    <3>. QED  BY <3>1, <3>2 DEF Parsed
  <2>. QED  BY <1>1, <1>6, <2>1 DEF Execute, Transform, ParseInt, ParseFloat
<1>7. CASE step.step = "ParseBoolean"
  <2>1. \A b \in BOOLEAN : IsResult(Boolean(b))
    BY DEF IsResult, Boolean, PipeValues
  <2>2. IsResult(ParseBoolean(v))
    <3>1. CASE v.type = "boolean"
      BY <1>1, <3>1 DEF ParseBoolean
    <3>2. CASE v.type = "string"
      <4>1. ParseBoolean(v) = ParsingError \/ ParseBoolean(v) = Boolean(v.word \in Yes)
        BY <3>2 DEF ParseBoolean
      <4>2. (v.word \in Yes) \in BOOLEAN
        OBVIOUS
      <4>. QED  BY <1>1, <2>1, <4>1, <4>2
    <3>3. CASE v.type \notin {"boolean", "string"}
      BY <1>1, <3>3 DEF ParseBoolean
    <3>. QED  BY <3>1, <3>2, <3>3
  <2>. QED  BY <1>7, <2>2 DEF Execute, Transform
<1>8. CASE step.step = "ValidateSchema"
  <2>1. v.type = "object" => IsResult([v EXCEPT !.instance = TRUE])
    BY DEF IsResult, PipeValues
  <2>2. IsResult(ValidateSchema(v, step.class))
    BY <1>1, <2>1 DEF ValidateSchema
  <2>. QED  BY <1>8, <2>2 DEF Execute, Transform
<1>9. step.step \in {"Trim", "LowerCase", "UpperCase", "NotEmpty", "ParseInt", "ParseFloat", "ParseBoolean",
                     "Min", "Max", "MinLength", "MaxLength", "Range", "ValidateSchema", "Regex"}
  BY DEF PipeSteps
<1>. QED  BY <1>2, <1>3, <1>4, <1>5, <1>6, <1>7, <1>8, <1>9

\* A step that lets a value through makes of it what it would without a lastIndex.
LEMMA AcceptedIsApplied ==
    ASSUME PipesAssumptions, NEW step \in PipeSteps, NEW v \in PipeValues, Execute(step, v).type # "error"
    PROVE  Execute(step, v) \in PipeValues /\ Apply(v, step) = Execute(step, v)
<1>1. Execute(step, v) \in PipeValues
  BY ExecuteReturns, ErrorsAreErrors DEF IsResult
<1>2. Apply(v, step) = Accept(v, step)
  BY ValuesAreNoErrors DEF Apply
<1>3. CASE step.step # "Regex"
  BY <1>1, <1>2, <1>3 DEF Accept, Execute
<1>4. CASE step.step = "Regex"
  <2>1. Execute(step, v) = Regex(v, step.pattern)
    BY <1>4 DEF Execute
  <2>2. ValidationError.type = "error"
    BY ErrorsAreErrors DEF ValidationError
  <2>3. Passes(v, step.pattern) /\ Execute(step, v) = v
    BY <2>1, <2>2 DEF Regex
  <2>4. Matches(v, step.pattern)
    BY <2>3 DEF Passes
  <2>. QED  BY <1>1, <1>2, <1>4, <2>3, <2>4 DEF Accept
<1>. QED  BY <1>3, <1>4
-----------------------------------------------------------------------------
(* The invariant.                                                          *)

PipesTypeOK ==
    /\ handler \in Handlers /\ requests \in [Executions -> Requests]
    /\ state \in [Executions -> {"new", "piping", "invoked"} \cup PipeErrors]
    /\ position \in [Executions -> (Nat \ {0}) \X Nat]
    /\ value \in [Executions -> Seq(PipeValues)]

\* Behind the position the arguments are as they were read, before it they went
\* through all of their steps, and at it through those that were run.
ArgumentSoFar(e, i) ==
    LET at_i == position[e][1]  n == position[e][2] IN
    /\ i < at_i => IsDecorated(i) /\ value[e][i] = ThroughSteps(PipeStepsOf(i), Argument(e, i))
    /\ i = at_i /\ IsDecorated(i) =>
            /\ n <= Len(PipeStepsOf(i))
            /\ value[e][i] = ThroughSteps(SubSeq(PipeStepsOf(i), 1, n), Argument(e, i))
    /\ i > at_i => value[e][i] = Argument(e, i)

ArgumentsSoFar(e) ==
    /\ state[e] = "new" => position[e] = <<1, 0>>
    /\ state[e] \in {"piping", "invoked"} =>
            /\ Len(value[e]) = LastDecorated
            /\ \A i \in 1 .. LastDecorated : ArgumentSoFar(e, i)
    /\ state[e] = "invoked" => position[e][1] > LastDecorated

PipesInv == PipesTypeOK /\ \A e \in Executions : ArgumentsSoFar(e)

LEMMA LastDecoratedBounds ==
    ASSUME PipesAssumptions, handler \in Handlers
    PROVE  LastDecorated \in Nat /\ LastDecorated <= Len(handler.parameters)
<1>. DEFINE n == Len(handler.parameters)
            decorated == {i \in DOMAIN handler.parameters : IsDecorated(i)}
<1>1. n \in Nat /\ DOMAIN handler.parameters = 1 .. n
  BY DEF PipesAssumptions
<1>2. decorated \subseteq 1 .. n
  BY <1>1
<1>3. LastDecorated = IF decorated = {} THEN 0 ELSE CHOOSE i \in decorated : \A j \in decorated : j <= i
  BY DEF LastDecorated
<1>. HIDE DEF n, decorated
<1>4. CASE decorated = {}
  BY <1>1, <1>3, <1>4 DEF n
<1>5. CASE decorated # {}
  <2>. DEFINE fromTheEnd == {k \in Nat : n - k \in decorated}
  <2>1. PICK k \in fromTheEnd : \A m \in fromTheEnd : k <= m
    <3>1. PICK i \in 1 .. n : i \in decorated
      BY <1>2, <1>5
    <3>2. n - i \in Nat /\ n - (n - i) = i
      BY <1>1
    <3>3. n - i \in fromTheEnd
      BY <3>1, <3>2
    <3>4. fromTheEnd \in SUBSET Nat /\ fromTheEnd # {}
      BY <3>3
    <3>. HIDE DEF fromTheEnd
    <3>. QED  BY <3>4, LeastExists
  <2>2. n - k \in decorated
    OBVIOUS
  <2>3. \A j \in decorated : j <= n - k
    <3>. SUFFICES ASSUME NEW j \in decorated PROVE j <= n - k
      OBVIOUS
    <3>1. j \in 1 .. n /\ n - j \in Nat /\ n - (n - j) = j
      BY <1>1, <1>2
    <3>2. n - j \in fromTheEnd
      BY <3>1
    <3>3. k <= n - j /\ k \in Nat
      BY <2>1, <3>2
    <3>. QED  BY <3>1, <3>3, <1>1
  <2>4. LastDecorated \in decorated
    BY <1>3, <1>5, <2>2, <2>3
  <2>. QED  BY <1>1, <1>2, <2>4 DEF n
<1>. QED  BY <1>4, <1>5

\* What a parameter has: its steps, and an argument of the request.
LEMMA ParametersAreTyped ==
    ASSUME PipesAssumptions, handler \in Handlers, requests \in [Executions -> Requests],
           NEW e \in Executions, NEW i \in 1 .. LastDecorated
    PROVE  /\ Argument(e, i) \in PipeValues
           /\ IsDecorated(i) => PipeStepsOf(i) \in Seq(PipeSteps)
<1>1. i \in DOMAIN handler.parameters
  BY LastDecoratedBounds DEF PipesAssumptions
<1>2. Undefined \in PipeValues
  BY DEF Undefined, PipeValues
<1>3. /\ handler.classPipes \in Seq(PipeSteps) /\ handler.methodPipes \in Seq(PipeSteps)
      /\ IsDecorated(i) => /\ handler.parameters[i].steps \in Seq(PipeSteps)
                           /\ \A r \in Requests : r[handler.parameters[i].field] \in PipeValues
  BY <1>1 DEF PipesAssumptions, IsDecorated
<1>4. Argument(e, i) \in PipeValues
  BY <1>2, <1>3 DEF Argument
<1>5. IsDecorated(i) => PipeStepsOf(i) \in Seq(PipeSteps)
  BY <1>3 DEF PipeStepsOf
<1>. QED  BY <1>4, <1>5

LEMMA PipesInitially == PipesAssumptions /\ PipesInit => PipesInv
<1>. SUFFICES ASSUME PipesAssumptions, PipesInit PROVE PipesInv
  OBVIOUS
<1>1. <<>> \in Seq(PipeValues)
  BY EmptySeq
<1>2. PipesTypeOK
  BY <1>1 DEF PipesInit, PipesTypeOK
<1>3. \A e \in Executions : ArgumentsSoFar(e)
  BY DEF PipesInit, ArgumentsSoFar
<1>. QED  BY <1>2, <1>3 DEF PipesInv

\* A step of another execution leaves an execution alone, and what it is about.
LEMMA OthersKeepTheirArguments ==
    ASSUME NEW e \in Executions, ArgumentsSoFar(e), UNCHANGED <<handler, requests>>,
           state'[e] = state[e], position'[e] = position[e], value'[e] = value[e]
    PROVE  ArgumentsSoFar(e)'
<1>1. /\ LastDecorated' = LastDecorated
      /\ \A i : /\ IsDecorated(i)' <=> IsDecorated(i)
               /\ PipeStepsOf(i)' = PipeStepsOf(i)
               /\ Argument(e, i)' = Argument(e, i)
  BY DEF LastDecorated, IsDecorated, PipeStepsOf, Argument
<1>2. ASSUME NEW i \in 1 .. LastDecorated, ArgumentSoFar(e, i) PROVE ArgumentSoFar(e, i)'
  BY <1>1, <1>2 DEF ArgumentSoFar
<1>. QED  BY <1>1, <1>2 DEF ArgumentsSoFar

LEMMA PipesStep == PipesAssumptions /\ PipesInv /\ [PipesNext]_pipesVars => PipesInv'
<1>. SUFFICES ASSUME PipesAssumptions, PipesInv, [PipesNext]_pipesVars PROVE PipesInv'
  OBVIOUS
<1>. USE DEF PipesInv
<1>1. CASE UNCHANGED pipesVars
  <2>1. PipesTypeOK'
    BY <1>1 DEF PipesTypeOK, pipesVars
  <2>2. \A e \in Executions : ArgumentsSoFar(e)'
    BY <1>1, OthersKeepTheirArguments DEF pipesVars
  <2>. QED  BY <2>1, <2>2
<1>2. ASSUME NEW e \in Executions, Run(e) PROVE PipesInv'
  <2>0. UNCHANGED <<handler, requests>>
    BY <1>2 DEF Run, ReadArguments, ProcessHole, ProcessStep, NextParameter, InvokeHandler
  <2>. DEFINE Keeps == /\ LastDecorated' = LastDecorated
                       /\ \A i \in Nat : /\ IsDecorated(i)' <=> IsDecorated(i)
                                        /\ PipeStepsOf(i)' = PipeStepsOf(i)
                                        /\ \A x \in Executions : Argument(x, i)' = Argument(x, i)
  <2>1. Keeps
    BY <2>0 DEF LastDecorated, IsDecorated, PipeStepsOf, Argument
  <2>2. LastDecorated \in Nat
    BY LastDecoratedBounds DEF PipesTypeOK
  <2>3. \A x \in Executions \ {e} :
          state'[x] = state[x] /\ position'[x] = position[x] /\ value'[x] = value[x]
    BY <1>2 DEF PipesTypeOK, Run, ReadArguments, ProcessHole, ProcessStep, NextParameter, InvokeHandler, Fails
  <2>4. \A x \in Executions \ {e} : ArgumentsSoFar(x)'
    BY <2>0, <2>3, OthersKeepTheirArguments
  <2>5. SUFFICES PipesTypeOK' /\ ArgumentsSoFar(e)'
    BY <2>4
  <2>6. CASE ReadArguments(e)
    <3>1. value'[e] = [i \in 1 .. LastDecorated |-> Argument(e, i)]
      BY <2>6 DEF ReadArguments, PipesTypeOK
    <3>2. \A i \in 1 .. LastDecorated : Argument(e, i) \in PipeValues
      BY ParametersAreTyped DEF PipesTypeOK
    <3>3. value'[e] \in Seq(PipeValues) /\ Len(value'[e]) = LastDecorated
      BY <3>1, <3>2, <2>2
    <3>4. PipesTypeOK'
      BY <2>6, <3>3 DEF ReadArguments, PipesTypeOK, PipeErrors
    <3>5. position'[e] = <<1, 0>> /\ state'[e] \in {"piping", "TypeError"}
      BY <2>6 DEF ReadArguments, PipesTypeOK, ArgumentsSoFar
    <3>6. ASSUME NEW i \in 1 .. LastDecorated PROVE ArgumentSoFar(e, i)'
      <4>1. i \in Nat /\ i >= 1 /\ value'[e][i] = Argument(e, i) /\ Argument(e, i)' = Argument(e, i)
        <5>1. i \in Nat /\ i >= 1
          BY <2>2
        <5>2. value'[e][i] = Argument(e, i)
          BY <3>1
        <5>. QED  BY <5>1, <5>2, <2>1
      <4>2. IsDecorated(i) => /\ PipeStepsOf(i) \in Seq(PipeSteps)
                              /\ SubSeq(PipeStepsOf(i), 1, 0) = <<>> /\ 0 <= Len(PipeStepsOf(i))
        BY ParametersAreTyped DEF PipesTypeOK
      <4>3. IsDecorated(i) => ThroughSteps(SubSeq(PipeStepsOf(i), 1, 0), Argument(e, i)) = Argument(e, i)
        BY <4>2, ThroughNoStep
      <4>. QED  BY <2>1, <3>5, <4>1, <4>2, <4>3 DEF ArgumentSoFar
    <3>7. ArgumentsSoFar(e)'
      BY <2>1, <3>3, <3>5, <3>6 DEF ArgumentsSoFar
    <3>. QED  BY <3>4, <3>7
  <2>7. CASE ProcessHole(e)
    <3>1. PipesTypeOK'
      BY <2>7 DEF ProcessHole, Fails, PipesTypeOK, PipeErrors
    <3>2. state'[e] = "TypeError"
      BY <2>7 DEF ProcessHole, Fails, PipesTypeOK
    <3>. QED  BY <3>1, <3>2 DEF ArgumentsSoFar
  <2>8. CASE ProcessStep(e)
    <3>. DEFINE i == position[e][1]
                n == position[e][2]
                step == PipeStepsOf(i)[n + 1]
                result == Execute(step, value[e][i])
    <3>1. /\ i \in 1 .. LastDecorated /\ i \in Nat /\ n \in Nat /\ IsDecorated(i) /\ state[e] = "piping"
          /\ n + 1 <= Len(PipeStepsOf(i))
      BY <2>8, <2>2 DEF ProcessStep, Piping, PipesTypeOK
    <3>2. PipeStepsOf(i) \in Seq(PipeSteps)
      BY <3>1, ParametersAreTyped DEF PipesTypeOK
    <3>3. Len(value[e]) = LastDecorated /\ \A k \in 1 .. LastDecorated : ArgumentSoFar(e, k)
      BY <3>1 DEF ArgumentsSoFar
    <3>4. step \in PipeSteps /\ value[e] \in Seq(PipeValues) /\ value[e][i] \in PipeValues
      BY <3>1, <3>2, <3>3 DEF PipesTypeOK
    <3>5. IF result.type = "error" THEN Fails(e, result.error)
          ELSE /\ value' = [value EXCEPT ![e][i] = result]
               /\ position' = [position EXCEPT ![e] = <<i, n + 1>>]
               /\ UNCHANGED state
      BY <2>8 DEF ProcessStep
    <3>6. CASE result.type = "error"
      <4>1. result.error \in PipeErrors
        BY <3>4, <3>6, ExecuteReturns, ValuesAreNoErrors, ErrorsAreErrors DEF IsResult
      <4>2. Fails(e, result.error)
        BY <3>5, <3>6
      <4>. HIDE DEF result
      <4>3. PipesTypeOK' /\ state'[e] \in PipeErrors
        BY <4>1, <4>2, <2>0 DEF Fails, PipesTypeOK
      <4>4. ArgumentsSoFar(e)'
        BY <4>3 DEF ArgumentsSoFar, PipeErrors
      <4>. QED  BY <4>3, <4>4
    <3>7. CASE result.type # "error"
      <4>1. result \in PipeValues /\ Apply(value[e][i], step) = result
        BY <3>4, <3>7, AcceptedIsApplied
      <4>2. /\ value' = [value EXCEPT ![e][i] = result]
            /\ position' = [position EXCEPT ![e] = <<i, n + 1>>]
            /\ UNCHANGED state
        BY <3>5, <3>7
      <4>3. value[e][i] = ThroughSteps(SubSeq(PipeStepsOf(i), 1, n), Argument(e, i))
        BY <3>1, <3>3 DEF ArgumentSoFar
      <4>4. result = ThroughSteps(SubSeq(PipeStepsOf(i), 1, n + 1), Argument(e, i))
        BY <3>1, <3>2, <4>1, <4>3, ThroughTheNext
      <4>. HIDE DEF result, i, n, step
      <4>5. /\ value'[e] = [value[e] EXCEPT ![i] = result]
            /\ position'[e] = <<i, n + 1>> /\ state'[e] = state[e]
        BY <4>2 DEF PipesTypeOK
      <4>6. /\ value'[e] \in Seq(PipeValues) /\ Len(value'[e]) = LastDecorated
            /\ value'[e][i] = result /\ \A k \in 1 .. LastDecorated : k # i => value'[e][k] = value[e][k]
        BY <4>5, <4>1, <3>1, <3>3, <3>4, <2>2
      <4>7. PipesTypeOK'
        BY <2>0, <3>1, <4>2, <4>6 DEF PipesTypeOK
      <4>8. ASSUME NEW k \in 1 .. LastDecorated PROVE ArgumentSoFar(e, k)'
        <5>1. k \in Nat /\ ArgumentSoFar(e, k) /\ position[e][1] = i
          BY <3>3, <2>2 DEF i
        <5>2. CASE k = i
          BY <2>1, <3>1, <4>4, <4>5, <4>6, <5>1, <5>2 DEF ArgumentSoFar
        <5>3. CASE k # i
          BY <2>1, <3>1, <4>5, <4>6, <5>1, <5>3 DEF ArgumentSoFar
        <5>. QED  BY <5>2, <5>3
      <4>9. ArgumentsSoFar(e)'
        BY <2>1, <3>1, <4>5, <4>6, <4>8 DEF ArgumentsSoFar
      <4>. QED  BY <4>7, <4>9
    <3>. QED  BY <3>6, <3>7
  <2>9. CASE NextParameter(e)
    <3>. DEFINE i == position[e][1]
    <3>1. /\ i \in 1 .. LastDecorated /\ i \in Nat /\ IsDecorated(i) /\ state[e] = "piping"
          /\ position[e][2] = Len(PipeStepsOf(i))
      BY <2>9, <2>2 DEF NextParameter, Piping, PipesTypeOK
    <3>2. position'[e] = <<i + 1, 0>> /\ state'[e] = "piping" /\ value'[e] = value[e]
      BY <2>9, <3>1 DEF NextParameter, PipesTypeOK
    <3>3. PipesTypeOK'
      BY <2>9, <3>1 DEF NextParameter, PipesTypeOK
    <3>4. Len(value[e]) = LastDecorated /\ \A k \in 1 .. LastDecorated : ArgumentSoFar(e, k)
      BY <3>1 DEF ArgumentsSoFar
    <3>5. ASSUME NEW k \in 1 .. LastDecorated PROVE ArgumentSoFar(e, k)'
      <4>1. k \in Nat /\ ArgumentSoFar(e, k) /\ Argument(e, k)' = Argument(e, k)
        BY <2>1, <2>2, <3>4
      <4>2. IsDecorated(k) => PipeStepsOf(k) \in Seq(PipeSteps)
        BY ParametersAreTyped DEF PipesTypeOK
      <4>. HIDE DEF i
      <4>3. CASE k = i
        <5>1. SubSeq(PipeStepsOf(k), 1, Len(PipeStepsOf(k))) = PipeStepsOf(k)
          BY <3>1, <4>2, <4>3
        <5>2. value[e][k] = ThroughSteps(PipeStepsOf(k), Argument(e, k))
          BY <3>1, <4>1, <4>3, <5>1 DEF ArgumentSoFar, i
        <5>. QED  BY <2>1, <3>1, <3>2, <4>1, <4>3, <5>2 DEF ArgumentSoFar
      <4>4. CASE k = i + 1
        <5>1. value[e][k] = Argument(e, k)
          BY <3>1, <4>1, <4>4 DEF ArgumentSoFar, i
        <5>2. IsDecorated(k) => SubSeq(PipeStepsOf(k), 1, 0) = <<>> /\ 0 <= Len(PipeStepsOf(k))
          BY <4>2
        <5>3. IsDecorated(k) => ThroughSteps(SubSeq(PipeStepsOf(k), 1, 0), Argument(e, k)) = Argument(e, k)
          BY <5>2, ThroughNoStep
        <5>. QED  BY <2>1, <3>1, <3>2, <4>1, <4>4, <5>1, <5>2, <5>3 DEF ArgumentSoFar
      <4>5. CASE k \notin {i, i + 1}
        <5>1. position[e][1] = i
          BY DEF i
        <5>2. (k < i + 1 => k < i) /\ (k > i + 1 => k > i) /\ k # i + 1
          BY <3>1, <4>1, <4>5
        <5>. QED  BY <2>1, <3>1, <3>2, <4>1, <5>1, <5>2 DEF ArgumentSoFar
      <4>. QED  BY <4>3, <4>4, <4>5
    <3>6. ArgumentsSoFar(e)'
      BY <2>1, <3>2, <3>4, <3>5 DEF ArgumentsSoFar
    <3>. QED  BY <3>3, <3>6
  <2>10. CASE InvokeHandler(e)
    <3>1. /\ state[e] = "piping" /\ position[e][1] > LastDecorated /\ state'[e] = "invoked"
          /\ position' = position /\ value' = value
      BY <2>10 DEF InvokeHandler, PipesTypeOK
    <3>2. PipesTypeOK'
      BY <2>10 DEF InvokeHandler, PipesTypeOK
    <3>3. \A k \in 1 .. LastDecorated : ArgumentSoFar(e, k)'
      BY <2>0, <3>1 DEF ArgumentsSoFar, ArgumentSoFar, IsDecorated, PipeStepsOf, Argument
    <3>4. ArgumentsSoFar(e)'
      BY <2>1, <3>1, <3>3 DEF ArgumentsSoFar
    <3>. QED  BY <3>2, <3>4
  <2>. QED  BY <1>2, <2>6, <2>7, <2>8, <2>9, <2>10 DEF Run
<1>. QED  BY <1>1, <1>2 DEF PipesNext

\* A handler is invoked with the arguments of its own request, through the steps
\* of the class, the method and the parameter.
LEMMA InvokedWithItsArguments == PipesAssumptions /\ PipesInv => HandlerGetsItsArguments
<1>. SUFFICES ASSUME PipesAssumptions, PipesInv, NEW e \in Executions, state[e] = "invoked",
                     NEW i \in 1 .. LastDecorated
              PROVE  LET p == handler.parameters[i] IN
                     value[e][i] = ThroughSteps(p.steps, ThroughSteps(handler.methodPipes,
                                       ThroughSteps(handler.classPipes, requests[e][p.field])))
  BY DEF HandlerGetsItsArguments
<1>0. \A s, t \in Seq(PipeSteps) : \A x : ThroughSteps(s \o t, x) = ThroughSteps(t, ThroughSteps(s, x))
  BY ThroughBoth
<1>. USE DEF PipesInv, PipesTypeOK
<1>1. LastDecorated \in Nat
  BY LastDecoratedBounds
<1>2. IsDecorated(i) /\ value[e][i] = ThroughSteps(PipeStepsOf(i), Argument(e, i))
  BY <1>1 DEF ArgumentsSoFar, ArgumentSoFar
<1>. DEFINE p == handler.parameters[i]
            v == requests[e][p.field]
<1>3. i \in DOMAIN handler.parameters
  BY LastDecoratedBounds DEF PipesAssumptions
<1>4. /\ handler.classPipes \in Seq(PipeSteps) /\ handler.methodPipes \in Seq(PipeSteps)
      /\ p.steps \in Seq(PipeSteps)
  BY <1>2, <1>3 DEF PipesAssumptions, IsDecorated
<1>5. Argument(e, i) = v /\ PipeStepsOf(i) = (handler.classPipes \o handler.methodPipes) \o p.steps
  BY <1>2, <1>4 DEF Argument, PipeStepsOf
<1>. HIDE DEF p, v
<1>6. handler.classPipes \o handler.methodPipes \in Seq(PipeSteps)
  BY <1>4
<1>7. ThroughSteps((handler.classPipes \o handler.methodPipes) \o p.steps, v)
        = ThroughSteps(p.steps, ThroughSteps(handler.classPipes \o handler.methodPipes, v))
  BY <1>0, <1>4, <1>6
<1>8. ThroughSteps(handler.classPipes \o handler.methodPipes, v)
        = ThroughSteps(handler.methodPipes, ThroughSteps(handler.classPipes, v))
  BY <1>0, <1>4
<1>. QED  BY <1>2, <1>5, <1>7, <1>8 DEF p, v

THEOREM HandlerGetsItsArgumentsCorrect == PipesSpec => []HandlerGetsItsArguments
<1>1. PipesInit => PipesInv
  BY PipesAssumptions, PipesInitially
<1>2. PipesInv /\ [PipesNext]_pipesVars => PipesInv'
  BY PipesAssumptions, PipesStep
<1>3. PipesInv => HandlerGetsItsArguments
  BY PipesAssumptions, InvokedWithItsArguments
<1>. QED  BY <1>1, <1>2, <1>3, PTL DEF PipesSpec
==============================================================================
