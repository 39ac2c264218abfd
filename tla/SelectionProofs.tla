---------------------------- MODULE SelectionProofs ----------------------------
(***************************************************************************)
(* Lemmas about Select, Flat, Split and Join, and the induction they are   *)
(* proved by: one over a set of numbers, or of sequences, that is shown to *)
(* be all of them.                                                         *)
(***************************************************************************)
EXTENDS Selection, SequenceTheorems, WellFoundedInduction, TLAPS

-----------------------------------------------------------------------------
(* Induction.                                                              *)

Smaller == {p \in Nat \X Nat : p[1] < p[2]}

LEMMA SmallerIsWellFounded == IsWellFoundedOn(Smaller, Nat)
BY NatLessThanWellFounded DEF OpToRel, Smaller

LEMMA LeastExists ==
    ASSUME NEW T \in SUBSET Nat, T # {}
    PROVE  \E x \in T : \A y \in T : x <= y
<1>1. PICK x \in T : \A y \in T : <<y, x>> \notin Smaller
  BY SmallerIsWellFounded, WFMin
<1>2. \A y \in T : ~(y < x)
  BY <1>1 DEF Smaller
<1>. QED  BY <1>2

LEMMA NumberInduction ==
    ASSUME NEW T \in SUBSET Nat, 0 \in T, \A n \in T : n + 1 \in T
    PROVE  T = Nat
<1>. DEFINE U == Nat \ T
<1>1. SUFFICES ASSUME U # {} PROVE FALSE
  OBVIOUS
<1>2. PICK x \in U : \A y \in U : <<y, x>> \notin Smaller
  <2>1. U \subseteq Nat
    OBVIOUS
  <2>. HIDE DEF U
  <2>. QED  BY <1>1, <2>1, SmallerIsWellFounded, WFMin
<1>3. x \in Nat /\ x # 0 /\ x - 1 \in Nat /\ (x - 1) + 1 = x
  OBVIOUS
<1>4. <<x - 1, x>> \in Smaller
  BY <1>3 DEF Smaller
<1>5. x - 1 \in T
  BY <1>2, <1>3, <1>4
<1>6. (x - 1) + 1 \in T
  BY <1>5
<1>. QED  BY <1>3, <1>6

LEMMA SequenceInduction ==
    ASSUME NEW S, NEW T \in SUBSET Seq(S), <<>> \in T,
           \A s \in T, x \in S : Append(s, x) \in T
    PROVE  T = Seq(S)
<1>. DEFINE N == {n \in Nat : \A s \in Seq(S) : Len(s) = n => s \in T}
<1>1. 0 \in N
  <2>1. \A s \in Seq(S) : Len(s) = 0 => s = <<>>
    OBVIOUS
  <2>. QED  BY <2>1
<1>2. ASSUME NEW n \in N PROVE n + 1 \in N
  <2>. SUFFICES ASSUME NEW s \in Seq(S), Len(s) = n + 1 PROVE s \in T
    OBVIOUS
  <2>1. s # <<>>
    OBVIOUS
  <2>2. PICK t \in Seq(S), x \in S : s = Append(t, x)
    BY <2>1, SequenceEmptyOrAppend
  <2>3. Len(t) = n
    BY <2>2, AppendProperties, LenProperties
  <2>. QED  BY <2>2, <2>3
<1>3. N \in SUBSET Nat
  OBVIOUS
<1>. HIDE DEF N
<1>4. N = Nat
  BY <1>1, <1>2, <1>3, NumberInduction
<1>5. ASSUME NEW s \in Seq(S) PROVE s \in T
  <2>1. Len(s) \in N
    BY <1>4, LenProperties
  <2>. QED  BY <2>1 DEF N
<1>. QED  BY <1>5

-----------------------------------------------------------------------------
(* Select.                                                                 *)

\* f has the selections from the first elements of s, up to the m-th.
IsSelection(f, s, I, m) ==
    f = [n \in 0 .. m |-> IF n = 0 THEN <<>> ELSE IF n \in I THEN Append(f[n - 1], s[n]) ELSE f[n - 1]]

LEMMA SelectionExists ==
    ASSUME NEW S, NEW s \in Seq(S), NEW I
    PROVE  \E f : IsSelection(f, s, I, Len(s))
<1>. DEFINE T == {m \in Nat : \E f : IsSelection(f, s, I, m)}
<1>1. 0 \in T
  <2>. DEFINE f == [n \in 0 .. 0 |-> <<>>]
  <2>1. IsSelection(f, s, I, 0)
    BY DEF IsSelection
  <2>. QED  BY <2>1
<1>2. ASSUME NEW m \in T PROVE m + 1 \in T
  <2>1. PICK f : IsSelection(f, s, I, m)
    OBVIOUS
  <2>. DEFINE g == [n \in 0 .. m + 1 |->
                      IF n = m + 1 THEN IF n \in I THEN Append(f[m], s[n]) ELSE f[m] ELSE f[n]]
  <2>2. \A n \in 0 .. m : g[n] = f[n]
    OBVIOUS
  <2>3. \A n \in 0 .. m : f[n] = IF n = 0 THEN <<>> ELSE IF n \in I THEN Append(f[n - 1], s[n]) ELSE f[n - 1]
    BY <2>1 DEF IsSelection
  <2>4. \A n \in 0 .. m + 1 :
            g[n] = IF n = 0 THEN <<>> ELSE IF n \in I THEN Append(g[n - 1], s[n]) ELSE g[n - 1]
    <3>. SUFFICES ASSUME NEW n \in 0 .. m + 1
                  PROVE  g[n] = IF n = 0 THEN <<>> ELSE IF n \in I THEN Append(g[n - 1], s[n]) ELSE g[n - 1]
      OBVIOUS
    <3>1. CASE n = m + 1
      <4>1. n # 0 /\ n - 1 = m /\ g[n - 1] = f[m]
        BY <3>1, <2>2
      <4>2. g[n] = IF n \in I THEN Append(f[m], s[n]) ELSE f[m]
        BY <3>1
      <4>. QED  BY <4>1, <4>2
    <3>2. CASE n \in 0 .. m
      <4>1. n = 0 \/ n - 1 \in 0 .. m
        BY <3>2
      <4>2. g[n] = f[n] /\ (n # 0 => g[n - 1] = f[n - 1])
        BY <2>2, <3>2, <4>1
      <4>. HIDE DEF g
      <4>. QED  BY <2>3, <3>2, <4>2
    <3>. QED  BY <3>1, <3>2
  <2>5. g = [n \in 0 .. m + 1 |-> g[n]]
    OBVIOUS
  <2>. HIDE DEF g
  <2>6. IsSelection(g, s, I, m + 1)
    BY <2>4, <2>5 DEF IsSelection
  <2>. QED  BY <2>6
<1>3. T \in SUBSET Nat
  OBVIOUS
<1>. HIDE DEF T
<1>4. Len(s) \in T
  BY <1>1, <1>2, <1>3, NumberInduction, LenProperties
<1>. QED  BY <1>4 DEF T

\* The steps of the recursion, to reason about instead of its definition.
LEMMA SelectSteps ==
    ASSUME NEW S, NEW s \in Seq(S), NEW I
    PROVE  \E f : /\ Select(s, I) = f[Len(s)] /\ f[0] = <<>>
                  /\ \A n \in 1 .. Len(s) : f[n] = IF n \in I THEN Append(f[n - 1], s[n]) ELSE f[n - 1]
<1>. DEFINE g == CHOOSE f : IsSelection(f, s, I, Len(s))
<1>1. IsSelection(g, s, I, Len(s))
  BY SelectionExists
<1>2. Select(s, I) = g[Len(s)]
  BY Zenon DEF Select, IsSelection
<1>. HIDE DEF g
<1>3. Len(s) \in Nat
  OBVIOUS
<1>4. g[0] = <<>> /\ \A n \in 1 .. Len(s) : g[n] = IF n \in I THEN Append(g[n - 1], s[n]) ELSE g[n - 1]
  <2>1. PICK m \in Nat : m = Len(s)
    BY <1>3
  <2>2. \A n \in 0 .. m : g[n] = IF n = 0 THEN <<>> ELSE IF n \in I THEN Append(g[n - 1], s[n]) ELSE g[n - 1]
    BY <1>1, <2>1 DEF IsSelection
  <2>. QED  BY <2>1, <2>2
<1>. QED  BY <1>2, <1>4

LEMMA SelectEmpty ==
    ASSUME NEW I PROVE Select(<<>>, I) = <<>>
<1>1. PICK s : s = <<>>
  OBVIOUS
<1>2. s \in Seq({}) /\ Len(s) = 0
  BY <1>1
<1>3. PICK f : /\ Select(s, I) = f[Len(s)] /\ f[0] = <<>>
               /\ \A n \in 1 .. Len(s) : f[n] = IF n \in I THEN Append(f[n - 1], s[n]) ELSE f[n - 1]
  <2>1. s \in Seq({})
    BY <1>2
  <2>. QED  BY <2>1, SelectSteps
<1>. QED  BY <1>1, <1>2, <1>3

\* The selection from a longer sequence, of which I and J keep the same first places.
LEMMA SelectAppend ==
    ASSUME NEW S, NEW s \in Seq(S), NEW x \in S, NEW I, NEW J,
           \A i \in 1 .. Len(s) : i \in I <=> i \in J
    PROVE  Select(Append(s, x), I) = IF Len(s) + 1 \in I THEN Append(Select(s, J), x) ELSE Select(s, J)
<1>0. PICK t : t = Append(s, x)
  OBVIOUS
<1>1. PICK n \in Nat : n = Len(s)
  OBVIOUS
<1>2. t \in Seq(S) /\ Len(t) = n + 1 /\ t[n + 1] = x /\ \A i \in 1 .. n : t[i] = s[i]
  BY <1>0, <1>1, AppendProperties
<1>3. PICK f : /\ Select(t, I) = f[n + 1] /\ f[0] = <<>>
               /\ \A i \in 1 .. n + 1 : f[i] = IF i \in I THEN Append(f[i - 1], t[i]) ELSE f[i - 1]
  <2>1. PICK f : /\ Select(t, I) = f[Len(t)] /\ f[0] = <<>>
                 /\ \A i \in 1 .. Len(t) : f[i] = IF i \in I THEN Append(f[i - 1], t[i]) ELSE f[i - 1]
    <3>1. t \in Seq(S)
      BY <1>2
    <3>. QED  BY <3>1, SelectSteps
  <2>. QED  BY <1>2, <2>1
<1>4. PICK g : /\ Select(s, J) = g[n] /\ g[0] = <<>>
               /\ \A i \in 1 .. n : g[i] = IF i \in J THEN Append(g[i - 1], s[i]) ELSE g[i - 1]
  BY <1>1, SelectSteps
<1>. DEFINE T == {m \in Nat : m <= n => f[m] = g[m]}
<1>5. 0 \in T
  BY <1>3, <1>4
<1>6. ASSUME NEW m \in T PROVE m + 1 \in T
  <2>. SUFFICES ASSUME m + 1 <= n PROVE f[m + 1] = g[m + 1]
    OBVIOUS
  <2>1. PICK i \in 1 .. n : i = m + 1
    BY <1>1
  <2>2. i - 1 = m /\ i \in 1 .. n + 1 /\ f[m] = g[m]
    BY <1>1, <2>1
  <2>3. f[i] = IF i \in I THEN Append(f[i - 1], t[i]) ELSE f[i - 1]
    BY <1>3, <2>2
  <2>4. g[i] = IF i \in J THEN Append(g[i - 1], s[i]) ELSE g[i - 1]
    BY <1>4, <2>1
  <2>5. t[i] = s[i] /\ (i \in I <=> i \in J)
    BY <1>1, <1>2, <2>1
  <2>. QED  BY <2>1, <2>2, <2>3, <2>4, <2>5
<1>7. T \in SUBSET Nat
  OBVIOUS
<1>. HIDE DEF T
<1>8. n \in T
  BY <1>5, <1>6, <1>7, NumberInduction
<1>9. f[n] = g[n]
  BY <1>8 DEF T
<1>10. f[n + 1] = IF n + 1 \in I THEN Append(f[n], t[n + 1]) ELSE f[n]
  <2>1. PICK i \in 1 .. n + 1 : i = n + 1 /\ i - 1 = n
    BY <1>1
  <2>2. f[i] = IF i \in I THEN Append(f[i - 1], t[i]) ELSE f[i - 1]
    BY <1>3
  <2>. QED  BY <2>1, <2>2
<1>. QED  BY <1>0, <1>1, <1>2, <1>3, <1>4, <1>9, <1>10

\* A selection has the elements at its places, and those only, in their order.
LEMMA SelectPlaces ==
    ASSUME NEW S, NEW s \in Seq(S), NEW I
    PROVE  /\ Select(s, I) \in Seq(S)
           /\ \E g \in [1 .. Len(Select(s, I)) -> (1 .. Len(s)) \cap I] :
                /\ \A k \in 1 .. Len(Select(s, I)) : Select(s, I)[k] = s[g[k]]
                /\ \A j, k \in 1 .. Len(Select(s, I)) : j < k => g[j] < g[k]
                /\ \A i \in (1 .. Len(s)) \cap I : \E k \in 1 .. Len(Select(s, I)) : g[k] = i
<1>. DEFINE Places(m, t) ==
              /\ t \in Seq(S)
              /\ \E g \in [1 .. Len(t) -> (1 .. m) \cap I] :
                    /\ \A k \in 1 .. Len(t) : t[k] = s[g[k]]
                    /\ \A j, k \in 1 .. Len(t) : j < k => g[j] < g[k]
                    /\ \A i \in (1 .. m) \cap I : \E k \in 1 .. Len(t) : g[k] = i
<1>1. PICK n \in Nat : n = Len(s)
  OBVIOUS
<1>2. \A i \in 1 .. n : s[i] \in S
  BY <1>1
<1>3. PICK f : /\ Select(s, I) = f[n] /\ f[0] = <<>>
               /\ \A i \in 1 .. n : f[i] = IF i \in I THEN Append(f[i - 1], s[i]) ELSE f[i - 1]
  BY <1>1, SelectSteps
<1>. DEFINE T == {m \in Nat : m <= n => Places(m, f[m])}
<1>4. 0 \in T
  <2>1. PICK t : t = f[0]
    OBVIOUS
  <2>2. t \in Seq(S) /\ Len(t) = 0 /\ 1 .. Len(t) = {} /\ 1 .. 0 = {}
    BY <1>3, <2>1
  <2>3. PICK g : g = [k \in {} |-> k]
    OBVIOUS
  <2>4. g \in [1 .. Len(t) -> (1 .. 0) \cap I]
    BY <2>2, <2>3
  <2>5. Places(0, t)
    BY <2>2, <2>4
  <2>. HIDE DEF Places
  <2>. QED  BY <2>1, <2>5
<1>5. ASSUME NEW m \in T PROVE m + 1 \in T
  <2>. SUFFICES ASSUME m + 1 <= n PROVE Places(m + 1, f[m + 1])
    OBVIOUS
  <2>1. m \in Nat /\ m + 1 \in 1 .. n /\ (m + 1) - 1 = m
    BY <1>1
  <2>2. Places(m, f[m])
    BY <2>1
  <2>3. PICK t : t = f[m]
    OBVIOUS
  <2>4. t \in Seq(S)
    BY <2>2, <2>3
  <2>5. PICK g \in [1 .. Len(t) -> (1 .. m) \cap I] :
              /\ \A k \in 1 .. Len(t) : t[k] = s[g[k]]
              /\ \A j, k \in 1 .. Len(t) : j < k => g[j] < g[k]
              /\ \A i \in (1 .. m) \cap I : \E k \in 1 .. Len(t) : g[k] = i
    BY <2>2, <2>3
  <2>6. f[m + 1] = IF m + 1 \in I THEN Append(t, s[m + 1]) ELSE t
    BY <1>3, <2>1, <2>3
  <2>7. CASE m + 1 \in I
    <3>1. PICK u : u = Append(t, s[m + 1])
      OBVIOUS
    <3>2. /\ u \in Seq(S) /\ Len(t) \in Nat /\ Len(u) = Len(t) + 1
          /\ u[Len(t) + 1] = s[m + 1] /\ \A k \in 1 .. Len(t) : u[k] = t[k]
      BY <1>2, <2>1, <2>4, <3>1
    <3>a. PICK l \in Nat : l = Len(t)
      BY <3>2
    <3>b. Len(u) = l + 1 /\ u[l + 1] = s[m + 1] /\ \A k \in 1 .. l : u[k] = t[k]
      BY <3>2, <3>a
    <3>c. /\ \A k \in 1 .. l : g[k] \in 1 .. m /\ g[k] \in I /\ t[k] = s[g[k]]
          /\ \A j, k \in 1 .. l : j < k => g[j] < g[k]
          /\ \A i \in (1 .. m) \cap I : \E k \in 1 .. l : g[k] = i
      BY <2>5, <3>a
    <3>3. PICK h : h = [k \in 1 .. l + 1 |-> IF k = l + 1 THEN m + 1 ELSE g[k]]
      OBVIOUS
    <3>4. h[l + 1] = m + 1 /\ \A k \in 1 .. l : h[k] = g[k]
      BY <3>3
    <3>d. \A k \in 1 .. l + 1 : h[k] \in 1 .. m + 1 /\ h[k] \in I
      BY <2>1, <2>7, <3>c, <3>4
    <3>5. h \in [1 .. l + 1 -> (1 .. m + 1) \cap I]
      BY <3>3, <3>d
    <3>6. \A k \in 1 .. l + 1 : u[k] = s[h[k]]
      <4>. SUFFICES ASSUME NEW k \in 1 .. l + 1 PROVE u[k] = s[h[k]]
        OBVIOUS
      <4>1. CASE k = l + 1
        BY <3>b, <3>4, <4>1
      <4>2. CASE k \in 1 .. l
        BY <3>b, <3>c, <3>4, <4>2
      <4>. QED  BY <4>1, <4>2
    <3>7. \A j, k \in 1 .. l + 1 : j < k => h[j] < h[k]
      <4>. SUFFICES ASSUME NEW j \in 1 .. l + 1, NEW k \in 1 .. l + 1, j < k PROVE h[j] < h[k]
        OBVIOUS
      <4>1. j \in 1 .. l /\ h[j] = g[j] /\ g[j] \in 1 .. m
        BY <3>c, <3>4
      <4>2. CASE k = l + 1
        BY <2>1, <3>4, <4>1, <4>2
      <4>3. CASE k \in 1 .. l
        BY <3>c, <3>4, <4>1, <4>3
      <4>. QED  BY <4>2, <4>3
    <3>8. \A i \in (1 .. m + 1) \cap I : \E k \in 1 .. l + 1 : h[k] = i
      <4>. SUFFICES ASSUME NEW i \in (1 .. m + 1) \cap I PROVE \E k \in 1 .. l + 1 : h[k] = i
        OBVIOUS
      <4>1. CASE i = m + 1
        BY <3>4, <4>1
      <4>2. CASE i \in 1 .. m
        <5>1. PICK k \in 1 .. l : g[k] = i
          BY <3>c, <4>2
        <5>2. k \in 1 .. l + 1 /\ h[k] = i
          BY <3>4, <5>1
        <5>. QED  BY <5>2
      <4>. QED  BY <2>1, <4>1, <4>2
    <3>9. Places(m + 1, u)
      <4>1. PICK N : N = 1 .. l + 1 /\ N = 1 .. Len(u)
        BY <3>b
      <4>2. /\ h \in [N -> (1 .. m + 1) \cap I]
            /\ \A k \in N : u[k] = s[h[k]]
            /\ \A j, k \in N : j < k => h[j] < h[k]
            /\ \A i \in (1 .. m + 1) \cap I : \E k \in N : h[k] = i
        BY <3>5, <3>6, <3>7, <3>8, <4>1
      <4>3. 1 .. Len(u) = N
        BY <4>1
      <4>4. h \in [1 .. Len(u) -> (1 .. m + 1) \cap I]
        BY <4>2, <4>3
      <4>5. \A k \in 1 .. Len(u) : u[k] = s[h[k]]
        BY <4>2, <4>3
      <4>6. \A j, k \in 1 .. Len(u) : j < k => h[j] < h[k]
        BY <4>2, <4>3
      <4>7. \A i \in (1 .. m + 1) \cap I : \E k \in 1 .. Len(u) : h[k] = i
        BY <4>2, <4>3
      <4>. QED  BY <3>2, <4>4, <4>5, <4>6, <4>7
    <3>. HIDE DEF Places
    <3>. QED  BY <2>6, <2>7, <3>1, <3>9
  <2>8. CASE m + 1 \notin I
    <3>1. (1 .. m + 1) \cap I = (1 .. m) \cap I
      BY <2>1, <2>8
    <3>2. Places(m + 1, t)
      BY <2>4, <2>5, <3>1
    <3>. HIDE DEF Places
    <3>. QED  BY <2>6, <2>8, <3>2
  <2>. QED  BY <2>7, <2>8
<1>6. T \in SUBSET Nat
  OBVIOUS
<1>. HIDE DEF T
<1>7. T = Nat
  BY <1>4, <1>5, <1>6, NumberInduction
<1>8. Places(n, f[n])
  <2>. HIDE DEF Places
  <2>. QED  BY <1>7 DEF T
<1>9. PICK t : t = Select(s, I)
  OBVIOUS
<1>10. Places(Len(s), t)
  <2>. HIDE DEF Places
  <2>. QED  BY <1>1, <1>3, <1>8, <1>9
<1>. QED  BY <1>9, <1>10

\* What a selection has, without its order.
LEMMA SelectHas ==
    ASSUME NEW S, NEW s \in Seq(S), NEW I
    PROVE  /\ Select(s, I) \in Seq(S)
           /\ \A k \in DOMAIN Select(s, I) : \E i \in DOMAIN s \cap I : Select(s, I)[k] = s[i]
           /\ \A i \in DOMAIN s \cap I : \E k \in DOMAIN Select(s, I) : Select(s, I)[k] = s[i]
<1>1. PICK t : t = Select(s, I)
  OBVIOUS
<1>2. t \in Seq(S)
  BY <1>1, SelectPlaces
<1>3. PICK M, L : M = 1 .. Len(s) /\ L = 1 .. Len(t) /\ DOMAIN s = M /\ DOMAIN t = L
  BY <1>2
<1>4. PICK g \in [L -> M \cap I] :
        /\ \A k \in L : t[k] = s[g[k]]
        /\ \A i \in M \cap I : \E k \in L : g[k] = i
  BY <1>1, <1>3, SelectPlaces
<1>5. \A k \in L : g[k] \in M \cap I
  OBVIOUS
<1>6. /\ \A k \in L : \E i \in M \cap I : t[k] = s[i]
      /\ \A i \in M \cap I : \E k \in L : t[k] = s[i]
  BY <1>4, <1>5
<1>. QED  BY <1>1, <1>2, <1>3, <1>6

-----------------------------------------------------------------------------
(* Flat.                                                                   *)

\* f has the first n sequences of s one after the other.
IsFlat(f, s, n) == f = [m \in 0 .. n |-> IF m = 0 THEN <<>> ELSE f[m - 1] \o s[m]]

LEMMA FlatExists ==
    ASSUME NEW s, NEW n \in Nat
    PROVE  \E f : IsFlat(f, s, n)
<1>. DEFINE T == {m \in Nat : \E f : IsFlat(f, s, m)}
<1>1. 0 \in T
  <2>. DEFINE f == [m \in 0 .. 0 |-> <<>>]
  <2>1. IsFlat(f, s, 0)
    BY DEF IsFlat
  <2>. QED  BY <2>1
<1>2. ASSUME NEW m \in T PROVE m + 1 \in T
  <2>1. PICK f : IsFlat(f, s, m)
    OBVIOUS
  <2>. DEFINE g == [k \in 0 .. m + 1 |-> IF k = m + 1 THEN f[m] \o s[k] ELSE f[k]]
  <2>2. \A k \in 0 .. m : g[k] = f[k]
    OBVIOUS
  <2>3. \A k \in 0 .. m : f[k] = IF k = 0 THEN <<>> ELSE f[k - 1] \o s[k]
    BY <2>1 DEF IsFlat
  <2>4. ASSUME NEW k \in 0 .. m + 1
        PROVE  g[k] = IF k = 0 THEN <<>> ELSE g[k - 1] \o s[k]
    <3>1. CASE k = m + 1
      <4>1. k # 0 /\ k - 1 = m /\ g[k - 1] = f[m]
        BY <3>1, <2>2
      <4>2. g[k] = f[m] \o s[k]
        BY <3>1
      <4>. QED  BY <4>1, <4>2
    <3>2. CASE k \in 0 .. m
      <4>1. k = 0 \/ k - 1 \in 0 .. m
        BY <3>2
      <4>2. g[k] = f[k] /\ (k # 0 => g[k - 1] = f[k - 1])
        BY <2>2, <3>2, <4>1
      <4>. HIDE DEF g
      <4>. QED  BY <2>3, <3>2, <4>2
    <3>. QED  BY <3>1, <3>2
  <2>5. g = [k \in 0 .. m + 1 |-> g[k]]
    OBVIOUS
  <2>. HIDE DEF g
  <2>6. IsFlat(g, s, m + 1)
    BY <2>4, <2>5 DEF IsFlat
  <2>. QED  BY <2>6
<1>3. T \in SUBSET Nat
  OBVIOUS
<1>. HIDE DEF T
<1>4. n \in T
  BY <1>1, <1>2, <1>3, NumberInduction
<1>. QED  BY <1>4 DEF T

LEMMA FlatHas ==
    ASSUME NEW S, NEW s \in Seq(Seq(S))
    PROVE  /\ Flat(s) \in Seq(S)
           /\ \A i \in DOMAIN s : \A j \in DOMAIN s[i] : \E k \in DOMAIN Flat(s) : Flat(s)[k] = s[i][j]
<1>1. PICK n \in Nat : n = Len(s) /\ DOMAIN s = 1 .. n
  OBVIOUS
<1>. DEFINE f == CHOOSE g : IsFlat(g, s, Len(s))
<1>2. IsFlat(f, s, n)
  BY <1>1, FlatExists
<1>3. Flat(s) = f[n]
  BY <1>1, Zenon DEF Flat, IsFlat
<1>. HIDE DEF f
<1>4. \A m \in 0 .. n : f[m] = IF m = 0 THEN <<>> ELSE f[m - 1] \o s[m]
  BY <1>2 DEF IsFlat
<1>. DEFINE Has(m, t) ==
              /\ t \in Seq(S)
              /\ \A i \in 1 .. m : \A j \in DOMAIN s[i] : \E k \in DOMAIN t : t[k] = s[i][j]
            T == {m \in Nat : m <= n => Has(m, f[m])}
<1>5. 0 \in T
  <2>1. f[0] = <<>> /\ 1 .. 0 = {}
    BY <1>4
  <2>2. Has(0, f[0])
    BY <2>1, EmptySeq
  <2>. HIDE DEF Has
  <2>. QED  BY <2>2
<1>6. ASSUME NEW m \in T PROVE m + 1 \in T
  <2>. SUFFICES ASSUME m + 1 <= n PROVE Has(m + 1, f[m + 1])
    OBVIOUS
  <2>1. m \in Nat /\ m + 1 \in 0 .. n /\ m + 1 \in 1 .. n /\ m + 1 # 0 /\ (m + 1) - 1 = m
    OBVIOUS
  <2>2. PICK t, u, v : t = f[m] /\ u = s[m + 1] /\ v = f[m + 1]
    OBVIOUS
  <2>3. v = t \o u
    <3>1. f[m + 1] = IF m + 1 = 0 THEN <<>> ELSE f[(m + 1) - 1] \o s[m + 1]
      BY <1>4, <2>1, Zenon
    <3>. QED  BY <2>1, <2>2, <3>1
  <2>4. t \in Seq(S) /\ u \in Seq(S) /\ Has(m, t)
    BY <1>1, <2>1, <2>2
  <2>5. /\ v \in Seq(S) /\ Len(v) = Len(t) + Len(u) /\ Len(t) \in Nat /\ Len(u) \in Nat
        /\ \A k \in 1 .. Len(t) : v[k] = t[k]
        /\ \A k \in 1 .. Len(u) : v[Len(t) + k] = u[k]
    BY <2>3, <2>4
  <2>6. ASSUME NEW i \in 1 .. m + 1, NEW j \in DOMAIN s[i] PROVE \E k \in DOMAIN v : v[k] = s[i][j]
    <3>1. DOMAIN v = 1 .. Len(v) /\ DOMAIN t = 1 .. Len(t) /\ DOMAIN u = 1 .. Len(u)
      BY <2>4, <2>5
    <3>2. CASE i = m + 1
      <4>1. j \in 1 .. Len(u) /\ s[i][j] = u[j]
        BY <2>2, <2>6, <3>1, <3>2
      <4>2. Len(t) + j \in 1 .. Len(v) /\ v[Len(t) + j] = u[j]
        BY <2>5, <4>1
      <4>. QED  BY <3>1, <4>1, <4>2
    <3>3. CASE i \in 1 .. m
      <4>1. PICK k \in DOMAIN t : t[k] = s[i][j]
        BY <2>4, <2>6, <3>3
      <4>2. k \in 1 .. Len(v) /\ v[k] = t[k]
        BY <2>5, <3>1, <4>1
      <4>. QED  BY <3>1, <4>1, <4>2
    <3>. QED  BY <2>1, <3>2, <3>3
  <2>. QED  BY <2>2, <2>5, <2>6
<1>7. T \in SUBSET Nat
  OBVIOUS
<1>. HIDE DEF T
<1>8. n \in T
  BY <1>5, <1>6, <1>7, NumberInduction
<1>9. Has(n, f[n])
  BY <1>8 DEF T
<1>. QED  BY <1>1, <1>3, <1>9

-----------------------------------------------------------------------------
(* Split and Join.                                                         *)

\* What is computed step by step exists, and is determined by its steps.
Computes(f, e, step, n, X) ==
    f \in [0 .. n -> X] /\ f[0] = e /\ \A k \in 1 .. n : f[k] = step[<<k, f[k - 1]>>]

LEMMA StepsExist ==
    ASSUME NEW X, NEW n \in Nat, NEW e \in X, NEW step \in [(1 .. n) \X X -> X]
    PROVE  \E f : Computes(f, e, step, n, X)
<1>. DEFINE T == {m \in Nat : m <= n => \E f : Computes(f, e, step, m, X)}
<1>1. 0 \in T
  <2>1. Computes([k \in 0 .. 0 |-> e], e, step, 0, X)
    BY DEF Computes
  <2>. QED  BY <2>1
<1>2. ASSUME NEW m \in T PROVE m + 1 \in T
  <2>. SUFFICES ASSUME m + 1 <= n PROVE \E f : Computes(f, e, step, m + 1, X)
    OBVIOUS
  <2>1. PICK f : Computes(f, e, step, m, X)
    OBVIOUS
  <2>. DEFINE g == [k \in 0 .. m + 1 |-> IF k = m + 1 THEN step[<<m + 1, f[m]>>] ELSE f[k]]
  <2>2. m + 1 \in 1 .. n /\ f[m] \in X
    BY <2>1 DEF Computes
  <2>3. step[<<m + 1, f[m]>>] \in X
    BY <2>2
  <2>4. g \in [0 .. m + 1 -> X]
    BY <2>1, <2>3 DEF Computes
  <2>5. g[0] = e
    BY <2>1 DEF Computes
  <2>6. ASSUME NEW k \in 1 .. m + 1 PROVE g[k] = step[<<k, g[k - 1]>>]
    <3>1. CASE k = m + 1
      <4>1. k - 1 = m /\ g[m] = f[m]
        BY <3>1
      <4>2. g[k] = step[<<m + 1, f[m]>>]
        BY <3>1
      <4>. HIDE DEF g
      <4>. QED  BY <3>1, <4>1, <4>2
    <3>2. CASE k \in 1 .. m
      <4>1. g[k] = f[k] /\ g[k - 1] = f[k - 1]
        BY <3>2
      <4>. QED  BY <2>1, <3>2, <4>1 DEF Computes
    <3>. QED  BY <3>1, <3>2
  <2>. HIDE DEF g
  <2>. QED  BY <2>4, <2>5, <2>6 DEF Computes
<1>3. T \in SUBSET Nat
  OBVIOUS
<1>. HIDE DEF T
<1>4. n \in T
  BY <1>1, <1>2, <1>3, NumberInduction
<1>. QED  BY <1>4 DEF T

LEMMA SameSteps ==
    ASSUME NEW n \in Nat, NEW f, NEW g, f[0] = g[0],
           \A k \in 1 .. n : f[k - 1] = g[k - 1] => f[k] = g[k]
    PROVE  f[n] = g[n]
<1>. DEFINE T == {m \in Nat : m <= n => f[m] = g[m]}
<1>1. 0 \in T
  OBVIOUS
<1>2. ASSUME NEW m \in T PROVE m + 1 \in T
  <2>. SUFFICES ASSUME m + 1 <= n PROVE f[m + 1] = g[m + 1]
    OBVIOUS
  <2>1. m + 1 \in 1 .. n /\ (m + 1) - 1 = m /\ f[m] = g[m]
    OBVIOUS
  <2>2. f[(m + 1) - 1] = g[(m + 1) - 1] => f[m + 1] = g[m + 1]
    BY <2>1
  <2>. QED  BY <2>1, <2>2
<1>3. T \in SUBSET Nat
  OBVIOUS
<1>. HIDE DEF T
<1>4. n \in T
  BY <1>1, <1>2, <1>3, NumberInduction
<1>. QED  BY <1>4 DEF T

\* f has the splits of the first words of s, up to the m-th.
IsSplit(f, s, w, m) ==
    f = [n \in 0 .. m |-> IF n = 0 THEN <<<<>>>>
                          ELSE IF s[n] = w THEN Append(f[n - 1], <<>>) ELSE Longer(f[n - 1], s[n])]

Splits(S) == Seq(Seq(S)) \ {<<>>}

LEMMA LongerIsSplit ==
    ASSUME NEW S, NEW ts \in Splits(S), NEW x \in S
    PROVE  Longer(ts, x) \in Splits(S)
<1>1. ts \in Seq(Seq(S)) /\ Len(ts) \in 1 .. Len(ts) /\ ts[Len(ts)] \in Seq(S)
  BY DEF Splits
<1>2. Append(ts[Len(ts)], x) \in Seq(S)
  BY <1>1
<1>3. Longer(ts, x) \in Seq(Seq(S)) /\ Len(Longer(ts, x)) = Len(ts)
  BY <1>1, <1>2 DEF Longer
<1>. QED  BY <1>1, <1>3 DEF Splits

\* The steps of the recursion, to reason about instead of its definition.
SplitsUpTo(f, s, w, m, S) ==
    /\ f \in [0 .. m -> Splits(S)] /\ f[0] = <<<<>>>>
    /\ \A n \in 1 .. m : f[n] = IF s[n] = w THEN Append(f[n - 1], <<>>) ELSE Longer(f[n - 1], s[n])

LEMMA SplitSteps ==
    ASSUME NEW S, NEW s \in Seq(S), NEW w
    PROVE  \E f : SplitsUpTo(f, s, w, Len(s), S) /\ Split(s, w) = f[Len(s)]
<1>1. PICK m \in Nat : m = Len(s)
  OBVIOUS
<1>. DEFINE X == Splits(S)
            step == [a \in (1 .. m) \X X |-> IF s[a[1]] = w THEN Append(a[2], <<>>) ELSE Longer(a[2], s[a[1]])]
<1>2. ASSUME NEW t \in X PROVE Append(t, <<>>) \in X
  <2>1. PICK e : e = <<>>
    OBVIOUS
  <2>2. e \in Seq(S)
    BY <2>1
  <2>3. Append(t, e) \in Seq(Seq(S)) /\ Len(Append(t, e)) # 0
    BY <2>2 DEF Splits
  <2>. QED  BY <2>1, <2>3 DEF Splits
<1>3. \A t \in X, n \in 1 .. m : Longer(t, s[n]) \in X
  BY <1>1, LongerIsSplit
<1>4. step \in [(1 .. m) \X X -> X]
  <2>. HIDE DEF X
  <2>. QED  BY <1>2, <1>3
<1>5. <<<<>>>> \in X
  BY DEF Splits
<1>6. PICK f \in [0 .. m -> X] : f[0] = <<<<>>>> /\ \A k \in 1 .. m : f[k] = step[<<k, f[k - 1]>>]
  <2>. HIDE DEF X, step
  <2>1. PICK e \in X : e = <<<<>>>>
    BY <1>5
  <2>2. \E f : Computes(f, e, step, m, X)
    BY <1>4, StepsExist
  <2>. QED  BY <2>1, <2>2 DEF Computes
<1>7. ASSUME NEW k \in 1 .. m
      PROVE  f[k] = IF s[k] = w THEN Append(f[k - 1], <<>>) ELSE Longer(f[k - 1], s[k])
  <2>. HIDE DEF X
  <2>1. <<k, f[k - 1]>> \in (1 .. m) \X X
    OBVIOUS
  <2>. QED  BY <1>6, <2>1
<1>. HIDE DEF X, step
<1>8. IsSplit(f, s, w, m)
  <2>1. \A n \in 0 .. m :
            f[n] = IF n = 0 THEN <<<<>>>> ELSE IF s[n] = w THEN Append(f[n - 1], <<>>) ELSE Longer(f[n - 1], s[n])
    <3>. SUFFICES ASSUME NEW n \in 0 .. m
                  PROVE  f[n] = IF n = 0 THEN <<<<>>>>
                                ELSE IF s[n] = w THEN Append(f[n - 1], <<>>) ELSE Longer(f[n - 1], s[n])
      OBVIOUS
    <3>1. n = 0 \/ n \in 1 .. m
      OBVIOUS
    <3>. QED  BY <1>6, <1>7, <3>1, Zenon
  <2>2. f = [n \in 0 .. m |-> f[n]]
    OBVIOUS
  <2>. QED  BY <2>1, <2>2, Zenon DEF IsSplit
<1>. DEFINE g == CHOOSE h : IsSplit(h, s, w, Len(s))
<1>9. IsSplit(g, s, w, m)
  BY <1>1, <1>8
<1>10. Split(s, w) = g[m]
  BY <1>1, Zenon DEF Split, IsSplit
<1>. HIDE DEF g
<1>11. f[m] = g[m]
  <2>1. f[0] = g[0]
    BY <1>6, <1>9 DEF IsSplit
  <2>2. ASSUME NEW k \in 1 .. m, f[k - 1] = g[k - 1] PROVE f[k] = g[k]
    <3>1. k \in 0 .. m /\ k # 0
      OBVIOUS
    <3>2. g[k] = IF s[k] = w THEN Append(g[k - 1], <<>>) ELSE Longer(g[k - 1], s[k])
      BY <1>9, <3>1, Zenon DEF IsSplit
    <3>. QED  BY <1>7, <2>2, <3>2, Zenon
  <2>. QED  BY <2>1, <2>2, SameSteps
<1>12. SplitsUpTo(f, s, w, m, S)
  BY <1>6, <1>7, Zenon DEF X, SplitsUpTo
<1>. QED  BY <1>1, <1>10, <1>11, <1>12

LEMMA SplitEmpty ==
    ASSUME NEW w
    PROVE  Split(<<>>, w) = <<<<>>>>
<1>1. PICK s : s = <<>>
  OBVIOUS
<1>2. s \in Seq({}) /\ Len(s) = 0
  BY <1>1
<1>3. PICK f : SplitsUpTo(f, s, w, Len(s), {}) /\ Split(s, w) = f[Len(s)]
  <2>1. s \in Seq({})
    BY <1>2
  <2>. QED  BY <2>1, SplitSteps
<1>. QED  BY <1>1, <1>2, <1>3 DEF SplitsUpTo

LEMMA AppendToNone ==
    ASSUME NEW S, NEW t \in Seq(S)
    PROVE  Append(<<>>, t) = <<t>>
OBVIOUS

LEMMA SplitType ==
    ASSUME NEW S, NEW s \in Seq(S), NEW w
    PROVE  Split(s, w) \in Splits(S)
<1>1. Len(s) \in 0 .. Len(s)
  OBVIOUS
<1>2. PICK f : SplitsUpTo(f, s, w, Len(s), S) /\ Split(s, w) = f[Len(s)]
  BY SplitSteps
<1>. QED  BY <1>1, <1>2 DEF SplitsUpTo

LEMMA SplitAppend ==
    ASSUME NEW S, NEW s \in Seq(S), NEW x \in S, NEW w
    PROVE  Split(Append(s, x), w) = IF x = w THEN Append(Split(s, w), <<>>) ELSE Longer(Split(s, w), x)
<1>0. Append(s, x) \in Seq(S)
  BY AppendProperties
<1>1. PICK t \in Seq(S) : t = Append(s, x)
  BY <1>0, Zenon
<1>2. PICK n \in Nat : n = Len(s)
  OBVIOUS
<1>3. Len(t) = n + 1 /\ t[n + 1] = x /\ \A i \in 1 .. n : t[i] = s[i]
  BY <1>1, <1>2, AppendProperties
<1>4. PICK f : SplitsUpTo(f, t, w, n + 1, S) /\ Split(t, w) = f[n + 1]
  <2>1. PICK f : SplitsUpTo(f, t, w, Len(t), S) /\ Split(t, w) = f[Len(t)]
    BY SplitSteps
  <2>. QED  BY <1>3, <2>1
<1>5. PICK g : SplitsUpTo(g, s, w, n, S) /\ Split(s, w) = g[n]
  <2>1. PICK g : SplitsUpTo(g, s, w, Len(s), S) /\ Split(s, w) = g[Len(s)]
    BY SplitSteps
  <2>. QED  BY <1>2, <2>1
<1>6. ASSUME NEW k \in 1 .. n, f[k - 1] = g[k - 1] PROVE f[k] = g[k]
  <2>1. k \in 1 .. n + 1 /\ t[k] = s[k]
    BY <1>3
  <2>2. f[k] = IF t[k] = w THEN Append(f[k - 1], <<>>) ELSE Longer(f[k - 1], t[k])
    BY <1>4, <2>1, Zenon DEF SplitsUpTo
  <2>3. g[k] = IF s[k] = w THEN Append(g[k - 1], <<>>) ELSE Longer(g[k - 1], s[k])
    BY <1>5, Zenon DEF SplitsUpTo
  <2>. QED  BY <1>6, <2>1, <2>2, <2>3, Zenon
<1>7. f[0] = g[0]
  BY <1>4, <1>5, Zenon DEF SplitsUpTo
<1>8. f[n] = g[n]
  BY <1>6, <1>7, SameSteps
<1>9. f[n + 1] = IF x = w THEN Append(f[n], <<>>) ELSE Longer(f[n], x)
  <2>1. n + 1 \in 1 .. n + 1 /\ (n + 1) - 1 = n
    OBVIOUS
  <2>2. f[n + 1] = IF t[n + 1] = w THEN Append(f[(n + 1) - 1], <<>>) ELSE Longer(f[(n + 1) - 1], t[n + 1])
    BY <1>4, <2>1, Zenon DEF SplitsUpTo
  <2>. QED  BY <1>3, <2>1, <2>2
<1>. QED  BY <1>1, <1>4, <1>5, <1>8, <1>9, Zenon

\* f has the first n texts of ts joined.
IsJoin(f, ts, w, m) ==
    f = [n \in 0 .. m |-> IF n = 0 THEN <<>> ELSE IF n = 1 THEN ts[1] ELSE f[n - 1] \o <<w>> \o ts[n]]

JoinsUpTo(f, ts, w, m, S) ==
    /\ f \in [0 .. m -> Seq(S)] /\ f[0] = <<>>
    /\ \A n \in 1 .. m : f[n] = IF n = 1 THEN ts[1] ELSE f[n - 1] \o <<w>> \o ts[n]

LEMMA JoinSteps ==
    ASSUME NEW S, NEW ts \in Seq(Seq(S)), NEW w \in S
    PROVE  \E f : JoinsUpTo(f, ts, w, Len(ts), S) /\ Join(ts, w) = f[Len(ts)]
<1>1. PICK m \in Nat : m = Len(ts)
  OBVIOUS
<1>. DEFINE X == Seq(S)
            step == [a \in (1 .. m) \X X |-> IF a[1] = 1 THEN ts[1] ELSE a[2] \o <<w>> \o ts[a[1]]]
<1>2. \A n \in 1 .. m : ts[n] \in X
  BY <1>1
<1>3. ASSUME NEW t \in X, NEW u \in X PROVE t \o <<w>> \o u \in X
  OBVIOUS
<1>4. step \in [(1 .. m) \X X -> X]
  <2>1. ASSUME NEW a \in (1 .. m) \X X
        PROVE  (IF a[1] = 1 THEN ts[1] ELSE a[2] \o <<w>> \o ts[a[1]]) \in X
    <3>. HIDE DEF X
    <3>1. a[1] \in 1 .. m /\ a[2] \in X /\ ts[a[1]] \in X
      BY <1>2
    <3>2. a[2] \o <<w>> \o ts[a[1]] \in X
      BY <1>3, <3>1
    <3>. QED  BY <3>1, <3>2
  <2>. HIDE DEF X
  <2>. QED  BY <2>1
<1>5. <<>> \in X
  OBVIOUS
<1>6. PICK f \in [0 .. m -> X] : f[0] = <<>> /\ \A k \in 1 .. m : f[k] = step[<<k, f[k - 1]>>]
  <2>. HIDE DEF X, step
  <2>1. PICK e \in X : e = <<>>
    BY <1>5
  <2>2. \E f : Computes(f, e, step, m, X)
    BY <1>4, StepsExist
  <2>. QED  BY <2>1, <2>2 DEF Computes
<1>7. ASSUME NEW k \in 1 .. m
      PROVE  f[k] = IF k = 1 THEN ts[1] ELSE f[k - 1] \o <<w>> \o ts[k]
  <2>. HIDE DEF X
  <2>1. <<k, f[k - 1]>> \in (1 .. m) \X X
    OBVIOUS
  <2>. QED  BY <1>6, <2>1
<1>. HIDE DEF X, step
<1>8. IsJoin(f, ts, w, m)
  <2>1. \A n \in 0 .. m : f[n] = IF n = 0 THEN <<>> ELSE IF n = 1 THEN ts[1] ELSE f[n - 1] \o <<w>> \o ts[n]
    <3>. SUFFICES ASSUME NEW n \in 0 .. m
                  PROVE  f[n] = IF n = 0 THEN <<>> ELSE IF n = 1 THEN ts[1] ELSE f[n - 1] \o <<w>> \o ts[n]
      OBVIOUS
    <3>1. n = 0 \/ n \in 1 .. m
      OBVIOUS
    <3>. QED  BY <1>6, <1>7, <3>1, Zenon
  <2>2. f = [n \in 0 .. m |-> f[n]]
    OBVIOUS
  <2>. QED  BY <2>1, <2>2, Zenon DEF IsJoin
<1>. DEFINE g == CHOOSE h : IsJoin(h, ts, w, Len(ts))
<1>9. IsJoin(g, ts, w, m)
  BY <1>1, <1>8
<1>10. Join(ts, w) = g[m]
  BY <1>1, Zenon DEF Join, IsJoin
<1>. HIDE DEF g
<1>11. f[m] = g[m]
  <2>1. f[0] = g[0]
    BY <1>6, <1>9 DEF IsJoin
  <2>2. ASSUME NEW k \in 1 .. m, f[k - 1] = g[k - 1] PROVE f[k] = g[k]
    <3>1. k \in 0 .. m /\ k # 0
      OBVIOUS
    <3>2. g[k] = IF k = 1 THEN ts[1] ELSE g[k - 1] \o <<w>> \o ts[k]
      BY <1>9, <3>1, Zenon DEF IsJoin
    <3>. QED  BY <1>7, <2>2, <3>2, Zenon
  <2>. QED  BY <2>1, <2>2, SameSteps
<1>12. JoinsUpTo(f, ts, w, m, S)
  BY <1>6, <1>7, Zenon DEF X, JoinsUpTo
<1>. QED  BY <1>1, <1>10, <1>11, <1>12

LEMMA JoinType ==
    ASSUME NEW S, NEW ts \in Seq(Seq(S)), NEW w \in S
    PROVE  Join(ts, w) \in Seq(S)
<1>1. Len(ts) \in 0 .. Len(ts)
  OBVIOUS
<1>2. PICK f : JoinsUpTo(f, ts, w, Len(ts), S) /\ Join(ts, w) = f[Len(ts)]
  BY JoinSteps
<1>. QED  BY <1>1, <1>2 DEF JoinsUpTo

LEMMA JoinAppend ==
    ASSUME NEW S, NEW ts \in Seq(Seq(S)), NEW t \in Seq(S), NEW w \in S
    PROVE  Join(Append(ts, t), w) = IF ts = <<>> THEN t ELSE Join(ts, w) \o <<w>> \o t
<1>0. Append(ts, t) \in Seq(Seq(S))
  BY AppendProperties
<1>1. PICK us \in Seq(Seq(S)) : us = Append(ts, t)
  BY <1>0, Zenon
<1>2. PICK n \in Nat : n = Len(ts)
  OBVIOUS
<1>3. Len(us) = n + 1 /\ us[n + 1] = t /\ \A i \in 1 .. n : us[i] = ts[i]
  BY <1>1, <1>2, AppendProperties
<1>4. PICK f : JoinsUpTo(f, us, w, n + 1, S) /\ Join(us, w) = f[n + 1]
  <2>1. PICK f : JoinsUpTo(f, us, w, Len(us), S) /\ Join(us, w) = f[Len(us)]
    BY JoinSteps
  <2>. QED  BY <1>3, <2>1
<1>5. PICK g : JoinsUpTo(g, ts, w, n, S) /\ Join(ts, w) = g[n]
  <2>1. PICK g : JoinsUpTo(g, ts, w, Len(ts), S) /\ Join(ts, w) = g[Len(ts)]
    BY JoinSteps
  <2>. QED  BY <1>2, <2>1
<1>6. ASSUME NEW k \in 1 .. n, f[k - 1] = g[k - 1] PROVE f[k] = g[k]
  <2>1. k \in 1 .. n + 1 /\ us[k] = ts[k] /\ us[1] = ts[1]
    BY <1>3
  <2>2. f[k] = IF k = 1 THEN us[1] ELSE f[k - 1] \o <<w>> \o us[k]
    BY <1>4, <2>1, Zenon DEF JoinsUpTo
  <2>3. g[k] = IF k = 1 THEN ts[1] ELSE g[k - 1] \o <<w>> \o ts[k]
    BY <1>5, Zenon DEF JoinsUpTo
  <2>. QED  BY <1>6, <2>1, <2>2, <2>3, Zenon
<1>7. f[0] = g[0]
  BY <1>4, <1>5, Zenon DEF JoinsUpTo
<1>8. f[n] = g[n]
  BY <1>6, <1>7, SameSteps
<1>9. f[n + 1] = IF n = 0 THEN t ELSE f[n] \o <<w>> \o t
  <2>1. n + 1 \in 1 .. n + 1 /\ (n + 1) - 1 = n /\ (n + 1 = 1 <=> n = 0)
    OBVIOUS
  <2>2. f[n + 1] = IF n + 1 = 1 THEN us[1] ELSE f[(n + 1) - 1] \o <<w>> \o us[n + 1]
    BY <1>4, <2>1, Zenon DEF JoinsUpTo
  <2>3. n = 0 => us[1] = t
    BY <1>3
  <2>. QED  BY <1>3, <2>1, <2>2, <2>3, Zenon
<1>10. n = 0 <=> ts = <<>>
  BY <1>2
<1>. QED  BY <1>1, <1>4, <1>5, <1>8, <1>9, <1>10, Zenon

LEMMA NoElements ==
    ASSUME NEW S PROVE \E e \in Seq(S) : e = <<>>
<1>1. PICK e : e = <<>>
  OBVIOUS
<1>2. e \in Seq(S)
  BY <1>1
<1>. QED  BY <1>1, <1>2

LEMMA AppendConcat ==
    ASSUME NEW S, NEW b \in Seq(S), NEW u \in Seq(S), NEW x \in S
    PROVE  b \o u \in Seq(S) /\ b \o Append(u, x) = Append(b \o u, x)
<1>1. PICK o \in Seq(S) : o = <<x>>
  <2>1. <<x>> \in Seq(S)
    OBVIOUS
  <2>. QED  BY <2>1, Zenon
<1>2. b \o u \in Seq(S)
  BY ConcatProperties
<1>3. PICK c \in Seq(S) : c = b \o u
  BY <1>2, Zenon
<1>4. Append(u, x) = u \o o /\ Append(c, x) = c \o o
  BY <1>1, AppendIsConcat
<1>5. (b \o u) \o o = b \o (u \o o)
  BY ConcatAssociative
<1>. QED  BY <1>2, <1>3, <1>4, <1>5, Zenon

LEMMA LongerAppend ==
    ASSUME NEW S, NEW ts \in Seq(Seq(S)), NEW t \in Seq(S), NEW x \in S
    PROVE  Longer(Append(ts, t), x) = Append(ts, Append(t, x))
<1>1. PICK n \in Nat : n = Len(ts)
  OBVIOUS
<1>2. PICK us \in Seq(Seq(S)) : us = Append(ts, t)
  <2>1. Append(ts, t) \in Seq(Seq(S))
    BY AppendProperties
  <2>. QED  BY <2>1, Zenon
<1>3. PICK u \in Seq(S) : u = Append(t, x)
  <2>1. Append(t, x) \in Seq(S)
    BY AppendProperties
  <2>. QED  BY <2>1, Zenon
<1>4. Len(us) = n + 1 /\ us[n + 1] = t /\ \A i \in 1 .. n : us[i] = ts[i]
  BY <1>1, <1>2, AppendProperties
<1>5. Longer(us, x) = [us EXCEPT ![n + 1] = u]
  BY <1>3, <1>4 DEF Longer
<1>6. [us EXCEPT ![n + 1] = u] \in Seq(Seq(S)) /\ Len([us EXCEPT ![n + 1] = u]) = n + 1
  BY <1>4
<1>7. /\ Append(ts, u) \in Seq(Seq(S)) /\ Len(Append(ts, u)) = n + 1 /\ Append(ts, u)[n + 1] = u
      /\ \A i \in 1 .. n : Append(ts, u)[i] = ts[i]
  BY <1>1, AppendProperties
<1>8. \A i \in 1 .. n + 1 : [us EXCEPT ![n + 1] = u][i] = Append(ts, u)[i]
  BY <1>4, <1>7
<1>9. [us EXCEPT ![n + 1] = u] = Append(ts, u)
  BY <1>6, <1>7, <1>8, SeqEqual
<1>. QED  BY <1>2, <1>3, <1>5, <1>9, Zenon

LEMMA JoinLonger ==
    ASSUME NEW S, NEW ts \in Splits(S), NEW x \in S, NEW w \in S
    PROVE  Join(Longer(ts, x), w) = Append(Join(ts, w), x)
<1>1. PICK us \in Seq(Seq(S)), t \in Seq(S) : ts = Append(us, t)
  BY SequenceEmptyOrAppend DEF Splits
<1>2. Longer(ts, x) = Append(us, Append(t, x))
  BY <1>1, LongerAppend
<1>3. Append(t, x) \in Seq(S)
  BY AppendProperties
<1>4. Join(Longer(ts, x), w) = IF us = <<>> THEN Append(t, x) ELSE Join(us, w) \o <<w>> \o Append(t, x)
  <2>1. PICK v \in Seq(S) : v = Append(t, x)
    BY <1>3, Zenon
  <2>2. Join(Append(us, v), w) = IF us = <<>> THEN v ELSE Join(us, w) \o <<w>> \o v
    BY JoinAppend
  <2>. QED  BY <1>2, <2>1, <2>2, Zenon
<1>5. Join(ts, w) = IF us = <<>> THEN t ELSE Join(us, w) \o <<w>> \o t
  BY <1>1, JoinAppend
<1>6. CASE us = <<>>
  BY <1>4, <1>5, <1>6
<1>7. CASE us # <<>>
  <2>1. PICK u \in Seq(S) : u = Join(us, w)
    BY JoinType
  <2>2. u \o <<w>> \in Seq(S)
    OBVIOUS
  <2>3. (u \o <<w>>) \o Append(t, x) = Append((u \o <<w>>) \o t, x)
    BY <2>2, AppendConcat
  <2>. QED  BY <1>4, <1>5, <1>7, <2>1, <2>3, Zenon
<1>. QED  BY <1>6, <1>7

\* Joining what was split gives the text back.
LEMMA JoinSplit ==
    ASSUME NEW S, NEW w \in S, NEW s \in Seq(S)
    PROVE  Join(Split(s, w), w) = s
<1>. DEFINE T == {u \in Seq(S) : Join(Split(u, w), w) = u}
<1>1. <<>> \in T
  <2>1. PICK e \in Seq(S) : e = <<>>
    BY NoElements
  <2>2. PICK none \in Seq(Seq(S)) : none = <<>>
    BY NoElements
  <2>3. Split(e, w) = Append(none, e)
    BY <2>1, <2>2, SplitEmpty, AppendToNone, Zenon
  <2>4. Join(Append(none, e), w) = e
    BY <2>2, JoinAppend
  <2>. QED  BY <2>1, <2>3, <2>4
<1>2. ASSUME NEW u \in T, NEW x \in S PROVE Append(u, x) \in T
  <2>1. PICK ts \in Splits(S) : ts = Split(u, w)
    BY SplitType
  <2>2. ts \in Seq(Seq(S)) /\ ts # <<>> /\ Join(ts, w) = u
    BY <2>1 DEF Splits
  <2>3. Append(u, x) \in Seq(S)
    BY AppendProperties
  <2>4. Split(Append(u, x), w) = IF x = w THEN Append(ts, <<>>) ELSE Longer(ts, x)
    BY <2>1, SplitAppend
  <2>5. CASE x = w
    <3>1. PICK e \in Seq(S) : e = <<>>
      BY NoElements
    <3>2. Join(Append(ts, e), w) = u \o <<w>> \o e
      <4>1. ts \in Seq(Seq(S))
        BY <2>2
      <4>2. Join(Append(ts, e), w) = IF ts = <<>> THEN e ELSE Join(ts, w) \o <<w>> \o e
        BY <4>1, JoinAppend, Zenon
      <4>. QED  BY <2>2, <4>2, Zenon
    <3>3. u \o <<w>> \o e = Append(u, w)
      <4>1. (u \o <<w>>) \in Seq(S)
        OBVIOUS
      <4>2. (u \o <<w>>) \o e = u \o <<w>>
        BY <3>1, <4>1, ConcatEmptySeq
      <4>. QED  BY <4>2, AppendIsConcat
    <3>. QED  BY <2>3, <2>4, <2>5, <3>1, <3>2, <3>3
  <2>6. CASE x # w
    <3>1. Join(Longer(ts, x), w) = Append(u, x)
      BY <2>2, JoinLonger
    <3>. QED  BY <2>3, <2>4, <2>6, <3>1
  <2>. QED  BY <2>5, <2>6
<1>3. T \in SUBSET Seq(S)
  OBVIOUS
<1>. HIDE DEF T
<1>4. T = Seq(S)
  BY <1>1, <1>2, <1>3, SequenceInduction
<1>. QED  BY <1>4 DEF T

FreeOf(t, w) == \A i \in DOMAIN t : t[i] # w

\* An element more is one place more.
LEMMA AllAppend ==
    ASSUME NEW S, NEW s \in Seq(S), NEW x \in S
    PROVE  \E n \in Nat : /\ n = Len(s) /\ DOMAIN s = 1 .. n /\ DOMAIN Append(s, x) = 1 .. n + 1
                          /\ Append(s, x)[n + 1] = x /\ \A i \in 1 .. n : Append(s, x)[i] = s[i]
<1>1. PICK n \in Nat : n = Len(s) /\ DOMAIN s = 1 .. n
  OBVIOUS
<1>2. DOMAIN Append(s, x) = 1 .. n + 1 /\ Append(s, x)[n + 1] = x /\ \A i \in 1 .. n : Append(s, x)[i] = s[i]
  BY <1>1, AppendProperties
<1>. QED  BY <1>1, <1>2

LEMMA WithoutAppend ==
    ASSUME NEW S, NEW s \in Seq(S), NEW x \in S, NEW w
    PROVE  FreeOf(Append(s, x), w) <=> FreeOf(s, w) /\ x # w
<1>1. PICK n \in Nat : /\ n = Len(s) /\ DOMAIN s = 1 .. n /\ DOMAIN Append(s, x) = 1 .. n + 1
                       /\ Append(s, x)[n + 1] = x /\ \A i \in 1 .. n : Append(s, x)[i] = s[i]
  BY AllAppend
<1>2. PICK v : v = Append(s, x)
  OBVIOUS
<1>3. n + 1 \in 1 .. n + 1 /\ \A i \in 1 .. n + 1 : i = n + 1 \/ i \in 1 .. n
  OBVIOUS
<1>4. \A i \in 1 .. n : i \in 1 .. n + 1
  OBVIOUS
<1>5. FreeOf(v, w) <=> FreeOf(s, w) /\ x # w
  BY <1>1, <1>2, <1>3, <1>4, Zenon DEF FreeOf
<1>. QED  BY <1>2, <1>5

\* A text without the word makes the last text longer, and splits nothing.
LEMMA SplitMore ==
    ASSUME NEW S, NEW w \in S, NEW b \in Seq(S), NEW us \in Seq(Seq(S)),
           Split(b, w) = Append(us, <<>>), NEW t \in Seq(S), FreeOf(t, w)
    PROVE  Split(b \o t, w) = Append(us, t)
<1>. DEFINE T == {u \in Seq(S) : FreeOf(u, w) => Split(b \o u, w) = Append(us, u)}
<1>1. <<>> \in T
  <2>1. b \o <<>> = b
    BY ConcatEmptySeq
  <2>. QED  BY <2>1
<1>2. ASSUME NEW u \in T, NEW x \in S PROVE Append(u, x) \in T
  <2>1. Append(u, x) \in Seq(S)
    BY AppendProperties
  <2>. SUFFICES ASSUME FreeOf(Append(u, x), w) PROVE Split(b \o Append(u, x), w) = Append(us, Append(u, x))
    BY <2>1
  <2>2. FreeOf(u, w) /\ x # w
    BY WithoutAppend
  <2>3. b \o Append(u, x) = Append(b \o u, x) /\ b \o u \in Seq(S)
    BY AppendConcat
  <2>4. Split(b \o u, w) = Append(us, u)
    BY <2>2
  <2>5. Split(Append(b \o u, x), w) = Longer(Append(us, u), x)
    <3>1. PICK v \in Seq(S) : v = b \o u
      BY <2>3, Zenon
    <3>2. Split(Append(v, x), w) = IF x = w THEN Append(Split(v, w), <<>>) ELSE Longer(Split(v, w), x)
      BY SplitAppend
    <3>. QED  BY <2>2, <2>4, <3>1, <3>2, Zenon
  <2>6. Longer(Append(us, u), x) = Append(us, Append(u, x))
    BY LongerAppend
  <2>. QED  BY <2>3, <2>5, <2>6
<1>3. T \in SUBSET Seq(S)
  OBVIOUS
<1>. HIDE DEF T
<1>4. T = Seq(S)
  BY <1>1, <1>2, <1>3, SequenceInduction
<1>. QED  BY <1>4 DEF T

\* Splitting what was joined gives the texts back when they are without the word.
LEMMA SplitJoin ==
    ASSUME NEW S, NEW w \in S, NEW ts \in Splits(S), \A i \in DOMAIN ts : FreeOf(ts[i], w)
    PROVE  Split(Join(ts, w), w) = ts
<1>. DEFINE T == {us \in Seq(Seq(S)) : us # <<>> /\ (\A i \in DOMAIN us : FreeOf(us[i], w)) => Split(Join(us, w), w) = us}
<1>1. <<>> \in T
  OBVIOUS
<1>2. ASSUME NEW us \in T, NEW t \in Seq(S) PROVE Append(us, t) \in T
  <2>1. Append(us, t) \in Seq(Seq(S))
    BY AppendProperties
  <2>. SUFFICES ASSUME \A i \in DOMAIN Append(us, t) : FreeOf(Append(us, t)[i], w)
                PROVE  Split(Join(Append(us, t), w), w) = Append(us, t)
    BY <2>1
  <2>2. FreeOf(t, w) /\ \A i \in DOMAIN us : FreeOf(us[i], w)
    <3>1. PICK n \in Nat : n = Len(us) /\ DOMAIN us = 1 .. n
      OBVIOUS
    <3>2. /\ DOMAIN Append(us, t) = 1 .. n + 1 /\ Append(us, t)[n + 1] = t
          /\ \A i \in 1 .. n : Append(us, t)[i] = us[i]
      BY <3>1, AppendProperties
    <3>3. n + 1 \in 1 .. n + 1 /\ \A i \in 1 .. n : i \in 1 .. n + 1
      OBVIOUS
    <3>. QED  BY <3>1, <3>2, <3>3, Zenon
  <2>3. PICK e \in Seq(S) : e = <<>>
    BY NoElements
  <2>4. Join(Append(us, t), w) = IF us = <<>> THEN t ELSE Join(us, w) \o <<w>> \o t
    BY JoinAppend
  <2>5. CASE us = <<>>
    <3>1. Split(e, w) = Append(us, <<>>)
      BY <2>3, <2>5, SplitEmpty, AppendToNone, Zenon
    <3>2. Split(e \o t, w) = Append(us, t)
      BY <2>2, <3>1, SplitMore
    <3>. QED  BY <2>3, <2>4, <2>5, <3>2
  <2>6. CASE us # <<>>
    <3>1. PICK b \in Seq(S) : b = Join(us, w)
      BY JoinType
    <3>2. Split(b, w) = us
      BY <2>2, <2>6, <3>1
    <3>3. PICK c \in Seq(S) : c = Append(b, w)
      <4>1. Append(b, w) \in Seq(S)
        BY AppendProperties
      <4>. QED  BY <4>1, Zenon
    <3>4. Split(c, w) = Append(us, <<>>)
      BY <3>2, <3>3, SplitAppend
    <3>5. Split(c \o t, w) = Append(us, t)
      BY <2>2, <3>4, SplitMore
    <3>6. c \o t = b \o <<w>> \o t
      BY <3>3, AppendIsConcat
    <3>. QED  BY <2>4, <2>6, <3>1, <3>5, <3>6
  <2>. QED  BY <2>5, <2>6
<1>3. T \in SUBSET Seq(Seq(S))
  OBVIOUS
<1>. HIDE DEF T
<1>4. T = Seq(Seq(S))
  BY <1>1, <1>2, <1>3, SequenceInduction
<1>. QED  BY <1>4 DEF T, Splits

LEMMA BeforeOrAfter ==
    ASSUME NEW m \in Nat, NEW n \in Nat, NEW i \in 1 .. m + 1 + n
    PROVE  i \in 1 .. m \/ i = m + 1 \/ \E k \in 1 .. n : i = m + 1 + k
<1>1. CASE i > m + 1
  <2>1. i - (m + 1) \in 1 .. n /\ i = m + 1 + (i - (m + 1))
    BY <1>1
  <2>. QED  BY <2>1
<1>. QED  BY <1>1

LEMMA WordBetween ==
    ASSUME NEW S, NEW u \in Seq(S), NEW w \in S, NEW t \in Seq(S)
    PROVE  /\ u \o <<w>> \o t \in Seq(S)
           /\ Len(u \o <<w>> \o t) = Len(u) + 1 + Len(t)
           /\ \A i \in 1 .. Len(u) : (u \o <<w>> \o t)[i] = u[i]
           /\ (u \o <<w>> \o t)[Len(u) + 1] = w
           /\ \A i \in 1 .. Len(t) : (u \o <<w>> \o t)[Len(u) + 1 + i] = t[i]
<1>1. PICK o \in Seq(S) : o = Append(u, w)
  <2>1. Append(u, w) \in Seq(S)
    BY AppendProperties
  <2>. QED  BY <2>1, Zenon
<1>2. o = u \o <<w>>
  BY <1>1, AppendIsConcat
<1>3. Len(o) = Len(u) + 1 /\ o[Len(u) + 1] = w /\ \A i \in 1 .. Len(u) : o[i] = u[i]
  BY <1>1, AppendProperties
<1>4. PICK v \in Seq(S) : v = o \o t
  BY ConcatProperties
<1>5. Len(v) = Len(o) + Len(t) /\ \A i \in 1 .. Len(o) + Len(t) : v[i] = IF i <= Len(o) THEN o[i] ELSE t[i - Len(o)]
  BY <1>4, ConcatProperties
<1>6. PICK m, n \in Nat : m = Len(u) /\ n = Len(t)
  OBVIOUS
<1>7. Len(o) = m + 1 /\ \A i \in 1 .. m + 1 + n : v[i] = IF i <= m + 1 THEN o[i] ELSE t[i - (m + 1)]
  BY <1>3, <1>5, <1>6
<1>8. \A i \in 1 .. m : v[i] = u[i]
  BY <1>3, <1>6, <1>7
<1>9. v[m + 1] = w
  BY <1>3, <1>6, <1>7
<1>10. ASSUME NEW i \in 1 .. n PROVE v[m + 1 + i] = t[i]
  <2>1. m + 1 + i \in 1 .. m + 1 + n /\ ~(m + 1 + i <= m + 1) /\ (m + 1 + i) - (m + 1) = i
    OBVIOUS
  <2>2. v[m + 1 + i] = IF m + 1 + i <= m + 1 THEN o[m + 1 + i] ELSE t[(m + 1 + i) - (m + 1)]
    BY <1>7, <2>1
  <2>. QED  BY <2>1, <2>2
<1>11. Len(v) = m + 1 + n
  BY <1>5, <1>6, <1>7
<1>. QED  BY <1>2, <1>4, <1>6, <1>8, <1>9, <1>10, <1>11

StartsWithout(t, x) == t # <<>> /\ t[1] # x

\* Where v occurs in a text it is the word that separates, and is not followed by x.
Separates(t, v, w, x) == \A i \in DOMAIN t : t[i] = v => v = w /\ i + 1 \in DOMAIN t /\ t[i + 1] # x

LEMMA JoinSeparates ==
    ASSUME NEW S, NEW w \in S, NEW v, NEW x, NEW ts \in Splits(S),
           \A i \in DOMAIN ts : StartsWithout(ts[i], x) /\ FreeOf(ts[i], v)
    PROVE  StartsWithout(Join(ts, w), x) /\ Separates(Join(ts, w), v, w, x)
<1>. DEFINE Good(us) == \A i \in DOMAIN us : StartsWithout(us[i], x) /\ FreeOf(us[i], v)
            T == {us \in Seq(Seq(S)) :
                    us # <<>> /\ Good(us) => StartsWithout(Join(us, w), x) /\ Separates(Join(us, w), v, w, x)}
<1>1. <<>> \in T
  OBVIOUS
<1>2. ASSUME NEW us \in T, NEW t \in Seq(S) PROVE Append(us, t) \in T
  <2>1. Append(us, t) \in Seq(Seq(S))
    BY AppendProperties
  <2>. SUFFICES ASSUME Good(Append(us, t))
                PROVE  StartsWithout(Join(Append(us, t), w), x) /\ Separates(Join(Append(us, t), w), v, w, x)
    BY <2>1
  <2>2. StartsWithout(t, x) /\ FreeOf(t, v) /\ Good(us)
    <3>1. PICK n \in Nat : n = Len(us) /\ DOMAIN us = 1 .. n
      OBVIOUS
    <3>2. /\ DOMAIN Append(us, t) = 1 .. n + 1 /\ Append(us, t)[n + 1] = t
          /\ \A i \in 1 .. n : Append(us, t)[i] = us[i]
      BY <3>1, AppendProperties
    <3>3. n + 1 \in 1 .. n + 1 /\ \A i \in 1 .. n : i \in 1 .. n + 1
      OBVIOUS
    <3>. QED  BY <3>1, <3>2, <3>3, Zenon
  <2>3. Join(Append(us, t), w) = IF us = <<>> THEN t ELSE Join(us, w) \o <<w>> \o t
    BY JoinAppend
  <2>4. CASE us = <<>>
    BY <2>2, <2>3, <2>4, Zenon DEF FreeOf, Separates
  <2>5. CASE us # <<>>
    <3>1. PICK u \in Seq(S) : u = Join(us, w)
      BY JoinType
    <3>2. StartsWithout(u, x) /\ Separates(u, v, w, x)
      BY <2>2, <2>5, <3>1
    <3>3. PICK j \in Seq(S) : j = u \o <<w>> \o t
      BY WordBetween
    <3>4. PICK m, n \in Nat : m = Len(u) /\ n = Len(t)
      OBVIOUS
    <3>5. /\ Len(j) = m + 1 + n /\ \A i \in 1 .. m : j[i] = u[i]
          /\ j[m + 1] = w /\ \A i \in 1 .. n : j[m + 1 + i] = t[i]
      BY <3>3, <3>4, WordBetween
    <3>6. m > 0 /\ n > 0 /\ DOMAIN u = 1 .. m /\ DOMAIN t = 1 .. n /\ DOMAIN j = 1 .. m + 1 + n
      BY <2>2, <3>2, <3>4, <3>5 DEF StartsWithout
    <3>7. StartsWithout(j, x)
      <4>1. j[1] = u[1] /\ j # <<>>
        BY <3>5, <3>6
      <4>. QED  BY <3>2, <4>1 DEF StartsWithout
    <3>8. ASSUME NEW i \in DOMAIN j, j[i] = v PROVE v = w /\ i + 1 \in DOMAIN j /\ j[i + 1] # x
      <4>1. CASE i \in 1 .. m
        <5>1. u[i] = v /\ i \in DOMAIN u
          BY <3>5, <3>6, <3>8, <4>1
        <5>2. v = w /\ i + 1 \in DOMAIN u /\ u[i + 1] # x
          BY <3>2, <5>1 DEF Separates
        <5>3. i + 1 \in 1 .. m /\ i + 1 \in 1 .. m + 1 + n
          BY <3>6, <5>2
        <5>. QED  BY <3>5, <3>6, <5>2, <5>3
      <4>2. CASE i = m + 1
        <5>1. v = w
          BY <3>5, <3>8, <4>2
        <5>2. i + 1 \in 1 .. m + 1 + n /\ 1 \in 1 .. n /\ i + 1 = m + 1 + 1
          BY <3>6, <4>2
        <5>3. j[i + 1] = t[1]
          BY <3>5, <5>2
        <5>. QED  BY <2>2, <3>6, <5>1, <5>2, <5>3 DEF StartsWithout
      <4>3. CASE \E k \in 1 .. n : i = m + 1 + k
        <5>1. PICK k \in 1 .. n : i = m + 1 + k
          BY <4>3
        <5>2. t[k] = v
          BY <3>5, <3>8, <5>1
        <5>. QED  BY <2>2, <3>6, <5>2 DEF FreeOf
      <4>4. i \in 1 .. m \/ i = m + 1 \/ \E k \in 1 .. n : i = m + 1 + k
        <5>1. i \in 1 .. m + 1 + n
          BY <3>6, Zenon
        <5>. QED  BY <5>1, BeforeOrAfter, Zenon
      <4>. QED  BY <4>1, <4>2, <4>3, <4>4
    <3>9. Separates(j, v, w, x)
      BY <3>8 DEF Separates
    <3>. QED  BY <2>3, <2>5, <3>1, <3>3, <3>7, <3>9, Zenon
  <2>. QED  BY <2>4, <2>5
<1>3. T \in SUBSET Seq(Seq(S))
  OBVIOUS
<1>. HIDE DEF T
<1>4. T = Seq(Seq(S))
  BY <1>1, <1>2, <1>3, SequenceInduction
<1>. QED  BY <1>4 DEF T, Splits

\* A word that is not in the joined text is in none of the texts.
LEMMA JoinWithout ==
    ASSUME NEW S, NEW w \in S, NEW v, NEW ts \in Seq(Seq(S)), FreeOf(Join(ts, w), v)
    PROVE  \A i \in DOMAIN ts : FreeOf(ts[i], v)
<1>. DEFINE All(us) == \A i \in DOMAIN us : FreeOf(us[i], v)
            T == {us \in Seq(Seq(S)) : FreeOf(Join(us, w), v) => All(us)}
<1>1. <<>> \in T
  OBVIOUS
<1>2. ASSUME NEW us \in T, NEW t \in Seq(S) PROVE Append(us, t) \in T
  <2>1. Append(us, t) \in Seq(Seq(S))
    BY AppendProperties
  <2>. SUFFICES ASSUME FreeOf(Join(Append(us, t), w), v)
                PROVE  All(Append(us, t))
    BY <2>1
  <2>2. Join(Append(us, t), w) = IF us = <<>> THEN t ELSE Join(us, w) \o <<w>> \o t
    BY JoinAppend
  <2>3. FreeOf(t, v) /\ All(us)
    <3>1. CASE us = <<>>
      BY <2>2, <3>1
    <3>2. CASE us # <<>>
      <4>1. PICK u \in Seq(S) : u = Join(us, w)
        BY JoinType
      <4>2. PICK j \in Seq(S) : j = u \o <<w>> \o t
        BY WordBetween
      <4>3. PICK m, n \in Nat : m = Len(u) /\ n = Len(t) /\ DOMAIN u = 1 .. m /\ DOMAIN t = 1 .. n
        OBVIOUS
      <4>4. /\ Len(j) = m + 1 + n /\ \A i \in 1 .. m : j[i] = u[i]
            /\ \A i \in 1 .. n : j[m + 1 + i] = t[i]
        BY <4>2, <4>3, WordBetween
      <4>5. \A i \in 1 .. m + 1 + n : j[i] # v
        <5>1. FreeOf(j, v)
          BY <2>2, <3>2, <4>1, <4>2, Zenon
        <5>2. DOMAIN j = 1 .. m + 1 + n
          BY <4>4
        <5>. QED  BY <5>1, <5>2 DEF FreeOf
      <4>6. \A i \in 1 .. m : u[i] # v
        BY <4>4, <4>5
      <4>7. ASSUME NEW i \in 1 .. n PROVE t[i] # v
        <5>1. m + 1 + i \in 1 .. m + 1 + n
          OBVIOUS
        <5>. QED  BY <4>4, <4>5, <5>1
      <4>. QED  BY <4>1, <4>3, <4>6, <4>7 DEF FreeOf
    <3>. QED  BY <3>1, <3>2
  <2>4. PICK n \in Nat : n = Len(us) /\ DOMAIN us = 1 .. n
    OBVIOUS
  <2>5. /\ DOMAIN Append(us, t) = 1 .. n + 1 /\ Append(us, t)[n + 1] = t
        /\ \A i \in 1 .. n : Append(us, t)[i] = us[i]
    BY <2>4, AppendProperties
  <2>6. \A i \in 1 .. n + 1 : i \in 1 .. n \/ i = n + 1
    OBVIOUS
  <2>. QED  BY <2>3, <2>4, <2>5, <2>6, Zenon
<1>3. T \in SUBSET Seq(Seq(S))
  OBVIOUS
<1>. HIDE DEF T
<1>4. T = Seq(Seq(S))
  BY <1>1, <1>2, <1>3, SequenceInduction
<1>. QED  BY <1>4 DEF T
=============================================================================
