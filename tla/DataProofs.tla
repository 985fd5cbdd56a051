----------------------------- MODULE DataProofs -----------------------------
(***************************************************************************)
(* What the operators on data return, for all inputs: those of VectorClock *)
(* for every set N of node ids and all clocks over it, and those of        *)
(* Sublist for every list.  The other proofs build on them.                *)
(*                                                                         *)
(* Induction is by least counterexample: WFMin of WellFoundedInduction     *)
(* has a set as its parameter, where the induction theorems have an        *)
(* operator.  Iterates and FoldExists turn it into what recursive          *)
(* functions and the folds of the community modules need.                  *)
(***************************************************************************)
EXTENDS VectorClock, Sublist, Functions, FiniteSetTheorems, SequenceTheorems, WellFoundedInduction, TLAPS

\* Sets of naturals have a least member.
LEMMA Least ==
    ASSUME NEW T \in SUBSET Nat, T # {}
    PROVE  \E x \in T : \A y \in T : x <= y
<1>1. PICK i \in T : \A j \in T : ~(<<j, i>> \in OpToRel(<, Nat))
  BY NatLessThanWellFounded, WFMin, Zenon
<1>2. \A j \in T : ~(j < i)
  BY <1>1, Zenon DEF OpToRel
<1> QED
  BY <1>2

\* Induction: a set of naturals that has 0, and with each number up to n the
\* next one, has all of them.
LEMMA UpTo ==
    ASSUME NEW n \in Nat, NEW T, 0 \in T,
           \A i \in 0 .. n : i \in T /\ i < n => i + 1 \in T
    PROVE  0 .. n \subseteq T
<1> SUFFICES ASSUME NEW m \in 0 .. n, m \notin T PROVE FALSE
  OBVIOUS
<1> DEFINE C == {i \in 0 .. n : i \notin T}
<1>1. PICK i \in C : \A j \in C : i <= j
  <2>1. C \in SUBSET Nat /\ C # {}
    OBVIOUS
  <2> HIDE DEF C
  <2> QED
    BY <2>1, Least
<1>2. i - 1 \in 0 .. n /\ i - 1 \notin C
  BY <1>1
<1> QED
  BY <1>1, <1>2

\* g is made by F from b, up to m.
IsRun(F, b, m, g) == g[0] = b /\ \A i \in 1 .. m : g[i] = F[<<i, g[i - 1]>>]

\* A recursion over 1 .. n with values in T defines a function.
LEMMA Iterates ==
    ASSUME NEW T, NEW b \in T, NEW n \in Nat, NEW F \in [(1 .. n) \X T -> T]
    PROVE  \E g \in [0 .. n -> T] : IsRun(F, b, n, g)
<1> DEFINE Good == {m \in 0 .. n : \E g \in [0 .. m -> T] : IsRun(F, b, m, g)}
<1>1. 0 \in Good
  <2> DEFINE h == [i \in 0 .. 0 |-> b]
  <2>1. h \in [0 .. 0 -> T] /\ IsRun(F, b, 0, h)
    BY DEF IsRun
  <2> HIDE DEF h
  <2> QED
    BY <2>1
<1>2. ASSUME NEW m \in 0 .. n, m \in Good, m < n PROVE m + 1 \in Good
  <2>1. PICK g \in [0 .. m -> T] : IsRun(F, b, m, g)
    BY <1>2
  <2> DEFINE h == [i \in 0 .. m + 1 |-> IF i <= m THEN g[i] ELSE F[<<m + 1, g[m]>>]]
  <2>2. F[<<m + 1, g[m]>>] \in T
    BY <1>2
  <2>3. h \in [0 .. m + 1 -> T]
    BY <2>2
  <2>4. \A i \in 0 .. m : h[i] = g[i]
    OBVIOUS
  <2>5. h[m + 1] = F[<<m + 1, g[m]>>] /\ h[m] = g[m]
    OBVIOUS
  <2> HIDE DEF h
  <2>6. IsRun(F, b, m + 1, h)
    <3> SUFFICES ASSUME NEW i \in 1 .. m + 1 PROVE h[i] = F[<<i, h[i - 1]>>]
      BY <2>1, <2>4 DEF IsRun
    <3>1. CASE i = m + 1
      BY <2>5, <3>1, SMTT(40)
    <3>2. CASE i # m + 1
      <4>1. i \in 1 .. m /\ i - 1 \in 0 .. m
        BY <3>2
      <4> QED
        BY <2>1, <2>4, <4>1 DEF IsRun
    <3> QED
      BY <3>1, <3>2
  <2>7. m + 1 \in 0 .. n
    BY <1>2
  <2> QED
    BY <2>3, <2>6, <2>7
<1> HIDE DEF Good
<1>3. n \in Good
  BY <1>1, <1>2, UpTo
<1> QED
  BY <1>3 DEF Good

\* Removing a member leaves one less.
LEMMA OneLess ==
    ASSUME NEW S, IsFiniteSet(S), NEW s \in SUBSET S, NEW x \in s
    PROVE  /\ s \ {x} \in SUBSET S /\ IsFiniteSet(s) /\ Cardinality(s) \in 1 .. Cardinality(S)
           /\ Cardinality(s \ {x}) = Cardinality(s) - 1
<1>1. IsFiniteSet(s) /\ Cardinality(s) <= Cardinality(S)
  BY FS_Subset
<1>2. Cardinality(s) \in Nat /\ Cardinality(S) \in Nat
  BY <1>1, FS_CardinalityType
<1>3. Cardinality(s) # 0
  BY <1>1, FS_EmptySet
<1>4. Cardinality(s \ {x}) = Cardinality(s) - 1
  BY <1>1, FS_RemoveElement, Zenon
<1> DEFINE m == Cardinality(s)
           n == Cardinality(S)
<1>5. m \in 1 .. n
  <2> HIDE DEF m, n
  <2>1. m <= n /\ m \in Nat /\ n \in Nat /\ m # 0
    BY <1>1, <1>2, <1>3 DEF m, n
  <2> QED
    BY <2>1
<1> QED
  BY <1>1, <1>4, <1>5

\* c chooses a member of every set.
Chooses(c, S) == \A s \in SUBSET S : s # {} => c[s] \in s

\* g is made by F from b, taking out of each set the member c chooses.
IsFold(F, b, c, S, g) ==
    \A s \in SUBSET S : g[s] = IF s = {} THEN b ELSE F[<<c[s], g[s \ {c[s]}]>>]

\* A recursion over the subsets of a finite set defines a function too.
LEMMA FoldExists ==
    ASSUME NEW S, IsFiniteSet(S), NEW V, NEW b \in V, NEW F \in [S \X V -> V],
           NEW c, Chooses(c, S)
    PROVE  \E g \in [SUBSET S -> V] : IsFold(F, b, c, S, g)
<1> DEFINE n == Cardinality(S)
           T == [SUBSET S -> V]
           Step == [p \in (1 .. n) \X T |->
                       [s \in SUBSET S |-> IF s = {} THEN b ELSE F[<<c[s], p[2][s \ {c[s]}]>>]]]
           none == [s \in SUBSET S |-> b]
<1>1. n \in Nat
  BY FS_CardinalityType
<1>2. \A s \in SUBSET S : s # {} => c[s] \in S /\ s \ {c[s]} \in SUBSET S
  BY DEF Chooses
<1>3. Step \in [(1 .. n) \X T -> T]
  <2> SUFFICES ASSUME NEW p \in (1 .. n) \X T
               PROVE  [s \in SUBSET S |-> IF s = {} THEN b ELSE F[<<c[s], p[2][s \ {c[s]}]>>]] \in T
    OBVIOUS
  <2> SUFFICES ASSUME NEW s \in SUBSET S, s # {} PROVE F[<<c[s], p[2][s \ {c[s]}]>>] \in V
    OBVIOUS
  <2>1. p[2] \in T
    OBVIOUS
  <2>2. p[2][s \ {c[s]}] \in V
    BY <1>2, <2>1
  <2> QED
    BY <1>2, <2>2
<1>4. none \in T
  OBVIOUS
<1>5. \A i \in 1 .. n, h \in T, s \in SUBSET S :
          Step[<<i, h>>][s] = IF s = {} THEN b ELSE F[<<c[s], h[s \ {c[s]}]>>]
  OBVIOUS
<1> HIDE DEF n, Step, none, T
<1>6. \E r \in [0 .. n -> T] : IsRun(Step, none, n, r)
  BY <1>1, <1>3, <1>4, Iterates
<1>7. PICK r : r \in [0 .. n -> T] /\ r[0] = none /\ \A i \in 1 .. n : r[i] = Step[<<i, r[i - 1]>>]
  BY <1>6, Zenon DEF IsRun
<1> DEFINE g == [s \in SUBSET S |-> r[Cardinality(s)][s]]
<1>8. \A s \in SUBSET S : Cardinality(s) \in 0 .. n
  BY <1>1, FS_Subset, FS_CardinalityType DEF n
<1>9. g \in [SUBSET S -> V]
  <2>1. \A s \in SUBSET S : r[Cardinality(s)] \in T
    BY <1>7, <1>8
  <2> QED
    BY <2>1 DEF T
<1>10. ASSUME NEW s \in SUBSET S
      PROVE  g[s] = IF s = {} THEN b ELSE F[<<c[s], g[s \ {c[s]}]>>]
  <2>1. CASE s = {}
    <3>1. Cardinality(s) = 0
      BY <2>1, FS_EmptySet
    <3>2. g[s] = none[s]
      BY <1>7, <3>1
    <3> QED
      BY <2>1, <3>2 DEF none
  <2>2. CASE s # {}
    <3> DEFINE t == s \ {c[s]}
               k == Cardinality(s)
    <3>1. t \in SUBSET S /\ k \in 1 .. n /\ Cardinality(t) = k - 1
      <4>1. c[s] \in s
        BY <2>2 DEF Chooses
      <4> QED
        BY <4>1, OneLess DEF n
    <3>2. r[k] = Step[<<k, r[k - 1]>>] /\ r[k - 1] \in T
      BY <1>1, <1>7, <3>1
    <3>3. r[k][s] = F[<<c[s], r[k - 1][t]>>]
      BY <1>5, <2>2, <3>1, <3>2
    <3>4. g[s] = r[k][s] /\ g[t] = r[k - 1][t]
      BY <3>1
    <3> QED
      BY <2>2, <3>3, <3>4
  <2> QED
    BY <2>1, <2>2
<1> QED
  BY <1>9, <1>10 DEF IsFold
-----------------------------------------------------------------------------
\* The members of a finite set of numbers are its first, second, ... in order.
LEMMA NthMember ==
    ASSUME NEW I \in SUBSET Nat, IsFiniteSet(I)
    PROVE  /\ \A k \in 1 .. Cardinality(I) : Nth(I, k) \in I
           /\ \A k, l \in 1 .. Cardinality(I) : k < l => Nth(I, k) < Nth(I, l)
           /\ \A i \in I : \E k \in 1 .. Cardinality(I) : Nth(I, k) = i
<1> DEFINE n == Cardinality(I)
           rank == [i \in I |-> Cardinality(Before(I, i))]
<1>1. n \in Nat
  BY FS_CardinalityType
<1>2. \A i : IsFiniteSet(Before(I, i)) /\ Cardinality(Before(I, i)) \in Nat
  <2>1. \A i : Before(I, i) \in SUBSET I
    BY DEF Before
  <2> QED
    BY <2>1, FS_Subset, FS_CardinalityType
<1>3. ASSUME NEW i \in I, NEW j \in I, i < j PROVE rank[i] < rank[j]
  <2>1. Before(I, i) \in SUBSET Before(I, j) /\ i \in Before(I, j) /\ i \notin Before(I, i)
    <3>1. \A x \in I : x < i => x < j
      BY <1>3
    <3>2. ~(i < i)
      OBVIOUS
    <3> QED
      BY <1>3, <3>1, <3>2, Zenon DEF Before
  <2>2. Cardinality(Before(I, i)) <= Cardinality(Before(I, j))
        /\ Cardinality(Before(I, i)) # Cardinality(Before(I, j))
    BY <1>2, <2>1, FS_Subset
  <2> QED
    BY <1>2, <2>2
<1>4. rank \in [I -> 0 .. n - 1]
  <2> SUFFICES ASSUME NEW i \in I PROVE Cardinality(Before(I, i)) \in 0 .. n - 1
    OBVIOUS
  <2>1. Before(I, i) \in SUBSET I /\ i \notin Before(I, i)
    BY DEF Before
  <2>2. Cardinality(Before(I, i)) <= n /\ Cardinality(Before(I, i)) # n
    BY <2>1, FS_Subset
  <2> QED
    BY <1>1, <1>2, <2>2
<1>5. rank \in Injection(I, 0 .. n - 1)
  BY <1>3, <1>4 DEF Injection, IsInjective
<1>6. IsFiniteSet(0 .. n - 1) /\ Cardinality(0 .. n - 1) = n
  <2>1. 0 \in Int /\ n - 1 \in Int
    BY <1>1
  <2> HIDE DEF n
  <2>2. IsFiniteSet(0 .. n - 1) /\ Cardinality(0 .. n - 1) = IF 0 > n - 1 THEN 0 ELSE n - 1 - 0 + 1
    BY <2>1, FS_Interval, Zenon
  <2> QED
    BY <1>1, <2>2
<1>7. rank \in Surjection(I, 0 .. n - 1)
  BY <1>5, <1>6, FS_Injection
<1>8. \A k \in 1 .. n : \E i \in I : rank[i] = k - 1
  <2>1. \A r \in 0 .. n - 1 : \E i \in I : rank[i] = r
    BY <1>7 DEF Surjection
  <2>2. \A k \in 1 .. n : k - 1 \in 0 .. n - 1
    BY <1>1
  <2> QED
    BY <2>1, <2>2
<1>9. \A k \in 1 .. n : Nth(I, k) \in I /\ rank[Nth(I, k)] = k - 1
  BY <1>8 DEF Nth
<1>10. \A i \in I : Nth(I, rank[i] + 1) = i
  <2> SUFFICES ASSUME NEW i \in I PROVE Nth(I, rank[i] + 1) = i
    OBVIOUS
  <2>1. rank[i] + 1 \in 1 .. n
    BY <1>1, <1>4
  <2>2. Nth(I, rank[i] + 1) \in I /\ rank[Nth(I, rank[i] + 1)] = rank[i]
    BY <1>4, <1>9, <2>1
  <2> QED
    BY <1>5, <2>2 DEF Injection, IsInjective
<1> HIDE DEF rank
<1>11. ASSUME NEW k \in 1 .. n, NEW l \in 1 .. n, k < l PROVE Nth(I, k) < Nth(I, l)
  <2> DEFINE i == Nth(I, k)
             j == Nth(I, l)
  <2>1. i \in I /\ j \in I /\ rank[i] = k - 1 /\ rank[j] = l - 1
    BY <1>9
  <2> HIDE DEF i, j
  <2>2. ~(j < i) /\ i # j
    BY <1>3, <1>11, <2>1
  <2>3. i < j
    BY <2>1, <2>2
  <2> QED
    BY <2>3 DEF i, j
<1>12. \A i \in I : rank[i] + 1 \in 1 .. n
  BY <1>1, <1>4
<1> QED
  BY <1>9, <1>10, <1>11, <1>12

\* The order of the elements of a sublist is that of the list.
LEMMA SublistOrder ==
    ASSUME NEW T, NEW s \in Seq(T), NEW I \in SUBSET DOMAIN s,
           NEW k \in DOMAIN Sublist(s, I), NEW l \in DOMAIN Sublist(s, I), k < l
    PROVE  \E i, j \in I : i < j /\ Sublist(s, I)[k] = s[i] /\ Sublist(s, I)[l] = s[j]
<1>1. I \in SUBSET Nat /\ IsFiniteSet(I)
  <2>1. DOMAIN s = 1 .. Len(s) /\ Len(s) \in Nat
    OBVIOUS
  <2>2. IsFiniteSet(1 .. Len(s))
    BY <2>1, FS_Interval
  <2> QED
    BY <2>1, <2>2, FS_Subset
<1>2. /\ \A m \in 1 .. Cardinality(I) : Nth(I, m) \in I
      /\ Nth(I, k) < Nth(I, l)
  BY <1>1, NthMember DEF Sublist
<1> QED
  BY <1>2 DEF Sublist

\* A sublist is a list of the elements it is to keep, each as often as it stood
\* there, and of nothing else; what is wholly kept stays as it was.
LEMMA SublistKeeps ==
    ASSUME NEW T, NEW s \in Seq(T), NEW I \in SUBSET DOMAIN s
    PROVE  /\ Sublist(s, I) \in Seq(T)
           /\ IsFiniteSet(I) /\ Len(Sublist(s, I)) = Cardinality(I)
           /\ \A k \in DOMAIN Sublist(s, I) : \E i \in I : Sublist(s, I)[k] = s[i]
           /\ \A i \in I : \E k \in DOMAIN Sublist(s, I) : Sublist(s, I)[k] = s[i]
           /\ (\A i, j \in I : s[i] = s[j] => i = j) =>
                  \A k, l \in DOMAIN Sublist(s, I) : Sublist(s, I)[k] = Sublist(s, I)[l] => k = l
<1> DEFINE t == Sublist(s, I)
<1>1. I \in SUBSET Nat /\ IsFiniteSet(I) /\ Cardinality(I) \in Nat
  <2>1. DOMAIN s = 1 .. Len(s) /\ Len(s) \in Nat
    OBVIOUS
  <2>2. IsFiniteSet(1 .. Len(s))
    BY <2>1, FS_Interval
  <2>3. IsFiniteSet(I)
    BY <2>1, <2>2, FS_Subset
  <2> QED
    BY <2>1, <2>3, FS_CardinalityType
<1>2. /\ \A k \in 1 .. Cardinality(I) : Nth(I, k) \in I
      /\ \A k, l \in 1 .. Cardinality(I) : k < l => Nth(I, k) < Nth(I, l)
      /\ \A i \in I : \E k \in 1 .. Cardinality(I) : Nth(I, k) = i
  BY <1>1, NthMember
<1>3. \A i \in I : s[i] \in T
  OBVIOUS
<1>4. t \in [1 .. Cardinality(I) -> T] /\ \A k \in 1 .. Cardinality(I) : t[k] = s[Nth(I, k)]
  BY <1>2, <1>3 DEF Sublist
<1> HIDE DEF t
<1>5. t \in Seq(T) /\ DOMAIN t = 1 .. Cardinality(I) /\ Len(t) = Cardinality(I)
  BY <1>1, <1>4
<1>6. ASSUME \A i, j \in I : s[i] = s[j] => i = j,
             NEW k \in DOMAIN t, NEW l \in DOMAIN t, t[k] = t[l]
      PROVE  k = l
  <2>1. Nth(I, k) = Nth(I, l)
    BY <1>2, <1>4, <1>5, <1>6
  <2>2. Nth(I, k) \in Nat /\ ~(Nth(I, k) < Nth(I, l)) /\ ~(Nth(I, l) < Nth(I, k))
    BY <1>1, <1>2, <1>5, <2>1
  <2>3. ~(k < l) /\ ~(l < k)
    BY <1>2, <1>5, <2>2
  <2> QED
    BY <1>1, <1>5, <2>3
<1>7. t \in Seq(T) /\ IsFiniteSet(I) /\ Len(t) = Cardinality(I)
  BY <1>1, <1>5
<1>8. /\ \A k \in DOMAIN t : \E i \in I : t[k] = s[i]
      /\ \A i \in I : \E k \in DOMAIN t : t[k] = s[i]
  BY <1>2, <1>4, <1>5
<1> QED
  BY <1>6, <1>7, <1>8 DEF t
LEMMA BeforeAll ==
    ASSUME NEW n \in Nat, NEW i \in 1 .. n
    PROVE  Cardinality(Before(1 .. n, i)) = i - 1
<1>1. Before(1 .. n, i) = 1 .. i - 1
  BY DEF Before
<1>2. 1 \in Int /\ i - 1 \in Int
  OBVIOUS
<1>3. Cardinality(1 .. i - 1) = IF 1 > i - 1 THEN 0 ELSE i - 1 - 1 + 1
  BY <1>2, FS_Interval, Zenon
<1> QED
  BY <1>1, <1>3

\* What is wholly kept stays as it was.
LEMMA SublistOfAll ==
    ASSUME NEW T, NEW s \in Seq(T)
    PROVE  Sublist(s, DOMAIN s) = s
<1> DEFINE I == DOMAIN s
           n == Len(s)
<1>1. n \in Nat /\ I = 1 .. n
  OBVIOUS
<1>2. Cardinality(I) = n
  <2>1. 1 \in Int /\ n \in Int
    BY <1>1
  <2> HIDE DEF n
  <2>2. Cardinality(1 .. n) = IF 1 > n THEN 0 ELSE n - 1 + 1
    BY <2>1, FS_Interval, Zenon
  <2> QED
    BY <1>1, <2>2
<1>3. ASSUME NEW i \in I PROVE Cardinality(Before(I, i)) = i - 1
  BY <1>1, BeforeAll
<1>4. \A k \in 1 .. n : Nth(I, k) = k
  <2> SUFFICES ASSUME NEW k \in 1 .. n PROVE Nth(I, k) = k
    OBVIOUS
  <2>1. k \in I /\ Cardinality(Before(I, k)) = k - 1
    BY <1>1, <1>3
  <2>2. Nth(I, k) \in I /\ Cardinality(Before(I, Nth(I, k))) = k - 1
    BY <2>1 DEF Nth
  <2>3. Nth(I, k) - 1 = k - 1 /\ Nth(I, k) \in 1 .. n
    BY <1>1, <1>3, <2>2
  <2> QED
    BY <2>3
<1> QED
  BY <1>1, <1>2, <1>4 DEF Sublist

\* No element occurs twice.
Distinct(s) == \A i, j \in DOMAIN s : s[i] = s[j] => i = j

Elements(s) == {s[i] : i \in DOMAIN s}

\* Then there are as many elements as the list is long.
LEMMA DistinctCount ==
    ASSUME NEW T, NEW s \in Seq(T), Distinct(s)
    PROVE  /\ IsFiniteSet(Elements(s)) /\ Cardinality(Elements(s)) = Len(s) /\ Len(s) \in Nat
           /\ Elements(s) \subseteq T
<1> DEFINE n == Len(s)
           f == [i \in 1 .. n |-> s[i]]
           M == Elements(s)
<1>1. n \in Nat /\ DOMAIN s = 1 .. n /\ \A i \in 1 .. n : s[i] \in T
  OBVIOUS
<1>2. M = {s[i] : i \in 1 .. n} /\ M \subseteq T
  BY <1>1 DEF Elements
<1>3. f \in Bijection(1 .. n, M)
  <2>1. f \in [1 .. n -> M]
    BY <1>2
  <2>2. \A i, j \in 1 .. n : f[i] = f[j] => i = j
    BY <1>1 DEF Distinct
  <2>3. \A x \in M : \E i \in 1 .. n : f[i] = x
    BY <1>2
  <2> HIDE DEF f, M, n
  <2> QED
    BY <2>1, <2>2, <2>3 DEF Bijection, Injection, Surjection, IsInjective
<1>4. ExistsBijection(1 .. n, M)
  BY <1>3 DEF ExistsBijection
<1> HIDE DEF f, M, n
<1>5. IsFiniteSet(1 .. n)
  BY <1>1, FS_Interval
<1>6. IsFiniteSet(M)
  BY <1>4, <1>5, FS_Bijection
<1>7. Cardinality(M) = n
  BY <1>1, <1>4, FS_CountingElements
<1> QED
  BY <1>1, <1>2, <1>6, <1>7 DEF M, n
-----------------------------------------------------------------------------
\* A clock, for every set N of ids.
NatClock(N) == ClocksOver(N, Nat)

\* A missing id counts as zero, so a clock has a natural at every id.
LEMMA AtType ==
    ASSUME NEW N, NEW c \in NatClock(N), NEW m
    PROVE  At(c, m) \in Nat
BY DEF NatClock, ClocksOver, At

\* VectorClock.new is a clock that is zero everywhere.
LEMMA NewClock ==
    ASSUME NEW N, NEW n \in N, NEW m
    PROVE  /\ New(n) \in NatClock(N)
           /\ At(New(n), m) = 0
<1>1. {n} \in SUBSET N
    OBVIOUS
<1>2. New(n) \in [{n} -> Nat]
    BY DEF New
<1> QED
    BY <1>1, <1>2 DEF NatClock, ClocksOver, At, New

\* VectorClock.increment adds one to the id's own counter and nothing else.
LEMMA IncrementClock ==
    ASSUME NEW N, NEW c \in NatClock(N), NEW n \in N, NEW m
    PROVE  /\ Increment(c, n) \in NatClock(N)
           /\ At(Increment(c, n), m) = IF m = n THEN At(c, n) + 1 ELSE At(c, m)
<1>1. PICK D \in SUBSET N : c \in [D -> Nat]
    BY DEF NatClock, ClocksOver
<1>2. Increment(c, n) \in [D \cup {n} -> Nat]
    BY <1>1, AtType DEF Increment
<1>3. D \cup {n} \in SUBSET N
    OBVIOUS
<1>4. Increment(c, n) \in NatClock(N)
    BY <1>2, <1>3 DEF NatClock, ClocksOver
<1>5. At(Increment(c, n), m) = IF m = n THEN At(c, n) + 1 ELSE At(c, m)
    BY <1>1, <1>2 DEF Increment, At
<1> QED
    BY <1>4, <1>5

\* VectorClock.merge is the component-wise maximum.
LEMMA MergeClock ==
    ASSUME NEW N, NEW c \in NatClock(N), NEW d \in NatClock(N), NEW m
    PROVE  /\ Merge(c, d) \in NatClock(N)
           /\ At(Merge(c, d), m) = IF At(c, m) >= At(d, m) THEN At(c, m) ELSE At(d, m)
<1>1. PICK C \in SUBSET N : c \in [C -> Nat]
    BY DEF NatClock, ClocksOver
<1>2. PICK D \in SUBSET N : d \in [D -> Nat]
    BY DEF NatClock, ClocksOver
<1>3. Merge(c, d) \in [C \cup D -> Nat]
    BY <1>1, <1>2, AtType DEF Merge
<1>4. C \cup D \in SUBSET N
    OBVIOUS
<1>5. Merge(c, d) \in NatClock(N)
    BY <1>3, <1>4 DEF NatClock, ClocksOver
<1>6. At(Merge(c, d), m) = IF At(c, m) >= At(d, m) THEN At(c, m) ELSE At(d, m)
    BY <1>1, <1>2, <1>3 DEF Merge, At
<1> QED
    BY <1>5, <1>6

\* The loop of compare over the ids of the two clocks decides domination at
\* every id.
LEMMA DominatesEverywhere ==
    ASSUME NEW N, NEW c \in NatClock(N), NEW d \in NatClock(N)
    PROVE  Dominates(c, d) <=> \A m \in N : At(c, m) >= At(d, m)
<1>1. /\ DOMAIN c \subseteq N
      /\ DOMAIN d \subseteq N
    BY DEF NatClock, ClocksOver
<1>2. \A m : m \notin DOMAIN c \cup DOMAIN d => At(c, m) = 0 /\ At(d, m) = 0
    BY DEF At
<1> QED
    BY <1>1, <1>2 DEF Dominates

\* VectorClock.compare answers by domination alone: its extra test of the two
\* dictionaries never changes the answer.
LEMMA CompareByDomination ==
    ASSUME NEW N, NEW c \in NatClock(N), NEW d \in NatClock(N)
    PROVE  /\ HappensBefore(c, d) <=> Dominates(d, c) /\ ~Dominates(c, d)
           /\ HappensAfter(c, d) <=> Dominates(c, d) /\ ~Dominates(d, c)
           /\ IsConcurrentWith(c, d) <=> ~Dominates(c, d) /\ ~Dominates(d, c)
           /\ IsEqual(c, d) <=> Dominates(c, d) /\ Dominates(d, c)
<1>1. \A m : At(c, m) >= At(c, m)
    BY AtType
<1>2. c = d => Dominates(c, d) /\ Dominates(d, c)
    BY <1>1 DEF Dominates
<1> QED
    BY <1>2 DEF Compare, HappensBefore, HappensAfter, IsConcurrentWith, IsEqual

\* merge gives the least clock that has seen both histories.
THEOREM MergeIsLeastUpperBound ==
    ASSUME NEW N, NEW c \in NatClock(N), NEW d \in NatClock(N), NEW u \in NatClock(N)
    PROVE  /\ Dominates(Merge(c, d), c)
           /\ Dominates(Merge(c, d), d)
           /\ Dominates(u, c) /\ Dominates(u, d) => Dominates(u, Merge(c, d))
<1>1. Merge(c, d) \in NatClock(N)
    BY MergeClock
<1>2. \A m \in N : /\ At(c, m) \in Nat /\ At(d, m) \in Nat /\ At(u, m) \in Nat
                   /\ At(Merge(c, d), m) =
                         IF At(c, m) >= At(d, m) THEN At(c, m) ELSE At(d, m)
    BY AtType, MergeClock
<1> QED
    BY <1>1, <1>2, DominatesEverywhere

\* Happens-before is a strict partial order and happens_after its converse;
\* one answer of compare holds of any two clocks.
THEOREM HappensBeforeIsStrictOrder ==
    ASSUME NEW N, NEW c \in NatClock(N), NEW d \in NatClock(N), NEW e \in NatClock(N)
    PROVE  /\ ~HappensBefore(c, c)
           /\ HappensBefore(c, d) /\ HappensBefore(d, e) => HappensBefore(c, e)
           /\ HappensBefore(c, d) <=> HappensAfter(d, c)
           /\ IsConcurrentWith(c, d) <=> IsConcurrentWith(d, c)
<1>1. \A m \in N : At(c, m) \in Nat /\ At(d, m) \in Nat /\ At(e, m) \in Nat
    BY AtType
<1>2. Dominates(e, d) /\ Dominates(d, c) => Dominates(e, c)
    BY <1>1, DominatesEverywhere
<1>3. Dominates(c, e) /\ Dominates(e, d) => Dominates(c, d)
    BY <1>1, DominatesEverywhere
<1> QED
    BY <1>2, <1>3, CompareByDomination

\* An event's clock comes strictly after the clock its node had before it.
THEOREM IncrementHappensAfter ==
    ASSUME NEW N, NEW c \in NatClock(N), NEW n \in N
    PROVE  HappensBefore(c, Increment(c, n))
<1>1. Increment(c, n) \in NatClock(N)
    BY IncrementClock
<1>2. \A m \in N : /\ At(c, m) \in Nat
                   /\ At(Increment(c, n), m) =
                         IF m = n THEN At(c, n) + 1 ELSE At(c, m)
    BY AtType, IncrementClock
<1>3. Dominates(Increment(c, n), c) /\ ~Dominates(c, Increment(c, n))
    BY <1>1, <1>2, DominatesEverywhere
<1> QED
    BY <1>1, <1>3, CompareByDomination
-----------------------------------------------------------------------------
\* g adds up what c has at the members of a set of its ids.
IsSum(c, g) ==
    g = [s \in SUBSET DOMAIN c |->
            IF s = {} THEN 0 ELSE LET x == CHOOSE x \in s : TRUE IN c[x] + g[s \ {x}]]

\* g gives the sums of what c has at the members of sets, in any order.
Adds(c, g) ==
    /\ SumFunction(c) = g[DOMAIN c]
    /\ g \in [SUBSET DOMAIN c -> Nat]
    /\ g[{}] = 0
    /\ \A s \in SUBSET DOMAIN c : \A y \in s : g[s] = c[y] + g[s \ {y}]

\* The sum over a finite function does not depend on the order of addition.
LEMMA SumOfParts ==
    ASSUME NEW c, IsFiniteSet(DOMAIN c), c \in [DOMAIN c -> Nat]
    PROVE  \E g : Adds(c, g)
<1> DEFINE D == DOMAIN c
           n == Cardinality(D)
           first == [s \in SUBSET D |-> CHOOSE x \in s : TRUE]
           F == [p \in D \X Nat |-> c[p[1]] + p[2]]
           g == CHOOSE g : IsSum(c, g)
<1>1. SumFunction(c) = g[D]
    BY DEF SumFunction, SumFunctionOnSet, FoldFunctionOnSet, MapThenFoldSet, IsSum
<1>2. \A s \in SUBSET D : first[s] = CHOOSE x \in s : TRUE
    OBVIOUS
<1>3. \A s \in SUBSET D : s # {} => first[s] \in s
    BY <1>2
<1>4. F \in [D \X Nat -> Nat] /\ \A x \in D, v \in Nat : F[<<x, v>>] = c[x] + v
    OBVIOUS
<1> HIDE DEF D, first, F, g
<1>5. IsSum(c, g)
    <2>1. \E h \in [SUBSET D -> Nat] : IsFold(F, 0, first, D, h)
        <3>1. IsFiniteSet(D) /\ 0 \in Nat /\ Chooses(first, D)
            BY <1>3 DEF D, Chooses
        <3> QED
            BY <1>4, <3>1, FoldExists
    <2>2. PICK h \in [SUBSET D -> Nat] :
              \A s \in SUBSET D : h[s] = IF s = {} THEN 0 ELSE F[<<first[s], h[s \ {first[s]}]>>]
        BY <2>1 DEF IsFold
    <2>3. ASSUME NEW s \in SUBSET D, s # {}
          PROVE  h[s] = LET x == CHOOSE x \in s : TRUE IN c[x] + h[s \ {x}]
        <3>1. first[s] \in D /\ s \ {first[s]} \in SUBSET D
            BY <1>3, <2>3
        <3>2. h[s \ {first[s]}] \in Nat
            BY <3>1
        <3>3. h[s] = c[first[s]] + h[s \ {first[s]}]
            BY <1>4, <2>2, <2>3, <3>1, <3>2
        <3> QED
            BY <1>2, <3>3
    <2>4. h = [s \in SUBSET D |->
                  IF s = {} THEN 0 ELSE LET x == CHOOSE x \in s : TRUE IN c[x] + h[s \ {x}]]
        <3>1. \A s \in SUBSET D :
                  h[s] = IF s = {} THEN 0 ELSE LET x == CHOOSE x \in s : TRUE IN c[x] + h[s \ {x}]
            BY <2>2, <2>3
        <3> QED
            BY <3>1
    <2>5. IsSum(c, h)
        BY <2>4 DEF IsSum, D
    <2> QED
        BY <2>5 DEF g
<1>6. /\ DOMAIN g = SUBSET D /\ g = [s \in SUBSET D |-> g[s]]
      /\ \A s \in SUBSET D : g[s] = IF s = {} THEN 0 ELSE c[first[s]] + g[s \ {first[s]}]
    BY <1>2, <1>5 DEF IsSum, D
<1> DEFINE Ok(s) == g[s] \in Nat /\ \A y \in s : g[s] = c[y] + g[s \ {y}]
           T == {k \in 0 .. n : \A s \in SUBSET D : Cardinality(s) <= k => Ok(s)}
<1>7. n \in Nat /\ \A s \in SUBSET D : IsFiniteSet(s) /\ Cardinality(s) \in 0 .. n
    <2>1. IsFiniteSet(D)
        BY DEF D
    <2> QED
        BY <2>1, FS_Subset, FS_CardinalityType DEF n
<1>8. \A s \in SUBSET D : \A x \in s : s \ {x} \in SUBSET D /\ Cardinality(s \ {x}) = Cardinality(s) - 1
    <2>1. IsFiniteSet(D)
        BY DEF D
    <2> QED
        BY <2>1, OneLess
<1> HIDE DEF n
<1>9. {} \in SUBSET D /\ g[{}] = 0 /\ Ok({})
    <2>1. {} \in SUBSET D
        OBVIOUS
    <2>2. g[{}] = 0
        BY <1>6, <2>1
    <2> QED
        BY <2>1, <2>2
<1>10. 0 \in T
    <2>1. \A s \in SUBSET D : Cardinality(s) <= 0 => s = {}
        BY <1>7, FS_EmptySet
    <2> QED
        BY <1>7, <1>9, <2>1
<1>11. ASSUME NEW k \in 0 .. n, k \in T, k < n
       PROVE  k + 1 \in T
    <2>1. k + 1 \in 0 .. n
        BY <1>7, <1>11
    <2> SUFFICES ASSUME NEW s \in SUBSET D, Cardinality(s) <= k + 1 PROVE Ok(s)
        BY <2>1
    <2>2. CASE s = {}
        BY <1>9, <2>2
    <2>3. CASE s # {}
        <3> DEFINE x == first[s]
        <3>1. x \in s /\ x \in D /\ c[x] \in Nat
            BY <1>3, <2>3 DEF D
        <3>2. g[s] = c[x] + g[s \ {x}]
            BY <1>6, <2>3
        <3> HIDE DEF x
        <3>3. ASSUME NEW y \in s
              PROVE  s \ {y} \in SUBSET D /\ Ok(s \ {y})
            <4>1. s \ {y} \in SUBSET D /\ Cardinality(s \ {y}) = Cardinality(s) - 1
                BY <1>8
            <4>2. Cardinality(s \ {y}) <= k
                BY <1>7, <4>1
            <4> QED
                BY <1>11, <4>1, <4>2
        <3>4. g[s] \in Nat
            BY <3>1, <3>2, <3>3
        <3>5. ASSUME NEW y \in s, y # x
              PROVE  g[s] = c[y] + g[s \ {y}]
            <4>1. y \in s \ {x} /\ x \in s \ {y} /\ (s \ {x}) \ {y} = (s \ {y}) \ {x}
                BY <3>1, <3>5
            <4>2. g[s \ {x}] = c[y] + g[(s \ {x}) \ {y}]
                BY <3>1, <3>3, <4>1
            <4>3. g[s \ {y}] = c[x] + g[(s \ {x}) \ {y}]
                BY <3>3, <4>1
            <4> DEFINE r == g[(s \ {x}) \ {y}]
            <4>4. r \in Nat
                <5>1. (s \ {x}) \ {y} \in SUBSET D
                    OBVIOUS
                <5>2. Cardinality((s \ {x}) \ {y}) = Cardinality(s \ {x}) - 1
                    BY <1>8, <3>1, <3>3, <4>1
                <5>3. Cardinality(s \ {x}) = Cardinality(s) - 1
                    BY <1>8, <3>1
                <5>4. Cardinality((s \ {x}) \ {y}) <= k
                    BY <1>7, <5>1, <5>2, <5>3
                <5> QED
                    BY <1>11, <5>1, <5>4
            <4>5. c[y] \in Nat
                BY DEF D
            <4> HIDE DEF r
            <4>6. g[s] = c[x] + (c[y] + r) /\ g[s \ {y}] = c[x] + r
                BY <3>2, <4>2, <4>3 DEF r
            <4> QED
                BY <3>1, <4>4, <4>5, <4>6
        <3> QED
            BY <3>2, <3>4, <3>5
    <2> QED
        BY <2>2, <2>3
<1> HIDE DEF T
<1>12. n \in T
    BY <1>7, <1>10, <1>11, UpTo
<1>13. \A s \in SUBSET D : Ok(s)
    BY <1>7, <1>12 DEF T
<1>14. g \in [SUBSET D -> Nat] /\ g[{}] = 0
    BY <1>6, <1>13, <1>9
<1>15. Adds(c, g)
    BY <1>1, <1>13, <1>14 DEF D, Adds
<1> QED
    BY <1>15

\* A clock that is nowhere behind and somewhere ahead weighs more.
LEMMA WeightGrows ==
    ASSUME NEW c, IsFiniteSet(DOMAIN c), c \in [DOMAIN c -> Nat],
           NEW d, IsFiniteSet(DOMAIN d), d \in [DOMAIN d -> Nat],
           \A m \in DOMAIN c \cup DOMAIN d : At(c, m) <= At(d, m),
           NEW x \in DOMAIN c \cup DOMAIN d, At(c, x) < At(d, x)
    PROVE  SumFunction(c) \in Nat /\ SumFunction(d) \in Nat /\ SumFunction(c) < SumFunction(d)
<1> DEFINE C == DOMAIN c
           D == DOMAIN d
           U == C \cup D
           n == Cardinality(U)
<1>1. (\E g : Adds(c, g)) /\ (\E h : Adds(d, h))
    BY SumOfParts
<1>2. PICK g : /\ SumFunction(c) = g[C] /\ g \in [SUBSET C -> Nat] /\ g[{}] = 0
               /\ \A s \in SUBSET C : \A y \in s : g[s] = c[y] + g[s \ {y}]
    BY <1>1, ZenonT(60) DEF Adds
<1>3. PICK h : /\ SumFunction(d) = h[D] /\ h \in [SUBSET D -> Nat] /\ h[{}] = 0
               /\ \A s \in SUBSET D : \A y \in s : h[s] = d[y] + h[s \ {y}]
    BY <1>1, ZenonT(60) DEF Adds
<1>4. IsFiniteSet(U)
    BY FS_Union
<1>5. n \in Nat /\ \A s \in SUBSET U : IsFiniteSet(s) /\ Cardinality(s) \in 0 .. n
    BY <1>4, FS_Subset, FS_CardinalityType
<1>6. \A s \in SUBSET U : \A y \in s : s \ {y} \in SUBSET U /\ Cardinality(s \ {y}) = Cardinality(s) - 1
    <2> SUFFICES ASSUME NEW s \in SUBSET U, NEW y \in s
                 PROVE  s \ {y} \in SUBSET U /\ Cardinality(s \ {y}) = Cardinality(s) - 1
        OBVIOUS
    <2> HIDE DEF U
    <2> QED
        BY <1>4, OneLess
<1>7. \A m \in U : At(c, m) \in Nat /\ At(d, m) \in Nat
    BY DEF At
<1> DEFINE Ok(s) == /\ g[s \cap C] <= h[s \cap D]
                    /\ x \in s => g[s \cap C] < h[s \cap D]
           T == {k \in 0 .. n : \A s \in SUBSET U : Cardinality(s) = k => Ok(s)}
<1> HIDE DEF n
<1>8. 0 \in T
    <2>1. \A s \in SUBSET U : Cardinality(s) = 0 => s = {}
        BY <1>5, FS_EmptySet
    <2>2. {} \cap C = {} /\ {} \cap D = {}
        OBVIOUS
    <2>3. Ok({})
        BY <1>2, <1>3, <2>2
    <2> QED
        BY <1>5, <2>1, <2>3
<1>9. ASSUME NEW k \in 0 .. n, k \in T, k < n
      PROVE  k + 1 \in T
    <2>1. k + 1 \in 0 .. n /\ k + 1 # 0
        BY <1>5, <1>9
    <2> SUFFICES ASSUME NEW s \in SUBSET U, Cardinality(s) = k + 1 PROVE Ok(s)
        BY <2>1
    <2>2. s # {}
        BY <2>1, FS_EmptySet
    <2>3. PICK y \in s : TRUE
        BY <2>2
    <2> DEFINE t == s \ {y}
               gt == g[t \cap C]
               ht == h[t \cap D]
    <2>4. t \in SUBSET U /\ Cardinality(t) = k
        BY <1>5, <1>6, <1>9
    <2>5. Ok(t)
        BY <1>9, <2>4
    <2>6. gt \in Nat /\ ht \in Nat
        BY <1>2, <1>3
    <2>7. g[s \cap C] = At(c, y) + gt
        <3>1. CASE y \in C
            <4>1. (s \cap C) \ {y} = t \cap C /\ y \in s \cap C /\ s \cap C \in SUBSET C
                BY <3>1
            <4>2. g[s \cap C] = c[y] + g[(s \cap C) \ {y}]
                BY <1>2, <4>1
            <4> QED
                BY <3>1, <4>1, <4>2 DEF At
        <3>2. CASE y \notin C
            <4>1. s \cap C = t \cap C /\ At(c, y) = 0
                BY <3>2 DEF At
            <4>2. g[s \cap C] = gt
                BY <4>1
            <4> HIDE DEF gt
            <4> QED
                BY <2>6, <4>1, <4>2
        <3> QED
            BY <3>1, <3>2
    <2>8. h[s \cap D] = At(d, y) + ht
        <3>1. CASE y \in D
            <4>1. (s \cap D) \ {y} = t \cap D /\ y \in s \cap D /\ s \cap D \in SUBSET D
                BY <3>1
            <4>2. h[s \cap D] = d[y] + h[(s \cap D) \ {y}]
                BY <1>3, <4>1
            <4> QED
                BY <3>1, <4>1, <4>2 DEF At
        <3>2. CASE y \notin D
            <4>1. s \cap D = t \cap D /\ At(d, y) = 0
                BY <3>2 DEF At
            <4>2. h[s \cap D] = ht
                BY <4>1
            <4> HIDE DEF ht
            <4> QED
                BY <2>6, <4>1, <4>2
        <3> QED
            BY <3>1, <3>2
    <2>9. /\ At(c, y) \in Nat /\ At(d, y) \in Nat /\ At(c, y) <= At(d, y)
          /\ y = x => At(c, y) < At(d, y)
          /\ x \in s => y = x \/ x \in t
        BY <1>7
    <2>10. gt <= ht /\ (x \in t => gt < ht)
        BY <2>5
    <2> HIDE DEF gt, ht, t
    <2> QED
        BY <2>6, <2>7, <2>8, <2>9, <2>10
<1> HIDE DEF T
<1>10. n \in T
    BY <1>5, <1>8, <1>9, UpTo
<1>11. Ok(U)
    BY <1>10 DEF T, n
<1>12. U \cap C = C /\ U \cap D = D /\ x \in U
    OBVIOUS
<1> QED
    BY <1>2, <1>3, <1>11, <1>12
=============================================================================
