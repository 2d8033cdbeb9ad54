------------------------------- MODULE SetSums -------------------------------
(***************************************************************************)
(* Sums over finite sets: what MapThenSumSet yields for a function, proved *)
(* from its definition as a recursive function on subsets.                 *)
(*                                                                         *)
(* That the recursion defines a function, that it defines only one and     *)
(* that the element it takes first does not matter is each an induction    *)
(* over the subsets, done by taking a minimal counterexample.              *)
(***************************************************************************)
EXTENDS Integers, FiniteSetsExt, FiniteSetTheorems, TLAPS

SumOf(S, f) == MapThenSumSet(LAMBDA x : f[x], S)

Some(s) == CHOOSE x \in s : TRUE

(* A table of the sums over all subsets of S.                                *)
Sums(g, S, f) ==
    g = [s \in SUBSET S |-> IF s = {} THEN 0 ELSE f[Some(s)] + g[s \ {Some(s)}]]

Integral(S, f) == IsFiniteSet(S) /\ \A x \in S : f[x] \in Int

(* A set that is not empty has some element. *)
LEMMA SomeElement ==
    ASSUME NEW s, s # {}
    PROVE  Some(s) \in s
  BY DEF Some

(* Among subsets of a finite set one is minimal. *)
LEMMA MinimalSubset ==
    ASSUME NEW S, IsFiniteSet(S), NEW T \in SUBSET SUBSET S, T # {}
    PROVE  \E x \in T : \A y \in T : ~(y \subseteq x /\ y # x)
<1>1. IsWellFoundedOn(StrictSubsetOrdering(S), SUBSET S)
  BY FS_StrictSubsetOrderingWellFounded, FS_FiniteSubsetsOfFinite
<1>2. PICK x \in T : \A y \in T : <<y, x>> \notin StrictSubsetOrdering(S)
  BY <1>1, WFMin
<1>3. ASSUME NEW y \in T, y \subseteq x, y # x PROVE FALSE
  <2>1. <<y, x>> \in StrictSubsetOrdering(S)
    BY <1>3 DEF StrictSubsetOrdering
  <2> QED
    BY <1>2, <2>1
<1> QED
  BY <1>3

(* A set of naturals that is not empty has a least element. *)
LEMMA LeastNatural ==
    ASSUME NEW N \in SUBSET Nat, N # {}
    PROVE  \E n \in N : \A m \in N : n <= m
<1> DEFINE below == {pair \in Nat \X Nat : pair[1] < pair[2]}
<1>1. IsWellFoundedOn(below, Nat)
  BY NatLessThanWellFounded DEF OpToRel
<1>2. PICK n \in N : \A m \in N : <<m, n>> \notin below
  <2> HIDE DEF below
  <2> QED
    BY <1>1, WFMin
<1>3. ASSUME NEW m \in N PROVE n <= m
  <2>1. n \in Nat /\ m \in Nat /\ <<m, n>> \notin below
    BY <1>2
  <2> QED
    BY <2>1
<1> QED
  BY <1>3

(* Induction over the natural numbers, for a set of them.                  *)
LEMMA Induct ==
    ASSUME NEW S, 0 \in S, \A n \in Nat : n \in S => n + 1 \in S
    PROVE  Nat \subseteq S
<1> SUFFICES ASSUME ~(Nat \subseteq S) PROVE FALSE
  OBVIOUS
<1> DEFINE N == Nat \ S
<1>1. PICK n \in N : \A m \in N : n <= m
  BY LeastNatural
<1>2. n \in Nat /\ n \notin S /\ n # 0
  BY <1>1
<1>3. n - 1 \in Nat /\ n - 1 \notin N
  BY <1>1, <1>2
<1>4. (n - 1) + 1 \in S
  BY <1>3
<1> QED
  BY <1>2, <1>4

(* There is a table: one that is right up to n elements yields one that is   *)
(* right up to n + 1.                                                        *)
LEMMA SumsExist ==
    ASSUME NEW S, NEW f, Integral(S, f)
    PROVE  \E g \in [SUBSET S -> Int] : Sums(g, S, f)
<1> DEFINE Entry(g, s) == IF s = {} THEN 0 ELSE f[Some(s)] + g[s \ {Some(s)}]
           UpTo(n) == \E g \in [SUBSET S -> Int] :
                        \A s \in SUBSET S : Cardinality(s) <= n => g[s] = Entry(g, s)
<1>1. \A s \in SUBSET S : IsFiniteSet(s) /\ Cardinality(s) \in Nat
  BY FS_Subset, FS_CardinalityType DEF Integral
<1>2. ASSUME NEW s \in SUBSET S, s # {}
      PROVE  /\ Some(s) \in s /\ s \ {Some(s)} \in SUBSET S
             /\ Cardinality(s \ {Some(s)}) = Cardinality(s) - 1 /\ f[Some(s)] \in Int
  BY <1>1, <1>2, SomeElement, FS_RemoveElement DEF Integral
<1>3. UpTo(0)
  <2> DEFINE zero == [s \in SUBSET S |-> 0]
  <2>1. ASSUME NEW s \in SUBSET S, Cardinality(s) <= 0 PROVE s = {}
    BY <1>1, <2>1, FS_EmptySet
  <2>2. zero \in [SUBSET S -> Int] /\ \A s \in SUBSET S : s = {} => zero[s] = Entry(zero, s)
    OBVIOUS
  <2> QED
    BY <2>1, <2>2
<1>4. ASSUME NEW n \in Nat, UpTo(n) PROVE UpTo(n + 1)
  <2>1. PICK g \in [SUBSET S -> Int] :
          \A s \in SUBSET S : Cardinality(s) <= n => g[s] = Entry(g, s)
    BY <1>4
  <2> DEFINE h == [s \in SUBSET S |-> Entry(g, s)]
  <2>2. h \in [SUBSET S -> Int]
    <3>1. ASSUME NEW s \in SUBSET S PROVE Entry(g, s) \in Int
      <4>1. s # {} => f[Some(s)] \in Int /\ g[s \ {Some(s)}] \in Int
        BY <1>2, <2>1
      <4> QED
        BY <4>1
    <3> QED
      BY <3>1
  <2>3. ASSUME NEW s \in SUBSET S, Cardinality(s) <= n + 1 PROVE h[s] = Entry(h, s)
    <3>1. CASE s = {}
      BY <3>1
    <3>2. CASE s # {}
      <4> DEFINE t == s \ {Some(s)}
      <4>1. t \in SUBSET S /\ Cardinality(t) <= n
        BY <1>1, <1>2, <2>3, <3>2
      <4>2. h[t] = g[t]
        BY <2>1, <4>1
      <4> QED
        BY <3>2, <4>2
    <3> QED
      BY <3>1, <3>2
  <2> HIDE DEF h, Entry
  <2> QED
    BY <2>2, <2>3
<1>5. \A n \in Nat : UpTo(n)
  <2> DEFINE bad == {n \in Nat : ~UpTo(n)}
  <2> HIDE DEF UpTo
  <2> SUFFICES ASSUME bad # {} PROVE FALSE
    OBVIOUS
  <2>1. PICK n \in bad : \A m \in bad : n <= m
    BY LeastNatural
  <2>2. n # 0
    BY <1>3
  <2>3. n - 1 \in Nat /\ UpTo(n - 1)
    BY <2>1, <2>2
  <2>4. UpTo((n - 1) + 1)
    BY <1>4, <2>3
  <2>5. (n - 1) + 1 = n
    OBVIOUS
  <2> QED
    BY <2>4, <2>5
<1>6. PICK g \in [SUBSET S -> Int] :
        \A s \in SUBSET S : Cardinality(s) <= Cardinality(S) => g[s] = Entry(g, s)
  <2>1. Cardinality(S) \in Nat
    BY <1>1
  <2> HIDE DEF Entry
  <2> QED
    BY <1>5, <2>1
<1>7. \A s \in SUBSET S : g[s] = Entry(g, s)
  BY <1>6, FS_Subset DEF Integral
<1> QED
  BY <1>7 DEF Sums

(* There is only one. *)
LEMMA SumsUnique ==
    ASSUME NEW S, NEW f, IsFiniteSet(S), NEW g, Sums(g, S, f), NEW h, Sums(h, S, f)
    PROVE  g = h
<1> DEFINE bad == {s \in SUBSET S : g[s] # h[s]}
<1>1. bad = {}
  <2> SUFFICES ASSUME bad # {} PROVE FALSE
    OBVIOUS
  <2>1. PICK s \in bad : \A t \in bad : ~(t \subseteq s /\ t # s)
    <3>1. bad \in SUBSET SUBSET S
      OBVIOUS
    <3> HIDE DEF bad
    <3> QED
      BY <3>1, MinimalSubset
  <2>2. s # {}
    BY DEF Sums
  <2>3. Some(s) \in s
    BY <2>2, SomeElement
  <2>4. g[s \ {Some(s)}] = h[s \ {Some(s)}]
    BY <2>1, <2>3
  <2> QED
    BY <2>2, <2>4 DEF Sums
<1> QED
  BY <1>1 DEF Sums

(* The sum over the set is its entry in the table. *)
LEMMA SumIsEntry ==
    ASSUME NEW S, NEW f, Integral(S, f), NEW g, Sums(g, S, f)
    PROVE  SumOf(S, f) = g[S]
<1> DEFINE table == CHOOSE h : Sums(h, S, f)
<1>1. SumOf(S, f) = table[S]
  BY DEF SumOf, MapThenSumSet, MapThenFoldSet, Sums, Some
<1>2. Sums(table, S, f)
  <2> HIDE DEF Sums
  <2> QED
    BY Zenon
<1> HIDE DEF table
<1>3. table = g
  BY <1>2, SumsUnique DEF Integral
<1> QED
  BY <1>1, <1>3

(* A part of a table is a table. *)
LEMMA SumsRestrict ==
    ASSUME NEW S, NEW f, NEW g, Sums(g, S, f), NEW T \in SUBSET S
    PROVE  Sums([s \in SUBSET T |-> g[s]], T, f)
<1> DEFINE h == [s \in SUBSET T |-> g[s]]
<1>1. ASSUME NEW s \in SUBSET T
      PROVE  h[s] = IF s = {} THEN 0 ELSE f[Some(s)] + h[s \ {Some(s)}]
  BY DEF Sums
<1> QED
  BY <1>1 DEF Sums

(* Any element can be taken first.                                           *)
AnyFirst(g, S, f) == \A s \in SUBSET S : \A a \in s : g[s] = f[a] + g[s \ {a}]

(* Which element is taken first does not matter. *)
LEMMA SumsAnyElement ==
    ASSUME NEW S, NEW f, Integral(S, f), NEW g \in [SUBSET S -> Int], Sums(g, S, f)
    PROVE  AnyFirst(g, S, f)
<1> DEFINE bad == {s \in SUBSET S : \E a \in s : g[s] # f[a] + g[s \ {a}]}
<1> SUFFICES ASSUME bad # {} PROVE FALSE
  BY DEF AnyFirst
<1>1. PICK s \in bad : \A t \in bad : ~(t \subseteq s /\ t # s)
  <2>1. bad \in SUBSET SUBSET S
    OBVIOUS
  <2> HIDE DEF bad
  <2> QED
    BY <2>1, MinimalSubset DEF Integral
<1>2. PICK a \in s : g[s] # f[a] + g[s \ {a}]
  OBVIOUS
<1> DEFINE b == Some(s)
<1>3. b \in s
  BY SomeElement
<1>4. g[s] = f[b] + g[s \ {b}]
  BY DEF Sums
<1>5. a # b
  BY <1>2, <1>4
<1> HIDE DEF b
<1>6. ASSUME NEW t \in SUBSET S, t \subseteq s, t # s, NEW c \in t
      PROVE  g[t] = f[c] + g[t \ {c}]
  BY <1>1, <1>6
<1> DEFINE without == (s \ {a}) \ {b}
<1>7. g[s \ {b}] = f[a] + g[without]
  <2>1. (s \ {b}) \ {a} = without
    OBVIOUS
  <2> HIDE DEF without
  <2>2. s \ {b} \in SUBSET S /\ s \ {b} \subseteq s /\ s \ {b} # s /\ a \in s \ {b}
    BY <1>2, <1>3, <1>5
  <2> QED
    BY <1>6, <2>1, <2>2
<1>8. g[s \ {a}] = f[b] + g[without]
  <2>1. s \ {a} \in SUBSET S /\ s \ {a} \subseteq s /\ s \ {a} # s /\ b \in s \ {a}
    BY <1>2, <1>3, <1>5
  <2> QED
    BY <1>6, <2>1
<1>9. f[a] \in Int /\ f[b] \in Int /\ g[without] \in Int
  BY <1>2, <1>3 DEF Integral
<1> HIDE DEF without
<1>10. g[s] = f[b] + (f[a] + g[without]) /\ g[s] # f[a] + (f[b] + g[without])
  BY <1>2, <1>4, <1>7, <1>8
<1> QED
  BY <1>9, <1>10

-----------------------------------------------------------------------------
(* The facts to cite. *)

(* A sum of nothing. *)
THEOREM SumEmpty ==
    ASSUME NEW f
    PROVE  SumOf({}, f) = 0
<1>1. Integral({}, f)
  BY FS_EmptySet DEF Integral
<1>2. PICK g : Sums(g, {}, f)
  BY <1>1, SumsExist
<1>3. g[{}] = 0
  BY <1>2 DEF Sums
<1> QED
  BY <1>1, <1>2, <1>3, SumIsEntry

(* A sum of integers. *)
THEOREM SumType ==
    ASSUME NEW S, NEW f, Integral(S, f)
    PROVE  SumOf(S, f) \in Int
<1>1. PICK g \in [SUBSET S -> Int] : Sums(g, S, f)
  BY SumsExist
<1>2. SumOf(S, f) = g[S]
  BY <1>1, SumIsEntry
<1> QED
  BY <1>2

(* Any element can be taken out of a sum. *)
THEOREM SumTakeOut ==
    ASSUME NEW S, NEW f, Integral(S, f), NEW a \in S
    PROVE  SumOf(S, f) = f[a] + SumOf(S \ {a}, f)
<1>1. PICK g \in [SUBSET S -> Int] : Sums(g, S, f)
  BY SumsExist
<1> DEFINE T == S \ {a}
           h == [s \in SUBSET T |-> g[s]]
<1>2. SumOf(S, f) = g[S]
  BY <1>1, SumIsEntry
<1>3. Integral(T, f) /\ T \in SUBSET S
  BY FS_RemoveElement DEF Integral
<1>4. Sums(h, T, f) /\ h[T] = g[T]
  BY <1>1, <1>3, SumsRestrict
<1>5. SumOf(T, f) = g[T]
  <2> HIDE DEF T, h
  <2> QED
    BY <1>3, <1>4, SumIsEntry
<1>6. AnyFirst(g, S, f)
  BY <1>1, SumsAnyElement
<1>7. g[S] = f[a] + g[T]
  BY <1>6 DEF AnyFirst
<1> QED
  BY <1>2, <1>5, <1>7

(* A sum depends on the values at its elements only. *)
THEOREM SumSame ==
    ASSUME NEW S, NEW f, Integral(S, f), NEW h, \A x \in S : h[x] = f[x]
    PROVE  SumOf(S, h) = SumOf(S, f)
<1>1. PICK g \in [SUBSET S -> Int] : Sums(g, S, f)
  BY SumsExist
<1>2. ASSUME NEW s \in SUBSET S
      PROVE  (IF s = {} THEN 0 ELSE f[Some(s)] + g[s \ {Some(s)}])
               = (IF s = {} THEN 0 ELSE h[Some(s)] + g[s \ {Some(s)}])
  BY SomeElement
<1>3. Sums(g, S, h)
  BY <1>1, <1>2 DEF Sums
<1>4. Integral(S, h)
  BY DEF Integral
<1> QED
  BY <1>1, <1>3, <1>4, SumIsEntry

(* A sum in which one term has changed. *)
THEOREM SumAfter ==
    ASSUME NEW S, NEW f, Integral(S, f), NEW a \in S, NEW d \in Int,
           NEW h, h[a] = f[a] + d, \A x \in S \ {a} : h[x] = f[x]
    PROVE  SumOf(S, h) = SumOf(S, f) + d
<1>1. Integral(S, h) /\ Integral(S \ {a}, f)
  <2>1. IsFiniteSet(S \ {a}) /\ \A x \in S : f[x] \in Int
    BY FS_RemoveElement DEF Integral
  <2>2. ASSUME NEW x \in S PROVE h[x] \in Int
    BY <2>1
  <2> QED
    BY <2>1, <2>2 DEF Integral
<1>2. SumOf(S, f) = f[a] + SumOf(S \ {a}, f)
  BY SumTakeOut
<1>3. SumOf(S, h) = h[a] + SumOf(S \ {a}, h)
  BY <1>1, SumTakeOut
<1>4. SumOf(S \ {a}, h) = SumOf(S \ {a}, f)
  BY <1>1, SumSame
<1>5. SumOf(S \ {a}, f) \in Int /\ f[a] \in Int
  BY <1>1, SumType DEF Integral
<1> QED
  BY <1>2, <1>3, <1>4, <1>5

(* A sum with a term more. *)
THEOREM SumAdd ==
    ASSUME NEW S, NEW f, Integral(S, f), NEW a, a \notin S, NEW T, T = S \cup {a},
           NEW h, h[a] \in Int, \A x \in S : h[x] = f[x]
    PROVE  SumOf(T, h) = SumOf(S, f) + h[a]
<1>1. Integral(T, h) /\ a \in T /\ T \ {a} = S
  BY FS_AddElement DEF Integral
<1>2. SumOf(T, h) = h[a] + SumOf(T \ {a}, h)
  BY <1>1, SumTakeOut
<1>3. SumOf(T, h) = h[a] + SumOf(S, h)
  BY <1>1, <1>2, Zenon
<1>4. SumOf(S, h) = SumOf(S, f) /\ SumOf(S, f) \in Int
  BY SumSame, SumType
<1> QED
  BY <1>3, <1>4

(* A sum of zeros. *)
THEOREM SumZero ==
    ASSUME NEW S, NEW f, Integral(S, f), \A x \in S : f[x] = 0
    PROVE  SumOf(S, f) = 0
<1> DEFINE g == [s \in SUBSET S |-> 0]
<1>1. ASSUME NEW s \in SUBSET S
      PROVE  0 = IF s = {} THEN 0 ELSE f[Some(s)] + g[s \ {Some(s)}]
  BY SomeElement
<1>2. Sums(g, S, f)
  BY <1>1 DEF Sums
<1>3. g[S] = 0
  OBVIOUS
<1> HIDE DEF g
<1> QED
  BY <1>2, <1>3, SumIsEntry
=============================================================================
