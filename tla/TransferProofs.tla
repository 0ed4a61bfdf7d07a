--------------------------- MODULE TransferProofs ---------------------------
(***************************************************************************)
(* Proofs about what a guest sends, keeps and records: the sessions, the   *)
(* channel, the shared document and the rollback window of a mesh of       *)
(* devices, the memory backend of storage, captured frames and compared    *)
(* traces.  They hold for every set of operations, keys, sizes and limits. *)
(*                                                                         *)
(* Byte counts are sums, which the library defines by recursion on sets;   *)
(* the first section shows what a sum is and how it moves with one value.  *)
(***************************************************************************)
EXTENDS DeviceMesh, MemoryStorage, MediaCapture, TraceTools,
        FiniteSetTheorems, WellFoundedInduction, TLAPS
-----------------------------------------------------------------------------
(* Folds.  The library defines a fold by recursion on sets; that such a    *)
(* function exists, and what it computes, is shown by induction, in the    *)
(* form that a set of numbers or of subsets is all of them.                *)

LEMMA NumberInduction ==
    ASSUME NEW T \in SUBSET Nat, 0 \in T, \A n \in T : n + 1 \in T
    PROVE  T = Nat
  <1> SUFFICES ASSUME Nat \ T # {}
               PROVE  FALSE
    BY Zenon
  <1>1. PICK x \in Nat \ T : \A y \in Nat \ T : ~(<<y, x>> \in OpToRel(<, Nat))
    BY Zenon, WFMin, NatLessThanWellFounded
  <1>0. x \in Nat /\ x \notin T /\ x # 0
    BY <1>1, Zenon
  <1>2. x - 1 \in Nat /\ x - 1 < x /\ (x - 1) + 1 = x
    BY ONLY <1>0, SMT
  <1>3. x - 1 \in T
    BY <1>1, <1>2, Zenon DEF OpToRel
  <1> QED
    BY <1>0, <1>2, <1>3, Zenon

LEMMA SubsetInduction ==
    ASSUME NEW S, IsFiniteSet(S), NEW P \in SUBSET (SUBSET S), {} \in P,
           \A s \in P : \A x \in S \ s : s \cup {x} \in P
    PROVE  P = SUBSET S
  <1> DEFINE T == {n \in Nat : \A s \in SUBSET S : Cardinality(s) = n => s \in P}
  <1>0. \A s \in SUBSET S : IsFiniteSet(s) /\ Cardinality(s) \in Nat
    BY FS_Subset, FS_CardinalityType, Zenon
  <1>1. 0 \in T
    BY <1>0, FS_EmptySet, Zenon
  <1>2. ASSUME NEW n \in T
        PROVE  n + 1 \in T
    <2> SUFFICES ASSUME NEW s \in SUBSET S, Cardinality(s) = n + 1
                 PROVE  s \in P
      BY <1>2
    <2>0. n \in Nat /\ Cardinality({}) = 0
      BY FS_EmptySet, Zenon
    <2>1. s # {}
      <3> SUFFICES ASSUME s = {}
                   PROVE  FALSE
        OBVIOUS
      <3>1. n + 1 = 0
        BY <2>0, Zenon
      <3> QED
        BY ONLY <2>0, <3>1, SMT
    <2>2. PICK x \in s : TRUE
      BY <2>1, Zenon
    <2>3. Cardinality(s \ {x}) = n
      <3>1. Cardinality(s \ {x}) = Cardinality(s) - 1
        BY <1>0, <2>2, FS_RemoveElement, Zenon
      <3> QED
        BY <3>1, <1>2
    <2>4. s \ {x} \in P /\ x \in S \ (s \ {x}) /\ (s \ {x}) \cup {x} = s
      BY <1>2, <2>2, <2>3, Zenon
    <2> QED
      BY <2>4, Zenon
  <1> HIDE DEF T
  <1>3. T \in SUBSET Nat
    BY Zenon DEF T
  <1>4. T = Nat
    BY <1>1, <1>2, <1>3, NumberInduction, Zenon
  <1> QED
    BY <1>0, <1>4, Zenon DEF T

(* h is the fold of f over the subsets in D, which takes out pick[t] last. *)
Folds(h, f, base, pick, D) ==
    \A t \in D : h[t] = IF t = {} THEN base ELSE f[<<pick[t], h[t \ {pick[t]}]>>]

Layer(S, n) == {t \in SUBSET S : Cardinality(t) <= n}

LEMMA FoldExists ==
    ASSUME NEW S, IsFiniteSet(S), NEW V, NEW base \in V, NEW f \in [S \X V -> V],
           NEW pick, \A t \in SUBSET S : t # {} => pick[t] \in t
    PROVE  \E h \in [SUBSET S -> V] : Folds(h, f, base, pick, SUBSET S)
  <1> DEFINE T == {n \in Nat : \E h \in [Layer(S, n) -> V] : Folds(h, f, base, pick, Layer(S, n))}
  <1>0. \A s \in SUBSET S : IsFiniteSet(s) /\ Cardinality(s) \in Nat /\ Cardinality(s) <= Cardinality(S)
    BY FS_Subset, FS_CardinalityType, Zenon
  <1>1. 0 \in T
    <2>1. \A t \in Layer(S, 0) : t = {}
      <3> SUFFICES ASSUME NEW t \in Layer(S, 0)
                   PROVE  t = {}
        OBVIOUS
      <3>1. IsFiniteSet(t) /\ Cardinality(t) \in Nat /\ Cardinality(t) <= 0
        BY <1>0, Zenon DEF Layer
      <3>2. Cardinality(t) = 0
        BY <3>1
      <3> QED
        BY <3>1, <3>2, FS_EmptySet, Zenon
    <2>2. [t \in Layer(S, 0) |-> base] \in [Layer(S, 0) -> V]
      BY Zenon
    <2>3. Folds([t \in Layer(S, 0) |-> base], f, base, pick, Layer(S, 0))
      BY <2>1, Zenon DEF Folds
    <2>4. 0 \in Nat
      OBVIOUS
    <2> QED
      BY <2>2, <2>3, <2>4, Zenon
  <1>2. ASSUME NEW n \in T
        PROVE  n + 1 \in T
    <2>0. n \in Nat /\ n + 1 \in Nat
      BY <1>2
    <2>1. PICK g \in [Layer(S, n) -> V] : Folds(g, f, base, pick, Layer(S, n))
      BY <1>2, Zenon
    <2> DEFINE h == [t \in Layer(S, n + 1) |->
                        IF t \in Layer(S, n) THEN g[t] ELSE f[<<pick[t], g[t \ {pick[t]}]>>]]
    <2>2. ASSUME NEW t \in Layer(S, n + 1), t # {}
          PROVE  pick[t] \in t /\ pick[t] \in S /\ t \ {pick[t]} \in Layer(S, n)
      <3>1. t \in SUBSET S /\ Cardinality(t) <= n + 1 /\ IsFiniteSet(t) /\ Cardinality(t) \in Nat
        BY <1>0, <2>2, Zenon DEF Layer
      <3>2. pick[t] \in t
        BY <2>2, <3>1, Zenon
      <3>3. Cardinality(t \ {pick[t]}) = Cardinality(t) - 1
        BY <3>1, <3>2, FS_RemoveElement, Zenon
      <3>4. Cardinality(t \ {pick[t]}) <= n
        BY ONLY <3>1, <3>3, <2>0, SMT
      <3> QED
        BY <3>1, <3>2, <3>4, Zenon DEF Layer
    <2>3. ASSUME NEW t \in Layer(S, n)
          PROVE  t \in Layer(S, n + 1)
      <3>1. t \in SUBSET S /\ Cardinality(t) <= n /\ Cardinality(t) \in Nat
        BY <1>0, <2>3, Zenon DEF Layer
      <3>2. Cardinality(t) <= n + 1
        BY ONLY <3>1, <2>0, SMT
      <3> QED
        BY <3>1, <3>2, Zenon DEF Layer
    <2>4. {} \in Layer(S, n)
      <3>1. Cardinality({}) <= n
        BY <2>0, FS_EmptySet
      <3> QED
        BY <3>1, Zenon DEF Layer
    <2>5. h \in [Layer(S, n + 1) -> V]
      <3>1. ASSUME NEW t \in Layer(S, n + 1), t \notin Layer(S, n)
            PROVE  f[<<pick[t], g[t \ {pick[t]}]>>] \in V
        <4>1. t # {}
          BY <3>1, <2>4, Zenon
        <4>2. <<pick[t], g[t \ {pick[t]}]>> \in S \X V
          BY <4>1, <2>1, <2>2, Zenon
        <4> QED
          BY <4>2, Zenon
      <3> QED
        BY <3>1, <2>1, Zenon
    <2>6. ASSUME NEW t \in Layer(S, n + 1)
          PROVE  h[t] = IF t = {} THEN base ELSE f[<<pick[t], h[t \ {pick[t]}]>>]
      <3>1. CASE t = {}
        BY <3>1, <2>1, <2>3, <2>4, Zenon DEF Folds
      <3>2. CASE t # {}
        <4>1. h[t \ {pick[t]}] = g[t \ {pick[t]}]
          BY <3>2, <2>2, <2>3, Zenon
        <4>2. h[t] = f[<<pick[t], g[t \ {pick[t]}]>>]
          BY <3>2, <2>1, <2>6, Zenon DEF Folds
        <4> QED
          BY <3>2, <4>1, <4>2, Zenon
      <3> QED
        BY <3>1, <3>2
    <2> HIDE DEF h
    <2>7. Folds(h, f, base, pick, Layer(S, n + 1))
      BY <2>6, Zenon DEF Folds
    <2> QED
      BY <2>0, <2>5, <2>7, Zenon
  <1> HIDE DEF T
  <1>3. T \in SUBSET Nat
    BY Zenon DEF T
  <1>4. T = Nat
    BY <1>1, <1>2, <1>3, NumberInduction, Zenon
  <1>5. Cardinality(S) \in T
    BY <1>4, FS_CardinalityType, Zenon
  <1> DEFINE D == Layer(S, Cardinality(S))
  <1>6. D = SUBSET S
    BY <1>0, Zenon DEF Layer
  <1>7. PICK h \in [D -> V] : Folds(h, f, base, pick, D)
    BY <1>5, Zenon DEF T
  <1> HIDE DEF D
  <1>8. h \in [SUBSET S -> V]
    BY <1>6, <1>7, SMT
  <1>9. Folds(h, f, base, pick, SUBSET S)
    BY <1>6, <1>7, Zenon DEF Folds
  <1> QED
    BY <1>8, <1>9, Zenon

Summable(g, S) == IsFiniteSet(S) /\ \A x \in S : g[x] \in Int

(* h takes the sums of g over the subsets of S.                            *)
Sums(h, g, S) ==
    \A t \in SUBSET S :
        /\ h[t] \in Int
        /\ h[t] = IF t = {} THEN 0
                  ELSE g[CHOOSE x \in t : TRUE] + h[t \ {CHOOSE x \in t : TRUE}]

Splits(h, g, S) == \A x \in S : h[S] = g[x] + h[S \ {x}]

SameOn(h, k, S) == \A t \in SUBSET S : h[t] = k[t]

(* A sum may take out any member first.                                    *)
LEMMA SumStep ==
    ASSUME NEW S, NEW g, NEW h, Summable(g, S), Sums(h, g, S)
    PROVE  Splits(h, g, S)
  <1> DEFINE T == {n \in Nat : \A t \in SUBSET S : Cardinality(t) = n =>
                                   \A x \in t : h[t] = g[x] + h[t \ {x}]}
  <1>0. \A s \in SUBSET S : IsFiniteSet(s) /\ Cardinality(s) \in Nat
    BY FS_Subset, FS_CardinalityType, Zenon DEF Summable
  <1>1. 0 \in T
    BY <1>0, FS_EmptySet
  <1>2. ASSUME NEW n \in T
        PROVE  n + 1 \in T
    <2> SUFFICES ASSUME NEW t \in SUBSET S, Cardinality(t) = n + 1, NEW x \in t
                 PROVE  h[t] = g[x] + h[t \ {x}]
      BY <1>2
    <2> DEFINE y == CHOOSE z \in t : TRUE
    <2>1. y \in t /\ h[t] = g[y] + h[t \ {y}]
      BY Zenon DEF Sums
    <2>2. \A z \in t : Cardinality(t \ {z}) = n
      <3> SUFFICES ASSUME NEW z \in t
                   PROVE  Cardinality(t \ {z}) = n
        OBVIOUS
      <3>1. Cardinality(t \ {z}) = Cardinality(t) - 1
        BY <1>0, FS_RemoveElement, Zenon
      <3> QED
        BY <3>1, <1>2
    <2> HIDE DEF y
    <2>3. CASE x # y
      <3>1. h[t \ {y}] = g[x] + h[(t \ {y}) \ {x}]
        BY <1>2, <2>1, <2>2, <2>3, Zenon
      <3>2. h[t \ {x}] = g[y] + h[(t \ {x}) \ {y}]
        BY <1>2, <2>1, <2>2, <2>3, Zenon
      <3>3. (t \ {y}) \ {x} = (t \ {x}) \ {y}
        BY Zenon
      <3>4. g[x] \in Int /\ g[y] \in Int /\ h[(t \ {x}) \ {y}] \in Int
        BY <2>1, Zenon DEF Summable, Sums
      <3> DEFINE whole == h[t]
                 lessX == h[t \ {x}]
                 lessY == h[t \ {y}]
                 less == h[(t \ {x}) \ {y}]
                 u == g[x]
                 v == g[y]
      <3>5. /\ whole = v + lessY /\ lessY = u + less /\ lessX = v + less
            /\ u \in Int /\ v \in Int /\ less \in Int
        BY <2>1, <3>1, <3>2, <3>3, <3>4, Zenon
      <3> SUFFICES whole = u + lessX
        OBVIOUS
      <3> HIDE DEF whole, lessX, lessY, less, u, v
      <3> QED
        BY ONLY <3>5, SMT
    <2> QED
      BY <2>1, <2>3, Zenon
  <1> HIDE DEF T
  <1>3. T \in SUBSET Nat
    BY Zenon DEF T
  <1>4. T = Nat
    BY <1>1, <1>2, <1>3, NumberInduction, Zenon
  <1>5. S \in SUBSET S
    BY Zenon
  <1> QED
    BY <1>0, <1>4, <1>5, Zenon DEF T, Splits

LEMMA SumsAreUnique ==
    ASSUME NEW S, NEW g, NEW h, NEW k, Summable(g, S), Sums(h, g, S), Sums(k, g, S)
    PROVE  SameOn(h, k, S)
  <1> DEFINE T == {n \in Nat : \A t \in SUBSET S : Cardinality(t) = n => h[t] = k[t]}
  <1>0. \A s \in SUBSET S : IsFiniteSet(s) /\ Cardinality(s) \in Nat
    BY FS_Subset, FS_CardinalityType, Zenon DEF Summable
  <1>1. 0 \in T
    <2>1. \A t \in SUBSET S : Cardinality(t) = 0 => t = {}
      BY <1>0, FS_EmptySet, Zenon
    <2>2. {} \in SUBSET S
      BY Zenon
    <2>3. h[{}] = 0 /\ k[{}] = 0
      BY <2>2, Zenon DEF Sums
    <2> QED
      BY <2>1, <2>3
  <1>2. ASSUME NEW n \in T
        PROVE  n + 1 \in T
    <2> SUFFICES ASSUME NEW t \in SUBSET S, Cardinality(t) = n + 1
                 PROVE  h[t] = k[t]
      BY <1>2
    <2>0. n \in Nat /\ Cardinality({}) = 0
      BY FS_EmptySet, Zenon
    <2>1. t # {}
      <3> SUFFICES ASSUME t = {}
                   PROVE  FALSE
        OBVIOUS
      <3>1. n + 1 = 0
        BY <2>0, Zenon
      <3> QED
        BY ONLY <2>0, <3>1, SMT
    <2> DEFINE y == CHOOSE x \in t : TRUE
    <2>2. y \in t
      BY <2>1, Zenon
    <2>3. h[t] = g[y] + h[t \ {y}] /\ k[t] = g[y] + k[t \ {y}]
      BY <2>1, Zenon DEF Sums
    <2> HIDE DEF y
    <2>4. Cardinality(t \ {y}) = n
      <3>1. Cardinality(t \ {y}) = Cardinality(t) - 1
        BY <1>0, <2>2, FS_RemoveElement, Zenon
      <3> QED
        BY <3>1, <2>0
    <2>5. h[t \ {y}] = k[t \ {y}]
      BY <2>4, Zenon
    <2> QED
      BY <2>3, <2>5, Zenon
  <1> HIDE DEF T
  <1>3. T \in SUBSET Nat
    BY Zenon DEF T
  <1>4. T = Nat
    BY <1>1, <1>2, <1>3, NumberInduction, Zenon
  <1> QED
    BY <1>0, <1>4, Zenon DEF T, SameOn

LEMMA SumsExist ==
    ASSUME NEW S, NEW g, Summable(g, S)
    PROVE  \E h \in [SUBSET S -> Int] : Sums(h, g, S)
  <1> DEFINE f == [p \in S \X Int |-> g[p[1]] + p[2]]
             pick == [t \in SUBSET S |-> CHOOSE x \in t : TRUE]
  <1>0. IsFiniteSet(S) /\ \A x \in S : g[x] \in Int
    BY Zenon DEF Summable
  <1>1. f \in [S \X Int -> Int]
    <2>1. ASSUME NEW p \in S \X Int
          PROVE  g[p[1]] + p[2] \in Int
      <3>1. g[p[1]] \in Int /\ p[2] \in Int
        BY <1>0, Zenon
      <3> QED
        BY ONLY <3>1, SMT
    <2> QED
      BY <2>1, Zenon
  <1>2. \A t \in SUBSET S : t # {} => pick[t] \in t
    BY Zenon
  <1>3. 0 \in Int
    OBVIOUS
  <1>4. \A x \in S, v \in Int : f[<<x, v>>] = g[x] + v
    BY SMT
  <1> HIDE DEF f
  <1>5. PICK h \in [SUBSET S -> Int] : Folds(h, f, 0, pick, SUBSET S)
    BY <1>0, <1>1, <1>2, <1>3, FoldExists, Zenon
  <1>6. Sums(h, g, S)
    <2> SUFFICES ASSUME NEW t \in SUBSET S
                 PROVE  h[t] = IF t = {} THEN 0
                               ELSE g[CHOOSE x \in t : TRUE] + h[t \ {CHOOSE x \in t : TRUE}]
      BY <1>5, Zenon DEF Sums
    <2> DEFINE y == CHOOSE x \in t : TRUE
    <2>1. CASE t = {}
      BY <2>1, <1>5, Zenon DEF Folds
    <2>2. CASE t # {}
      <3>1. pick[t] = y /\ y \in t /\ y \in S
        BY <2>2, Zenon
      <3> HIDE DEF pick
      <3>2. h[t] = f[<<pick[t], h[t \ {pick[t]}]>>]
        BY <2>2, <1>5, Zenon DEF Folds
      <3> HIDE DEF y
      <3>3. h[t] = f[<<y, h[t \ {y}]>>] /\ h[t \ {y}] \in Int
        BY <3>1, <3>2, Zenon
      <3>4. h[t] = g[y] + h[t \ {y}]
        BY <3>1, <3>3, <1>4, Zenon
      <3> QED
        BY <2>2, <3>4, Zenon DEF y
    <2> QED
      BY <2>1, <2>2
  <1> QED
    BY <1>5, <1>6, Zenon

(* The library's sum is one of these.                                      *)
LEMMA SumIsOne ==
    ASSUME NEW S, NEW g, Summable(g, S)
    PROVE  \E h : Sums(h, g, S) /\ SumFunctionOnSet(g, S) = h[S]
  <1> DEFINE E(h) == h = [t \in SUBSET S |-> IF t = {} THEN 0
                               ELSE g[CHOOSE x \in t : TRUE] + h[t \ {CHOOSE x \in t : TRUE}]]
             h == CHOOSE i : E(i)
  <1>1. PICK k \in [SUBSET S -> Int] : Sums(k, g, S)
    BY SumsExist, Zenon
  <1>2. E(k)
    BY <1>1, Zenon DEF Sums
  <1>3. E(h)
    BY <1>2, Zenon
  <1>4. SumFunctionOnSet(g, S) = h[S]
    BY DEF SumFunctionOnSet, FoldFunctionOnSet, MapThenFoldSet
  <1> HIDE DEF h
  <1>5. \A t \in SUBSET S :
            h[t] = IF t = {} THEN 0 ELSE g[CHOOSE x \in t : TRUE] + h[t \ {CHOOSE x \in t : TRUE}]
    BY <1>3, Zenon
  <1>6. Sums(h, g, S)
    <2> DEFINE T == {n \in Nat : \A t \in SUBSET S : Cardinality(t) = n => h[t] \in Int}
    <2>0. IsFiniteSet(S) /\ \A x \in S : g[x] \in Int
      BY Zenon DEF Summable
    <2>1. \A s \in SUBSET S : IsFiniteSet(s) /\ Cardinality(s) \in Nat
      BY <2>0, FS_Subset, FS_CardinalityType, Zenon
    <2>2. 0 \in T
      <3>1. \A t \in SUBSET S : Cardinality(t) = 0 => t = {}
        BY <2>1, FS_EmptySet, Zenon
      <3>2. h[{}] = 0
        BY <1>5, Zenon
      <3>3. 0 \in Nat /\ 0 \in Int
        OBVIOUS
      <3> QED
        BY <3>1, <3>2, <3>3, Zenon
    <2>3. ASSUME NEW n \in T
          PROVE  n + 1 \in T
      <3> SUFFICES ASSUME NEW t \in SUBSET S, Cardinality(t) = n + 1
                   PROVE  h[t] \in Int
        BY <2>3
      <3>0. n \in Nat /\ Cardinality({}) = 0
        BY FS_EmptySet, Zenon
      <3>1. CASE t = {}
        <4>1. h[t] = 0
          BY <3>1, <1>5, Zenon
        <4> QED
          BY <4>1
      <3>2. CASE t # {}
        <4> DEFINE y == CHOOSE x \in t : TRUE
        <4>1. y \in t /\ y \in S
          BY <3>2, Zenon
        <4>2. h[t] = g[y] + h[t \ {y}]
          BY <3>2, <1>5, Zenon
        <4> HIDE DEF y
        <4>3. Cardinality(t \ {y}) = n
          <5>1. Cardinality(t \ {y}) = Cardinality(t) - 1
            BY <2>1, <4>1, FS_RemoveElement, Zenon
          <5> QED
            BY <5>1, <3>0
        <4>4. h[t \ {y}] \in Int /\ g[y] \in Int
          BY <4>1, <4>3, <2>0, Zenon
        <4> QED
          BY ONLY <4>2, <4>4, SMT
      <3> QED
        BY <3>1, <3>2
    <2> HIDE DEF T
    <2>4. T \in SUBSET Nat
      BY Zenon DEF T
    <2>5. T = Nat
      BY <2>2, <2>3, <2>4, NumberInduction, Zenon
    <2>6. \A t \in SUBSET S : h[t] \in Int
      BY <2>1, <2>5, Zenon DEF T
    <2> QED
      BY <1>5, <2>6, Zenon DEF Sums
  <1> QED
    BY <1>4, <1>6, Zenon

LEMMA SumOfNothing ==
    ASSUME NEW g
    PROVE  SumFunctionOnSet(g, {}) = 0
  <1>1. Summable(g, {})
    BY FS_EmptySet, Zenon DEF Summable
  <1>2. PICK h : Sums(h, g, {}) /\ SumFunctionOnSet(g, {}) = h[{}]
    BY <1>1, SumIsOne, Zenon
  <1> QED
    BY <1>2, Zenon DEF Sums

(* A sum is that of any member and of the others.                          *)
LEMMA SumWithout ==
    ASSUME NEW S, NEW g, Summable(g, S)
    PROVE  /\ SumFunctionOnSet(g, S) \in Int
           /\ \A x \in S : /\ SumFunctionOnSet(g, S) = g[x] + SumFunctionOnSet(g, S \ {x})
                           /\ SumFunctionOnSet(g, S \ {x}) \in Int /\ g[x] \in Int
  <1>1. PICK h : Sums(h, g, S) /\ SumFunctionOnSet(g, S) = h[S]
    BY SumIsOne, Zenon
  <1>2. ASSUME NEW x \in S
        PROVE  /\ SumFunctionOnSet(g, S) = g[x] + SumFunctionOnSet(g, S \ {x})
               /\ SumFunctionOnSet(g, S \ {x}) \in Int /\ g[x] \in Int
    <2> DEFINE R == S \ {x}
    <2>1. Summable(g, R) /\ R \in SUBSET S /\ R \in SUBSET R
      BY FS_Subset, Zenon DEF Summable
    <2>2. h[S] = g[x] + h[R]
      <3>1. Splits(h, g, S)
        BY <1>1, SumStep, Zenon
      <3> QED
        BY <3>1, Zenon DEF Splits
    <2>3. h[R] \in Int /\ g[x] \in Int
      BY <1>1, <2>1, Zenon DEF Sums, Summable
    <2> HIDE DEF R
    <2>4. PICK k : Sums(k, g, R) /\ SumFunctionOnSet(g, R) = k[R]
      BY <2>1, SumIsOne, Zenon
    <2>5. Sums(h, g, R)
      <3>1. \A t \in SUBSET R : t \in SUBSET S
        BY <2>1, Zenon
      <3> QED
        BY <1>1, <3>1, Zenon DEF Sums
    <2>6. h[R] = k[R]
      <3>1. SameOn(h, k, R)
        BY <2>1, <2>4, <2>5, SumsAreUnique, Zenon
      <3> QED
        BY <2>1, <3>1, Zenon DEF SameOn
    <2> QED
      BY <1>1, <2>2, <2>3, <2>4, <2>6, Zenon DEF R
  <1>3. h[S] \in Int
    BY <1>1, Zenon DEF Sums
  <1> QED
    BY <1>1, <1>2, <1>3, Zenon

(* Two functions that agree have the same sum.                             *)
LEMMA SumsAgree ==
    ASSUME NEW S, NEW g, NEW f, Summable(g, S), \A x \in S : f[x] = g[x]
    PROVE  SumFunctionOnSet(f, S) = SumFunctionOnSet(g, S)
  <1>1. PICK h : Sums(h, g, S) /\ SumFunctionOnSet(g, S) = h[S]
    BY SumIsOne, Zenon
  <1>2. Summable(f, S)
    BY Zenon DEF Summable
  <1>3. PICK k : Sums(k, f, S) /\ SumFunctionOnSet(f, S) = k[S]
    BY <1>2, SumIsOne, Zenon
  <1>4. Sums(k, g, S)
    <2>1. \A t \in SUBSET S : t # {} => f[CHOOSE x \in t : TRUE] = g[CHOOSE x \in t : TRUE]
      BY Zenon
    <2> QED
      BY <1>3, <2>1, ZenonT(40) DEF Sums
  <1>5. h[S] = k[S]
    <2>1. S \in SUBSET S
      BY Zenon
    <2>2. SameOn(h, k, S)
      BY <1>1, <1>4, SumsAreUnique, Zenon
    <2> QED
      BY <2>1, <2>2, Zenon DEF SameOn
  <1> QED
    BY <1>1, <1>3, <1>5, Zenon

(* What changing one value does to a sum.                                  *)
(* f is g, but for what it gives at x.                                     *)
ChangedAt(f, g, x, S) == f[x] \in Int /\ \A y \in S : y # x => f[y] = g[y]

LEMMA SumOfChanged ==
    ASSUME NEW S, NEW g, NEW f, Summable(g, S), NEW x \in S, ChangedAt(f, g, x, S)
    PROVE  SumFunctionOnSet(f, S) = SumFunctionOnSet(g, S) - g[x] + f[x]
  <1> DEFINE R == S \ {x}
             a == SumFunctionOnSet(f, S)
             b == SumFunctionOnSet(g, S)
             c == SumFunctionOnSet(g, R)
             u == f[x]
             v == g[x]
  <1>1. Summable(g, R) /\ Summable(f, S) /\ \A y \in R : f[y] = g[y]
    BY FS_Subset, Zenon DEF Summable, ChangedAt
  <1>2. SumFunctionOnSet(f, R) = c
    BY <1>1, SumsAgree, Zenon
  <1>3. a = u + c /\ b = v + c /\ c \in Int /\ u \in Int /\ v \in Int
    BY <1>1, <1>2, SumWithout, ZenonT(40)
  <1> SUFFICES a = b - v + u
    OBVIOUS
  <1> HIDE DEF a, b, c, u, v
  <1> QED
    BY ONLY <1>3, SMT

LEMMA SumWith ==
    ASSUME NEW S, NEW g, Summable(g, S), NEW s \in SUBSET S, NEW x \in S \ s
    PROVE  /\ SumFunctionOnSet(g, s \cup {x}) = g[x] + SumFunctionOnSet(g, s)
           /\ SumFunctionOnSet(g, s) \in Int /\ g[x] \in Int
  <1> DEFINE u == s \cup {x}
  <1>1. Summable(g, u) /\ u \ {x} = s /\ x \in u
    BY FS_Subset, Zenon DEF Summable
  <1>2. /\ SumFunctionOnSet(g, u) = g[x] + SumFunctionOnSet(g, u \ {x})
        /\ SumFunctionOnSet(g, u \ {x}) \in Int /\ g[x] \in Int
    <2> HIDE DEF u
    <2> QED
      BY <1>1, SumWithout, Zenon
  <1> QED
    BY <1>1, <1>2, Zenon

LEMMA SumOfZeros ==
    ASSUME NEW S, NEW g, Summable(g, S), \A x \in S : g[x] = 0
    PROVE  SumFunctionOnSet(g, S) = 0
  <1> DEFINE P == {s \in SUBSET S : SumFunctionOnSet(g, s) = 0}
  <1>1. {} \in P
    BY SumOfNothing, Zenon
  <1>2. ASSUME NEW s \in P, NEW x \in S \ s
        PROVE  s \cup {x} \in P
    <2> DEFINE u == s \cup {x}
    <2>1. Summable(g, u) /\ u \ {x} = s /\ x \in u
      BY FS_Subset, Zenon DEF Summable
    <2>2. SumFunctionOnSet(g, u) = g[x] + SumFunctionOnSet(g, u \ {x})
      <3> HIDE DEF u
      <3> QED
        BY <2>1, SumWithout, Zenon
    <2>3. SumFunctionOnSet(g, s \cup {x}) = 0 + 0
      BY <2>1, <2>2, Zenon
    <2> QED
      BY <2>3
  <1> HIDE DEF P
  <1>3. P \in SUBSET (SUBSET S) /\ IsFiniteSet(S)
    BY Zenon DEF P, Summable
  <1>4. P = SUBSET S
    BY <1>1, <1>2, <1>3, SubsetInduction, Zenon
  <1>5. S \in SUBSET S
    BY Zenon
  <1> QED
    BY <1>4, <1>5, Zenon DEF P
-----------------------------------------------------------------------------
(* Sessions                                                                *)

SessionRecord == [key: {Peers}, send: Nat, receive: Nat]

SessionTypes ==
    /\ session \in [Peers -> SessionRecord]
    /\ sealed \in [Peers -> Seq(Nat)]
    /\ opened \in [Peers -> Seq(Nat)]

LEMMA SessionFields ==
    ASSUME NEW s \in SessionRecord
    PROVE  /\ s.send \in Nat /\ s.receive \in Nat
           /\ LET t == [s EXCEPT !.send = @ + 1]
              IN  t \in SessionRecord /\ t.send = s.send + 1 /\ t.receive = s.receive
           /\ LET t == [s EXCEPT !.receive = @ + 1]
              IN  t \in SessionRecord /\ t.receive = s.receive + 1 /\ t.send = s.send
  BY DEF SessionRecord

LEMMA AppendFacts ==
    ASSUME NEW s \in Seq(Nat), NEW x \in Nat
    PROVE  /\ Append(s, x) \in Seq(Nat) /\ Len(Append(s, x)) = Len(s) + 1 /\ Len(s) \in Nat
           /\ Append(s, x)[Len(s) + 1] = x
           /\ \A n \in Nat : n < Len(s) => Append(s, x)[n + 1] = s[n + 1] /\ n < Len(s) + 1
           /\ Len(s) < Len(s) + 1
  OBVIOUS

(* A sealed message is the one its sender counted as its sequence.         *)
Genuine(m, written) ==
    /\ m.sender \in Peers /\ m.sequence \in Nat
    /\ m.sequence < Len(written[m.sender])
    /\ m.body = written[m.sender][m.sequence + 1]

(* What a peer opened is what the other sealed first.                      *)
Follows(read, written) ==
    /\ Len(read) <= Len(written)
    /\ \A i \in 1 .. Len(read) : read[i] = written[i]

SessionInv ==
    /\ SessionTypes
    /\ \A p \in Peers : Len(sealed[p]) = session[p].send /\ Len(opened[p]) = session[p].receive
    /\ \A m \in wire : Genuine(m, sealed)
    /\ \A p \in Peers : Follows(opened[p], sealed[Other(p)])

LEMMA OtherIsAPeer == \A p \in Peers : Other(p) \in Peers /\ Other(p) # p
  BY MeshAssumption, Zenon DEF Other

LEMMA AppendedFollows ==
    ASSUME NEW read \in Seq(Nat), NEW written \in Seq(Nat), NEW b \in Nat, Follows(read, written)
    PROVE  Follows(read, Append(written, b))
  BY DEF Follows

LEMMA OpenedFollows ==
    ASSUME NEW read \in Seq(Nat), NEW written \in Seq(Nat), Follows(read, written),
           Len(read) < Len(written)
    PROVE  Follows(Append(read, written[Len(read) + 1]), written)
  BY DEF Follows

LEMMA SealKeeps ==
    ASSUME SessionInv, NEW p \in Peers, Seal(p)
    PROVE  SessionInv'
  <1> DEFINE body == Len(sealed[p]) + 1
             sent == [sender |-> p, recipient |-> Other(p), body |-> body,
                      sequence |-> session[p].send, key |-> session[p].key]
  <1>0. /\ session[p].send \in Nat /\ sealed[p] \in Seq(Nat) /\ Len(sealed[p]) = session[p].send
        /\ sealed' = [sealed EXCEPT ![p] = Append(@, body)]
        /\ wire' = wire \cup {sent} /\ opened' = opened
        /\ session' = [session EXCEPT ![p].send = @ + 1]
    BY SessionFields, Zenon DEF SessionInv, SessionTypes, Seal
  <1>e. opened' = opened /\ wire' = wire \cup {sent} /\ Len(sealed[p]) = session[p].send /\ session[p].send \in Nat
    BY <1>0, Zenon
  <1>1. body \in Nat
    BY <1>0
  <1>2. /\ sent.sender = p /\ sent.body = body /\ sent.sequence = session[p].send
    BY Zenon
  <1> DEFINE longer == Append(sealed[p], body)
             counted == [session[p] EXCEPT !.send = @ + 1]
  <1>a. /\ longer \in Seq(Nat) /\ Len(longer) = Len(sealed[p]) + 1 /\ longer[Len(sealed[p]) + 1] = body
        /\ \A n \in Nat : n < Len(sealed[p]) => longer[n + 1] = sealed[p][n + 1] /\ n < Len(sealed[p]) + 1
        /\ Len(sealed[p]) < Len(sealed[p]) + 1
    <2> HIDE DEF body
    <2> QED
      BY <1>0, <1>1, AppendFacts, Zenon
  <1>b. counted \in SessionRecord /\ counted.send = session[p].send + 1 /\ counted.receive = session[p].receive
    BY SessionFields, Zenon DEF SessionInv, SessionTypes
  <1>c. session' = [session EXCEPT ![p] = counted] /\ sealed' = [sealed EXCEPT ![p] = longer]
    BY <1>0, Zenon
  <1> HIDE DEF body, sent, longer, counted
  <1>3. SessionTypes'
    BY <1>e, <1>a, <1>b, <1>c, Zenon DEF SessionInv, SessionTypes
  <1>d. \A q \in Peers : /\ session'[q] = IF q = p THEN counted ELSE session[q]
                         /\ sealed'[q] = IF q = p THEN longer ELSE sealed[q]
    BY <1>c, Zenon DEF SessionInv, SessionTypes
  <1>4. ASSUME NEW q \in Peers
        PROVE  Len(sealed'[q]) = session'[q].send /\ Len(opened'[q]) = session'[q].receive
    <2>1. Len(sealed[q]) = session[q].send /\ Len(opened[q]) = session[q].receive
      BY Zenon DEF SessionInv
    <2>2. CASE q = p
      BY <2>1, <2>2, <1>a, <1>b, <1>d, <1>e, Zenon
    <2>3. CASE q # p
      BY <2>1, <2>3, <1>d, <1>e, Zenon
    <2> QED
      BY <2>2, <2>3
  <1>5. ASSUME NEW m \in wire
        PROVE  Genuine(m, sealed')
    <2>1. Genuine(m, sealed) /\ m.sender \in Peers /\ m.sequence \in Nat
      BY Zenon DEF SessionInv, Genuine
    <2>2. CASE m.sender = p
      BY <2>1, <2>2, <1>a, <1>d, Zenon DEF Genuine
    <2>3. CASE m.sender # p
      BY <2>1, <2>3, <1>d, Zenon DEF Genuine
    <2> QED
      BY <2>2, <2>3
  <1>6. Genuine(sent, sealed')
    <2>1. sealed'[p] = longer
      BY <1>d, Zenon
    <2> QED
      BY <2>1, <1>2, <1>a, <1>e, Zenon DEF Genuine
  <1>7. ASSUME NEW q \in Peers
        PROVE  Follows(opened'[q], sealed'[Other(q)])
    <2>1. Other(q) \in Peers /\ opened[q] \in Seq(Nat) /\ sealed[Other(q)] \in Seq(Nat)
          /\ Follows(opened[q], sealed[Other(q)])
      BY OtherIsAPeer, Zenon DEF SessionInv, SessionTypes
    <2>2. CASE Other(q) = p
      BY <2>1, <2>2, <1>0, <1>1, <1>d, AppendedFollows, Zenon DEF longer
    <2>3. CASE Other(q) # p
      BY <2>1, <2>3, <1>0, <1>d, Zenon
    <2> QED
      BY <2>2, <2>3
  <1>8. (\A m \in wire : Genuine(m, sealed))'
    BY <1>e, <1>5, <1>6, Zenon
  <1>9. (\A q \in Peers : Follows(opened[q], sealed[Other(q)]))'
    BY <1>7, Zenon
  <1> QED
    BY <1>3, <1>4, <1>8, <1>9, Zenon DEF SessionInv

LEMMA OpenSealedKeeps ==
    ASSUME SessionInv, NEW p \in Peers, OpenSealed(p)
    PROVE  SessionInv'
  <1>1. PICK m \in wire :
            /\ Opens(p, m)
            /\ opened' = [opened EXCEPT ![p] = Append(@, m.body)]
            /\ session' = [session EXCEPT ![p].receive = @ + 1]
            /\ wire' = wire /\ sealed' = sealed
    BY Zenon DEF OpenSealed
  <1>2. /\ Genuine(m, sealed) /\ m.sender = Other(p) /\ m.sequence = session[p].receive
        /\ Len(opened[p]) = session[p].receive /\ Follows(opened[p], sealed[Other(p)])
        /\ opened[p] \in Seq(Nat) /\ sealed[Other(p)] \in Seq(Nat) /\ session[p].receive \in Nat
    BY <1>1, OtherIsAPeer, SessionFields, Zenon DEF SessionInv, SessionTypes, Opens
  <1>3. m.body = sealed[Other(p)][Len(opened[p]) + 1] /\ Len(opened[p]) < Len(sealed[Other(p)])
    BY <1>2, Zenon DEF Genuine
  <1>4. m.body \in Nat
    BY <1>2, <1>3, SMTT(30)
  <1>5. Append(opened[p], m.body) \in Seq(Nat)
    BY <1>2, <1>4
  <1> DEFINE counted == [session[p] EXCEPT !.receive = @ + 1]
  <1>a. counted \in SessionRecord /\ counted.receive = session[p].receive + 1 /\ counted.send = session[p].send
    BY SessionFields, Zenon DEF SessionInv, SessionTypes
  <1>b. session' = [session EXCEPT ![p] = counted]
    BY <1>1, Zenon
  <1>c. Len(Append(opened[p], m.body)) = Len(opened[p]) + 1
    BY <1>2, <1>4, AppendFacts, Zenon
  <1> HIDE DEF counted
  <1>6. SessionTypes'
    BY <1>1, <1>5, <1>a, <1>b, Zenon DEF SessionInv, SessionTypes
  <1>7. (\A q \in Peers : Len(sealed[q]) = session[q].send /\ Len(opened[q]) = session[q].receive)'
    BY <1>1, <1>2, <1>a, <1>b, <1>c, Zenon DEF SessionInv, SessionTypes
  <1>8. (\A n \in wire : Genuine(n, sealed))'
    BY <1>1, Zenon DEF SessionInv, Genuine
  <1>9. Follows(Append(opened[p], m.body), sealed[Other(p)])
    BY <1>2, <1>3, OpenedFollows, Zenon
  <1>10. (\A q \in Peers : Follows(opened[q], sealed[Other(q)]))'
    BY <1>1, <1>9, Zenon DEF SessionInv, SessionTypes
  <1> QED
    BY <1>6, <1>7, <1>8, <1>10, Zenon DEF SessionInv

LEMMA SessionInvariant == SessionSpec => []SessionInv
  <1>1. SessionInit => SessionInv
    <2> SUFFICES ASSUME SessionInit
                 PROVE  SessionInv
      OBVIOUS
    <2>1. [key |-> Peers, send |-> 0, receive |-> 0] \in SessionRecord /\ <<>> \in Seq(Nat)
          /\ Len(<<>>) = 0 /\ Follows(<<>>, <<>>)
      BY DEF SessionRecord, Follows
    <2>2. \A p \in Peers : /\ session[p] = [key |-> Peers, send |-> 0, receive |-> 0]
                           /\ sealed[p] = <<>> /\ opened[p] = <<>>
      BY Zenon DEF SessionInit, SessionKey
    <2>3. SessionTypes
      BY <2>1, Zenon DEF SessionInit, SessionKey, SessionTypes
    <2>4. wire = {}
      BY Zenon DEF SessionInit
    <2>5. \A p \in Peers : session[p].send = 0 /\ session[p].receive = 0
      BY <2>2, SMT
    <2>6. \A p \in Peers : Follows(opened[p], sealed[Other(p)])
      BY <2>1, <2>2, OtherIsAPeer, Zenon
    <2> QED
      BY <2>1, <2>2, <2>3, <2>4, <2>5, <2>6, Zenon DEF SessionInv
  <1>2. SessionInv /\ [SessionNext]_sessionVars => SessionInv'
    <2> SUFFICES ASSUME SessionInv, [SessionNext]_sessionVars
                 PROVE  SessionInv'
      OBVIOUS
    <2>1. CASE Lose
      BY <2>1, Zenon DEF Lose, SessionInv, SessionTypes, Genuine
    <2>2. CASE UNCHANGED sessionVars
      BY <2>2, Zenon DEF sessionVars, SessionInv, SessionTypes, Genuine
    <2> QED
      BY <2>1, <2>2, SealKeeps, OpenSealedKeeps, Zenon DEF SessionNext
  <1> QED
    BY <1>1, <1>2, PTL DEF SessionSpec

\* PeerSession::seal, open: for any number of messages, lost, repeated and
\* reordered at will, a peer opens a prefix of what the other sealed.
THEOREM MessagesOpenInOrder == SessionSpec => []OpenedInOrder
  <1>1. SessionInv => OpenedInOrder
    <2> SUFFICES ASSUME SessionInv, NEW p \in Peers
                 PROVE  /\ Len(opened[p]) <= Len(sealed[Other(p)])
                        /\ \A i \in DOMAIN opened[p] : opened[p][i] = sealed[Other(p)][i]
      BY Zenon DEF OpenedInOrder
    <2>1. /\ opened[p] \in Seq(Nat) /\ sealed[Other(p)] \in Seq(Nat)
          /\ Follows(opened[p], sealed[Other(p)])
      BY OtherIsAPeer, Zenon DEF SessionInv, SessionTypes
    <2>2. DOMAIN opened[p] = 1 .. Len(opened[p])
      BY ONLY <2>1, SMT
    <2> QED
      BY <2>1, <2>2, Zenon DEF Follows
  <1> QED
    BY <1>1, SessionInvariant, PTL
-----------------------------------------------------------------------------
(* The channel                                                             *)

ChannelInv ==
    /\ channel \in [queue: Seq(Nat), bytes: Int]
    /\ passed \in [sent: Seq(Nat), received: Seq(Nat)]
    /\ PassedInOrder

LEMMA Requeued ==
    ASSUME NEW s \in Seq(Nat), NEW q \in Seq(Nat), q # <<>>
    PROVE  s \o q = Append(s, Head(q)) \o Tail(q)
  BY SMTT(30)

LEMMA Enqueued ==
    ASSUME NEW s \in Seq(Nat), NEW q \in Seq(Nat), NEW x \in Nat
    PROVE  Append(s \o q, x) = s \o Append(q, x)
  BY SMTT(30)

LEMMA QueueSums ==
    ASSUME NEW q \in Seq(Nat)
    PROVE  /\ SumFunction(q) = SumFunctionOnSet(q, 1 .. Len(q))
           /\ Summable(q, 1 .. Len(q)) /\ SumFunction(q) \in Int
           /\ Len(q) \in Nat
  <1>1. DOMAIN q = 1 .. Len(q) /\ Len(q) \in Nat /\ \A i \in 1 .. Len(q) : q[i] \in Int
    OBVIOUS
  <1>2. IsFiniteSet(1 .. Len(q))
    <2>1. 1 \in Int /\ Len(q) \in Int
      BY <1>1
    <2> QED
      BY <2>1, FS_Interval, Zenon
  <1>3. Summable(q, 1 .. Len(q)) /\ SumFunction(q) = SumFunctionOnSet(q, 1 .. Len(q))
    BY <1>1, <1>2, Zenon DEF Summable, SumFunction
  <1>4. SumFunctionOnSet(q, 1 .. Len(q)) \in Int
    <2> DEFINE S == 1 .. Len(q)
    <2>1. PICK h : Sums(h, q, S) /\ SumFunctionOnSet(q, S) = h[S]
      <3> HIDE DEF S
      <3> QED
        BY <1>3, SumIsOne, Zenon DEF S
    <2> QED
      BY <2>1, Zenon DEF Sums
  <1> QED
    BY <1>1, <1>3, <1>4, Zenon

LEMMA SumOfAppended ==
    ASSUME NEW q \in Seq(Nat), NEW x \in Nat
    PROVE  SumFunction(Append(q, x)) = SumFunction(q) + x
  <1> DEFINE n == Len(q)
             p == Append(q, x)
  <1>1. /\ p \in Seq(Nat) /\ Len(p) = n + 1 /\ n \in Nat /\ p[n + 1] = x
        /\ \A i \in 1 .. n : p[i] = q[i]
        /\ 1 .. n \in SUBSET (1 .. n + 1) /\ n + 1 \in (1 .. n + 1) \ (1 .. n)
        /\ (1 .. n) \cup {n + 1} = 1 .. n + 1
    OBVIOUS
  <1>2. /\ SumFunction(p) = SumFunctionOnSet(p, 1 .. n + 1) /\ Summable(p, 1 .. n + 1)
        /\ SumFunction(q) = SumFunctionOnSet(q, 1 .. n) /\ Summable(q, 1 .. n) /\ SumFunction(q) \in Int
    <2> HIDE DEF p
    <2> QED
      BY <1>1, QueueSums, Zenon
  <1> HIDE DEF p, n
  <1>3. SumFunctionOnSet(p, (1 .. n) \cup {n + 1}) = p[n + 1] + SumFunctionOnSet(p, 1 .. n)
    <2> DEFINE S == 1 .. n + 1
               s == 1 .. n
               y == n + 1
    <2>1. Summable(p, S) /\ s \in SUBSET S /\ y \in S \ s
      BY <1>1, <1>2, Zenon
    <2> HIDE DEF S, s, y
    <2>2. /\ SumFunctionOnSet(p, s \cup {y}) = p[y] + SumFunctionOnSet(p, s)
          /\ SumFunctionOnSet(p, s) \in Int /\ p[y] \in Int
      BY <2>1, SumWith, Zenon
    <2> QED
      BY <2>2, Zenon DEF s, y
  <1>4. SumFunctionOnSet(p, 1 .. n) = SumFunctionOnSet(q, 1 .. n)
    BY <1>1, <1>2, SumsAgree, Zenon
  <1>5. SumFunction(p) = x + SumFunction(q)
    BY <1>1, <1>2, <1>3, <1>4, Zenon
  <1>6. SumFunction(p) = SumFunction(q) + x
    BY ONLY <1>2, <1>5, x \in Nat, SMT
  <1> QED
    BY <1>6, Zenon DEF p

LEMMA SumOfRest ==
    ASSUME NEW q \in Seq(Nat), q # <<>>
    PROVE  SumFunction(Tail(q)) = SumFunction(q) - Head(q)
  <1> DEFINE t == Tail(q)
             n == Len(q)
             S == 1 .. n
             Shifted(m) == SumFunctionOnSet(t, 1 .. m) = SumFunctionOnSet(q, 1 .. m + 1) - q[1]
             T == {m \in Nat : m < n => Shifted(m)}
  <1>1. /\ t \in Seq(Nat) /\ n \in Nat \ {0} /\ Len(t) = n - 1 /\ Head(q) = q[1] /\ q[1] \in Nat
        /\ \A i \in 1 .. n - 1 : t[i] = q[i + 1]
    OBVIOUS
  <1>2. /\ SumFunction(t) = SumFunctionOnSet(t, 1 .. n - 1) /\ Summable(t, 1 .. n - 1)
        /\ SumFunction(q) = SumFunctionOnSet(q, 1 .. n) /\ Summable(q, 1 .. n)
    <2> HIDE DEF t
    <2> QED
      BY <1>1, QueueSums, Zenon
  <1> HIDE DEF t, n
  <1>3. 0 \in T
    <2>1. 1 .. 0 = {} /\ 1 .. 0 + 1 = {} \cup {1} /\ 1 \in (1 .. n) \ {} /\ {} \in SUBSET (1 .. n)
      BY <1>1
    <2>2. SumFunctionOnSet(q, {} \cup {1}) = q[1] + SumFunctionOnSet(q, {})
      <3> DEFINE s == {}
                 y == 1
      <3>1. Summable(q, S) /\ s \in SUBSET S /\ y \in S \ s
        BY <1>2, <2>1, Zenon
      <3> HIDE DEF S, s, y
      <3>2. /\ SumFunctionOnSet(q, s \cup {y}) = q[y] + SumFunctionOnSet(q, s)
            /\ SumFunctionOnSet(q, s) \in Int /\ q[y] \in Int
        BY <3>1, SumWith, Zenon
      <3> QED
        BY <3>2, Zenon DEF s, y
    <2>3. SumFunctionOnSet(q, {}) = 0 /\ SumFunctionOnSet(t, {}) = 0
      BY SumOfNothing, Zenon
    <2>4. 0 = (q[1] + 0) - q[1]
      BY <1>1
    <2>5. Shifted(0)
      BY <2>1, <2>2, <2>3, <2>4, Zenon
    <2>6. 0 \in Nat
      OBVIOUS
    <2> HIDE DEF Shifted
    <2> QED
      BY <2>5, <2>6, Zenon
  <1>4. ASSUME NEW m \in T
        PROVE  m + 1 \in T
    <2>1. m \in Nat /\ m + 1 \in Nat
      BY <1>4
    <2> SUFFICES ASSUME m + 1 < n
                 PROVE  Shifted(m + 1)
      BY <2>1, Zenon
    <2>2. m < n
      BY <1>1, <2>1
    <2>3. Shifted(m)
      BY <1>4, <2>2, Zenon
    <2>4. /\ (1 .. m) \cup {m + 1} = 1 .. m + 1 /\ 1 .. m \in SUBSET (1 .. n - 1)
          /\ m + 1 \in (1 .. n - 1) \ (1 .. m)
      <3>1. n \in Nat /\ m \in Nat /\ m + 1 < n
        BY <1>1, <2>1, Zenon
      <3> QED
        BY ONLY <3>1, SMT
    <2>5. /\ (1 .. m + 1) \cup {(m + 1) + 1} = 1 .. (m + 1) + 1 /\ 1 .. m + 1 \in SUBSET (1 .. n)
          /\ (m + 1) + 1 \in (1 .. n) \ (1 .. m + 1)
      BY <1>1, <2>1, SMTT(30)
    <2> DEFINE a == SumFunctionOnSet(t, 1 .. m)
               b == SumFunctionOnSet(q, 1 .. m + 1)
               c == SumFunctionOnSet(t, 1 .. m + 1)
               e == SumFunctionOnSet(q, 1 .. (m + 1) + 1)
               u == t[m + 1]
               v == q[(m + 1) + 1]
               w == q[1]
    <2>6. SumFunctionOnSet(t, (1 .. m) \cup {m + 1}) = u + a /\ a \in Int /\ u \in Int
      <3> DEFINE R == 1 .. n - 1
                 s == 1 .. m
                 y == m + 1
      <3>1. Summable(t, R) /\ s \in SUBSET R /\ y \in R \ s
        BY <1>2, <2>4, Zenon
      <3> HIDE DEF R, s, y
      <3>2. /\ SumFunctionOnSet(t, s \cup {y}) = t[y] + SumFunctionOnSet(t, s)
            /\ SumFunctionOnSet(t, s) \in Int /\ t[y] \in Int
        BY <3>1, SumWith, Zenon
      <3> QED
        BY <3>2, Zenon DEF s, y
    <2>7. SumFunctionOnSet(q, (1 .. m + 1) \cup {(m + 1) + 1}) = v + b /\ b \in Int /\ v \in Int
      <3> DEFINE s == 1 .. m + 1
                 y == (m + 1) + 1
      <3>1. Summable(q, S) /\ s \in SUBSET S /\ y \in S \ s
        BY <1>2, <2>5, Zenon
      <3> HIDE DEF S, s, y
      <3>2. /\ SumFunctionOnSet(q, s \cup {y}) = q[y] + SumFunctionOnSet(q, s)
            /\ SumFunctionOnSet(q, s) \in Int /\ q[y] \in Int
        BY <3>1, SumWith, Zenon
      <3> QED
        BY <3>2, Zenon DEF s, y
    <2>8. c = u + a /\ e = v + b /\ u = v /\ a = b - w /\ a \in Int /\ b \in Int /\ u \in Int /\ w \in Int
      <3>1. w \in Int
        BY <1>1
      <3> QED
        BY <1>1, <2>3, <2>4, <2>5, <2>6, <2>7, <3>1, Zenon
    <2> SUFFICES c = e - w
      OBVIOUS
    <2> HIDE DEF a, b, c, e, u, v, w
    <2> QED
      BY ONLY <2>8, SMT
  <1> HIDE DEF T
  <1>5. T = Nat
    <2>1. T \in SUBSET Nat
      BY Zenon DEF T
    <2> QED
      BY <1>3, <1>4, <2>1, NumberInduction, Zenon
  <1>6. n - 1 \in Nat /\ n - 1 < n /\ (n - 1) + 1 = n
    BY <1>1
  <1>7. Shifted(n - 1)
    BY <1>5, <1>6, Zenon DEF T
  <1>8. SumFunctionOnSet(t, 1 .. n - 1) = SumFunctionOnSet(q, 1 .. n) - q[1]
    BY <1>6, <1>7, Zenon
  <1> QED
    BY <1>1, <1>2, <1>8, Zenon DEF t

\* MessageChannel::send, receive: for any bounds, a channel gives what it took,
\* in order, stays within them, and its byte count is that of its queue.
THEOREM ChannelKeepsOrder == ChannelSpec => []PassedInOrder
  <1>0. ChannelBytes \in Nat /\ ChannelMessages \in Nat
    BY MeshAssumption
  <1>1. ChannelInit => ChannelInv
    <2> SUFFICES ASSUME ChannelInit
                 PROVE  ChannelInv
      OBVIOUS
    <2>1. /\ channel.queue = <<>> /\ channel.bytes = 0 /\ passed.sent = <<>> /\ passed.received = <<>>
          /\ channel \in [queue: Seq(Nat), bytes: Int] /\ passed \in [sent: Seq(Nat), received: Seq(Nat)]
      BY DEF ChannelInit
    <2>2. <<>> = <<>> \o channel.queue /\ channel.bytes <= ChannelBytes /\ Len(channel.queue) <= ChannelMessages
      BY <1>0, <2>1
    <2>3. SumFunction(<<>>) = 0
      <3>1. DOMAIN <<>> = {}
        OBVIOUS
      <3> QED
        BY <3>1, SumOfNothing, Zenon DEF SumFunction
    <2> QED
      BY <2>1, <2>2, <2>3, Zenon DEF ChannelInv, PassedInOrder
  <1>2. ASSUME ChannelInv
        PROVE  /\ channel.queue \in Seq(Nat) /\ channel.bytes \in Int
               /\ passed.received \in Seq(Nat) /\ passed.sent \in Seq(Nat)
               /\ passed = [sent |-> passed.sent, received |-> passed.received]
               /\ passed.sent = passed.received \o channel.queue
               /\ channel.bytes = SumFunction(channel.queue)
               /\ channel.bytes <= ChannelBytes /\ Len(channel.queue) <= ChannelMessages
    BY <1>2, Zenon DEF ChannelInv, PassedInOrder
  <1>3. ASSUME ChannelInv, Receive
        PROVE  ChannelInv'
    <2> DEFINE first == Head(channel.queue)
               rest == Tail(channel.queue)
               left == channel.bytes - first
               got == Append(passed.received, first)
    <2>0. /\ channel.queue \in Seq(Nat) /\ channel.bytes \in Int /\ channel.bytes <= ChannelBytes
          /\ Len(channel.queue) <= ChannelMessages
      BY <1>2, <1>3, Zenon
    <2>1. /\ channel' = [queue |-> rest, bytes |-> left] /\ channel.queue # <<>>
          /\ passed' = [passed EXCEPT !.received = got]
      BY <1>3, Zenon DEF Receive
    <2>2. first \in Nat /\ rest \in Seq(Nat) /\ Len(rest) = Len(channel.queue) - 1
      <3>1. channel.queue # <<>>
        BY <2>1, Zenon
      <3> QED
        BY ONLY <2>0, <3>1, SMT
    <2>3. passed.sent = got \o rest
      BY <1>2, <1>3, <2>1, Requeued, Zenon
    <2>7. left = SumFunction(rest)
      BY <1>2, <1>3, <2>1, SumOfRest, Zenon
    <2> HIDE DEF first, rest
    <2>4. got \in Seq(Nat)
      BY <1>2, <1>3, <2>2, AppendFacts, Zenon
    <2>5. left \in Int /\ left <= ChannelBytes /\ Len(rest) <= ChannelMessages
      <3>1. Len(channel.queue) \in Nat
        BY ONLY <2>0, SMT
      <3> QED
        BY ONLY <1>0, <2>0, <2>2, <3>1, SMTT(30) DEF left
    <2> HIDE DEF left, got
    <2>6. passed' = [sent |-> passed.sent, received |-> got]
      BY <1>2, <1>3, <2>1, Zenon
    <2> QED
      BY <1>2, <1>3, <2>1, <2>2, <2>3, <2>4, <2>5, <2>6, <2>7, Zenon DEF ChannelInv, PassedInOrder
  <1>4. ASSUME ChannelInv, NEW length \in 0 .. ChannelBytes, Send(length)
        PROVE  ChannelInv'
    <2> DEFINE queue == Append(channel.queue, length)
               bytes == channel.bytes + length
               given == Append(passed.sent, length)
    <2>0. /\ channel.queue \in Seq(Nat) /\ channel.bytes \in Int /\ passed.received \in Seq(Nat)
          /\ passed.sent = passed.received \o channel.queue
      BY <1>2, <1>4, Zenon
    <2>1. /\ Len(channel.queue) < ChannelMessages /\ bytes <= ChannelBytes
          /\ channel' = [queue |-> queue, bytes |-> bytes]
          /\ passed' = [passed EXCEPT !.sent = given]
      BY <1>4, Zenon DEF Send
    <2>2. length \in Nat
      BY <1>0
    <2>3. queue \in Seq(Nat) /\ given \in Seq(Nat) /\ Len(queue) = Len(channel.queue) + 1 /\ Len(channel.queue) \in Nat
      BY <1>2, <1>4, <2>2, AppendFacts, Zenon
    <2>4. given = passed.received \o queue
      BY <2>0, <2>2, Enqueued, ZenonT(40)
    <2>5. bytes \in Int /\ Len(queue) <= ChannelMessages
      <3>1. Len(channel.queue) < ChannelMessages
        BY <2>1, Zenon
      <3> HIDE DEF queue, given
      <3> QED
        BY ONLY <1>0, <2>0, <2>2, <2>3, <3>1, SMT DEF bytes
    <2>7. bytes = SumFunction(queue)
      <3>1. channel.bytes = SumFunction(channel.queue)
        BY <1>2, <1>4, Zenon
      <3> QED
        BY <2>0, <2>2, <3>1, SumOfAppended, Zenon
    <2> HIDE DEF queue, bytes, given
    <2>6. passed' = [sent |-> given, received |-> passed.received]
      BY <1>2, <1>4, <2>1, SMTT(30)
    <2> QED
      BY <1>2, <1>4, <2>1, <2>3, <2>4, <2>5, <2>6, <2>7, Zenon DEF ChannelInv, PassedInOrder
  <1>5. ChannelInv /\ [ChannelNext]_channelVars => ChannelInv'
    BY <1>3, <1>4, Zenon DEF ChannelNext, channelVars, ChannelInv, PassedInOrder
  <1>6. ChannelInv => PassedInOrder
    BY Zenon DEF ChannelInv
  <1> QED
    BY <1>1, <1>5, <1>6, PTL DEF ChannelSpec
-----------------------------------------------------------------------------
(* The document                                                            *)

Document == [entries: [DocumentKeys -> Operations \cup {NoOperation}], seen: SUBSET Operations, bytes: Int]

(* The entry of a key is the winner among what was seen of it.             *)
Winning(d, k) ==
    /\ \A op \in d.seen : op.key = k => op = d.entries[k] \/ Supersedes(d.entries[k], op)
    /\ d.entries[k] \in d.seen \cup {NoOperation}
    /\ d.entries[k] # NoOperation => d.entries[k].key = k

DocumentSizes(d) == [k \in DocumentKeys |-> d.entries[k].bytes]

(* Entries are winners, the byte count is theirs and within the limit.     *)
Sound(d) ==
    /\ d \in Document
    /\ \A k \in DocumentKeys : Winning(d, k)
    /\ d.bytes = SumFunctionOnSet(DocumentSizes(d), DocumentKeys)
    /\ d.bytes <= DocumentBytes

DocumentInv ==
    /\ DOMAIN documents = Replicas /\ \A r \in Replicas : Sound(documents[r])
    /\ synced \subseteq Replicas
    /\ \A r, s \in synced : documents[r].entries = documents[s].entries

LEMMA OperationsAreTyped ==
    \A op \in Operations : /\ op.key \in Nat \ {0} /\ op.bytes \in Nat /\ op.clock \in Nat /\ op.peer \in Nat
                           /\ op.key \in DocumentKeys /\ op # NoOperation
  BY MeshAssumption DEF DocumentKeys, NoOperation

LEMMA KeysAreNumbered == \E n \in Nat : DocumentKeys = 1 .. n
  <1>1. IsFiniteSet(DocumentKeys) /\ DocumentKeys = 1 .. Cardinality(DocumentKeys)
    BY MeshAssumption, Zenon DEF DocumentKeys
  <1>2. Cardinality(DocumentKeys) \in Nat
    BY <1>1, FS_CardinalityType, Zenon
  <1> QED
    BY <1>1, <1>2, Zenon

LEMMA SupersedesIsTransitive ==
    ASSUME NEW a \in Operations, NEW b \in Operations, NEW c \in Operations,
           Supersedes(a, b), Supersedes(b, c)
    PROVE  Supersedes(a, c)
  BY OperationsAreTyped DEF Supersedes

LEMMA SupersedesIsStrict ==
    ASSUME NEW a \in Operations, NEW b \in Operations, Supersedes(a, b)
    PROVE  ~Supersedes(b, a)
  BY OperationsAreTyped DEF Supersedes

LEMMA OneSupersedes ==
    ASSUME NEW a \in Operations, NEW b \in Operations, a.key = b.key, a # b
    PROVE  Supersedes(a, b) \/ Supersedes(b, a)
  <1>1. <<a.key, a.clock, a.peer>> # <<b.key, b.clock, b.peer>>
    BY MeshAssumption, Zenon
  <1>2. a.clock # b.clock \/ a.peer # b.peer
    BY <1>1
  <1> QED
    BY <1>2, OperationsAreTyped DEF Supersedes

LEMMA NothingSupersedes ==
    ASSUME NEW op \in Operations
    PROVE  ~Supersedes(NoOperation, op)
  BY OperationsAreTyped DEF Supersedes, NoOperation

LEMMA ApplyKeepsWinners ==
    ASSUME NEW d \in Document, NEW op \in Operations, \A k \in DocumentKeys : Winning(d, k)
    PROVE  /\ Apply(d, op).document \in Document
           /\ \A k \in DocumentKeys : Winning(Apply(d, op).document, k)
  <1> DEFINE current == d.entries[op.key]
             next == d.bytes - current.bytes + op.bytes
             replace == Supersedes(op, current)
             after == [entries |-> IF replace THEN [d.entries EXCEPT ![op.key] = op] ELSE d.entries,
                       bytes |-> IF replace THEN next ELSE d.bytes,
                       seen |-> d.seen \cup {op}]
  <1>0. /\ op.key \in DocumentKeys /\ op # NoOperation
        /\ current \in Operations \cup {NoOperation} /\ d.bytes \in Int /\ op.bytes \in Nat
        /\ d.seen \subseteq Operations /\ d.entries \in [DocumentKeys -> Operations \cup {NoOperation}]
        /\ d = [entries |-> d.entries, seen |-> d.seen, bytes |-> d.bytes]
    BY OperationsAreTyped DEF Document
  <1>1. Apply(d, op).document = d \/ (op \notin d.seen /\ Apply(d, op).document = after)
    BY Zenon DEF Apply
  <1>2. current.bytes \in Nat
    BY <1>0, OperationsAreTyped DEF NoOperation
  <1>3. next \in Int
    BY <1>0, <1>2
  <1>4. after \in Document
    BY <1>0, <1>3 DEF Document
  <1>5. ASSUME op \notin d.seen, NEW k \in DocumentKeys
        PROVE  Winning(after, k)
    <2>1. CASE k # op.key
      <3>1. after.entries[k] = d.entries[k]
        BY <1>0, <2>1, Zenon
      <3>2. after.seen = d.seen \cup {op}
        OBVIOUS
      <3> HIDE DEF after
      <3> QED
        BY <3>1, <3>2, <2>1, <1>0, Zenon DEF Winning
    <2>2. CASE k = op.key /\ replace
      <3>1. after.entries[k] = op /\ after.seen = d.seen \cup {op}
        BY <1>0, <2>2, Zenon
      <3>2. ASSUME NEW other \in d.seen, other.key = k
            PROVE  Supersedes(op, other)
        <4>1. other = current \/ Supersedes(current, other)
          BY <3>2, <2>2, <1>0, Zenon DEF Winning
        <4>2. other \in Operations
          BY <1>0, <3>2, Zenon
        <4>3. CASE other = current
          BY <4>3, <2>2, Zenon
        <4>4. CASE Supersedes(current, other)
          <5>1. current \in Operations
            BY <4>4, <4>2, <1>0, NothingSupersedes, Zenon
          <5> QED
            BY <5>1, <4>2, <4>4, <2>2, SupersedesIsTransitive, Zenon
        <4> QED
          BY <4>1, <4>3, <4>4, Zenon
      <3> HIDE DEF after
      <3> QED
        BY <3>1, <3>2, <2>2, Zenon DEF Winning
    <2>3. CASE k = op.key /\ ~replace
      <3>1. after.entries[k] = current /\ after.seen = d.seen \cup {op}
        BY <1>0, <2>3, Zenon
      <3>2. current # NoOperation
        BY <2>3, Zenon DEF Supersedes
      <3>3. current \in Operations /\ current \in d.seen /\ current.key = k
        BY <3>2, <2>3, <1>0, Zenon DEF Winning
      <3>4. Supersedes(current, op)
        BY <3>3, <2>3, <1>5, OneSupersedes, Zenon
      <3>5. \A other \in d.seen : other.key = k => other = current \/ Supersedes(current, other)
        BY <2>3, <1>0, Zenon DEF Winning
      <3> HIDE DEF after, current
      <3> QED
        BY <3>1, <3>3, <3>4, <3>5, Zenon DEF Winning
    <2> QED
      BY <2>1, <2>2, <2>3, Zenon
  <1> HIDE DEF after
  <1> QED
    BY <1>1, <1>4, <1>5, Zenon

LEMMA SameSeenSameEntries ==
    ASSUME NEW d \in Document, NEW e \in Document, d.seen = e.seen,
           \A k \in DocumentKeys : Winning(d, k) /\ Winning(e, k)
    PROVE  d.entries = e.entries
  <1>0. /\ d.entries \in [DocumentKeys -> Operations \cup {NoOperation}]
        /\ e.entries \in [DocumentKeys -> Operations \cup {NoOperation}]
        /\ d.seen \subseteq Operations
    BY Zenon DEF Document
  <1>1. ASSUME NEW k \in DocumentKeys
        PROVE  d.entries[k] = e.entries[k]
    <2> DEFINE a == d.entries[k]
               b == e.entries[k]
    <2>0. /\ a \in d.seen \cup {NoOperation} /\ b \in d.seen \cup {NoOperation}
          /\ a # NoOperation => a.key = k
          /\ b # NoOperation => b.key = k
          /\ \A op \in d.seen : op.key = k => op = a \/ Supersedes(a, op)
          /\ \A op \in d.seen : op.key = k => op = b \/ Supersedes(b, op)
      BY Zenon DEF Winning
    <2> SUFFICES a = b
      OBVIOUS
    <2> HIDE DEF a, b
    <2>1. CASE a = NoOperation
      BY <2>0, <2>1, <1>0, NothingSupersedes, Zenon
    <2>2. CASE b = NoOperation
      BY <2>0, <2>2, <1>0, NothingSupersedes, Zenon
    <2>3. CASE a # NoOperation /\ b # NoOperation
      <3>1. a \in Operations /\ b \in Operations /\ a \in d.seen /\ b \in d.seen
        BY <2>0, <2>3, <1>0, Zenon
      <3>2. a = b \/ (Supersedes(a, b) /\ Supersedes(b, a))
        BY <2>0, <2>3, <3>1, Zenon
      <3> QED
        BY <3>1, <3>2, SupersedesIsStrict, Zenon
    <2> QED
      BY <2>1, <2>2, <2>3, Zenon
  <1> QED
    BY <1>0, <1>1

LEMMA SizesAdd ==
    ASSUME NEW d \in Document
    PROVE  /\ Summable(DocumentSizes(d), DocumentKeys)
           /\ \A k \in DocumentKeys : /\ DocumentSizes(d)[k] = d.entries[k].bytes
                                      /\ d.entries[k].bytes \in Nat
  <1>1. \A op \in Operations \cup {NoOperation} : op.bytes \in Nat
    BY OperationsAreTyped DEF NoOperation
  <1>2. \A k \in DocumentKeys : d.entries[k] \in Operations \cup {NoOperation}
    BY Zenon DEF Document
  <1>3. \A k \in DocumentKeys : /\ DocumentSizes(d)[k] = d.entries[k].bytes
                                /\ d.entries[k].bytes \in Nat
    BY <1>1, <1>2, Zenon DEF DocumentSizes
  <1>4. PICK n \in Nat : DocumentKeys = 1 .. n
    BY KeysAreNumbered, Zenon
  <1>5. IsFiniteSet(DocumentKeys)
    <2>1. 1 \in Int /\ n \in Int
      OBVIOUS
    <2> QED
      BY <2>1, <1>4, FS_Interval, Zenon
  <1>6. \A k \in DocumentKeys : DocumentSizes(d)[k] \in Int
    BY <1>3
  <1> QED
    BY <1>3, <1>5, <1>6, Zenon DEF Summable

(* What a result of apply or merge took over from some operations.         *)
Took(d, result, operations) ==
    /\ Sound(result.document)
    /\ d.seen \subseteq result.document.seen
    /\ result.document.seen \subseteq d.seen \cup operations
    /\ result.ok \in BOOLEAN

LEMMA ApplyTakes ==
    ASSUME NEW d, Sound(d), NEW op \in Operations
    PROVE  /\ Took(d, Apply(d, op), {op})
           /\ Apply(d, op).ok => op \in Apply(d, op).document.seen
  <1> DEFINE current == d.entries[op.key]
             next == d.bytes - current.bytes + op.bytes
             replace == Supersedes(op, current)
             after == [entries |-> IF replace THEN [d.entries EXCEPT ![op.key] = op] ELSE d.entries,
                       bytes |-> IF replace THEN next ELSE d.bytes,
                       seen |-> d.seen \cup {op}]
             result == Apply(d, op)
  <1>0. /\ d \in Document /\ \A k \in DocumentKeys : Winning(d, k)
        /\ d.bytes = SumFunctionOnSet(DocumentSizes(d), DocumentKeys) /\ d.bytes <= DocumentBytes
    BY Zenon DEF Sound
  <1>1. result.document \in Document /\ \A k \in DocumentKeys : Winning(result.document, k)
    BY <1>0, ApplyKeepsWinners, Zenon
  <1>2. \/ result.document = d /\ result.ok \in BOOLEAN /\ (result.ok => op \in d.seen)
        \/ result.document = after /\ result.ok = TRUE /\ ~(replace /\ next > DocumentBytes)
    <2>1. \/ result = [document |-> d, ok |-> TRUE] /\ op \in d.seen
          \/ result = [document |-> d, ok |-> FALSE]
          \/ result = [ok |-> TRUE, document |-> after] /\ ~(replace /\ next > DocumentBytes)
      BY Zenon DEF Apply
    <2> HIDE DEF result, after
    <2>2. CASE result = [document |-> d, ok |-> TRUE] /\ op \in d.seen
      BY <2>2
    <2>3. CASE result = [document |-> d, ok |-> FALSE]
      BY <2>3
    <2>4. CASE result = [ok |-> TRUE, document |-> after] /\ ~(replace /\ next > DocumentBytes)
      <3>1. result.document = after /\ result.ok = TRUE
        BY <2>4
      <3> QED
        BY <2>4, <3>1, Zenon
    <2> QED
      BY <2>1, <2>2, <2>3, <2>4, Zenon
  <1>3. CASE result.document = d /\ result.ok \in BOOLEAN /\ (result.ok => op \in d.seen)
    <2> HIDE DEF result
    <2>1. Took(d, result, {op})
      BY <1>3, Zenon DEF Took
    <2> QED
      BY <1>3, <2>1, Zenon DEF result
  <1>4. CASE result.document = after /\ result.ok = TRUE /\ ~(replace /\ next > DocumentBytes)
    <2>1. after.seen = d.seen \cup {op}
      OBVIOUS
    <2>2. /\ op.key \in DocumentKeys /\ op.bytes \in Nat /\ d.bytes \in Int
          /\ d.entries \in [DocumentKeys -> Operations \cup {NoOperation}]
      BY <1>0, OperationsAreTyped, Zenon DEF Document
    <2>3. /\ Summable(DocumentSizes(d), DocumentKeys)
          /\ DocumentSizes(d)[op.key] = current.bytes /\ current.bytes \in Nat
          /\ \A k \in DocumentKeys : DocumentSizes(d)[k] = d.entries[k].bytes
      BY <1>0, <2>2, SizesAdd, Zenon
    <2>4. CASE replace
      <3>1. /\ after.entries = [d.entries EXCEPT ![op.key] = op] /\ after.bytes = next
            /\ ~(next > DocumentBytes)
        BY <2>4, <1>4, Zenon
      <3>2. after.entries[op.key] = op /\ \A k \in DocumentKeys : k # op.key => after.entries[k] = d.entries[k]
        BY <3>1, <2>2, Zenon
      <3>3. /\ DocumentSizes(after)[op.key] = op.bytes
            /\ \A k \in DocumentKeys : k # op.key => DocumentSizes(after)[k] = DocumentSizes(d)[k]
        BY <3>2, <2>2, <2>3, Zenon DEF DocumentSizes
      <3> DEFINE f == DocumentSizes(after)
                 g == DocumentSizes(d)
      <3>4. PICK key \in DocumentKeys : key = op.key
        BY <2>2, Zenon
      <3>5. SumFunctionOnSet(f, DocumentKeys) = SumFunctionOnSet(g, DocumentKeys) - g[key] + f[key]
        <4>1. Summable(g, DocumentKeys) /\ \A k \in DocumentKeys : k # key => f[k] = g[k]
          BY <2>3, <3>3, <3>4, Zenon
        <4>2. f[key] \in Int
          BY <2>2, <3>3, <3>4
        <4> HIDE DEF f, g
        <4>3. ChangedAt(f, g, key, DocumentKeys)
          BY <4>1, <4>2, Zenon DEF ChangedAt
        <4> QED
          BY ONLY <4>1, <4>3, key \in DocumentKeys, SumOfChanged, SMT
      <3>6. SumFunctionOnSet(f, DocumentKeys) = next
        BY <3>4, <3>5, <3>3, <2>3, <1>0, Zenon
      <3>7. next <= DocumentBytes
        <4>1. DocumentBytes \in Nat
          BY MeshAssumption, Zenon
        <4> DEFINE b == current.bytes
        <4>2. b \in Nat /\ d.bytes \in Int /\ op.bytes \in Nat /\ ~(d.bytes - b + op.bytes > DocumentBytes)
          BY <2>2, <2>3, <3>1, Zenon
        <4> SUFFICES d.bytes - b + op.bytes <= DocumentBytes
          OBVIOUS
        <4> HIDE DEF b
        <4> QED
          BY ONLY <4>1, <4>2, SMT
      <3> HIDE DEF after, f, next, result
      <3>8. Sound(after)
        BY <1>1, <1>4, <3>1, <3>6, <3>7, Zenon DEF Sound, f
      <3> QED
        BY <1>4, <2>1, <3>8, Zenon DEF Took, result
    <2>5. CASE ~replace
      <3>1. after.entries = d.entries /\ after.bytes = d.bytes
        BY <2>5, Zenon
      <3>2. DocumentSizes(after) = DocumentSizes(d)
        <4> HIDE DEF after
        <4> QED
          BY <3>1, Zenon DEF DocumentSizes
      <3> HIDE DEF after, result
      <3>3. Sound(after)
        BY <1>0, <1>1, <1>4, <3>1, <3>2, Zenon DEF Sound
      <3> QED
        BY <1>4, <2>1, <3>3, Zenon DEF Took, result
    <2> QED
      BY <2>4, <2>5
  <1> HIDE DEF after, result
  <1> QED
    BY <1>2, <1>3, <1>4, Zenon

(* The entries of a document, as operations.                               *)
Holds(d) == {d.entries[k] : k \in DocumentKeys} \ {NoOperation}

(* The results of merge after each of the first m keys.                    *)
Merging(f, d, other, m) ==
    f = [i \in 0 .. m |-> IF i = 0 THEN [document |-> d, ok |-> TRUE]
                          ELSE MergeEntry(f[i - 1], other.entries[i])]

LEMMA MergingExists ==
    ASSUME NEW d, NEW other, NEW n \in Nat
    PROVE  \E f : Merging(f, d, other, n)
  <1> DEFINE T == {m \in Nat : \E f : Merging(f, d, other, m)}
             start == [document |-> d, ok |-> TRUE]
  <1>1. 0 \in T
    <2> DEFINE f == [i \in 0 .. 0 |-> start]
    <2>1. f = [i \in 0 .. 0 |-> IF i = 0 THEN start ELSE MergeEntry(f[i - 1], other.entries[i])]
      <3>1. \A i \in 0 .. 0 : i = 0
        OBVIOUS
      <3> QED
        BY <3>1, Zenon
    <2> QED
      BY <2>1, Zenon DEF Merging
  <1>2. ASSUME NEW m \in T
        PROVE  m + 1 \in T
    <2>1. m \in Nat /\ m + 1 \in Nat
      BY <1>2
    <2>2. PICK f : Merging(f, d, other, m)
      BY <1>2, Zenon
    <2> DEFINE last == MergeEntry(f[m], other.entries[m + 1])
               g == [i \in 0 .. m + 1 |-> IF i = m + 1 THEN last ELSE f[i]]
    <2>3. ASSUME NEW i \in 0 .. m + 1
          PROVE  g[i] = IF i = 0 THEN start ELSE MergeEntry(g[i - 1], other.entries[i])
      <3>1. i \in Int /\ (i # 0 => i - 1 \in 0 .. m + 1) /\ (i # m + 1 => i \in 0 .. m) /\ i - 1 # m + 1
            /\ (i = m + 1 => i # 0 /\ i - 1 = m)
        BY <2>1
      <3>2. CASE i = m + 1
        <4>1. g[i] = last /\ g[m] = f[m] /\ i - 1 = m /\ i # 0
          <5>1. m \in 0 .. m + 1 /\ m # m + 1
            BY <2>1
          <5> QED
            BY <5>1, <3>1, <3>2, Zenon
        <4> QED
          BY <4>1, <3>2, Zenon
      <3>3. CASE i # m + 1
        <4>1. g[i] = f[i] /\ (i # 0 => g[i - 1] = f[i - 1])
          BY <3>1, <3>3, Zenon
        <4>2. f[i] = IF i = 0 THEN start ELSE MergeEntry(f[i - 1], other.entries[i])
          BY <2>2, <3>1, <3>3, Zenon DEF Merging
        <4> QED
          BY <4>1, <4>2, Zenon
      <3> QED
        BY <3>2, <3>3
    <2>4. g = [i \in 0 .. m + 1 |-> g[i]]
      BY Zenon
    <2> HIDE DEF g
    <2>5. Merging(g, d, other, m + 1)
      BY <2>3, <2>4, Zenon DEF Merging
    <2> QED
      BY <2>1, <2>5, Zenon
  <1> HIDE DEF T
  <1>3. T \in SUBSET Nat
    BY Zenon DEF T
  <1>4. T = Nat
    BY <1>1, <1>2, <1>3, NumberInduction, Zenon
  <1> QED
    BY <1>4, Zenon DEF T

LEMMA MergeIsTheLast ==
    ASSUME NEW d, NEW other, NEW n \in Nat, Cardinality(DocumentKeys) = n
    PROVE  \E f : Merging(f, d, other, n) /\ Merge(d, other) = f[n]
  <1> DEFINE f == CHOOSE f : Merging(f, d, other, n)
  <1>1. Merging(f, d, other, n)
    BY MergingExists, Zenon
  <1>2. Merge(d, other) = f[n]
    BY Zenon DEF Merge, Merging
  <1> QED
    BY <1>1, <1>2, Zenon

LEMMA MergeEntryTakes ==
    ASSUME NEW d, NEW result, NEW operations, Took(d, result, operations),
           NEW op \in operations \cup {NoOperation}, operations \subseteq Operations
    PROVE  /\ Took(d, MergeEntry(result, op), operations)
           /\ result.document.seen \subseteq MergeEntry(result, op).document.seen
           /\ MergeEntry(result, op).ok => /\ result.ok
                                           /\ op # NoOperation => op \in MergeEntry(result, op).document.seen
  <1>1. CASE result.ok /\ op # NoOperation
    <2> DEFINE after == Apply(result.document, op)
    <2>1. MergeEntry(result, op) = after
      BY <1>1, Zenon DEF MergeEntry
    <2>2. Sound(result.document) /\ op \in Operations /\ op \in operations
      BY <1>1, Zenon DEF Took
    <2>3. Took(result.document, after, {op}) /\ (after.ok => op \in after.document.seen)
      BY <2>2, ApplyTakes, Zenon
    <2> HIDE DEF after
    <2> QED
      BY <1>1, <2>1, <2>2, <2>3, Zenon DEF Took
  <1>2. CASE ~(result.ok /\ op # NoOperation)
    <2>1. MergeEntry(result, op) = result
      BY <1>2, Zenon DEF MergeEntry
    <2> QED
      BY <1>2, <2>1, Zenon DEF Took
  <1> QED
    BY <1>1, <1>2

(* merge takes over entries of the other, all of them when it is Ok.       *)
LEMMA MergeTakes ==
    ASSUME NEW d, Sound(d), NEW other, Sound(other)
    PROVE  /\ Took(d, Merge(d, other), Holds(other))
           /\ Merge(d, other).ok => Holds(other) \subseteq Merge(d, other).document.seen
  <1>1. PICK n \in Nat : DocumentKeys = 1 .. n
    BY KeysAreNumbered, Zenon
  <1>2. Cardinality(DocumentKeys) = n
    <2>1. 1 \in Int /\ n \in Int
      OBVIOUS
    <2>2. Cardinality(1 .. n) = IF 1 > n THEN 0 ELSE n - 1 + 1
      BY <2>1, FS_Interval, Zenon
    <2>3. Cardinality(1 .. n) = n
      BY <2>2
    <2> QED
      BY <1>1, <2>3, Zenon
  <1>3. PICK f : Merging(f, d, other, n) /\ Merge(d, other) = f[n]
    BY <1>2, MergeIsTheLast, Zenon
  <1>4. /\ Holds(other) \subseteq Operations
        /\ \A i \in DocumentKeys : other.entries[i] \in Holds(other) \cup {NoOperation}
    BY Zenon DEF Sound, Document, Holds
  <1> DEFINE All(i) == \A j \in 1 .. i : other.entries[j] # NoOperation =>
                            other.entries[j] \in f[i].document.seen
             T == {i \in Nat : i <= n => Took(d, f[i], Holds(other)) /\ (f[i].ok => All(i))}
  <1>5. 0 \in T
    <2>1. f[0] = [document |-> d, ok |-> TRUE]
      <3>1. 0 \in 0 .. n
        OBVIOUS
      <3> QED
        BY <1>3, <3>1, Zenon DEF Merging
    <2>2. Took(d, f[0], Holds(other))
      <3>1. f[0].document = d /\ f[0].ok = TRUE
        BY <2>1
      <3> QED
        BY <3>1, Zenon DEF Took
    <2>3. All(0)
      <3>1. 1 .. 0 = {}
        OBVIOUS
      <3> QED
        BY <3>1, Zenon
    <2>4. 0 \in Nat
      OBVIOUS
    <2> QED
      BY <2>2, <2>3, <2>4, Zenon
  <1>6. ASSUME NEW i \in T
        PROVE  i + 1 \in T
    <2>1. i \in Nat /\ i + 1 \in Nat
      BY <1>6
    <2> SUFFICES ASSUME i + 1 <= n
                 PROVE  Took(d, f[i + 1], Holds(other)) /\ (f[i + 1].ok => All(i + 1))
      BY <2>1, Zenon
    <2>2. i <= n /\ i + 1 \in 0 .. n /\ i + 1 \in 1 .. n /\ i + 1 # 0 /\ (i + 1) - 1 = i
      BY <2>1
    <2>3. Took(d, f[i], Holds(other)) /\ (f[i].ok => All(i))
      BY <1>6, <2>2, Zenon
    <2> DEFINE op == other.entries[i + 1]
               more == MergeEntry(f[i], op)
    <2>4. f[i + 1] = more
      <3>1. f[i + 1] = IF i + 1 = 0 THEN [document |-> d, ok |-> TRUE]
                       ELSE MergeEntry(f[(i + 1) - 1], other.entries[i + 1])
        BY <1>3, <2>2, Zenon DEF Merging
      <3> QED
        BY <3>1, <2>2, Zenon
    <2>5. op \in Holds(other) \cup {NoOperation}
      BY <1>1, <1>4, <2>2, Zenon
    <2>6. /\ Took(d, more, Holds(other))
          /\ f[i].document.seen \subseteq more.document.seen
          /\ more.ok => f[i].ok /\ (op # NoOperation => op \in more.document.seen)
      <3> HIDE DEF op
      <3> QED
        BY <1>4, <2>3, <2>5, MergeEntryTakes, Zenon
    <2>7. \A j \in 1 .. i + 1 : j \in 1 .. i \/ j = i + 1
      BY <2>1
    <2>8. more.ok => All(i + 1)
      <3> SUFFICES ASSUME more.ok, NEW j \in 1 .. i + 1, other.entries[j] # NoOperation
                   PROVE  other.entries[j] \in f[i + 1].document.seen
        OBVIOUS
      <3> HIDE DEF more
      <3>1. CASE j = i + 1
        BY <3>1, <2>4, <2>6, Zenon
      <3>2. CASE j \in 1 .. i
        <4>1. other.entries[j] \in f[i].document.seen
          BY <3>2, <2>3, <2>6, Zenon
        <4> QED
          BY <4>1, <2>4, <2>6, Zenon
      <3> QED
        BY <3>1, <3>2, <2>7, Zenon
    <2> HIDE DEF more, All
    <2> QED
      BY <2>4, <2>6, <2>8, Zenon
  <1> HIDE DEF T
  <1>7. T = Nat
    <2>1. T \in SUBSET Nat
      BY Zenon DEF T
    <2> QED
      BY <1>5, <1>6, <2>1, NumberInduction, Zenon
  <1>8. n <= n
    OBVIOUS
  <1>9. Took(d, f[n], Holds(other)) /\ (f[n].ok => All(n))
    BY <1>7, <1>8, Zenon DEF T
  <1>10. All(n) => Holds(other) \subseteq f[n].document.seen
    BY <1>1, Zenon DEF Holds
  <1> HIDE DEF All
  <1> QED
    BY <1>3, <1>9, <1>10, Zenon

(* Two documents that merged each other without an error.                  *)
LEMMA MergedBothWays ==
    ASSUME NEW other, Sound(other), NEW there, Sound(there), NEW back, Sound(back),
           Holds(other) \subseteq there.seen, Holds(there) \subseteq back.seen,
           other.seen \subseteq back.seen, back.seen \subseteq other.seen \cup Holds(there)
    PROVE  there.entries = back.entries
  <1>0. /\ there.entries \in [DocumentKeys -> Operations \cup {NoOperation}]
        /\ back.entries \in [DocumentKeys -> Operations \cup {NoOperation}]
        /\ back.seen \subseteq Operations /\ other.seen \subseteq Operations /\ there.seen \subseteq Operations
    BY Zenon DEF Sound, Document
  <1>1. ASSUME NEW k \in DocumentKeys
        PROVE  there.entries[k] = back.entries[k]
    <2> DEFINE a == there.entries[k]
               b == back.entries[k]
               c == other.entries[k]
    <2>0. /\ a \in there.seen \cup {NoOperation} /\ b \in back.seen \cup {NoOperation}
          /\ c \in other.seen \cup {NoOperation}
          /\ (a # NoOperation => a.key = k) /\ (b # NoOperation => b.key = k)
          /\ (c # NoOperation => c.key = k)
          /\ \A op \in there.seen : op.key = k => op = a \/ Supersedes(a, op)
          /\ \A op \in back.seen : op.key = k => op = b \/ Supersedes(b, op)
          /\ \A op \in other.seen : op.key = k => op = c \/ Supersedes(c, op)
      BY Zenon DEF Sound, Winning
    <2>1. (a # NoOperation => a \in back.seen) /\ (c # NoOperation => c \in there.seen)
      BY Zenon DEF Holds
    <2>2. b # NoOperation /\ b \notin other.seen => b = a
      <3> SUFFICES ASSUME b # NoOperation, b \notin other.seen
                   PROVE  b = a
        OBVIOUS
      <3>1. b \in Holds(there)
        BY <2>0, Zenon
      <3>2. PICK j \in DocumentKeys : b = there.entries[j]
        BY <3>1, Zenon DEF Holds
      <3>3. b.key = j
        BY <3>2, Zenon DEF Sound, Winning
      <3> QED
        BY <2>0, <3>2, <3>3, Zenon
    <2> SUFFICES a = b
      OBVIOUS
    <2> HIDE DEF a, b, c
    <2>3. CASE b = NoOperation
      BY <1>0, <2>0, <2>1, <2>3, NothingSupersedes, Zenon
    <2>4. CASE b # NoOperation /\ b \in other.seen
      <3>1. b \in Operations /\ b.key = k
        BY <1>0, <2>0, <2>4, Zenon
      <3>2. b = c \/ Supersedes(c, b)
        BY <2>0, <2>4, <3>1, Zenon
      <3>3. c \in Operations /\ c \in back.seen /\ c \in there.seen /\ c.key = k
        BY <1>0, <2>0, <2>1, <2>4, <3>1, <3>2, NothingSupersedes, Zenon
      <3>4. c = b
        <4>1. c = b \/ Supersedes(b, c)
          BY <2>0, <3>3, Zenon
        <4> QED
          BY <3>1, <3>2, <3>3, <4>1, SupersedesIsStrict, Zenon
      <3>5. c = a \/ Supersedes(a, c)
        BY <2>0, <3>3, Zenon
      <3>6. a \in Operations /\ a \in back.seen /\ a.key = k
        BY <1>0, <2>0, <2>1, <3>3, <3>5, NothingSupersedes, Zenon
      <3>7. a = b \/ Supersedes(b, a)
        BY <2>0, <3>6, Zenon
      <3> QED
        BY <3>1, <3>4, <3>5, <3>6, <3>7, SupersedesIsStrict, Zenon
    <2> QED
      BY <2>2, <2>3, <2>4, Zenon
  <1> QED
    BY <1>0, <1>1

\* SharedDocument::apply, merge: for any replicas and operations, delivered in
\* any order and any number of times and merged in any order, an entry is the
\* winner of what its replica took, replicas that took the same operations and
\* replicas that merged each other without an error hold the same entries, and
\* the byte count is that of the entries and within its limit.
THEOREM ReplicasConverge == DocumentSpec => []DocumentsConverge
  <1>1. DocumentInit => DocumentInv
    <2> SUFFICES ASSUME DocumentInit
                 PROVE  DocumentInv
      OBVIOUS
    <2>1. NewDocument \in Document
      BY DEF NewDocument, Document
    <2>2. \A k \in DocumentKeys : Winning(NewDocument, k)
      BY DEF NewDocument, Winning
    <2>3. /\ NewDocument.bytes = 0
          /\ \A k \in DocumentKeys : NewDocument.entries[k].bytes = 0
      BY DEF NewDocument, NoOperation
    <2>4. SumFunctionOnSet(DocumentSizes(NewDocument), DocumentKeys) = 0
      <3>1. /\ Summable(DocumentSizes(NewDocument), DocumentKeys)
            /\ \A k \in DocumentKeys : DocumentSizes(NewDocument)[k] = 0
        BY <2>1, <2>3, SizesAdd, Zenon
      <3> QED
        BY <3>1, SumOfZeros, Zenon
    <2>5. 0 <= DocumentBytes
      BY MeshAssumption
    <2>6. Sound(NewDocument)
      BY <2>1, <2>2, <2>3, <2>4, <2>5, Zenon DEF Sound
    <2> QED
      BY <2>6, Zenon DEF DocumentInit, DocumentInv
  <1>2. DocumentInv /\ [DocumentNext]_documentVars => DocumentInv'
    <2> SUFFICES ASSUME DocumentInv, [DocumentNext]_documentVars
                 PROVE  DocumentInv'
      OBVIOUS
    <2>0. DOMAIN documents = Replicas /\ \A r \in Replicas : Sound(documents[r])
      BY Zenon DEF DocumentInv
    <2>1. ASSUME NEW r \in Replicas, NEW d, Sound(d), documents' = [documents EXCEPT ![r] = d], synced' = {}
          PROVE  DocumentInv'
      <3>1. DOMAIN documents' = Replicas /\ \A s \in Replicas : documents'[s] = d \/ documents'[s] = documents[s]
        BY <2>0, <2>1, Zenon
      <3>2. \A s \in Replicas : Sound(documents'[s])
        BY <2>0, <2>1, <3>1, Zenon
      <3> QED
        BY <2>1, <3>1, <3>2, Zenon DEF DocumentInv, Sound
    <2>2. ASSUME NEW r \in Replicas, NEW op \in Operations, Deliver(r, op)
          PROVE  DocumentInv'
      <3>1. Sound(Apply(documents[r], op).document)
        BY <2>0, ApplyTakes, Zenon DEF Took
      <3> QED
        BY <2>1, <2>2, <3>1, Zenon DEF Deliver
    <2>3. ASSUME NEW r \in Replicas, NEW s \in Replicas, MergeOne(r, s)
          PROVE  DocumentInv'
      <3>1. Sound(Merge(documents[r], documents[s]).document)
        BY <2>0, MergeTakes, Zenon DEF Took
      <3> QED
        BY <2>1, <2>3, <3>1, Zenon DEF MergeOne
    <2>4. ASSUME NEW r \in Replicas, NEW s \in Replicas, r # s, Synchronise(r, s)
          PROVE  DocumentInv'
      <3> DEFINE there == Merge(documents[r], documents[s])
                 back == Merge(documents[s], there.document)
      <3>1. /\ documents' = [documents EXCEPT ![r] = there.document, ![s] = back.document]
            /\ synced' = IF there.ok /\ back.ok THEN {r, s} ELSE {}
        BY <2>4, Zenon DEF Synchronise
      <3>2. /\ Took(documents[r], there, Holds(documents[s]))
            /\ there.ok => Holds(documents[s]) \subseteq there.document.seen
        BY <2>0, MergeTakes, Zenon
      <3>3. Sound(there.document)
        BY <3>2, Zenon DEF Took
      <3>4. /\ Took(documents[s], back, Holds(there.document))
            /\ back.ok => Holds(there.document) \subseteq back.document.seen
        <4> HIDE DEF there
        <4> QED
          BY <2>0, <3>3, MergeTakes, Zenon
      <3> HIDE DEF there, back
      <3>5. Sound(back.document)
        BY <3>4, Zenon DEF Took
      <3>6. there.ok /\ back.ok => there.document.entries = back.document.entries
        <4> SUFFICES ASSUME there.ok, back.ok
                     PROVE  there.document.entries = back.document.entries
          OBVIOUS
        <4> DEFINE t == there.document
                   b == back.document
                   o == documents[s]
        <4>1. /\ Holds(o) \subseteq t.seen /\ Holds(t) \subseteq b.seen
              /\ o.seen \subseteq b.seen /\ b.seen \subseteq o.seen \cup Holds(t)
              /\ Sound(o) /\ Sound(t) /\ Sound(b)
          BY <2>0, <3>2, <3>3, <3>4, <3>5, Zenon DEF Took
        <4> SUFFICES t.entries = b.entries
          OBVIOUS
        <4> HIDE DEF t, b, o
        <4> QED
          BY <4>1, MergedBothWays, Zenon
      <3>7. /\ DOMAIN documents' = Replicas
            /\ documents'[r] = there.document /\ documents'[s] = back.document
            /\ \A q \in Replicas : q # r /\ q # s => documents'[q] = documents[q]
        BY <2>0, <2>4, <3>1, Zenon
      <3>8. \A q \in Replicas : Sound(documents'[q])
        BY <2>0, <3>3, <3>5, <3>7, Zenon
      <3>9. \A p, q \in synced' : documents'[p].entries = documents'[q].entries
        BY <3>1, <3>6, <3>7, Zenon
      <3>10. synced' \subseteq Replicas
        BY <3>1, Zenon
      <3> QED
        BY <3>7, <3>8, <3>9, <3>10, Zenon DEF DocumentInv, Sound
    <2>5. CASE UNCHANGED documentVars
      BY <2>5, Zenon DEF DocumentInv, documentVars, Sound
    <2> QED
      BY <2>2, <2>3, <2>4, <2>5, Zenon DEF DocumentNext, DeliverNext
  <1>3. DocumentInv => DocumentsConverge
    <2> SUFFICES ASSUME DocumentInv
                 PROVE  DocumentsConverge
      OBVIOUS
    <2>1. \A r \in Replicas : Sound(documents[r])
      BY Zenon DEF DocumentInv
    <2>2. ASSUME NEW r \in Replicas, NEW s \in Replicas, documents[r].seen = documents[s].seen
          PROVE  documents[r].entries = documents[s].entries
      <3>1. /\ documents[r] \in Document /\ documents[s] \in Document
            /\ \A k \in DocumentKeys : Winning(documents[r], k) /\ Winning(documents[s], k)
        BY <2>1, Zenon DEF Sound
      <3> QED
        BY <2>2, <3>1, SameSeenSameEntries, Zenon
    <2>3. EntriesAreWinners
      <3>1. \A r \in Replicas : \A k \in DocumentKeys : Winning(documents[r], k)
        BY <2>1, Zenon DEF Sound
      <3> QED
        BY <2>2, <3>1, Zenon DEF EntriesAreWinners, Winning
    <2>4. ASSUME NEW r \in Replicas
          PROVE  /\ documents[r].bytes = SumFunction([k \in DocumentKeys |-> documents[r].entries[k].bytes])
                 /\ documents[r].bytes <= DocumentBytes
      <3> DEFINE g == [k \in DocumentKeys |-> documents[r].entries[k].bytes]
      <3>1. DOMAIN g = DocumentKeys /\ g = DocumentSizes(documents[r])
        BY Zenon DEF DocumentSizes
      <3> HIDE DEF g
      <3>2. documents[r].bytes = SumFunction(g) /\ documents[r].bytes <= DocumentBytes
        BY <2>1, <3>1, Zenon DEF Sound, SumFunction
      <3> QED
        BY <3>2, Zenon DEF g
    <2> QED
      BY <2>3, <2>4, Zenon DEF DocumentsConverge, DocumentInv
  <1> QED
    BY <1>1, <1>2, <1>3, PTL DEF DocumentSpec
-----------------------------------------------------------------------------
(* The rollback window                                                     *)

Datagram == [tick: Nat, sequence: Nat]

(* What was accepted is remembered, or too old to be accepted again.       *)
WindowInv ==
    /\ window.newest \in Nat /\ window.seen \subseteq Datagram
    /\ taken.once \subseteq Datagram
    /\ \A d \in taken.once : d \in window.seen \/ d.tick + Rollback < window.newest
    /\ taken.again = {}

LEMMA LargerOfTwo ==
    ASSUME NEW a \in Nat, NEW b \in Nat
    PROVE  Max({a, b}) = IF a >= b THEN a ELSE b
  BY DEF Max

LEMMA AcceptKeeps ==
    ASSUME WindowInv, NEW d \in Datagram, AcceptOne(d)
    PROVE  WindowInv'
  <1> DEFINE newest == Max({window.newest, d.tick})
             kept == Kept(window.seen, newest)
             result == AcceptDatagram(window, d)
  <1>0. /\ d.tick \in Nat /\ window.newest \in Nat /\ Rollback \in Nat
        /\ window.seen \subseteq Datagram /\ taken.once \subseteq Datagram
        /\ window' = result.window /\ taken' = Noted(taken, d, result.taken)
    BY MeshAssumption DEF WindowInv, AcceptOne, Datagram
  <1>1. newest \in Nat /\ newest >= window.newest /\ newest >= d.tick
        /\ (newest = window.newest \/ newest = d.tick)
    BY <1>0, LargerOfTwo
  <1>2. \/ result.taken = FALSE /\ result.window = window
        \/ result.taken = FALSE /\ result.window.newest = newest /\ result.window.seen = kept
        \/ /\ ~(d.tick + Rollback < window.newest)
           /\ result.taken = (d \notin kept)
           /\ result.window.newest = newest /\ result.window.seen = kept \cup {d}
    <2> DEFINE wide == [newest |-> newest, seen |-> kept \cup {d}]
               narrow == [newest |-> newest, seen |-> kept]
    <2>1. /\ wide.newest = newest /\ wide.seen = kept \cup {d}
          /\ narrow.newest = newest /\ narrow.seen = kept
      BY Zenon
    <2>2. CASE d.tick + Rollback < window.newest
      BY <2>2, Zenon DEF AcceptDatagram
    <2>3. CASE ~(d.tick + Rollback < window.newest) /\ Cardinality(kept) >= WindowSize
      <3>1. result = [window |-> narrow, taken |-> FALSE]
        BY <2>3, Zenon DEF AcceptDatagram
      <3> HIDE DEF result, narrow, newest, kept
      <3> QED
        BY <2>1, <3>1, Zenon
    <2>4. CASE ~(d.tick + Rollback < window.newest) /\ ~(Cardinality(kept) >= WindowSize)
      <3>1. result = [window |-> wide, taken |-> d \notin kept]
        BY <2>4, Zenon DEF AcceptDatagram
      <3> HIDE DEF result, wide, newest, kept
      <3> QED
        BY <2>1, <2>4, <3>1, Zenon
    <2> QED
      BY <2>2, <2>3, <2>4, Zenon
  <1>3. kept \subseteq Datagram
    BY <1>0, Zenon DEF Kept
  <1>4. \A e \in window.seen : e \in kept \/ e.tick + Rollback < newest
    BY <1>0, <1>1 DEF Kept, Datagram
  <1>5. \A e \in taken.once : e \in kept \/ e.tick + Rollback < newest
    <2> SUFFICES ASSUME NEW e \in taken.once, e \notin kept
                 PROVE  e.tick + Rollback < newest
      OBVIOUS
    <2>1. CASE e \in window.seen
      BY <2>1, <1>4, Zenon
    <2>2. CASE e.tick + Rollback < window.newest
      <3>1. e.tick \in Nat
        BY <1>0 DEF Datagram
      <3> QED
        BY ONLY <2>2, <3>1, <1>0, <1>1, SMTT(30)
    <2> QED
      BY <2>1, <2>2, Zenon DEF WindowInv
  <1> HIDE DEF newest, kept, result
  <1>6. CASE result.taken = FALSE
    <2>1. taken' = taken
      BY <1>0, <1>6, Zenon DEF Noted
    <2>2. CASE result.window = window
      BY <1>0, <2>1, <2>2, Zenon DEF WindowInv
    <2>3. CASE result.window.newest = newest /\ result.window.seen = kept
      BY <1>0, <1>1, <1>3, <1>5, <2>1, <2>3, Zenon DEF WindowInv
    <2>4. ASSUME result.taken = (d \notin kept), result.window.newest = newest,
                 result.window.seen = kept \cup {d}
          PROVE  result.window.newest = newest /\ result.window.seen = kept
      BY <2>4, <1>6, Zenon
    <2> QED
      BY <1>2, <2>2, <2>3, <2>4, Zenon
  <1>7. CASE /\ ~(d.tick + Rollback < window.newest) /\ d \notin kept
             /\ result.taken = (d \notin kept)
             /\ result.window.newest = newest /\ result.window.seen = kept \cup {d}
    <2>1. d \notin taken.once
      <3> SUFFICES ASSUME d \in taken.once
                   PROVE  FALSE
        OBVIOUS
      <3>1. d \in window.seen
        BY <1>7, Zenon DEF WindowInv
      <3>2. d.tick + Rollback < newest
        BY <3>1, <1>4, <1>7, Zenon
      <3> QED
        BY ONLY <3>2, <1>0, <1>1, <1>7, SMTT(30)
    <2>2. taken' = [once |-> taken.once \cup {d}, again |-> taken.again \cup ({d} \cap taken.once)]
      BY <1>0, <1>7, Zenon DEF Noted
    <2>3. taken'.once = taken.once \cup {d} /\ taken'.again = {}
      BY <2>1, <2>2, Zenon DEF WindowInv
    <2>4. window'.newest = newest /\ window'.seen = kept \cup {d}
      BY <1>0, <1>7, Zenon
    <2> QED
      BY <1>0, <1>1, <1>3, <1>5, <2>3, <2>4, Zenon DEF WindowInv
  <1>8. CASE d \in kept /\ result.taken = (d \notin kept)
    BY <1>6, <1>8, Zenon
  <1> QED
    BY <1>2, <1>6, <1>7, <1>8, Zenon

\* RollbackWindow::accept: for any window, datagrams of any tick in any order,
\* no datagram is accepted twice, although the window forgets.
THEOREM NoDatagramTwice == WindowSpec => []AcceptedOnce
  <1>1. WindowInit => WindowInv
    BY DEF WindowInit, WindowInv
  <1>2. WindowInv /\ [DatagramNext(Nat, Nat)]_windowVars => WindowInv'
    <2> SUFFICES ASSUME WindowInv, [DatagramNext(Nat, Nat)]_windowVars
                 PROVE  WindowInv'
      OBVIOUS
    <2>1. CASE UNCHANGED windowVars
      BY <2>1, Zenon DEF windowVars, WindowInv
    <2>2. ASSUME NEW t \in Nat, NEW s \in Nat, AcceptOne([tick |-> t, sequence |-> s])
          PROVE  WindowInv'
      <3>1. [tick |-> t, sequence |-> s] \in Datagram
        BY Zenon DEF Datagram
      <3> QED
        BY <3>1, <2>2, AcceptKeeps, Zenon
    <2> QED
      BY <2>1, <2>2, Zenon DEF DatagramNext
  <1>3. WindowInv => AcceptedOnce
    BY Zenon DEF WindowInv, AcceptedOnce
  <1> QED
    BY <1>1, <1>2, <1>3, PTL DEF WindowSpec

-----------------------------------------------------------------------------
(* What the storage contract counts                                        *)

Sizes(entries) == [k \in Keys |-> Size(entries[k])]

One(b) == IF b THEN 1 ELSE 0

LEMMA SizeFacts ==
    ASSUME NEW v \in Values \cup {Absent}
    PROVE  Size(v) \in Nat /\ (v = Absent => Size(v) = 0)
  BY ValuesAssumption DEF Size, Absent

LEMMA BytesAreASum ==
    ASSUME NEW entries \in Entries
    PROVE  /\ Bytes(entries) = SumFunctionOnSet(Sizes(entries), Keys)
           /\ Summable(Sizes(entries), Keys) /\ Bytes(entries) \in Int
           /\ \A k \in Keys : Sizes(entries)[k] = Size(entries[k]) /\ Size(entries[k]) \in Nat
  <1>1. DOMAIN [k \in Keys |-> Size(entries[k])] = Keys
    BY Zenon
  <1>2. Bytes(entries) = SumFunctionOnSet(Sizes(entries), Keys)
    BY <1>1, Zenon DEF Bytes, SumFunction, Sizes
  <1>3. \A k \in Keys : Sizes(entries)[k] = Size(entries[k]) /\ Size(entries[k]) \in Nat
    BY SizeFacts, Zenon DEF Sizes, Entries
  <1>4. \A k \in Keys : Sizes(entries)[k] \in Int
    BY <1>3
  <1>5. Summable(Sizes(entries), Keys)
    BY <1>4, KeysAssumption, Zenon DEF Summable
  <1> QED
    BY <1>2, <1>3, <1>5, SumWithout, Zenon

LEMMA BytesChanged ==
    ASSUME NEW entries \in Entries, NEW key \in Keys, NEW value \in Values \cup {Absent}
    PROVE  LET after == [entries EXCEPT ![key] = value]
           IN  /\ after \in Entries
               /\ Bytes(after) = Bytes(entries) - Size(entries[key]) + Size(value)
  <1> DEFINE after == [entries EXCEPT ![key] = value]
             g == Sizes(entries)
             f == Sizes(after)
  <1>1. after \in Entries /\ after[key] = value /\ \A k \in Keys : k # key => after[k] = entries[k]
    BY Zenon DEF Entries
  <1> HIDE DEF after
  <1>2. /\ Bytes(entries) = SumFunctionOnSet(g, Keys) /\ Summable(g, Keys)
        /\ \A k \in Keys : g[k] = Size(entries[k])
    BY BytesAreASum, Zenon
  <1>3. /\ Bytes(after) = SumFunctionOnSet(f, Keys)
        /\ \A k \in Keys : f[k] = Size(after[k]) /\ f[k] \in Int
    BY <1>1, BytesAreASum, Zenon DEF Summable
  <1>4. ChangedAt(f, g, key, Keys)
    BY <1>1, <1>2, <1>3, Zenon DEF ChangedAt
  <1> HIDE DEF f, g
  <1>5. SumFunctionOnSet(f, Keys) = SumFunctionOnSet(g, Keys) - g[key] + f[key]
    BY <1>2, <1>4, SumOfChanged, Zenon
  <1>6. g[key] = Size(entries[key]) /\ f[key] = Size(value)
    BY <1>1, <1>2, <1>3, Zenon
  <1> QED
    BY <1>1, <1>2, <1>3, <1>5, <1>6, Zenon DEF after

LEMMA PresentChanged ==
    ASSUME NEW entries \in Entries, NEW key \in Keys, NEW value \in Values \cup {Absent}
    PROVE  LET after == [entries EXCEPT ![key] = value]
           IN  /\ Cardinality(Present(entries)) \in Nat /\ Cardinality(Present(after)) \in Nat
               /\ Cardinality(Present(after)) =
                     Cardinality(Present(entries)) - One(value = Absent) + One(entries[key] = Absent)
  <1> DEFINE after == [entries EXCEPT ![key] = value]
             old == Present(entries)
             new == Present(after)
  <1>1. after[key] = value /\ \A k \in Keys : k # key => after[k] = entries[k]
    BY Zenon DEF Entries
  <1> HIDE DEF after
  <1>2. IsFiniteSet(old) /\ IsFiniteSet(new) /\ Cardinality(old) \in Nat /\ Cardinality(new) \in Nat
    BY KeysAssumption, FS_Subset, FS_CardinalityType, Zenon DEF Present
  <1>3. key \in old <=> entries[key] # Absent
    BY Zenon DEF Present
  <1>4. CASE value = Absent
    <2>1. new = old \ {key}
      BY <1>1, <1>4, Zenon DEF Present
    <2>2. Cardinality(new) = IF key \in old THEN Cardinality(old) - 1 ELSE Cardinality(old)
      BY <2>1, <1>2, FS_RemoveElement, Zenon
    <2> HIDE DEF old, new
    <2> QED
      BY <2>2, <1>2, <1>3, <1>4 DEF old, new, One, after
  <1>5. CASE value # Absent
    <2>1. new = old \cup {key}
      BY <1>1, <1>5, Zenon DEF Present
    <2>2. Cardinality(new) = IF key \in old THEN Cardinality(old) ELSE Cardinality(old) + 1
      BY <2>1, <1>2, FS_AddElement, Zenon
    <2> HIDE DEF old, new
    <2> QED
      BY <2>2, <1>2, <1>3, <1>5 DEF old, new, One, after
  <1> QED
    BY <1>4, <1>5

(* The entries after the mutations of E, and what these remove and add.    *)
AfterSome(entries, mutations, E) ==
    [k \in Keys |-> IF \E i \in E : mutations[i].key = k
                    THEN mutations[CHOOSE i \in E : mutations[i].key = k].value ELSE entries[k]]

Taken(entries, mutations) == [i \in Effective(entries, mutations) |-> Size(entries[mutations[i].key])]

Given(entries, mutations) == [i \in Effective(entries, mutations) |-> Size(mutations[i].value)]

Distinct(mutations) == \A i, j \in DOMAIN mutations : i # j => mutations[i].key # mutations[j].key

(* The books agree with the entries after the mutations of E.              *)
Agrees(entries, mutations, E) ==
    LET after == AfterSome(entries, mutations, E)
    IN  /\ after \in Entries
        /\ Bytes(after) = Bytes(entries) - SumFunctionOnSet(Taken(entries, mutations), E)
                                         + SumFunctionOnSet(Given(entries, mutations), E)
        /\ Cardinality(Present(after)) =
              Cardinality(Present(entries)) - Cardinality({i \in E : mutations[i].value = Absent})
                                            + Cardinality({i \in E : entries[mutations[i].key] = Absent})

LEMMA MutationFacts ==
    ASSUME NEW entries \in Entries, NEW n \in Nat, NEW mutations \in [1 .. n -> Mutation]
    PROVE  /\ \A i \in DOMAIN mutations : /\ mutations[i].key \in Keys
                                          /\ mutations[i].value \in Values \cup {Absent}
                                          /\ entries[mutations[i].key] \in Values \cup {Absent}
           /\ IsFiniteSet(Effective(entries, mutations))
           /\ Effective(entries, mutations) \subseteq DOMAIN mutations
           /\ Summable(Taken(entries, mutations), Effective(entries, mutations))
           /\ Summable(Given(entries, mutations), Effective(entries, mutations))
           /\ \A i \in Effective(entries, mutations) :
                 /\ Taken(entries, mutations)[i] = Size(entries[mutations[i].key])
                 /\ Given(entries, mutations)[i] = Size(mutations[i].value)
  <1> DEFINE effective == Effective(entries, mutations)
  <1>1. \A i \in DOMAIN mutations : /\ mutations[i].key \in Keys
                                    /\ mutations[i].value \in Values \cup {Absent}
                                    /\ entries[mutations[i].key] \in Values \cup {Absent}
    BY Zenon DEF Mutation, Entries
  <1>2. effective \subseteq DOMAIN mutations /\ DOMAIN mutations = 1 .. n
    BY Zenon DEF Effective
  <1>3. IsFiniteSet(effective)
    <2>1. 1 \in Int /\ n \in Int
      OBVIOUS
    <2>2. IsFiniteSet(1 .. n)
      BY <2>1, FS_Interval, Zenon
    <2> QED
      BY <2>2, <1>2, FS_Subset, Zenon
  <1>4. \A i \in effective : /\ Taken(entries, mutations)[i] = Size(entries[mutations[i].key])
                             /\ Given(entries, mutations)[i] = Size(mutations[i].value)
    BY Zenon DEF Taken, Given
  <1> HIDE DEF effective
  <1>5. \A i \in effective : Size(entries[mutations[i].key]) \in Nat /\ Size(mutations[i].value) \in Nat
    BY <1>1, <1>2, SizeFacts, Zenon
  <1>6. \A i \in effective : Taken(entries, mutations)[i] \in Int /\ Given(entries, mutations)[i] \in Int
    BY <1>4, <1>5
  <1> QED
    BY <1>1, <1>2, <1>3, <1>4, <1>6, Zenon DEF Summable, effective

(* How many of a set a test selects, with one more.                        *)
LEMMA CountWith ==
    ASSUME NEW S, NEW s \in SUBSET S, NEW c, NEW x \in S \ s, IsFiniteSet(S)
    PROVE  /\ Cardinality((s \cup {x}) \cap c) = Cardinality(s \cap c) + One(x \in c)
           /\ Cardinality(s \cap c) \in Nat
  <1>1. IsFiniteSet(s \cap c) /\ Cardinality(s \cap c) \in Nat /\ x \notin s \cap c
    BY FS_Subset, FS_CardinalityType, Zenon
  <1>2. CASE x \in c
    <2>1. (s \cup {x}) \cap c = (s \cap c) \cup {x}
      BY <1>2, Zenon
    <2>2. Cardinality((s \cap c) \cup {x}) = Cardinality(s \cap c) + 1
      BY <1>1, FS_AddElement, Zenon
    <2> QED
      BY <1>1, <1>2, <2>1, <2>2, Zenon DEF One
  <1>3. CASE x \notin c
    <2>1. (s \cup {x}) \cap c = s \cap c
      BY <1>3, Zenon
    <2>2. Cardinality(s \cap c) = Cardinality(s \cap c) + 0
      BY <1>1
    <2> QED
      BY <1>1, <1>3, <2>1, <2>2, Zenon DEF One
  <1> QED
    BY <1>2, <1>3

OneChanged(before, after, key, old, value) ==
    before[key] = old /\ after = [before EXCEPT ![key] = value]

LEMMA AfterOneMore ==
    ASSUME NEW entries \in Entries, NEW n \in Nat, NEW mutations \in [1 .. n -> Mutation],
           Distinct(mutations), NEW E \in SUBSET Effective(entries, mutations),
           NEW x \in Effective(entries, mutations) \ E
    PROVE  OneChanged(AfterSome(entries, mutations, E), AfterSome(entries, mutations, E \cup {x}),
                      mutations[x].key, entries[mutations[x].key], mutations[x].value)
  <1> DEFINE key == mutations[x].key
             some == AfterSome(entries, mutations, E)
             more == AfterSome(entries, mutations, E \cup {x})
             F == E \cup {x}
  <1>1. E \subseteq DOMAIN mutations /\ x \in DOMAIN mutations /\ key \in Keys
    BY MutationFacts, Zenon
  <1>2. \A i \in E : mutations[i].key # key
    BY <1>1, Zenon DEF Distinct
  <1>3. some[key] = entries[key]
    BY <1>1, <1>2, Zenon DEF AfterSome
  <1>4. ASSUME NEW k \in Keys
        PROVE  more[k] = IF k = key THEN mutations[x].value ELSE some[k]
    <2>1. CASE k = key
      <3>1. \E i \in F : mutations[i].key = k
        BY <2>1, Zenon
      <3>2. (CHOOSE i \in F : mutations[i].key = k) = x
        BY <2>1, <1>2, Zenon
      <3>3. more[k] = mutations[CHOOSE i \in F : mutations[i].key = k].value
        BY <3>1, Zenon DEF AfterSome
      <3> QED
        BY <2>1, <3>2, <3>3, Zenon
    <2>2. CASE k # key
      <3>1. {i \in F : mutations[i].key = k} = {i \in E : mutations[i].key = k}
        BY <2>2, Zenon
      <3>2. CASE \E i \in E : mutations[i].key = k
        <4>1. PICK i \in E : mutations[i].key = k
          BY <3>2, Zenon
        <4>2. \A j \in F : mutations[j].key = k => j = i
          BY <4>1, <3>1, <1>1, Zenon DEF Distinct
        <4>3. (CHOOSE j \in F : mutations[j].key = k) = i /\ (CHOOSE j \in E : mutations[j].key = k) = i
          BY <4>1, <4>2, Zenon
        <4>4. more[k] = mutations[CHOOSE j \in F : mutations[j].key = k].value
          BY <4>1, Zenon DEF AfterSome
        <4>5. some[k] = mutations[CHOOSE j \in E : mutations[j].key = k].value
          BY <4>1, Zenon DEF AfterSome
        <4> QED
          BY <2>2, <4>3, <4>4, <4>5, Zenon
      <3>3. CASE ~ \E i \in E : mutations[i].key = k
        <4>1. ~ \E i \in F : mutations[i].key = k
          BY <3>1, <3>3, Zenon
        <4>2. more[k] = entries[k] /\ some[k] = entries[k]
          BY <3>3, <4>1, Zenon DEF AfterSome
        <4> QED
          BY <2>2, <4>2, Zenon
      <3> QED
        BY <3>2, <3>3
    <2> QED
      BY <2>1, <2>2
  <1>5. more = [k \in Keys |-> more[k]] /\ some = [k \in Keys |-> some[k]]
    BY Zenon DEF AfterSome
  <1> HIDE DEF more, some
  <1>6. more = [some EXCEPT ![key] = mutations[x].value]
    BY <1>1, <1>4, <1>5
  <1> QED
    BY <1>3, <1>6, Zenon DEF more, some, OneChanged

LEMMA BatchAgrees ==
    ASSUME NEW entries \in Entries, NEW n \in Nat, NEW mutations \in [1 .. n -> Mutation],
           Distinct(mutations)
    PROVE  Agrees(entries, mutations, Effective(entries, mutations))
  <1> DEFINE effective == Effective(entries, mutations)
             removed == Taken(entries, mutations)
             given == Given(entries, mutations)
             gone == {i \in effective : mutations[i].value = Absent}
             fresh == {i \in effective : entries[mutations[i].key] = Absent}
             P == {E \in SUBSET effective : Agrees(entries, mutations, E)}
  <1>0. /\ IsFiniteSet(effective) /\ Summable(removed, effective) /\ Summable(given, effective)
        /\ \A i \in effective : /\ removed[i] = Size(entries[mutations[i].key])
                                /\ given[i] = Size(mutations[i].value)
                                /\ mutations[i].key \in Keys
                                /\ mutations[i].value \in Values \cup {Absent}
    BY MutationFacts, Zenon
  <1>1. \A E \in SUBSET effective : /\ {i \in E : mutations[i].value = Absent} = E \cap gone
                                    /\ {i \in E : entries[mutations[i].key] = Absent} = E \cap fresh
    BY Zenon
  <1>2. {} \in P
    <2>1. AfterSome(entries, mutations, {}) = entries
      <3>1. AfterSome(entries, mutations, {}) = [k \in Keys |-> entries[k]]
        BY Zenon DEF AfterSome
      <3> QED
        BY <3>1, Zenon DEF Entries
    <2>2. SumFunctionOnSet(removed, {}) = 0 /\ SumFunctionOnSet(given, {}) = 0
      BY SumOfNothing, Zenon
    <2>3. {i \in {} : mutations[i].value = Absent} = {} /\ {i \in {} : entries[mutations[i].key] = Absent} = {}
      BY Zenon
    <2>4. Bytes(entries) \in Int /\ Cardinality({}) = 0
      BY BytesAreASum, FS_EmptySet, Zenon
    <2>5. Cardinality(Present(entries)) \in Nat
      BY KeysAssumption, FS_Subset, FS_CardinalityType, Zenon DEF Present
    <2>6. Bytes(entries) = Bytes(entries) - 0 + 0
          /\ Cardinality(Present(entries)) = Cardinality(Present(entries)) - 0 + 0
      BY <2>4, <2>5
    <2>7. Agrees(entries, mutations, {})
      BY <2>1, <2>2, <2>3, <2>4, <2>6, Zenon DEF Agrees
    <2> QED
      BY <2>7, Zenon
  <1>3. ASSUME NEW E \in P, NEW x \in effective \ E
        PROVE  E \cup {x} \in P
    <2> DEFINE F == E \cup {x}
               key == mutations[x].key
               value == mutations[x].value
               some == AfterSome(entries, mutations, E)
               more == AfterSome(entries, mutations, F)
    <2>1. E \in SUBSET effective /\ Agrees(entries, mutations, E) /\ F \in SUBSET effective
      BY Zenon
    <2>2. some[key] = entries[key] /\ more = [some EXCEPT ![key] = value]
      <3>1. OneChanged(some, more, key, entries[key], value)
        BY <2>1, AfterOneMore, Zenon
      <3> HIDE DEF some, more, key, value
      <3> QED
        BY <3>1, Zenon DEF OneChanged
    <2>3. some \in Entries /\ key \in Keys /\ value \in Values \cup {Absent}
      BY <1>0, <2>1, Zenon DEF Agrees
    <2>4. /\ more \in Entries
          /\ Bytes(more) = Bytes(some) - Size(entries[key]) + Size(value)
          /\ Cardinality(Present(more)) =
                Cardinality(Present(some)) - One(value = Absent) + One(entries[key] = Absent)
          /\ Cardinality(Present(some)) \in Nat
      <3> HIDE DEF some, more, key, value, P
      <3> DEFINE after == [some EXCEPT ![key] = value]
      <3>1. /\ after \in Entries
            /\ Bytes(after) = Bytes(some) - Size(some[key]) + Size(value)
        BY <2>3, BytesChanged, Zenon
      <3>2. /\ Cardinality(Present(some)) \in Nat
            /\ Cardinality(Present(after)) =
                  Cardinality(Present(some)) - One(value = Absent) + One(some[key] = Absent)
        BY <2>3, PresentChanged, Zenon
      <3> HIDE DEF after
      <3>3. more = after
        BY <2>2, Zenon DEF after
      <3> QED
        BY <2>2, <3>1, <3>2, <3>3, Zenon
    <2>5. /\ SumFunctionOnSet(removed, F) = Size(entries[key]) + SumFunctionOnSet(removed, E)
          /\ SumFunctionOnSet(given, F) = Size(value) + SumFunctionOnSet(given, E)
          /\ SumFunctionOnSet(removed, E) \in Int /\ SumFunctionOnSet(given, E) \in Int
          /\ Size(entries[key]) \in Int /\ Size(value) \in Int
      <3>1. removed[x] = Size(entries[key]) /\ given[x] = Size(value)
        BY <1>0, Zenon
      <3> HIDE DEF removed, given, key, value, effective
      <3>2. /\ SumFunctionOnSet(removed, F) = removed[x] + SumFunctionOnSet(removed, E)
            /\ SumFunctionOnSet(removed, E) \in Int /\ removed[x] \in Int
        BY <1>0, <2>1, SumWith, Zenon
      <3>3. /\ SumFunctionOnSet(given, F) = given[x] + SumFunctionOnSet(given, E)
            /\ SumFunctionOnSet(given, E) \in Int /\ given[x] \in Int
        BY <1>0, <2>1, SumWith, Zenon
      <3> QED
        BY <3>1, <3>2, <3>3, Zenon
    <2>6. /\ Cardinality(F \cap gone) = Cardinality(E \cap gone) + One(x \in gone)
          /\ Cardinality(F \cap fresh) = Cardinality(E \cap fresh) + One(x \in fresh)
          /\ Cardinality(E \cap gone) \in Nat /\ Cardinality(E \cap fresh) \in Nat
      <3> HIDE DEF gone, fresh, effective
      <3> QED
        BY <1>0, <2>1, CountWith, ZenonT(40)
    <2>7. One(x \in gone) = One(value = Absent) /\ One(x \in fresh) = One(entries[key] = Absent)
          /\ One(value = Absent) \in Int /\ One(entries[key] = Absent) \in Int
      BY DEF One
    <2>8. Bytes(entries) \in Int /\ Cardinality(Present(entries)) \in Nat
      BY BytesAreASum, KeysAssumption, FS_Subset, FS_CardinalityType, Zenon DEF Present
    <2>9. /\ Bytes(some) = Bytes(entries) - SumFunctionOnSet(removed, E) + SumFunctionOnSet(given, E)
          /\ Cardinality(Present(some)) =
                Cardinality(Present(entries)) - Cardinality(E \cap gone) + Cardinality(E \cap fresh)
      BY <1>1, <2>1, Zenon DEF Agrees
    <2>10. Bytes(more) = Bytes(entries) - SumFunctionOnSet(removed, F) + SumFunctionOnSet(given, F)
      <3> DEFINE a == Bytes(more)
                 b == Bytes(some)
                 c == Bytes(entries)
                 tf == SumFunctionOnSet(removed, F)
                 te == SumFunctionOnSet(removed, E)
                 gf == SumFunctionOnSet(given, F)
                 ge == SumFunctionOnSet(given, E)
                 u == Size(entries[key])
                 v == Size(value)
      <3>1. a = b - u + v /\ tf = u + te /\ gf = v + ge /\ b = c - te + ge
            /\ c \in Int /\ te \in Int /\ ge \in Int /\ u \in Int /\ v \in Int
        BY <2>4, <2>5, <2>8, <2>9, Zenon
      <3> SUFFICES a = c - tf + gf
        OBVIOUS
      <3> HIDE DEF a, b, c, tf, te, gf, ge, u, v
      <3> QED
        BY ONLY <3>1, SMT
    <2>11. Cardinality(Present(more)) =
               Cardinality(Present(entries)) - Cardinality(F \cap gone) + Cardinality(F \cap fresh)
      <3> DEFINE a == Cardinality(Present(more))
                 b == Cardinality(Present(some))
                 c == Cardinality(Present(entries))
                 tf == Cardinality(F \cap gone)
                 te == Cardinality(E \cap gone)
                 gf == Cardinality(F \cap fresh)
                 ge == Cardinality(E \cap fresh)
                 u == One(value = Absent)
                 v == One(entries[key] = Absent)
      <3>1. a = b - u + v /\ tf = te + u /\ gf = ge + v /\ b = c - te + ge
            /\ c \in Nat /\ te \in Nat /\ ge \in Nat /\ u \in Int /\ v \in Int
        BY <2>4, <2>6, <2>7, <2>8, <2>9, ZenonT(40)
      <3> SUFFICES a = c - tf + gf
        OBVIOUS
      <3> HIDE DEF a, b, c, tf, te, gf, ge, u, v
      <3> QED
        BY ONLY <3>1, SMT
    <2>12. Agrees(entries, mutations, F)
      BY <1>1, <2>1, <2>4, <2>10, <2>11, Zenon DEF Agrees
    <2> QED
      BY <2>1, <2>12, Zenon
  <1> HIDE DEF P
  <1>4. P \in SUBSET (SUBSET effective)
    BY Zenon DEF P
  <1>5. P = SUBSET effective
    <2> HIDE DEF effective
    <2> QED
      BY <1>0, <1>2, <1>3, <1>4, SubsetInduction, Zenon
  <1>6. effective \in SUBSET effective
    BY Zenon
  <1> QED
    BY <1>5, <1>6, Zenon DEF P

(* The stored byte count is the size of the entries, and these are within  *)
(* the limits.                                                             *)
Books(entries, bytes) == bytes = Bytes(entries) /\ WithinLimits(entries)

LEMMA PutBooks ==
    ASSUME NEW entries \in Entries, NEW bytes, Books(entries, bytes), NEW key \in Keys,
           NEW value \in Values, value <= Limits.max_value_bytes
    PROVE  Books(PutWrite(entries, bytes, key, value).entries, PutWrite(entries, bytes, key, value).bytes)
  <1> DEFINE after == [entries EXCEPT ![key] = value]
             next == bytes - Size(entries[key]) + Size(value)
             write == PutWrite(entries, bytes, key, value)
  <1>1. \/ write.entries = entries /\ write.bytes = bytes
        \/ /\ write.entries = after /\ write.bytes = next /\ ~(next > Limits.max_bytes)
           /\ ~(entries[key] = Absent /\ Cardinality(Present(entries)) >= Limits.max_keys)
    BY DEF PutWrite, Written, Refused
  <1>2. CASE /\ write.entries = after /\ write.bytes = next /\ ~(next > Limits.max_bytes)
             /\ ~(entries[key] = Absent /\ Cardinality(Present(entries)) >= Limits.max_keys)
    <2>1. after \in Entries /\ Bytes(after) = Bytes(entries) - Size(entries[key]) + Size(value)
      BY BytesChanged, Zenon
    <2>2. /\ Cardinality(Present(entries)) \in Nat
          /\ Cardinality(Present(after)) =
                Cardinality(Present(entries)) - One(value = Absent) + One(entries[key] = Absent)
      BY PresentChanged, Zenon
    <2>3. value # Absent /\ Size(value) = value
      BY ValuesAssumption DEF Absent, Size
    <2>4. Bytes(after) = next
      BY <2>1, Zenon DEF Books
    <2>5. Bytes(after) <= Limits.max_bytes
      <3>1. Bytes(after) \in Int /\ Limits.max_bytes \in Nat
        BY <2>1, BytesAreASum, LimitsAssumption, Zenon
      <3> DEFINE b == Bytes(after)
      <3>2. b \in Int /\ ~(b > Limits.max_bytes)
        BY <3>1, <2>4, <1>2, ZenonT(40)
      <3> SUFFICES b <= Limits.max_bytes
        BY SMTT(30)
      <3> HIDE DEF b
      <3> QED
        BY ONLY <3>1, <3>2, SMTT(30)
    <2>6. Cardinality(Present(after)) <= Limits.max_keys
      <3> DEFINE c == Cardinality(Present(after))
                 d == Cardinality(Present(entries))
      <3>1. c = d - 0 + One(entries[key] = Absent) /\ d \in Nat
        BY <2>2, <2>3, Zenon DEF One
      <3>2. d <= Limits.max_keys /\ Limits.max_keys \in Nat
        BY LimitsAssumption, Zenon DEF Books, WithinLimits
      <3>3. (entries[key] = Absent /\ ~(d >= Limits.max_keys) /\ One(entries[key] = Absent) = 1)
            \/ One(entries[key] = Absent) = 0
        BY <1>2, Zenon DEF One
      <3> SUFFICES c <= Limits.max_keys
        OBVIOUS
      <3> HIDE DEF c, d
      <3> QED
        BY ONLY <3>1, <3>2, <3>3, SMTT(30)
    <2>7. \A k \in Keys : Size(after[k]) <= Limits.max_value_bytes
      <3>1. \A k \in Keys : after[k] = value \/ after[k] = entries[k]
        BY Zenon DEF Entries
      <3> HIDE DEF after
      <3> QED
        BY <3>1, <2>3, Zenon DEF Books, WithinLimits
    <2> HIDE DEF after, next, write
    <2> QED
      BY <1>2, <2>4, <2>5, <2>6, <2>7, Zenon DEF Books, WithinLimits, write
  <1> HIDE DEF after, next, write
  <1> QED
    BY <1>1, <1>2, ZenonT(40) DEF write

LEMMA DeleteBooks ==
    ASSUME NEW entries \in Entries, NEW bytes, Books(entries, bytes), NEW key \in Keys,
           entries[key] # Absent
    PROVE  Books(DeleteWrite(entries, bytes, key).entries, DeleteWrite(entries, bytes, key).bytes)
  <1> DEFINE after == [entries EXCEPT ![key] = Absent]
             write == DeleteWrite(entries, bytes, key)
  <1>1. write.entries = after /\ write.bytes = bytes - Size(entries[key])
    BY DEF DeleteWrite, Written
  <1>0. Absent \in Values \cup {Absent}
    BY Zenon
  <1>2. after \in Entries /\ Bytes(after) = Bytes(entries) - Size(entries[key]) + Size(Absent)
    BY <1>0, BytesChanged, Zenon
  <1>3. /\ Cardinality(Present(entries)) \in Nat
        /\ Cardinality(Present(after)) =
              Cardinality(Present(entries)) - One(Absent = Absent) + One(entries[key] = Absent)
    BY <1>0, PresentChanged, Zenon
  <1>4. Size(Absent) = 0 /\ One(Absent = Absent) = 1 /\ One(entries[key] = Absent) = 0
    BY Zenon DEF Size, One
  <1>5. Size(entries[key]) \in Nat /\ Bytes(entries) \in Int
    BY SizeFacts, BytesAreASum, Zenon DEF Entries
  <1>6. /\ bytes = Bytes(entries) /\ Bytes(entries) <= Limits.max_bytes
        /\ Cardinality(Present(entries)) <= Limits.max_keys
        /\ Limits.max_bytes \in Nat /\ Limits.max_keys \in Nat /\ Limits.max_value_bytes \in Nat
    BY LimitsAssumption, Zenon DEF Books, WithinLimits
  <1>7. \A k \in Keys : Size(after[k]) <= Limits.max_value_bytes
    <2>1. \A k \in Keys : after[k] = Absent \/ after[k] = entries[k]
      BY Zenon DEF Entries
    <2>2. Size(Absent) <= Limits.max_value_bytes
      BY <1>4, <1>6
    <2> HIDE DEF after
    <2> QED
      BY <2>1, <2>2, Zenon DEF Books, WithinLimits
  <1>8. /\ Bytes(after) = bytes - Size(entries[key]) /\ Bytes(after) <= Limits.max_bytes
        /\ Cardinality(Present(after)) <= Limits.max_keys
    <2> HIDE DEF after
    <2> DEFINE a == Bytes(after)
               b == Bytes(entries)
               c == Cardinality(Present(after))
               d == Cardinality(Present(entries))
               s == Size(entries[key])
    <2>1. a = b - s + 0 /\ c = d - 1 + 0 /\ s \in Nat /\ b \in Int /\ d \in Nat
      BY <1>2, <1>3, <1>4, <1>5, Zenon
    <2>2. bytes = b /\ b <= Limits.max_bytes /\ d <= Limits.max_keys
          /\ Limits.max_bytes \in Nat /\ Limits.max_keys \in Nat
      BY <1>6, Zenon
    <2> SUFFICES a = bytes - s /\ a <= Limits.max_bytes /\ c <= Limits.max_keys
      OBVIOUS
    <2> HIDE DEF a, b, c, d, s
    <2> QED
      BY ONLY <2>1, <2>2, SMTT(30)
  <1> HIDE DEF after, write
  <1> QED
    BY <1>1, <1>7, <1>8, Zenon DEF Books, WithinLimits, write

LEMMA BatchReachesAll ==
    ASSUME NEW entries \in Entries, NEW n \in Nat, NEW mutations \in [1 .. n -> Mutation],
           Distinct(mutations)
    PROVE  /\ NextEntries(entries, mutations) =
                 AfterSome(entries, mutations, Effective(entries, mutations))
           /\ \A k \in Keys : \/ NextEntries(entries, mutations)[k] = entries[k]
                              \/ \E i \in DOMAIN mutations :
                                    NextEntries(entries, mutations)[k] = mutations[i].value
  <1> DEFINE effective == Effective(entries, mutations)
             named(k) == {j \in DOMAIN mutations : mutations[j].key = k}
             values(k) == {mutations[i].value : i \in named(k)}
             after(k) == IF values(k) = {} THEN entries[k] ELSE CHOOSE v \in values(k) : TRUE
             some(k) == IF \E i \in effective : mutations[i].key = k
                        THEN mutations[CHOOSE i \in effective : mutations[i].key = k].value ELSE entries[k]
  <1>0. /\ NextEntries(entries, mutations) = [k \in Keys |-> after(k)]
        /\ AfterSome(entries, mutations, effective) = [k \in Keys |-> some(k)]
    BY Zenon DEF NextEntries, AfterSome
  <1>1. ASSUME NEW k \in Keys
        PROVE  /\ after(k) = some(k)
               /\ after(k) = entries[k] \/ \E i \in DOMAIN mutations : after(k) = mutations[i].value
    <2>1. CASE named(k) = {}
      <3>1. values(k) = {} /\ ~ \E i \in effective : mutations[i].key = k
        BY <2>1, ZenonT(40) DEF Effective
      <3> QED
        BY <3>1, Zenon
    <2>2. CASE named(k) # {}
      <3>1. PICK i \in DOMAIN mutations : mutations[i].key = k
        BY <2>2, Zenon
      <3>2. values(k) = {mutations[i].value}
        BY <3>1, Zenon DEF Distinct
      <3>3. after(k) = mutations[i].value
        BY <3>2, Zenon
      <3>4. CASE i \in effective
        <4>1. (CHOOSE j \in effective : mutations[j].key = k) = i
          BY <3>1, <3>4, Zenon DEF Distinct, Effective
        <4>2. some(k) = mutations[CHOOSE j \in effective : mutations[j].key = k].value
          BY <3>1, <3>4, Zenon
        <4> QED
          BY <3>3, <4>1, <4>2, Zenon
      <3>5. CASE i \notin effective
        <4>1. entries[k] = mutations[i].value
          BY <3>1, <3>5, Zenon DEF Effective
        <4>2. ~ \E j \in effective : mutations[j].key = k
          BY <3>1, <3>5, Zenon DEF Distinct, Effective
        <4> QED
          BY <3>3, <4>1, <4>2, Zenon
      <3> QED
        BY <3>4, <3>5, Zenon
    <2> QED
      BY <2>1, <2>2, Zenon
  <1> HIDE DEF after, some
  <1>2. [k \in Keys |-> after(k)] = [k \in Keys |-> some(k)]
    BY <1>1, Zenon
  <1>3. \A k \in Keys : NextEntries(entries, mutations)[k] = after(k)
    BY <1>0, Zenon
  <1> QED
    BY <1>0, <1>1, <1>2, <1>3, ZenonT(40)

LEMMA BatchBooks ==
    ASSUME NEW entries \in Entries, NEW bytes, Books(entries, bytes), NEW n \in Nat,
           NEW mutations \in [1 .. n -> Mutation], ValidMutations(mutations),
           ApplyMutations(entries, bytes, mutations).error = "ok"
    PROVE  Books(ApplyMutations(entries, bytes, mutations).entries,
                 ApplyMutations(entries, bytes, mutations).bytes)
  <1> DEFINE write == ApplyMutations(entries, bytes, mutations)
             after == NextEntries(entries, mutations)
             next == NextBytes(entries, bytes, mutations)
             effective == Effective(entries, mutations)
  <1>1. /\ write.entries = after /\ write.bytes = next /\ ~(next > Limits.max_bytes)
        /\ ~(NextKeys(entries, mutations) > Limits.max_keys)
    BY DEF ApplyMutations, Written, Refused
  <1>2. Distinct(mutations)
    BY Zenon DEF Distinct, ValidMutations
  <1>3. after = AfterSome(entries, mutations, effective) /\ Agrees(entries, mutations, effective)
    BY <1>2, BatchReachesAll, BatchAgrees, Zenon
  <1>4. next = bytes - SumFunctionOnSet(Taken(entries, mutations), effective)
                     + SumFunctionOnSet(Given(entries, mutations), effective)
    BY Zenon DEF NextBytes, SumFunction, Taken, Given
  <1>5. Bytes(after) = next /\ Cardinality(Present(after)) = NextKeys(entries, mutations)
        /\ after \in Entries
    BY <1>3, <1>4, Zenon DEF Agrees, NextKeys, Books
  <1>6. \A k \in Keys : Size(after[k]) <= Limits.max_value_bytes
    <2>1. \A k \in Keys : after[k] = entries[k] \/ \E i \in DOMAIN mutations : after[k] = mutations[i].value
      BY <1>2, BatchReachesAll, Zenon
    <2> HIDE DEF after
    <2> QED
      BY <2>1, Zenon DEF Books, WithinLimits, ValidMutations
  <1>7. Bytes(after) <= Limits.max_bytes /\ Cardinality(Present(after)) <= Limits.max_keys
    <2>1. Bytes(after) \in Int /\ Cardinality(Present(after)) \in Nat
          /\ Limits.max_bytes \in Nat /\ Limits.max_keys \in Nat
      BY <1>5, BytesAreASum, KeysAssumption, LimitsAssumption, FS_Subset, FS_CardinalityType, Zenon DEF Present
    <2> DEFINE b == Bytes(after)
               c == Cardinality(Present(after))
    <2>2. b \in Int /\ c \in Nat /\ ~(b > Limits.max_bytes) /\ ~(c > Limits.max_keys)
      BY <1>1, <1>5, <2>1, Zenon
    <2> SUFFICES b <= Limits.max_bytes /\ c <= Limits.max_keys
      OBVIOUS
    <2> HIDE DEF b, c
    <2> QED
      BY ONLY <2>1, <2>2, SMTT(30)
  <1> HIDE DEF write, after, next
  <1> QED
    BY <1>1, <1>5, <1>6, <1>7, Zenon DEF Books, WithinLimits, write

LEMMA NoEntriesBooks == NoEntries \in Entries /\ Books(NoEntries, 0)
  <1>1. NoEntries \in Entries /\ \A k \in Keys : NoEntries[k] = Absent
    BY Zenon DEF NoEntries, Entries
  <1>2. Size(Absent) = 0
    BY Zenon DEF Size
  <1>3. Bytes(NoEntries) = 0
    <2>1. Bytes(NoEntries) = SumFunctionOnSet(Sizes(NoEntries), Keys) /\ Summable(Sizes(NoEntries), Keys)
      BY <1>1, BytesAreASum, Zenon
    <2>2. \A k \in Keys : Sizes(NoEntries)[k] = 0
      BY <1>1, <1>2, Zenon DEF Sizes
    <2> QED
      BY <2>1, <2>2, SumOfZeros, Zenon
  <1>4. Present(NoEntries) = {}
    BY <1>1, Zenon DEF Present
  <1>5. Cardinality(Present(NoEntries)) = 0
    BY <1>4, FS_EmptySet, Zenon
  <1>6. Limits.max_keys \in Nat /\ Limits.max_bytes \in Nat /\ Limits.max_value_bytes \in Nat
    BY LimitsAssumption, Zenon
  <1>7. 0 <= Limits.max_keys /\ 0 <= Limits.max_bytes /\ 0 <= Limits.max_value_bytes
    BY ONLY <1>6, SMT
  <1> QED
    BY <1>1, <1>2, <1>3, <1>5, <1>7, Zenon DEF Books, WithinLimits

-----------------------------------------------------------------------------
(* The memory backend                                                      *)

Token == [revision: Int, entries: Entries]

(* A revision that is still current stands for the current entries, and    *)
(* the books agree with the entries.                                       *)
MemoryInv ==
    /\ DOMAIN memory = {"exists", "schema", "revision", "entries", "bytes"}
    /\ memory.revision \in Nat /\ memory.entries \in Entries
    /\ Books(memory.entries, memory.bytes)
    /\ held \in [MemoryClients -> Token]
    /\ \A c \in MemoryClients :
          /\ held[c].revision <= memory.revision
          /\ held[c].revision = memory.revision => held[c].entries = memory.entries
    /\ AppliedToItsToken

(* A step leaves entries and revision alone, or moves the revision.        *)
Moves ==
    /\ DOMAIN memory' = DOMAIN memory /\ memory'.entries \in Entries
    /\ Books(memory'.entries, memory'.bytes)
    /\ \/ memory'.entries = memory.entries /\ memory'.revision = memory.revision
       \/ memory'.revision = memory.revision + 1
    /\ held' = held /\ AppliedToItsToken'

LEMMA MovesKeeps ==
    ASSUME MemoryInv, Moves
    PROVE  MemoryInv'
  <1>1. memory'.revision \in Nat
    BY DEF MemoryInv, Moves
  <1>2. ASSUME NEW c \in MemoryClients
        PROVE  /\ held[c].revision <= memory'.revision
               /\ held[c].revision = memory'.revision => held[c].entries = memory'.entries
    <2>1. held[c].revision \in Int /\ held[c].revision <= memory.revision /\ memory.revision \in Nat
      BY DEF MemoryInv, Token
    <2>2. CASE memory'.entries = memory.entries /\ memory'.revision = memory.revision
      BY <2>2, Zenon DEF MemoryInv
    <2>3. CASE memory'.revision = memory.revision + 1
      BY ONLY <2>1, <2>3, SMT
    <2> QED
      BY <2>2, <2>3, Zenon DEF Moves
  <1> QED
    BY <1>1, <1>2, Zenon DEF MemoryInv, Moves, Books, WithinLimits

LEMMA StoredFields ==
    ASSUME MemoryInv, NEW write, NEW revision
    PROVE  /\ DOMAIN Stored(write, revision) = DOMAIN memory
           /\ Stored(write, revision).entries = write.entries
           /\ Stored(write, revision).revision = revision
           /\ Stored(write, revision).bytes = write.bytes
  BY DEF MemoryInv, Stored

LEMMA CreatedFields ==
    ASSUME MemoryInv
    PROVE  /\ DOMAIN [memory EXCEPT !.exists = TRUE] = DOMAIN memory
           /\ [memory EXCEPT !.exists = TRUE].entries = memory.entries
           /\ [memory EXCEPT !.exists = TRUE].revision = memory.revision
           /\ [memory EXCEPT !.exists = TRUE].bytes = memory.bytes
  BY DEF MemoryInv

LEMMA NextEntriesTyped ==
    ASSUME NEW entries \in Entries, NEW n \in Nat, NEW mutations \in [1 .. n -> Mutation]
    PROVE  /\ NextEntries(entries, mutations) \in Entries
           /\ ~MutationsChange(entries, mutations) => NextEntries(entries, mutations) = entries
  <1> DEFINE named(k) == {j \in DOMAIN mutations : mutations[j].key = k}
             values(k) == {mutations[i].value : i \in named(k)}
             after(k) == IF values(k) = {} THEN entries[k] ELSE CHOOSE v \in values(k) : TRUE
  <1>0. NextEntries(entries, mutations) = [k \in Keys |-> after(k)]
    BY Zenon DEF NextEntries
  <1>1. \A k \in Keys : values(k) \subseteq Values \cup {Absent}
    BY DEF Mutation
  <1>2. \A k \in Keys : after(k) \in Values \cup {Absent}
    <2> SUFFICES ASSUME NEW k \in Keys
                 PROVE  after(k) \in Values \cup {Absent}
      BY Zenon
    <2>1. CASE values(k) = {}
      BY <2>1, Zenon DEF Entries
    <2>2. CASE values(k) # {}
      <3>1. (CHOOSE v \in values(k) : TRUE) \in values(k)
        BY <2>2, Zenon
      <3> QED
        BY <3>1, <2>2, <1>1, Zenon
    <2> QED
      BY <2>1, <2>2, Zenon
  <1>3. ASSUME ~MutationsChange(entries, mutations), NEW k \in Keys
        PROVE  after(k) = entries[k]
    <2>1. \A v \in values(k) : v = entries[k]
      BY <1>3, Zenon DEF MutationsChange
    <2>2. CASE values(k) # {}
      <3>1. (CHOOSE v \in values(k) : TRUE) \in values(k)
        BY <2>2, Zenon
      <3> QED
        BY <3>1, <2>1, <2>2, Zenon
    <2> QED
      BY <2>2, Zenon
  <1> HIDE DEF after
  <1>4. [k \in Keys |-> after(k)] \in Entries
    BY <1>2, Zenon DEF Entries
  <1>5. ~MutationsChange(entries, mutations) => [k \in Keys |-> after(k)] = entries
    BY <1>3, SMTT(30) DEF Entries
  <1> QED
    BY <1>0, <1>4, <1>5, ZenonT(40)

(* What apply_mutations leaves: the entries, or the next ones.             *)
LEMMA AppliedOrRefused ==
    ASSUME NEW entries, NEW bytes, NEW mutations
    PROVE  LET write == ApplyMutations(entries, bytes, mutations)
           IN  write.error = "ok" => write.entries = NextEntries(entries, mutations)
  BY DEF ApplyMutations, Written, Refused

LEMMA TransactionMoves ==
    ASSUME MemoryInv, NEW c \in MemoryClients, NEW n \in Nat, NEW mutations \in [1 .. n -> Mutation],
           memory.revision = held[c].revision, ValidMutations(mutations), MemoryTransaction(c, mutations)
    PROVE  Moves
  <1> DEFINE write == ApplyMutations(memory.entries, memory.bytes, mutations)
             revision == IF MutationsChange(memory.entries, mutations)
                         THEN memory.revision + 1 ELSE memory.revision
  <1>1. CASE write.error = "ok"
    <2>1. memory' = Stored(write, revision) /\ held' = held
          /\ granted' = [token |-> held[c], before |-> memory.entries]
      BY <1>1, Zenon DEF MemoryTransaction
    <2>2. write.entries = NextEntries(memory.entries, mutations)
      BY <1>1, AppliedOrRefused, Zenon
    <2>3. /\ write.entries \in Entries
          /\ ~MutationsChange(memory.entries, mutations) => write.entries = memory.entries
      BY <2>2, NextEntriesTyped, Zenon DEF MemoryInv
    <2>4. held[c].entries = memory.entries
      BY Zenon DEF MemoryInv
    <2>5. Books(write.entries, write.bytes)
      <3>1. memory.entries \in Entries /\ Books(memory.entries, memory.bytes)
        BY Zenon DEF MemoryInv
      <3> QED
        BY <3>1, <1>1, BatchBooks, Zenon
    <2> HIDE DEF write
    <2>6. /\ DOMAIN memory' = DOMAIN memory /\ memory'.entries = write.entries
          /\ memory'.revision = revision /\ memory'.bytes = write.bytes
      BY <2>1, StoredFields, ZenonT(40)
    <2>7. AppliedToItsToken'
      BY <2>1, <2>4, Zenon DEF AppliedToItsToken
    <2>8. \/ memory'.entries = memory.entries /\ memory'.revision = memory.revision
          \/ memory'.revision = memory.revision + 1
      BY <2>3, <2>6, Zenon
    <2> QED
      BY <2>1, <2>3, <2>5, <2>6, <2>7, <2>8, Zenon DEF Moves
  <1>2. CASE write.error # "ok"
    <2>1. memory' = [memory EXCEPT !.exists = TRUE] /\ held' = held /\ granted' = granted
      BY <1>2, Zenon DEF MemoryTransaction
    <2> QED
      BY <2>1, CreatedFields, Zenon DEF Moves, MemoryInv, AppliedToItsToken
  <1> QED
    BY <1>1, <1>2, Zenon

LEMMA PutMoves ==
    ASSUME MemoryInv, NEW k \in Keys, NEW v \in Values, MemoryPut(k, v)
    PROVE  Moves
  <1> DEFINE write == PutWrite(memory.entries, memory.bytes, k, v)
             changes == write.error = "ok" /\ memory.entries[k] # v
  <1>1. /\ memory' = Stored(write, IF changes THEN memory.revision + 1 ELSE memory.revision)
        /\ held' = held /\ granted' = granted
    BY Zenon DEF MemoryPut
  <1>2. write.entries = memory.entries \/ (changes /\ write.entries = [memory.entries EXCEPT ![k] = v])
    BY DEF PutWrite, Written, Refused
  <1>3. [memory.entries EXCEPT ![k] = v] \in Entries /\ memory.entries \in Entries
    BY DEF MemoryInv, Entries
  <1>7. Books(write.entries, write.bytes)
    <2>1. memory.entries \in Entries /\ Books(memory.entries, memory.bytes) /\ v <= Limits.max_value_bytes
      BY Zenon DEF MemoryInv, MemoryPut
    <2> QED
      BY <2>1, PutBooks, Zenon
  <1> HIDE DEF write, changes
  <1>4. held' = held /\ AppliedToItsToken'
    BY <1>1, Zenon DEF MemoryInv, AppliedToItsToken
  <1>5. CASE changes
    <2>1. memory' = Stored(write, memory.revision + 1)
      BY <1>1, <1>5, Zenon
    <2>2. /\ DOMAIN memory' = DOMAIN memory /\ memory'.entries = write.entries
          /\ memory'.revision = memory.revision + 1 /\ memory'.bytes = write.bytes
      BY <2>1, StoredFields, Zenon
    <2> QED
      BY <2>2, <1>2, <1>3, <1>4, <1>7, Zenon DEF Moves
  <1>6. CASE ~changes
    <2>1. memory' = Stored(write, memory.revision)
      BY <1>1, <1>6, Zenon
    <2>2. /\ DOMAIN memory' = DOMAIN memory /\ memory'.entries = write.entries
          /\ memory'.revision = memory.revision /\ memory'.bytes = write.bytes
      BY <2>1, StoredFields, Zenon
    <2> QED
      BY <2>2, <1>2, <1>3, <1>4, <1>6, <1>7, Zenon DEF Moves
  <1> QED
    BY <1>5, <1>6

LEMMA DeleteMoves ==
    ASSUME MemoryInv, NEW k \in Keys, MemoryDelete(k)
    PROVE  Moves
  <1> DEFINE write == DeleteWrite(memory.entries, memory.bytes, k)
  <1>1. memory' = Stored(write, memory.revision + 1) /\ held' = held /\ granted' = granted
    BY ZenonT(40) DEF MemoryDelete
  <1>2. write.entries = [memory.entries EXCEPT ![k] = Absent]
    BY ZenonT(40) DEF DeleteWrite, Written
  <1>3. [memory.entries EXCEPT ![k] = Absent] \in Entries
    BY DEF MemoryInv, Entries
  <1>6. Books(write.entries, write.bytes)
    <2>1. memory.entries \in Entries /\ Books(memory.entries, memory.bytes) /\ memory.entries[k] # Absent
      BY Zenon DEF MemoryInv, MemoryDelete
    <2> QED
      BY <2>1, DeleteBooks, Zenon
  <1> HIDE DEF write
  <1>4. held' = held /\ AppliedToItsToken'
    BY <1>1, Zenon DEF MemoryInv, AppliedToItsToken
  <1>5. /\ DOMAIN memory' = DOMAIN memory /\ memory'.entries = write.entries
        /\ memory'.revision = memory.revision + 1 /\ memory'.bytes = write.bytes
    BY <1>1, StoredFields, Zenon
  <1> QED
    BY <1>2, <1>3, <1>4, <1>5, <1>6, Zenon DEF Moves

LEMMA ReadKeeps ==
    ASSUME MemoryInv, NEW c \in MemoryClients, MemoryReadRevision(c)
    PROVE  MemoryInv'
  <1> DEFINE token == [revision |-> memory.revision, entries |-> memory.entries]
  <1>1. token \in Token
    BY DEF MemoryInv, Token
  <1>2. memory' = memory /\ granted' = granted /\ held' = [held EXCEPT ![c] = token]
    BY Zenon DEF MemoryReadRevision
  <1>3. held' \in [MemoryClients -> Token]
    BY <1>1, <1>2, Zenon DEF MemoryInv
  <1>4. \A a \in MemoryClients :
            /\ held'[a].revision <= memory.revision
            /\ held'[a].revision = memory.revision => held'[a].entries = memory.entries
    BY <1>2 DEF MemoryInv
  <1> QED
    BY <1>2, <1>3, <1>4, ZenonT(40) DEF MemoryInv, AppliedToItsToken, Books, WithinLimits

LEMMA MemoryStepKeeps ==
    ASSUME MemoryInv, [MemoryNext]_memoryVars
    PROVE  MemoryInv'
  <1>1. ASSUME NEW schema \in MemorySchemas, MemoryPrepare(schema)
        PROVE  Moves
    <2>1. memory' = [memory EXCEPT !.exists = TRUE, !.schema = schema] /\ held' = held /\ granted' = granted
      BY <1>1, Zenon DEF MemoryPrepare
    <2>2. DOMAIN memory' = DOMAIN memory /\ memory'.entries = memory.entries
          /\ memory'.revision = memory.revision /\ memory'.bytes = memory.bytes
      BY <2>1 DEF MemoryInv
    <2> QED
      BY <2>1, <2>2, Zenon DEF Moves, MemoryInv, AppliedToItsToken
  <1>2. ASSUME NEW c \in MemoryClients, NEW k \in Keys, NEW expected, NEW replacement \in Values \cup {Absent},
               MemoryCompareExchange(c, k, expected, replacement)
        PROVE  Moves
    <2>1. <<[key |-> k, value |-> replacement]>> \in [1 .. 1 -> Mutation]
      BY DEF Mutation
    <2>2. memory.revision = held[c].revision /\ ValidMutations(<<[key |-> k, value |-> replacement]>>)
          /\ MemoryTransaction(c, <<[key |-> k, value |-> replacement]>>)
      BY <1>2, Zenon DEF MemoryCompareExchange
    <2>3. 1 \in Nat
      OBVIOUS
    <2> QED
      BY <2>1, <2>2, <2>3, TransactionMoves, Zenon
  <1>3. ASSUME NEW c \in MemoryClients, NEW mutations \in Batches, MemoryApplyBatch(c, mutations)
        PROVE  Moves
    <2>1. PICK n \in 1 .. MaxOperations : mutations \in [1 .. n -> Mutation]
      BY Zenon DEF Batches
    <2>2. n \in Nat
      BY <2>1
    <2>3. memory.revision = held[c].revision /\ ValidMutations(mutations) /\ MemoryTransaction(c, mutations)
      BY <1>3, Zenon DEF MemoryApplyBatch
    <2> QED
      BY <2>1, <2>2, <2>3, TransactionMoves, Zenon
  <1>4. ASSUME NEW c \in MemoryClients, MemoryNotApplied(c)
        PROVE  Moves
    <2>1. memory' = [memory EXCEPT !.exists = TRUE] /\ held' = held /\ granted' = granted
      BY <1>4, Zenon DEF MemoryNotApplied
    <2> QED
      BY <2>1, CreatedFields, Zenon DEF Moves, MemoryInv, AppliedToItsToken
  <1>5. CASE UNCHANGED memoryVars
    BY <1>5, Zenon DEF memoryVars, MemoryInv, AppliedToItsToken, Books, WithinLimits
  <1>6. CASE Moves
    BY <1>6, MovesKeeps, SMTT(30)
  <1> QED
    BY <1>1, <1>2, <1>3, <1>4, <1>5, <1>6, PutMoves, DeleteMoves, ReadKeeps, Zenon DEF MemoryNext

\* MemoryStorage: for any clients, any finite set of keys, any values and limits,
\* and batches of any length, the stored byte count is the size of what the map
\* holds and the namespace is within its limits, after every put, delete,
\* compare_exchange and apply_batch, refused ones included; and a transaction is
\* applied only to the entries its client's revision stood for, whatever other
\* clients wrote and wrote back in between.
THEOREM MemoryStaysExact == MemorySpec => []MemoryIsExact
  <1>1. MemoryInit => MemoryInv
    <2> SUFFICES ASSUME MemoryInit
                 PROVE  MemoryInv
      OBVIOUS
    <2>1. NoEntries \in Entries /\ Books(NoEntries, 0)
      BY NoEntriesBooks, Zenon
    <2>2. held \in [MemoryClients -> Token] /\ \A c \in MemoryClients : held[c].revision = -1
      BY <2>1, SMTT(30) DEF MemoryInit, NoToken, Token
    <2>3. AppliedToItsToken
      BY SMTT(30) DEF MemoryInit, NotGranted, NoToken, AppliedToItsToken
    <2>4. /\ DOMAIN memory = {"exists", "schema", "revision", "entries", "bytes"}
          /\ memory.revision \in Nat /\ memory.entries \in Entries
      BY <2>1 DEF MemoryInit, VacantNamespace, LoadNamespace
    <2>6. Books(memory.entries, memory.bytes)
      <3>1. CASE memory = VacantNamespace
        BY <2>1, <3>1 DEF VacantNamespace
      <3>2. ASSUME NEW schema, NEW entries \in Entries, WithinLimits(entries),
                   memory = LoadNamespace(schema, 1, entries)
            PROVE  Books(memory.entries, memory.bytes)
        <4>1. memory.entries = entries /\ memory.bytes = Bytes(entries)
          BY <3>2 DEF LoadNamespace
        <4> QED
          BY <3>2, <4>1, Zenon DEF Books
      <3> QED
        BY <3>1, <3>2, ZenonT(40) DEF MemoryInit
    <2>7. \A c \in MemoryClients : held[c].revision <= memory.revision /\ held[c].revision # memory.revision
      BY <2>2, <2>4
    <2> QED
      BY <2>2, <2>3, <2>4, <2>6, <2>7, Zenon DEF MemoryInv
  <1>2. MemoryInv => MemoryIsExact
    BY Zenon DEF MemoryInv, MemoryIsExact, Books
  <1> QED
    BY <1>1, <1>2, MemoryStepKeeps, PTL DEF MemorySpec

-----------------------------------------------------------------------------
(* Captured frames                                                         *)

Win == [handle: Nat, size: Nat, frame: Nat, tick: Int]

Shot == [handle: Nat, frame: Nat, tick: Int, size: Nat]

Media == [windows: SUBSET Win, next: Nat, frames: Seq(Shot), captured: Nat, renders: Nat, sound: Nat]

(* What a window counted is what was kept of it.                           *)
Kin(w, frames) ==
    /\ \A i \in DOMAIN frames : frames[i].handle = w.handle =>
          frames[i].frame < w.frame /\ frames[i].tick <= w.tick
    /\ w.frame > 0 =>
          \E i \in DOMAIN frames : frames[i].handle = w.handle /\ frames[i].frame = w.frame - 1

MediaInv(media) ==
    /\ media \in Media
    /\ FramesInOrder(media)
    /\ \A w, x \in media.windows : w.handle = x.handle => w = x
    /\ \A w \in media.windows : w.handle < media.next /\ Kin(w, media.frames)
    /\ \A i \in DOMAIN media.frames : media.frames[i].handle < media.next

(* What the guest may do with its windows and its sounds.                  *)
MediaSteps(media) ==
    {OpenWindow(media, size).media : size \in Nat}
        \cup {ResizeWindow(media, handle, size).media : handle \in Nat, size \in Nat}
        \cup {CloseWindow(media, handle).media : handle \in Nat}
        \cup {PresentFrame(media, handle, tick).media : handle \in Nat, tick \in Int}
        \cup {RenderSound(media, length).media : length \in Nat}

LEMMA MediaParts ==
    ASSUME NEW media \in Media
    PROVE  /\ media.windows \subseteq Win /\ media.next \in Nat /\ media.frames \in Seq(Shot)
           /\ media.captured \in Nat /\ media.renders \in Nat /\ media.sound \in Nat
  BY SMTT(30) DEF Media

LEMMA NewMediaInv == MediaInv(NewMedia)
  BY MediaAssumption DEF NewMedia, MediaInv, Media, FramesInOrder, Kin

LEMMA OpenKeeps ==
    ASSUME NEW media, MediaInv(media), NEW size \in Nat
    PROVE  MediaInv(OpenWindow(media, size).media)
  <1> DEFINE fresh == [handle |-> media.next, size |-> size, frame |-> 0, tick |-> NoTick]
             number == media.next + 1
             open == media.windows \cup {fresh}
             after == [media EXCEPT !.next = number, !.windows = open]
  <1>1. OpenWindow(media, size).media = media \/ OpenWindow(media, size).media = after
    BY Zenon DEF OpenWindow
  <1>2. media \in Media /\ media.next \in Nat /\ media.windows \subseteq Win
    BY MediaParts, Zenon DEF MediaInv
  <1>3. fresh \in Win
    BY <1>2, SMTT(30) DEF Win, NoTick
  <1>a. open \subseteq Win /\ number \in Nat
    BY <1>2, <1>3
  <1> HIDE DEF number, open
  <1>4. after \in Media /\ after.next = number /\ after.windows = open
        /\ after.frames = media.frames /\ after.captured = media.captured
        /\ after.renders = media.renders /\ after.sound = media.sound
    BY <1>2, <1>a, ZenonT(40) DEF Media
  <1> USE DEF number, open
  <1>5. Kin(fresh, media.frames)
    BY <1>2, MediaParts DEF MediaInv, Kin
  <1>6. \A w \in media.windows : w.handle < media.next /\ w.handle \in Nat
    BY <1>2 DEF MediaInv, Win
  <1>7. fresh.handle = media.next
    BY SMTT(30)
  <1> HIDE DEF fresh, after
  <1>8. \A w, x \in after.windows : w.handle = x.handle => w = x
    BY <1>2, <1>4, <1>6, <1>7, SMTT(30) DEF MediaInv
  <1>9. \A w \in after.windows : w.handle < after.next /\ Kin(w, after.frames)
    BY <1>2, <1>4, <1>5, <1>6, <1>7, SMTT(30) DEF MediaInv
  <1>10. ASSUME NEW i \in DOMAIN media.frames
         PROVE  media.frames[i].handle < media.next + 1
    <2>1. media.frames \in Seq(Shot) /\ media.frames[i].handle < media.next
      BY <1>2, MediaParts, Zenon DEF MediaInv
    <2>2. media.frames[i] \in Shot
      BY ONLY <2>1, SMT
    <2>3. media.frames[i].handle \in Nat
      BY <2>2, Zenon DEF Shot
    <2> QED
      BY ONLY <2>1, <2>3, <1>2, SMT
  <1>11. MediaInv(after)
    BY <1>4, <1>8, <1>9, <1>10, Zenon DEF MediaInv, FramesInOrder
  <1> QED
    BY <1>1, <1>11, Zenon

LEMMA ResizeKeeps ==
    ASSUME NEW media, MediaInv(media), NEW handle \in Nat, NEW size \in Nat
    PROVE  MediaInv(ResizeWindow(media, handle, size).media)
  <1> DEFINE resized(w) == IF w.handle = handle THEN [w EXCEPT !.size = size] ELSE w
             after == [media EXCEPT !.windows = {resized(w) : w \in media.windows}]
  <1>1. \/ ResizeWindow(media, handle, size).media = media
        \/ ResizeWindow(media, handle, size).media = after
    BY Zenon DEF ResizeWindow
  <1>2. media \in Media /\ media.windows \subseteq Win
    BY MediaParts, Zenon DEF MediaInv
  <1>3. \A w \in Win : /\ resized(w) \in Win /\ resized(w).handle = w.handle
                       /\ resized(w).frame = w.frame /\ resized(w).tick = w.tick
    BY DEF Win
  <1>4. after \in Media /\ after.next = media.next /\ after.windows = {resized(w) : w \in media.windows}
        /\ after.frames = media.frames /\ after.captured = media.captured
        /\ after.renders = media.renders /\ after.sound = media.sound
    BY <1>2, <1>3, SMTT(30) DEF Media
  <1> HIDE DEF after, resized
  <1>5. ASSUME NEW w \in media.windows
        PROVE  Kin(resized(w), media.frames) /\ resized(w).handle < media.next
    <2>1. /\ resized(w).handle = w.handle /\ resized(w).frame = w.frame /\ resized(w).tick = w.tick
          /\ Kin(w, media.frames) /\ w.handle < media.next
      BY <1>2, <1>3, Zenon DEF MediaInv
    <2> QED
      BY <2>1, Zenon DEF Kin
  <1>6. ASSUME NEW w \in after.windows, NEW x \in after.windows, w.handle = x.handle
        PROVE  w = x
    <2>1. PICK v \in media.windows : w = resized(v)
      BY <1>4, Zenon
    <2>2. PICK y \in media.windows : x = resized(y)
      BY <1>4, Zenon
    <2>3. v.handle = y.handle
      BY <1>2, <1>3, <1>6, <2>1, <2>2, Zenon
    <2>4. v = y
      BY <2>3, Zenon DEF MediaInv
    <2> QED
      BY <2>1, <2>2, <2>4, Zenon
  <1>7. MediaInv(after)
    <2>1. \A w \in after.windows : w.handle < after.next /\ Kin(w, after.frames)
      BY <1>4, <1>5, Zenon
    <2>2. FramesInOrder(after) /\ \A i \in DOMAIN after.frames : after.frames[i].handle < after.next
      BY <1>4, Zenon DEF MediaInv, FramesInOrder
    <2> QED
      BY <1>4, <1>6, <2>1, <2>2, Zenon DEF MediaInv
  <1> QED
    BY <1>1, <1>7, Zenon

LEMMA CloseKeeps ==
    ASSUME NEW media, MediaInv(media), NEW handle \in Nat
    PROVE  MediaInv(CloseWindow(media, handle).media)
  <1> DEFINE after == [media EXCEPT !.windows = @ \ Window(media, handle)]
  <1>1. \/ CloseWindow(media, handle).media = media
        \/ CloseWindow(media, handle).media = after
    BY Zenon DEF CloseWindow
  <1>2. after \in Media /\ after.next = media.next /\ after.windows \subseteq media.windows
        /\ after.frames = media.frames /\ after.captured = media.captured
        /\ after.renders = media.renders /\ after.sound = media.sound
    BY DEF MediaInv, Media
  <1> HIDE DEF after
  <1>3. MediaInv(after)
    BY <1>2, Zenon DEF MediaInv, FramesInOrder
  <1> QED
    BY <1>1, <1>3, Zenon

LEMMA RenderKeeps ==
    ASSUME NEW media, MediaInv(media), NEW length \in Nat
    PROVE  MediaInv(RenderSound(media, length).media)
  <1> DEFINE full == [media EXCEPT !.sound = MaxSound]
             rendered == media.renders + 1
             total == media.sound + length
             after == [media EXCEPT !.renders = rendered, !.sound = total]
  <1>1. \/ RenderSound(media, length).media \in {media, full}
        \/ /\ RenderSound(media, length).media = after
           /\ media.renders # MaxRenders /\ ~(media.sound + length > MaxSound)
    BY ZenonT(40) DEF RenderSound
  <1>2. media \in Media /\ media.renders \in Nat /\ media.sound \in Nat /\ MaxSound \in Nat /\ MaxRenders \in Nat
        /\ media.renders <= MaxRenders
    BY MediaParts, MediaAssumption, SMTT(30) DEF MediaInv, FramesInOrder
  <1>3. full \in Media /\ full.next = media.next /\ full.windows = media.windows
        /\ full.frames = media.frames /\ full.captured = media.captured
        /\ full.renders = media.renders /\ full.sound = MaxSound
    BY <1>2 DEF Media
  <1>4. after \in Media /\ after.next = media.next /\ after.windows = media.windows
        /\ after.frames = media.frames /\ after.captured = media.captured
        /\ after.renders = rendered /\ after.sound = total
    <2>1. rendered \in Nat /\ total \in Nat
      BY <1>2
    <2> HIDE DEF rendered, total
    <2> QED
      BY <1>2, <2>1, Zenon DEF Media
  <1> HIDE DEF full, after
  <1>5. MaxSound <= MaxSound
    BY <1>2
  <1>6. MediaInv(full)
    BY <1>3, <1>5, Zenon DEF MediaInv, FramesInOrder
  <1>7. ASSUME media.renders # MaxRenders, ~(media.sound + length > MaxSound)
        PROVE  MediaInv(after)
    <2>1. after.renders <= MaxRenders /\ after.sound <= MaxSound
      BY <1>2, <1>4, <1>7
    <2> QED
      BY <1>4, <2>1, Zenon DEF MediaInv, FramesInOrder
  <1> QED
    BY <1>1, <1>6, <1>7, Zenon

LEMMA PresentKeeps ==
    ASSUME NEW media, MediaInv(media), NEW handle \in Nat, NEW tick \in Int
    PROVE  MediaInv(PresentFrame(media, handle, tick).media)
  <1> DEFINE w == CHOOSE x \in Window(media, handle) : TRUE
             shot == [handle |-> handle, frame |-> w.frame, tick |-> tick, size |-> w.size]
             count == w.frame + 1
             next == [w EXCEPT !.frame = count, !.tick = tick]
             full == [media EXCEPT !.captured = MaxCaptured]
             open == (media.windows \ {w}) \cup {next}
             list == Append(media.frames, shot)
             total == media.captured + w.size
             after == [media EXCEPT !.windows = open, !.frames = list, !.captured = total]
  <1>1. \/ PresentFrame(media, handle, tick).media \in {media, full}
        \/ /\ PresentFrame(media, handle, tick).media = after
           /\ ~(\A x \in Window(media, handle) : tick < x.tick)
           /\ Fits(media, w.size)
    BY Zenon DEF PresentFrame
  <1>2. /\ media \in Media /\ media.windows \subseteq Win /\ media.frames \in Seq(Shot)
        /\ media.captured \in Nat /\ media.next \in Nat /\ MaxCaptured \in Nat /\ MaxFrames \in Nat
    BY MediaParts, MediaAssumption, SMTT(30) DEF MediaInv
  <1>3. full \in Media /\ full.next = media.next /\ full.windows = media.windows
        /\ full.frames = media.frames /\ full.captured = MaxCaptured
        /\ full.renders = media.renders /\ full.sound = media.sound
    BY <1>2, SMTT(30) DEF Media
  <1>4. MaxCaptured <= MaxCaptured
    BY <1>2
  <1>5. MediaInv(full)
    <2> HIDE DEF full
    <2> QED
      BY <1>3, <1>4, Zenon DEF MediaInv, FramesInOrder
  <1>6. ASSUME ~(\A x \in Window(media, handle) : tick < x.tick), Fits(media, w.size)
        PROVE  MediaInv(after)
    <2>1. PICK x \in Window(media, handle) : ~(tick < x.tick)
      BY <1>6, Zenon
    <2>2. w \in Window(media, handle)
      BY <2>1, Zenon
    <2>3. w \in media.windows /\ w.handle = handle /\ x = w
      BY <2>1, <2>2, ZenonT(40) DEF Window, MediaInv
    <2> HIDE DEF w
    <2>4. w \in Win /\ w.frame \in Nat /\ w.tick \in Int /\ w.size \in Nat /\ w.tick <= tick
      BY <1>2, <2>1, <2>3 DEF Win
    <2>a. shot \in Shot /\ shot.handle = handle /\ shot.frame = w.frame /\ shot.tick = tick
      BY <2>4, Zenon DEF Shot
    <2>b. /\ next \in Win /\ next.handle = handle /\ next.frame = count /\ next.tick = tick
      <3>1. count \in Nat
        BY <2>4
      <3> HIDE DEF count
      <3> QED
        BY <2>3, <2>4, <3>1, Zenon DEF Win
    <2>5. shot \in Shot /\ next \in Win /\ next.handle = handle /\ next.frame = w.frame + 1 /\ next.tick = tick
          /\ shot.handle = handle /\ shot.frame = w.frame /\ shot.tick = tick
      BY <2>a, <2>b, Zenon
    <2> HIDE DEF shot, next
    <2>6. Append(media.frames, shot) \in Seq(Shot)
      BY <1>2, <2>5
    <2>7. after \in Media /\ after.next = media.next /\ after.windows = (media.windows \ {w}) \cup {next}
          /\ after.frames = Append(media.frames, shot) /\ after.captured = media.captured + w.size
          /\ after.renders = media.renders /\ after.sound = media.sound
      <3>1. open \subseteq Win /\ list \in Seq(Shot) /\ total \in Nat
        BY <1>2, <2>4, <2>5, <2>6, SMTT(30)
      <3> HIDE DEF open, list, total
      <3>2. after \in Media /\ after.next = media.next /\ after.windows = open
            /\ after.frames = list /\ after.captured = total
            /\ after.renders = media.renders /\ after.sound = media.sound
        BY <1>2, <3>1, Zenon DEF Media
      <3> QED
        BY <3>2, Zenon DEF open, list, total
    <2> HIDE DEF after
    <2>8. Kin(w, media.frames) /\ w.handle < media.next
      BY <2>3, Zenon DEF MediaInv
    <2> DEFINE old == media.frames
               all == Append(old, shot)
    <2>9. /\ DOMAIN old = 1 .. Len(old) /\ Len(old) \in Nat /\ DOMAIN all = 1 .. Len(old) + 1
          /\ \A i \in DOMAIN old : all[i] = old[i] /\ old[i] \in Shot
          /\ all[Len(old) + 1] = shot /\ Len(all) = Len(old) + 1
      BY <1>2, <2>5, SMTT(30)
    <2> HIDE DEF all, old
    <2>10. Len(all) <= MaxFrames /\ after.captured <= MaxCaptured
      BY <1>2, <1>6, <2>4, <2>7, <2>9, SMTT(30) DEF Fits, old
    <2>11. \A i, j \in DOMAIN all : i < j /\ all[i].handle = all[j].handle =>
               all[i].tick <= all[j].tick /\ all[i].frame < all[j].frame
      <3> SUFFICES ASSUME NEW i \in DOMAIN all, NEW j \in DOMAIN all, i < j, all[i].handle = all[j].handle
                   PROVE  all[i].tick <= all[j].tick /\ all[i].frame < all[j].frame
        OBVIOUS
      <3>1. i \in DOMAIN old /\ (j \in DOMAIN old \/ j = Len(old) + 1)
        BY <2>9, SMTT(30)
      <3>2. CASE j \in DOMAIN old
        BY <3>1, <3>2, <2>9, Zenon DEF MediaInv, FramesInOrder, old
      <3>3. CASE j = Len(old) + 1
        <4>1. old[i].frame < w.frame /\ old[i].tick <= w.tick /\ all[i] = old[i] /\ all[j] = shot
              /\ old[i] \in Shot
          BY <3>1, <3>3, <2>3, <2>5, <2>8, <2>9, ZenonT(40) DEF Kin, old
        <4>2. old[i].tick \in Int
          BY <4>1 DEF Shot
        <4> QED
          BY <4>1, <4>2, <2>4, <2>5, SMTT(30)
      <3> QED
        BY <3>1, <3>2, <3>3, Zenon
    <2>12. \A i \in DOMAIN all : all[i].frame > 0 =>
               \E j \in 1 .. i - 1 : all[j].handle = all[i].handle /\ all[j].frame = all[i].frame - 1
      <3> SUFFICES ASSUME NEW i \in DOMAIN all, all[i].frame > 0
                   PROVE  \E j \in 1 .. i - 1 : all[j].handle = all[i].handle /\ all[j].frame = all[i].frame - 1
        BY SMTT(30)
      <3>1. i \in DOMAIN old \/ i = Len(old) + 1
        BY <2>9
      <3>2. CASE i \in DOMAIN old
        <4>1. PICK j \in 1 .. i - 1 : old[j].handle = old[i].handle /\ old[j].frame = old[i].frame - 1
          BY <3>2, <2>9, Zenon DEF MediaInv, FramesInOrder, old
        <4>2. j \in DOMAIN old
          BY <4>1, <3>2, <2>9
        <4> QED
          BY <4>1, <4>2, <3>2, <2>9, Zenon
      <3>3. CASE i = Len(old) + 1
        <4>1. all[i] = shot /\ w.frame > 0
          BY <3>3, <2>5, <2>9, Zenon
        <4>2. PICK j \in DOMAIN old : old[j].handle = w.handle /\ old[j].frame = w.frame - 1
          BY <4>1, <2>8, Zenon DEF Kin, old
        <4>3. j \in 1 .. i - 1
          BY <4>2, <3>3, <2>9, SMTT(30)
        <4> QED
          BY <4>1, <4>2, <4>3, <2>3, <2>5, <2>9, Zenon
      <3> QED
        BY <3>1, <3>2, <3>3, Zenon
    <2>13. FramesInOrder(after)
      BY <2>7, <2>10, <2>11, <2>12, ZenonT(40) DEF FramesInOrder, MediaInv, all, old
    <2>14. \A a, b \in after.windows : a.handle = b.handle => a = b
      BY <2>3, <2>5, <2>7, ZenonT(40) DEF MediaInv
    <2>15. Kin(next, all)
      <3>1. ASSUME NEW i \in DOMAIN all, all[i].handle = next.handle
            PROVE  all[i].frame < next.frame /\ all[i].tick <= next.tick
        <4>1. CASE i \in DOMAIN old
          <5>1. all[i] = old[i] /\ old[i].frame < w.frame /\ old[i].tick <= w.tick /\ old[i] \in Shot
            BY <3>1, <4>1, <2>3, <2>5, <2>8, <2>9, Zenon DEF Kin, old
          <5>2. old[i].frame \in Nat /\ old[i].tick \in Int
            BY <5>1, SMTT(30) DEF Shot
          <5> QED
            BY <5>1, <5>2, <2>4, <2>5, SMTT(30)
        <4>2. CASE i = Len(old) + 1
          BY <4>2, <2>4, <2>5, <2>9, SMTT(30)
        <4> QED
          BY <4>1, <4>2, <2>9, SMTT(30)
      <3>2. Len(old) + 1 \in DOMAIN all /\ all[Len(old) + 1].handle = next.handle
            /\ all[Len(old) + 1].frame = next.frame - 1
        BY <2>4, <2>5, <2>9, SMTT(30)
      <3> QED
        BY <3>1, <3>2, Zenon DEF Kin
    <2>16. ASSUME NEW v \in media.windows, v # w
           PROVE  Kin(v, all)
      <3>1. v.handle # handle /\ Kin(v, old)
        BY <2>16, <2>3, ZenonT(40) DEF MediaInv, old
      <3>2. \A i \in DOMAIN all : all[i].handle = v.handle => i \in DOMAIN old
        BY <3>1, <2>5, <2>9, SMTT(30)
      <3>3. \A i \in DOMAIN old : i \in DOMAIN all
        BY <2>9
      <3> QED
        BY <3>1, <3>2, <3>3, <2>9, Zenon DEF Kin
    <2>17. \A i \in DOMAIN all : all[i].handle < media.next
      <3> SUFFICES ASSUME NEW i \in DOMAIN all
                   PROVE  all[i].handle < media.next
        OBVIOUS
      <3>1. i \in DOMAIN old \/ i = Len(old) + 1
        BY <2>9
      <3> QED
        BY <3>1, <2>3, <2>5, <2>8, <2>9, Zenon DEF MediaInv, old
    <2>18. after.frames = all
      BY <2>7, Zenon DEF all, old
    <2>19. ASSUME NEW v \in after.windows
           PROVE  v.handle < after.next /\ Kin(v, after.frames)
      <3>1. v = next \/ (v \in media.windows /\ v # w)
        BY <2>7, Zenon
      <3>2. CASE v = next
        BY <3>2, <2>3, <2>5, <2>7, <2>8, <2>15, <2>18, Zenon
      <3>3. CASE v \in media.windows /\ v # w
        BY <3>3, <2>7, <2>16, <2>18, Zenon DEF MediaInv
      <3> QED
        BY <3>1, <3>2, <3>3, Zenon
    <2> QED
      BY <2>7, <2>13, <2>14, <2>17, <2>18, <2>19, Zenon DEF MediaInv
  <1> HIDE DEF full, after, w
  <1> QED
    BY <1>1, <1>5, <1>6, Zenon

\* HeadlessDisplay::open, resize, close, present and the audio captures: for any
\* limits, from the empty capture on, every operation of the guest keeps an
\* invariant under which frames are numbered without a gap and in order and the
\* captures are within their bounds.
THEOREM CapturesStayInOrder ==
    /\ MediaInv(NewMedia)
    /\ \A media : MediaInv(media) =>
          FramesInOrder(media) /\ \A next \in MediaSteps(media) : MediaInv(next)
  <1>1. ASSUME NEW media, MediaInv(media), NEW next \in MediaSteps(media)
        PROVE  MediaInv(next)
    <2>1. CASE \E size \in Nat : next = OpenWindow(media, size).media
      BY <1>1, <2>1, OpenKeeps, Zenon
    <2>2. CASE \E handle \in Nat, size \in Nat : next = ResizeWindow(media, handle, size).media
      BY <1>1, <2>2, ResizeKeeps, Zenon
    <2>3. CASE \E handle \in Nat : next = CloseWindow(media, handle).media
      BY <1>1, <2>3, CloseKeeps, Zenon
    <2>4. CASE \E handle \in Nat, tick \in Int : next = PresentFrame(media, handle, tick).media
      BY <1>1, <2>4, PresentKeeps, Zenon
    <2>5. CASE \E length \in Nat : next = RenderSound(media, length).media
      BY <1>1, <2>5, RenderKeeps, Zenon
    <2>6. \/ \E size \in Nat : next = OpenWindow(media, size).media
          \/ \E handle \in Nat, size \in Nat : next = ResizeWindow(media, handle, size).media
          \/ \E handle \in Nat : next = CloseWindow(media, handle).media
          \/ \E handle \in Nat, tick \in Int : next = PresentFrame(media, handle, tick).media
          \/ \E length \in Nat : next = RenderSound(media, length).media
      BY SMT DEF MediaSteps
    <2> QED
      BY <2>1, <2>2, <2>3, <2>4, <2>5, <2>6, Zenon
  <1> QED
    BY <1>1, NewMediaInv, Zenon DEF MediaInv
-----------------------------------------------------------------------------
(* Traces                                                                  *)

LEMMA LeastOf ==
    ASSUME NEW T \in SUBSET Nat, T # {}
    PROVE  Min(T) \in T /\ \A y \in T : Min(T) <= y
  <1>1. PICK x \in T : \A y \in T : ~(<<y, x>> \in OpToRel(<, Nat))
    BY Zenon, WFMin, NatLessThanWellFounded
  <1>2. ASSUME NEW y \in T PROVE x <= y
    <2>1. ~(y < x)
      BY Zenon, <1>1, <1>2 DEF OpToRel
    <2> QED
      BY <2>1
  <1> QED
    BY Zenon, <1>2 DEF Min

(* A difference of two lists of fields, or none when they are equal.       *)
LocatesField(d, kind, left, right) ==
    /\ d = Identical \/ d.kind = kind
    /\ d = Identical <=> left = right

LEMMA FieldsDiffer ==
    ASSUME NEW n \in Nat, NEW Value, NEW left \in [1 .. n -> Value], NEW right \in [1 .. n -> Value], NEW kind,
           kind # "none"
    PROVE  LocatesField(FirstFieldDifference(kind, left, right), kind, left, right)
  <1> DEFINE differ == {i \in DOMAIN left : left[i] # right[i]}
  <1>1. differ = {} <=> left = right
    OBVIOUS
  <1>2. Identical.kind = "none"
    BY Zenon DEF Identical
  <1> DEFINE d == FirstFieldDifference(kind, left, right)
  <1>3. d = IF differ = {} THEN Identical ELSE [kind |-> kind, at |-> Min(differ)]
    BY Zenon DEF FirstFieldDifference
  <1>4. [kind |-> kind, at |-> Min(differ)].kind = kind
    BY Zenon
  <1> HIDE DEF differ
  <1>5. /\ d = Identical \/ d.kind = kind
        /\ d = Identical <=> differ = {}
    <2> HIDE DEF d
    <2>1. CASE differ = {}
      BY <2>1, <1>3, Zenon
    <2>2. CASE differ # {}
      BY <2>2, <1>2, <1>3, <1>4, ZenonT(40)
    <2> QED
      BY <2>1, <2>2
  <1> HIDE DEF d
  <1> QED
    BY <1>1, <1>5, Zenon DEF LocatesField, d

(* A difference of two lists of events, or none when they are equal.       *)
LocatesEvent(d, left, right) ==
    /\ d = Identical \/ d.kind = "event"
    /\ d = Identical <=> left = right
    /\ d # Identical =>
          /\ SubSeq(left, 1, d.at - 1) = SubSeq(right, 1, d.at - 1)
          /\ EventAt(left, d.at) # EventAt(right, d.at)

LEMMA EventsDiffer ==
    ASSUME NEW Event, NEW left \in Seq(Event), NEW right \in Seq(Event)
    PROVE  LocatesEvent(FirstEventDifference(left, right), left, right)
  <1> DEFINE n == Max({Len(left), Len(right)})
             differ == {i \in 1 .. n : EventAt(left, i) # EventAt(right, i)}
             d == FirstEventDifference(left, right)
  <1>1. n \in Nat /\ Len(left) <= n /\ Len(right) <= n /\ (n = Len(left) \/ n = Len(right))
    BY LargerOfTwo
  <1>2. d = IF differ = {} THEN Identical ELSE [kind |-> "event", at |-> Min(differ)]
    BY Zenon DEF FirstEventDifference
  <1>3. Identical.kind = "none"
    BY Zenon DEF Identical
  <1>4. CASE differ = {}
    <2>1. \A i \in 1 .. n : EventAt(left, i) = EventAt(right, i)
      BY <1>4, Zenon
    <2>2. Len(left) = Len(right)
      <3>1. CASE n = Len(left) /\ Len(right) < n
        <4>1. n \in 1 .. n /\ n \in DOMAIN left /\ n \notin DOMAIN right
          BY <3>1, <1>1
        <4> QED
          BY <4>1, <2>1, Zenon DEF EventAt
      <3>2. CASE n = Len(right) /\ Len(left) < n
        <4>1. n \in 1 .. n /\ n \in DOMAIN right /\ n \notin DOMAIN left
          BY <3>2, <1>1
        <4> QED
          BY <4>1, <2>1, Zenon DEF EventAt
      <3> QED
        BY <3>1, <3>2, <1>1, SMTT(30)
    <2>3. ASSUME NEW i \in 1 .. Len(left)
          PROVE  left[i] = right[i]
      <3>1. i \in 1 .. n /\ i \in DOMAIN left /\ i \in DOMAIN right
        BY <2>2, <1>1
      <3> QED
        BY <3>1, <2>1, Zenon DEF EventAt
    <2>4. left = right
      BY <2>2, <2>3
    <2> HIDE DEF differ, d
    <2> QED
      BY <2>4, <1>2, <1>4, Zenon DEF LocatesEvent, d
  <1>5. CASE differ # {}
    <2>1. Min(differ) \in differ /\ \A y \in differ : Min(differ) <= y
      <3>1. differ \in SUBSET Nat
        BY <1>1
      <3> QED
        BY <3>1, <1>5, LeastOf, Zenon
    <2> DEFINE at == Min(differ)
    <2>2. d = [kind |-> "event", at |-> at] /\ d # Identical /\ d.at = at /\ d.kind = "event"
      <3> HIDE DEF d, differ
      <3>1. d = [kind |-> "event", at |-> at]
        BY <1>2, <1>5, Zenon
      <3>2. d.kind = "event" /\ d.at = at
        BY <3>1, Zenon
      <3> QED
        BY <3>1, <3>2, <1>3, Zenon
    <2>3. at \in 1 .. n /\ EventAt(left, at) # EventAt(right, at)
      BY <2>1, Zenon
    <2>4. \A i \in 1 .. at - 1 : EventAt(left, i) = EventAt(right, i)
      <3> SUFFICES ASSUME NEW i \in 1 .. at - 1
                   PROVE  EventAt(left, i) = EventAt(right, i)
        BY Zenon
      <3>1. i \in differ => at <= i
        BY <2>1, Zenon
      <3>2. i \in 1 .. n /\ ~(at <= i)
        <4> HIDE DEF at, n
        <4> QED
          BY <2>3, <1>1
      <3> QED
        BY <3>1, <3>2, ZenonT(40)
    <2> HIDE DEF at, differ, d, n
    <2>5. left # right
      BY <2>3, Zenon
    <2>6. at - 1 <= Len(left) /\ at - 1 <= Len(right)
      <3>1. CASE Len(left) < at - 1 /\ Len(right) = n
        <4>1. at - 1 \in 1 .. at - 1 /\ at - 1 \notin DOMAIN left /\ at - 1 \in DOMAIN right
          BY <3>1, <2>3, <1>1
        <4> QED
          BY <4>1, <2>4, Zenon DEF EventAt
      <3>2. CASE Len(right) < at - 1 /\ Len(left) = n
        <4>1. at - 1 \in 1 .. at - 1 /\ at - 1 \notin DOMAIN right /\ at - 1 \in DOMAIN left
          BY <3>2, <2>3, <1>1
        <4> QED
          BY <4>1, <2>4, Zenon DEF EventAt
      <3> QED
        BY <3>1, <3>2, <2>3, <1>1, SMTT(30)
    <2>7. ASSUME NEW i \in 1 .. at - 1
          PROVE  left[i] = right[i]
      <3>1. i \in DOMAIN left /\ i \in DOMAIN right
        BY <2>6, <2>3, <1>1, SMTT(30)
      <3> QED
        BY <3>1, <2>4, ZenonT(40) DEF EventAt
    <2>8. SubSeq(left, 1, at - 1) = SubSeq(right, 1, at - 1)
      BY <2>3, <2>6, <2>7, SMTT(30)
    <2> QED
      BY <2>2, <2>3, <2>5, <2>8, Zenon DEF LocatesEvent, d
  <1> QED
    BY <1>4, <1>5, Zenon

\* ExecutionTrace::compare: for any traces, the first difference is named in the
\* order identity, events, result, everything before it is the same, and none is
\* named only for equal traces.
THEOREM ComparisonsAreExact ==
    ASSUME NEW Value, NEW Event, NEW h \in Nat, NEW r \in Nat,
           NEW left \in [header: [1 .. h -> Value], events: Seq(Event), result: [1 .. r -> Value]],
           NEW right \in [header: [1 .. h -> Value], events: Seq(Event), result: [1 .. r -> Value]]
    PROVE  ComparisonIsExact(left, right)
  <1> DEFINE header == FirstHeaderDifference(left.header, right.header)
             events == FirstEventDifference(left.events, right.events)
             result == FirstResultDifference(left.result, right.result)
             d == Compare(left, right)
  <1>0. /\ left.header \in [1 .. h -> Value] /\ right.header \in [1 .. h -> Value]
        /\ left.result \in [1 .. r -> Value] /\ right.result \in [1 .. r -> Value]
        /\ left.events \in Seq(Event) /\ right.events \in Seq(Event)
        /\ "header" # "none" /\ "result" # "none"
    BY Zenon
  <1>1. LocatesField(header, "header", left.header, right.header)
    BY <1>0, FieldsDiffer, Zenon DEF FirstHeaderDifference
  <1>2. LocatesField(result, "result", left.result, right.result)
    BY <1>0, FieldsDiffer, Zenon DEF FirstResultDifference
  <1>3. LocatesEvent(events, left.events, right.events)
    BY <1>0, EventsDiffer, Zenon
  <1>4. d = IF header # Identical THEN header ELSE IF events # Identical THEN events ELSE result
    BY ZenonT(40) DEF Compare
  <1>5. left = right <=> (left.header = right.header /\ left.events = right.events /\ left.result = right.result)
    BY SMTT(30)
  <1>6. Identical.kind = "none"
    BY Zenon DEF Identical
  <1> HIDE DEF header, events, result, d
  <1>7. /\ (d = Identical) = (left = right)
        /\ d.kind \in {"event", "result"} => left.header = right.header
        /\ d.kind = "result" => left.events = right.events
        /\ d.kind = "event" => d = events /\ events # Identical
    BY <1>1, <1>2, <1>3, <1>4, <1>5, <1>6, SMTT(30) DEF LocatesEvent, LocatesField
  <1> QED
    BY <1>3, <1>7, Zenon DEF ComparisonIsExact, LocatesEvent, d
=============================================================================
