----------------------------- MODULE Recursion -----------------------------
(***************************************************************************)
(* Induction and recursion in a form the provers can use: a set or a       *)
(* function where the library's theorems take an operator.                 *)
(***************************************************************************)
EXTENDS Integers, Sequences, SequencesExt, FiniteSetTheorems, TLAPS

-----------------------------------------------------------------------------
(* The library's theorem takes a predicate as its parameter;                *)
(* this one takes a set, and a proof by induction looks at the least       *)
(* number at which what it claims would fail.                              *)

LEMMA LeastIn ==
    ASSUME NEW A, A \subseteq Nat, A # {}
    PROVE  \E a \in A : \A b \in A : a <= b
<1>1. PICK m \in A : TRUE
    OBVIOUS
<1> DEFINE S == 0 .. m
           Lower(k) == 0 .. k
           T == {Lower(k) : k \in {k \in A : k <= m}}
<1>2. IsFiniteSet(S) /\ m \in Nat
    BY <1>1, FS_Interval
<1>3. IsWellFoundedOn(StrictSubsetOrdering(S), SUBSET S)
    BY <1>2, FS_StrictSubsetOrderingWellFounded, FS_FiniteSubsetsOfFinite
<1>4. T \subseteq SUBSET S /\ T # {}
    BY <1>1
<1>5. PICK x \in T : \A y \in T : <<y, x>> \notin StrictSubsetOrdering(S)
    <2> HIDE DEF S, T
    <2> QED BY <1>3, <1>4, WFMin
<1>6. PICK k \in A : k <= m /\ x = Lower(k)
    BY <1>5
<1>7. ASSUME NEW b \in A, b < k PROVE FALSE
    <2>1. Lower(b) \in T
        BY <1>6, <1>7, <1>1
    <2>2. Lower(b) \subseteq x /\ Lower(b) # x
        BY <1>6, <1>7
    <2>3. <<Lower(b), x>> \in (SUBSET S) \X (SUBSET S)
        BY <2>1, <1>4, <1>5
    <2>4. <<Lower(b), x>> \in StrictSubsetOrdering(S)
        <3> HIDE DEF S, Lower
        <3> QED BY <2>2, <2>3 DEF StrictSubsetOrdering
    <2> QED BY <2>1, <2>4, <1>5
<1> QED BY <1>6, <1>7

RunsTo(g, z, s, last) == g[0] = z /\ \A n \in 1 .. last : g[n] = s[<<n, g[n - 1]>>]
HasRun(V, z, s, last) == \E g \in [0 .. last -> V] : RunsTo(g, z, s, last)

LEMMA RunExists ==
    ASSUME NEW V, NEW z \in V, NEW s \in [Nat \X V -> V], NEW last \in Nat
    PROVE  HasRun(V, z, s, last)
<1> USE DEF HasRun, RunsTo
<1> DEFINE Runs(g, k) == RunsTo(g, z, s, k)
           A == {k \in Nat : ~ \E g \in [0 .. k -> V] : Runs(g, k)}
<1>1. ASSUME A # {} PROVE FALSE
    <2>1. PICK k \in A : \A j \in A : k <= j
        <3> HIDE DEF A
        <3>1. A \subseteq Nat
            BY DEF A
        <3> QED BY <1>1, <3>1, LeastIn
    <2>2. k # 0
        <3>1. [n \in 0 .. 0 |-> z] \in [0 .. 0 -> V] /\ Runs([n \in 0 .. 0 |-> z], 0)
            OBVIOUS
        <3> QED BY <3>1
    <2>3. k - 1 \in Nat /\ k - 1 \notin A
        BY <2>1, <2>2
    <2>4. PICK g \in [0 .. k - 1 -> V] : Runs(g, k - 1)
        BY <2>3
    <2> DEFINE h == [n \in 0 .. k |-> IF n = k THEN s[<<k, g[k - 1]>>] ELSE g[n]]
    <2>5. h \in [0 .. k -> V]
        BY <2>3, <2>4
    <2>6. Runs(h, k)
        <3>1. k \in Nat /\ \A n \in 0 .. k - 1 : h[n] = g[n]
            BY <2>1
        <3>2. h[k] = s[<<k, h[k - 1]>>]
            <4>1. k - 1 \in 0 .. k - 1 /\ k \in 0 .. k
                BY <2>3, <3>1
            <4>2. h[k - 1] = g[k - 1]
                BY <3>1, <4>1
            <4>3. h[k] = s[<<k, g[k - 1]>>]
                BY <4>1
            <4> QED BY <4>2, <4>3
        <3>3. ASSUME NEW n \in 1 .. k - 1 PROVE h[n] = s[<<n, h[n - 1]>>]
            BY <2>4, <3>1
        <3>4. h[0] = z
            BY <2>2, <2>3, <2>4, <3>1
        <3>5. ASSUME NEW n \in 1 .. k PROVE h[n] = s[<<n, h[n - 1]>>]
            <4>1. n = k \/ n \in 1 .. k - 1
                BY <3>1
            <4> HIDE DEF h
            <4> QED BY <4>1, <3>2, <3>3
        <3> HIDE DEF h
        <3> QED BY <3>4, <3>5
    <2> QED BY <2>1, <2>5, <2>6
<1> QED BY <1>1

-----------------------------------------------------------------------------
(* Folds.  The community modules define them all by one recursion over the *)
(* subsets of a set S, which takes the element that pick names out of a    *)
(* subset, and applies the step s to it and to what the rest gives.        *)

FoldBody(it, S, z, pick, s) ==
    [T \in SUBSET S |-> IF T = {} THEN z ELSE s[<<pick[T], it[T \ {pick[T]}]>>]]
HasFold(V, S, z, pick, s) == \E it \in [SUBSET S -> V] : it = FoldBody(it, S, z, pick, s)
Picks(pick, S) == \A T \in SUBSET S : T # {} => pick[T] \in T

Small(S, n) == {T \in SUBSET S : Cardinality(T) <= n}
FoldsUpTo(g, S, z, pick, s, n) ==
    \A T \in Small(S, n) : g[T] = IF T = {} THEN z ELSE s[<<pick[T], g[T \ {pick[T]}]>>]

LEMMA SmallerRest ==
    ASSUME NEW S, IsFiniteSet(S), NEW T \in SUBSET S, NEW x \in T
    PROVE  /\ T \ {x} \in SUBSET S
           /\ Cardinality(T) \in Nat /\ Cardinality(T) > 0
           /\ Cardinality(T \ {x}) = Cardinality(T) - 1
<1>1. IsFiniteSet(T)
    BY FS_Subset
<1> QED BY <1>1, FS_RemoveElement, FS_CardinalityType, FS_EmptySet

LEMMA FoldUpTo ==
    ASSUME NEW S, IsFiniteSet(S), NEW V, NEW z \in V, NEW s \in [S \X V -> V],
           NEW pick, Picks(pick, S), NEW n \in Nat
    PROVE  \E g \in [Small(S, n) -> V] : FoldsUpTo(g, S, z, pick, s, n)
<1> DEFINE A == {k \in Nat : ~ \E g \in [Small(S, k) -> V] : FoldsUpTo(g, S, z, pick, s, k)}
<1>1. ASSUME A # {} PROVE FALSE
    <2>1. PICK k \in A : \A j \in A : k <= j
        <3> HIDE DEF A
        <3>1. A \subseteq Nat
            BY DEF A
        <3> QED BY <1>1, <3>1, LeastIn
    <2>2. \A T \in SUBSET S : Cardinality(T) \in Nat /\ (Cardinality(T) = 0 <=> T = {})
        BY FS_Subset, FS_CardinalityType, FS_EmptySet
    <2>3. CASE k = 0
        <3> DEFINE g == [T \in Small(S, 0) |-> z]
        <3>1. \A T \in Small(S, 0) : T = {}
            BY <2>2 DEF Small
        <3>2. g \in [Small(S, 0) -> V] /\ FoldsUpTo(g, S, z, pick, s, 0)
            BY <3>1 DEF FoldsUpTo
        <3> QED BY <3>2, <2>1, <2>3
    <2>4. CASE k # 0
        <3>1. k - 1 \in Nat /\ k - 1 \notin A
            BY <2>1, <2>4
        <3>2. PICK g \in [Small(S, k - 1) -> V] : FoldsUpTo(g, S, z, pick, s, k - 1)
            BY <3>1
        <3> DEFINE h == [T \in Small(S, k) |->
                            IF T = {} THEN z ELSE s[<<pick[T], g[T \ {pick[T]}]>>]]
        <3>3. \A T \in Small(S, k) : T # {} =>
                   pick[T] \in S /\ T \ {pick[T]} \in Small(S, k - 1)
            <4> SUFFICES ASSUME NEW T \in Small(S, k), T # {}
                         PROVE  pick[T] \in S /\ T \ {pick[T]} \in Small(S, k - 1)
                OBVIOUS
            <4>1. T \in SUBSET S /\ Cardinality(T) <= k
                BY DEF Small
            <4>2. pick[T] \in T
                BY <4>1 DEF Picks
            <4>3. Cardinality(T \ {pick[T]}) <= k - 1 /\ T \ {pick[T]} \in SUBSET S
                BY <4>1, <4>2, <2>1, SmallerRest
            <4> QED BY <4>1, <4>2, <4>3 DEF Small
        <3>4. h \in [Small(S, k) -> V]
            BY <3>2, <3>3
        <3>5. \A T \in Small(S, k - 1) : T \in Small(S, k) /\ h[T] = g[T]
            <4>1. \A T \in Small(S, k - 1) : T \in Small(S, k)
                BY <2>1, <2>2 DEF Small
            <4> QED BY <4>1, <3>2 DEF FoldsUpTo
        <3>6. FoldsUpTo(h, S, z, pick, s, k)
            <4> SUFFICES ASSUME NEW T \in Small(S, k)
                         PROVE  h[T] = IF T = {} THEN z
                                       ELSE s[<<pick[T], h[T \ {pick[T]}]>>]
                BY DEF FoldsUpTo
            <4>1. T # {} => h[T \ {pick[T]}] = g[T \ {pick[T]}]
                BY <3>3, <3>5
            <4>2. h[T] = IF T = {} THEN z ELSE s[<<pick[T], g[T \ {pick[T]}]>>]
                OBVIOUS
            <4> HIDE DEF h
            <4> QED BY <4>1, <4>2
        <3> HIDE DEF h
        <3> QED BY <3>4, <3>6, <2>1
    <2> QED BY <2>3, <2>4
<1> QED BY <1>1

LEMMA FoldExists ==
    ASSUME NEW S, IsFiniteSet(S), NEW V, NEW z \in V, NEW s \in [S \X V -> V],
           NEW pick, Picks(pick, S)
    PROVE  HasFold(V, S, z, pick, s)
<1>1. Cardinality(S) \in Nat /\ Small(S, Cardinality(S)) = SUBSET S
    <2>1. Cardinality(S) \in Nat
        BY FS_CardinalityType
    <2>2. \A T \in SUBSET S : Cardinality(T) <= Cardinality(S)
        BY FS_Subset
    <2> QED BY <2>1, <2>2 DEF Small
<1>2. PICK it \in [SUBSET S -> V] : FoldsUpTo(it, S, z, pick, s, Cardinality(S))
    BY <1>1, FoldUpTo
<1>3. \A T \in SUBSET S : it[T] = FoldBody(it, S, z, pick, s)[T]
    BY <1>1, <1>2 DEF FoldsUpTo, FoldBody
<1>4. it = [T \in SUBSET S |-> it[T]]
    BY <1>2
<1> HIDE DEF FoldBody
<1>5. FoldBody(it, S, z, pick, s) = [T \in SUBSET S |-> FoldBody(it, S, z, pick, s)[T]]
    BY DEF FoldBody
<1> QED BY <1>2, <1>3, <1>4, <1>5 DEF HasFold

(* Induction along a fold: what holds of no element, and of a subset when  *)
(* it holds of what pick leaves of it, holds of all subsets.               *)
LEMMA PickInduction ==
    ASSUME NEW S, IsFiniteSet(S), NEW pick, Picks(pick, S), NEW G, {} \in G,
           \A T \in SUBSET S : T # {} /\ T \ {pick[T]} \in G => T \in G
    PROVE  SUBSET S \subseteq G
<1> DEFINE A == {k \in Nat : \E T \in SUBSET S : Cardinality(T) = k /\ T \notin G}
<1>1. ASSUME A # {} PROVE FALSE
    <2>1. PICK k \in A : \A j \in A : k <= j
        <3> HIDE DEF A
        <3>1. A \subseteq Nat
            BY DEF A
        <3> QED BY <1>1, <3>1, LeastIn
    <2>2. PICK T \in SUBSET S : Cardinality(T) = k /\ T \notin G
        BY <2>1
    <2>3. T # {}
        BY <2>2
    <2>4. pick[T] \in T
        BY <2>3 DEF Picks
    <2>5. /\ T \ {pick[T]} \in SUBSET S /\ Cardinality(T \ {pick[T]}) = k - 1 /\ k - 1 \in Nat
        <3>1. /\ T \ {pick[T]} \in SUBSET S /\ Cardinality(T) > 0
              /\ Cardinality(T \ {pick[T]}) = Cardinality(T) - 1
            BY <2>4, SmallerRest
        <3> QED BY <3>1, <2>2
    <2>6. T \ {pick[T]} \in G
        BY <2>1, <2>5
    <2> QED BY <2>2, <2>3, <2>6
<1> SUFFICES ASSUME NEW T \in SUBSET S PROVE T \in G
    OBVIOUS
<1>2. Cardinality(T) \in Nat
    BY FS_Subset, FS_CardinalityType
<1> QED BY <1>1, <1>2

(* The folds over a sequence from the left pick the last position.         *)
LEMMA MaxPicked ==
    ASSUME NEW n \in Nat, NEW T \in SUBSET (1 .. n), T # {}
    PROVE  Max(T) \in T
<1> DEFINE A == {n - x : x \in T}
<1>1. A \subseteq Nat /\ A # {}
    OBVIOUS
<1>2. PICK a \in A : \A b \in A : a <= b
    <2> HIDE DEF A
    <2> QED BY <1>1, LeastIn
<1>3. PICK m \in T : a = n - m
    BY <1>2
<1>4. ASSUME NEW x \in T PROVE x <= m
    <2>1. n - x \in A
        OBVIOUS
    <2>2. n - m <= n - x /\ x \in Nat /\ m \in Nat
        BY <2>1, <1>2, <1>3
    <2> QED BY <2>2
<1>5. \E k \in T : \A x \in T : x <= k
    BY <1>3, <1>4
<1> QED BY <1>5 DEF Max

-----------------------------------------------------------------------------
(* SelectSeq.  Sequences defines it by a function of the prefixes; r is    *)
(* what the first n elements of s have in T, and h says where it was.      *)

SelectBody(g, s, T) ==
    [i \in 0 .. Len(s) |-> IF i = 0 THEN <<>>
                           ELSE IF s[i] \in T THEN Append(g[i - 1], s[i]) ELSE g[i - 1]]
SelectsBy(h, r, s, T, n) ==
    /\ h \in [1 .. Len(r) -> 1 .. n]
    /\ \A j, k \in 1 .. Len(r) : j < k => h[j] < h[k]
    /\ \A k \in 1 .. Len(r) : r[k] = s[h[k]]
    /\ \A i \in 1 .. n : s[i] \in T <=> \E k \in 1 .. Len(r) : h[k] = i
Selects(r, s, T, n) == \E h : SelectsBy(h, r, s, T, n)

LEMMA SelectExists ==
    ASSUME NEW V, NEW s \in Seq(V), NEW T
    PROVE  \E g \in [0 .. Len(s) -> Seq(V)] : g = SelectBody(g, s, T)
<1> DEFINE N == Len(s)
           step == [p \in Nat \X Seq(V) |->
                       IF p[1] \in 1 .. N /\ s[p[1]] \in T THEN Append(p[2], s[p[1]]) ELSE p[2]]
<1>1. step \in [Nat \X Seq(V) -> Seq(V)]
    <2> SUFFICES ASSUME NEW n \in Nat, NEW r \in Seq(V), n \in 1 .. N
                 PROVE  Append(r, s[n]) \in Seq(V)
        OBVIOUS
    <2>1. s[n] \in V
        OBVIOUS
    <2> QED BY <2>1
<1>2. \A n \in Nat, r \in Seq(V) :
         step[<<n, r>>] = IF n \in 1 .. N /\ s[n] \in T THEN Append(r, s[n]) ELSE r
    OBVIOUS
<1>3. N \in Nat /\ <<>> \in Seq(V)
    OBVIOUS
<1> HIDE DEF N, step
<1>4. PICK g \in [0 .. N -> Seq(V)] : RunsTo(g, <<>>, step, N)
    <2>1. HasRun(Seq(V), <<>>, step, N)
        BY <1>1, <1>3, RunExists
    <2> QED BY <2>1 DEF HasRun
<1>5. ASSUME NEW i \in 0 .. N
      PROVE  g[i] = IF i = 0 THEN <<>>
                    ELSE IF s[i] \in T THEN Append(g[i - 1], s[i]) ELSE g[i - 1]
    <2>1. CASE i = 0
        BY <2>1, <1>4 DEF RunsTo
    <2>2. CASE i # 0
        <3>1. i \in 1 .. N /\ i \in Nat /\ i - 1 \in 0 .. N
            BY <2>2, <1>3
        <3>2. g[i] = step[<<i, g[i - 1]>>] /\ g[i - 1] \in Seq(V)
            BY <3>1, <1>4 DEF RunsTo
        <3>3. step[<<i, g[i - 1]>>] = IF s[i] \in T THEN Append(g[i - 1], s[i]) ELSE g[i - 1]
            BY <3>1, <3>2, <1>2
        <3> QED BY <2>2, <3>2, <3>3
    <2> QED BY <2>1, <2>2
<1>6. g = [i \in 0 .. N |-> g[i]]
    BY <1>4
<1>7. g = SelectBody(g, s, T)
    BY <1>5, <1>6 DEF SelectBody, N
<1> QED BY <1>4, <1>7 DEF N

LEMMA SelectedMore ==
    ASSUME NEW V, NEW s \in Seq(V), NEW T, NEW n \in Nat, n + 1 <= Len(s),
           NEW r \in Seq(V), Selects(r, s, T, n)
    PROVE  /\ s[n + 1] \in T => /\ Append(r, s[n + 1]) \in Seq(V)
                                /\ Selects(Append(r, s[n + 1]), s, T, n + 1)
           /\ s[n + 1] \notin T => Selects(r, s, T, n + 1)
<1>1. PICK h : SelectsBy(h, r, s, T, n)
    BY DEF Selects
<1> DEFINE m == n + 1
<1>2. m \in Nat /\ m \in 1 .. Len(s) /\ s[m] \in V /\ Len(r) \in Nat
    OBVIOUS
<1>3. CASE s[m] \notin T
    <2>1. h \in [1 .. Len(r) -> 1 .. m]
        BY <1>1 DEF SelectsBy
    <2>2. ASSUME NEW i \in 1 .. m
          PROVE  s[i] \in T <=> \E k \in 1 .. Len(r) : h[k] = i
        <3>1. i \in 1 .. n \/ i = m
            OBVIOUS
        <3> QED BY <3>1, <1>1, <1>3 DEF SelectsBy
    <2>3. SelectsBy(h, r, s, T, m)
        BY <2>1, <2>2, <1>1 DEF SelectsBy
    <2> QED BY <2>3, <1>3 DEF Selects
<1>4. CASE s[m] \in T
    <2> DEFINE q == Append(r, s[m])
               f == [k \in 1 .. Len(r) + 1 |-> IF k = Len(r) + 1 THEN m ELSE h[k]]
    <2>1. /\ q \in Seq(V) /\ Len(q) = Len(r) + 1 /\ q[Len(r) + 1] = s[m]
          /\ \A k \in 1 .. Len(r) : q[k] = r[k]
        BY <1>2
    <2>2. \A k \in 1 .. Len(r) : h[k] \in 1 .. n
        BY <1>1 DEF SelectsBy
    <2>3. \A k \in 1 .. Len(r) : f[k] = h[k] /\ k \in 1 .. Len(r) + 1
        BY <1>2
    <2>4. f[Len(r) + 1] = m /\ f \in [1 .. Len(r) + 1 -> 1 .. m]
        BY <1>2, <2>2
    <2> HIDE DEF f, q
    <2>5. \A k \in 1 .. Len(r) + 1 : k \in 1 .. Len(r) \/ k = Len(r) + 1
        BY <1>2
    <2>6. \A k \in 1 .. Len(q) : q[k] = s[f[k]]
        BY <2>1, <2>3, <2>4, <2>5, <1>1 DEF SelectsBy
    <2>7. \A j, k \in 1 .. Len(q) : j < k => f[j] < f[k]
        <3> SUFFICES ASSUME NEW j \in 1 .. Len(q), NEW k \in 1 .. Len(q), j < k
                     PROVE  f[j] < f[k]
            OBVIOUS
        <3>1. j \in 1 .. Len(r)
            BY <1>2, <2>1
        <3>2. CASE k \in 1 .. Len(r)
            BY <3>1, <3>2, <2>3, <1>1 DEF SelectsBy
        <3>3. CASE k = Len(r) + 1
            BY <3>1, <3>3, <2>2, <2>3, <2>4
        <3> QED BY <3>2, <3>3, <2>5, <2>1
    <2>8. ASSUME NEW i \in 1 .. m
          PROVE  s[i] \in T <=> \E k \in 1 .. Len(q) : f[k] = i
        <3>1. CASE i = m
            BY <3>1, <1>4, <2>1, <2>4, <1>2
        <3>2. CASE i \in 1 .. n
            <4>1. i # m
                BY <3>2
            <4>2. (\E k \in 1 .. Len(q) : f[k] = i) <=> \E k \in 1 .. Len(r) : h[k] = i
                BY <4>1, <2>1, <2>3, <2>4, <2>5
            <4> QED BY <4>2, <3>2, <1>1 DEF SelectsBy
        <3> QED BY <3>1, <3>2
    <2>9. SelectsBy(f, q, s, T, m)
        BY <2>1, <2>4, <2>6, <2>7, <2>8 DEF SelectsBy
    <2> QED BY <2>9, <2>1, <1>4 DEF Selects, q
<1> QED BY <1>3, <1>4

LEMMA SelectionIs ==
    ASSUME NEW V, NEW s \in Seq(V), NEW T, NEW g, g = SelectBody(g, s, T)
    PROVE  g[Len(s)] \in Seq(V) /\ Selects(g[Len(s)], s, T, Len(s))
<1> DEFINE Good(n) == g[n] \in Seq(V) /\ Selects(g[n], s, T, n)
           A == {n \in 0 .. Len(s) : ~Good(n)}
<1>1. Len(s) \in Nat
    OBVIOUS
<1>2. \A i \in 0 .. Len(s) : g[i] = IF i = 0 THEN <<>>
                           ELSE IF s[i] \in T THEN Append(g[i - 1], s[i]) ELSE g[i - 1]
    BY DEF SelectBody
<1>3. Good(0)
    <2>1. g[0] = <<>>
        BY <1>1, <1>2
    <2>2. SelectsBy(<<>>, <<>>, s, T, 0)
        BY DEF SelectsBy
    <2> QED BY <2>1, <2>2 DEF Selects
<1>4. ASSUME A # {} PROVE FALSE
    <2>1. PICK n \in A : \A j \in A : n <= j
        <3> HIDE DEF A
        <3>1. A \subseteq Nat
            BY <1>1 DEF A
        <3> QED BY <1>4, <3>1, LeastIn
    <2>2. n \in 1 .. Len(s) /\ n \in Nat
        BY <2>1, <1>3, <1>1
    <2>3. n - 1 \in Nat /\ n - 1 \in 0 .. Len(s) /\ n - 1 \notin A
        BY <2>1, <2>2
    <2>4. Good(n - 1)
        BY <2>3
    <2> DEFINE r == g[n - 1]
               m == n - 1
    <2>5. /\ s[m + 1] \in T => Append(r, s[m + 1]) \in Seq(V) /\ Selects(Append(r, s[m + 1]), s, T, m + 1)
          /\ s[m + 1] \notin T => Selects(r, s, T, m + 1)
        <3>1. m \in Nat /\ m + 1 <= Len(s) /\ r \in Seq(V) /\ Selects(r, s, T, m)
            BY <2>2, <2>3, <2>4
        <3> HIDE DEF m, r
        <3> QED BY <3>1, SelectedMore
    <2>6. m + 1 = n
        BY <2>2
    <2>7. g[n] = IF s[n] \in T THEN Append(r, s[n]) ELSE r
        BY <2>2, <1>2
    <2>8. Good(n)
        BY <2>4, <2>5, <2>6, <2>7
    <2> QED BY <2>8, <2>1
<1> QED BY <1>1, <1>4
=============================================================================
