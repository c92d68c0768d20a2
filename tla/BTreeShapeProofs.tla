-------------------------- MODULE BTreeShapeProofs --------------------------
(***************************************************************************)
(* What inserting, splitting, lending and merging do to the shape and the  *)
(* entries of a tree, whatever file it is in.                              *)
(***************************************************************************)
EXTENDS BTree, Recursion

-----------------------------------------------------------------------------
(* Sequences, position by position.                                        *)

Seqs(S, n) == {s \in Seq(S) : Len(s) = n}

LEMMA Chained ==
    ASSUME NEW S, NEW s \in Seq(S), NEW u \in Seq(S)
    PROVE  /\ s \o u \in Seq(S)
           /\ Len(s \o u) = Len(s) + Len(u)
           /\ \A j \in 1 .. Len(s) : (s \o u)[j] = s[j]
           /\ \A j \in 1 .. Len(u) : (s \o u)[Len(s) + j] = u[j]
OBVIOUS

LEMMA Inserted ==
    ASSUME NEW S, NEW s \in Seq(S), NEW e \in S, NEW i \in 1 .. Len(s) + 1
    PROVE  /\ InsertAt(s, i, e) \in Seq(S)
           /\ Len(InsertAt(s, i, e)) = Len(s) + 1
           /\ InsertAt(s, i, e)[i] = e
           /\ \A j \in 1 .. Len(s) : j < i => InsertAt(s, i, e)[j] = s[j]
           /\ \A j \in 1 .. Len(s) : j >= i => InsertAt(s, i, e)[j + 1] = s[j]
<1> DEFINE a == SubSeq(s, 1, i - 1)
           b == SubSeq(s, i, Len(s))
<1>1. a \in Seq(S) /\ Len(a) = i - 1 /\ \A j \in 1 .. i - 1 : a[j] = s[j]
    OBVIOUS
<1>2. b \in Seq(S) /\ Len(b) = Len(s) - i + 1 /\ \A j \in 1 .. Len(b) : b[j] = s[i + j - 1]
    OBVIOUS
<1>3. InsertAt(s, i, e) = (a \o <<e>>) \o b
    BY DEF InsertAt
<1> HIDE DEF a, b
<1> DEFINE c == a \o <<e>>
<1>4. c \in Seq(S) /\ Len(c) = i /\ c[i] = e /\ \A j \in 1 .. i - 1 : c[j] = s[j]
    BY <1>1
<1> HIDE DEF c
<1>5. /\ c \o b \in Seq(S) /\ Len(c \o b) = Len(s) + 1
      /\ \A j \in 1 .. i : (c \o b)[j] = c[j]
      /\ \A j \in 1 .. Len(b) : (c \o b)[i + j] = b[j]
    BY <1>2, <1>4
<1>6. ASSUME NEW j \in 1 .. Len(s), j >= i PROVE (c \o b)[j + 1] = s[j]
    <2>1. j - i + 1 \in 1 .. Len(b) /\ i + (j - i + 1) = j + 1 /\ i + (j - i + 1) - 1 = j
        BY <1>2, <1>6
    <2>2. (c \o b)[i + (j - i + 1)] = b[j - i + 1]
        BY <1>5, <2>1
    <2>3. b[j - i + 1] = s[i + (j - i + 1) - 1]
        BY <1>2, <2>1
    <2> QED BY <2>1, <2>2, <2>3
<1>7. ASSUME NEW j \in 1 .. Len(s), j < i PROVE (c \o b)[j] = s[j]
    BY <1>4, <1>5, <1>7
<1>8. (c \o b)[i] = e
    BY <1>4, <1>5
<1> QED BY <1>3, <1>5, <1>6, <1>7, <1>8 DEF c

LEMMA Removed ==
    ASSUME NEW S, NEW s \in Seq(S), NEW i \in 1 .. Len(s)
    PROVE  /\ RemoveAt(s, i) \in Seq(S)
           /\ Len(RemoveAt(s, i)) = Len(s) - 1
           /\ \A j \in 1 .. Len(s) - 1 : RemoveAt(s, i)[j] = IF j < i THEN s[j] ELSE s[j + 1]
<1> DEFINE a == SubSeq(s, 1, i - 1)
           b == SubSeq(s, i + 1, Len(s))
<1>1. a \in Seq(S) /\ Len(a) = i - 1 /\ \A j \in 1 .. i - 1 : a[j] = s[j]
    OBVIOUS
<1>2. b \in Seq(S) /\ Len(b) = Len(s) - i /\ \A j \in 1 .. Len(b) : b[j] = s[i + j]
    OBVIOUS
<1>3. RemoveAt(s, i) = a \o b
    BY DEF RemoveAt
<1> HIDE DEF a, b
<1>4. /\ a \o b \in Seq(S) /\ Len(a \o b) = Len(a) + Len(b)
      /\ \A j \in 1 .. Len(a) : (a \o b)[j] = a[j]
      /\ \A j \in 1 .. Len(b) : (a \o b)[Len(a) + j] = b[j]
    <2>1. a \in Seq(S) /\ b \in Seq(S)
        BY <1>1, <1>2
    <2> QED BY <2>1, Chained
<1>6. Len(a \o b) = Len(s) - 1
    BY <1>1, <1>2, <1>4
<1>5. ASSUME NEW j \in 1 .. Len(s) - 1, j >= i PROVE (a \o b)[j] = s[j + 1]
    <2>1. j - i + 1 \in 1 .. Len(b) /\ i - 1 + (j - i + 1) = j /\ i + (j - i + 1) = j + 1
        BY <1>2, <1>5
    <2>2. (a \o b)[i - 1 + (j - i + 1)] = b[j - i + 1]
        BY <1>1, <1>4, <2>1
    <2>3. b[j - i + 1] = s[i + (j - i + 1)]
        BY <1>2, <2>1
    <2> QED BY <2>1, <2>2, <2>3
<1>7. ASSUME NEW j \in 1 .. Len(s) - 1, j < i PROVE (a \o b)[j] = s[j]
    <2>1. j \in 1 .. i - 1
        BY <1>7
    <2> QED BY <1>1, <1>4, <2>1
<1>8. ASSUME NEW j \in 1 .. Len(s) - 1 PROVE (a \o b)[j] = IF j < i THEN s[j] ELSE s[j + 1]
    <2>1. j < i \/ j >= i
        OBVIOUS
    <2> QED BY <1>5, <1>7, <2>1
<1> QED BY <1>3, <1>4, <1>6, <1>8

LEMMA Sliced ==
    ASSUME NEW S, NEW s \in Seq(S), NEW i \in 1 .. Len(s) + 1, NEW n \in 0 .. Len(s), i <= n + 1
    PROVE  /\ SubSeq(s, i, n) \in Seq(S)
           /\ Len(SubSeq(s, i, n)) = n - i + 1
           /\ \A j \in 1 .. n - i + 1 : SubSeq(s, i, n)[j] = s[i + j - 1]
OBVIOUS

LEMMA Appended ==
    ASSUME NEW S, NEW s \in Seq(S), NEW e \in S
    PROVE  /\ Append(s, e) \in Seq(S)
           /\ Len(Append(s, e)) = Len(s) + 1
           /\ Append(s, e)[Len(s) + 1] = e
           /\ \A j \in 1 .. Len(s) : Append(s, e)[j] = s[j]
OBVIOUS

-----------------------------------------------------------------------------
(* Nodes.                                                                  *)

(* The keys child c of a node is searched for.                             *)
Bounded(keys, c, k) ==
    /\ c > 1 => keys[c - 1] < k
    /\ c <= Len(keys) => k <= keys[c]
Kid == Nat
Sorted(keys) == \A i, j \in 1 .. Len(keys) : i < j => keys[i] < keys[j]
Formed(node) ==
    /\ node \in [leaf : BOOLEAN, keys : Seq(Key), kids : Seq(Kid)]
    /\ Len(node.kids) = Len(node.keys) + 1
    /\ Sorted(node.keys)

LEMMA KeysAreInts == Key \subseteq Int
BY BTreeAssumption

LEMMA PosBounds ==
    ASSUME NEW keys \in Seq(Key), Sorted(keys), NEW k \in Key
    PROVE  /\ Pos(keys, k) \in 1 .. Len(keys) + 1
           /\ Bounded(keys, Pos(keys, k), k)
           /\ \A c \in 1 .. Len(keys) + 1 : Bounded(keys, c, k) => c = Pos(keys, k)
<1> USE KeysAreInts
<1> DEFINE n == Len(keys)
           A == {i \in 1 .. n + 1 : i <= n => keys[i] >= k}
           Is(i) == /\ i <= n => keys[i] >= k
                    /\ \A j \in 1 .. i - 1 : keys[j] < k
<1>1. n \in Nat /\ k \in Int /\ \A i \in 1 .. n : keys[i] \in Int
    <2>1. n \in Nat /\ \A i \in 1 .. n : keys[i] \in Key
        OBVIOUS
    <2> HIDE DEF n
    <2> QED BY <2>1
<1>2. PICK i \in A : \A j \in A : i <= j
    <2>1. n + 1 \in A /\ A \subseteq Nat
        BY <1>1
    <2> HIDE DEF A
    <2> QED BY <2>1, LeastIn
<1>3. ASSUME NEW j \in 1 .. i - 1 PROVE keys[j] < k
    <2>1. j \in 1 .. n + 1 /\ j \notin A
        BY <1>1, <1>2
    <2>2. j <= n /\ ~(keys[j] >= k)
        BY <2>1
    <2> QED BY <2>1, <2>2, <1>1
<1>4. \E j \in 1 .. n + 1 : Is(j)
    BY <1>2, <1>3
<1>5. Pos(keys, k) = CHOOSE j \in 1 .. n + 1 : Is(j)
    BY DEF Pos
<1>6. Pos(keys, k) \in 1 .. n + 1 /\ Is(Pos(keys, k))
    <2> HIDE DEF Is
    <2> QED BY <1>4, <1>5
<1>7. Bounded(keys, Pos(keys, k), k)
    BY <1>1, <1>6 DEF Bounded
<1>8. ASSUME NEW c \in 1 .. n + 1, NEW d \in 1 .. n + 1, Bounded(keys, c, k), Bounded(keys, d, k), c < d
      PROVE  FALSE
    <2>1. c \in 1 .. n /\ d - 1 \in 1 .. n /\ c <= d - 1 /\ d > 1
        BY <1>1, <1>8
    <2>2. keys[c] <= keys[d - 1]
        <3>1. CASE c = d - 1
            BY <3>1, <2>1, <1>1
        <3>2. CASE c < d - 1
            BY <3>2, <2>1, <1>1 DEF Sorted
        <3> QED BY <3>1, <3>2, <2>1
    <2>3. k <= keys[c] /\ keys[d - 1] < k
        BY <1>8, <2>1 DEF Bounded
    <2> QED BY <2>1, <2>2, <2>3, <1>1
<1>9. \A c \in 1 .. n + 1 : Bounded(keys, c, k) => c = Pos(keys, k)
    BY <1>1, <1>6, <1>7, <1>8
<1> QED BY <1>6, <1>7, <1>9

LEMMA HoldsIs ==
    ASSUME NEW node, Formed(node), NEW k \in Key
    PROVE  /\ Holds(node, k) <=> \E i \in 1 .. Len(node.keys) : node.keys[i] = k
           /\ \A i \in 1 .. Len(node.keys) : node.keys[i] = k => i = Pos(node.keys, k)
<1> DEFINE keys == node.keys
<1>1. keys \in Seq(Key) /\ Sorted(keys)
    BY DEF Formed
<1>5. \A i \in 1 .. Len(keys) : keys[i] \in Int
    <2>1. \A i \in 1 .. Len(keys) : keys[i] \in Key
        BY <1>1
    <2> QED BY <2>1, KeysAreInts
<1>2. k \in Int
    BY KeysAreInts
<1>3. ASSUME NEW i \in 1 .. Len(keys), keys[i] = k PROVE i = Pos(keys, k)
    <2>1. Bounded(keys, i, k)
        BY <1>1, <1>2, <1>3, <1>5 DEF Bounded, Sorted
    <2> QED BY <2>1, <1>1, PosBounds
<1>4. Pos(keys, k) \in 1 .. Len(keys) + 1
    BY <1>1, PosBounds
<1> QED BY <1>1, <1>3, <1>4 DEF Holds

-----------------------------------------------------------------------------
(* Trees.  G maps offsets to nodes.  t says what kind of tree they form:   *)
(*   nodes, root                                                           *)
(*   lev   how far a node is above the leaves                              *)
(*   rng   the keys whose search comes to a node                           *)
(* A node of big may have too many keys, one of small a key too few.       *)

Local(G, t, o) ==
    /\ Formed(G[o])
    /\ G[o].leaf <=> t.lev[o] = 0
    /\ \A i \in 1 .. Len(G[o].keys) : G[o].keys[i] \in t.rng[o]
    /\ t.lev[o] # 0 => \A c \in 1 .. Len(G[o].kids) :
          /\ G[o].kids[c] \in t.nodes
          /\ t.lev[G[o].kids[c]] = t.lev[o] - 1
          /\ \A k \in Key : k \in t.rng[G[o].kids[c]] <=> k \in t.rng[o] /\ Bounded(G[o].keys, c, k)
Sized(node, o, root, big, small) ==
    /\ o \in big \/ Len(node.keys) <= MaxKeys
    /\ Len(node.keys) + (IF o \in small THEN 1 ELSE 0) >= IF o = root THEN 1 ELSE MinKeys(node)

Reaches(rng) ==
    /\ rng \subseteq Key /\ rng # {}
    /\ \A a, b \in rng : \A k \in Key : a < k /\ k < b => k \in rng
Placed(t) ==
    /\ t.root \in t.nodes /\ t.rng[t.root] = Key
    /\ t.nodes \subseteq Nat \ {0}
    /\ \A o \in t.nodes : t.lev[o] \in Nat /\ t.lev[o] <= t.lev[t.root] /\ Reaches(t.rng[o])
Apart(t) == \A o, p \in t.nodes : t.lev[o] = t.lev[p] /\ o # p => t.rng[o] \cap t.rng[p] = {}
(* Leaf x is the next behind leaf o, and 0 stands behind the last leaf.     *)
Link(node) == node.kids[Len(node.keys) + 1]
NextTo(t, o, x) ==
    \A j \in t.rng[o], i \in t.rng[x] :
        j < i /\ \A k \in Key : j < k /\ k < i => k \in t.rng[o] \cup t.rng[x]
Behind(t, o, x) ==
    IF x = 0 THEN \A j \in t.rng[o], k \in Key : j < k => k \in t.rng[o]
    ELSE x \in t.nodes /\ t.lev[x] = 0 /\ NextTo(t, o, x)
Linked(G, t) == \A o \in t.nodes : t.lev[o] = 0 => Behind(t, o, Link(G[o]))
IsTree(G, t, big, small) ==
    /\ Placed(t)
    /\ Apart(t)
    /\ Linked(G, t)
    /\ \A o \in t.nodes : Local(G, t, o)
    /\ \A o \in t.nodes : Sized(G[o], o, t.root, big, small)

(* A node has one place.                                                   *)
LEMMA OnePlace ==
    ASSUME NEW G, NEW t, NEW big, NEW small, IsTree(G, t, big, small),
           NEW o \in t.nodes, NEW p \in t.nodes, t.lev[o] # 0, t.lev[p] # 0,
           NEW c \in 1 .. Len(G[o].kids), NEW d \in 1 .. Len(G[p].kids),
           G[o].kids[c] = G[p].kids[d]
    PROVE  o = p /\ c = d
<1> DEFINE y == G[o].kids[c]
<1>1. Local(G, t, o) /\ Local(G, t, p) /\ Placed(t) /\ Apart(t)
    BY DEF IsTree
<1>2. y \in t.nodes /\ t.lev[y] = t.lev[o] - 1 /\ t.lev[y] = t.lev[p] - 1
    BY <1>1 DEF Local
<1>3. t.lev[o] \in Nat /\ t.lev[p] \in Nat
    BY <1>1 DEF Placed
<1>4. PICK k \in Key : k \in t.rng[y]
    BY <1>1, <1>2 DEF Placed, Reaches
<1>5. /\ k \in t.rng[o] /\ Bounded(G[o].keys, c, k)
      /\ k \in t.rng[p] /\ Bounded(G[p].keys, d, k)
    BY <1>1, <1>4 DEF Local
<1>6. o = p
    BY SMTT(30), <1>1, <1>2, <1>3, <1>5 DEF Apart
<1>7. G[o].keys \in Seq(Key) /\ Sorted(G[o].keys) /\ Len(G[o].kids) = Len(G[o].keys) + 1
    BY <1>1 DEF Local, Formed
<1>8. c = Pos(G[o].keys, k) /\ d = Pos(G[o].keys, k)
    BY <1>5, <1>6, <1>7, PosBounds
<1> QED BY <1>6, <1>8

(* What is left to show when only a node p and kids K of it change and K2  *)
(* is there afterwards in place of K.                                      *)
Repotted(G, t, G2, t2, p, K, K2) ==
    /\ p \in t.nodes /\ t.lev[p] # 0
    /\ \A y \in K : \E c \in 1 .. Len(G[p].kids) : y = G[p].kids[c]
    /\ t2.nodes = (t.nodes \ K) \cup K2
    /\ K2 \subseteq Nat \ {0}
    /\ K2 \cap (t.nodes \ K) = {}
    /\ t2.root = t.root
    /\ \A x \in t.nodes \ K : t2.lev[x] = t.lev[x] /\ t2.rng[x] = t.rng[x]
    /\ \A x \in t.nodes \ K : x # p => G2[x] = G[x]
    /\ \A y \in K2 : t2.lev[y] = t.lev[p] - 1 /\ Reaches(t2.rng[y])
    /\ \A y \in K2 : \A k \in t2.rng[y] : \E x \in K : k \in t.rng[x]
    /\ \A y, z \in K2 : y # z => t2.rng[y] \cap t2.rng[z] = {}

LEMMA Repot ==
    ASSUME NEW G, NEW t, NEW big, NEW small, IsTree(G, t, big, small),
           NEW G2, NEW t2, NEW p, NEW K, NEW K2, Repotted(G, t, G2, t2, p, K, K2),
           \A x \in K2 \cup {p} : Local(G2, t2, x), Linked(G2, t2),
           NEW big2, NEW small2, \A x \in t2.nodes : Sized(G2[x], x, t2.root, big2, small2)
    PROVE  IsTree(G2, t2, big2, small2)
<1>1. /\ Placed(t) /\ Apart(t) /\ \A o \in t.nodes : Local(G, t, o)
      /\ p \in t.nodes /\ t.lev[p] # 0 /\ t.lev[p] \in Nat
    BY DEF IsTree, Repotted, Placed
<1>2. \A y \in K : y \in t.nodes /\ t.lev[y] = t.lev[p] - 1
    BY <1>1 DEF Local, Repotted
<1>3. p \notin K /\ t.root \notin K
    BY <1>1, <1>2 DEF Placed
<1>4. ASSUME NEW x \in t.nodes, t.lev[x] # 0, x # p, NEW c \in 1 .. Len(G[x].kids)
      PROVE  G[x].kids[c] \in t.nodes \ K
    <2>1. G[x].kids[c] \in t.nodes
        BY <1>1, <1>4 DEF Local
    <2>2. ASSUME G[x].kids[c] \in K PROVE FALSE
        <3>1. PICK d \in 1 .. Len(G[p].kids) : G[x].kids[c] = G[p].kids[d]
            BY <2>2 DEF Repotted
        <3> QED BY <3>1, <1>1, <1>4, OnePlace
    <2> QED BY <2>1, <2>2
<1>5. Placed(t2)
    <2>1. /\ t2.root \in t2.nodes /\ t2.rng[t2.root] = Key
          /\ t2.nodes \subseteq Nat \ {0}
          /\ t2.lev[t2.root] = t.lev[t.root]
        BY <1>1, <1>3 DEF Repotted, Placed
    <2>2. ASSUME NEW o \in t2.nodes
          PROVE  t2.lev[o] \in Nat /\ t2.lev[o] <= t2.lev[t2.root] /\ Reaches(t2.rng[o])
        <3>1. CASE o \in t.nodes \ K
            BY <3>1, <2>1, <1>1 DEF Repotted, Placed
        <3>2. CASE o \in K2
            <4>1. t2.lev[o] = t.lev[p] - 1 /\ Reaches(t2.rng[o])
                BY <3>2 DEF Repotted
            <4>2. t.lev[p] <= t.lev[t.root] /\ t.lev[t.root] \in Nat
                BY <1>1 DEF Placed
            <4> QED BY <4>1, <4>2, <2>1, <1>1
        <3> QED BY <3>1, <3>2 DEF Repotted
    <2> QED BY <2>1, <2>2 DEF Placed
<1>6. Apart(t2)
    <2> SUFFICES ASSUME NEW o \in t2.nodes, NEW x \in t2.nodes, t2.lev[o] = t2.lev[x], o # x,
                        NEW k \in t2.rng[o], k \in t2.rng[x]
                 PROVE  FALSE
        BY DEF Apart
    <2>1. ASSUME NEW y \in K2, NEW z \in t.nodes \ K, t2.lev[y] = t2.lev[z],
                 k \in t2.rng[y], k \in t2.rng[z]
          PROVE  FALSE
        <3>1. PICK w \in K : k \in t.rng[w]
            BY <2>1 DEF Repotted
        <3>2. t.lev[z] = t.lev[w] /\ k \in t.rng[z] /\ w # z
            BY <2>1, <1>2 DEF Repotted
        <3> QED BY <3>1, <3>2, <1>1, <1>2 DEF Apart
    <2>2. CASE o \in t.nodes \ K /\ x \in t.nodes \ K
        <3>1. t.lev[o] = t.lev[x] /\ k \in t.rng[o] /\ k \in t.rng[x]
            BY <2>2 DEF Repotted
        <3> QED BY <3>1, <2>2, <1>1 DEF Apart
    <2>3. CASE o \in K2 /\ x \in K2
        BY <2>3 DEF Repotted
    <2> QED BY <2>1, <2>2, <2>3 DEF Repotted
<1>7. ASSUME NEW x \in t2.nodes PROVE Local(G2, t2, x)
    <2>1. CASE x \in K2 \cup {p}
        BY <2>1
    <2>2. CASE x \in t.nodes \ K /\ x # p
        <3>1. G2[x] = G[x] /\ t2.lev[x] = t.lev[x] /\ t2.rng[x] = t.rng[x] /\ Local(G, t, x)
            BY <2>2, <1>1 DEF Repotted
        <3>2. ASSUME t.lev[x] # 0, NEW c \in 1 .. Len(G[x].kids)
              PROVE  /\ G[x].kids[c] \in t2.nodes
                     /\ t2.lev[G[x].kids[c]] = t.lev[G[x].kids[c]]
                     /\ t2.rng[G[x].kids[c]] = t.rng[G[x].kids[c]]
            <4>1. G[x].kids[c] \in t.nodes \ K
                BY <2>2, <3>2, <1>4
            <4> QED BY <4>1 DEF Repotted
        <3> QED BY <3>1, <3>2 DEF Local
    <2> QED BY <2>1, <2>2 DEF Repotted
<1> QED BY <1>5, <1>6, <1>7 DEF IsTree

(* Only one node changes, and its kids and ranges do not.                  *)
LEMMA Regrown ==
    ASSUME NEW G, NEW t, NEW big, NEW small, IsTree(G, t, big, small),
           NEW G2, NEW o \in t.nodes, \A x \in t.nodes : x # o => G2[x] = G[x],
           Local(G2, t, o), t.lev[o] = 0 => Link(G2[o]) = Link(G[o]),
           NEW big2, NEW small2, \A x \in t.nodes : Sized(G2[x], x, t.root, big2, small2)
    PROVE  IsTree(G2, t, big2, small2)
<1>1. ASSUME NEW x \in t.nodes PROVE Local(G2, t, x)
    BY DEF IsTree, Local
<1>2. Linked(G2, t)
    BY DEF IsTree, Linked
<1> QED BY <1>1, <1>2 DEF IsTree

-----------------------------------------------------------------------------
(* A key more.                                                             *)

Grows(node, w, i, k, x) ==
    /\ w \in [leaf : BOOLEAN, keys : Seq(Key), kids : Seq(Kid)]
    /\ w.leaf = node.leaf
    /\ Len(w.keys) = Len(node.keys) + 1
    /\ Len(w.kids) = Len(node.kids) + 1
    /\ i \in 1 .. Len(node.keys) + 1
    /\ w.keys[i] = k
    /\ \A j \in 1 .. Len(node.keys) : j < i => w.keys[j] = node.keys[j]
    /\ \A j \in 1 .. Len(node.keys) : j >= i => w.keys[j + 1] = node.keys[j]
    /\ LET h == IF node.leaf THEN i ELSE i + 1
       IN  /\ w.kids[h] = x
           /\ \A j \in 1 .. Len(node.kids) : j < h => w.kids[j] = node.kids[j]
           /\ \A j \in 1 .. Len(node.kids) : j >= h => w.kids[j + 1] = node.kids[j]
Widens(node, w, i, k, x) == Formed(w) /\ Grows(node, w, i, k, x)

LEMMA GrownSorted ==
    ASSUME NEW node, Formed(node), NEW k \in Key, NEW w, NEW i, NEW x, Grows(node, w, i, k, x),
           Bounded(node.keys, i, k), i <= Len(node.keys) => k < node.keys[i]
    PROVE  Widens(node, w, i, k, x)
<1> DEFINE n == Len(node.keys)
           keys == w.keys
<1>1. node.keys \in Seq(Key) /\ Sorted(node.keys) /\ n \in Nat /\ Len(node.kids) = n + 1
    BY DEF Formed
<1>2. i \in 1 .. n + 1 /\ Bounded(node.keys, i, k)
    BY DEF Grows
<1>6. /\ Len(keys) = n + 1 /\ keys[i] = k
      /\ \A j \in 1 .. n : j < i => keys[j] = node.keys[j]
      /\ \A j \in 1 .. n : j >= i => keys[j + 1] = node.keys[j]
    BY DEF Grows
<1>7. i <= n => k < node.keys[i]
    OBVIOUS
<1> HIDE DEF n, keys
<1>9. Sorted(keys)
    <2>1. /\ \A j \in 1 .. n : node.keys[j] \in Int /\ (j < i => node.keys[j] < k) /\ (j >= i => node.keys[j] > k)
          /\ k \in Int
        <3>1. k \in Int /\ \A j \in 1 .. n : node.keys[j] \in Key /\ node.keys[j] \in Int
            <4>1. \A j \in 1 .. n : node.keys[j] \in Key
                BY <1>1 DEF n
            <4> QED BY <4>1, KeysAreInts
        <3>2. ASSUME NEW j \in 1 .. n, j < i PROVE node.keys[j] < k
            <4>1. i - 1 \in 1 .. n /\ i > 1 /\ (j = i - 1 \/ j < i - 1)
                BY <1>1, <1>2, <3>2
            <4>2. node.keys[i - 1] < k
                BY <4>1, <1>2 DEF Bounded, n
            <4>3. node.keys[j] <= node.keys[i - 1]
                BY <4>1, <3>1, <1>1 DEF Sorted, n
            <4> QED BY <4>1, <4>2, <4>3, <3>1
        <3>3. ASSUME NEW j \in 1 .. n, j >= i PROVE node.keys[j] > k
            <4>1. i \in 1 .. n /\ (j = i \/ i < j)
                BY <1>1, <1>2, <3>3
            <4>2. k < node.keys[i]
                BY <4>1, <1>7, <1>1
            <4>3. node.keys[i] <= node.keys[j]
                BY <4>1, <3>1, <1>1 DEF Sorted, n
            <4> QED BY <4>1, <4>2, <4>3, <3>1
        <3> QED BY <3>1, <3>2, <3>3
    <2>2. ASSUME NEW a \in 1 .. n + 1, NEW b \in 1 .. n + 1, a < b PROVE keys[a] < keys[b]
        <3>1. /\ a < i => keys[a] = node.keys[a] /\ a \in 1 .. n
              /\ b < i => keys[b] = node.keys[b] /\ b \in 1 .. n
            BY <1>1, <1>2, <1>6
        <3>2. a > i => keys[a] = node.keys[a - 1] /\ a - 1 \in 1 .. n /\ a - 1 >= i
            <4>1. a > i => a - 1 \in 1 .. n /\ a - 1 >= i /\ (a - 1) + 1 = a
                BY <1>1, <1>2
            <4> QED BY <4>1, <1>6
        <3>3. b > i => keys[b] = node.keys[b - 1] /\ b - 1 \in 1 .. n /\ b - 1 >= i
            <4>1. b > i => b - 1 \in 1 .. n /\ b - 1 >= i /\ (b - 1) + 1 = b
                BY <1>1, <1>2
            <4> QED BY <4>1, <1>6
        <3>4. i \in Nat
            BY <1>2
        <3>5. CASE a < i /\ b < i
            BY <3>5, <3>1, <2>2, <1>1 DEF Sorted, n
        <3>6. CASE a < i /\ b = i
            BY <3>6, <3>1, <2>1, <1>6
        <3>7. CASE a < i /\ b > i
            BY <3>7, <3>1, <3>3, <2>1, <3>4
        <3>8. CASE a = i /\ b > i
            BY <3>8, <3>3, <2>1, <1>6
        <3>9. CASE a > i /\ b > i
            <4>1. a - 1 < b - 1
                BY <2>2
            <4> QED BY <4>1, <3>9, <3>2, <3>3, <1>1 DEF Sorted, n
        <3> QED BY <3>4, <3>5, <3>6, <3>7, <3>8, <3>9, <2>2
    <2> QED BY <2>2, <1>6 DEF Sorted, n
<1> QED BY <1>1, <1>6, <1>9 DEF Widens, Formed, Grows, n, keys

LEMMA Widened ==
    ASSUME NEW node, Formed(node), NEW k \in Key, ~Holds(node, k), NEW x \in Kid
    PROVE  Widens(node, AddKey(node, k, x), Pos(node.keys, k), k, x)
<1> DEFINE i == Pos(node.keys, k)
           h == IF node.leaf THEN i ELSE i + 1
           w == AddKey(node, k, x)
           keys == InsertAt(node.keys, i, k)
           kids == InsertAt(node.kids, h, x)
           n == Len(node.keys)
<1>1. /\ node.keys \in Seq(Key) /\ Sorted(node.keys) /\ node.kids \in Seq(Kid)
      /\ Len(node.kids) = n + 1 /\ node.leaf \in BOOLEAN /\ n \in Nat
    BY DEF Formed
<1>2. i \in 1 .. n + 1 /\ Bounded(node.keys, i, k)
    BY <1>1, PosBounds
<1>3. h \in 1 .. Len(node.kids) + 1
    BY <1>1, <1>2
<1>4. i + (IF node.leaf THEN 0 ELSE 1) = h
    BY <1>1, <1>2
<1>5. w = [node EXCEPT !.keys = keys, !.kids = kids]
    BY <1>4 DEF AddKey, KeysWith, KidsWith
<1> HIDE DEF i, h, w
<1>6. /\ keys \in Seq(Key) /\ Len(keys) = n + 1 /\ keys[i] = k
      /\ \A j \in 1 .. n : j < i => keys[j] = node.keys[j]
      /\ \A j \in 1 .. n : j >= i => keys[j + 1] = node.keys[j]
    <2>1. node.keys \in Seq(Key) /\ i \in 1 .. Len(node.keys) + 1
        BY <1>1, <1>2
    <2> QED BY <2>1, Inserted
<1>7. /\ kids \in Seq(Kid) /\ Len(kids) = n + 2 /\ kids[h] = x
      /\ \A j \in 1 .. Len(node.kids) : j < h => kids[j] = node.kids[j]
      /\ \A j \in 1 .. Len(node.kids) : j >= h => kids[j + 1] = node.kids[j]
    <2>1. node.kids \in Seq(Kid) /\ h \in 1 .. Len(node.kids) + 1
        BY <1>1, <1>3
    <2>2. /\ kids \in Seq(Kid) /\ Len(kids) = Len(node.kids) + 1 /\ kids[h] = x
          /\ \A j \in 1 .. Len(node.kids) : j < h => kids[j] = node.kids[j]
          /\ \A j \in 1 .. Len(node.kids) : j >= h => kids[j + 1] = node.kids[j]
        BY <2>1, Inserted
    <2> QED BY <2>2, <1>1
<1> HIDE DEF keys, kids
<1>8. w.keys = keys /\ w.kids = kids /\ w.leaf = node.leaf
      /\ w \in [leaf : BOOLEAN, keys : Seq(Key), kids : Seq(Kid)]
    BY <1>1, <1>5, <1>6, <1>7 DEF Formed
<1>9. Grows(node, w, i, k, x)
    BY <1>1, <1>2, <1>3, <1>6, <1>7, <1>8 DEF Grows, h
<1>10. i <= n => k < node.keys[i]
    <2> SUFFICES ASSUME i <= n PROVE k < node.keys[i]
        OBVIOUS
    <2>1. i \in 1 .. n
        BY <1>1, <1>2
    <2>2. node.keys[i] # k /\ k <= node.keys[i]
        BY <2>1, <1>2, HoldsIs DEF Bounded
    <2>3. node.keys[i] \in Key
        BY <2>1, <1>1
    <2>4. node.keys[i] \in Int /\ k \in Int
        BY <2>3, KeysAreInts
    <2> QED BY <2>2, <2>4
<1>11. Widens(node, w, i, k, x)
    BY <1>2, <1>9, <1>10, GrownSorted
<1> QED BY <1>11 DEF i, w

-----------------------------------------------------------------------------
(* A node with a key too many, cut in two.                                 *)

Cut(w) == IF w.leaf THEN LeftCount(w) ELSE LeftCount(w) + 1
LeftOf(w, q) ==
    LET n == LeftCount(w)
    IN  [w EXCEPT !.keys = SubSeq(w.keys, 1, n),
                  !.kids = IF w.leaf THEN Append(SubSeq(w.kids, 1, n), q) ELSE SubSeq(w.kids, 1, n + 1)]
RightOf(w) ==
    [w EXCEPT !.keys = SubSeq(w.keys, Cut(w) + 1, Order), !.kids = SubSeq(w.kids, Cut(w) + 1, Order + 1)]

LEMMA SplitIsCut ==
    ASSUME NEW node, Formed(node), Full(node), NEW k, ~Holds(node, k), NEW x, NEW q
    PROVE  /\ SplitLeft(node, k, x, q) = LeftOf(AddKey(node, k, x), q)
           /\ SplitRight(node, k, x) = RightOf(AddKey(node, k, x))
           /\ SplitKey(node, k) = AddKey(node, k, x).keys[Cut(AddKey(node, k, x))]
<1> DEFINE w == AddKey(node, k, x)
<1>1. node \in [leaf : BOOLEAN, keys : Seq(Key), kids : Seq(Kid)]
    BY DEF Formed
<1>2. w = [node EXCEPT !.keys = KeysWith(node, k), !.kids = KidsWith(node, k, x)]
    BY DEF AddKey
<1>3. w.leaf = node.leaf /\ w.keys = KeysWith(node, k) /\ w.kids = KidsWith(node, k, x)
    BY <1>1, <1>2
<1>4. LeftCount(w) = LeftCount(node)
    BY <1>3 DEF LeftCount
<1> HIDE DEF w
<1> DEFINE n == LeftCount(node)
<1>5. SplitLeft(node, k, x, q) = LeftOf(w, q)
    <2>1. \A a, b : [node EXCEPT !.keys = a, !.kids = b] = [w EXCEPT !.keys = a, !.kids = b]
        BY <1>1, <1>2
    <2>2. SplitLeft(node, k, x, q) =
             [node EXCEPT !.keys = SubSeq(w.keys, 1, n),
                          !.kids = IF w.leaf THEN Append(SubSeq(w.kids, 1, n), q)
                                   ELSE SubSeq(w.kids, 1, n + 1)]
        BY <1>3 DEF SplitLeft
    <2>3. LeftOf(w, q) =
             [w EXCEPT !.keys = SubSeq(w.keys, 1, n),
                       !.kids = IF w.leaf THEN Append(SubSeq(w.kids, 1, n), q)
                                ELSE SubSeq(w.kids, 1, n + 1)]
        BY <1>4 DEF LeftOf
    <2> QED BY <2>1, <2>2, <2>3
<1>6. SplitRight(node, k, x) = RightOf(w)
    <2>1. \A a, b : [node EXCEPT !.keys = a, !.kids = b] = [w EXCEPT !.keys = a, !.kids = b]
        BY <1>1, <1>2
    <2>2. Cut(w) = IF node.leaf THEN n ELSE n + 1
        BY <1>3, <1>4 DEF Cut
    <2>3. SplitRight(node, k, x) =
             [node EXCEPT !.keys = SubSeq(w.keys, Cut(w) + 1, Order),
                          !.kids = SubSeq(w.kids, Cut(w) + 1, Order + 1)]
        BY <1>3, <2>2 DEF SplitRight
    <2> QED BY <2>1, <2>3 DEF RightOf
<1>7. SplitKey(node, k) = w.keys[Cut(w)]
    BY <1>3, <1>4 DEF SplitKey, Cut
<1> QED BY <1>5, <1>6, <1>7 DEF w

Cuts(w, l, r, n, m) ==
    /\ Formed(l) /\ l.leaf = w.leaf /\ Len(l.keys) = n
    /\ \A i \in 1 .. n : l.keys[i] = w.keys[i]
    /\ \A i \in 1 .. m : l.kids[i] = w.kids[i]
    /\ Formed(r) /\ r.leaf = w.leaf /\ Len(r.keys) = Len(w.keys) - m
    /\ \A i \in 1 .. Len(w.keys) - m : r.keys[i] = w.keys[m + i]
    /\ \A i \in 1 .. Len(w.keys) + 1 - m : r.kids[i] = w.kids[m + i]
CutAt(w, n, m) ==
    /\ n \in Nat /\ m = IF w.leaf THEN n ELSE n + 1
    /\ n >= MinKeys(w) /\ n <= MaxKeys
    /\ Len(w.keys) - m >= MinKeys(w) /\ Len(w.keys) - m <= MaxKeys

LEMMA Orders == Order \in Nat /\ Order >= 3 /\ MaxKeys = Order - 1 /\ MinLeaf >= 1 /\ MinInt >= 1
                /\ MinLeaf \in Nat /\ MinInt \in Nat
BY OrderAssumption DEF MaxKeys, MinLeaf, MinInt

LEMMA Counts ==
    ASSUME NEW w, Formed(w), Len(w.keys) = Order
    PROVE  CutAt(w, LeftCount(w), Cut(w))
<1>1. CASE w.leaf
    BY <1>1, OrderAssumption DEF LeftCount, Cut, CutAt, MinKeys, MinLeaf, MaxKeys
<1>2. CASE ~w.leaf
    BY <1>2, OrderAssumption DEF LeftCount, Cut, CutAt, MinKeys, MinInt, MaxKeys
<1> QED BY <1>1, <1>2

LEMMA CutBetween ==
    ASSUME NEW w, Formed(w), NEW n, NEW m, CutAt(w, n, m)
    PROVE  /\ Len(w.keys) \in Nat /\ n \in Nat /\ m \in Nat /\ n >= 1 /\ n <= m
           /\ m < Len(w.keys) /\ n < Len(w.keys)
<1>1. Len(w.keys) \in Nat
    BY DEF Formed
<1>2. MinKeys(w) \in Nat /\ MinKeys(w) >= 1
    BY Orders DEF MinKeys
<1>3. CASE w.leaf
    BY <1>1, <1>2, <1>3 DEF CutAt
<1>4. CASE ~w.leaf
    BY <1>1, <1>2, <1>4 DEF CutAt
<1> QED BY <1>3, <1>4

LEMMA CutInTwo ==
    ASSUME NEW w, Formed(w), Len(w.keys) = Order, NEW q \in Kid
    PROVE  /\ CutAt(w, LeftCount(w), Cut(w))
           /\ Cuts(w, LeftOf(w, q), RightOf(w), LeftCount(w), Cut(w))
           /\ w.leaf => LeftOf(w, q).kids[LeftCount(w) + 1] = q
<1> DEFINE n == LeftCount(w)
           m == Cut(w)
           l == LeftOf(w, q)
           r == RightOf(w)
           lk == SubSeq(w.keys, 1, n)
           lc == IF w.leaf THEN Append(SubSeq(w.kids, 1, n), q) ELSE SubSeq(w.kids, 1, n + 1)
           rk == SubSeq(w.keys, m + 1, Order)
           rc == SubSeq(w.kids, m + 1, Order + 1)
<1>1. /\ w.keys \in Seq(Key) /\ w.kids \in Seq(Kid) /\ w.leaf \in BOOLEAN
      /\ Len(w.kids) = Order + 1 /\ Sorted(w.keys) /\ Order \in Nat
    BY Orders DEF Formed
<1>2. CutAt(w, n, m)
    BY Counts
<1>12. n \in Nat /\ m \in Nat /\ n >= 1 /\ n <= m /\ m < Order /\ n < Order /\ m = IF w.leaf THEN n ELSE n + 1
    <2> HIDE DEF n, m
    <2>1. n \in Nat /\ m \in Nat /\ n >= 1 /\ n <= m /\ m < Order /\ n < Order
        BY <1>2, CutBetween
    <2> QED BY <2>1, <1>2 DEF CutAt
<1>3. /\ l = [w EXCEPT !.keys = lk, !.kids = lc]
      /\ r = [w EXCEPT !.keys = rk, !.kids = rc]
    BY DEF LeftOf, RightOf
<1> HIDE DEF n, m, l, r
<1>4. /\ lk \in Seq(Key) /\ Len(lk) = n /\ \A i \in 1 .. n : lk[i] = w.keys[i]
    <2>1. n \in 0 .. Len(w.keys) /\ 1 \in 1 .. Len(w.keys) + 1 /\ 1 <= n + 1 /\ n \in Nat
        BY <1>1, <1>12
    <2>2. lk \in Seq(Key) /\ Len(lk) = n - 1 + 1 /\ \A i \in 1 .. n - 1 + 1 : lk[i] = w.keys[1 + i - 1]
        BY <2>1, <1>1, Sliced
    <2>3. \A i \in 1 .. n : 1 + i - 1 = i /\ i \in 1 .. n - 1 + 1
        BY <2>1
    <2> QED BY <2>1, <2>2, <2>3
<1>5. /\ rk \in Seq(Key) /\ Len(rk) = Order - m /\ \A i \in 1 .. Order - m : rk[i] = w.keys[m + i]
    <2>1. Order \in 0 .. Len(w.keys) /\ m + 1 \in 1 .. Len(w.keys) + 1 /\ m + 1 <= Order + 1 /\ m \in Nat
        BY <1>1, <1>12
    <2>2. /\ rk \in Seq(Key) /\ Len(rk) = Order - (m + 1) + 1
          /\ \A i \in 1 .. Order - (m + 1) + 1 : rk[i] = w.keys[(m + 1) + i - 1]
        BY <2>1, <1>1, Sliced
    <2>3. \A i \in 1 .. Order - m : (m + 1) + i - 1 = m + i /\ i \in 1 .. Order - (m + 1) + 1
        BY <2>1, <1>1
    <2> QED BY <2>1, <2>2, <2>3, <1>1
<1>6. /\ rc \in Seq(Kid) /\ Len(rc) = Order + 1 - m /\ \A i \in 1 .. Order + 1 - m : rc[i] = w.kids[m + i]
    <2>1. /\ Order + 1 \in 0 .. Len(w.kids) /\ m + 1 \in 1 .. Len(w.kids) + 1
          /\ m + 1 <= (Order + 1) + 1 /\ m \in Nat
        BY <1>1, <1>12
    <2>2. /\ rc \in Seq(Kid) /\ Len(rc) = (Order + 1) - (m + 1) + 1
          /\ \A i \in 1 .. (Order + 1) - (m + 1) + 1 : rc[i] = w.kids[(m + 1) + i - 1]
        BY <2>1, <1>1, Sliced
    <2>3. \A i \in 1 .. Order + 1 - m : (m + 1) + i - 1 = m + i /\ i \in 1 .. (Order + 1) - (m + 1) + 1
        BY <2>1, <1>1
    <2> QED BY <2>1, <2>2, <2>3, <1>1
<1>7. /\ lc \in Seq(Kid) /\ Len(lc) = n + 1 /\ \A i \in 1 .. m : lc[i] = w.kids[i]
      /\ w.leaf => lc[n + 1] = q
    <2> DEFINE h == SubSeq(w.kids, 1, m)
    <2>1. m \in 0 .. Len(w.kids) /\ 1 \in 1 .. Len(w.kids) + 1 /\ 1 <= m + 1 /\ m \in Nat
        BY <1>1, <1>12
    <2>2. h \in Seq(Kid) /\ Len(h) = m - 1 + 1 /\ \A i \in 1 .. m - 1 + 1 : h[i] = w.kids[1 + i - 1]
        BY <2>1, <1>1, Sliced
    <2>3. \A i \in 1 .. m : 1 + i - 1 = i /\ i \in 1 .. m - 1 + 1
        BY <2>1
    <2>4. h \in Seq(Kid) /\ Len(h) = m /\ \A i \in 1 .. m : h[i] = w.kids[i]
        BY <2>1, <2>2, <2>3
    <2>5. CASE w.leaf
        <3>1. lc = Append(h, q) /\ m = n
            BY <2>5, <1>12
        <3> HIDE DEF h, lc
        <3>2. lc \in Seq(Kid) /\ Len(lc) = m + 1 /\ lc[m + 1] = q /\ \A i \in 1 .. m : lc[i] = h[i]
            BY <2>4, <3>1, Appended
        <3> QED BY <3>1, <3>2, <2>4
    <2>6. CASE ~w.leaf
        <3>1. lc = h /\ m = n + 1
            BY <2>6, <1>12
        <3> HIDE DEF h, lc
        <3> QED BY <3>1, <2>4, <2>6
    <2> QED BY <2>5, <2>6
<1> HIDE DEF lk, lc, rk, rc
<1>8. /\ l.keys = lk /\ l.kids = lc /\ l.leaf = w.leaf
      /\ r.keys = rk /\ r.kids = rc /\ r.leaf = w.leaf
      /\ l \in [leaf : BOOLEAN, keys : Seq(Key), kids : Seq(Kid)]
      /\ r \in [leaf : BOOLEAN, keys : Seq(Key), kids : Seq(Kid)]
    BY <1>3, <1>4, <1>5, <1>6, <1>7 DEF Formed
<1>9. n \in Nat /\ m \in Nat /\ n < Order /\ m < Order
    BY <1>12
<1>10. Sorted(lk) /\ Sorted(rk)
    <2>1. \A i, j \in 1 .. Order : i < j => w.keys[i] < w.keys[j]
        BY <1>1 DEF Sorted
    <2>2. \A i \in 1 .. n : i \in 1 .. Order
        BY <1>9, <1>1
    <2>3. \A i, j \in 1 .. Order - m : m + i \in 1 .. Order /\ (i < j => m + i < m + j)
        BY <1>9, <1>1
    <2>4. Sorted(lk)
        BY <2>1, <2>2, <1>4 DEF Sorted
    <2>5. Sorted(rk)
        BY <2>1, <2>3, <1>5 DEF Sorted
    <2> QED BY <2>4, <2>5
<1>11. Formed(l) /\ Formed(r)
    BY <1>4, <1>5, <1>6, <1>7, <1>8, <1>9, <1>10, <1>1 DEF Formed
<1>13. Cuts(w, l, r, n, m)
    BY <1>4, <1>5, <1>6, <1>7, <1>8, <1>11 DEF Cuts
<1> QED BY <1>2, <1>7, <1>8, <1>13 DEF n, m, l, r

(* What the children of a node with a key s more are searched for: child c *)
(* is cut at s, those behind it have moved.                                *)
CutBounds(keys, wide, c, s, k) ==
    /\ \A d \in 1 .. Len(keys) + 1 : d < c => (Bounded(wide, d, k) <=> Bounded(keys, d, k))
    /\ Bounded(wide, c, k) <=> Bounded(keys, c, k) /\ k <= s
    /\ Bounded(wide, c + 1, k) <=> Bounded(keys, c, k) /\ k > s
    /\ \A d \in 1 .. Len(keys) + 1 : d > c => (Bounded(wide, d + 1, k) <=> Bounded(keys, d, k))

LEMMA WidenedBounds ==
    ASSUME NEW node, Formed(node), NEW w, NEW c, NEW s \in Key, NEW x, Widens(node, w, c, s, x),
           Bounded(node.keys, c, s), c <= Len(node.keys) => s < node.keys[c],
           NEW k \in Key
    PROVE  CutBounds(node.keys, w.keys, c, s, k)
<1> DEFINE n == Len(node.keys)
<1>1. node.keys \in Seq(Key) /\ n \in Nat /\ Formed(w) /\ w.keys \in Seq(Key) /\ Len(w.keys) = n + 1
    BY DEF Formed, Widens, Grows
<1>2. /\ k \in Int /\ s \in Int /\ c \in 1 .. n + 1
      /\ \A j \in 1 .. n : node.keys[j] \in Key /\ node.keys[j] \in Int
    <2>1. \A j \in 1 .. n : node.keys[j] \in Key
        BY <1>1
    <2>2. k \in Int /\ s \in Int /\ \A j \in 1 .. n : node.keys[j] \in Int
        BY <2>1, KeysAreInts
    <2> QED BY <2>1, <2>2 DEF Widens, Grows
<1>3. /\ w.keys[c] = s
      /\ \A j \in 1 .. n : j < c => w.keys[j] = node.keys[j]
      /\ \A j \in 1 .. n : j >= c => w.keys[j + 1] = node.keys[j]
    BY DEF Widens, Grows
<1>4. ASSUME NEW d \in 1 .. n + 1, d < c
      PROVE  Bounded(w.keys, d, k) <=> Bounded(node.keys, d, k)
    <2>1. d \in 1 .. n /\ w.keys[d] = node.keys[d] /\ (d > 1 => w.keys[d - 1] = node.keys[d - 1])
        BY <1>1, <1>2, <1>3, <1>4
    <2> QED BY <2>1, <1>1 DEF Bounded
<1>5. c > 1 => w.keys[c - 1] = node.keys[c - 1] /\ c - 1 \in 1 .. n
    BY SMTT(30), <1>1, <1>2, <1>3
<1>6. Bounded(w.keys, c, k) <=> Bounded(node.keys, c, k) /\ k <= s
    <2>1. CASE c <= n
        <3>1. c \in 1 .. n /\ s < node.keys[c] /\ node.keys[c] \in Int
            BY <2>1, <1>1, <1>2
        <3> DEFINE y == node.keys[c]
                   Low == c > 1 => node.keys[c - 1] < k
        <3>2. Bounded(node.keys, c, k) <=> Low /\ k <= y
            BY <2>1 DEF Bounded
        <3>3. Bounded(w.keys, c, k) <=> Low /\ k <= s
            BY <3>1, <1>1, <1>3, <1>5 DEF Bounded
        <3>4. y \in Int /\ s < y
            BY <3>1
        <3> HIDE DEF y, Low
        <3>5. k <= s => k <= y
            BY <3>4, <1>2
        <3> QED BY <3>2, <3>3, <3>5
    <2>2. CASE c = n + 1
        BY <2>2, <1>1, <1>2, <1>3, <1>5 DEF Bounded
    <2> QED BY <2>1, <2>2, <1>1, <1>2
<1>7. Bounded(w.keys, c + 1, k) <=> Bounded(node.keys, c, k) /\ k > s
    <2>1. (c + 1) - 1 = c /\ c + 1 > 1
        BY <1>2
    <2>2. c > 1 => node.keys[c - 1] < s /\ node.keys[c - 1] \in Int
        BY <1>2, <1>5 DEF Bounded
    <2>3. CASE c <= n
        <3>1. c \in 1 .. n /\ w.keys[c + 1] = node.keys[c] /\ node.keys[c] \in Int /\ c + 1 <= n + 1
            BY <2>3, <1>1, <1>2, <1>3
        <3> QED BY SMTT(30), <3>1, <2>1, <2>2, <1>1, <1>2, <1>3 DEF Bounded
    <2>4. CASE c = n + 1
        BY <2>4, <2>1, <2>2, <1>1, <1>2, <1>3 DEF Bounded
    <2> QED BY <2>3, <2>4, <1>1, <1>2
<1>8. ASSUME NEW d \in 1 .. n + 1, d > c
      PROVE  Bounded(w.keys, d + 1, k) <=> Bounded(node.keys, d, k)
    <2>1. d - 1 \in 1 .. n /\ d - 1 >= c /\ d > 1 /\ d + 1 > 1 /\ (d - 1) + 1 = d /\ (d + 1) - 1 = d
        BY <1>1, <1>2, <1>8
    <2>2. w.keys[d] = node.keys[d - 1]
        BY <2>1, <1>3
    <2>3. d <= n => w.keys[d + 1] = node.keys[d] /\ d + 1 <= n + 1
        BY <1>1, <1>2, <1>3, <1>8
    <2>4. d <= n <=> d + 1 <= n + 1
        BY <1>1
    <2> QED BY <2>1, <2>2, <2>3, <2>4, <1>1 DEF Bounded
<1> QED BY <1>4, <1>6, <1>7, <1>8 DEF CutBounds

(* The two halves and the parent's new child.                              *)
SplitGhost(t, o, q, s) ==
    [nodes |-> t.nodes \cup {q}, root |-> t.root,
     lev |-> [x \in t.nodes \cup {q} |-> IF x = q THEN t.lev[o] ELSE t.lev[x]],
     rng |-> [x \in t.nodes \cup {q} |->
                 IF x = o THEN {k \in t.rng[o] : k <= s}
                 ELSE IF x = q THEN {k \in t.rng[o] : k > s} ELSE t.rng[x]]]

LEMMA SplitLinked ==
    ASSUME NEW G, NEW t, Placed(t), Linked(G, t), NEW o \in t.nodes,
           NEW q \in Nat \ {0}, q \notin t.nodes, NEW s \in Key,
           Reaches(SplitGhost(t, o, q, s).rng[o]), Reaches(SplitGhost(t, o, q, s).rng[q]),
           NEW G2, \A x \in t.nodes : t.lev[x] = 0 /\ x # o => Link(G2[x]) = Link(G[x]),
           t.lev[o] = 0 => Link(G2[o]) = q /\ Link(G2[q]) = Link(G[o])
    PROVE  Linked(G2, SplitGhost(t, o, q, s))
<1> DEFINE t2 == SplitGhost(t, o, q, s)
<1>1. /\ t2.nodes = t.nodes \cup {q} /\ t2.lev[q] = t.lev[o]
      /\ \A x \in t.nodes : t2.lev[x] = t.lev[x]
      /\ t2.rng[q] = {k \in t.rng[o] : k > s} /\ t2.rng[o] = {k \in t.rng[o] : k <= s}
      /\ \A x \in t.nodes : x # o => t2.rng[x] = t.rng[x]
    BY DEF SplitGhost
<1>2. /\ 0 \notin t.nodes /\ q # o /\ s \in Int /\ Key \subseteq Int
      /\ \A x \in t.nodes : t.rng[x] \subseteq Key /\ Reaches(t.rng[x])
    BY KeysAreInts DEF Placed, Reaches
<1> HIDE DEF t2
<1>7. \A k \in t.rng[o] : k \in Key /\ k \in Int
    BY <1>2
<1>3. ASSUME t.lev[o] = 0 PROVE Behind(t2, o, q)
    <2>1. NextTo(t2, o, q)
        <3> SUFFICES ASSUME NEW j \in t2.rng[o], NEW i \in t2.rng[q]
                     PROVE  j < i /\ \A k \in Key : j < k /\ k < i => k \in t2.rng[o] \cup t2.rng[q]
            BY DEF NextTo
        <3>1. j \in t.rng[o] /\ j <= s /\ i \in t.rng[o] /\ i > s /\ j \in Int /\ i \in Int
            BY <1>1, <1>7
        <3>2. ASSUME NEW k \in Key, j < k, k < i PROVE k \in t2.rng[o] \cup t2.rng[q]
            <4>1. k \in t.rng[o]
                BY <3>1, <3>2, <1>2 DEF Reaches
            <4>2. k <= s \/ k > s
                BY <1>2, <1>7, <4>1
            <4> QED BY <4>1, <4>2, <1>1
        <3> QED BY <3>1, <3>2, <1>2
    <2> QED BY <2>1, <1>1, <1>3 DEF Behind
<1>4. ASSUME t.lev[o] = 0, NEW x, Behind(t, o, x) PROVE Behind(t2, q, x)
    <2>1. CASE x = 0
        <3> SUFFICES ASSUME NEW j \in t2.rng[q], NEW k \in Key, j < k PROVE k \in t2.rng[q]
            BY <2>1 DEF Behind
        <3>1. j \in t.rng[o] /\ j > s /\ j \in Int /\ k \in Int
            BY <1>1, <1>2, <1>7
        <3>2. k \in t.rng[o]
            BY <3>1, <2>1, <1>4 DEF Behind
        <3> QED BY <3>1, <3>2, <1>1, <1>2
    <2>2. CASE x # 0
        <3>1. x \in t.nodes /\ t.lev[x] = 0 /\ NextTo(t, o, x)
            BY <2>2, <1>4 DEF Behind
        <3>2. x # o
            <4>1. PICK k \in Key : k \in t.rng[o]
                BY <1>2 DEF Reaches
            <4>2. k \in Int
                BY <1>2
            <4> QED BY <4>1, <4>2, <3>1 DEF NextTo
        <3>3. NextTo(t2, q, x)
            <4> SUFFICES ASSUME NEW j \in t2.rng[q], NEW i \in t2.rng[x]
                         PROVE  j < i /\ \A k \in Key : j < k /\ k < i => k \in t2.rng[q] \cup t2.rng[x]
                BY DEF NextTo
            <4>1. j \in t.rng[o] /\ j > s /\ j \in Int /\ i \in t.rng[x] /\ t2.rng[x] = t.rng[x]
                BY <3>1, <3>2, <1>1, <1>7
            <4>2. ASSUME NEW k \in Key, j < k, k < i PROVE k \in t2.rng[q] \cup t2.rng[x]
                <5>1. k \in t.rng[o] \cup t.rng[x]
                    BY <4>1, <4>2, <3>1 DEF NextTo
                <5>2. k \in Int
                    BY <1>2
                <5>3. k > s
                    BY <5>2, <4>1, <4>2, <1>2
                <5> QED BY <5>1, <5>3, <4>1, <1>1
            <4> QED BY <4>1, <4>2, <3>1 DEF NextTo
        <3> QED BY <2>2, <3>1, <3>2, <3>3, <1>1 DEF Behind
    <2> QED BY <2>1, <2>2
<1>5. ASSUME NEW y \in t.nodes, t.lev[y] = 0, y # o, NEW x, Behind(t, y, x) PROVE Behind(t2, y, x)
    <2>1. CASE x = 0
        BY <2>1, <1>1, <1>5 DEF Behind
    <2>2. CASE x # 0 /\ x # o
        BY <2>2, <1>1, <1>5 DEF Behind, NextTo
    <2>3. CASE x # 0 /\ x = o
        <3>1. x \in t.nodes /\ t.lev[x] = 0 /\ NextTo(t, y, x)
            BY <2>3, <1>5 DEF Behind
        <3>2. ASSUME NEW j \in t.rng[y], NEW i \in t.rng[o], i <= s, NEW k \in Key, j < k, k < i
              PROVE  k \in t.rng[y] \/ (k \in t.rng[o] /\ k <= s)
            <4>1. k \in t.rng[y] \cup t.rng[o]
                BY <3>1, <3>2, <2>3 DEF NextTo
            <4>2. k \in Int /\ i \in Int
                BY <1>2, <1>7
            <4>3. k <= s
                BY <4>2, <3>2, <1>2
            <4> QED BY <4>1, <4>3
        <3>3. NextTo(t2, y, x)
            BY <3>1, <3>2, <2>3, <1>1, <1>5 DEF NextTo
        <3> QED BY <2>3, <3>1, <3>3, <1>1 DEF Behind
    <2> QED BY <2>1, <2>2, <2>3
<1>6. ASSUME NEW x \in t2.nodes, t2.lev[x] = 0 PROVE Behind(t2, x, Link(G2[x]))
    <2>1. CASE x = o
        BY <2>1, <1>1, <1>3, <1>6
    <2>2. CASE x = q
        BY <2>2, <1>1, <1>4, <1>6 DEF Linked
    <2>3. CASE x \in t.nodes /\ x # o
        BY <2>3, <1>1, <1>5, <1>6 DEF Linked
    <2> QED BY <2>1, <2>2, <2>3, <1>1
<1> QED BY <1>6 DEF Linked, t2

Divides(G, t, small, o, p, c, q, n, m, s) ==
    /\ IsTree(G, t, {o}, small) /\ small \subseteq {p}
    /\ o \in t.nodes /\ p \in t.nodes /\ t.lev[p] # 0
    /\ c \in 1 .. Len(G[p].kids) /\ G[p].kids[c] = o
    /\ CutAt(G[o], n, m) /\ s = G[o].keys[m]
    /\ q \in Nat \ {0} /\ q \notin t.nodes

LEMMA SplitFacts ==
    ASSUME NEW G, NEW t, NEW small, NEW o, NEW p, NEW c, NEW q,
           NEW n, NEW m, NEW s, Divides(G, t, small, o, p, c, q, n, m, s)
    PROVE  /\ s \in Key /\ s \in t.rng[o]
           /\ Last(G[o].keys) \in t.rng[o] /\ s < Last(G[o].keys)
           /\ Pos(G[p].keys, s) = c /\ Bounded(G[p].keys, c, s)
           /\ c <= Len(G[p].keys) => s < G[p].keys[c]
           /\ ~Holds(G[p], s)
           /\ p # o /\ o # t.root /\ t.lev[o] = t.lev[p] - 1
<1>1. /\ Placed(t) /\ Local(G, t, o) /\ Local(G, t, p) /\ o \in t.nodes /\ p \in t.nodes
      /\ t.lev[p] # 0 /\ c \in 1 .. Len(G[p].kids) /\ G[p].kids[c] = o /\ CutAt(G[o], n, m) /\ s = G[o].keys[m]
    BY DEF Divides, IsTree
<1>2. Formed(G[o]) /\ Formed(G[p]) /\ t.lev[o] = t.lev[p] - 1
    BY <1>1 DEF Local
<1>3. t.lev[p] \in Nat /\ t.lev[p] <= t.lev[t.root] /\ t.lev[t.root] \in Nat /\ t.rng[o] \subseteq Key
    BY <1>1 DEF Placed, Reaches
<1>4. p # o /\ o # t.root
    BY <1>2, <1>3
<1> DEFINE N == Len(G[o].keys)
<1>5. m \in 1 .. N /\ m < N /\ N \in 1 .. N /\ Last(G[o].keys) = G[o].keys[N]
    <2>1. m \in Nat /\ m >= 1 /\ m < N /\ N \in Nat
        <3>1. n >= 1 /\ n <= m /\ m < N /\ n \in Nat /\ m \in Nat /\ N \in Nat
            BY <1>1, <1>2, CutBetween
        <3> QED BY <3>1
    <2> QED BY <2>1 DEF Last
<1>6. s \in t.rng[o] /\ Last(G[o].keys) \in t.rng[o]
    BY <1>1, <1>5 DEF Local
<1>7. s < Last(G[o].keys)
    BY <1>1, <1>2, <1>5 DEF Formed, Sorted
<1>8. s \in Key /\ Last(G[o].keys) \in Key
    BY <1>3, <1>6
<1>9. Bounded(G[p].keys, c, s) /\ Bounded(G[p].keys, c, Last(G[o].keys))
    BY <1>1, <1>6, <1>8 DEF Local
<1>10. /\ G[p].keys \in Seq(Key) /\ Sorted(G[p].keys) /\ c \in 1 .. Len(G[p].keys) + 1
    BY <1>1, <1>2 DEF Formed
<1>11. Pos(G[p].keys, s) = c
    BY <1>8, <1>9, <1>10, PosBounds
<1>12. c <= Len(G[p].keys) => s < G[p].keys[c]
    <2> SUFFICES ASSUME c <= Len(G[p].keys) PROVE s < G[p].keys[c]
        OBVIOUS
    <2>1. G[p].keys[c] \in Key
        BY <1>10
    <2>2. Last(G[o].keys) <= G[p].keys[c]
        BY <1>9 DEF Bounded
    <2>3. s \in Int /\ Last(G[o].keys) \in Int /\ G[p].keys[c] \in Int
        BY <2>1, <1>8, KeysAreInts
    <2> QED BY <2>2, <2>3, <1>7
<1>13. ~Holds(G[p], s)
    <2> SUFFICES ASSUME Holds(G[p], s) PROVE FALSE
        OBVIOUS
    <2>1. PICK i \in 1 .. Len(G[p].keys) : G[p].keys[i] = s
        BY <1>2, <1>8, HoldsIs
    <2>2. i = c
        BY <2>1, <1>2, <1>8, <1>11, HoldsIs
    <2>3. s < s /\ s \in Int
        BY <2>1, <2>2, <1>12, <1>8, KeysAreInts
    <2> QED BY <2>3
<1> QED BY <1>2, <1>4, <1>6, <1>7, <1>8, <1>9, <1>11, <1>12, <1>13

(* Splitting a child that has a key too many gives the key to its parent.  *)
LEMMA SplitParent ==
    ASSUME NEW G, NEW t, NEW small, NEW o, NEW p, NEW c, NEW q,
           NEW n, NEW m, NEW s, Divides(G, t, small, o, p, c, q, n, m, s),
           NEW G2, Grows(G[p], G2[p], c, s, q)
    PROVE  Local(G2, SplitGhost(t, o, q, s), p) /\ Widens(G[p], G2[p], c, s, q)
<1> DEFINE t2 == SplitGhost(t, o, q, s)
           N == Len(G[p].keys)
<1>1. /\ IsTree(G, t, {o}, small) /\ Local(G, t, p) /\ Local(G, t, o) /\ o \in t.nodes /\ p \in t.nodes
      /\ t.lev[p] # 0 /\ c \in 1 .. Len(G[p].kids) /\ G[p].kids[c] = o
      /\ q \in Nat \ {0} /\ q \notin t.nodes
    BY DEF Divides, IsTree
<1>2. /\ s \in Key /\ s \in t.rng[o] /\ Pos(G[p].keys, s) = c /\ Bounded(G[p].keys, c, s)
      /\ c <= Len(G[p].keys) => s < G[p].keys[c]
      /\ ~Holds(G[p], s) /\ p # o /\ t.lev[o] = t.lev[p] - 1
    BY SplitFacts
<1>3. Formed(G[p]) /\ ~G[p].leaf /\ Len(G[p].kids) = N + 1 /\ N \in Nat /\ G[p].keys \in Seq(Key)
    BY <1>1 DEF Local, Formed
<1>4. Widens(G[p], G2[p], c, s, q)
    <2>1. Formed(G[p])
        BY <1>1 DEF Local
    <2> QED BY <2>1, <1>2, GrownSorted
<1> DEFINE w == G2[p]
<1>5. /\ Formed(w) /\ ~w.leaf /\ Len(w.keys) = N + 1 /\ c \in 1 .. N + 1
      /\ w.keys[c] = s
      /\ \A j \in 1 .. N : j < c => w.keys[j] = G[p].keys[j]
      /\ \A j \in 1 .. N : j >= c => w.keys[j + 1] = G[p].keys[j]
      /\ w.kids[c + 1] = q
      /\ \A j \in 1 .. N + 1 : j < c + 1 => w.kids[j] = G[p].kids[j]
      /\ \A j \in 1 .. N + 1 : j >= c + 1 => w.kids[j + 1] = G[p].kids[j]
    BY <1>3, <1>4 DEF Widens, Grows
<1>6. Len(w.kids) = N + 2
    BY <1>5, <1>3 DEF Formed
<1>7. /\ t2.nodes = t.nodes \cup {q} /\ t2.lev[q] = t.lev[o]
      /\ \A x \in t.nodes : t2.lev[x] = t.lev[x]
      /\ t2.rng[q] = {k \in t.rng[o] : k > s} /\ t2.rng[o] = {k \in t.rng[o] : k <= s}
      /\ \A x \in t.nodes : x # o => t2.rng[x] = t.rng[x]
    BY <1>1 DEF SplitGhost
<1> HIDE DEF t2, w
<1>8. ASSUME NEW i \in 1 .. N + 1 PROVE w.keys[i] \in t2.rng[p]
    <2>1. t2.rng[p] = t.rng[p] /\ \A j \in 1 .. N : G[p].keys[j] \in t.rng[p]
        BY <1>1, <1>2, <1>7 DEF Local
    <2>2. s \in t.rng[p]
        BY <1>1, <1>2 DEF Local
    <2>3. CASE i < c
        <3>1. i \in 1 .. N /\ w.keys[i] = G[p].keys[i]
            BY <2>3, <1>3, <1>5
        <3> QED BY <3>1, <2>1
    <2>4. CASE i > c
        <3>1. i - 1 \in 1 .. N /\ i - 1 >= c /\ (i - 1) + 1 = i
            BY <2>4, <1>3, <1>5
        <3>2. w.keys[i] = G[p].keys[i - 1]
            BY <3>1, <1>5
        <3> QED BY <3>1, <3>2, <2>1
    <2> QED BY <2>1, <2>2, <2>3, <2>4, <1>5
<1> DEFINE Fits(d) ==
              /\ w.kids[d] \in t2.nodes
              /\ t2.lev[w.kids[d]] = t2.lev[p] - 1
              /\ \A k \in Key : k \in t2.rng[w.kids[d]] <=> k \in t2.rng[p] /\ Bounded(w.keys, d, k)
<1>9. t2.lev[p] = t.lev[p] /\ t2.rng[p] = t.rng[p] /\ t2.lev[p] # 0
    BY <1>1, <1>2, <1>7
<1>10. ASSUME NEW d \in 1 .. N + 1, d # c
       PROVE  /\ G[p].kids[d] \in t.nodes /\ G[p].kids[d] # o
              /\ t2.lev[G[p].kids[d]] = t.lev[p] - 1 /\ t2.rng[G[p].kids[d]] = t.rng[G[p].kids[d]]
              /\ \A k \in Key : k \in t.rng[G[p].kids[d]] <=> k \in t.rng[p] /\ Bounded(G[p].keys, d, k)
    <2>1. G[p].kids[d] # o
        <3>1. d \in 1 .. Len(G[p].kids)
            BY <1>3
        <3> QED BY <3>1, <1>1, <1>10, OnePlace
    <2>2. /\ G[p].kids[d] \in t.nodes /\ t.lev[G[p].kids[d]] = t.lev[p] - 1
          /\ \A k \in Key : k \in t.rng[G[p].kids[d]] <=> k \in t.rng[p] /\ Bounded(G[p].keys, d, k)
        BY <1>1, <1>3 DEF Local
    <2> QED BY <2>1, <2>2, <1>7
<1>11. \A k \in Key : k \in t.rng[o] <=> k \in t.rng[p] /\ Bounded(G[p].keys, c, k)
    BY <1>1 DEF Local
<1>12. \A k \in Key :
           /\ \A d \in 1 .. N + 1 : d < c => (Bounded(w.keys, d, k) <=> Bounded(G[p].keys, d, k))
           /\ Bounded(w.keys, c, k) <=> Bounded(G[p].keys, c, k) /\ k <= s
           /\ Bounded(w.keys, c + 1, k) <=> Bounded(G[p].keys, c, k) /\ k > s
           /\ \A d \in 1 .. N + 1 : d > c => (Bounded(w.keys, d + 1, k) <=> Bounded(G[p].keys, d, k))
    <2>1. \A k \in Key : CutBounds(G[p].keys, G2[p].keys, c, s, k)
        BY <1>2, <1>3, <1>4, WidenedBounds
    <2> QED BY <2>1 DEF w, CutBounds
<1>13. ASSUME NEW d \in 1 .. N + 2 PROVE Fits(d)
    <2>1. CASE d < c
        <3>1. d \in 1 .. N + 1 /\ d # c /\ w.kids[d] = G[p].kids[d]
            BY <2>1, <1>3, <1>5
        <3> QED BY <3>1, <2>1, <1>7, <1>9, <1>10, <1>12
    <2>2. CASE d = c
        <3>1. w.kids[d] = o
            BY <2>2, <1>1, <1>5
        <3> QED BY <3>1, <2>2, <1>1, <1>2, <1>7, <1>9, <1>11, <1>12
    <2>3. CASE d = c + 1
        <3>1. w.kids[d] = q
            BY <2>3, <1>5
        <3> QED BY <3>1, <2>3, <1>1, <1>2, <1>7, <1>9, <1>11, <1>12
    <2>4. CASE d > c + 1
        <3>1. PICK e \in 1 .. N + 1 : e + 1 = d /\ e > c
            <4>1. d - 1 \in 1 .. N + 1 /\ (d - 1) + 1 = d /\ d - 1 > c
                BY <2>4, <1>3, <1>5
            <4> QED BY <4>1
        <3>2. w.kids[d] = G[p].kids[e] /\ e # c
            BY <3>1, <1>5
        <3>3. \A k \in Key : Bounded(w.keys, d, k) <=> Bounded(G[p].keys, e, k)
            BY <3>1, <1>12
        <3> QED BY <3>2, <3>3, <1>7, <1>9, <1>10
    <2> QED BY <2>1, <2>2, <2>3, <2>4, <1>3, <1>5
<1>14. Local(G2, t2, p)
    <2>1. w = G2[p]
        BY DEF w
    <2>2. \A d \in 1 .. Len(w.kids) : Fits(d)
        BY <1>6, <1>13
    <2>3. \A i \in 1 .. Len(w.keys) : w.keys[i] \in t2.rng[p]
        BY <1>5, <1>8
    <2> QED BY <2>1, <2>2, <2>3, <1>5, <1>9 DEF Local
<1> QED BY <1>4, <1>14 DEF t2

LEMMA SplitHalves ==
    ASSUME NEW G, NEW t, NEW small, NEW o, NEW p, NEW c, NEW q,
           NEW n, NEW m, NEW s, Divides(G, t, small, o, p, c, q, n, m, s),
           NEW G2, Cuts(G[o], G2[o], G2[q], n, m)
    PROVE  /\ Local(G2, SplitGhost(t, o, q, s), o) /\ Local(G2, SplitGhost(t, o, q, s), q)
           /\ Reaches(SplitGhost(t, o, q, s).rng[o]) /\ Reaches(SplitGhost(t, o, q, s).rng[q])
<1> DEFINE t2 == SplitGhost(t, o, q, s)
           w == G[o]
           N == Len(w.keys)
           l == G2[o]
           r == G2[q]
<1>1. /\ Placed(t) /\ Local(G, t, o) /\ o \in t.nodes /\ CutAt(w, n, m) /\ s = w.keys[m]
      /\ q \in Nat \ {0} /\ q \notin t.nodes
    BY DEF Divides, IsTree
<1>2. /\ s \in Key /\ s \in t.rng[o] /\ Last(w.keys) \in t.rng[o] /\ s < Last(w.keys)
    BY SplitFacts
<1>3. Formed(w) /\ w.leaf \in BOOLEAN /\ (w.leaf <=> t.lev[o] = 0) /\ t.lev[o] \in Nat
    BY <1>1 DEF Local, Formed, Placed
<1>6. q # o
    BY <1>1
<1>7. /\ t2.nodes = t.nodes \cup {q} /\ t2.lev[q] = t.lev[o]
      /\ \A x \in t.nodes : t2.lev[x] = t.lev[x]
      /\ t2.rng[q] = {k \in t.rng[o] : k > s} /\ t2.rng[o] = {k \in t.rng[o] : k <= s}
      /\ \A x \in t.nodes : x # o => t2.rng[x] = t.rng[x]
    BY <1>1 DEF SplitGhost
<1>8. s = w.keys[m] /\ n \in Nat /\ m \in 1 .. N /\ m < N /\ n < N /\ n <= m /\ N \in Nat
      /\ m = IF w.leaf THEN n ELSE n + 1
    <2>1. n >= 1 /\ n <= m /\ m < N /\ n < N /\ n \in Nat /\ m \in Nat /\ N \in Nat
        BY <1>1, <1>3, CutBetween
    <2> HIDE DEF N
    <2> QED BY <1>1, <2>1 DEF CutAt
<1>9. /\ Formed(l) /\ l.leaf = w.leaf /\ Len(l.keys) = n
      /\ \A i \in 1 .. n : l.keys[i] = w.keys[i]
      /\ \A i \in 1 .. m : l.kids[i] = w.kids[i]
    BY DEF Cuts
<1>10. /\ Formed(r) /\ r.leaf = w.leaf /\ Len(r.keys) = N - m
       /\ \A i \in 1 .. N - m : r.keys[i] = w.keys[m + i]
       /\ \A i \in 1 .. N + 1 - m : r.kids[i] = w.kids[m + i]
    BY DEF Cuts
<1>17. Len(w.keys) = N
    OBVIOUS
<1> HIDE DEF t2, N, l, r
<1>11. /\ \A i \in 1 .. N : w.keys[i] \in t.rng[o] /\ w.keys[i] \in Key
       /\ \A i, j \in 1 .. N : i < j => w.keys[i] < w.keys[j]
       /\ t.rng[o] \subseteq Key /\ Len(w.kids) = N + 1
    BY <1>1, <1>3 DEF Local, Placed, Reaches, Formed, Sorted, N
<1>12. s \in Int /\ \A i \in 1 .. N : w.keys[i] \in Int
    BY <1>2, <1>11, KeysAreInts
<1>13. ASSUME t.lev[o] # 0, NEW i \in 1 .. N + 1
       PROVE  /\ w.kids[i] \in t.nodes /\ w.kids[i] # o /\ w.kids[i] # q
              /\ t2.lev[w.kids[i]] = t.lev[o] - 1 /\ t2.rng[w.kids[i]] = t.rng[w.kids[i]]
              /\ \A k \in Key : k \in t.rng[w.kids[i]] <=> k \in t.rng[o] /\ Bounded(w.keys, i, k)
    <2>1. /\ w.kids[i] \in t.nodes /\ t.lev[w.kids[i]] = t.lev[o] - 1
          /\ \A k \in Key : k \in t.rng[w.kids[i]] <=> k \in t.rng[o] /\ Bounded(w.keys, i, k)
        BY <1>1, <1>11, <1>13 DEF Local
    <2>2. w.kids[i] # o /\ w.kids[i] # q
        BY <2>1, <1>1, <1>3
    <2> QED BY <2>1, <2>2, <1>7
<1>14. Local(G2, t2, o)
    <2>1. ASSUME NEW i \in 1 .. n PROVE l.keys[i] \in t2.rng[o]
        <3>1. i \in 1 .. N /\ (i = m \/ i < m)
            BY <1>8
        <3>2. w.keys[i] <= s
            BY <3>1, <1>8, <1>11, <1>12
        <3> QED BY <3>1, <3>2, <1>7, <1>9, <1>11
    <2>2. ASSUME t.lev[o] # 0, NEW i \in 1 .. n + 1
          PROVE  /\ l.kids[i] \in t2.nodes /\ t2.lev[l.kids[i]] = t.lev[o] - 1
                 /\ \A k \in Key : k \in t2.rng[l.kids[i]] <=> k \in t2.rng[o] /\ Bounded(l.keys, i, k)
        <3>1. i \in 1 .. N + 1 /\ i \in 1 .. m /\ l.kids[i] = w.kids[i] /\ m = n + 1
            BY <2>2, <1>3, <1>8, <1>9
        <3>2. ASSUME NEW k \in Key
              PROVE  k \in t.rng[o] /\ Bounded(w.keys, i, k) <=> k \in t2.rng[o] /\ Bounded(l.keys, i, k)
            <4>1. k \in t2.rng[o] <=> k \in t.rng[o] /\ k <= s
                BY <1>7
            <4>2. i > 1 => l.keys[i - 1] = w.keys[i - 1]
                BY <2>2, <1>8, <1>9
            <4>3. k \in Int
                BY KeysAreInts
            <4>4. CASE i = n + 1
                <5>1. w.keys[i] = s /\ i <= N /\ ~(i <= n)
                    BY <4>4, <3>1, <1>8
                <5> QED BY <5>1, <4>1, <4>2, <1>9, <1>17 DEF Bounded
            <4>5. CASE i <= n
                <5>1. l.keys[i] = w.keys[i] /\ i <= N /\ i \in 1 .. N /\ i < m
                    BY <4>5, <3>1, <1>8, <1>9
                <5>2. w.keys[i] < s
                    BY <5>1, <1>8, <1>11
                <5>3. w.keys[i] \in Int /\ s \in Int /\ Len(l.keys) = n /\ Len(w.keys) = N
                    BY <5>1, <1>17, <1>9, <1>12
                <5>4. Bounded(w.keys, i, k) <=> Bounded(l.keys, i, k)
                    BY <5>1, <5>3, <4>2, <4>5 DEF Bounded
                <5>5. Bounded(w.keys, i, k) => k <= s
                    BY <5>1, <5>2, <5>3, <4>3 DEF Bounded
                <5> QED BY <5>4, <5>5, <4>1
            <4> QED BY <4>4, <4>5, <1>8
        <3> QED BY <3>1, <3>2, <2>2, <1>7, <1>13
    <2>3. t2.lev[o] = t.lev[o] /\ Len(l.kids) = n + 1
        BY <1>1, <1>7, <1>9 DEF Formed
    <2>4. G2[o] = l
        BY DEF l
    <2>5. l.leaf <=> t2.lev[o] = 0
        BY <2>3, <1>3, <1>9
    <2> QED BY <2>1, <2>2, <2>3, <2>4, <2>5, <1>9 DEF Local
<1>15. Local(G2, t2, q)
    <2>1. ASSUME NEW i \in 1 .. N - m PROVE r.keys[i] \in t2.rng[q]
        <3>1. m + i \in 1 .. N /\ m < m + i
            BY <1>8
        <3>2. w.keys[m + i] > s
            BY <3>1, <1>8, <1>11, <1>12
        <3> QED BY <3>1, <3>2, <1>7, <1>10, <1>11
    <2>2. ASSUME t.lev[o] # 0, NEW i \in 1 .. N + 1 - m
          PROVE  /\ r.kids[i] \in t2.nodes /\ t2.lev[r.kids[i]] = t.lev[o] - 1
                 /\ \A k \in Key : k \in t2.rng[r.kids[i]] <=> k \in t2.rng[q] /\ Bounded(r.keys, i, k)
        <3> DEFINE j == m + i
        <3>1. j \in 1 .. N + 1 /\ j > 1 /\ r.kids[i] = w.kids[j]
            BY <1>8, <1>10
        <3>2. ASSUME NEW k \in Key
              PROVE  k \in t.rng[o] /\ Bounded(w.keys, j, k) <=> k \in t2.rng[q] /\ Bounded(r.keys, i, k)
            <4>1. k \in t2.rng[q] <=> k \in t.rng[o] /\ k > s
                BY <1>7
            <4>2. i <= N - m <=> j <= N
                BY <1>8
            <4>3. i <= N - m => r.keys[i] = w.keys[j]
                BY <1>8, <1>10
            <4>4. CASE i = 1
                <5>1. j - 1 = m
                    BY <4>4, <1>8
                <5> QED BY <5>1, <4>1, <4>2, <4>3, <4>4, <3>1, <1>17, <1>8, <1>10, KeysAreInts, <1>12 DEF Bounded
            <4>5. CASE i > 1
                <5>1. i - 1 \in 1 .. N - m /\ m + (i - 1) = j - 1 /\ j - 1 \in 1 .. N /\ m < j - 1
                    BY <4>5, <1>8
                <5>2. r.keys[i - 1] = w.keys[j - 1] /\ w.keys[j - 1] > s /\ w.keys[j - 1] \in Int
                    BY <5>1, <1>8, <1>10, <1>11, <1>12
                <5>3. k \in Int
                    BY KeysAreInts
                <5> HIDE DEF j
                <5>4. s \in Int /\ Len(r.keys) = N - m /\ Len(w.keys) = N /\ j > 1
                    BY <3>1, <1>17, <1>10, <1>12
                <5>5. Bounded(w.keys, j, k) <=> Bounded(r.keys, i, k)
                    BY <5>2, <5>4, <4>2, <4>3, <4>5 DEF Bounded
                <5>6. Bounded(w.keys, j, k) => k > s
                    BY <5>2, <5>3, <5>4 DEF Bounded
                <5> QED BY <5>5, <5>6, <4>1
            <4> QED BY <4>4, <4>5
        <3> HIDE DEF j
        <3> QED BY <3>1, <3>2, <2>2, <1>7, <1>13
    <2>3. t2.lev[q] = t.lev[o] /\ Len(r.kids) = N + 1 - m
        BY <1>7, <1>8, <1>10 DEF Formed
    <2>4. G2[q] = r
        BY DEF r
    <2>5. r.leaf <=> t2.lev[q] = 0
        BY <2>3, <1>3, <1>10
    <2> QED BY <2>1, <2>2, <2>3, <2>4, <2>5, <1>10 DEF Local
<1>16. Reaches(t2.rng[o]) /\ Reaches(t2.rng[q])
    <2>1. Reaches(t.rng[o])
        BY <1>1 DEF Placed
    <2>2. s \in t2.rng[o] /\ Last(w.keys) \in t2.rng[q]
        BY <1>2, <1>7, <1>12
    <2>3. t.rng[o] \subseteq Int
        BY <1>11, KeysAreInts
    <2>4. ASSUME NEW a \in t.rng[o], NEW b \in t.rng[o], NEW k \in Key, a < k, k < b
          PROVE  k \in t.rng[o] /\ (b <= s => k <= s) /\ (a > s => k > s)
        BY <2>1, <2>3, <2>4, <1>12, KeysAreInts DEF Reaches
    <2>5. Reaches(t2.rng[o])
        BY <2>2, <2>4, <1>7, <1>11 DEF Reaches
    <2>6. Reaches(t2.rng[q])
        BY <2>2, <2>4, <1>7, <1>11 DEF Reaches
    <2> QED BY <2>5, <2>6
<1> QED BY <1>14, <1>15, <1>16 DEF t2

-----------------------------------------------------------------------------
(* What the leaves hold.                                                   *)

Keeps(node, k, v) == \E i \in 1 .. Len(node.keys) : node.keys[i] = k /\ node.kids[i] = v
Entry(G, t, k, v) == \E o \in t.nodes : t.lev[o] = 0 /\ Keeps(G[o], k, v)
SameEntries(G, t, G2, t2) == \A k, v : Entry(G2, t2, k, v) <=> Entry(G, t, k, v)

LEMMA RepotEntries ==
    ASSUME NEW G, NEW t, NEW big, NEW small, IsTree(G, t, big, small),
           NEW G2, NEW t2, NEW p, NEW K, NEW K2, Repotted(G, t, G2, t2, p, K, K2),
           t.lev[p] = 1 => \A k, v : (\E y \in K2 : Keeps(G2[y], k, v)) <=> (\E x \in K : Keeps(G[x], k, v))
    PROVE  SameEntries(G, t, G2, t2)
<1>1. /\ p \in t.nodes /\ t.lev[p] # 0 /\ t.lev[p] \in Nat /\ Placed(t) /\ \A o \in t.nodes : Local(G, t, o)
    BY DEF IsTree, Repotted, Placed
<1>2. \A y \in K : y \in t.nodes /\ t.lev[y] = t.lev[p] - 1
    BY <1>1 DEF Local, Repotted
<1>3. \A y \in K2 : y \in t2.nodes /\ t2.lev[y] = t.lev[p] - 1
    BY DEF Repotted
<1>4. \A x \in t.nodes \ K : x \in t2.nodes /\ t2.lev[x] = t.lev[x] /\ (t.lev[x] = 0 => G2[x] = G[x])
    BY <1>1 DEF Repotted
<1>5. t2.nodes = (t.nodes \ K) \cup K2
    BY DEF Repotted
<1>6. t.lev[p] - 1 = 0 <=> t.lev[p] = 1
    BY <1>1
<1> SUFFICES ASSUME NEW k, NEW v PROVE Entry(G2, t2, k, v) <=> Entry(G, t, k, v)
    BY DEF SameEntries
<1>7. ASSUME Entry(G2, t2, k, v) PROVE Entry(G, t, k, v)
    <2>1. PICK o \in t2.nodes : t2.lev[o] = 0 /\ Keeps(G2[o], k, v)
        BY <1>7 DEF Entry
    <2>2. CASE o \in K2
        <3>1. PICK x \in K : Keeps(G[x], k, v)
            BY <2>1, <2>2, <1>3, <1>6
        <3> QED BY <3>1, <2>1, <2>2, <1>2, <1>3 DEF Entry
    <2>3. CASE o \in t.nodes \ K
        BY <2>1, <2>3, <1>4 DEF Entry
    <2> QED BY <2>2, <2>3, <1>5
<1>8. ASSUME Entry(G, t, k, v) PROVE Entry(G2, t2, k, v)
    <2>1. PICK o \in t.nodes : t.lev[o] = 0 /\ Keeps(G[o], k, v)
        BY <1>8 DEF Entry
    <2>2. CASE o \in K
        <3>1. PICK y \in K2 : Keeps(G2[y], k, v)
            BY <2>1, <2>2, <1>2, <1>6
        <3> QED BY <3>1, <2>1, <2>2, <1>2, <1>3 DEF Entry
    <2>3. CASE o \in t.nodes \ K
        BY <2>1, <2>3, <1>4 DEF Entry
    <2> QED BY <2>2, <2>3
<1> QED BY <1>7, <1>8

SplitMap(G, t, G2, o, p, c, q, n, m, s) ==
    /\ Cuts(G[o], G2[o], G2[q], n, m) /\ Grows(G[p], G2[p], c, s, q)
    /\ G[o].leaf => Link(G2[o]) = q
    /\ \A x \in t.nodes : x # o /\ x # p => G2[x] = G[x]

LEMMA SplitOff ==
    ASSUME NEW G, NEW t, NEW small, NEW o, NEW p, NEW c, NEW q,
           NEW n, NEW m, NEW s, Divides(G, t, small, o, p, c, q, n, m, s),
           NEW G2, SplitMap(G, t, G2, o, p, c, q, n, m, s)
    PROVE  /\ IsTree(G2, SplitGhost(t, o, q, s), {p}, {})
           /\ SameEntries(G, t, G2, SplitGhost(t, o, q, s))
<1> DEFINE t2 == SplitGhost(t, o, q, s)
           w == G[o]
<1>1. /\ IsTree(G, t, {o}, small) /\ small \subseteq {p} /\ Placed(t) /\ o \in t.nodes /\ p \in t.nodes
      /\ t.lev[p] # 0 /\ c \in 1 .. Len(G[p].kids) /\ G[p].kids[c] = o /\ CutAt(w, n, m) /\ s = w.keys[m]
      /\ q \in Nat \ {0} /\ q \notin t.nodes /\ Local(G, t, o) /\ Local(G, t, p)
    BY DEF Divides, IsTree
<1>2. /\ s \in Key /\ p # o /\ o # t.root /\ t.lev[o] = t.lev[p] - 1
    BY SplitFacts
<1>3. Local(G2, t2, p) /\ Widens(G[p], G2[p], c, s, q)
    BY SplitParent DEF SplitMap
<1>4. Local(G2, t2, o) /\ Local(G2, t2, q) /\ Reaches(t2.rng[o]) /\ Reaches(t2.rng[q])
    BY SplitHalves DEF SplitMap
<1>5. /\ t2.nodes = t.nodes \cup {q} /\ t2.lev[q] = t.lev[o] /\ t2.root = t.root
      /\ \A x \in t.nodes : t2.lev[x] = t.lev[x]
      /\ t2.rng[q] = {k \in t.rng[o] : k > s} /\ t2.rng[o] = {k \in t.rng[o] : k <= s}
      /\ \A x \in t.nodes : x # o => t2.rng[x] = t.rng[x]
    BY <1>1 DEF SplitGhost
<1>6. t.rng[o] \subseteq Int /\ s \in Int
    BY <1>1, <1>2, KeysAreInts DEF Placed, Reaches
<1>7. Cuts(w, G2[o], G2[q], n, m)
    BY DEF SplitMap
<1>8. CutAt(w, n, m) /\ Formed(w)
    BY <1>1 DEF Local
<1> HIDE DEF t2, w
<1>9. Repotted(G, t, G2, t2, p, {o}, {o, q})
    <2>1. \A y \in {o} : \E d \in 1 .. Len(G[p].kids) : y = G[p].kids[d]
        BY <1>1
    <2>2. t2.rng[o] \cap t2.rng[q] = {}
        BY <1>5, <1>6
    <2>3. \A y \in {o, q} : \A k \in t2.rng[y] : \E x \in {o} : k \in t.rng[x]
        BY <1>5
    <2>4. t2.nodes = (t.nodes \ {o}) \cup {o, q} /\ {o, q} \subseteq Nat \ {0}
        BY <1>1, <1>5 DEF Placed
    <2>5. \A y \in {o, q} : t2.lev[y] = t.lev[p] - 1 /\ Reaches(t2.rng[y])
        BY <1>1, <1>2, <1>4, <1>5
    <2>6. \A y, z \in {o, q} : y # z => t2.rng[y] \cap t2.rng[z] = {}
        BY <2>2
    <2> QED BY <2>1, <2>3, <2>4, <2>5, <2>6, <1>1, <1>2, <1>5 DEF Repotted, SplitMap
<1>10. ASSUME NEW x \in t2.nodes PROVE Sized(G2[x], x, t2.root, {p}, {})
    <2>1. CASE x \in {o, q}
        <3>1. x # t.root /\ x # p
            BY <2>1, <1>1, <1>2 DEF Placed
        <3>2. /\ Len(G2[x].keys) <= MaxKeys /\ G2[x].leaf = w.leaf
              /\ Len(G2[x].keys) >= MinKeys(w)
            BY <2>1, <1>7, <1>8 DEF Cuts, CutAt
        <3>3. Len(G2[x].keys) \in Nat /\ MinKeys(G2[x]) = MinKeys(w) /\ MinKeys(w) \in Nat
            BY <2>1, <3>2, <1>7, Orders DEF Cuts, Formed, MinKeys
        <3> QED BY <3>1, <3>2, <3>3, <1>5 DEF Sized
    <2>2. CASE x = p
        <3>1. Len(G2[p].keys) = Len(G[p].keys) + 1 /\ MinKeys(G2[p]) = MinKeys(G[p]) /\ Len(G[p].keys) \in Nat
              /\ MinKeys(G[p]) \in Nat
            BY <1>1, <1>3, Orders DEF Widens, Grows, MinKeys, Local, Formed
        <3>2. Sized(G[p], p, t.root, {o}, small)
            BY <1>1 DEF IsTree
        <3>3. Len(G2[p].keys) >= IF p = t.root THEN 1 ELSE MinKeys(G2[p])
            <4>2. PICK e \in {0, 1} : Len(G[p].keys) + e >= IF p = t.root THEN 1 ELSE MinKeys(G[p])
                BY <3>2 DEF Sized
            <4>3. Len(G[p].keys) + 1 >= IF p = t.root THEN 1 ELSE MinKeys(G[p])
                BY <4>2, <3>1
            <4> QED BY <4>3, <3>1
        <3>4. Len(G2[p].keys) \in Nat /\ p \notin {}
            BY <3>1
        <3> QED BY <3>3, <3>4, <2>2, <1>5 DEF Sized
    <2>3. CASE x \in t.nodes /\ x # o /\ x # p
        <3>1. Sized(G[x], x, t.root, {o}, small) /\ G2[x] = G[x] /\ x \notin small
            BY <2>3, <1>1 DEF IsTree, SplitMap
        <3> QED BY <3>1, <2>3, <1>5 DEF Sized
    <2> QED BY <2>1, <2>2, <2>3, <1>5
<1>11. \A x \in {o, q} \cup {p} : Local(G2, t2, x)
    BY <1>3, <1>4 DEF t2
<1>15. Linked(G2, t2)
    <2>1. w.leaf => Link(G2[o]) = q /\ Link(G2[q]) = Link(w)
        <3> SUFFICES ASSUME w.leaf PROVE Link(G2[q]) = Link(w)
            BY DEF SplitMap, w
        <3>1. n \in Nat /\ n < Len(w.keys) /\ Len(w.keys) \in Nat
            BY <1>8, CutBetween
        <3>2. m = n
            BY <1>8 DEF CutAt
        <3>3. PICK i \in 1 .. Len(w.keys) + 1 - m : m + i = Len(w.keys) + 1 /\ i = Len(w.keys) - m + 1
            <4>1. Len(w.keys) - m + 1 \in 1 .. Len(w.keys) + 1 - m
                BY <3>1, <3>2
            <4>2. m + (Len(w.keys) - m + 1) = Len(w.keys) + 1
                BY <3>1, <3>2
            <4> QED BY <4>1, <4>2
        <3>4. G2[q].kids[i] = w.kids[m + i] /\ Len(G2[q].keys) = Len(w.keys) - m
            BY <1>7, <3>3 DEF Cuts
        <3> QED BY <3>3, <3>4 DEF Link
    <2>2. t.lev[o] = 0 <=> w.leaf
        BY <1>1 DEF Local, w
    <2>3. \A x \in t.nodes : t.lev[x] = 0 /\ x # o => Link(G2[x]) = Link(G[x])
        BY <1>1 DEF SplitMap
    <2>4. Linked(G, t)
        BY <1>1 DEF IsTree
    <2>5. Reaches(t2.rng[o]) /\ Reaches(t2.rng[q]) /\ q \in Nat \ {0} /\ q \notin t.nodes /\ o \in t.nodes
          /\ Placed(t) /\ s \in Key
        BY <1>1, <1>2, <1>4
    <2>6. t.lev[o] = 0 => Link(G2[o]) = q /\ Link(G2[q]) = Link(G[o])
        BY <2>1, <2>2 DEF w
    <2> QED BY <2>3, <2>4, <2>5, <2>6, SplitLinked DEF t2
<1>12. IsTree(G2, t2, {p}, {})
    BY <1>1, <1>9, <1>10, <1>11, <1>15, Repot
<1>13. t.lev[p] = 1 => \A k, v : (\E y \in {o, q} : Keeps(G2[y], k, v)) <=> (\E x \in {o} : Keeps(G[x], k, v))
    <2> SUFFICES ASSUME t.lev[p] = 1, NEW k, NEW v
                 PROVE  Keeps(G2[o], k, v) \/ Keeps(G2[q], k, v) <=> Keeps(w, k, v)
        BY DEF w
    <2>1. w.leaf
        BY <1>1, <1>2 DEF Local, w
    <2> DEFINE N == Len(w.keys)
    <2>2. m = n /\ n \in Nat /\ n < N /\ N \in Nat
        <3>1. n \in Nat /\ n < N /\ N \in Nat
            BY <1>8, CutBetween
        <3> QED BY <3>1, <2>1, <1>8 DEF CutAt
    <2>3. /\ Len(G2[o].keys) = n
          /\ \A i \in 1 .. n : G2[o].keys[i] = w.keys[i] /\ G2[o].kids[i] = w.kids[i]
          /\ Len(G2[q].keys) = N - n
          /\ \A i \in 1 .. N - n : G2[q].keys[i] = w.keys[n + i]
          /\ \A i \in 1 .. N + 1 - n : G2[q].kids[i] = w.kids[n + i]
        BY <2>2, <1>7 DEF Cuts, N
    <2> HIDE DEF N
    <2>4. ASSUME Keeps(G2[o], k, v) PROVE Keeps(w, k, v)
        <3>1. PICK i \in 1 .. n : G2[o].keys[i] = k /\ G2[o].kids[i] = v
            BY <2>3, <2>4 DEF Keeps, N
        <3>2. i \in 1 .. N
            BY <2>2, <1>8
        <3> QED BY <3>1, <3>2, <2>2, <2>3 DEF Keeps, N
    <2>5. ASSUME Keeps(G2[q], k, v) PROVE Keeps(w, k, v)
        <3>1. PICK i \in 1 .. N - n : G2[q].keys[i] = k /\ G2[q].kids[i] = v
            BY <2>3, <2>5 DEF Keeps, N
        <3>2. n + i \in 1 .. N /\ i \in 1 .. N + 1 - n
            BY <2>2, <1>8
        <3> QED BY <3>1, <3>2, <2>2, <2>3 DEF Keeps, N
    <2>6. ASSUME Keeps(w, k, v) PROVE Keeps(G2[o], k, v) \/ Keeps(G2[q], k, v)
        <3>1. PICK i \in 1 .. N : w.keys[i] = k /\ w.kids[i] = v
            BY <2>2, <2>6 DEF Keeps, N
        <3>2. CASE i <= n
            <4>1. i \in 1 .. n
                BY <3>2, <2>2
            <4> QED BY <4>1, <3>1, <2>3 DEF Keeps, N
        <3>3. CASE i > n
            <4>1. PICK j \in 1 .. N - n : n + j = i /\ j \in 1 .. N + 1 - n
                <5>1. i - n \in 1 .. N - n /\ n + (i - n) = i /\ i - n \in 1 .. N + 1 - n
                    BY <3>3, <2>2, <1>8
                <5> QED BY <5>1
            <4>2. G2[q].keys[j] = k /\ G2[q].kids[j] = v
                BY <4>1, <3>1, <2>3
            <4> QED BY <4>1, <4>2, <2>3 DEF Keeps, N
        <3> QED BY <3>2, <3>3, <2>2, <1>8
    <2> QED BY <2>4, <2>5, <2>6
<1>14. SameEntries(G, t, G2, t2)
    BY <1>1, <1>9, <1>13, RepotEntries
<1> QED BY <1>12, <1>14 DEF t2

-----------------------------------------------------------------------------
(* Two neighbours joined, the separator taken from their parent: the other *)
(* way round.                                                              *)

MergeGhost(t, o, q) ==
    [nodes |-> t.nodes \ {q}, root |-> t.root,
     lev |-> [x \in t.nodes \ {q} |-> t.lev[x]],
     rng |-> [x \in t.nodes \ {q} |-> IF x = o THEN t.rng[o] \cup t.rng[q] ELSE t.rng[x]]]

NodeType(node) ==
    node \in [leaf : BOOLEAN, keys : Seq(Key), kids : Seq(Kid)] /\ Len(node.kids) = Len(node.keys) + 1

Joins(G, t, small, o, p, c, q, G2, n, m, s) ==
    /\ IsTree(G, t, {}, small) /\ small \subseteq {o, q}
    /\ p \in t.nodes /\ t.lev[p] # 0 /\ c \in 1 .. Len(G[p].keys)
    /\ G[p].kids[c] = o /\ G[p].kids[c + 1] = q /\ G[p].keys[c] = s
    /\ NodeType(G2[o]) /\ Cuts(G2[o], G[o], G[q], n, m) /\ m = IF G2[o].leaf THEN n ELSE n + 1
    /\ ~G2[o].leaf => G2[o].keys[m] = s
    /\ Len(G2[o].keys) >= MinKeys(G2[o])
    /\ NodeType(G2[p]) /\ Grows(G2[p], G[p], c, s, q)
    /\ \A x \in t.nodes : x # o /\ x # p => G2[x] = G[x]

LEMMA Shrunk ==
    ASSUME NEW a, NodeType(a), NEW b, Formed(b), NEW c, NEW s \in Key, NEW q, Grows(a, b, c, s, q)
    PROVE  /\ Formed(a) /\ Bounded(a.keys, c, s) /\ Widens(a, b, c, s, q)
           /\ c <= Len(a.keys) => s < a.keys[c]
<1> DEFINE n == Len(a.keys)
<1>1. /\ n \in Nat /\ Len(b.keys) = n + 1 /\ c \in 1 .. n + 1 /\ b.keys[c] = s
      /\ \A j \in 1 .. n : j < c => b.keys[j] = a.keys[j]
      /\ \A j \in 1 .. n : j >= c => b.keys[j + 1] = a.keys[j]
      /\ \A i, j \in 1 .. n + 1 : i < j => b.keys[i] < b.keys[j]
    <2>1. n \in Nat
        BY DEF NodeType
    <2>2. Len(b.keys) = n + 1
        BY DEF Grows
    <2> HIDE DEF n
    <2> QED BY <2>1, <2>2 DEF Grows, Formed, Sorted, n
<1> HIDE DEF n
<1>2. ASSUME NEW i \in 1 .. n, NEW j \in 1 .. n, i < j PROVE a.keys[i] < a.keys[j]
    <2>1. CASE j < c
        <3>1. i < c /\ i \in 1 .. n + 1 /\ j \in 1 .. n + 1
            BY <2>1, <1>1, <1>2
        <3> QED BY <3>1, <2>1, <1>1, <1>2
    <2>2. CASE i < c /\ j >= c
        <3>1. i \in 1 .. n + 1 /\ j + 1 \in 1 .. n + 1 /\ i < j + 1
            BY <2>2, <1>1, <1>2
        <3> QED BY <3>1, <2>2, <1>1, <1>2
    <2>3. CASE i >= c
        <3>1. j >= c /\ i + 1 \in 1 .. n + 1 /\ j + 1 \in 1 .. n + 1 /\ i + 1 < j + 1
            BY <2>3, <1>1, <1>2
        <3> QED BY <3>1, <2>3, <1>1, <1>2
    <2> QED BY <2>1, <2>2, <2>3, <1>1
<1>3. c > 1 => a.keys[c - 1] < s
    <2> SUFFICES ASSUME c > 1 PROVE a.keys[c - 1] < s
        OBVIOUS
    <2>1. c - 1 \in 1 .. n /\ c - 1 < c /\ c - 1 \in 1 .. n + 1
        BY <1>1
    <2>2. b.keys[c - 1] = a.keys[c - 1]
        BY <2>1, <1>1
    <2>3. b.keys[c - 1] < b.keys[c]
        BY <2>1, <1>1
    <2> QED BY <2>2, <2>3, <1>1
<1>4. c <= n => s < a.keys[c]
    <2> SUFFICES ASSUME c <= n PROVE s < a.keys[c]
        OBVIOUS
    <2>1. c + 1 \in 1 .. n + 1 /\ c < c + 1 /\ c \in 1 .. n
        BY <1>1
    <2>2. b.keys[c + 1] = a.keys[c]
        BY <2>1, <1>1
    <2>3. b.keys[c] < b.keys[c + 1]
        BY <2>1, <1>1
    <2> QED BY <2>2, <2>3, <1>1
<1>5. Bounded(a.keys, c, s)
    <2>1. c <= n => s <= a.keys[c]
        <3> SUFFICES ASSUME c <= n PROVE s <= a.keys[c]
            OBVIOUS
        <3>1. a.keys[c] \in Key
            BY <1>1 DEF NodeType, n
        <3> QED BY <3>1, <1>4, KeysAreInts
    <2> QED BY <2>1, <1>3 DEF Bounded, n
<1>6. Formed(a)
    BY <1>2 DEF Formed, Sorted, NodeType, n
<1> QED BY <1>4, <1>5, <1>6 DEF Widens, n

LEMMA BoundedBetween ==
    ASSUME NEW keys \in Seq(Key), NEW c \in 1 .. Len(keys) + 1, NEW a \in Key, NEW b \in Key, NEW k \in Key,
           a < k, k < b, Bounded(keys, c, a), Bounded(keys, c, b)
    PROVE  Bounded(keys, c, k)
<1>1. a \in Int /\ b \in Int /\ k \in Int /\ Len(keys) \in Nat
    BY KeysAreInts
<1>2. c > 1 => keys[c - 1] < k
    <2> SUFFICES ASSUME c > 1 PROVE keys[c - 1] < k
        OBVIOUS
    <2>1. c - 1 \in 1 .. Len(keys)
        BY <1>1
    <2>2. keys[c - 1] \in Key
        BY <2>1
    <2>3. keys[c - 1] \in Int /\ keys[c - 1] < a
        BY <2>2, KeysAreInts DEF Bounded
    <2> QED BY <2>3, <1>1
<1>3. c <= Len(keys) => k <= keys[c]
    <2> SUFFICES ASSUME c <= Len(keys) PROVE k <= keys[c]
        OBVIOUS
    <2>2. keys[c] \in Key
        BY <1>1
    <2>3. keys[c] \in Int /\ b <= keys[c]
        BY <2>2, KeysAreInts DEF Bounded
    <2> QED BY <2>3, <1>1
<1> QED BY <1>2, <1>3 DEF Bounded

Neighbours(t, o, p, c, q, a, s) ==
    /\ s \in Key /\ s \in t.rng[o] /\ s \in t.rng[p]
    /\ o \in t.nodes /\ q \in t.nodes /\ o # q /\ p # o /\ p # q /\ t.root # o /\ t.root # q
    /\ t.lev[o] = t.lev[p] - 1 /\ t.lev[q] = t.lev[o]
    /\ \A k \in t.rng[o] : k <= s
    /\ \A k \in t.rng[q] : k > s
    /\ Formed(a) /\ c \in 1 .. Len(a.keys) + 1
    /\ \A k \in Key : k \in t.rng[o] \cup t.rng[q] <=> k \in t.rng[p] /\ Bounded(a.keys, c, k)
    /\ Reaches(t.rng[o] \cup t.rng[q])
LEMMA MergeFacts ==
    ASSUME NEW G, NEW t, NEW small, NEW o, NEW p, NEW c, NEW q, NEW G2, NEW n, NEW m, NEW s,
           Joins(G, t, small, o, p, c, q, G2, n, m, s)
    PROVE  Neighbours(t, o, p, c, q, G2[p], s)
<1>1. /\ IsTree(G, t, {}, small) /\ Placed(t) /\ Local(G, t, p) /\ p \in t.nodes /\ t.lev[p] # 0
      /\ c \in 1 .. Len(G[p].keys) /\ G[p].kids[c] = o /\ G[p].kids[c + 1] = q /\ G[p].keys[c] = s
      /\ NodeType(G2[p]) /\ Grows(G2[p], G[p], c, s, q)
    BY DEF Joins, IsTree
<1>2. Formed(G[p]) /\ s \in t.rng[p] /\ t.rng[p] \subseteq Key /\ Len(G[p].keys) \in Nat
    BY <1>1 DEF Local, Placed, Reaches, Formed
<1>3. s \in Key
    BY <1>2
<1>4. /\ c \in 1 .. Len(G[p].kids) /\ c + 1 \in 1 .. Len(G[p].kids) /\ c # c + 1
    BY <1>1, <1>2 DEF Formed
<1>5. /\ o \in t.nodes /\ q \in t.nodes /\ t.lev[o] = t.lev[p] - 1 /\ t.lev[q] = t.lev[p] - 1
      /\ \A k \in Key : k \in t.rng[o] <=> k \in t.rng[p] /\ Bounded(G[p].keys, c, k)
      /\ \A k \in Key : k \in t.rng[q] <=> k \in t.rng[p] /\ Bounded(G[p].keys, c + 1, k)
    BY <1>1, <1>4 DEF Local
<1>6. o # q
    BY <1>1, <1>4, OnePlace
<1>7. p # o /\ p # q /\ t.root # o /\ t.root # q
    BY <1>1, <1>5 DEF Placed
<1>8. Formed(G2[p]) /\ Bounded(G2[p].keys, c, s) /\ Widens(G2[p], G[p], c, s, q)
      /\ (c <= Len(G2[p].keys) => s < G2[p].keys[c])
    BY <1>1, <1>2, <1>3, Shrunk
<1>9. \A k \in Key : CutBounds(G2[p].keys, G[p].keys, c, s, k)
    BY <1>3, <1>8, WidenedBounds
<1>10. c \in 1 .. Len(G2[p].keys) + 1 /\ G2[p].keys \in Seq(Key)
    BY <1>1, <1>8 DEF Grows, Formed
<1>11. \A k \in Key : /\ k \in t.rng[o] <=> k \in t.rng[p] /\ Bounded(G2[p].keys, c, k) /\ k <= s
                      /\ k \in t.rng[q] <=> k \in t.rng[p] /\ Bounded(G2[p].keys, c, k) /\ k > s
    BY <1>5, <1>9, <1>10 DEF CutBounds
<1>12. \A k \in Key : k \in Int
    BY KeysAreInts
<1>13. s \in t.rng[o]
    BY <1>2, <1>3, <1>8, <1>11, <1>12
<1>14. t.rng[o] \subseteq Key /\ t.rng[q] \subseteq Key /\ Reaches(t.rng[p])
    BY <1>1, <1>5 DEF Placed, Reaches
<1>15. \A k \in Key : k \in t.rng[o] \cup t.rng[q] <=> k \in t.rng[p] /\ Bounded(G2[p].keys, c, k)
    BY <1>3, <1>11, <1>12
<1>16. Reaches(t.rng[o] \cup t.rng[q])
    <2>1. ASSUME NEW a \in t.rng[o] \cup t.rng[q], NEW b \in t.rng[o] \cup t.rng[q], NEW k \in Key, a < k, k < b
          PROVE  k \in t.rng[o] \cup t.rng[q]
        <3>1. a \in Key /\ b \in Key
            BY <1>14
        <3>2. a \in t.rng[p] /\ b \in t.rng[p] /\ Bounded(G2[p].keys, c, a) /\ Bounded(G2[p].keys, c, b)
            BY <3>1, <2>1, <1>15
        <3>3. k \in t.rng[p]
            BY <3>2, <2>1, <1>14 DEF Reaches
        <3>4. Bounded(G2[p].keys, c, k)
            BY <3>1, <3>2, <2>1, <1>10, BoundedBetween
        <3> QED BY <3>3, <3>4, <1>15
    <2> QED BY <2>1, <1>13, <1>14 DEF Reaches
<1> QED BY <1>2, <1>3, <1>5, <1>6, <1>7, <1>8, <1>10, <1>11, <1>13, <1>14, <1>15, <1>16 DEF Neighbours

LEMMA MergeParent ==
    ASSUME NEW G, NEW t, NEW small, NEW o, NEW p, NEW c, NEW q, NEW G2, NEW n, NEW m, NEW s,
           Joins(G, t, small, o, p, c, q, G2, n, m, s)
    PROVE  Local(G2, MergeGhost(t, o, q), p)
<1>0. Neighbours(t, o, p, c, q, G2[p], s)
    BY MergeFacts
<1> DEFINE t2 == MergeGhost(t, o, q)
           a == G2[p]
           b == G[p]
           N == Len(a.keys)
<1>1. /\ IsTree(G, t, {}, small) /\ Local(G, t, p) /\ p \in t.nodes /\ t.lev[p] # 0
      /\ c \in 1 .. Len(b.keys) /\ b.kids[c] = o /\ b.kids[c + 1] = q /\ b.keys[c] = s
      /\ NodeType(a) /\ Grows(a, b, c, s, q)
    BY DEF Joins, IsTree
<1>2. /\ s \in Key /\ s \in t.rng[o] /\ o \in t.nodes /\ q \in t.nodes /\ o # q /\ p # o /\ p # q
      /\ t.lev[o] = t.lev[p] - 1 /\ t.lev[q] = t.lev[o]
      /\ Formed(a) /\ c \in 1 .. N + 1
      /\ \A k \in Key : k \in t.rng[o] \cup t.rng[q] <=> k \in t.rng[p] /\ Bounded(a.keys, c, k)
    BY <1>0 DEF Neighbours
<1>3. Formed(b) /\ ~b.leaf /\ (\A i \in 1 .. Len(b.keys) : b.keys[i] \in t.rng[p])
    BY <1>1 DEF Local
<1>4. /\ N \in Nat /\ Len(b.keys) = N + 1 /\ Len(a.kids) = N + 1 /\ Len(b.kids) = N + 2 /\ a.leaf = b.leaf
      /\ \A j \in 1 .. N : j < c => b.keys[j] = a.keys[j]
      /\ \A j \in 1 .. N : j >= c => b.keys[j + 1] = a.keys[j]
    <2>1. N \in Nat /\ Len(a.kids) = N + 1
        BY <1>1 DEF NodeType
    <2> QED BY <2>1, <1>1 DEF Grows
<1>5. /\ \A j \in 1 .. N + 1 : j < c + 1 => b.kids[j] = a.kids[j]
      /\ \A j \in 1 .. N + 1 : j >= c + 1 => b.kids[j + 1] = a.kids[j]
    BY <1>1, <1>3, <1>4 DEF Grows
<1>6. /\ t2.nodes = t.nodes \ {q}
      /\ \A x \in t.nodes \ {q} : t2.lev[x] = t.lev[x]
      /\ t2.rng[o] = t.rng[o] \cup t.rng[q]
      /\ \A x \in t.nodes \ {q} : x # o => t2.rng[x] = t.rng[x]
    BY <1>2 DEF MergeGhost
<1>7. \A k \in Key : CutBounds(a.keys, b.keys, c, s, k)
    <2>1. /\ Formed(a) /\ Bounded(a.keys, c, s) /\ Widens(a, b, c, s, q)
          /\ c <= Len(a.keys) => s < a.keys[c]
        BY <1>1, <1>2, <1>3, Shrunk
    <2> QED BY <1>2, <2>1, WidenedBounds
<1>8. /\ \A k \in Key : \A d \in 1 .. N + 1 : d < c => (Bounded(b.keys, d, k) <=> Bounded(a.keys, d, k))
      /\ \A k \in Key : \A d \in 1 .. N + 1 : d > c => (Bounded(b.keys, d + 1, k) <=> Bounded(a.keys, d, k))
    BY <1>7 DEF CutBounds
<1>15. t2.lev[p] = t.lev[p] /\ t2.rng[p] = t.rng[p] /\ t2.lev[p] # 0
    BY <1>1, <1>2, <1>6
<1> HIDE DEF t2, a, b, N
<1>9. ASSUME NEW i \in 1 .. N PROVE a.keys[i] \in t2.rng[p]
    <2>1. CASE i < c
        <3>1. i \in 1 .. N + 1
            BY <1>4
        <3> QED BY <2>1, <3>1, <1>3, <1>4, <1>15
    <2>2. CASE i >= c
        <3>1. i + 1 \in 1 .. N + 1
            BY <1>4
        <3> QED BY <2>2, <3>1, <1>3, <1>4, <1>15
    <2> QED BY <2>1, <2>2, <1>2
<1> DEFINE Fits(d) ==
              /\ a.kids[d] \in t2.nodes
              /\ t2.lev[a.kids[d]] = t2.lev[p] - 1
              /\ \A k \in Key : k \in t2.rng[a.kids[d]] <=> k \in t2.rng[p] /\ Bounded(a.keys, d, k)
<1>10. ASSUME NEW d \in 1 .. N + 2, d # c, d # c + 1
       PROVE  /\ b.kids[d] \in t.nodes \ {q} /\ b.kids[d] # o
              /\ t2.lev[b.kids[d]] = t.lev[p] - 1 /\ t2.rng[b.kids[d]] = t.rng[b.kids[d]]
              /\ \A k \in Key : k \in t.rng[b.kids[d]] <=> k \in t.rng[p] /\ Bounded(b.keys, d, k)
    <2>1. d \in 1 .. Len(b.kids) /\ c \in 1 .. Len(b.kids) /\ c + 1 \in 1 .. Len(b.kids)
        BY <1>2, <1>4
    <2>2. b.kids[d] # o
        BY <2>1, <1>1, <1>10, OnePlace DEF b
    <2>3. b.kids[d] # q
        BY <2>1, <1>1, <1>10, OnePlace DEF b
    <2>4. /\ b.kids[d] \in t.nodes /\ t.lev[b.kids[d]] = t.lev[p] - 1
          /\ \A k \in Key : k \in t.rng[b.kids[d]] <=> k \in t.rng[p] /\ Bounded(b.keys, d, k)
        BY <2>1, <1>1 DEF Local, b
    <2> QED BY <2>2, <2>3, <2>4, <1>6
<1>11. ASSUME NEW d \in 1 .. N + 1 PROVE Fits(d)
    <2>1. CASE d < c
        <3>1. d \in 1 .. N + 2 /\ d # c /\ d # c + 1 /\ d < c + 1
            BY <2>1, <1>4, <1>2
        <3>2. a.kids[d] = b.kids[d]
            BY <3>1, <1>5
        <3> QED BY <3>1, <3>2, <2>1, <1>6, <1>8, <1>10, <1>15
    <2>2. CASE d = c
        <3>1. d < c + 1
            BY <2>2, <1>2
        <3>2. a.kids[d] = o
            BY <3>1, <2>2, <1>1, <1>5 DEF b
        <3> QED BY <3>2, <2>2, <1>2, <1>6, <1>15 DEF a
    <2>3. CASE d > c
        <3>1. d + 1 \in 1 .. N + 2 /\ d + 1 # c /\ d + 1 # c + 1 /\ d >= c + 1
            BY <2>3, <1>4, <1>2
        <3>2. a.kids[d] = b.kids[d + 1]
            BY <3>1, <1>5
        <3>3. \A k \in Key : Bounded(b.keys, d + 1, k) <=> Bounded(a.keys, d, k)
            BY <2>3, <1>8
        <3> QED BY <3>1, <3>2, <3>3, <1>6, <1>10, <1>15
    <2> QED BY <2>1, <2>2, <2>3, <1>2
<1>12. Local(G2, t2, p)
    <2>1. a = G2[p]
        BY DEF a
    <2>2. \A d \in 1 .. Len(a.kids) : Fits(d)
        BY <1>4, <1>11
    <2>3. \A i \in 1 .. Len(a.keys) : a.keys[i] \in t2.rng[p]
        BY <1>9 DEF N
    <2>4. Formed(a) /\ ~a.leaf
        BY <1>2, <1>3, <1>4 DEF a
    <2> QED BY <2>1, <2>2, <2>3, <2>4, <1>15 DEF Local
<1> QED BY <1>12 DEF t2

LEMMA MergeHalf ==
    ASSUME NEW G, NEW t, NEW small, NEW o, NEW p, NEW c, NEW q, NEW G2, NEW n, NEW m, NEW s,
           Joins(G, t, small, o, p, c, q, G2, n, m, s)
    PROVE  Local(G2, MergeGhost(t, o, q), o)
<1>0. Neighbours(t, o, p, c, q, G2[p], s)
    BY MergeFacts
<1> DEFINE t2 == MergeGhost(t, o, q)
           w == G2[o]
           l == G[o]
           r == G[q]
           N == Len(w.keys)
<1>1. /\ Placed(t) /\ Local(G, t, o) /\ Local(G, t, q) /\ o \in t.nodes /\ q \in t.nodes
      /\ NodeType(w) /\ Cuts(w, l, r, n, m) /\ m = (IF w.leaf THEN n ELSE n + 1)
      /\ (~w.leaf => w.keys[m] = s)
    BY <1>0 DEF Neighbours, Joins, IsTree
<1>2. /\ s \in Key /\ s \in t.rng[o] /\ o # q /\ t.lev[q] = t.lev[o]
      /\ \A k \in t.rng[o] : k <= s
      /\ \A k \in t.rng[q] : k > s
    BY <1>0 DEF Neighbours
<1>3. /\ Formed(l) /\ l.leaf = w.leaf /\ Len(l.keys) = n
      /\ \A i \in 1 .. n : l.keys[i] = w.keys[i]
      /\ \A i \in 1 .. m : l.kids[i] = w.kids[i]
    BY <1>1 DEF Cuts
<1>4. /\ Formed(r) /\ r.leaf = w.leaf /\ Len(r.keys) = N - m
      /\ \A i \in 1 .. N - m : r.keys[i] = w.keys[m + i]
      /\ \A i \in 1 .. N + 1 - m : r.kids[i] = w.kids[m + i]
    BY <1>1 DEF Cuts
<1>5. /\ N \in Nat /\ n \in Nat /\ m \in Nat /\ m <= N /\ (w.leaf => m = n) /\ (~w.leaf => m = n + 1)
      /\ w.leaf \in BOOLEAN /\ Len(w.kids) = N + 1 /\ (w.leaf <=> t.lev[o] = 0) /\ t.lev[o] \in Nat
    <2>1. N \in Nat /\ n \in Nat /\ w.leaf \in BOOLEAN /\ Len(w.kids) = N + 1
        BY <1>1, <1>3 DEF NodeType, Formed
    <2>2. (w.leaf => m = n) /\ (~w.leaf => m = n + 1)
        BY <1>1
    <2>3. N - m \in Nat
        BY <1>4 DEF Formed
    <2>4. (w.leaf <=> t.lev[o] = 0) /\ t.lev[o] \in Nat
        BY <1>1, <1>3 DEF Local, Placed
    <2> HIDE DEF N
    <2>5. m \in Nat /\ m <= N
        <3>1. CASE w.leaf
            BY <3>1, <2>1, <2>2, <2>3
        <3>2. CASE ~w.leaf
            BY <3>2, <2>1, <2>2, <2>3
        <3> QED BY <3>1, <3>2
    <2> QED BY <2>1, <2>2, <2>4, <2>5
<1>6. /\ t2.nodes = t.nodes \ {q}
      /\ \A x \in t.nodes \ {q} : t2.lev[x] = t.lev[x]
      /\ t2.rng[o] = t.rng[o] \cup t.rng[q]
      /\ \A x \in t.nodes \ {q} : x # o => t2.rng[x] = t.rng[x]
    BY <1>1, <1>2 DEF MergeGhost
<1>7. /\ \A i \in 1 .. n : l.keys[i] \in t.rng[o]
      /\ \A i \in 1 .. N - m : r.keys[i] \in t.rng[q]
      /\ \A i, j \in 1 .. n : i < j => l.keys[i] < l.keys[j]
      /\ \A i, j \in 1 .. N - m : i < j => r.keys[i] < r.keys[j]
    BY <1>1, <1>3, <1>4 DEF Local, Formed, Sorted
<1>8. t.rng[o] \subseteq Int /\ t.rng[q] \subseteq Int /\ s \in Int /\ t.rng[o] \subseteq Key /\ t.rng[q] \subseteq Key
    BY <1>1, <1>2, KeysAreInts DEF Placed, Reaches
<1> HIDE DEF t2, w, l, r, N
<1>19. ASSUME ~w.leaf, NEW i \in 1 .. n + 1
       PROVE  /\ l.kids[i] \in t.nodes /\ t.lev[l.kids[i]] = t.lev[o] - 1
              /\ \A k \in Key : k \in t.rng[l.kids[i]] <=> k \in t.rng[o] /\ Bounded(l.keys, i, k)
    <2>1. i \in 1 .. Len(l.kids)
        BY <1>3 DEF Formed
    <2> QED BY <2>1, <1>1, <1>5, <1>19 DEF Local, l
<1>20. ASSUME ~w.leaf, NEW i \in 1 .. N + 1 - m
       PROVE  /\ r.kids[i] \in t.nodes /\ t.lev[r.kids[i]] = t.lev[o] - 1
              /\ \A k \in Key : k \in t.rng[r.kids[i]] <=> k \in t.rng[q] /\ Bounded(r.keys, i, k)
    <2>1. i \in 1 .. Len(r.kids)
        BY <1>4, <1>5 DEF Formed
    <2> QED BY <2>1, <1>1, <1>2, <1>5, <1>20 DEF Local, r
<1>18. ASSUME ~w.leaf, NEW i \in 1 .. n PROVE l.keys[i] < s
    <2>1. n + 1 \in 1 .. n + 1 /\ n \in 1 .. n /\ (i = n \/ i < n) /\ n + 1 > 1 /\ (n + 1) - 1 = n
        BY <1>5, <1>18
    <2>2. l.kids[n + 1] \in t.nodes
        BY <2>1, <1>18, <1>19
    <2>3. PICK k \in Key : k \in t.rng[l.kids[n + 1]]
        BY <2>2, <1>1 DEF Placed, Reaches
    <2>4. k \in t.rng[o] /\ Bounded(l.keys, n + 1, k)
        BY <2>1, <2>3, <1>18, <1>19
    <2>5. l.keys[n] < k /\ k <= s
        BY <2>1, <2>4, <1>2 DEF Bounded
    <2>6. l.keys[i] \in Int /\ l.keys[n] \in Int /\ k \in Int /\ (i = n \/ l.keys[i] < l.keys[n])
        BY <2>1, <2>4, <1>7, <1>8
    <2> QED BY <2>5, <2>6, <1>8
<1>9. ASSUME NEW i \in 1 .. N
      PROVE  \/ i <= n /\ w.keys[i] \in t.rng[o]
             \/ i = n + 1 /\ m = n + 1 /\ w.keys[i] = s
             \/ i > m /\ w.keys[i] \in t.rng[q]
    <2>1. CASE i <= n
        <3>1. i \in 1 .. n
            BY <2>1, <1>5
        <3> QED BY <3>1, <2>1, <1>3, <1>7
    <2>2. CASE i > m
        <3>1. i - m \in 1 .. N - m /\ m + (i - m) = i
            BY <2>2, <1>5
        <3>2. w.keys[m + (i - m)] = r.keys[i - m] /\ r.keys[i - m] \in t.rng[q]
            BY <3>1, <1>4, <1>7
        <3> QED BY <3>1, <3>2, <2>2
    <2>3. CASE i > n /\ i <= m
        <3>1. ~w.leaf /\ i = n + 1 /\ m = n + 1
            BY <2>3, <1>5
        <3> QED BY <3>1, <1>1
    <2> QED BY <2>1, <2>2, <2>3, <1>5
<1>10. ASSUME NEW i \in 1 .. N, NEW j \in 1 .. N, i < j PROVE w.keys[i] < w.keys[j]
    <2>1. CASE j <= n
        <3>1. i \in 1 .. n /\ j \in 1 .. n
            BY <2>1, <1>5, <1>10
        <3> QED BY <3>1, <1>3, <1>7, <1>10
    <2>2. CASE i > m
        <3>1. i - m \in 1 .. N - m /\ m + (i - m) = i /\ j - m \in 1 .. N - m /\ m + (j - m) = j /\ i - m < j - m
            BY <2>2, <1>5, <1>10
        <3>2. r.keys[i - m] = w.keys[m + (i - m)] /\ r.keys[j - m] = w.keys[m + (j - m)]
            BY <3>1, <1>4
        <3> QED BY <3>1, <3>2, <1>7
    <2>3. CASE i <= n /\ j > n
        <3>1. w.keys[i] \in t.rng[o] /\ w.keys[i] <= s /\ w.keys[i] \in Int
            BY <2>3, <1>2, <1>5, <1>8, <1>9
        <3>2. CASE j > m
            <4>1. w.keys[j] \in t.rng[q] /\ w.keys[j] > s /\ w.keys[j] \in Int
                BY <3>2, <2>3, <1>2, <1>5, <1>8, <1>9
            <4> QED BY <3>1, <4>1, <1>8
        <3>3. CASE j = n + 1 /\ m = n + 1
            <4>1. w.keys[i] = l.keys[i] /\ ~w.leaf /\ i \in 1 .. n
                BY <3>3, <2>3, <1>3, <1>5
            <4>2. w.keys[j] = s
                BY <4>1, <3>3, <1>1
            <4>3. l.keys[i] < s
                BY <4>1, <1>18
            <4> QED BY <4>1, <4>2, <4>3
        <3> QED BY <3>2, <3>3, <2>3, <1>5
    <2>4. CASE i = n + 1 /\ m = n + 1
        <3>1. w.keys[i] = s /\ j > m
            BY <2>4, <1>1, <1>5, <1>10
        <3>2. w.keys[j] \in t.rng[q]
            BY <3>1, <2>4, <1>5, <1>9
        <3> QED BY <3>1, <3>2, <1>2, <1>8
    <2> QED BY <2>1, <2>2, <2>3, <2>4, <1>5
<1>11. Formed(w)
    BY <1>1, <1>10 DEF Formed, NodeType, Sorted, N, w
<1>12. ASSUME NEW i \in 1 .. N PROVE w.keys[i] \in t2.rng[o]
    BY <1>2, <1>6, <1>9
<1>13. ASSUME ~w.leaf, NEW i \in 1 .. n + 1, NEW k \in Key
       PROVE  k \in t.rng[o] /\ Bounded(l.keys, i, k) <=> k \in t2.rng[o] /\ Bounded(w.keys, i, k)
    <2>1. m = n + 1 /\ i <= N /\ i \in 1 .. N /\ Len(l.keys) = n /\ Len(w.keys) = N
        BY <1>3, <1>5, <1>13 DEF N
    <2>2. i > 1 => l.keys[i - 1] = w.keys[i - 1]
        BY <1>3, <1>5, <1>13
    <2>3. k \in Int
        BY KeysAreInts
    <2>4. CASE i = n + 1
        <3>1. w.keys[i] = s /\ ~(i <= n)
            BY <2>1, <2>4, <1>1, <1>5, <1>13
        <3>2. Bounded(w.keys, i, k) <=> Bounded(l.keys, i, k) /\ k <= s
            BY <2>1, <2>2, <3>1 DEF Bounded
        <3>3. k \in t.rng[q] => ~(k <= s)
            BY <1>2, <1>8, <2>3
        <3> QED BY <3>2, <3>3, <1>2, <1>6
    <2>5. CASE i <= n
        <3>1. i \in 1 .. n /\ w.keys[i] = l.keys[i] /\ l.keys[i] < s /\ l.keys[i] \in Int
            <4>1. i \in 1 .. n
                BY <2>5
            <4>2. l.keys[i] \in t.rng[o]
                BY <4>1, <1>7
            <4> QED BY <4>1, <4>2, <1>3, <1>8, <1>18, <1>13
        <3>2. Bounded(w.keys, i, k) <=> Bounded(l.keys, i, k)
            BY <3>1, <2>1, <2>2, <2>5 DEF Bounded
        <3>3. k \in t.rng[q] => ~Bounded(w.keys, i, k)
            BY <3>1, <2>1, <2>3, <1>2, <1>8 DEF Bounded
        <3> QED BY <3>2, <3>3, <1>6
    <2> QED BY <2>4, <2>5, <1>5
<1>14. ASSUME ~w.leaf, NEW j \in 1 .. N + 1 - m, NEW i, i = m + j, NEW k \in Key
       PROVE  k \in t.rng[q] /\ Bounded(r.keys, j, k) <=> k \in t2.rng[o] /\ Bounded(w.keys, i, k)
    <2>1. i \in 1 .. N + 1 /\ i > 1 /\ (i <= N <=> j <= N - m) /\ Len(r.keys) = N - m /\ Len(w.keys) = N
        BY <1>4, <1>5, <1>14 DEF N
    <2>2. i <= N => w.keys[i] = r.keys[j]
        BY <2>1, <1>4, <1>14
    <2>3. k \in Int
        BY KeysAreInts
    <2>4. CASE j = 1
        <3>1. w.keys[i - 1] = s
            <4>1. i - 1 = m
                BY <2>4, <1>5, <1>14
            <4> QED BY <4>1, <1>1, <1>14
        <3>2. Bounded(w.keys, i, k) <=> Bounded(r.keys, j, k) /\ s < k
            BY <2>1, <2>2, <2>4, <3>1 DEF Bounded
        <3>3. k \in t.rng[o] => ~(s < k)
            BY <1>2, <1>8, <2>3
        <3>4. k \in t.rng[q] => s < k
            BY <1>2, <1>8, <2>3
        <3> QED BY <3>2, <3>3, <3>4, <1>6
    <2>5. CASE j > 1
        <3>1. j - 1 \in 1 .. N - m /\ m + (j - 1) = i - 1
            BY <2>5, <1>5, <1>14
        <3>2. w.keys[i - 1] = r.keys[j - 1] /\ r.keys[j - 1] > s /\ r.keys[j - 1] \in Int
            <4>1. r.keys[j - 1] \in t.rng[q] /\ r.keys[j - 1] = w.keys[m + (j - 1)]
                BY <3>1, <1>4, <1>7
            <4> QED BY <4>1, <3>1, <1>2, <1>8
        <3>3. Bounded(w.keys, i, k) <=> Bounded(r.keys, j, k)
            BY <2>1, <2>2, <2>5, <3>2 DEF Bounded
        <3>4. k \in t.rng[o] => ~Bounded(w.keys, i, k)
            BY <3>2, <2>1, <2>3, <1>2, <1>8 DEF Bounded
        <3> QED BY <3>3, <3>4, <1>6
    <2> QED BY <2>4, <2>5
<1>15. ASSUME ~w.leaf, NEW i \in 1 .. N + 1
       PROVE  /\ w.kids[i] \in t2.nodes /\ t2.lev[w.kids[i]] = t.lev[o] - 1
              /\ \A k \in Key : k \in t2.rng[w.kids[i]] <=> k \in t2.rng[o] /\ Bounded(w.keys, i, k)
    <2>1. \A y \in t.nodes : t.lev[y] = t.lev[o] - 1 =>
              y # o /\ y # q /\ y \in t2.nodes /\ t2.lev[y] = t.lev[y] /\ t2.rng[y] = t.rng[y]
        BY <1>2, <1>5, <1>6
    <2>2. CASE i <= m
        <3>1. i \in 1 .. n + 1 /\ i \in 1 .. m
            BY <2>2, <1>5, <1>15
        <3>2. w.kids[i] = l.kids[i]
            BY <3>1, <1>3
        <3>3. /\ l.kids[i] \in t.nodes /\ t.lev[l.kids[i]] = t.lev[o] - 1
              /\ \A k \in Key : k \in t.rng[l.kids[i]] <=> k \in t.rng[o] /\ Bounded(l.keys, i, k)
            BY <3>1, <1>15, <1>19
        <3>4. \A k \in Key : k \in t.rng[o] /\ Bounded(l.keys, i, k) <=> k \in t2.rng[o] /\ Bounded(w.keys, i, k)
            BY <3>1, <1>13, <1>15
        <3> QED BY <3>2, <3>3, <3>4, <2>1
    <2>3. CASE i > m
        <3>1. PICK j \in 1 .. N + 1 - m : i = m + j
            <4>1. i - m \in 1 .. N + 1 - m /\ m + (i - m) = i
                BY SMTT(30), <2>3, <1>5
            <4> QED BY <4>1
        <3>2. w.kids[i] = r.kids[j]
            BY <3>1, <1>4
        <3>3. /\ r.kids[j] \in t.nodes /\ t.lev[r.kids[j]] = t.lev[o] - 1
              /\ \A k \in Key : k \in t.rng[r.kids[j]] <=> k \in t.rng[q] /\ Bounded(r.keys, j, k)
            BY <1>15, <1>20
        <3>4. \A k \in Key : k \in t.rng[q] /\ Bounded(r.keys, j, k) <=> k \in t2.rng[o] /\ Bounded(w.keys, i, k)
            BY <3>1, <1>14, <1>15
        <3> QED BY <3>2, <3>3, <3>4, <2>1
    <2> QED BY <2>2, <2>3, <1>5
<1>16. t2.lev[o] = t.lev[o]
    BY <1>1, <1>2, <1>6
<1>17. Local(G2, t2, o)
    <2>1. w = G2[o] /\ Len(w.keys) = N
        BY DEF w, N
    <2>2. \A i \in 1 .. Len(w.keys) : w.keys[i] \in t2.rng[o]
        BY <2>1, <1>12
    <2>3. t2.lev[o] # 0 => ~w.leaf
        BY <1>5, <1>16
    <2> QED BY <2>1, <2>2, <2>3, <1>5, <1>11, <1>15, <1>16 DEF Local
<1> QED BY <1>17 DEF t2

(* Neighbouring leaves are linked.                                         *)
Adjacent(G, t, o, q) ==
    /\ Placed(t) /\ Apart(t) /\ Linked(G, t)
    /\ o \in t.nodes /\ q \in t.nodes /\ o # q /\ t.lev[q] = t.lev[o]
    /\ \A j \in t.rng[o], i \in t.rng[q] : j < i
    /\ Reaches(t.rng[o] \cup t.rng[q])

LEMMA AdjacentFacts ==
    ASSUME NEW G, NEW t, NEW o, NEW q, Adjacent(G, t, o, q)
    PROVE  /\ \A x \in t.nodes : \A k \in t.rng[x] : k \in Key /\ k \in Int
           /\ \A x \in t.nodes : \E k \in Key : k \in t.rng[x]
           /\ \A j, i \in t.rng[o] \cup t.rng[q] : \A k \in Key : j < k /\ k < i => k \in t.rng[o] \/ k \in t.rng[q]
           /\ \A x, y \in t.nodes : \A k : t.lev[x] = t.lev[y] /\ k \in t.rng[x] /\ k \in t.rng[y] => x = y
           /\ 0 \notin t.nodes
<1>1. Placed(t) /\ Apart(t) /\ Reaches(t.rng[o] \cup t.rng[q])
    BY DEF Adjacent
<1>2. \A x \in t.nodes : t.rng[x] \subseteq Key /\ t.rng[x] # {}
    BY <1>1 DEF Placed, Reaches
<1>3. \A x \in t.nodes : \A k \in t.rng[x] : k \in Key /\ k \in Int
    BY <1>2, KeysAreInts
<1> QED BY <1>1, <1>2, <1>3 DEF Placed, Reaches, Apart

LEMMA LinkIs ==
    ASSUME NEW G, NEW t, NEW o, NEW q, Adjacent(G, t, o, q), t.lev[o] = 0
    PROVE  Link(G[o]) = q
<1> DEFINE x == Link(G[o])
<1>1. /\ Linked(G, t) /\ o \in t.nodes /\ q \in t.nodes /\ o # q /\ t.lev[q] = t.lev[o]
      /\ \A j \in t.rng[o], i \in t.rng[q] : j < i
    BY DEF Adjacent
<1>2. /\ \A y \in t.nodes : \A k \in t.rng[y] : k \in Key /\ k \in Int
      /\ \A y \in t.nodes : \E k \in Key : k \in t.rng[y]
      /\ \A j, i \in t.rng[o] \cup t.rng[q] : \A k \in Key : j < k /\ k < i => k \in t.rng[o] \/ k \in t.rng[q]
      /\ \A y, z \in t.nodes : \A k : t.lev[y] = t.lev[z] /\ k \in t.rng[y] /\ k \in t.rng[z] => y = z
    BY AdjacentFacts
<1>3. Behind(t, o, x)
    BY <1>1 DEF Linked
<1> HIDE DEF x
<1>4. PICK j \in Key : j \in t.rng[o]
    BY <1>1, <1>2
<1>5. PICK i \in Key : i \in t.rng[q]
    BY <1>1, <1>2
<1>6. j < i /\ j \in Int /\ i \in Int /\ i \notin t.rng[o]
    BY <1>1, <1>2, <1>4, <1>5
<1>7. x # 0
    BY <1>3, <1>4, <1>5, <1>6 DEF Behind
<1>8. x \in t.nodes /\ t.lev[x] = 0 /\ NextTo(t, o, x)
    BY <1>3, <1>7 DEF Behind
<1>9. PICK e \in Key : e \in t.rng[x]
    BY <1>2, <1>8
<1>10. j < e /\ e \in Int /\ x # o
    <2>1. j < e /\ e \in Int
        BY <1>2, <1>4, <1>8, <1>9 DEF NextTo
    <2>2. x # o
        BY <1>2, <1>4, <1>6, <1>8 DEF NextTo
    <2> QED BY <2>1, <2>2
<1>11. CASE i = e
    BY <1>1, <1>2, <1>5, <1>8, <1>9, <1>11 DEF x
<1>12. CASE i < e
    <2>1. i \in t.rng[o] \cup t.rng[x]
        BY <1>4, <1>5, <1>6, <1>8, <1>9, <1>12 DEF NextTo
    <2> QED BY <2>1, <1>1, <1>2, <1>5, <1>6, <1>8 DEF x
<1>13. CASE e < i
    <2>1. e \in t.rng[o] \/ e \in t.rng[q]
        BY <1>2, <1>4, <1>5, <1>9, <1>10, <1>13
    <2> QED BY <2>1, <1>1, <1>2, <1>8, <1>9, <1>10 DEF x
<1> QED BY <1>6, <1>10, <1>11, <1>12, <1>13

LEMMA MergeLinked ==
    ASSUME NEW G, NEW t, NEW o, NEW q, Adjacent(G, t, o, q),
           NEW G2, \A x \in t.nodes : t.lev[x] = 0 /\ x # o /\ x # q => Link(G2[x]) = Link(G[x]),
           t.lev[o] = 0 => Link(G2[o]) = Link(G[q])
    PROVE  Linked(G2, MergeGhost(t, o, q))
<1> DEFINE t2 == MergeGhost(t, o, q)
<1>1. /\ Linked(G, t) /\ o \in t.nodes /\ q \in t.nodes /\ o # q /\ t.lev[q] = t.lev[o]
      /\ \A j \in t.rng[o], i \in t.rng[q] : j < i
    BY DEF Adjacent
<1>2. /\ \A y \in t.nodes : \A k \in t.rng[y] : k \in Key /\ k \in Int
      /\ \A y \in t.nodes : \E k \in Key : k \in t.rng[y]
      /\ \A j, i \in t.rng[o] \cup t.rng[q] : \A k \in Key : j < k /\ k < i => k \in t.rng[o] \/ k \in t.rng[q]
      /\ \A y, z \in t.nodes : \A k : t.lev[y] = t.lev[z] /\ k \in t.rng[y] /\ k \in t.rng[z] => y = z
      /\ 0 \notin t.nodes
    BY AdjacentFacts
<1>3. /\ t2.nodes = t.nodes \ {q}
      /\ \A x \in t.nodes \ {q} : t2.lev[x] = t.lev[x]
      /\ t2.rng[o] = t.rng[o] \cup t.rng[q]
      /\ \A x \in t.nodes \ {q} : x # o => t2.rng[x] = t.rng[x]
    BY <1>1 DEF MergeGhost
<1>4. PICK a \in Key : a \in t.rng[o]
    BY <1>1, <1>2
<1>5. PICK b \in Key : b \in t.rng[q]
    BY <1>1, <1>2
<1>6. a \in Int /\ b \in Int /\ a < b
    BY <1>1, <1>2, <1>4, <1>5
<1> HIDE DEF t2
<1>7. ASSUME t.lev[o] = 0, NEW x, Behind(t, q, x) PROVE Behind(t2, o, x)
    <2>1. CASE x = 0
        <3> SUFFICES ASSUME NEW j \in t2.rng[o], NEW k \in Key, j < k PROVE k \in t2.rng[o]
            BY <2>1 DEF Behind
        <3>1. j \in t.rng[o] \cup t.rng[q] /\ j \in Int /\ k \in Int
            BY <1>1, <1>2, <1>3, KeysAreInts
        <3>2. CASE k > b
            BY <3>2, <2>1, <1>3, <1>5, <1>7 DEF Behind
        <3>3. CASE k = b
            BY <3>3, <1>3, <1>5
        <3>4. CASE k < b
            BY <3>1, <3>4, <1>2, <1>3, <1>5
        <3> QED BY <3>1, <3>2, <3>3, <3>4, <1>6
    <2>2. CASE x # 0
        <3>1. x \in t.nodes /\ t.lev[x] = 0 /\ NextTo(t, q, x)
            BY <2>2, <1>7 DEF Behind
        <3>2. x # q /\ x # o
            BY <3>1, <1>1, <1>2, <1>4, <1>5, <1>6 DEF NextTo
        <3>3. NextTo(t2, o, x)
            <4> SUFFICES ASSUME NEW j \in t2.rng[o], NEW i \in t2.rng[x]
                         PROVE  j < i /\ \A k \in Key : j < k /\ k < i => k \in t2.rng[o] \cup t2.rng[x]
                BY DEF NextTo
            <4>1. j \in t.rng[o] \cup t.rng[q] /\ j \in Int /\ i \in t.rng[x] /\ t2.rng[x] = t.rng[x] /\ i \in Int
                BY <3>1, <3>2, <1>1, <1>2, <1>3
            <4>2. b < i
                BY <3>1, <4>1, <1>5 DEF NextTo
            <4>3. j < i
                <5>1. CASE j \in t.rng[q]
                    BY <5>1, <3>1, <4>1 DEF NextTo
                <5>2. CASE j \in t.rng[o]
                    <6>1. j < b
                        BY <5>2, <1>1, <1>5
                    <6> QED BY <6>1, <4>1, <4>2, <1>6
                <5> QED BY <5>1, <5>2, <4>1
            <4>4. ASSUME NEW k \in Key, j < k, k < i PROVE k \in t2.rng[o] \cup t2.rng[x]
                <5>1. k \in Int
                    BY KeysAreInts
                <5>2. CASE k > b
                    BY <5>2, <4>1, <4>4, <3>1, <1>3, <1>5 DEF NextTo
                <5>3. CASE k = b
                    BY <5>3, <1>3, <1>5
                <5>4. CASE k < b
                    BY <4>1, <4>4, <5>4, <1>2, <1>3, <1>5
                <5> QED BY <5>1, <5>2, <5>3, <5>4, <1>6
            <4> QED BY <4>3, <4>4
        <3> QED BY <2>2, <3>1, <3>2, <3>3, <1>3 DEF Behind
    <2> QED BY <2>1, <2>2
<1>8. ASSUME NEW y \in t.nodes, t.lev[y] = 0, y # o, y # q, NEW x, Behind(t, y, x) PROVE Behind(t2, y, x)
    <2>1. CASE x = 0
        BY <2>1, <1>3, <1>8 DEF Behind
    <2>2. CASE x # 0
        <3>1. x \in t.nodes /\ t.lev[x] = 0 /\ NextTo(t, y, x)
            BY <2>2, <1>8 DEF Behind
        <3>2. PICK e \in Key : e \in t.rng[y]
            BY <1>2, <1>8
        <3>3. (e \in Int /\ e # a /\ e # b /\ e \notin t.rng[o] /\ e \notin t.rng[q]) \/ t.lev[o] # 0
            BY <3>2, <1>1, <1>2, <1>4, <1>5, <1>8
        <3>4. x # q
            <4> SUFFICES ASSUME x = q PROVE FALSE
                OBVIOUS
            <4>1. t.lev[o] = 0 /\ e < b
                BY <3>1, <3>2, <1>1, <1>5 DEF NextTo
            <4>2. CASE e < a
                <5>1. a \in t.rng[y] \cup t.rng[q]
                    BY <4>1, <4>2, <3>1, <3>2, <1>4, <1>5, <1>6 DEF NextTo
                <5> QED BY <5>1, <4>1, <1>1, <1>2, <1>4, <1>8
            <4>3. CASE a < e
                BY <4>1, <4>3, <3>2, <3>3, <1>2, <1>4, <1>5
            <4> QED BY <4>1, <4>2, <4>3, <3>3, <1>6
        <3>5. CASE x # o
            <4>1. NextTo(t2, y, x)
                BY <3>1, <3>4, <3>5, <1>3, <1>8 DEF NextTo
            <4> QED BY <2>2, <4>1, <3>1, <3>4, <1>3 DEF Behind
        <3>6. CASE x = o
            <4>1. NextTo(t2, y, o)
                <5> SUFFICES ASSUME NEW j \in t2.rng[y], NEW i \in t2.rng[o]
                             PROVE  j < i /\ \A k \in Key : j < k /\ k < i => k \in t2.rng[y] \cup t2.rng[o]
                    BY DEF NextTo
                <5>1. j \in t.rng[y] /\ j \in Int /\ i \in t.rng[o] \cup t.rng[q] /\ i \in Int
                    BY <1>1, <1>2, <1>3, <1>8
                <5>2. j < a
                    BY <5>1, <3>1, <3>6, <1>4 DEF NextTo
                <5>3. j < i
                    <6>1. CASE i \in t.rng[o]
                        BY <6>1, <5>1, <3>1, <3>6 DEF NextTo
                    <6>2. CASE i \in t.rng[q]
                        <7>1. a < i
                            BY <6>2, <1>1, <1>4
                        <7> QED BY <7>1, <5>1, <5>2, <1>6
                    <6> QED BY <6>1, <6>2, <5>1
                <5>4. ASSUME NEW k \in Key, j < k, k < i PROVE k \in t2.rng[y] \cup t2.rng[o]
                    <6>1. k \in Int
                        BY KeysAreInts
                    <6>2. CASE k < a
                        BY <6>2, <5>1, <5>4, <3>1, <3>6, <1>3, <1>4, <1>8 DEF NextTo
                    <6>3. CASE k = a
                        BY <6>3, <1>3, <1>4
                    <6>4. CASE a < k
                        BY <6>4, <5>1, <5>4, <1>2, <1>3, <1>4
                    <6> QED BY <6>1, <6>2, <6>3, <6>4, <1>6
                <5> QED BY <5>3, <5>4
            <4> QED BY <2>2, <4>1, <3>1, <3>6, <1>1, <1>3 DEF Behind
        <3> QED BY <3>5, <3>6
    <2> QED BY <2>1, <2>2
<1>9. ASSUME NEW x \in t2.nodes, t2.lev[x] = 0 PROVE Behind(t2, x, Link(G2[x]))
    <2>1. CASE x = o
        BY <2>1, <1>1, <1>3, <1>7, <1>9 DEF Linked
    <2>2. CASE x # o
        BY <2>2, <1>1, <1>3, <1>8, <1>9 DEF Linked
    <2> QED BY <2>1, <2>2
<1> QED BY <1>9 DEF Linked, t2

LEMMA MergeOff ==
    ASSUME NEW G, NEW t, NEW small, NEW o, NEW p, NEW c, NEW q, NEW G2, NEW n, NEW m, NEW s,
           Joins(G, t, small, o, p, c, q, G2, n, m, s)
    PROVE  /\ IsTree(G2, MergeGhost(t, o, q), {o}, {p})
           /\ SameEntries(G, t, G2, MergeGhost(t, o, q))
           /\ t.lev[o] = 0 => Link(G[o]) = q
<1>0. Neighbours(t, o, p, c, q, G2[p], s)
    BY MergeFacts
<1>1. Local(G2, MergeGhost(t, o, q), p) /\ Local(G2, MergeGhost(t, o, q), o)
    BY MergeParent, MergeHalf
<1> DEFINE t2 == MergeGhost(t, o, q)
           w == G2[o]
<1>2. /\ IsTree(G, t, {}, small) /\ small \subseteq {o, q} /\ Placed(t) /\ Apart(t) /\ Linked(G, t)
      /\ p \in t.nodes /\ t.lev[p] # 0 /\ c \in 1 .. Len(G[p].keys) /\ G[p].kids[c] = o /\ G[p].kids[c + 1] = q
      /\ NodeType(w) /\ Cuts(w, G[o], G[q], n, m) /\ m = (IF w.leaf THEN n ELSE n + 1)
      /\ Len(w.keys) >= MinKeys(w)
      /\ Grows(G2[p], G[p], c, s, q) /\ Local(G, t, p) /\ Local(G, t, o) /\ Local(G, t, q)
      /\ \A x \in t.nodes : x # o /\ x # p => G2[x] = G[x]
    BY <1>0 DEF Joins, IsTree, Neighbours
<1>3. /\ s \in Key /\ o \in t.nodes /\ q \in t.nodes /\ o # q /\ p # o /\ p # q /\ t.root # o /\ t.root # q
      /\ t.lev[o] = t.lev[p] - 1 /\ t.lev[q] = t.lev[o]
      /\ \A k \in t.rng[o] : k <= s
      /\ \A k \in t.rng[q] : k > s
      /\ Reaches(t.rng[o] \cup t.rng[q])
    BY <1>0 DEF Neighbours
<1>4. /\ t2.nodes = t.nodes \ {q} /\ t2.root = t.root
      /\ \A x \in t.nodes \ {q} : t2.lev[x] = t.lev[x]
      /\ t2.rng[o] = t.rng[o] \cup t.rng[q]
      /\ \A x \in t.nodes \ {q} : x # o => t2.rng[x] = t.rng[x]
    BY <1>3 DEF MergeGhost
<1>5. Adjacent(G, t, o, q)
    <2>1. s \in Int /\ \A k \in t.rng[o] \cup t.rng[q] : k \in Int
        BY <1>2, <1>3, KeysAreInts DEF Placed, Reaches
    <2>2. ASSUME NEW j \in t.rng[o], NEW i \in t.rng[q] PROVE j < i
        <3>1. j <= s /\ i > s /\ j \in Int /\ i \in Int
            BY <2>1, <1>3
        <3> QED BY <3>1, <2>1
    <2> QED BY <2>2, <1>2, <1>3 DEF Adjacent
<1>6. t.lev[o] = 0 => Link(G[o]) = q
    BY <1>5, LinkIs
<1> HIDE DEF t2, w
<1>7. Repotted(G, t, G2, t2, p, {o, q}, {o})
    <2>1. c \in 1 .. Len(G[p].kids) /\ c + 1 \in 1 .. Len(G[p].kids)
        BY <1>2 DEF Local, Formed
    <2>2. \A y \in {o, q} : \E d \in 1 .. Len(G[p].kids) : y = G[p].kids[d]
        BY <1>2, <2>1
    <2>3. t2.nodes = (t.nodes \ {o, q}) \cup {o} /\ {o} \subseteq Nat \ {0}
        BY <1>2, <1>3, <1>4 DEF Placed
    <2>4. \A x \in t.nodes \ {o, q} : t2.lev[x] = t.lev[x] /\ t2.rng[x] = t.rng[x] /\ (x # p => G2[x] = G[x])
        BY <1>2, <1>4
    <2>5. \A y \in {o} : t2.lev[y] = t.lev[p] - 1 /\ Reaches(t2.rng[y])
        BY <1>3, <1>4
    <2>6. \A y \in {o} : \A k \in t2.rng[y] : \E x \in {o, q} : k \in t.rng[x]
        BY <1>4
    <2> QED BY <2>2, <2>3, <2>4, <2>5, <2>6, <1>2, <1>4 DEF Repotted
<1>8. ASSUME NEW x \in t2.nodes PROVE Sized(G2[x], x, t2.root, {o}, {p})
    <2>1. CASE x = o
        <3>1. Len(w.keys) \in Nat /\ MinKeys(w) \in Nat
            BY <1>2, Orders DEF NodeType, MinKeys
        <3>2. Len(w.keys) + 0 >= MinKeys(w) /\ Len(w.keys) + 1 >= MinKeys(w) /\ x # t2.root /\ G2[x] = w
            BY <2>1, <3>1, <1>2, <1>3, <1>4 DEF w
        <3> QED BY <2>1, <3>2 DEF Sized
    <2>2. CASE x = p
        <3>1. /\ Len(G[p].keys) = Len(G2[p].keys) + 1 /\ MinKeys(G2[p]) = MinKeys(G[p]) /\ Len(G2[p].keys) \in Nat
              /\ Len(G[p].keys) \in Nat /\ MaxKeys \in Nat
            <4>1. Formed(G[p]) /\ Formed(G2[p])
                BY <1>1, <1>2 DEF Local
            <4>2. Len(G2[p].keys) \in Nat /\ Len(G[p].keys) \in Nat /\ MaxKeys \in Nat
                BY <4>1, Orders DEF Formed
            <4>3. Len(G[p].keys) = Len(G2[p].keys) + 1 /\ G2[p].leaf = G[p].leaf
                BY <1>2 DEF Grows
            <4> QED BY <4>2, <4>3 DEF MinKeys
        <3>2. Sized(G[p], p, t.root, {}, small) /\ p \notin small
            BY <1>2, <1>3 DEF IsTree
        <3>3. /\ Len(G[p].keys) <= MaxKeys
              /\ Len(G[p].keys) + 0 >= IF p = t.root THEN 1 ELSE MinKeys(G[p])
            BY <3>2 DEF Sized
        <3>4. /\ Len(G2[p].keys) <= MaxKeys
              /\ Len(G2[p].keys) + 1 >= IF p = t.root THEN 1 ELSE MinKeys(G2[p])
            BY <3>1, <3>3
        <3> QED BY <3>4, <2>2, <1>4 DEF Sized
    <2>3. CASE x \in t.nodes /\ x # o /\ x # p /\ x # q
        <3>1. Sized(G[x], x, t.root, {}, small) /\ G2[x] = G[x] /\ x \notin small
            BY <2>3, <1>2 DEF IsTree
        <3> QED BY <3>1, <2>3, <1>4 DEF Sized
    <2> QED BY <2>1, <2>2, <2>3, <1>4
<1>9. \A x \in {o} \cup {p} : Local(G2, t2, x)
    BY <1>1 DEF t2
<1>10. G[o].leaf = w.leaf /\ G[q].leaf = w.leaf /\ (w.leaf <=> t.lev[o] = 0)
    BY <1>2 DEF Cuts, Local
<1>11. w.leaf => /\ m = n /\ n \in Nat /\ Len(G[o].keys) = n /\ Len(G[q].keys) = Len(w.keys) - n
                 /\ Len(w.keys) - n \in Nat /\ Len(w.keys) \in Nat
                 /\ \A i \in 1 .. n : G[o].keys[i] = w.keys[i] /\ G[o].kids[i] = w.kids[i]
                 /\ \A i \in 1 .. Len(w.keys) - n : G[q].keys[i] = w.keys[n + i]
                 /\ \A i \in 1 .. Len(w.keys) + 1 - n : G[q].kids[i] = w.kids[n + i]
    <2> SUFFICES ASSUME w.leaf
                 PROVE  /\ m = n /\ n \in Nat /\ Len(G[o].keys) = n /\ Len(G[q].keys) = Len(w.keys) - n
                        /\ Len(w.keys) - n \in Nat /\ Len(w.keys) \in Nat
                        /\ \A i \in 1 .. n : G[o].keys[i] = w.keys[i] /\ G[o].kids[i] = w.kids[i]
                        /\ \A i \in 1 .. Len(w.keys) - n : G[q].keys[i] = w.keys[n + i]
                        /\ \A i \in 1 .. Len(w.keys) + 1 - n : G[q].kids[i] = w.kids[n + i]
        OBVIOUS
    <2>1. m = n
        BY <1>2
    <2>2. /\ Len(G[o].keys) = n /\ Len(G[q].keys) = Len(w.keys) - n
          /\ \A i \in 1 .. n : G[o].keys[i] = w.keys[i]
          /\ \A i \in 1 .. n : G[o].kids[i] = w.kids[i]
          /\ \A i \in 1 .. Len(w.keys) - n : G[q].keys[i] = w.keys[n + i]
          /\ \A i \in 1 .. Len(w.keys) + 1 - n : G[q].kids[i] = w.kids[n + i]
        BY <2>1, <1>2 DEF Cuts
    <2>3. Len(G[o].keys) \in Nat /\ Len(G[q].keys) \in Nat /\ Len(w.keys) \in Nat
        BY <1>2 DEF Local, Formed, NodeType
    <2> QED BY <2>1, <2>2, <2>3
<1>12. Linked(G2, t2)
    <2>1. w.leaf => Link(w) = Link(G[q])
        <3> SUFFICES ASSUME w.leaf PROVE Link(w) = Link(G[q])
            OBVIOUS
        <3>1. PICK i \in 1 .. Len(w.keys) + 1 - n : n + i = Len(w.keys) + 1 /\ i = Len(w.keys) - n + 1
            <4>1. Len(w.keys) - n + 1 \in 1 .. Len(w.keys) + 1 - n
                BY <1>11
            <4>2. n + (Len(w.keys) - n + 1) = Len(w.keys) + 1
                BY <1>11
            <4> QED BY <4>1, <4>2
        <3>2. G[q].kids[i] = w.kids[n + i]
            BY <1>11, <3>1
        <3> QED BY <3>1, <3>2, <1>11 DEF Link
    <2>2. \A x \in t.nodes : t.lev[x] = 0 /\ x # o /\ x # q => Link(G2[x]) = Link(G[x])
        BY <1>2
    <2>3. t.lev[o] = 0 => Link(G2[o]) = Link(G[q])
        BY <2>1, <1>10 DEF w
    <2> QED BY <2>2, <2>3, <1>5, MergeLinked DEF t2
<1>13. IsTree(G2, t2, {o}, {p})
    BY <1>2, <1>7, <1>8, <1>9, <1>12, Repot
<1>14. t.lev[p] = 1 => \A k, v : (\E y \in {o} : Keeps(G2[y], k, v)) <=> (\E x \in {o, q} : Keeps(G[x], k, v))
    <2> SUFFICES ASSUME t.lev[p] = 1, NEW k, NEW v
                 PROVE  Keeps(G[o], k, v) \/ Keeps(G[q], k, v) <=> Keeps(w, k, v)
        BY DEF w
    <2>1. w.leaf
        BY <1>3, <1>10
    <2> DEFINE N == Len(w.keys)
    <2>2. /\ n \in Nat /\ Len(G[o].keys) = n /\ Len(G[q].keys) = N - n /\ N - n \in Nat /\ N \in Nat
          /\ \A i \in 1 .. n : G[o].keys[i] = w.keys[i] /\ G[o].kids[i] = w.kids[i]
          /\ \A i \in 1 .. N - n : G[q].keys[i] = w.keys[n + i]
          /\ \A i \in 1 .. N + 1 - n : G[q].kids[i] = w.kids[n + i]
        BY <2>1, <1>11
    <2> HIDE DEF N
    <2>4. ASSUME Keeps(G[o], k, v) PROVE Keeps(w, k, v)
        <3>1. PICK i \in 1 .. n : G[o].keys[i] = k /\ G[o].kids[i] = v
            BY <2>2, <2>4 DEF Keeps
        <3>2. i \in 1 .. N
            BY <2>2
        <3> QED BY <3>1, <3>2, <2>2 DEF Keeps, N
    <2>5. ASSUME Keeps(G[q], k, v) PROVE Keeps(w, k, v)
        <3>1. PICK i \in 1 .. N - n : G[q].keys[i] = k /\ G[q].kids[i] = v
            BY <2>2, <2>5 DEF Keeps
        <3>2. n + i \in 1 .. N /\ i \in 1 .. N + 1 - n
            BY <2>2
        <3> QED BY <3>1, <3>2, <2>2 DEF Keeps, N
    <2>6. ASSUME Keeps(w, k, v) PROVE Keeps(G[o], k, v) \/ Keeps(G[q], k, v)
        <3>1. PICK i \in 1 .. N : w.keys[i] = k /\ w.kids[i] = v
            BY <2>6 DEF Keeps, N
        <3>2. CASE i <= n
            <4>1. i \in 1 .. n
                BY <3>2, <2>2
            <4> QED BY <4>1, <3>1, <2>2 DEF Keeps
        <3>3. CASE i > n
            <4>1. PICK j \in 1 .. N - n : n + j = i /\ j \in 1 .. N + 1 - n
                <5>1. i - n \in 1 .. N - n /\ n + (i - n) = i /\ i - n \in 1 .. N + 1 - n
                    BY <3>3, <2>2
                <5> QED BY <5>1
            <4>2. G[q].keys[j] = k /\ G[q].kids[j] = v
                BY <4>1, <3>1, <2>2
            <4> QED BY <4>1, <4>2, <2>2 DEF Keeps
        <3> QED BY <3>2, <3>3, <2>2
    <2> QED BY <2>4, <2>5, <2>6
<1>15. SameEntries(G, t, G2, t2)
    BY <1>2, <1>7, <1>14, RepotEntries
<1> QED BY <1>6, <1>13, <1>15 DEF t2

-----------------------------------------------------------------------------
(* A leaf whose values for k become V.                                     *)

Turned(node, w, k, V) ==
    /\ Formed(w) /\ w.leaf = node.leaf /\ Link(w) = Link(node)
    /\ \A j, v : Keeps(w, j, v) <=> IF j = k THEN v \in V ELSE Keeps(node, j, v)

LEMMA LeafGrown ==
    ASSUME NEW a, NodeType(a), a.leaf, NEW b, Formed(b), NEW i, NEW k, NEW x, Grows(a, b, i, k, x)
    PROVE  /\ Link(b) = Link(a) /\ b.leaf
           /\ \A j, v : Keeps(b, j, v) <=> Keeps(a, j, v) \/ (j = k /\ v = x)
           /\ \A v : ~Keeps(a, k, v)
<1> DEFINE n == Len(a.keys)
<1>1. n \in Nat /\ Len(a.kids) = n + 1
    BY DEF NodeType
<1>2. /\ Len(b.keys) = n + 1 /\ i \in 1 .. n + 1 /\ b.keys[i] = k /\ b.kids[i] = x /\ b.leaf
      /\ \A j \in 1 .. n : j < i => b.keys[j] = a.keys[j]
      /\ \A j \in 1 .. n : j >= i => b.keys[j + 1] = a.keys[j]
      /\ \A j \in 1 .. n + 1 : j < i => b.kids[j] = a.kids[j]
      /\ \A j \in 1 .. n + 1 : j >= i => b.kids[j + 1] = a.kids[j]
    BY <1>1 DEF Grows
<1>3. /\ \A j, l \in 1 .. n + 1 : j < l => b.keys[j] < b.keys[l]
      /\ \A j \in 1 .. n + 1 : b.keys[j] \in Int
    <2>1. \A j \in 1 .. Len(b.keys) : b.keys[j] \in Key
        BY DEF Formed
    <2>2. \A j \in 1 .. Len(b.keys) : b.keys[j] \in Int
        BY <2>1, KeysAreInts
    <2>3. \A j, l \in 1 .. Len(b.keys) : j < l => b.keys[j] < b.keys[l]
        BY DEF Formed, Sorted
    <2> QED BY <2>2, <2>3, <1>2
<1>4. Link(b) = Link(a)
    <2>1. n + 1 \in 1 .. n + 1 /\ n + 1 >= i
        BY <1>1, <1>2
    <2> QED BY <2>1, <1>2 DEF Link
<1> HIDE DEF n
<1>5. ASSUME NEW j, NEW v, Keeps(b, j, v) PROVE Keeps(a, j, v) \/ (j = k /\ v = x)
    <2>1. PICK d \in 1 .. n + 1 : b.keys[d] = j /\ b.kids[d] = v
        BY <1>2, <1>5 DEF Keeps
    <2>2. CASE d < i
        <3>1. d \in 1 .. n
            BY <2>2, <1>1, <1>2
        <3> QED BY <2>1, <2>2, <3>1, <1>2 DEF Keeps, n
    <2>3. CASE d = i
        BY <2>1, <2>3, <1>2
    <2>4. CASE d > i
        <3>1. PICK e \in 1 .. n : e + 1 = d /\ e >= i /\ e \in 1 .. n + 1
            <4>1. d - 1 \in 1 .. n /\ (d - 1) + 1 = d /\ d - 1 >= i /\ d - 1 \in 1 .. n + 1
                BY <2>4, <1>1, <1>2
            <4> QED BY <4>1
        <3>2. a.keys[e] = j /\ a.kids[e] = v
            BY <3>1, <2>1, <1>2
        <3> QED BY <3>2 DEF Keeps, n
    <2> QED BY <2>2, <2>3, <2>4, <1>2
<1>6. ASSUME NEW j, NEW v, Keeps(a, j, v) PROVE Keeps(b, j, v) /\ j # k
    <2>1. PICK d \in 1 .. n : a.keys[d] = j /\ a.kids[d] = v
        BY <1>6 DEF Keeps, n
    <2>2. PICK e \in 1 .. n + 1 : b.keys[e] = j /\ b.kids[e] = v /\ e # i
        <3>1. CASE d < i
            <4>1. d \in 1 .. n + 1
                BY <1>1
            <4>2. b.keys[d] = j /\ b.kids[d] = v /\ d # i
                BY <3>1, <4>1, <2>1, <1>2
            <4> QED BY <4>1, <4>2
        <3>2. CASE d >= i
            <4>1. d + 1 \in 1 .. n + 1 /\ d \in 1 .. n + 1 /\ d + 1 # i
                BY <3>2, <1>1, <1>2
            <4>2. b.keys[d + 1] = j /\ b.kids[d + 1] = v
                BY <4>1, <3>2, <2>1, <1>2
            <4> QED BY <4>1, <4>2
        <3> QED BY <3>1, <3>2, <1>2
    <2>3. j # k
        <3>1. e < i \/ i < e
            BY <2>2, <1>2
        <3>2. b.keys[e] < b.keys[i] \/ b.keys[i] < b.keys[e]
            BY <3>1, <1>2, <1>3
        <3>3. b.keys[e] \in Int
            BY <1>3
        <3> QED BY <3>2, <3>3, <2>2, <1>2
    <2> QED BY <2>2, <2>3, <1>2 DEF Keeps
<1>7. Keeps(b, k, x)
    BY <1>2 DEF Keeps
<1> QED BY <1>2, <1>4, <1>5, <1>6, <1>7

LEMMA RemoveIs ==
    ASSUME NEW node, Formed(node), NEW i \in 1 .. Len(node.keys)
    PROVE  LET w == RemoveKey(node, i)
           IN  /\ NodeType(w) /\ w.leaf = node.leaf /\ Len(w.keys) = Len(node.keys) - 1
               /\ \A j \in 1 .. Len(node.keys) - 1 : w.keys[j] = IF j < i THEN node.keys[j] ELSE node.keys[j + 1]
               /\ \A j \in 1 .. Len(node.keys) : w.kids[j] = IF j < i THEN node.kids[j] ELSE node.kids[j + 1]
<1> DEFINE n == Len(node.keys)
           keys == RemoveAt(node.keys, i)
           kids == RemoveAt(node.kids, i)
           w == RemoveKey(node, i)
<1>1. /\ node \in [leaf : BOOLEAN, keys : Seq(Key), kids : Seq(Kid)] /\ node.keys \in Seq(Key) /\ node.kids \in Seq(Kid)
      /\ Len(node.kids) = n + 1 /\ n \in Nat
    BY DEF Formed
<1>2. i \in 1 .. Len(node.kids)
    BY <1>1
<1>3. /\ keys \in Seq(Key) /\ Len(keys) = n - 1
      /\ \A j \in 1 .. n - 1 : keys[j] = IF j < i THEN node.keys[j] ELSE node.keys[j + 1]
    BY <1>1, Removed
<1>4. /\ kids \in Seq(Kid) /\ Len(kids) = Len(node.kids) - 1
      /\ \A j \in 1 .. Len(node.kids) - 1 : kids[j] = IF j < i THEN node.kids[j] ELSE node.kids[j + 1]
    BY <1>1, <1>2, Removed
<1>5. Len(node.kids) - 1 = n /\ n = (n - 1) + 1
    BY <1>1
<1>6. w = [node EXCEPT !.keys = keys, !.kids = kids]
    BY DEF RemoveKey
<1> HIDE DEF keys, kids, w
<1>7. w.keys = keys /\ w.kids = kids /\ w.leaf = node.leaf
      /\ w \in [leaf : BOOLEAN, keys : Seq(Key), kids : Seq(Kid)]
    BY <1>1, <1>3, <1>4, <1>6
<1>8. NodeType(w)
    BY <1>3, <1>4, <1>5, <1>7 DEF NodeType
<1> QED BY <1>3, <1>4, <1>5, <1>7, <1>8 DEF w

LEMMA RemoveShrinks ==
    ASSUME NEW node, Formed(node), node.leaf, NEW i \in 1 .. Len(node.keys)
    PROVE  NodeType(RemoveKey(node, i)) /\ Grows(RemoveKey(node, i), node, i, node.keys[i], node.kids[i])
<1> DEFINE n == Len(node.keys)
           w == RemoveKey(node, i)
<1>1. /\ NodeType(w) /\ w.leaf = node.leaf /\ Len(w.keys) = n - 1
      /\ \A j \in 1 .. n - 1 : w.keys[j] = IF j < i THEN node.keys[j] ELSE node.keys[j + 1]
      /\ \A j \in 1 .. n : w.kids[j] = IF j < i THEN node.kids[j] ELSE node.kids[j + 1]
    BY RemoveIs
<1>2. /\ node \in [leaf : BOOLEAN, keys : Seq(Key), kids : Seq(Kid)]
      /\ Len(node.kids) = n + 1 /\ n \in Nat /\ i \in 1 .. n /\ Len(w.kids) = n
    BY <1>1 DEF Formed, NodeType
<1> HIDE DEF n, w
<1>3. Len(node.keys) = n
    BY DEF n
<1>4. /\ n = Len(w.keys) + 1 /\ Len(w.kids) + 1 = n + 1 /\ (n - 1) + 1 = n
    BY <1>1, <1>2
<1>5. Grows(w, node, i, node.keys[i], node.kids[i])
    BY <1>1, <1>2, <1>3, <1>4 DEF Grows
<1> QED BY <1>1, <1>5 DEF w

LEMMA ClosedShrinks ==
    ASSUME NEW node, Formed(node), ~node.leaf, NEW c \in 1 .. Len(node.keys), NEW o, o = node.kids[c]
    PROVE  NodeType(Closed(node, c, o)) /\ Grows(Closed(node, c, o), node, c, node.keys[c], node.kids[c + 1])
<1> DEFINE n == Len(node.keys)
           v == [node EXCEPT !.kids[c + 1] = o]
           w == RemoveKey(v, c)
<1>1. /\ node \in [leaf : BOOLEAN, keys : Seq(Key), kids : Seq(Kid)]
      /\ Len(node.kids) = n + 1 /\ n \in Nat /\ c \in 1 .. n /\ node.kids \in Seq(Kid) /\ node.keys \in Seq(Key)
      /\ Sorted(node.keys)
    BY DEF Formed
<1>2. c \in 1 .. Len(node.kids) /\ c + 1 \in 1 .. Len(node.kids) /\ o \in Kid
    BY <1>1
<1>3. /\ v.keys = node.keys /\ v.leaf = node.leaf /\ v.kids = [node.kids EXCEPT ![c + 1] = o]
      /\ v.kids \in Seq(Kid) /\ Len(v.kids) = n + 1
      /\ v \in [leaf : BOOLEAN, keys : Seq(Key), kids : Seq(Kid)]
      /\ \A j \in 1 .. n + 1 : v.kids[j] = IF j = c + 1 THEN o ELSE node.kids[j]
    BY <1>1, <1>2
<1> HIDE DEF v
<1>4. Formed(v)
    BY <1>1, <1>3 DEF Formed
<1>5. /\ NodeType(w) /\ w.leaf = v.leaf /\ Len(w.keys) = Len(v.keys) - 1
      /\ \A j \in 1 .. Len(v.keys) - 1 : w.keys[j] = IF j < c THEN v.keys[j] ELSE v.keys[j + 1]
      /\ \A j \in 1 .. Len(v.keys) : w.kids[j] = IF j < c THEN v.kids[j] ELSE v.kids[j + 1]
    <2>1. c \in 1 .. Len(v.keys)
        BY <1>3
    <2> QED BY <2>1, <1>4, RemoveIs
<1>6. Closed(node, c, o) = w
    BY DEF Closed, v
<1> HIDE DEF w, n
<1>7. Len(node.keys) = n /\ Len(w.keys) = n - 1 /\ n = Len(w.keys) + 1 /\ (n - 1) + 1 = n
    BY <1>1, <1>3, <1>5 DEF n
<1>8. Len(w.kids) = n /\ Len(node.kids) = n + 1
    BY <1>1, <1>5, <1>7 DEF NodeType
<1>9. \A j \in 1 .. n - 1 : w.keys[j] = IF j < c THEN node.keys[j] ELSE node.keys[j + 1]
    BY <1>3, <1>5, <1>7
<1>10. ASSUME NEW j \in 1 .. n, j < c + 1 PROVE node.kids[j] = w.kids[j]
    <2>1. w.kids[j] = IF j < c THEN v.kids[j] ELSE v.kids[j + 1]
        BY <1>3, <1>5, <1>7
    <2>2. j \in 1 .. n + 1 /\ j + 1 \in 1 .. n + 1 /\ j # c + 1
        BY <1>1, <1>10
    <2>3. CASE j < c
        BY <2>1, <2>2, <2>3, <1>3
    <2>4. CASE j = c
        BY <2>1, <2>2, <2>4, <1>3
    <2> QED BY <2>3, <2>4, <1>1, <1>10
<1>11. ASSUME NEW j \in 1 .. n, j >= c + 1 PROVE node.kids[j + 1] = w.kids[j]
    <2>1. w.kids[j] = IF j < c THEN v.kids[j] ELSE v.kids[j + 1]
        BY <1>3, <1>5, <1>7
    <2>2. j + 1 \in 1 .. n + 1 /\ j + 1 # c + 1 /\ ~(j < c)
        BY <1>1, <1>11
    <2> QED BY <2>1, <2>2, <1>3
<1>12. Grows(w, node, c, node.keys[c], node.kids[c + 1])
    BY <1>1, <1>3, <1>5, <1>7, <1>8, <1>9, <1>10, <1>11 DEF Grows
<1> QED BY <1>5, <1>6, <1>12

LEMMA LeafWith ==
    ASSUME NEW node, Formed(node), node.leaf, NEW k \in Key, NEW x \in Kid
    PROVE  /\ Turned(node, AddKey(node, k, x), k, {x})
           /\ Len(AddKey(node, k, x).keys) = Len(node.keys) + (IF Holds(node, k) THEN 0 ELSE 1)
<1> DEFINE w == AddKey(node, k, x)
<1>1. CASE ~Holds(node, k)
    <2>1. Widens(node, w, Pos(node.keys, k), k, x)
        BY <1>1, Widened
    <2>2. NodeType(node)
        BY DEF Formed, NodeType
    <2> HIDE DEF w
    <2>3. Formed(w) /\ Grows(node, w, Pos(node.keys, k), k, x)
        BY <2>1 DEF Widens
    <2>4. /\ Link(w) = Link(node) /\ w.leaf
          /\ \A j, v : Keeps(w, j, v) <=> Keeps(node, j, v) \/ (j = k /\ v = x)
          /\ \A v : ~Keeps(node, k, v)
        BY <2>2, <2>3, LeafGrown
    <2>5. Turned(node, w, k, {x})
        BY <2>3, <2>4 DEF Turned
    <2>6. Len(w.keys) = Len(node.keys) + 1
        BY <2>3 DEF Grows
    <2> QED BY <2>5, <2>6, <1>1 DEF w
<1>2. CASE Holds(node, k)
    <2> DEFINE i == Pos(node.keys, k)
    <2>1. /\ node \in [leaf : BOOLEAN, keys : Seq(Key), kids : Seq(Kid)]
          /\ Len(node.kids) = Len(node.keys) + 1 /\ Len(node.keys) \in Nat /\ node.kids \in Seq(Kid)
          /\ Sorted(node.keys)
        BY DEF Formed
    <2>2. i \in 1 .. Len(node.keys) /\ node.keys[i] = k /\ \A j \in 1 .. Len(node.keys) : node.keys[j] = k => j = i
        <3>1. PICK j \in 1 .. Len(node.keys) : node.keys[j] = k
            BY <1>2, HoldsIs
        <3>2. \A d \in 1 .. Len(node.keys) : node.keys[d] = k => d = i
            BY HoldsIs
        <3> QED BY <3>1, <3>2
    <2>3. w = [node EXCEPT !.kids[i] = x]
        BY <1>2 DEF AddKey
    <2> HIDE DEF w, i
    <2>4. /\ w.keys = node.keys /\ w.leaf = node.leaf /\ w.kids = [node.kids EXCEPT ![i] = x]
        BY <2>1, <2>3
    <2>5. /\ w.kids \in Seq(Kid) /\ Len(w.kids) = Len(node.kids)
          /\ w.kids[i] = x /\ \A j \in 1 .. Len(node.kids) : j # i => w.kids[j] = node.kids[j]
        BY <2>1, <2>2, <2>4
    <2>6. w \in [leaf : BOOLEAN, keys : Seq(Key), kids : Seq(Kid)]
        BY <2>1, <2>3, <2>4, <2>5
    <2>7. Formed(w)
        BY <2>1, <2>4, <2>5, <2>6 DEF Formed
    <2>8. Link(w) = Link(node)
        <3>1. Len(node.keys) + 1 \in 1 .. Len(node.kids) /\ Len(node.keys) + 1 # i
            BY <2>1, <2>2
        <3> QED BY <3>1, <2>4, <2>5 DEF Link
    <2>9. ASSUME NEW j, NEW v PROVE Keeps(w, j, v) <=> IF j = k THEN v \in {x} ELSE Keeps(node, j, v)
        <3>1. \A d \in 1 .. Len(node.keys) : d \in 1 .. Len(node.kids)
            BY <2>1
        <3>2. CASE j = k
            BY <3>2, <2>2, <2>4, <2>5 DEF Keeps
        <3>3. CASE j # k
            BY <3>1, <3>3, <2>2, <2>4, <2>5 DEF Keeps
        <3> QED BY <3>2, <3>3
    <2>10. Len(w.keys) = Len(node.keys) + 0
        BY <2>1, <2>4
    <2> QED BY <2>4, <2>7, <2>8, <2>9, <2>10, <1>2 DEF Turned, w
<1> QED BY <1>1, <1>2

LEMMA LeafWithout ==
    ASSUME NEW node, Formed(node), node.leaf, NEW k \in Key, Holds(node, k)
    PROVE  /\ Turned(node, RemoveKey(node, Pos(node.keys, k)), k, {})
           /\ Len(RemoveKey(node, Pos(node.keys, k)).keys) = Len(node.keys) - 1
<1> DEFINE i == Pos(node.keys, k)
           w == RemoveKey(node, i)
<1>1. i \in 1 .. Len(node.keys) /\ node.keys[i] = k
    <2>1. PICK j \in 1 .. Len(node.keys) : node.keys[j] = k
        BY HoldsIs
    <2>2. \A d \in 1 .. Len(node.keys) : node.keys[d] = k => d = i
        BY HoldsIs
    <2> QED BY <2>1, <2>2
<1>2. NodeType(w) /\ Grows(w, node, i, node.keys[i], node.kids[i])
    <2> HIDE DEF i
    <2> QED BY <1>1, RemoveShrinks
<1>3. w.leaf = node.leaf /\ Len(w.keys) = Len(node.keys) - 1
    <2> HIDE DEF i
    <2> QED BY <1>1, RemoveIs
<1> HIDE DEF w, i
<1>4. Grows(w, node, i, k, node.kids[i])
    BY <1>1, <1>2
<1>5. /\ Link(node) = Link(w)
      /\ \A j, v : Keeps(node, j, v) <=> Keeps(w, j, v) \/ (j = k /\ v = node.kids[i])
      /\ \A v : ~Keeps(w, k, v)
    <2>1. NodeType(w) /\ w.leaf
        BY <1>2, <1>3
    <2> QED BY <2>1, <1>4, LeafGrown
<1>6. Formed(w)
    BY <1>2, <1>4, Shrunk
<1>7. \A j, v : Keeps(w, j, v) <=> IF j = k THEN v \in {} ELSE Keeps(node, j, v)
    BY <1>5
<1> QED BY <1>3, <1>5, <1>6, <1>7 DEF Turned, w, i

LEMMA SizedMore ==
    ASSUME NEW node, Formed(node), NEW o, NEW root, NEW big, NEW small, Sized(node, o, root, {}, {})
    PROVE  Sized(node, o, root, big, small)
<1>1. Len(node.keys) \in Nat /\ MinKeys(node) \in Nat
    BY Orders DEF Formed, MinKeys
<1>2. Len(node.keys) <= MaxKeys /\ Len(node.keys) >= IF o = root THEN 1 ELSE MinKeys(node)
    BY <1>1 DEF Sized
<1>3. Len(node.keys) + 1 >= IF o = root THEN 1 ELSE MinKeys(node)
    BY <1>1, <1>2
<1> QED BY <1>1, <1>2, <1>3 DEF Sized

LEMMA LeafTurned ==
    ASSUME NEW G, NEW t, IsTree(G, t, {}, {}), NEW o \in t.nodes, t.lev[o] = 0,
           NEW k \in t.rng[o], NEW V,
           NEW G2, Turned(G[o], G2[o], k, V), \A x \in t.nodes : x # o => G2[x] = G[x],
           NEW big, NEW small, Sized(G2[o], o, t.root, big, small)
    PROVE  /\ IsTree(G2, t, big, small)
           /\ \A j, v : Entry(G2, t, j, v) <=> IF j = k THEN v \in V ELSE Entry(G, t, j, v)
<1>1. /\ Placed(t) /\ Apart(t) /\ Local(G, t, o) /\ (\A x \in t.nodes : Local(G, t, x))
      /\ \A x \in t.nodes : Sized(G[x], x, t.root, {}, {})
    BY DEF IsTree
<1> DEFINE w == G2[o]
<1>2. /\ Formed(w) /\ w.leaf = G[o].leaf /\ Link(w) = Link(G[o])
      /\ \A j, v : Keeps(w, j, v) <=> IF j = k THEN v \in V ELSE Keeps(G[o], j, v)
    BY DEF Turned
<1>3. ASSUME NEW x \in t.nodes, t.lev[x] = 0, NEW j, NEW v, Keeps(G[x], j, v) PROVE j \in t.rng[x]
    BY <1>1, <1>3 DEF Local, Keeps
<1>4. ASSUME NEW i \in 1 .. Len(w.keys) PROVE w.keys[i] \in t.rng[o]
    <2>1. Keeps(w, w.keys[i], w.kids[i])
        BY DEF Keeps
    <2>2. w.keys[i] = k \/ Keeps(G[o], w.keys[i], w.kids[i])
        BY <2>1, <1>2
    <2> QED BY <2>2, <1>3
<1>5. Local(G2, t, o)
    BY <1>1, <1>2, <1>4 DEF Local
<1>6. ASSUME NEW x \in t.nodes PROVE Sized(G2[x], x, t.root, big, small)
    <2>1. CASE x # o
        <3>1. Formed(G[x]) /\ Sized(G[x], x, t.root, {}, {}) /\ G2[x] = G[x]
            BY <2>1, <1>1 DEF Local
        <3> QED BY <3>1, SizedMore
    <2> QED BY <2>1
<1>7. IsTree(G2, t, big, small)
    BY <1>2, <1>5, <1>6, Regrown
<1>8. ASSUME NEW j, NEW v PROVE Entry(G2, t, j, v) <=> IF j = k THEN v \in V ELSE Entry(G, t, j, v)
    <2>1. ASSUME NEW x \in t.nodes, x # o, t.lev[x] = 0 PROVE ~Keeps(G[x], k, v)
        BY <2>1, <1>1, <1>3 DEF Apart
    <2>2. CASE j = k
        <3>1. Entry(G2, t, j, v) <=> Keeps(w, j, v)
            BY <2>1, <2>2 DEF Entry
        <3> QED BY <3>1, <2>2, <1>2
    <2>3. CASE j # k
        <3>1. Keeps(w, j, v) <=> Keeps(G[o], j, v)
            BY <2>3, <1>2
        <3> QED BY <3>1, <2>3 DEF Entry
    <2> QED BY <2>2, <2>3
<1> QED BY <1>7, <1>8

-----------------------------------------------------------------------------
(* A new root above the old one, and the way back.                         *)

RaiseGhost(t, u) ==
    [nodes |-> t.nodes \cup {u}, root |-> u,
     lev |-> [x \in t.nodes \cup {u} |-> IF x = u THEN t.lev[t.root] + 1 ELSE t.lev[x]],
     rng |-> [x \in t.nodes \cup {u} |-> IF x = u THEN Key ELSE t.rng[x]]]

LEMMA Raised ==
    ASSUME NEW G, NEW t, NEW o, o = t.root, IsTree(G, t, {o}, {}), Len(G[o].keys) >= MinKeys(G[o]),
           NEW u \in Nat \ {0}, u \notin t.nodes,
           NEW G2, G2[u] = Internal(<<>>, <<o>>), \A x \in t.nodes : G2[x] = G[x]
    PROVE  IsTree(G2, RaiseGhost(t, u), {o}, {u}) /\ SameEntries(G, t, G2, RaiseGhost(t, u))
<1> DEFINE t2 == RaiseGhost(t, u)
<1>1. /\ Placed(t) /\ Apart(t) /\ Linked(G, t) /\ (\A x \in t.nodes : Local(G, t, x))
      /\ \A x \in t.nodes : Sized(G[x], x, t.root, {o}, {})
    BY DEF IsTree
<1>2. /\ o \in t.nodes /\ t.rng[o] = Key /\ t.lev[o] \in Nat /\ Key # {} /\ t.nodes \subseteq Nat \ {0}
      /\ \A x \in t.nodes : t.lev[x] \in Nat /\ t.lev[x] <= t.lev[o] /\ Reaches(t.rng[x])
    BY <1>1 DEF Placed, Reaches
<1>3. /\ t2.nodes = t.nodes \cup {u} /\ t2.root = u /\ t2.lev[u] = t.lev[o] + 1 /\ t2.rng[u] = Key
      /\ \A x \in t.nodes : t2.lev[x] = t.lev[x] /\ t2.rng[x] = t.rng[x]
    BY DEF RaiseGhost
<1> HIDE DEF t2
<1>4. Placed(t2)
    <2>1. Reaches(Key)
        BY <1>2
    <2>2. ASSUME NEW x \in t2.nodes PROVE t2.lev[x] \in Nat /\ t2.lev[x] <= t2.lev[u] /\ Reaches(t2.rng[x])
        <3>1. CASE x = u
            BY <3>1, <2>1, <1>2, <1>3
        <3>2. CASE x \in t.nodes
            <4>1. t.lev[x] \in Nat /\ t.lev[x] <= t.lev[o] + 1 /\ Reaches(t.rng[x])
                BY <3>2, <1>2
            <4> QED BY <4>1, <3>2, <1>3
        <3> QED BY <3>1, <3>2, <1>3
    <2>3. t2.root \in t2.nodes /\ t2.rng[t2.root] = Key /\ t2.nodes \subseteq Nat \ {0}
        BY <1>2, <1>3
    <2> QED BY <2>2, <2>3, <1>3 DEF Placed
<1>5. Apart(t2)
    <2>1. \A x \in t.nodes : t2.lev[x] # t2.lev[u]
        BY <1>2, <1>3
    <2> QED BY <2>1, <1>1, <1>3 DEF Apart
<1>6. Linked(G2, t2)
    <2>1. t2.lev[u] # 0
        BY <1>2, <1>3
    <2>2. ASSUME NEW x \in t.nodes, t.lev[x] = 0 PROVE Behind(t2, x, Link(G2[x]))
        <3>1. Behind(t, x, Link(G[x])) /\ G2[x] = G[x]
            BY <2>2, <1>1 DEF Linked
        <3> QED BY <3>1, <1>3 DEF Behind, NextTo
    <2> QED BY <2>1, <2>2, <1>3 DEF Linked
<1>7. Local(G2, t2, u)
    <2> DEFINE w == G2[u]
    <2>1. /\ w.leaf = FALSE /\ w.keys = <<>> /\ w.kids = <<o>> /\ Len(w.keys) = 0 /\ Len(w.kids) = 1
          /\ w.kids[1] = o
        BY DEF Internal
    <2> HIDE DEF w
    <2>2. Formed(w)
        <3>1. o \in Kid
            BY <1>2 DEF Kid
        <3>2. <<>> \in Seq(Key) /\ <<o>> \in Seq(Kid)
            BY <3>1
        <3>3. w \in [leaf : BOOLEAN, keys : Seq(Key), kids : Seq(Kid)]
            BY <3>2 DEF Internal, w
        <3>4. Sorted(w.keys)
            BY <2>1 DEF Sorted
        <3>5. Len(w.kids) = Len(w.keys) + 1
            <4>1. 1 = 0 + 1
                OBVIOUS
            <4> QED BY <4>1, <2>1, Zenon
        <3> QED BY <3>3, <3>4, <3>5 DEF Formed
    <2>3. \A k \in Key : Bounded(<<>>, 1, k)
        BY DEF Bounded
    <2>4. ASSUME NEW c \in 1 .. Len(w.kids)
          PROVE  /\ w.kids[c] \in t2.nodes /\ t2.lev[w.kids[c]] = t2.lev[u] - 1
                 /\ \A k \in Key : k \in t2.rng[w.kids[c]] <=> k \in t2.rng[u] /\ Bounded(w.keys, c, k)
        <3>1. c = 1 /\ w.kids[c] = o
            BY <2>1
        <3>2. t2.lev[o] = t2.lev[u] - 1 /\ o \in t2.nodes /\ t2.rng[o] = Key
            BY <1>2, <1>3
        <3> QED BY <3>1, <3>2, <2>1, <2>3, <1>3
    <2>5. t2.lev[u] # 0 /\ \A i \in 1 .. Len(w.keys) : w.keys[i] \in t2.rng[u]
        BY <2>1, <1>2, <1>3
    <2>6. ~w.leaf
        BY <2>1
    <2> QED BY <2>2, <2>4, <2>5, <2>6 DEF Local, w
<1>8. ASSUME NEW x \in t.nodes PROVE Local(G2, t2, x)
    <2>1. Local(G, t, x) /\ G2[x] = G[x]
        BY <1>1
    <2> QED BY <2>1, <1>3 DEF Local
<1>9. ASSUME NEW x \in t2.nodes PROVE Sized(G2[x], x, u, {o}, {u})
    <2>1. CASE x = u
        BY <2>1, Orders DEF Sized, Internal
    <2>2. CASE x = o
        <3>1. Len(G[o].keys) \in Nat /\ Len(G[o].keys) + 0 >= MinKeys(G[o])
            BY <1>1, <1>2 DEF Local, Formed
        <3> QED BY <2>2, <3>1, <1>2 DEF Sized
    <2>3. CASE x \in t.nodes /\ x # o
        <3>1. Sized(G[x], x, o, {o}, {}) /\ G2[x] = G[x] /\ x # u
            BY <2>3, <1>1
        <3> QED BY <3>1, <2>3 DEF Sized
    <2> QED BY <2>1, <2>2, <2>3, <1>3
<1>10. IsTree(G2, t2, {o}, {u})
    BY <1>3, <1>4, <1>5, <1>6, <1>7, <1>8, <1>9 DEF IsTree
<1>11. SameEntries(G, t, G2, t2)
    <2>1. t2.lev[u] # 0
        BY <1>2, <1>3
    <2> QED BY <2>1, <1>3 DEF SameEntries, Entry
<1> QED BY <1>10, <1>11 DEF t2

LowerGhost(t, o) ==
    [nodes |-> t.nodes \ {t.root}, root |-> o,
     lev |-> [x \in t.nodes \ {t.root} |-> t.lev[x]],
     rng |-> [x \in t.nodes \ {t.root} |-> t.rng[x]]]

LEMMA Lowered ==
    ASSUME NEW G, NEW t, NEW u, u = t.root, IsTree(G, t, {}, {u}), t.lev[u] # 0, Len(G[u].keys) = 0,
           NEW o, o = G[u].kids[1],
           NEW G2, \A x \in t.nodes : x # u => G2[x] = G[x]
    PROVE  /\ o \in t.nodes /\ o # u
           /\ IsTree(G2, LowerGhost(t, o), {}, {}) /\ SameEntries(G, t, G2, LowerGhost(t, o))
<1> DEFINE t2 == LowerGhost(t, o)
<1>1. /\ Placed(t) /\ Apart(t) /\ Linked(G, t) /\ (\A x \in t.nodes : Local(G, t, x))
      /\ \A x \in t.nodes : Sized(G[x], x, u, {}, {u})
    BY DEF IsTree
<1>2. /\ u \in t.nodes /\ t.rng[u] = Key /\ t.lev[u] \in Nat /\ t.nodes \subseteq Nat \ {0}
      /\ \A x \in t.nodes : t.lev[x] \in Nat /\ t.lev[x] <= t.lev[u] /\ Reaches(t.rng[x])
    BY <1>1 DEF Placed
<1>3. /\ o \in t.nodes /\ t.lev[o] = t.lev[u] - 1
      /\ \A k \in Key : k \in t.rng[o]
      /\ Len(G[u].kids) = 1
    <2>1. Local(G, t, u)
        BY <1>1, <1>2
    <2>2. Len(G[u].kids) = 1 /\ 1 \in 1 .. Len(G[u].kids)
        BY <2>1 DEF Local, Formed
    <2>3. \A k \in Key : Bounded(G[u].keys, 1, k)
        BY DEF Bounded
    <2> QED BY <2>1, <2>2, <2>3, <1>2 DEF Local
<1>4. o # u /\ t.rng[o] = Key
    BY <1>2, <1>3 DEF Reaches
<1>5. ASSUME NEW x \in t.nodes, x # u PROVE t.lev[x] <= t.lev[o]
    <2>1. PICK k \in Key : k \in t.rng[x]
        BY <1>2 DEF Reaches
    <2>2. t.lev[x] # t.lev[u]
        BY <2>1, <1>1, <1>2, <1>5 DEF Apart
    <2> QED BY <2>2, <1>2, <1>3
<1>6. /\ t2.nodes = t.nodes \ {u} /\ t2.root = o
      /\ \A x \in t.nodes \ {u} : t2.lev[x] = t.lev[x] /\ t2.rng[x] = t.rng[x]
    BY DEF LowerGhost
<1> HIDE DEF t2
<1>7. Placed(t2)
    BY <1>2, <1>3, <1>4, <1>5, <1>6 DEF Placed
<1>8. Apart(t2)
    BY <1>1, <1>6 DEF Apart
<1>9. Linked(G2, t2)
    <2> SUFFICES ASSUME NEW x \in t.nodes \ {u}, t.lev[x] = 0 PROVE Behind(t2, x, Link(G2[x]))
        BY <1>6 DEF Linked
    <2>1. Behind(t, x, Link(G[x])) /\ G2[x] = G[x]
        BY <1>1 DEF Linked
    <2> QED BY <2>1, <1>6 DEF Behind, NextTo
<1>10. ASSUME NEW x \in t.nodes \ {u} PROVE Local(G2, t2, x)
    <2>1. Local(G, t, x) /\ G2[x] = G[x]
        BY <1>1
    <2>2. ASSUME t.lev[x] # 0, NEW c \in 1 .. Len(G[x].kids)
          PROVE  G[x].kids[c] \in t.nodes \ {u}
        <3>1. G[x].kids[c] \in t.nodes /\ t.lev[G[x].kids[c]] = t.lev[x] - 1
            BY <2>1, <2>2 DEF Local
        <3>2. t.lev[G[x].kids[c]] # t.lev[u]
            BY <3>1, <1>2
        <3> QED BY <3>1, <3>2
    <2> QED BY <2>1, <2>2, <1>6 DEF Local
<1>11. ASSUME NEW x \in t.nodes \ {u} PROVE Sized(G2[x], x, o, {}, {})
    <2>1. Sized(G[x], x, u, {}, {u}) /\ G2[x] = G[x] /\ Formed(G[x])
        BY <1>1 DEF Local
    <2>2. Len(G[x].keys) \in Nat /\ MinKeys(G[x]) \in Nat /\ MinKeys(G[x]) >= 1
        BY <2>1, Orders DEF Formed, MinKeys
    <2>3. Len(G[x].keys) <= MaxKeys /\ Len(G[x].keys) + 0 >= MinKeys(G[x])
        BY <2>1 DEF Sized
    <2>4. Len(G[x].keys) + 0 >= IF x = o THEN 1 ELSE MinKeys(G[x])
        BY <2>2, <2>3
    <2> QED BY <2>1, <2>3, <2>4 DEF Sized
<1>12. IsTree(G2, t2, {}, {})
    BY <1>6, <1>7, <1>8, <1>9, <1>10, <1>11 DEF IsTree
<1>13. SameEntries(G, t, G2, t2)
    BY <1>6 DEF SameEntries, Entry
<1> QED BY <1>3, <1>4, <1>12, <1>13 DEF t2

-----------------------------------------------------------------------------
(* Two siblings as one node, and the same node cut elsewhere: a merge is   *)
(* the one, a loan is both.                                                *)

RawCuts(w, l, r, n, m) ==
    /\ NodeType(l) /\ l.leaf = w.leaf /\ Len(l.keys) = n
    /\ \A i \in 1 .. n : l.keys[i] = w.keys[i]
    /\ \A i \in 1 .. m : l.kids[i] = w.kids[i]
    /\ NodeType(r) /\ r.leaf = w.leaf /\ Len(r.keys) = Len(w.keys) - m
    /\ \A i \in 1 .. Len(w.keys) - m : r.keys[i] = w.keys[m + i]
    /\ \A i \in 1 .. Len(w.keys) + 1 - m : r.kids[i] = w.kids[m + i]

LEMMA RawCutsSorted ==
    ASSUME NEW w, Formed(w), NEW l, NEW r, NEW n \in Nat, NEW m \in Nat, n <= m, m <= Len(w.keys),
           RawCuts(w, l, r, n, m)
    PROVE  Cuts(w, l, r, n, m)
<1> DEFINE N == Len(w.keys)
<1>1. /\ N \in Nat /\ m <= N
      /\ \A i, j \in 1 .. N : i < j => w.keys[i] < w.keys[j]
    BY DEF Formed, Sorted
<1>2. /\ NodeType(l) /\ Len(l.keys) = n /\ \A i \in 1 .. n : l.keys[i] = w.keys[i]
      /\ NodeType(r) /\ Len(r.keys) = N - m /\ \A i \in 1 .. N - m : r.keys[i] = w.keys[m + i]
    BY DEF RawCuts
<1> HIDE DEF N
<1>3. Sorted(l.keys)
    <2>1. \A i \in 1 .. n : i \in 1 .. N
        BY <1>1
    <2> QED BY <2>1, <1>1, <1>2 DEF Sorted
<1>4. Sorted(r.keys)
    <2>1. \A i, j \in 1 .. N - m : m + i \in 1 .. N /\ (i < j => m + i < m + j)
        BY <1>1
    <2> QED BY <2>1, <1>1, <1>2 DEF Sorted
<1>5. Formed(l) /\ Formed(r)
    BY <1>2, <1>3, <1>4 DEF Formed, NodeType
<1> QED BY <1>5 DEF RawCuts, Cuts

Skip(w, n) == IF w.leaf THEN n ELSE n + 1

LEMMA JoinedIs ==
    ASSUME NEW l, Formed(l), NEW r, Formed(r), l.leaf = r.leaf, NEW s \in Key
    PROVE  LET w == Joined(l, s, r)
               n == Len(l.keys)
           IN  /\ NodeType(w) /\ w.leaf = l.leaf /\ Len(w.keys) = Skip(l, n) + Len(r.keys)
               /\ Cuts(w, l, r, n, Skip(l, n))
               /\ ~l.leaf => w.keys[Skip(l, n)] = s
<1> DEFINE n == Len(l.keys)
           m == Skip(l, n)
           w == Joined(l, s, r)
           R == Len(r.keys)
<1>1. /\ l \in [leaf : BOOLEAN, keys : Seq(Key), kids : Seq(Kid)] /\ l.keys \in Seq(Key) /\ l.kids \in Seq(Kid)
      /\ Len(l.kids) = n + 1 /\ n \in Nat
      /\ r.keys \in Seq(Key) /\ r.kids \in Seq(Kid) /\ Len(r.kids) = R + 1 /\ R \in Nat
    BY DEF Formed
<1> HIDE DEF w, n, R
<1>2. Len(l.keys) = n /\ Len(r.keys) = R
    BY DEF n, R
<1>3. CASE l.leaf
    <2> DEFINE keys == l.keys \o r.keys
               kids == Front(l.kids) \o r.kids
    <2>1. m = n
        BY <1>3 DEF Skip
    <2>2. w = [l EXCEPT !.keys = keys, !.kids = kids]
        BY <1>3 DEF w, Joined
    <2>3. /\ keys \in Seq(Key) /\ Len(keys) = n + R
          /\ \A i \in 1 .. n : keys[i] = l.keys[i]
          /\ \A i \in 1 .. R : keys[n + i] = r.keys[i]
        <3>1. /\ keys \in Seq(Key) /\ Len(keys) = Len(l.keys) + Len(r.keys)
              /\ \A i \in 1 .. Len(l.keys) : keys[i] = l.keys[i]
              /\ \A i \in 1 .. Len(r.keys) : keys[Len(l.keys) + i] = r.keys[i]
            <4> DEFINE a == l.keys
                       b == r.keys
            <4>1. a \in Seq(Key) /\ b \in Seq(Key) /\ keys = a \o b
                BY <1>1
            <4> HIDE DEF a, b, keys
            <4>2. /\ a \o b \in Seq(Key) /\ Len(a \o b) = Len(a) + Len(b)
                  /\ \A i \in 1 .. Len(a) : (a \o b)[i] = a[i]
                  /\ \A i \in 1 .. Len(b) : (a \o b)[Len(a) + i] = b[i]
                BY <4>1, Chained
            <4> QED BY <4>1, <4>2 DEF a, b
        <3> HIDE DEF keys
        <3> QED BY <3>1, <1>2
    <2>4. /\ Front(l.kids) \in Seq(Kid) /\ Len(Front(l.kids)) = n
          /\ \A i \in 1 .. n : Front(l.kids)[i] = l.kids[i]
        <3>1. n \in 0 .. Len(l.kids) /\ 1 \in 1 .. Len(l.kids) + 1 /\ 1 <= n + 1 /\ Len(l.kids) - 1 = n /\ n - 1 + 1 = n
              /\ \A i \in 1 .. n : 1 + i - 1 = i
            BY <1>1
        <3>2. Front(l.kids) = SubSeq(l.kids, 1, n)
            BY <3>1 DEF Front
        <3>3. /\ SubSeq(l.kids, 1, n) \in Seq(Kid) /\ Len(SubSeq(l.kids, 1, n)) = n - 1 + 1
              /\ \A i \in 1 .. n - 1 + 1 : SubSeq(l.kids, 1, n)[i] = l.kids[1 + i - 1]
            BY <3>1, <1>1, Sliced
        <3> QED BY <3>1, <3>2, <3>3
    <2>5. /\ kids \in Seq(Kid) /\ Len(kids) = n + (R + 1)
          /\ \A i \in 1 .. n : kids[i] = l.kids[i]
          /\ \A i \in 1 .. R + 1 : kids[n + i] = r.kids[i]
        <3> DEFINE front == Front(l.kids)
        <3> HIDE DEF front
        <3>1. front \in Seq(Kid) /\ Len(front) = n /\ \A i \in 1 .. n : front[i] = l.kids[i]
            BY <2>4 DEF front
        <3>2. /\ front \o r.kids \in Seq(Kid) /\ Len(front \o r.kids) = Len(front) + Len(r.kids)
              /\ \A i \in 1 .. Len(front) : (front \o r.kids)[i] = front[i]
              /\ \A i \in 1 .. Len(r.kids) : (front \o r.kids)[Len(front) + i] = r.kids[i]
            <4>1. front \in Seq(Kid) /\ r.kids \in Seq(Kid)
                BY <3>1, <1>1
            <4> QED BY <4>1, Chained
        <3>3. kids = front \o r.kids
            BY DEF front
        <3> HIDE DEF kids
        <3> QED BY <3>1, <3>2, <3>3, <1>1
    <2> HIDE DEF keys, kids
    <2>6. w.keys = keys /\ w.kids = kids /\ w.leaf = l.leaf
          /\ w \in [leaf : BOOLEAN, keys : Seq(Key), kids : Seq(Kid)]
        BY <2>2, <2>3, <2>5, <1>1
    <2>7. Len(w.keys) = n + R /\ Len(w.keys) - n = R /\ Len(w.keys) + 1 - n = R + 1 /\ n + (R + 1) = Len(w.keys) + 1
        <3>1. Len(w.keys) = n + R
            BY <2>3, <2>6
        <3>2. n \in Nat /\ R \in Nat
            BY <1>1
        <3> QED BY <3>1, <3>2
    <2>8. NodeType(w)
        BY <2>5, <2>6, <2>7 DEF NodeType
    <2>9. Cuts(w, l, r, n, n)
        BY <2>3, <2>5, <2>6, <2>7, <1>2 DEF Cuts
    <2> QED BY <2>1, <2>6, <2>7, <2>8, <2>9, <1>2, <1>3 DEF w, n
<1>4. CASE ~l.leaf
    <2> DEFINE left == Append(l.keys, s)
               keys == left \o r.keys
               kids == l.kids \o r.kids
    <2>1. m = n + 1
        BY <1>4 DEF Skip
    <2>2. w = [l EXCEPT !.keys = keys, !.kids = kids]
        BY <1>4 DEF w, Joined
    <2>3. /\ left \in Seq(Key) /\ Len(left) = n + 1 /\ left[n + 1] = s
          /\ \A i \in 1 .. n : left[i] = l.keys[i]
        BY <1>1, <1>2, Appended
    <2> HIDE DEF left
    <2>4. /\ keys \in Seq(Key) /\ Len(keys) = (n + 1) + R
          /\ \A i \in 1 .. n + 1 : keys[i] = left[i]
          /\ \A i \in 1 .. R : keys[(n + 1) + i] = r.keys[i]
        <3>1. /\ keys \in Seq(Key) /\ Len(keys) = Len(left) + Len(r.keys)
              /\ \A i \in 1 .. Len(left) : keys[i] = left[i]
              /\ \A i \in 1 .. Len(r.keys) : keys[Len(left) + i] = r.keys[i]
            <4>1. left \in Seq(Key) /\ r.keys \in Seq(Key)
                BY <2>3, <1>1
            <4> QED BY <4>1, Chained
        <3> HIDE DEF keys
        <3> QED BY <3>1, <2>3, <1>2
    <2>5. /\ kids \in Seq(Kid) /\ Len(kids) = (n + 1) + (R + 1)
          /\ \A i \in 1 .. n + 1 : kids[i] = l.kids[i]
          /\ \A i \in 1 .. R + 1 : kids[(n + 1) + i] = r.kids[i]
        <3>1. /\ kids \in Seq(Kid) /\ Len(kids) = Len(l.kids) + Len(r.kids)
              /\ \A i \in 1 .. Len(l.kids) : kids[i] = l.kids[i]
              /\ \A i \in 1 .. Len(r.kids) : kids[Len(l.kids) + i] = r.kids[i]
            <4> DEFINE a == l.kids
                       b == r.kids
            <4>1. a \in Seq(Kid) /\ b \in Seq(Kid) /\ kids = a \o b
                BY <1>1
            <4> HIDE DEF a, b, kids
            <4>2. /\ a \o b \in Seq(Kid) /\ Len(a \o b) = Len(a) + Len(b)
                  /\ \A i \in 1 .. Len(a) : (a \o b)[i] = a[i]
                  /\ \A i \in 1 .. Len(b) : (a \o b)[Len(a) + i] = b[i]
                BY <4>1, Chained
            <4> QED BY <4>1, <4>2 DEF a, b
        <3> HIDE DEF kids
        <3> QED BY <3>1, <1>1
    <2> HIDE DEF keys, kids
    <2>6. w.keys = keys /\ w.kids = kids /\ w.leaf = l.leaf
          /\ w \in [leaf : BOOLEAN, keys : Seq(Key), kids : Seq(Kid)]
        BY <2>2, <2>4, <2>5, <1>1
    <2>7. /\ Len(w.keys) = (n + 1) + R /\ Len(w.keys) - (n + 1) = R /\ Len(w.keys) + 1 - (n + 1) = R + 1
          /\ (n + 1) + (R + 1) = Len(w.keys) + 1
        BY <2>4, <2>6, <1>1
    <2>8. NodeType(w)
        BY <2>5, <2>6, <2>7 DEF NodeType
    <2>9. \A i \in 1 .. n : i \in 1 .. n + 1
        BY <1>1
    <2>10. Cuts(w, l, r, n, n + 1)
        BY <2>3, <2>4, <2>5, <2>6, <2>7, <2>9, <1>2 DEF Cuts
    <2>11. n + 1 \in 1 .. n + 1
        BY <1>1
    <2> QED BY <2>1, <2>3, <2>4, <2>6, <2>7, <2>8, <2>10, <2>11, <1>2, <1>4 DEF w, n
<1> QED BY <1>1, <1>3, <1>4

-----------------------------------------------------------------------------
(* A loan between siblings l and r: their keys in a row, cut one key       *)
(* further to the right or to the left.                                    *)

Loan(l, r, s, l2, r2, s2, n, m) ==
    /\ RawCuts(Joined(l, s, r), l2, r2, n, m)
    /\ CutAt(Joined(l, s, r), n, m)
    /\ s2 = Joined(l, s, r).keys[m]
    /\ l.leaf => Link(l2) = Link(l)
Identity(text) == \A k \in Key : text[k] = k

LEMMA SlotKept ==
    ASSUME NEW keys \in Seq(Key), NEW c \in Nat \ {0}, NEW text, Identity(text)
    PROVE  FreeSlot(keys, c, text) = keys
<1>1. CASE c <= Len(keys)
    <2>1. c \in 1 .. Len(keys) /\ keys[c] \in Key
        BY <1>1
    <2>2. text[keys[c]] = keys[c]
        BY <2>1 DEF Identity
    <2>3. [keys EXCEPT ![c] = text[@]] = [keys EXCEPT ![c] = keys[c]]
        BY <2>2
    <2>4. [keys EXCEPT ![c] = keys[c]] = keys
        BY <2>1
    <2> QED BY <1>1, <2>3, <2>4 DEF FreeSlot
<1>2. CASE ~(c <= Len(keys))
    BY <1>2 DEF FreeSlot
<1> QED BY <1>1, <1>2

LEMMA LoanSizes ==
    ASSUME NEW l, Formed(l), NEW r, Formed(r), l.leaf = r.leaf, NEW s \in Key
    PROVE  /\ Len(l.keys) + 1 = MinKeys(l) /\ Len(r.keys) > MinKeys(r) /\ Len(r.keys) <= MaxKeys =>
                 /\ CutAt(Joined(l, s, r), Len(l.keys) + 1, Skip(l, Len(l.keys) + 1))
                 /\ Len(Joined(l, s, r).keys) - Skip(l, Len(l.keys) + 1) = Len(r.keys) - 1
           /\ Len(r.keys) + 1 = MinKeys(r) /\ Len(l.keys) > MinKeys(l) /\ Len(l.keys) <= MaxKeys =>
                 /\ CutAt(Joined(l, s, r), Len(l.keys) - 1, Skip(l, Len(l.keys) - 1))
                 /\ Len(Joined(l, s, r).keys) - Skip(l, Len(l.keys) - 1) = Len(r.keys) + 1
<1> DEFINE w == Joined(l, s, r)
           n == Len(l.keys)
           R == Len(r.keys)
           M == MinKeys(w)
<1>1. w.leaf = l.leaf /\ Len(w.keys) = Skip(l, n) + R
    BY JoinedIs
<1>2. n \in Nat /\ R \in Nat
    BY DEF Formed
<1>3. MinKeys(l) = M /\ MinKeys(r) = M /\ M \in Nat /\ M >= 1 /\ M <= MaxKeys /\ MaxKeys \in Nat
    <2>1. MinLeaf \in Nat /\ MinInt \in Nat /\ MinLeaf >= 1 /\ MinInt >= 1 /\ MinLeaf <= MaxKeys /\ MinInt <= MaxKeys
          /\ MaxKeys \in Nat
        BY OrderAssumption DEF MinLeaf, MinInt, MaxKeys
    <2> QED BY <1>1, <2>1 DEF MinKeys
<1> HIDE DEF n, R, w, M
<1>4. Len(l.keys) = n /\ Len(r.keys) = R /\ MinKeys(w) = M
    BY DEF n, R, M
<1>5. CASE l.leaf
    <2>1. Len(w.keys) = n + R /\ w.leaf /\ Skip(l, n + 1) = n + 1 /\ Skip(l, n - 1) = n - 1
        BY <1>1, <1>5 DEF Skip
    <2>2. n + 1 = M /\ R > M /\ R <= MaxKeys =>
             CutAt(w, n + 1, n + 1) /\ Len(w.keys) - (n + 1) = R - 1
        BY <2>1, <1>2, <1>3, <1>4 DEF CutAt
    <2>3. R + 1 = M /\ n > M /\ n <= MaxKeys =>
             CutAt(w, n - 1, n - 1) /\ Len(w.keys) - (n - 1) = R + 1
        BY <2>1, <1>2, <1>3, <1>4 DEF CutAt
    <2> QED BY <2>1, <2>2, <2>3, <1>3, <1>4 DEF w
<1>6. CASE ~l.leaf
    <2>1. Len(w.keys) = n + 1 + R /\ ~w.leaf /\ Skip(l, n + 1) = (n + 1) + 1 /\ Skip(l, n - 1) = (n - 1) + 1
        BY <1>1, <1>6 DEF Skip
    <2>2. n + 1 = M /\ R > M /\ R <= MaxKeys =>
             CutAt(w, n + 1, (n + 1) + 1) /\ Len(w.keys) - ((n + 1) + 1) = R - 1
        BY <2>1, <1>2, <1>3, <1>4 DEF CutAt
    <2>3. R + 1 = M /\ n > M /\ n <= MaxKeys =>
             CutAt(w, n - 1, (n - 1) + 1) /\ Len(w.keys) - ((n - 1) + 1) = R + 1
        BY <2>1, <1>2, <1>3, <1>4 DEF CutAt
    <2> QED BY <2>1, <2>2, <2>3, <1>3, <1>4 DEF w
<1>7. l.leaf \in BOOLEAN
    BY DEF Formed
<1> QED BY <1>5, <1>6, <1>7

LEMMA LoanRightLeaf ==
    ASSUME NEW l, Formed(l), l.leaf, NEW r, Formed(r), r.leaf, NEW prev, NEW c \in Nat \ {0}, prev.keys[c] \in Key,
           NEW text, Identity(text),
           Len(l.keys) + 1 = MinKeys(l), Len(r.keys) > MinKeys(r), Len(r.keys) <= MaxKeys
    PROVE  /\ Loan(l, r, prev.keys[c], BorrowRightLeaf(l, prev, r, c, text).node, BorrowRightLeaf(l, prev, r, c, text).sib,
                   r.keys[1], Len(l.keys) + 1, Len(l.keys) + 1)
           /\ BorrowRightLeaf(l, prev, r, c, text).prev = [prev EXCEPT !.keys[c] = r.keys[1]]
           /\ 1 \in 1 .. Len(r.keys)
<1> DEFINE s == prev.keys[c]
<1>0. s \in Key
    OBVIOUS
<1> HIDE DEF s
<1> DEFINE w == Joined(l, s, r)
           n == Len(l.keys)
           R == Len(r.keys)
           keys == Append(l.keys, r.keys[1])
           kids == InsertAt(l.kids, n + 1, r.kids[1])
           l2 == [l EXCEPT !.keys = keys, !.kids = kids]
           r2 == RemoveKey(r, 1)
<1>1. /\ w.leaf /\ Cuts(w, l, r, n, n) /\ CutAt(w, n + 1, n + 1) /\ Len(w.keys) - (n + 1) = R - 1
    BY <1>0, JoinedIs, LoanSizes DEF Skip
<1>2. /\ l \in [leaf : BOOLEAN, keys : Seq(Key), kids : Seq(Kid)] /\ l.keys \in Seq(Key) /\ l.kids \in Seq(Kid)
      /\ Len(l.kids) = n + 1 /\ n \in Nat
      /\ r.keys \in Seq(Key) /\ r.kids \in Seq(Kid) /\ Len(r.kids) = R + 1 /\ R \in Nat
    BY DEF Formed
<1>3. R >= 1 /\ 1 \in 1 .. R /\ 1 \in 1 .. Len(r.kids)
    BY <1>2, Orders DEF MinKeys
<1>4. r.keys[1] \in Key /\ r.kids[1] \in Kid
    BY <1>2, <1>3
<1>5. /\ keys \in Seq(Key) /\ Len(keys) = n + 1 /\ keys[n + 1] = r.keys[1]
      /\ \A i \in 1 .. n : keys[i] = l.keys[i]
    BY <1>2, <1>4, Appended
<1>6. /\ kids \in Seq(Kid) /\ Len(kids) = (n + 1) + 1 /\ kids[n + 1] = r.kids[1]
      /\ \A j \in 1 .. n + 1 : j < n + 1 => kids[j] = l.kids[j]
      /\ \A j \in 1 .. n + 1 : j >= n + 1 => kids[j + 1] = l.kids[j]
    <2> DEFINE a == l.kids
               x == r.kids[1]
               i == n + 1
    <2>1. a \in Seq(Kid) /\ i \in 1 .. Len(a) + 1 /\ x \in Kid /\ Len(a) = n + 1
        BY <1>2, <1>4
    <2> HIDE DEF a, i, x
    <2>2. /\ InsertAt(a, i, x) \in Seq(Kid) /\ Len(InsertAt(a, i, x)) = Len(a) + 1 /\ InsertAt(a, i, x)[i] = x
          /\ \A j \in 1 .. Len(a) : j < i => InsertAt(a, i, x)[j] = a[j]
          /\ \A j \in 1 .. Len(a) : j >= i => InsertAt(a, i, x)[j + 1] = a[j]
        BY <2>1, Inserted
    <2>3. kids = InsertAt(a, i, x)
        BY DEF a, i, x
    <2> HIDE DEF kids
    <2> QED BY <2>1, <2>2, <2>3 DEF a, i, x
<1>7. /\ NodeType(r2) /\ r2.leaf = r.leaf /\ Len(r2.keys) = R - 1
      /\ \A j \in 1 .. R - 1 : r2.keys[j] = IF j < 1 THEN r.keys[j] ELSE r.keys[j + 1]
      /\ \A j \in 1 .. R : r2.kids[j] = IF j < 1 THEN r.kids[j] ELSE r.kids[j + 1]
    BY <1>3, RemoveIs
<1> HIDE DEF keys, kids, r2, w
<1>8. /\ l2.keys = keys /\ l2.kids = kids /\ l2.leaf
      /\ l2 \in [leaf : BOOLEAN, keys : Seq(Key), kids : Seq(Kid)]
    BY <1>2, <1>5, <1>6
<1>9. /\ BorrowRightLeaf(l, prev, r, c, text).node = l2 /\ BorrowRightLeaf(l, prev, r, c, text).sib = r2
      /\ BorrowRightLeaf(l, prev, r, c, text).prev = [prev EXCEPT !.keys[c] = r.keys[1]]
    <2>1. FreeSlot(Append(l.keys, r.keys[1]), c, text) = keys
        BY <1>5, SlotKept DEF keys
    <2> QED BY <2>1, <1>5 DEF BorrowRightLeaf, Trio, kids, r2
<1> HIDE DEF l2, n, R
<1>10. /\ n \in Nat /\ R \in Nat /\ Len(w.keys) \in Nat /\ Len(l.keys) = n /\ Len(r.keys) = R
       /\ Len(w.keys) + 1 - (n + 1) = R /\ Len(w.keys) - n = R
    <2>1. Len(w.keys) \in Nat
        BY JoinedIs DEF NodeType, w
    <2>2. n \in Nat /\ R \in Nat
        BY <1>2 DEF n, R
    <2>3. Len(w.keys) - (n + 1) = R - 1
        BY <1>1 DEF n, R
    <2>4. Len(l.keys) = n /\ Len(r.keys) = R
        BY DEF n, R
    <2>5. \A W, a, b \in Nat : W - (a + 1) = b - 1 => W + 1 - (a + 1) = b /\ W - a = b
        OBVIOUS
    <2>6. Len(w.keys) + 1 - (n + 1) = R /\ Len(w.keys) - n = R
        BY <2>1, <2>2, <2>3, <2>5
    <2> QED BY <2>1, <2>2, <2>4, <2>6
<1>11. \A i \in 1 .. n : /\ l.keys[i] = w.keys[i] /\ l.kids[i] = w.kids[i]
    BY <1>1 DEF Cuts
<1>12. /\ \A i \in 1 .. R : r.keys[i] = w.keys[n + i]
       /\ \A i \in 1 .. R + 1 : r.kids[i] = w.kids[n + i]
    <2>1. Len(w.keys) + 1 - n = R + 1
        BY <1>10
    <2> QED BY <2>1, <1>1, <1>10 DEF Cuts
<1>20. 1 \in 1 .. R /\ 1 \in 1 .. R + 1
    BY <1>3, <1>10 DEF R
<1>19. r.keys[1] = w.keys[n + 1] /\ r.kids[1] = w.kids[n + 1]
    BY <1>12, <1>20
<1>13. \A i \in 1 .. n + 1 : l2.keys[i] = w.keys[i] /\ l2.kids[i] = w.kids[i]
    <2> SUFFICES ASSUME NEW i \in 1 .. n + 1 PROVE l2.keys[i] = w.keys[i] /\ l2.kids[i] = w.kids[i]
        OBVIOUS
    <2>1. CASE i = n + 1
        BY <2>1, <1>19, <1>5, <1>6, <1>8
    <2>2. CASE i # n + 1
        <3>1. i \in 1 .. n /\ i < n + 1
            BY <2>2, <1>10
        <3> QED BY <3>1, <1>5, <1>6, <1>8, <1>11
    <2> QED BY <2>1, <2>2
<1>14. \A i \in 1 .. R - 1 : r2.keys[i] = w.keys[(n + 1) + i]
    <2> SUFFICES ASSUME NEW i \in 1 .. R - 1 PROVE r2.keys[i] = w.keys[(n + 1) + i]
        OBVIOUS
    <2>1. i + 1 \in 1 .. R /\ ~(i < 1) /\ n + (i + 1) = (n + 1) + i
        BY <1>10
    <2> QED BY <2>1, <1>7, <1>12
<1>15. \A i \in 1 .. R : r2.kids[i] = w.kids[(n + 1) + i]
    <2> SUFFICES ASSUME NEW i \in 1 .. R PROVE r2.kids[i] = w.kids[(n + 1) + i]
        OBVIOUS
    <2>1. i + 1 \in 1 .. R + 1 /\ ~(i < 1) /\ n + (i + 1) = (n + 1) + i
        BY <1>10
    <2> QED BY <2>1, <1>7, <1>12
<1>16. NodeType(l2)
    BY <1>5, <1>6, <1>8 DEF NodeType
<1>17. RawCuts(w, l2, r2, n + 1, n + 1)
    BY <1>1, <1>5, <1>7, <1>8, <1>10, <1>13, <1>14, <1>15, <1>16 DEF RawCuts
<1>18. Link(l2) = Link(l)
    <2>1. n + 1 \in 1 .. n + 1 /\ n + 1 >= n + 1
        BY <1>10
    <2>2. kids[(n + 1) + 1] = l.kids[n + 1]
        BY <2>1, <1>6 DEF n
    <2>3. Len(keys) = n + 1
        BY <1>5 DEF n
    <2>4. Len(l2.keys) + 1 = (n + 1) + 1
        BY <2>3, <1>8
    <2> QED BY <2>2, <2>4, <1>8, <1>10 DEF Link
<1> QED BY <1>1, <1>3, <1>9, <1>17, <1>18, <1>19 DEF Loan, w, n, R, s

LEMMA LoanRightInt ==
    ASSUME NEW l, Formed(l), ~l.leaf, NEW r, Formed(r), ~r.leaf, NEW prev, NEW c \in Nat \ {0}, prev.keys[c] \in Key,
           NEW text, Identity(text),
           Len(l.keys) + 1 = MinKeys(l), Len(r.keys) > MinKeys(r), Len(r.keys) <= MaxKeys
    PROVE  /\ Loan(l, r, prev.keys[c], BorrowRightInt(l, prev, r, c, text).node, BorrowRightInt(l, prev, r, c, text).sib,
                   r.keys[1], Len(l.keys) + 1, Len(l.keys) + 2)
           /\ BorrowRightInt(l, prev, r, c, text).prev = [prev EXCEPT !.keys[c] = r.keys[1]]
           /\ 1 \in 1 .. Len(r.keys)
<1> DEFINE s == prev.keys[c]
           w == Joined(l, s, r)
           n == Len(l.keys)
           R == Len(r.keys)
           keys == Append(l.keys, s)
           kids == Append(l.kids, r.kids[1])
           l2 == [l EXCEPT !.keys = keys, !.kids = kids]
           r2 == RemoveKey(r, 1)
<1>2. /\ l \in [leaf : BOOLEAN, keys : Seq(Key), kids : Seq(Kid)] /\ l.keys \in Seq(Key) /\ l.kids \in Seq(Kid)
      /\ Len(l.kids) = n + 1 /\ n \in Nat
      /\ r.keys \in Seq(Key) /\ r.kids \in Seq(Kid) /\ Len(r.kids) = R + 1 /\ R \in Nat /\ l.leaf = r.leaf
    BY DEF Formed
<1>1. /\ ~w.leaf /\ Cuts(w, l, r, n, n + 1) /\ CutAt(w, n + 1, n + 2) /\ Len(w.keys) - (n + 2) = R - 1
      /\ w.keys[n + 1] = s /\ Len(w.keys) \in Nat
    <2>1. Skip(l, n + 1) = n + 2 /\ Skip(l, n) = n + 1
        BY <1>2 DEF Skip
    <2>2. /\ CutAt(w, n + 1, Skip(l, n + 1)) /\ Len(w.keys) - Skip(l, n + 1) = R - 1
        BY <1>2, LoanSizes
    <2>3. /\ NodeType(w) /\ w.leaf = l.leaf /\ Cuts(w, l, r, n, Skip(l, n)) /\ w.keys[Skip(l, n)] = s
        BY <1>2, JoinedIs
    <2>4. Len(w.keys) \in Nat
        BY <2>3 DEF NodeType
    <2> HIDE DEF w, n, R
    <2> QED BY <2>1, <2>2, <2>3, <2>4, <1>2
<1>3. R >= 1 /\ 1 \in 1 .. R /\ 1 \in 1 .. Len(r.kids)
    BY <1>2, Orders DEF MinKeys
<1>4. r.keys[1] \in Key /\ r.kids[1] \in Kid
    BY <1>2, <1>3
<1>5. /\ keys \in Seq(Key) /\ Len(keys) = n + 1 /\ keys[n + 1] = s
      /\ \A i \in 1 .. n : keys[i] = l.keys[i]
    BY <1>2, <1>4, Appended
<1>6. /\ kids \in Seq(Kid) /\ Len(kids) = (n + 1) + 1 /\ kids[(n + 1) + 1] = r.kids[1]
      /\ \A j \in 1 .. n + 1 : kids[j] = l.kids[j]
    <2>1. /\ kids \in Seq(Kid) /\ Len(kids) = Len(l.kids) + 1 /\ kids[Len(l.kids) + 1] = r.kids[1]
          /\ \A j \in 1 .. Len(l.kids) : kids[j] = l.kids[j]
        BY <1>2, <1>4, Appended
    <2> HIDE DEF kids
    <2> QED BY <2>1, <1>2
<1>7. /\ NodeType(r2) /\ r2.leaf = r.leaf /\ Len(r2.keys) = R - 1
      /\ \A j \in 1 .. R - 1 : r2.keys[j] = IF j < 1 THEN r.keys[j] ELSE r.keys[j + 1]
      /\ \A j \in 1 .. R : r2.kids[j] = IF j < 1 THEN r.kids[j] ELSE r.kids[j + 1]
    BY <1>3, RemoveIs
<1> HIDE DEF keys, kids, r2, w
<1>8. /\ l2.keys = keys /\ l2.kids = kids /\ ~l2.leaf
      /\ l2 \in [leaf : BOOLEAN, keys : Seq(Key), kids : Seq(Kid)]
    BY <1>2, <1>5, <1>6
<1>9. /\ BorrowRightInt(l, prev, r, c, text).node = l2 /\ BorrowRightInt(l, prev, r, c, text).sib = r2
      /\ BorrowRightInt(l, prev, r, c, text).prev = [prev EXCEPT !.keys[c] = r.keys[1]]
    <2>1. FreeSlot(Append(l.keys, prev.keys[c]), c, text) = keys
        BY <1>5, SlotKept DEF keys
    <2> QED BY <2>1, <1>5 DEF BorrowRightInt, Trio, kids, r2
<1> HIDE DEF l2, n, R
<1>10. /\ n \in Nat /\ R \in Nat /\ Len(w.keys) \in Nat /\ Len(l.keys) = n /\ Len(r.keys) = R
       /\ Len(w.keys) + 1 - (n + 2) = R /\ Len(w.keys) - (n + 1) = R /\ Len(w.keys) + 1 - (n + 1) = R + 1
       /\ (n + 1) + 1 = n + 2
    <2>1. n \in Nat /\ R \in Nat /\ Len(w.keys) \in Nat
        BY <1>1, <1>2 DEF n, R
    <2>2. Len(w.keys) - (n + 2) = R - 1
        BY <1>1 DEF n, R
    <2>3. Len(l.keys) = n /\ Len(r.keys) = R
        BY DEF n, R
    <2>4. \A W, a, b \in Nat : W - (a + 2) = b - 1 =>
             W + 1 - (a + 2) = b /\ W - (a + 1) = b /\ W + 1 - (a + 1) = b + 1 /\ (a + 1) + 1 = a + 2
        OBVIOUS
    <2>5. /\ Len(w.keys) + 1 - (n + 2) = R /\ Len(w.keys) - (n + 1) = R /\ Len(w.keys) + 1 - (n + 1) = R + 1
          /\ (n + 1) + 1 = n + 2
        <3> DEFINE W == Len(w.keys)
        <3>1. W \in Nat /\ n \in Nat /\ R \in Nat /\ W - (n + 2) = R - 1
            BY <2>1, <2>2
        <3> HIDE DEF W
        <3>2. W + 1 - (n + 2) = R /\ W - (n + 1) = R /\ W + 1 - (n + 1) = R + 1 /\ (n + 1) + 1 = n + 2
            BY <3>1, <2>4
        <3> QED BY <3>2 DEF W
    <2> QED BY <2>1, <2>3, <2>5
<1>11. /\ \A i \in 1 .. n : l.keys[i] = w.keys[i]
       /\ \A i \in 1 .. n + 1 : l.kids[i] = w.kids[i]
    BY <1>1 DEF Cuts
<1>12. /\ \A i \in 1 .. R : r.keys[i] = w.keys[(n + 1) + i]
       /\ \A i \in 1 .. R + 1 : r.kids[i] = w.kids[(n + 1) + i]
    BY <1>1, <1>10 DEF Cuts
<1>20. r.keys[1] = w.keys[n + 2] /\ r.kids[1] = w.kids[n + 2]
    <2>1. 1 \in 1 .. R /\ 1 \in 1 .. R + 1
        BY <1>3, <1>10 DEF R
    <2> QED BY <2>1, <1>10, <1>12
<1>13. \A i \in 1 .. n + 1 : l2.keys[i] = w.keys[i]
    <2> SUFFICES ASSUME NEW i \in 1 .. n + 1 PROVE l2.keys[i] = w.keys[i]
        OBVIOUS
    <2>1. CASE i = n + 1
        BY <2>1, <1>1, <1>5, <1>8
    <2>2. CASE i # n + 1
        <3>1. i \in 1 .. n
            BY <2>2, <1>10
        <3> QED BY <3>1, <1>5, <1>8, <1>11
    <2> QED BY <2>1, <2>2
<1>21. \A i \in 1 .. n + 2 : l2.kids[i] = w.kids[i]
    <2> SUFFICES ASSUME NEW i \in 1 .. n + 2 PROVE l2.kids[i] = w.kids[i]
        OBVIOUS
    <2>1. CASE i = n + 2
        BY <2>1, <1>6, <1>8, <1>10, <1>20
    <2>2. CASE i # n + 2
        <3>1. i \in 1 .. n + 1
            BY <2>2, <1>10
        <3> QED BY <3>1, <1>6, <1>8, <1>11
    <2> QED BY <2>1, <2>2
<1>14. \A i \in 1 .. R - 1 : r2.keys[i] = w.keys[(n + 2) + i]
    <2> SUFFICES ASSUME NEW i \in 1 .. R - 1 PROVE r2.keys[i] = w.keys[(n + 2) + i]
        OBVIOUS
    <2>1. i + 1 \in 1 .. R /\ ~(i < 1) /\ (n + 1) + (i + 1) = (n + 2) + i
        BY <1>10
    <2> QED BY <2>1, <1>7, <1>12
<1>15. \A i \in 1 .. R : r2.kids[i] = w.kids[(n + 2) + i]
    <2> SUFFICES ASSUME NEW i \in 1 .. R PROVE r2.kids[i] = w.kids[(n + 2) + i]
        OBVIOUS
    <2>1. i + 1 \in 1 .. R + 1 /\ ~(i < 1) /\ (n + 1) + (i + 1) = (n + 2) + i
        BY <1>10
    <2> QED BY <2>1, <1>7, <1>12
<1>16. NodeType(l2)
    BY <1>5, <1>6, <1>8 DEF NodeType
<1>17. RawCuts(w, l2, r2, n + 1, n + 2)
    <2>1. Len(w.keys) - (n + 2) = R - 1
        BY <1>1 DEF n, R
    <2>2. Len(l2.keys) = n + 1 /\ Len(r2.keys) = R - 1 /\ r2.leaf = w.leaf /\ l2.leaf = w.leaf
        <3>1. r2.leaf \in BOOLEAN /\ w.leaf \in BOOLEAN /\ l2.leaf \in BOOLEAN
            <4>1. NodeType(w)
                BY <1>2, JoinedIs DEF w
            <4> QED BY <4>1, <1>7, <1>8 DEF NodeType
        <3>2. ~r2.leaf /\ ~w.leaf /\ ~l2.leaf
            BY <1>1, <1>7, <1>8
        <3> QED BY <3>1, <3>2, <1>5, <1>7, <1>8 DEF n, R
    <2> QED BY <2>1, <2>2, <1>7, <1>10, <1>13, <1>14, <1>15, <1>16, <1>21 DEF RawCuts
<1> QED BY <1>1, <1>3, <1>9, <1>17, <1>20 DEF Loan, w, n, R

LEMMA LoanLeftLeaf ==
    ASSUME NEW l, Formed(l), l.leaf, NEW r, Formed(r), r.leaf, NEW prev, NEW c, prev.keys[c - 1] \in Key,
           Len(r.keys) + 1 = MinKeys(r), Len(l.keys) > MinKeys(l), Len(l.keys) <= MaxKeys
    PROVE  /\ Loan(l, r, prev.keys[c - 1], BorrowLeftLeaf(r, prev, l, c).sib, BorrowLeftLeaf(r, prev, l, c).node,
                   l.keys[Len(l.keys) - 1], Len(l.keys) - 1, Len(l.keys) - 1)
           /\ BorrowLeftLeaf(r, prev, l, c).prev = [prev EXCEPT !.keys[c - 1] = l.keys[Len(l.keys) - 1]]
           /\ Len(l.keys) - 1 \in 1 .. Len(l.keys)
<1> DEFINE s == prev.keys[c - 1]
<1>0. s \in Key
    OBVIOUS
<1> HIDE DEF s
<1> DEFINE w == Joined(l, s, r)
           n == Len(l.keys)
           R == Len(r.keys)
           keys == <<l.keys[n]>> \o r.keys
           kids == <<l.kids[n]>> \o r.kids
           r2 == [r EXCEPT !.keys = keys, !.kids = kids]
           l2 == RemoveKey(l, n)
<1>1. /\ w.leaf /\ NodeType(w) /\ Cuts(w, l, r, n, n) /\ CutAt(w, n - 1, n - 1) /\ Len(w.keys) - (n - 1) = R + 1
    BY <1>0, JoinedIs, LoanSizes DEF Skip
<1>2. /\ r \in [leaf : BOOLEAN, keys : Seq(Key), kids : Seq(Kid)] /\ l.keys \in Seq(Key) /\ l.kids \in Seq(Kid)
      /\ Len(l.kids) = n + 1 /\ n \in Nat
      /\ r.keys \in Seq(Key) /\ r.kids \in Seq(Kid) /\ Len(r.kids) = R + 1 /\ R \in Nat
    BY DEF Formed
<1>3. n > 1 /\ n \in 1 .. n /\ n \in 1 .. Len(l.kids) /\ n - 1 \in 1 .. n
    <2>1. MinKeys(l) \in Nat /\ MinKeys(l) >= 1
        BY Orders DEF MinKeys
    <2> QED BY <2>1, <1>2
<1>4. l.keys[n] \in Key /\ l.kids[n] \in Kid
    BY <1>2, <1>3
<1>5. /\ keys \in Seq(Key) /\ Len(keys) = 1 + R /\ keys[1] = l.keys[n]
      /\ \A i \in 1 .. R : keys[1 + i] = r.keys[i]
    <2> DEFINE a == <<l.keys[n]>>
               b == r.keys
    <2>1. a \in Seq(Key) /\ Len(a) = 1 /\ a[1] = l.keys[n] /\ b \in Seq(Key) /\ Len(b) = R /\ keys = a \o b /\ 1 \in 1 .. 1
        BY <1>2, <1>4
    <2> HIDE DEF a, b, keys, R
    <2>2. /\ a \o b \in Seq(Key) /\ Len(a \o b) = Len(a) + Len(b)
          /\ \A i \in 1 .. Len(a) : (a \o b)[i] = a[i]
          /\ \A i \in 1 .. Len(b) : (a \o b)[Len(a) + i] = b[i]
        <3>1. a \in Seq(Key) /\ b \in Seq(Key)
            BY <2>1
        <3> QED BY <3>1, Chained
    <2>3. \A i \in 1 .. R : keys[1 + i] = b[i]
        BY <2>1, <2>2
    <2> QED BY <2>1, <2>2, <2>3 DEF b
<1>6. /\ kids \in Seq(Kid) /\ Len(kids) = 1 + (R + 1) /\ kids[1] = l.kids[n]
      /\ \A i \in 1 .. R + 1 : kids[1 + i] = r.kids[i]
    <2> DEFINE a == <<l.kids[n]>>
               b == r.kids
    <2>1. a \in Seq(Kid) /\ Len(a) = 1 /\ a[1] = l.kids[n] /\ b \in Seq(Kid) /\ Len(b) = R + 1 /\ kids = a \o b /\ 1 \in 1 .. 1
        BY <1>2, <1>4
    <2> HIDE DEF a, b, kids, R
    <2>2. /\ a \o b \in Seq(Kid) /\ Len(a \o b) = Len(a) + Len(b)
          /\ \A i \in 1 .. Len(a) : (a \o b)[i] = a[i]
          /\ \A i \in 1 .. Len(b) : (a \o b)[Len(a) + i] = b[i]
        <3>1. a \in Seq(Kid) /\ b \in Seq(Kid)
            BY <2>1
        <3> QED BY <3>1, Chained
    <2>3. \A i \in 1 .. R + 1 : kids[1 + i] = b[i]
        BY <2>1, <2>2
    <2> QED BY <2>1, <2>2, <2>3 DEF b
<1>7. /\ NodeType(l2) /\ l2.leaf = l.leaf /\ Len(l2.keys) = n - 1
      /\ \A j \in 1 .. n - 1 : l2.keys[j] = IF j < n THEN l.keys[j] ELSE l.keys[j + 1]
      /\ \A j \in 1 .. n : l2.kids[j] = IF j < n THEN l.kids[j] ELSE l.kids[j + 1]
    BY <1>3, RemoveIs
<1> HIDE DEF keys, kids, l2, w
<1>8. /\ r2.keys = keys /\ r2.kids = kids /\ r2.leaf
      /\ r2 \in [leaf : BOOLEAN, keys : Seq(Key), kids : Seq(Kid)]
    BY <1>2, <1>5, <1>6
<1>9. /\ BorrowLeftLeaf(r, prev, l, c).node = r2 /\ BorrowLeftLeaf(r, prev, l, c).sib = l2
      /\ BorrowLeftLeaf(r, prev, l, c).prev = [prev EXCEPT !.keys[c - 1] = l.keys[n - 1]]
    <2>1. r2 = [r EXCEPT !.keys = <<l.keys[n]>> \o @, !.kids = <<l.kids[n]>> \o @]
        BY DEF keys, kids
    <2> HIDE DEF r2
    <2> QED BY <2>1 DEF BorrowLeftLeaf, Trio, l2
<1> HIDE DEF r2, n, R
<1>10. /\ n \in Nat /\ R \in Nat /\ Len(w.keys) \in Nat /\ Len(l.keys) = n /\ Len(r.keys) = R
       /\ Len(w.keys) - (n - 1) = R + 1 /\ Len(w.keys) + 1 - (n - 1) = R + 2 /\ Len(w.keys) - n = R
       /\ Len(w.keys) + 1 - n = R + 1 /\ n > 1
    <2> DEFINE W == Len(w.keys)
    <2>1. n \in Nat /\ R \in Nat /\ W \in Nat /\ n > 1
        BY <1>1, <1>2, <1>3 DEF n, R, NodeType
    <2>2. W - (n - 1) = R + 1
        BY <1>1 DEF n, R
    <2>3. Len(l.keys) = n /\ Len(r.keys) = R
        BY DEF n, R
    <2> HIDE DEF W
    <2>4. W + 1 - (n - 1) = R + 2 /\ W - n = R /\ W + 1 - n = R + 1
        BY <2>1, <2>2
    <2> QED BY <2>1, <2>2, <2>3, <2>4 DEF W
<1>11. \A i \in 1 .. n : l.keys[i] = w.keys[i] /\ l.kids[i] = w.kids[i]
    BY <1>1 DEF Cuts, n
<1>12. /\ \A i \in 1 .. R : r.keys[i] = w.keys[n + i]
       /\ \A i \in 1 .. R + 1 : r.kids[i] = w.kids[n + i]
    <2>1. Cuts(w, l, r, n, n)
        BY <1>1 DEF n
    <2> QED BY <2>1, <1>10 DEF Cuts
<1>13. \A i \in 1 .. n - 1 : l2.keys[i] = w.keys[i] /\ l2.kids[i] = w.kids[i]
    <2> SUFFICES ASSUME NEW i \in 1 .. n - 1 PROVE l2.keys[i] = w.keys[i] /\ l2.kids[i] = w.kids[i]
        OBVIOUS
    <2>1. i \in 1 .. n /\ i < n
        BY <1>10
    <2> QED BY <2>1, <1>7, <1>11 DEF n
<1>14. \A i \in 1 .. R + 1 : r2.keys[i] = w.keys[(n - 1) + i]
    <2> SUFFICES ASSUME NEW i \in 1 .. R + 1 PROVE r2.keys[i] = w.keys[(n - 1) + i]
        OBVIOUS
    <2>1. CASE i = 1
        <3>1. (n - 1) + i = n /\ n \in 1 .. n
            BY <2>1, <1>10
        <3>2. r2.keys[1] = l.keys[n]
            BY <1>5, <1>8 DEF n
        <3> QED BY <2>1, <3>1, <3>2, <1>11
    <2>2. CASE i # 1
        <3>1. PICK j \in 1 .. R : 1 + j = i /\ n + j = (n - 1) + i
            <4>1. i - 1 \in 1 .. R /\ 1 + (i - 1) = i /\ n + (i - 1) = (n - 1) + i
                BY <2>2, <1>10
            <4> QED BY <4>1
        <3>2. r2.keys[1 + j] = r.keys[j]
            BY <3>1, <1>5, <1>8 DEF R
        <3> QED BY <3>1, <3>2, <1>12
    <2> QED BY <2>1, <2>2
<1>15. \A i \in 1 .. R + 2 : r2.kids[i] = w.kids[(n - 1) + i]
    <2> SUFFICES ASSUME NEW i \in 1 .. R + 2 PROVE r2.kids[i] = w.kids[(n - 1) + i]
        OBVIOUS
    <2>1. CASE i = 1
        <3>1. (n - 1) + i = n /\ n \in 1 .. n
            BY <2>1, <1>10
        <3>2. r2.kids[1] = l.kids[n]
            BY <1>6, <1>8 DEF n
        <3> QED BY <2>1, <3>1, <3>2, <1>11
    <2>2. CASE i # 1
        <3>1. PICK j \in 1 .. R + 1 : 1 + j = i /\ n + j = (n - 1) + i
            <4>1. i - 1 \in 1 .. R + 1 /\ 1 + (i - 1) = i /\ n + (i - 1) = (n - 1) + i
                BY <2>2, <1>10
            <4> QED BY <4>1
        <3>2. r2.kids[1 + j] = r.kids[j]
            BY <3>1, <1>6, <1>8 DEF R
        <3> QED BY <3>1, <3>2, <1>12
    <2> QED BY <2>1, <2>2
<1>16. NodeType(r2)
    <2>1. Len(r2.keys) = 1 + R /\ Len(r2.kids) = 1 + (R + 1)
        BY <1>5, <1>6, <1>8 DEF R
    <2> QED BY <2>1, <1>8, <1>10 DEF NodeType
<1>17. RawCuts(w, l2, r2, n - 1, n - 1)
    <2>1. Len(r2.keys) = R + 1
        BY <1>5, <1>8, <1>10 DEF R
    <2>2. Len(l2.keys) = n - 1 /\ NodeType(l2) /\ l2.leaf
        BY <1>7 DEF n
    <2>3. l2.leaf = w.leaf /\ r2.leaf = w.leaf
        <3>1. r2.leaf \in BOOLEAN /\ w.leaf \in BOOLEAN /\ l2.leaf \in BOOLEAN
            BY <1>1, <1>8, <2>2 DEF NodeType
        <3> QED BY <3>1, <2>2, <1>1, <1>8
    <2> QED BY <2>1, <2>2, <2>3, <1>10, <1>13, <1>14, <1>15, <1>16 DEF RawCuts
<1>18. Link(l2) = Link(l)
    <2>1. (n - 1) + 1 = n /\ n \in 1 .. n /\ ~(n < n)
        BY <1>10
    <2>2. Len(l2.keys) + 1 = n /\ l2.kids[n] = l.kids[n + 1]
        BY <2>1, <1>7 DEF n
    <2> QED BY <2>2, <1>10 DEF Link
<1>19. l.keys[n - 1] = w.keys[n - 1]
    <2>1. n - 1 \in 1 .. n
        BY <1>10
    <2> QED BY <2>1, <1>11
<1> QED BY <1>1, <1>3, <1>9, <1>17, <1>18, <1>19 DEF Loan, w, n, R, s

LEMMA LoanLeftInt ==
    ASSUME NEW l, Formed(l), ~l.leaf, NEW r, Formed(r), ~r.leaf, NEW prev, NEW c, prev.keys[c - 1] \in Key,
           Len(r.keys) + 1 = MinKeys(r), Len(l.keys) > MinKeys(l), Len(l.keys) <= MaxKeys
    PROVE  /\ Loan(l, r, prev.keys[c - 1], BorrowLeftInt(r, prev, l, c).sib, BorrowLeftInt(r, prev, l, c).node,
                   l.keys[Len(l.keys)], Len(l.keys) - 1, Len(l.keys))
           /\ BorrowLeftInt(r, prev, l, c).prev = [prev EXCEPT !.keys[c - 1] = l.keys[Len(l.keys)]]
           /\ Len(l.keys) \in 1 .. Len(l.keys)
<1> DEFINE s == prev.keys[c - 1]
           w == Joined(l, s, r)
           n == Len(l.keys)
           R == Len(r.keys)
           keys == <<s>> \o r.keys
           kids == <<l.kids[n + 1]>> \o r.kids
           r2 == [r EXCEPT !.keys = keys, !.kids = kids]
           keysL == Front(l.keys)
           kidsL == Front(l.kids)
           l2 == [l EXCEPT !.keys = keysL, !.kids = kidsL]
<1>2. /\ l \in [leaf : BOOLEAN, keys : Seq(Key), kids : Seq(Kid)] /\ l.keys \in Seq(Key) /\ l.kids \in Seq(Kid)
      /\ Len(l.kids) = n + 1 /\ n \in Nat
      /\ r \in [leaf : BOOLEAN, keys : Seq(Key), kids : Seq(Kid)]
      /\ r.keys \in Seq(Key) /\ r.kids \in Seq(Kid) /\ Len(r.kids) = R + 1 /\ R \in Nat /\ l.leaf = r.leaf
    BY DEF Formed
<1>1. /\ ~w.leaf /\ NodeType(w) /\ Cuts(w, l, r, n, n + 1) /\ CutAt(w, n - 1, n) /\ Len(w.keys) - n = R + 1
      /\ w.keys[n + 1] = s
    <2>1. Skip(l, n - 1) = n /\ Skip(l, n) = n + 1
        BY <1>2 DEF Skip
    <2>2. /\ CutAt(w, n - 1, Skip(l, n - 1)) /\ Len(w.keys) - Skip(l, n - 1) = R + 1
        BY <1>2, LoanSizes
    <2>3. /\ NodeType(w) /\ w.leaf = l.leaf /\ Cuts(w, l, r, n, Skip(l, n)) /\ w.keys[Skip(l, n)] = s
        BY <1>2, JoinedIs
    <2> HIDE DEF w, n, R
    <2> QED BY <2>1, <2>2, <2>3
<1>3. n > 1 /\ n \in 1 .. n /\ n + 1 \in 1 .. Len(l.kids)
    <2>1. MinKeys(l) \in Nat /\ MinKeys(l) >= 1
        BY Orders DEF MinKeys
    <2> QED BY <2>1, <1>2
<1>4. l.kids[n + 1] \in Kid
    BY <1>2, <1>3
<1>5. /\ keys \in Seq(Key) /\ Len(keys) = 1 + R /\ keys[1] = s
      /\ \A i \in 1 .. R : keys[1 + i] = r.keys[i]
    <2> DEFINE a == <<s>>
               b == r.keys
    <2>1. a \in Seq(Key) /\ Len(a) = 1 /\ a[1] = s /\ b \in Seq(Key) /\ Len(b) = R /\ keys = a \o b /\ 1 \in 1 .. 1
        BY <1>2, <1>4
    <2> HIDE DEF a, b, keys, R
    <2>2. /\ a \o b \in Seq(Key) /\ Len(a \o b) = Len(a) + Len(b)
          /\ \A i \in 1 .. Len(a) : (a \o b)[i] = a[i]
          /\ \A i \in 1 .. Len(b) : (a \o b)[Len(a) + i] = b[i]
        <3>1. a \in Seq(Key) /\ b \in Seq(Key)
            BY <2>1
        <3> QED BY <3>1, Chained
    <2>3. \A i \in 1 .. R : keys[1 + i] = b[i]
        BY <2>1, <2>2
    <2> QED BY <2>1, <2>2, <2>3 DEF b
<1>6. /\ kids \in Seq(Kid) /\ Len(kids) = 1 + (R + 1) /\ kids[1] = l.kids[n + 1]
      /\ \A i \in 1 .. R + 1 : kids[1 + i] = r.kids[i]
    <2> DEFINE a == <<l.kids[n + 1]>>
               b == r.kids
    <2>1. a \in Seq(Kid) /\ Len(a) = 1 /\ a[1] = l.kids[n + 1] /\ b \in Seq(Kid) /\ Len(b) = R + 1 /\ kids = a \o b /\ 1 \in 1 .. 1
        BY <1>2, <1>4
    <2> HIDE DEF a, b, kids, R
    <2>2. /\ a \o b \in Seq(Kid) /\ Len(a \o b) = Len(a) + Len(b)
          /\ \A i \in 1 .. Len(a) : (a \o b)[i] = a[i]
          /\ \A i \in 1 .. Len(b) : (a \o b)[Len(a) + i] = b[i]
        <3>1. a \in Seq(Kid) /\ b \in Seq(Kid)
            BY <2>1
        <3> QED BY <3>1, Chained
    <2>3. \A i \in 1 .. R + 1 : kids[1 + i] = b[i]
        BY <2>1, <2>2
    <2> QED BY <2>1, <2>2, <2>3 DEF b
<1>7. /\ keysL \in Seq(Key) /\ Len(keysL) = n - 1 /\ \A i \in 1 .. n - 1 : keysL[i] = l.keys[i]
    <2>1. keysL = SubSeq(l.keys, 1, n - 1)
        BY DEF Front
    <2> DEFINE d == n - 1
    <2>2. d \in 0 .. Len(l.keys) /\ 1 \in 1 .. Len(l.keys) + 1 /\ 1 <= d + 1 /\ d - 1 + 1 = d
          /\ (\A i \in 1 .. d : 1 + i - 1 = i) /\ l.keys \in Seq(Key)
        BY <1>2, <1>3
    <2>4. keysL = SubSeq(l.keys, 1, d)
        BY <2>1
    <2> HIDE DEF d
    <2>3. /\ SubSeq(l.keys, 1, d) \in Seq(Key) /\ Len(SubSeq(l.keys, 1, d)) = d - 1 + 1
          /\ \A i \in 1 .. d - 1 + 1 : SubSeq(l.keys, 1, d)[i] = l.keys[1 + i - 1]
        BY <2>2, Sliced
    <2>5. /\ keysL \in Seq(Key) /\ Len(keysL) = d /\ \A i \in 1 .. d : keysL[i] = l.keys[i]
        BY <2>2, <2>3, <2>4
    <2> QED BY <2>5 DEF d
<1>8. /\ kidsL \in Seq(Kid) /\ Len(kidsL) = n /\ \A i \in 1 .. n : kidsL[i] = l.kids[i]
    <2>1. n \in 0 .. Len(l.kids) /\ 1 \in 1 .. Len(l.kids) + 1 /\ 1 <= n + 1 /\ Len(l.kids) - 1 = n /\ n - 1 + 1 = n
          /\ \A i \in 1 .. n : 1 + i - 1 = i
        BY <1>2
    <2>2. kidsL = SubSeq(l.kids, 1, n)
        BY <2>1 DEF Front
    <2>3. /\ SubSeq(l.kids, 1, n) \in Seq(Kid) /\ Len(SubSeq(l.kids, 1, n)) = n - 1 + 1
          /\ \A i \in 1 .. n - 1 + 1 : SubSeq(l.kids, 1, n)[i] = l.kids[1 + i - 1]
        BY <2>1, <1>2, Sliced
    <2> QED BY <2>1, <2>2, <2>3
<1> HIDE DEF keys, kids, keysL, kidsL, w
<1>20. /\ l2.keys = keysL /\ l2.kids = kidsL /\ ~l2.leaf
       /\ l2 \in [leaf : BOOLEAN, keys : Seq(Key), kids : Seq(Kid)]
    BY <1>2, <1>7, <1>8
<1>21. /\ r2.keys = keys /\ r2.kids = kids /\ ~r2.leaf
       /\ r2 \in [leaf : BOOLEAN, keys : Seq(Key), kids : Seq(Kid)]
    BY <1>2, <1>5, <1>6
<1>9. /\ BorrowLeftInt(r, prev, l, c).node = r2 /\ BorrowLeftInt(r, prev, l, c).sib = l2
      /\ BorrowLeftInt(r, prev, l, c).prev = [prev EXCEPT !.keys[c - 1] = l.keys[n]]
    <2>1. r2 = [r EXCEPT !.keys = <<prev.keys[c - 1]>> \o @, !.kids = <<l.kids[n + 1]>> \o @]
        BY DEF keys, kids
    <2>2. l2 = [l EXCEPT !.keys = Front(@), !.kids = Front(@)]
        BY DEF keysL, kidsL
    <2> HIDE DEF r2, l2
    <2> QED BY <2>1, <2>2 DEF BorrowLeftInt, Trio
<1> HIDE DEF l2, r2, n, R
<1>10. /\ n \in Nat /\ R \in Nat /\ Len(w.keys) \in Nat /\ Len(l.keys) = n /\ Len(r.keys) = R
       /\ Len(w.keys) - n = R + 1 /\ Len(w.keys) + 1 - n = R + 2 /\ Len(w.keys) - (n + 1) = R
       /\ Len(w.keys) + 1 - (n + 1) = R + 1 /\ n > 1
    <2> DEFINE W == Len(w.keys)
    <2>1. n \in Nat /\ R \in Nat /\ W \in Nat /\ n > 1
        BY <1>1, <1>2, <1>3 DEF n, R, NodeType
    <2>2. W - n = R + 1
        BY <1>1 DEF n, R
    <2>3. Len(l.keys) = n /\ Len(r.keys) = R
        BY DEF n, R
    <2> HIDE DEF W
    <2>4. W + 1 - n = R + 2 /\ W - (n + 1) = R /\ W + 1 - (n + 1) = R + 1
        BY <2>1, <2>2
    <2> QED BY <2>1, <2>2, <2>3, <2>4 DEF W
<1>11. /\ \A i \in 1 .. n : l.keys[i] = w.keys[i]
       /\ \A i \in 1 .. n + 1 : l.kids[i] = w.kids[i]
    BY <1>1 DEF Cuts, n
<1>12. /\ \A i \in 1 .. R : r.keys[i] = w.keys[(n + 1) + i]
       /\ \A i \in 1 .. R + 1 : r.kids[i] = w.kids[(n + 1) + i]
    <2>1. Cuts(w, l, r, n, n + 1)
        BY <1>1 DEF n
    <2> QED BY <2>1, <1>10 DEF Cuts
<1>13. /\ \A i \in 1 .. n - 1 : l2.keys[i] = w.keys[i]
       /\ \A i \in 1 .. n : l2.kids[i] = w.kids[i]
    <2>1. \A i \in 1 .. n - 1 : i \in 1 .. n /\ l2.keys[i] = l.keys[i]
        BY <1>7, <1>10, <1>20 DEF n
    <2>2. \A i \in 1 .. n : i \in 1 .. n + 1 /\ l2.kids[i] = l.kids[i]
        BY <1>8, <1>10, <1>20 DEF n
    <2> QED BY <2>1, <2>2, <1>11
<1>14. \A i \in 1 .. R + 1 : r2.keys[i] = w.keys[n + i]
    <2> SUFFICES ASSUME NEW i \in 1 .. R + 1 PROVE r2.keys[i] = w.keys[n + i]
        OBVIOUS
    <2>1. CASE i = 1
        <3>1. r2.keys[1] = s
            BY <1>5, <1>21
        <3>2. w.keys[n + 1] = s
            BY <1>1 DEF n
        <3> QED BY <2>1, <3>1, <3>2
    <2>2. CASE i # 1
        <3>1. PICK j \in 1 .. R : 1 + j = i /\ (n + 1) + j = n + i
            <4>1. i - 1 \in 1 .. R /\ 1 + (i - 1) = i /\ (n + 1) + (i - 1) = n + i
                BY <2>2, <1>10
            <4> QED BY <4>1
        <3>2. r2.keys[1 + j] = r.keys[j]
            BY <3>1, <1>5, <1>21 DEF R
        <3> QED BY <3>1, <3>2, <1>12
    <2> QED BY <2>1, <2>2
<1>15. \A i \in 1 .. R + 2 : r2.kids[i] = w.kids[n + i]
    <2> SUFFICES ASSUME NEW i \in 1 .. R + 2 PROVE r2.kids[i] = w.kids[n + i]
        OBVIOUS
    <2>1. CASE i = 1
        <3>1. n + 1 \in 1 .. n + 1
            BY <1>10
        <3>2. r2.kids[1] = l.kids[n + 1]
            BY <1>6, <1>21 DEF n
        <3> QED BY <2>1, <3>1, <3>2, <1>11
    <2>2. CASE i # 1
        <3>1. PICK j \in 1 .. R + 1 : 1 + j = i /\ (n + 1) + j = n + i
            <4>1. i - 1 \in 1 .. R + 1 /\ 1 + (i - 1) = i /\ (n + 1) + (i - 1) = n + i
                BY <2>2, <1>10
            <4> QED BY <4>1
        <3>2. r2.kids[1 + j] = r.kids[j]
            BY <3>1, <1>6, <1>21 DEF R
        <3> QED BY <3>1, <3>2, <1>12
    <2> QED BY <2>1, <2>2
<1>16. NodeType(r2) /\ NodeType(l2)
    <2>1. Len(r2.keys) = 1 + R /\ Len(r2.kids) = 1 + (R + 1) /\ Len(l2.keys) = n - 1 /\ Len(l2.kids) = n
        BY <1>5, <1>6, <1>7, <1>8, <1>20, <1>21 DEF R, n
    <2>2. Len(r2.kids) = Len(r2.keys) + 1 /\ Len(l2.kids) = Len(l2.keys) + 1
        BY <2>1, <1>10
    <2> QED BY <2>2, <1>20, <1>21 DEF NodeType
<1>17. RawCuts(w, l2, r2, n - 1, n)
    <2>1. Len(r2.keys) = R + 1
        BY <1>5, <1>21, <1>10 DEF R
    <2>2. Len(l2.keys) = n - 1
        BY <1>7, <1>20 DEF n
    <2>3. l2.leaf = w.leaf /\ r2.leaf = w.leaf
        <3>1. r2.leaf \in BOOLEAN /\ w.leaf \in BOOLEAN /\ l2.leaf \in BOOLEAN
            BY <1>1, <1>16 DEF NodeType
        <3> QED BY <3>1, <1>1, <1>20, <1>21
    <2> QED BY <2>1, <2>2, <2>3, <1>10, <1>13, <1>14, <1>15, <1>16 DEF RawCuts
<1>19. l.keys[n] = w.keys[n]
    <2>1. n \in 1 .. n
        BY <1>10
    <2> QED BY <2>1, <1>11
<1> QED BY <1>1, <1>3, <1>9, <1>17, <1>19 DEF Loan, w, n, R

-----------------------------------------------------------------------------
(* The three things __delete does to siblings l and r, children c and      *)
(* c + 1 of p, one of which has a key too few.                             *)

Siblings(G, t, small, p, c, l, r, s) ==
    /\ IsTree(G, t, {}, small) /\ (small = {l} \/ small = {r})
    /\ p \in t.nodes /\ t.lev[p] # 0 /\ c \in 1 .. Len(G[p].keys)
    /\ G[p].kids[c] = l /\ G[p].kids[c + 1] = r /\ G[p].keys[c] = s

Enough(node, few) ==
    /\ Len(node.keys) <= MaxKeys /\ Len(node.keys) + 1 >= MinKeys(node)
    /\ ~few => Len(node.keys) >= MinKeys(node)
Paired(G, t, small, p, c, l, r, s) ==
    /\ l \in t.nodes /\ r \in t.nodes /\ p \in t.nodes /\ l # r /\ p # l /\ p # r /\ t.root # l /\ t.root # r
    /\ t.lev[l] = t.lev[p] - 1 /\ t.lev[r] = t.lev[p] - 1 /\ t.lev[p] # 0 /\ t.lev[p] \in Nat /\ Placed(t)
    /\ Formed(G[l]) /\ Formed(G[r]) /\ Formed(G[p]) /\ G[l].leaf = G[r].leaf /\ ~G[p].leaf /\ s \in Key
    /\ Enough(G[l], l \in small) /\ Enough(G[r], r \in small) /\ Len(G[p].keys) <= MaxKeys
    /\ c \in 1 .. Len(G[p].keys) /\ (small = {l} \/ small = {r})

LEMMA SiblingFacts ==
    ASSUME NEW G, NEW t, NEW small, NEW p, NEW c, NEW l, NEW r, NEW s, Siblings(G, t, small, p, c, l, r, s)
    PROVE  Paired(G, t, small, p, c, l, r, s)
<1>1. /\ Placed(t) /\ p \in t.nodes /\ t.lev[p] # 0 /\ Local(G, t, p) /\ t.lev[p] \in Nat
      /\ c \in 1 .. Len(G[p].keys) /\ G[p].kids[c] = l /\ G[p].kids[c + 1] = r /\ G[p].keys[c] = s
      /\ (small = {l} \/ small = {r})
    BY DEF Siblings, IsTree, Placed
<1>2. Formed(G[p]) /\ ~G[p].leaf /\ G[p].keys \in Seq(Key)
    BY <1>1 DEF Local, Formed
<1>3. c \in 1 .. Len(G[p].kids) /\ c + 1 \in 1 .. Len(G[p].kids) /\ c # c + 1
    BY <1>1, <1>2 DEF Formed
<1>4. l \in t.nodes /\ r \in t.nodes /\ t.lev[l] = t.lev[p] - 1 /\ t.lev[r] = t.lev[p] - 1
    BY <1>1, <1>3 DEF Local
<1>5. l # r
    <2> SUFFICES ASSUME l = r PROVE FALSE
        OBVIOUS
    <2>1. IsTree(G, t, {}, small) /\ G[p].kids[c] = G[p].kids[c + 1]
        BY <1>1 DEF Siblings
    <2> QED BY <2>1, <1>1, <1>3, OnePlace
<1>6. p # l /\ p # r /\ t.root # l /\ t.root # r
    <2>1. t.lev[p] <= t.lev[t.root] /\ t.lev[t.root] \in Nat
        BY <1>1 DEF Placed
    <2> QED BY <2>1, <1>1, <1>4
<1>7. Local(G, t, l) /\ Local(G, t, r) /\ \A x \in {l, r, p} : Sized(G[x], x, t.root, {}, small)
    BY <1>1, <1>4 DEF Siblings, IsTree
<1>8. Formed(G[l]) /\ Formed(G[r]) /\ G[l].leaf = G[r].leaf
    <2>1. (G[l].leaf <=> G[r].leaf) /\ Formed(G[l]) /\ Formed(G[r])
        BY <1>4, <1>7 DEF Local
    <2> QED BY <2>1 DEF Formed
<1>9. \A x \in {l, r, p} : Len(G[x].keys) <= MaxKeys
    BY <1>7 DEF Sized
<1>10. ASSUME NEW x \in {l, r} PROVE Enough(G[x], x \in small)
    <2>1. Sized(G[x], x, t.root, {}, small) /\ x # t.root /\ Formed(G[x])
        BY <1>6, <1>7, <1>8
    <2>2. Len(G[x].keys) \in Nat /\ MinKeys(G[x]) \in Nat
        BY <2>1, Orders DEF Formed, MinKeys
    <2>3. Len(G[x].keys) + (IF x \in small THEN 1 ELSE 0) >= MinKeys(G[x])
        BY <2>1 DEF Sized
    <2>4. CASE x \in small
        BY <2>2, <2>3, <2>4, <1>9 DEF Enough
    <2>5. CASE x \notin small
        BY <2>2, <2>3, <2>5, <1>9 DEF Enough
    <2> QED BY <2>4, <2>5
<1>11. s \in Key
    BY <1>1, <1>2
<1> QED BY <1>1, <1>2, <1>4, <1>5, <1>6, <1>8, <1>9, <1>10, <1>11 DEF Paired

LEMMA JoinsThem ==
    ASSUME NEW G, NEW t, NEW small, NEW p, NEW c, NEW l, NEW r, NEW s, Siblings(G, t, small, p, c, l, r, s),
           NEW G2, G2[l] = Joined(G[l], s, G[r]), G2[p] = Closed(G[p], c, l),
           \A x \in t.nodes : x # l /\ x # p => G2[x] = G[x]
    PROVE  /\ Joins(G, t, small, l, p, c, r, G2, Len(G[l].keys), Skip(G[l], Len(G[l].keys)), s)
           /\ Len(G2[l].keys) = Skip(G[l], Len(G[l].keys)) + Len(G[r].keys)
<1> DEFINE n == Len(G[l].keys)
           m == Skip(G[l], n)
<1>1. /\ IsTree(G, t, {}, small) /\ small \subseteq {l, r}
      /\ p \in t.nodes /\ t.lev[p] # 0 /\ c \in 1 .. Len(G[p].keys)
      /\ G[p].kids[c] = l /\ G[p].kids[c + 1] = r /\ G[p].keys[c] = s
      /\ (small = {l} \/ small = {r})
    BY DEF Siblings
<1>2. /\ Formed(G[l]) /\ Formed(G[r]) /\ Formed(G[p]) /\ G[l].leaf = G[r].leaf /\ ~G[p].leaf /\ s \in Key /\ l # r
      /\ Enough(G[l], l \in small) /\ Enough(G[r], r \in small)
    <2>1. Paired(G, t, small, p, c, l, r, s)
        BY SiblingFacts
    <2> QED BY <2>1 DEF Paired
<1>3. /\ NodeType(G2[l]) /\ G2[l].leaf = G[l].leaf /\ Len(G2[l].keys) = m + Len(G[r].keys)
      /\ Cuts(G2[l], G[l], G[r], n, m) /\ (~G[l].leaf => G2[l].keys[m] = s)
    BY <1>2, JoinedIs
<1>4. NodeType(G2[p]) /\ Grows(G2[p], G[p], c, s, r)
    BY <1>1, <1>2, ClosedShrinks
<1>5. m = IF G2[l].leaf THEN n ELSE n + 1
    BY <1>3 DEF Skip
<1>6. Len(G2[l].keys) >= MinKeys(G2[l])
    <2> DEFINE M == MinKeys(G2[l])
    <2>1. M = MinKeys(G[l]) /\ M = MinKeys(G[r]) /\ M \in Nat /\ M >= 1
        BY <1>2, <1>3, Orders DEF MinKeys
    <2>2. n \in Nat /\ Len(G[r].keys) \in Nat
        BY <1>2 DEF Formed
    <2>3. m >= n /\ m \in Nat
        BY <2>2 DEF Skip
    <2>4. l \notin small \/ r \notin small
        BY <1>1, <1>2
    <2>5. n + Len(G[r].keys) + 1 >= M + M
        <3>1. /\ n + 1 >= M /\ Len(G[r].keys) + 1 >= M
              /\ (l \notin small => n >= M) /\ (r \notin small => Len(G[r].keys) >= M)
            BY <2>1, <1>2 DEF Enough
        <3> HIDE DEF M, n
        <3> QED BY <3>1, <2>1, <2>2, <2>4
    <2> HIDE DEF M, n, m
    <2> QED BY <2>1, <2>2, <2>3, <2>5, <1>3 DEF M
<1> HIDE DEF n, m
<1>7. Joins(G, t, small, l, p, c, r, G2, n, m, s)
    BY <1>1, <1>3, <1>4, <1>5, <1>6 DEF Joins
<1> QED BY <1>3, <1>7 DEF n, m

LEMMA Resized ==
    ASSUME NEW G, NEW t, NEW big, NEW small, IsTree(G, t, big, small), NEW big2, NEW small2,
           \A x \in t.nodes : Sized(G[x], x, t.root, big, small) => Sized(G[x], x, t.root, big2, small2)
    PROVE  IsTree(G, t, big2, small2)
BY DEF IsTree

(* __mergeNode.                                                            *)
LEMMA MergedPair ==
    ASSUME NEW G, NEW t, NEW small, NEW p, NEW c, NEW l, NEW r, NEW s, Siblings(G, t, small, p, c, l, r, s),
           Len(G[l].keys) <= MinKeys(G[l]), Len(G[r].keys) <= MinKeys(G[r]),
           small = {l} => Len(G[l].keys) < MinKeys(G[l]), small = {r} => Len(G[r].keys) < MinKeys(G[r]),
           NEW G2, G2[l] = Joined(G[l], s, G[r]), G2[p] = Closed(G[p], c, l),
           \A x \in t.nodes : x # l /\ x # p => G2[x] = G[x]
    PROVE  /\ IsTree(G2, MergeGhost(t, l, r), {}, {p})
           /\ SameEntries(G, t, G2, MergeGhost(t, l, r))
           /\ t.lev[l] = 0 => Link(G[l]) = r
<1> DEFINE n == Len(G[l].keys)
           m == Skip(G[l], n)
           t2 == MergeGhost(t, l, r)
<1>1. Joins(G, t, small, l, p, c, r, G2, n, m, s) /\ Len(G2[l].keys) = m + Len(G[r].keys)
    BY JoinsThem
<1>2. IsTree(G2, t2, {l}, {p}) /\ SameEntries(G, t, G2, t2) /\ (t.lev[l] = 0 => Link(G[l]) = r)
    <2> HIDE DEF m, n, t2
    <2> QED BY <1>1, MergeOff DEF t2
<1>3. Len(G2[l].keys) <= MaxKeys
    <2> DEFINE R == Len(G[r].keys)
               M == MinKeys(G[l])
    <2>1. /\ Formed(G[l]) /\ Formed(G[r]) /\ G[l].leaf = G[r].leaf /\ (small = {l} \/ small = {r})
        <3>1. Paired(G, t, small, p, c, l, r, s)
            BY SiblingFacts
        <3> QED BY <3>1 DEF Paired
    <2>2. n \in Nat /\ R \in Nat /\ M = MinKeys(G[r]) /\ G[l].leaf \in BOOLEAN
        BY <2>1 DEF Formed, MinKeys
    <2>3. n + R + 1 <= M + M
        <3>1. M \in Nat
            BY Orders DEF MinKeys
        <3>2. n <= M /\ R <= M /\ (n < M \/ R < M)
            BY <2>1, <2>2
        <3> HIDE DEF n, R, M
        <3> QED BY <2>2, <3>1, <3>2
    <2>4. CASE G[l].leaf
        <3>1. m = n /\ M = MinLeaf
            BY <2>4 DEF Skip, MinKeys
        <3>2. MinLeaf + MinLeaf <= MaxKeys + 1 /\ MinLeaf \in Nat /\ MaxKeys \in Nat
            BY OrderAssumption DEF MinLeaf, MaxKeys
        <3>3. m + R <= MaxKeys
            <4> HIDE DEF n, m, R, M
            <4> QED BY <3>1, <3>2, <2>2, <2>3
        <3> QED BY <1>1, <3>3
    <2>5. CASE ~G[l].leaf
        <3>1. m = n + 1 /\ M = MinInt
            BY <2>5 DEF Skip, MinKeys
        <3>2. MinInt + MinInt <= MaxKeys /\ MinInt \in Nat /\ MaxKeys \in Nat
            BY OrderAssumption DEF MinInt, MaxKeys
        <3>3. m + R <= MaxKeys
            <4> HIDE DEF n, m, R, M
            <4> QED BY <3>1, <3>2, <2>2, <2>3
        <3> QED BY <1>1, <3>3
    <2> QED BY <2>2, <2>4, <2>5
<1>4. IsTree(G2, t2, {}, {p})
    <2> HIDE DEF t2
    <2>1. \A x \in t2.nodes : Sized(G2[x], x, t2.root, {l}, {p}) => Sized(G2[x], x, t2.root, {}, {p})
        BY <1>3 DEF Sized
    <2> QED BY <1>2, <2>1, Resized
<1> QED BY <1>2, <1>4

(* __borrowRight and __borrowLeft.                                         *)
LoanGhost(t, l, r, s) == SplitGhost(MergeGhost(t, l, r), l, r, s)

LEMMA LentPair ==
    ASSUME NEW G, NEW t, NEW small, NEW p, NEW c, NEW l, NEW r, NEW s, Siblings(G, t, small, p, c, l, r, s),
           NEW G2, NEW s2 \in Key, NEW n2, NEW m2, Loan(G[l], G[r], s, G2[l], G2[r], s2, n2, m2),
           G2[p] = [G[p] EXCEPT !.keys[c] = s2],
           \A x \in t.nodes : x # l /\ x # r /\ x # p => G2[x] = G[x]
    PROVE  /\ IsTree(G2, LoanGhost(t, l, r, s2), {}, {})
           /\ SameEntries(G, t, G2, LoanGhost(t, l, r, s2))
           /\ LoanGhost(t, l, r, s2).nodes = t.nodes /\ LoanGhost(t, l, r, s2).root = t.root
           /\ \A x \in t.nodes : LoanGhost(t, l, r, s2).lev[x] = t.lev[x]
           /\ \A x \in t.nodes : x # l /\ x # r => LoanGhost(t, l, r, s2).rng[x] = t.rng[x]
<1> DEFINE n == Len(G[l].keys)
           m == Skip(G[l], n)
           w == Joined(G[l], s, G[r])
           a == Closed(G[p], c, l)
           G1 == [x \in t.nodes |-> IF x = l THEN w ELSE IF x = p THEN a ELSE G[x]]
           t1 == MergeGhost(t, l, r)
           t2 == LoanGhost(t, l, r, s2)
<1>1. /\ l \in t.nodes /\ r \in t.nodes /\ p \in t.nodes /\ l # r /\ p # l /\ p # r
      /\ t.lev[l] = t.lev[p] - 1 /\ t.lev[r] = t.lev[p] - 1 /\ t.lev[p] # 0 /\ t.lev[p] \in Nat
      /\ Formed(G[l]) /\ Formed(G[r]) /\ Formed(G[p]) /\ G[l].leaf = G[r].leaf
      /\ Len(G[p].keys) <= MaxKeys /\ c \in 1 .. Len(G[p].keys) /\ Placed(t) /\ s \in Key
    <2>1. Paired(G, t, small, p, c, l, r, s)
        BY SiblingFacts
    <2> QED BY <2>1 DEF Paired
<1>2. G1[l] = w /\ G1[p] = a /\ \A x \in t.nodes : x # l /\ x # p => G1[x] = G[x]
    BY <1>1
<1> HIDE DEF G1
<1>3. Joins(G, t, small, l, p, c, r, G1, n, m, s)
    BY <1>2, JoinsThem
<1>4. /\ IsTree(G1, t1, {l}, {p}) /\ SameEntries(G, t, G1, t1) /\ (t.lev[l] = 0 => Link(G[l]) = r)
    <2> HIDE DEF m, n, t1
    <2> QED BY SMTT(30), <1>3, MergeOff DEF t1
<1>5. /\ t1.nodes = t.nodes \ {r} /\ t1.root = t.root
      /\ \A x \in t.nodes \ {r} : t1.lev[x] = t.lev[x] /\ (x # l => t1.rng[x] = t.rng[x])
    BY <1>1 DEF MergeGhost
<1>6. t2 = SplitGhost(t1, l, r, s2)
    BY DEF LoanGhost
<1>7. /\ t2.nodes = t.nodes /\ t2.root = t.root
      /\ \A x \in t.nodes : t2.lev[x] = t.lev[x] /\ (x # l /\ x # r => t2.rng[x] = t.rng[x])
    <2> HIDE DEF t1, t2
    <2> QED BY <1>1, <1>5, <1>6 DEF SplitGhost
<1>8. NodeType(a) /\ Grows(a, G[p], c, s, r) /\ NodeType(w)
    BY <1>2, <1>3 DEF Joins
<1> HIDE DEF t1, t2, w, a, n, m
<1>9. /\ RawCuts(w, G2[l], G2[r], n2, m2) /\ CutAt(w, n2, m2) /\ s2 = w.keys[m2]
      /\ (G[l].leaf => Link(G2[l]) = Link(G[l]))
    BY DEF Loan, w
<1>10. Local(G1, t1, l) /\ Formed(w) /\ (w.leaf <=> t.lev[l] = 0)
    <2>1. l \in t1.nodes
        BY <1>1, <1>5
    <2>2. Local(G1, t1, l)
        BY <2>1, <1>4 DEF IsTree
    <2> QED BY <2>2, <1>1, <1>2, <1>5 DEF Local
<1>11. Cuts(w, G2[l], G2[r], n2, m2)
    <2>1. Len(w.keys) \in Nat /\ n2 \in Nat /\ m2 \in Nat /\ n2 <= m2 /\ m2 < Len(w.keys)
        BY <1>9, <1>10, CutBetween
    <2>2. m2 <= Len(w.keys)
        BY <2>1
    <2> QED BY <2>1, <2>2, <1>9, <1>10, RawCutsSorted
<1>12. /\ a.kids[c] = l /\ c \in 1 .. Len(a.kids)
    <2>1. /\ Len(G[p].keys) = Len(a.keys) + 1 /\ Len(a.kids) = Len(a.keys) + 1 /\ ~a.leaf
        <3>1. Len(G[p].keys) = Len(a.keys) + 1 /\ G[p].leaf = a.leaf
            BY <1>8 DEF Grows
        <3>2. Len(a.kids) = Len(a.keys) + 1
            BY <1>8 DEF NodeType
        <3>3. Paired(G, t, small, p, c, l, r, s)
            BY SiblingFacts
        <3>4. ~G[p].leaf /\ a.leaf \in BOOLEAN
            BY <3>3, <1>8 DEF Paired, NodeType
        <3> QED BY <3>1, <3>2, <3>4
    <2>2. c \in 1 .. Len(a.kids) /\ c < c + 1
        BY <2>1, <1>1
    <2>3. G[p].kids[c] = a.kids[c] /\ G[p].kids[c] = l
        BY <2>1, <2>2, <1>8 DEF Grows, Siblings
    <2> QED BY <2>2, <2>3
<1>13. Grows(a, G2[p], c, s2, r)
    <2> DEFINE b == G2[p]
    <2>1. /\ G[p] \in [leaf : BOOLEAN, keys : Seq(Key), kids : Seq(Kid)] /\ G[p].keys \in Seq(Key)
        BY <1>1 DEF Formed
    <2>2. /\ b.leaf = G[p].leaf /\ b.kids = G[p].kids /\ b.keys = [G[p].keys EXCEPT ![c] = s2]
        BY <2>1
    <2>3. /\ b.keys \in Seq(Key) /\ Len(b.keys) = Len(G[p].keys) /\ b.keys[c] = s2
          /\ \A j \in 1 .. Len(G[p].keys) : j # c => b.keys[j] = G[p].keys[j]
        BY <2>1, <2>2, <1>1
    <2>4. b \in [leaf : BOOLEAN, keys : Seq(Key), kids : Seq(Kid)]
        BY <2>1, <2>2, <2>3
    <2> HIDE DEF b
    <2>5. Len(a.keys) \in Nat /\ Len(G[p].keys) = Len(a.keys) + 1 /\ c \in 1 .. Len(a.keys) + 1
        BY <1>8 DEF Grows, NodeType
    <2>6. ASSUME NEW j \in 1 .. Len(a.keys), j < c PROVE b.keys[j] = a.keys[j]
        <3>1. j \in 1 .. Len(G[p].keys) /\ j # c
            BY <2>5, <2>6
        <3> QED BY <3>1, <2>3, <2>6, <1>8 DEF Grows
    <2>7. ASSUME NEW j \in 1 .. Len(a.keys), j >= c PROVE b.keys[j + 1] = a.keys[j]
        <3>1. j + 1 \in 1 .. Len(G[p].keys) /\ j + 1 # c
            BY <2>5, <2>7
        <3> QED BY <3>1, <2>3, <2>7, <1>8 DEF Grows
    <2> QED BY <2>2, <2>3, <2>4, <2>5, <2>6, <2>7, <1>8 DEF Grows, b
<1>14. Divides(G1, t1, {p}, l, p, c, r, n2, m2, s2)
    <2>1. l \in t1.nodes /\ p \in t1.nodes /\ t1.lev[p] # 0 /\ r \notin t1.nodes /\ r \in Nat \ {0}
        BY <1>1, <1>5 DEF Placed
    <2> QED BY <2>1, <1>2, <1>4, <1>9, <1>12 DEF Divides
<1>15. SplitMap(G1, t1, G2, l, p, c, r, n2, m2, s2)
    <2>1. w.leaf => Link(G2[l]) = r
        <3>1. G[l].leaf <=> t.lev[l] = 0
            BY <1>1 DEF Siblings, IsTree, Local
        <3> QED BY <3>1, <1>4, <1>9, <1>10
    <2>2. ASSUME NEW x \in t1.nodes, x # l, x # p PROVE G2[x] = G1[x]
        BY <2>2, <1>2, <1>5
    <2> QED BY <2>1, <2>2, <1>2, <1>11, <1>13 DEF SplitMap
<1>16. IsTree(G2, t2, {p}, {}) /\ SameEntries(G1, t1, G2, t2)
    BY <1>6, <1>14, <1>15, SplitOff
<1>17. IsTree(G2, t2, {}, {})
    <2>1. Len(G2[p].keys) <= MaxKeys
        <3>1. G[p] \in [leaf : BOOLEAN, keys : Seq(Key), kids : Seq(Kid)] /\ G[p].keys \in Seq(Key)
            BY <1>1 DEF Formed
        <3>2. G2[p].keys = [G[p].keys EXCEPT ![c] = s2]
            BY <3>1
        <3>3. Len(G2[p].keys) = Len(G[p].keys)
            BY <3>1, <3>2
        <3> QED BY <3>3, <1>1
    <2>2. \A x \in t2.nodes : Sized(G2[x], x, t2.root, {p}, {}) => Sized(G2[x], x, t2.root, {}, {})
        BY <2>1 DEF Sized
    <2> QED BY <2>2, <1>16, Resized
<1>18. SameEntries(G, t, G2, t2)
    BY <1>4, <1>16 DEF SameEntries
<1> QED BY <1>7, <1>17, <1>18 DEF t2
=============================================================================
