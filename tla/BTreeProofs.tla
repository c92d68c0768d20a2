---------------------------- MODULE BTreeProofs ----------------------------
(***************************************************************************)
(* Theorems about BTree and BTreeCursor, for every order, set of keys and  *)
(* set of values.                                                          *)
(***************************************************************************)
EXTENDS BTreeCursor, BTreeShapeProofs

-----------------------------------------------------------------------------
(* The file.                                                               *)

IsFile(f) ==
    /\ DOMAIN f = {"read", "disk", "dirty", "retired", "free", "end", "hdr", "log", "aborted"}
    /\ f.read = [o \in DOMAIN f.read |-> f.read[o]]
    /\ f.disk = [o \in DOMAIN f.disk |-> f.disk[o]]

(* N are the nodes in use.  Those not changed in memory are on disk, and   *)
(* nothing else is.                                                        *)
Kept(f, N) ==
    /\ IsFile(f)
    /\ f.end \in Nat \ {0} /\ f.free \cap N = {} /\ f.free \cup N = 1 .. f.end - 1
    /\ N \subseteq DOMAIN f.read /\ IsFiniteSet(DOMAIN f.read) /\ IsFiniteSet(DOMAIN f.disk)
    /\ f.dirty \subseteq N /\ DOMAIN f.disk \subseteq N
    /\ \A o \in N \ f.dirty : o \in DOMAIN f.disk /\ f.disk[o] = f.read[o]

(* What a step from f to g leaves alone.                                   *)
SameRest(f, g) == g.hdr = f.hdr /\ g.retired = f.retired
SameUnits(f, g) == g.free = f.free /\ g.end = f.end

LEMMA NodeSet ==
    ASSUME NEW f, NEW N, Kept(f, N), NEW o \in N, NEW node
    PROVE  LET g == SetNode(f, o, node)
           IN  /\ Kept(g, N) /\ SameRest(f, g) /\ SameUnits(f, g)
               /\ g.dirty = f.dirty \cup {o}
               /\ g.read = [f.read EXCEPT ![o] = node]
<1> DEFINE g == SetNode(f, o, node)
<1>1. IsFile(f)
    BY DEF Kept
<1>3. /\ g.read = [f.read EXCEPT ![o] = node] /\ g.disk = f.disk /\ g.dirty = f.dirty \cup {o} /\ g.retired = f.retired
      /\ g.free = f.free /\ g.end = f.end /\ g.hdr = f.hdr /\ DOMAIN g = DOMAIN f
    BY <1>1 DEF SetNode, IsFile
<1> HIDE DEF g
<1>4. DOMAIN g.read = DOMAIN f.read /\ \A x \in DOMAIN f.read : x # o => g.read[x] = f.read[x]
    BY <1>1, <1>3 DEF IsFile
<1>5. IsFile(g)
    BY <1>1, <1>3 DEF IsFile
<1>6. Kept(g, N)
    <2>1. \A x \in N \ g.dirty : x \in DOMAIN g.disk /\ g.disk[x] = g.read[x]
        BY <1>3, <1>4 DEF Kept
    <2> QED BY <2>1, <1>3, <1>4, <1>5 DEF Kept
<1> QED BY <1>3, <1>6 DEF g, SameRest, SameUnits

LEMMA NodeWritten ==
    ASSUME NEW f, NEW N, Kept(f, N), NEW o
    PROVE  LET g == WriteNode(f, o)
           IN  /\ Kept(g, N) /\ SameRest(f, g) /\ SameUnits(f, g)
               /\ g.dirty = f.dirty \ {o}
               /\ g.read = f.read
<1> DEFINE g == WriteNode(f, o)
<1>1. IsFile(f)
    BY DEF Kept
<1>2. CASE o \in f.dirty
    <2> DEFINE h == [f EXCEPT !.disk = Put(@, o, f.read[o]), !.dirty = @ \ {o}]
               disk == Put(f.disk, o, f.read[o])
    <2>1. /\ h.read = f.read /\ h.disk = disk /\ h.dirty = f.dirty \ {o} /\ h.retired = f.retired
          /\ h.free = f.free /\ h.end = f.end /\ h.hdr = f.hdr /\ DOMAIN h = DOMAIN f
        BY <1>1 DEF IsFile
    <2>2. /\ DOMAIN disk = DOMAIN f.disk \cup {o} /\ disk[o] = f.read[o]
          /\ \A x \in DOMAIN f.disk : x # o => disk[x] = f.disk[x]
          /\ disk = [x \in DOMAIN disk |-> disk[x]]
        BY DEF Put
    <2> HIDE DEF disk, h
    <2>3. g = Logged(h)
        BY <1>2 DEF WriteNode, h
    <2> DEFINE log == Append(h.log, [disk |-> h.disk, hdr |-> h.hdr, free |-> h.free, end |-> h.end])
    <2>4. g = [h EXCEPT !.log = log]
        BY <2>3 DEF Logged
    <2> HIDE DEF log, g
    <2>6. /\ g.read = f.read /\ g.disk = disk /\ g.dirty = f.dirty \ {o} /\ g.retired = f.retired
          /\ g.free = f.free /\ g.end = f.end /\ g.hdr = f.hdr /\ DOMAIN g = DOMAIN f
        BY <2>1, <2>4, <1>1 DEF IsFile
    <2>7. IsFile(g)
        BY <1>1, <2>2, <2>6 DEF IsFile
    <2>8. IsFiniteSet(DOMAIN disk)
        BY <2>2, FS_AddElement DEF Kept
    <2>9. \A x \in N \ g.dirty : x \in DOMAIN g.disk /\ g.disk[x] = g.read[x]
        BY <2>2, <2>6 DEF Kept
    <2>10. DOMAIN g.disk \subseteq N
        BY <1>2, <2>2, <2>6 DEF Kept
    <2>11. Kept(g, N)
        BY <2>6, <2>7, <2>8, <2>9, <2>10 DEF Kept
    <2> QED BY <2>6, <2>11 DEF SameRest, SameUnits, g
<1>3. CASE o \notin f.dirty
    <2>1. g = [f EXCEPT !.aborted = @ \/ Asserts]
        BY <1>3 DEF WriteNode
    <2> HIDE DEF g
    <2>3. /\ g.read = f.read /\ g.disk = f.disk /\ g.dirty = f.dirty /\ g.retired = f.retired
          /\ g.free = f.free /\ g.end = f.end /\ g.hdr = f.hdr /\ DOMAIN g = DOMAIN f
        BY <2>1, <1>1 DEF IsFile
    <2>4. IsFile(g)
        BY <1>1, <2>3 DEF IsFile
    <2>5. Kept(g, N)
        BY <2>3, <2>4 DEF Kept
    <2> QED BY <2>3, <2>5, <1>3 DEF SameRest, SameUnits, g
<1> QED BY <1>2, <1>3

LEMMA NodeSaved ==
    ASSUME NEW f, NEW N, Kept(f, N), NEW o \in N, NEW node
    PROVE  LET g == SaveNode(f, o, node)
           IN  /\ Kept(g, N) /\ SameRest(f, g) /\ SameUnits(f, g)
               /\ g.dirty = f.dirty \ {o}
               /\ g.read = [f.read EXCEPT ![o] = node]
<1> DEFINE h == SetNode(f, o, node)
           g == SaveNode(f, o, node)
<1>1. /\ Kept(h, N) /\ SameRest(f, h) /\ SameUnits(f, h) /\ h.dirty = f.dirty \cup {o}
      /\ h.read = [f.read EXCEPT ![o] = node]
    BY NodeSet
<1> HIDE DEF h
<1>2. g = WriteNode(h, o)
    BY DEF SaveNode, h
<1> HIDE DEF g
<1>3. /\ Kept(g, N) /\ SameRest(h, g) /\ SameUnits(h, g) /\ g.dirty = h.dirty \ {o} /\ g.read = h.read
    BY <1>1, <1>2, NodeWritten
<1>4. g.dirty = f.dirty \ {o}
    BY <1>1, <1>3
<1> QED BY <1>1, <1>3, <1>4 DEF SameRest, SameUnits, g

LEMMA FreshOffset ==
    ASSUME NEW f, NEW N, Kept(f, N)
    PROVE  NewOffset(f) \in Nat \ {0} /\ NewOffset(f) \notin N /\ NewOffset(f) \in f.free \cup {f.end}
<1>1. f.end \in Nat \ {0} /\ f.free \cap N = {} /\ f.free \cup N = 1 .. f.end - 1
    BY DEF Kept
<1>2. CASE f.free = {}
    BY <1>1, <1>2 DEF NewOffset
<1>3. CASE f.free # {}
    <2>1. f.free \subseteq Nat /\ \A x \in f.free : x # 0
        BY <1>1
    <2>2. \E x \in f.free : \A y \in f.free : x <= y
        BY <2>1, <1>3, LeastIn
    <2>3. Min(f.free) \in f.free
        BY <2>2 DEF Min
    <2> QED BY <2>1, <2>3, <1>1, <1>3 DEF NewOffset
<1> QED BY <1>2, <1>3

LEMMA NodeAdded ==
    ASSUME NEW f, NEW N, Kept(f, N), f.retired = {}, NEW node, NEW q, q = NewOffset(f)
    PROVE  LET g == AddNode(f, node)
           IN  /\ Kept(g, N \cup {q}) /\ SameRest(f, g) /\ g.dirty = f.dirty
               /\ g.read = Put(f.read, q, node)
<1> DEFINE g == AddNode(f, node)
           read == Put(f.read, q, node)
           disk == Put(f.disk, q, node)
           end  == IF q = f.end THEN f.end + 1 ELSE f.end
           h == [f EXCEPT !.free = @ \ {q}, !.end  = IF q = @ THEN @ + 1 ELSE @,
                          !.disk = Put(@, q, node),
                          !.read = IF q \in f.retired THEN @ ELSE Put(@, q, node)]
           log == Append(h.log, [disk |-> h.disk, hdr |-> h.hdr, free |-> h.free, end |-> h.end])
<1>1. IsFile(f) /\ q \in Nat \ {0} /\ q \notin N /\ q \in f.free \cup {f.end}
    BY FreshOffset DEF Kept
<1>2. /\ DOMAIN disk = DOMAIN f.disk \cup {q} /\ disk[q] = node
      /\ \A x \in DOMAIN f.disk : x # q => disk[x] = f.disk[x]
      /\ disk = [x \in DOMAIN disk |-> disk[x]]
    BY DEF Put
<1>3. /\ DOMAIN read = DOMAIN f.read \cup {q} /\ read[q] = node
      /\ \A x \in DOMAIN f.read : x # q => read[x] = f.read[x]
      /\ read = [x \in DOMAIN read |-> read[x]]
    BY DEF Put
<1> HIDE DEF read, disk
<1>4. g = Logged(h)
    BY DEF AddNode
<1>5. /\ h.read = read /\ h.disk = disk /\ h.dirty = f.dirty /\ h.retired = f.retired
      /\ h.free = f.free \ {q} /\ h.end = end /\ h.hdr = f.hdr /\ DOMAIN h = DOMAIN f
    BY <1>1 DEF IsFile, read, disk
<1> HIDE DEF h, g, end
<1>6. g = [h EXCEPT !.log = log]
    BY <1>4 DEF Logged
<1> HIDE DEF log
<1>8. /\ g.read = read /\ g.disk = disk /\ g.dirty = f.dirty /\ g.retired = f.retired
      /\ g.free = f.free \ {q} /\ g.end = end /\ g.hdr = f.hdr /\ DOMAIN g = DOMAIN f
    BY <1>1, <1>5, <1>6 DEF IsFile
<1>9. IsFile(g)
    BY <1>1, <1>2, <1>3, <1>8 DEF IsFile
<1>10. /\ g.end \in Nat \ {0} /\ g.free \cap (N \cup {q}) = {} /\ g.free \cup (N \cup {q}) = 1 .. g.end - 1
    <2>1. f.end \in Nat \ {0} /\ f.free \cap N = {} /\ f.free \cup N = 1 .. f.end - 1
        BY DEF Kept
    <2>2. CASE q = f.end
        <3>1. g.end = f.end + 1 /\ 1 .. g.end - 1 = (1 .. f.end - 1) \cup {q}
            BY <2>1, <2>2, <1>8 DEF end
        <3>2. q \notin f.free
            BY <2>1, <2>2
        <3> QED BY <3>1, <3>2, <2>1, <1>1, <1>8
    <2>3. CASE q # f.end
        BY <2>1, <2>3, <1>1, <1>8 DEF end
    <2> QED BY <2>2, <2>3
<1>11. IsFiniteSet(DOMAIN read) /\ IsFiniteSet(DOMAIN disk)
    BY <1>2, <1>3, FS_AddElement DEF Kept
<1>12. ASSUME NEW x \in (N \cup {q}) \ g.dirty PROVE x \in DOMAIN g.disk /\ g.disk[x] = g.read[x]
    <2>1. CASE x = q
        BY <2>1, <1>2, <1>3, <1>8
    <2>2. CASE x # q
        <3>1. x \in N \ f.dirty /\ x \in DOMAIN f.read
            BY <2>2, <1>8 DEF Kept
        <3>2. x \in DOMAIN f.disk /\ f.disk[x] = f.read[x]
            BY <3>1 DEF Kept
        <3> QED BY <3>1, <3>2, <2>2, <1>2, <1>3, <1>8
    <2> QED BY <2>1, <2>2
<1>13. N \cup {q} \subseteq DOMAIN read /\ g.dirty \subseteq N \cup {q} /\ DOMAIN g.disk \subseteq N \cup {q}
    BY <1>2, <1>3, <1>8 DEF Kept
<1>14. Kept(g, N \cup {q})
    BY <1>8, <1>9, <1>10, <1>11, <1>12, <1>13 DEF Kept
<1> QED BY <1>8, <1>14 DEF SameRest, g, read

LEMMA NodeErased ==
    ASSUME NEW f, NEW N, Kept(f, N), NEW o \in N, o \notin f.dirty
    PROVE  LET g == EraseNode(f, o)
           IN  /\ Kept(g, N \ {o}) /\ g.hdr = f.hdr /\ g.dirty = f.dirty /\ g.read = f.read
<1> DEFINE g == EraseNode(f, o)
           disk == [p \in DOMAIN f.disk \ {o} |-> f.disk[p]]
<1>1. IsFile(f)
    BY DEF Kept
<1>3. /\ g.read = f.read /\ g.disk = disk /\ g.dirty = f.dirty
      /\ g.free = f.free \cup {o} /\ g.end = f.end /\ g.hdr = f.hdr /\ DOMAIN g = DOMAIN f
    BY <1>1 DEF IsFile, EraseNode
<1> HIDE DEF g
<1>4. IsFile(g)
    BY <1>1, <1>3 DEF IsFile
<1>5. IsFiniteSet(DOMAIN disk)
    BY FS_Subset DEF Kept
<1>6. \A x \in (N \ {o}) \ g.dirty : x \in DOMAIN g.disk /\ g.disk[x] = g.read[x]
    BY <1>3 DEF Kept
<1>7. g.free \cap (N \ {o}) = {} /\ g.free \cup (N \ {o}) = 1 .. g.end - 1
    BY <1>3 DEF Kept
<1>8. DOMAIN g.disk \subseteq N \ {o}
    BY <1>3 DEF Kept
<1>9. Kept(g, N \ {o})
    BY <1>3, <1>4, <1>5, <1>6, <1>7, <1>8 DEF Kept
<1> QED BY <1>3, <1>9 DEF g

-----------------------------------------------------------------------------
(* The header.  The size's low word counts; a long of two words shares its *)
(* high word with the root's low one.                                      *)

Words(f) ==
    /\ f.hdr \in [1 .. 4 -> Nat]
    /\ LongWords = 2 => f.hdr[1] < WordBase /\ f.hdr[2] < WordBase
SameNodes(f, g) == g.read = f.read /\ g.dirty = f.dirty /\ g.retired = f.retired /\ SameUnits(f, g)

LEMMA SplitLong ==
    ASSUME NEW W \in Nat \ {0}, NEW x \in Nat
    PROVE  /\ x % W \in Nat /\ x % W < W /\ x \div W \in Nat
           /\ (x % W) + W * (x \div W) = x
OBVIOUS

LEMMA TwoWords ==
    ASSUME NEW W \in Nat \ {0}, NEW lo \in Nat, lo < W, NEW hi \in Nat
    PROVE  /\ lo + W * hi \in Nat
           /\ (lo + W * hi) % W = lo
           /\ (lo + W * hi) \div W = hi
<1> DEFINE x == lo + W * hi
           q == x \div W
           r == x % W
<1>1. W * hi \in Nat /\ x \in Nat
    OBVIOUS
<1>2. q \in Nat /\ r \in Nat /\ r < W /\ r + W * q = x
    BY <1>1, SplitLong
<1> HIDE DEF q, r
<1>3. q = hi
    <2>1. ASSUME NEW a \in Nat, NEW b \in Nat, a < b PROVE W * a + W <= W * b
        <3>1. PICK d \in Nat : b = a + 1 + d
            <4>1. b - a - 1 \in Nat /\ b = a + 1 + (b - a - 1)
                BY <2>1
            <4> QED BY <4>1
        <3>2. W * b = W * a + W + W * d /\ W * d \in Nat /\ W * a \in Nat
            BY <3>1
        <3> QED BY <3>2
    <2>2. W * q \in Nat /\ W * hi \in Nat
        BY <1>2
    <2>3. q < hi => FALSE
        <3>1. q < hi => W * q + W <= W * hi
            BY <2>1, <1>2
        <3> QED BY <3>1, <2>2, <1>2
    <2>4. hi < q => FALSE
        <3>1. hi < q => W * hi + W <= W * q
            BY <2>1, <1>2
        <3> QED BY <3>1, <2>2, <1>2
    <2> QED BY <2>3, <2>4, <1>2
<1>4. r = lo
    <2>1. W * q = W * hi /\ W * hi \in Nat
        BY <1>1, <1>3
    <2> QED BY <2>1, <1>2
<1> QED BY <1>1, <1>3, <1>4 DEF q, r

LEMMA FieldWritten ==
    ASSUME NEW f, NEW N, Kept(f, N), Words(f), NEW i \in 1 .. 3, NEW x \in Nat
    PROVE  LET g == SetField(f, i, x)
           IN  /\ Kept(g, N) /\ SameNodes(f, g)
               /\ LongWords = 1 => g.hdr = [f.hdr EXCEPT ![i] = x]
               /\ LongWords = 2 => g.hdr = [f.hdr EXCEPT ![i] = x % WordBase, ![i + 1] = x \div WordBase]
<1> DEFINE one == [f EXCEPT !.hdr[i] = x]
           two == [f EXCEPT !.hdr[i] = x % WordBase, !.hdr[i + 1] = x \div WordBase]
           h == IF LongWords = 1 THEN one ELSE two
           g == SetField(f, i, x)
           log == Append(h.log, [disk |-> h.disk, hdr |-> h.hdr, free |-> h.free, end |-> h.end])
<1>1. IsFile(f)
    BY DEF Kept
<1>2. /\ h.read = f.read /\ h.disk = f.disk /\ h.dirty = f.dirty /\ h.retired = f.retired
      /\ h.free = f.free /\ h.end = f.end /\ DOMAIN h = DOMAIN f
      /\ LongWords = 1 => h.hdr = [f.hdr EXCEPT ![i] = x]
      /\ LongWords = 2 => h.hdr = [f.hdr EXCEPT ![i] = x % WordBase, ![i + 1] = x \div WordBase]
    <2>1. /\ one.read = f.read /\ one.disk = f.disk /\ one.dirty = f.dirty /\ one.retired = f.retired
          /\ one.free = f.free /\ one.end = f.end /\ DOMAIN one = DOMAIN f
          /\ one.hdr = [f.hdr EXCEPT ![i] = x]
        BY <1>1 DEF IsFile
    <2>2. /\ two.read = f.read /\ two.disk = f.disk /\ two.dirty = f.dirty /\ two.retired = f.retired
          /\ two.free = f.free /\ two.end = f.end /\ DOMAIN two = DOMAIN f
          /\ two.hdr = [f.hdr EXCEPT ![i] = x % WordBase, ![i + 1] = x \div WordBase]
        BY <1>1 DEF IsFile
    <2> HIDE DEF one, two
    <2>3. CASE LongWords = 1
        BY <2>1, <2>3
    <2>4. CASE LongWords = 2
        BY <2>2, <2>4
    <2> QED BY <2>3, <2>4, BTreeAssumption
<1>3. g = Logged(h)
    BY DEF SetField
<1> HIDE DEF h
<1>4. g = [h EXCEPT !.log = log]
    BY <1>3 DEF Logged
<1> HIDE DEF g, log
<1>5. /\ g.read = f.read /\ g.disk = f.disk /\ g.dirty = f.dirty /\ g.retired = f.retired
      /\ g.free = f.free /\ g.end = f.end /\ DOMAIN g = DOMAIN f /\ g.hdr = h.hdr
    BY <1>1, <1>2, <1>4 DEF IsFile
<1>6. IsFile(g)
    BY <1>1, <1>5 DEF IsFile
<1>7. Kept(g, N)
    BY <1>5, <1>6 DEF Kept
<1> QED BY <1>2, <1>5, <1>7 DEF SameNodes, SameUnits, g

(* The new size differs from the old one by what its low word has room for. *)
LEMMA SizeWritten ==
    ASSUME NEW f, NEW N, Kept(f, N), Words(f), NEW low \in Nat, LongWords = 2 => low < WordBase,
           NEW x, x = Size(f) + (low - f.hdr[1])
    PROVE  LET g == SetField(f, SIZE, x)
           IN  /\ Kept(g, N) /\ SameNodes(f, g) /\ Words(g)
               /\ g.hdr[1] = low /\ Root(g) = Root(f) /\ g.hdr[3] = f.hdr[3]
<1> DEFINE g == SetField(f, SIZE, x)
           W == WordBase
<1>1. /\ f.hdr \in [1 .. 4 -> Nat] /\ f.hdr[1] \in Nat /\ f.hdr[2] \in Nat /\ f.hdr[3] \in Nat
      /\ W \in Nat \ {0} /\ LongWords \in {1, 2}
    BY BTreeAssumption DEF Words
<1>2. CASE LongWords = 1
    <2>1. x = low
        BY <1>1, <1>2 DEF Size, GetField, SIZE
    <2>2. /\ Kept(g, N) /\ SameNodes(f, g) /\ g.hdr = [f.hdr EXCEPT ![1] = x]
        BY <2>1, <1>2, FieldWritten DEF SIZE
    <2> HIDE DEF g
    <2>3. Words(g) /\ g.hdr[1] = low /\ g.hdr[2] = f.hdr[2] /\ g.hdr[3] = f.hdr[3]
        BY <2>1, <2>2, <1>1, <1>2 DEF Words
    <2> QED BY <2>2, <2>3, <1>2 DEF Root, GetField, ROOT, g
<1>3. CASE LongWords = 2
    <2>0. f.hdr[1] < W /\ f.hdr[2] < W
        BY <1>3 DEF Words
    <2>1. x = low + W * f.hdr[2]
        <3>1. Size(f) = f.hdr[1] + W * f.hdr[2]
            BY <1>3 DEF Size, GetField, SIZE
        <3>2. W * f.hdr[2] \in Nat
            BY <1>1
        <3> QED BY <3>1, <3>2, <1>1
    <2>2. x \in Nat /\ x % W = low /\ x \div W = f.hdr[2]
        <3> HIDE DEF W
        <3> QED BY <2>1, <1>1, <1>3, TwoWords DEF W
    <2>3. /\ Kept(g, N) /\ SameNodes(f, g) /\ g.hdr = [f.hdr EXCEPT ![1] = x % W, ![1 + 1] = x \div W]
        BY <2>2, <1>3, FieldWritten DEF SIZE
    <2> HIDE DEF g
    <2>4. g.hdr = [f.hdr EXCEPT ![1] = low, ![2] = f.hdr[2]]
        BY <2>2, <2>3
    <2>5. Words(g) /\ g.hdr[1] = low /\ g.hdr[2] = f.hdr[2] /\ g.hdr[3] = f.hdr[3]
        BY <2>0, <2>4, <1>1, <1>3 DEF Words
    <2> QED BY <2>3, <2>5, <1>3 DEF Root, GetField, ROOT, g
<1> QED BY <1>1, <1>2, <1>3

LEMMA RootWritten ==
    ASSUME NEW f, NEW N, Kept(f, N), Words(f), NEW o \in Nat
    PROVE  LET g == SetField(f, ROOT, o)
           IN  /\ Kept(g, N) /\ SameNodes(f, g) /\ Words(g)
               /\ g.hdr[1] = f.hdr[1] /\ Root(g) = o /\ (LongWords = 1 => g.hdr[3] = f.hdr[3])
<1> DEFINE g == SetField(f, ROOT, o)
           W == WordBase
<1>1. /\ f.hdr \in [1 .. 4 -> Nat] /\ f.hdr[1] \in Nat /\ f.hdr[2] \in Nat /\ f.hdr[3] \in Nat
      /\ W \in Nat \ {0} /\ LongWords \in {1, 2}
    BY BTreeAssumption DEF Words
<1>2. CASE LongWords = 1
    <2>2. /\ Kept(g, N) /\ SameNodes(f, g) /\ g.hdr = [f.hdr EXCEPT ![2] = o]
        BY <1>2, FieldWritten DEF ROOT
    <2> HIDE DEF g
    <2>3. Words(g) /\ g.hdr[1] = f.hdr[1] /\ g.hdr[2] = o /\ g.hdr[3] = f.hdr[3]
        BY <2>2, <1>1, <1>2 DEF Words
    <2> QED BY <2>2, <2>3, <1>2 DEF Root, GetField, ROOT, g
<1>3. CASE LongWords = 2
    <2>2. o % W \in Nat /\ o % W < W /\ o \div W \in Nat /\ (o % W) + W * (o \div W) = o
        BY <1>1, SplitLong
    <2>3. /\ Kept(g, N) /\ SameNodes(f, g) /\ g.hdr = [f.hdr EXCEPT ![2] = o % W, ![2 + 1] = o \div W]
        BY <1>3, FieldWritten DEF ROOT
    <2> HIDE DEF g, W
    <2> DEFINE a == o % W
               b == o \div W
    <2>4. g.hdr = [f.hdr EXCEPT ![2] = a, ![3] = b] /\ a \in Nat /\ a < W /\ b \in Nat /\ a + W * b = o
        BY <2>2, <2>3
    <2> HIDE DEF a, b
    <2>5. f.hdr[1] < W
        BY <1>3 DEF Words, W
    <2>6. g.hdr \in [1 .. 4 -> Nat] /\ g.hdr[1] = f.hdr[1] /\ g.hdr[2] = a /\ g.hdr[3] = b
        BY <2>4, <1>1
    <2>7. Words(g)
        BY <2>4, <2>5, <2>6, <1>3 DEF Words, W
    <2>8. Root(g) = o
        <3>1. Root(g) = g.hdr[2] + W * g.hdr[2 + 1]
            BY <1>3 DEF Root, GetField, ROOT, W
        <3>2. 2 + 1 = 3
            OBVIOUS
        <3> QED BY <3>1, <3>2, <2>4, <2>6
    <2> QED BY <2>3, <2>6, <2>7, <2>8, <1>3 DEF g
<1> QED BY <1>1, <1>2, <1>3

LEMMA LeftLeafWritten ==
    ASSUME NEW f, NEW N, Kept(f, N), Words(f), NEW o \in Nat
    PROVE  LET g == SetField(f, LEFTLEAF, o)
           IN  /\ Kept(g, N) /\ SameNodes(f, g) /\ Words(g)
               /\ g.hdr[1] = f.hdr[1] /\ (LongWords = 1 => g.hdr[3] = o)
<1> DEFINE g == SetField(f, LEFTLEAF, o)
           W == WordBase
<1>1. /\ f.hdr \in [1 .. 4 -> Nat] /\ f.hdr[1] \in Nat /\ f.hdr[2] \in Nat /\ f.hdr[3] \in Nat
      /\ W \in Nat \ {0} /\ LongWords \in {1, 2}
    BY BTreeAssumption DEF Words
<1>2. CASE LongWords = 1
    <2>2. /\ Kept(g, N) /\ SameNodes(f, g) /\ g.hdr = [f.hdr EXCEPT ![3] = o]
        BY <1>2, FieldWritten DEF LEFTLEAF
    <2> HIDE DEF g
    <2>3. Words(g) /\ g.hdr[1] = f.hdr[1] /\ g.hdr[3] = o
        BY <2>2, <1>1, <1>2 DEF Words
    <2> QED BY <2>2, <2>3, <1>2 DEF g
<1>3. CASE LongWords = 2
    <2>2. o % W \in Nat /\ o \div W \in Nat
        BY <1>1, SplitLong
    <2>3. /\ Kept(g, N) /\ SameNodes(f, g) /\ g.hdr = [f.hdr EXCEPT ![3] = o % W, ![3 + 1] = o \div W]
        BY <1>3, FieldWritten DEF LEFTLEAF
    <2> HIDE DEF g, W
    <2> DEFINE a == o % W
               b == o \div W
    <2>4. g.hdr = [f.hdr EXCEPT ![3] = a, ![4] = b] /\ a \in Nat /\ b \in Nat
        BY <2>2, <2>3
    <2> HIDE DEF a, b
    <2>5. f.hdr[1] < W /\ f.hdr[2] < W
        BY <1>3 DEF Words, W
    <2>6. g.hdr \in [1 .. 4 -> Nat] /\ g.hdr[1] = f.hdr[1] /\ g.hdr[2] = f.hdr[2]
        BY <2>4, <1>1
    <2>7. Words(g)
        BY <2>5, <2>6, <1>3 DEF Words, W
    <2> QED BY <2>3, <2>6, <2>7, <1>3 DEF g
<1> QED BY <1>1, <1>2, <1>3

-----------------------------------------------------------------------------
(* The first leaf stays the first.                                         *)

First(t, a) ==
    /\ a \in t.nodes /\ t.lev[a] = 0
    /\ \A j \in t.rng[a], i \in Key : i < j => i \in t.rng[a]
FirstKept(t, t2) == \A a : First(t, a) => First(t2, a)

LEMMA SplitFirst ==
    ASSUME NEW t, \A x \in t.nodes : t.rng[x] \subseteq Key, NEW o \in t.nodes, NEW q, q \notin t.nodes, NEW s \in Key
    PROVE  FirstKept(t, SplitGhost(t, o, q, s))
<1> DEFINE t2 == SplitGhost(t, o, q, s)
<1> SUFFICES ASSUME NEW a, First(t, a) PROVE First(t2, a)
    BY DEF FirstKept
<1>1. /\ a \in t.nodes /\ t.lev[a] = 0 /\ t.rng[a] \subseteq Key
      /\ \A j \in t.rng[a], i \in Key : i < j => i \in t.rng[a]
    BY DEF First
<1>2. /\ a \in t2.nodes /\ t2.lev[a] = 0
      /\ t2.rng[a] = IF a = o THEN {k \in t.rng[o] : k <= s} ELSE t.rng[a]
    BY <1>1 DEF SplitGhost
<1> HIDE DEF t2
<1>3. CASE a = o
    <2>1. ASSUME NEW j \in t.rng[a], NEW i \in Key, j <= s, i < j PROVE i <= s
        <3>1. i \in Int /\ j \in Int /\ s \in Int
            BY <1>1, KeysAreInts
        <3> QED BY <3>1, <2>1
    <2> QED BY <2>1, <1>1, <1>2, <1>3 DEF First
<1>4. CASE a # o
    BY <1>1, <1>2, <1>4 DEF First
<1> QED BY <1>3, <1>4

(* Every leaf stays a leaf and keeps the smaller keys of its range.        *)
Heirs(t, t2) ==
    /\ FirstKept(t, t2)
    /\ \A a \in t.nodes : t.lev[a] = 0 =>
          /\ a \in t2.nodes /\ t2.lev[a] = 0 /\ t2.rng[a] \subseteq t.rng[a]
          /\ \A j \in t2.rng[a], k \in t.rng[a] : k \notin t2.rng[a] => j < k

LEMMA OwnHeirs ==
    ASSUME NEW t
    PROVE  Heirs(t, t)
BY DEF Heirs, FirstKept

LEMMA HeirsOfHeirs ==
    ASSUME NEW t, NEW t1, Heirs(t, t1), NEW t2, Heirs(t1, t2)
    PROVE  Heirs(t, t2)
<1>1. FirstKept(t, t2)
    BY DEF Heirs, FirstKept
<1>2. ASSUME NEW a \in t.nodes, t.lev[a] = 0
      PROVE  /\ a \in t2.nodes /\ t2.lev[a] = 0 /\ t2.rng[a] \subseteq t.rng[a]
             /\ \A j \in t2.rng[a], k \in t.rng[a] : k \notin t2.rng[a] => j < k
    <2>1. /\ a \in t1.nodes /\ t1.lev[a] = 0 /\ t1.rng[a] \subseteq t.rng[a]
          /\ \A j \in t1.rng[a], k \in t.rng[a] : k \notin t1.rng[a] => j < k
        BY <1>2 DEF Heirs
    <2>2. /\ a \in t2.nodes /\ t2.lev[a] = 0 /\ t2.rng[a] \subseteq t1.rng[a]
          /\ \A j \in t2.rng[a], k \in t1.rng[a] : k \notin t2.rng[a] => j < k
        BY <2>1 DEF Heirs
    <2> QED BY <2>1, <2>2
<1> QED BY <1>1, <1>2 DEF Heirs

LEMMA SplitHeirs ==
    ASSUME NEW t, \A x \in t.nodes : t.rng[x] \subseteq Key, NEW o \in t.nodes, NEW q, q \notin t.nodes, NEW s \in Key
    PROVE  Heirs(t, SplitGhost(t, o, q, s))
<1> DEFINE t2 == SplitGhost(t, o, q, s)
<1>1. FirstKept(t, t2)
    BY SplitFirst
<1>2. ASSUME NEW a \in t.nodes, t.lev[a] = 0
      PROVE  /\ a \in t2.nodes /\ t2.lev[a] = 0 /\ t2.rng[a] \subseteq t.rng[a]
             /\ \A j \in t2.rng[a], k \in t.rng[a] : k \notin t2.rng[a] => j < k
    <2>1. /\ a \in t2.nodes /\ t2.lev[a] = 0
          /\ t2.rng[a] = IF a = o THEN {k \in t.rng[o] : k <= s} ELSE t.rng[a]
        BY <1>2 DEF SplitGhost
    <2> HIDE DEF t2
    <2>2. ASSUME NEW j \in t2.rng[a], NEW k \in t.rng[a], k \notin t2.rng[a] PROVE j < k
        <3>1. a = o /\ j \in t.rng[o] /\ j <= s /\ ~(k <= s)
            BY <2>1, <2>2
        <3>2. j \in Int /\ k \in Int /\ s \in Int
            BY <3>1, <2>2, KeysAreInts
        <3> QED BY <3>1, <3>2
    <2> QED BY <2>1, <2>2
<1> HIDE DEF t2
<1>3. Heirs(t, t2)
    BY <1>1, <1>2 DEF Heirs
<1> QED BY <1>3 DEF t2

LEMMA MergeFirst ==
    ASSUME NEW t, Placed(t), NEW l, NEW r, NEW p, NEW c, NEW b, NEW s, Neighbours(t, l, p, c, r, b, s)
    PROVE  FirstKept(t, MergeGhost(t, l, r))
<1> DEFINE t2 == MergeGhost(t, l, r)
<1> SUFFICES ASSUME NEW a, First(t, a) PROVE First(t2, a)
    BY DEF FirstKept
<1>1. /\ a \in t.nodes /\ t.lev[a] = 0 /\ t.rng[a] \subseteq Key
      /\ \A j \in t.rng[a], i \in Key : i < j => i \in t.rng[a]
    BY DEF First, Placed, Reaches
<1>2. /\ s \in Key /\ s \in t.rng[l] /\ l # r /\ \A k \in t.rng[r] : k > s
      /\ l \in t.nodes /\ r \in t.nodes /\ Reaches(t.rng[l] \cup t.rng[r]) /\ Reaches(t.rng[r])
    BY DEF Neighbours, Placed
<1>3. a # r
    <2> SUFFICES ASSUME a = r PROVE FALSE
        OBVIOUS
    <2>1. PICK j \in t.rng[r] : j \in Key
        BY <1>2 DEF Reaches
    <2>2. s < j /\ s \in Int
        BY <2>1, <1>2, KeysAreInts
    <2>3. s \in t.rng[r]
        BY <2>1, <2>2, <1>1, <1>2
    <2>4. s > s
        BY <2>3, <1>2
    <2> QED BY <2>2, <2>4
<1>4. /\ a \in t2.nodes /\ t2.lev[a] = 0
      /\ t2.rng[a] = IF a = l THEN t.rng[l] \cup t.rng[r] ELSE t.rng[a]
    BY <1>1, <1>3 DEF MergeGhost
<1> HIDE DEF t2
<1>5. CASE a = l
    <2> SUFFICES ASSUME NEW j \in t.rng[l] \cup t.rng[r], NEW i \in Key, i < j
                 PROVE  i \in t.rng[l] \cup t.rng[r]
        BY <1>1, <1>4, <1>5 DEF First
    <2>1. i \in Int /\ s \in Int /\ j \in Int
        BY <1>2, KeysAreInts DEF Reaches
    <2>2. CASE i <= s
        <3>1. i = s \/ i < s
            BY <2>1, <2>2
        <3> QED BY <3>1, <1>1, <1>2, <1>5
    <2>3. CASE i > s
        BY <2>1, <2>3, <1>2 DEF Reaches
    <2> QED BY <2>1, <2>2, <2>3
<1>6. CASE a # l
    BY <1>1, <1>4, <1>6 DEF First
<1> QED BY <1>5, <1>6

LEMMA SiblingNeighbours ==
    ASSUME NEW G, NEW t, NEW small, NEW p, NEW c, NEW l, NEW r, NEW s, Siblings(G, t, small, p, c, l, r, s)
    PROVE  \E b : Neighbours(t, l, p, c, r, b, s)
<1> DEFINE n == Len(G[l].keys)
           m == Skip(G[l], n)
           w == Joined(G[l], s, G[r])
           a == Closed(G[p], c, l)
           G2 == [x \in t.nodes |-> IF x = l THEN w ELSE IF x = p THEN a ELSE G[x]]
<1>1. l \in t.nodes /\ r \in t.nodes /\ p \in t.nodes /\ p # l
    <2>1. Paired(G, t, small, p, c, l, r, s)
        BY SiblingFacts
    <2> QED BY <2>1 DEF Paired
<1>2. G2[l] = w /\ G2[p] = a /\ \A x \in t.nodes : x # l /\ x # p => G2[x] = G[x]
    BY <1>1
<1> HIDE DEF G2
<1>3. Joins(G, t, small, l, p, c, r, G2, n, m, s)
    BY <1>2, JoinsThem
<1> HIDE DEF n, m
<1>4. Neighbours(t, l, p, c, r, G2[p], s)
    BY <1>3, MergeFacts
<1> QED BY <1>4

-----------------------------------------------------------------------------
(* The end of __delete, on the file.                                       *)

(* The file f holds a tree t, all of it written.                           *)
Stored(f, t, big, small) == Kept(f, t.nodes) /\ f.dirty = {} /\ IsTree(f.read, t, big, small)

(* Nodes o, p and q become x, y and z; all of it is written.                *)
Rewritten(f, g, N, o, x, p, y, q, z) ==
    /\ Kept(g, N) /\ g.dirty = {} /\ g.hdr = f.hdr
    /\ g.read[o] = x /\ g.read[p] = y /\ g.read[q] = z
    /\ \A a \in N : a # o /\ a # p /\ a # q => g.read[a] = f.read[a]

LEMMA BorrowDone ==
    ASSUME NEW f, NEW N, Kept(f, N), f.dirty = {}, NEW o \in N, NEW p \in N, NEW q \in N,
           o # p, o # q, p # q, NEW trio
    PROVE  Rewritten(f, Borrow(f, o, p, q, trio), N, o, trio.node, p, trio.prev, q, trio.sib)
<1> DEFINE a == SetNode(f, o, trio.node)
           b == SetNode(a, p, trio.prev)
           c == SaveNode(b, q, trio.sib)
           d == WriteNode(c, o)
           g == WriteNode(d, p)
<1>0. Borrow(f, o, p, q, trio) = g
    BY DEF Borrow
<1>1. Kept(a, N) /\ SameRest(f, a) /\ a.dirty = {o} /\ a.read = [f.read EXCEPT ![o] = trio.node]
    BY NodeSet
<1> HIDE DEF a
<1>2. Kept(b, N) /\ SameRest(a, b) /\ b.dirty = {o, p} /\ b.read = [a.read EXCEPT ![p] = trio.prev]
    BY <1>1, NodeSet
<1> HIDE DEF b
<1>3. Kept(c, N) /\ SameRest(b, c) /\ c.dirty = {o, p} /\ c.read = [b.read EXCEPT ![q] = trio.sib]
    <2>1. Kept(c, N) /\ SameRest(b, c) /\ c.dirty = b.dirty \ {q} /\ c.read = [b.read EXCEPT ![q] = trio.sib]
        BY <1>2, NodeSaved
    <2> QED BY <2>1, <1>2
<1> HIDE DEF c
<1>4. Kept(d, N) /\ SameRest(c, d) /\ d.dirty = {p} /\ d.read = c.read
    <2>1. Kept(d, N) /\ SameRest(c, d) /\ d.dirty = c.dirty \ {o} /\ d.read = c.read
        BY <1>3, NodeWritten
    <2> QED BY <2>1, <1>3
<1> HIDE DEF d
<1>5. Kept(g, N) /\ SameRest(d, g) /\ g.dirty = {} /\ g.read = d.read
    <2>1. Kept(g, N) /\ SameRest(d, g) /\ g.dirty = d.dirty \ {p} /\ g.read = d.read
        BY <1>4, NodeWritten
    <2> QED BY <2>1, <1>4
<1> HIDE DEF g
<1>6. N \subseteq DOMAIN f.read /\ N \subseteq DOMAIN a.read /\ N \subseteq DOMAIN b.read
    BY <1>1, <1>2 DEF Kept
<1>7. /\ a.read[o] = trio.node /\ \A x \in N : x # o => a.read[x] = f.read[x]
    BY <1>1, <1>6
<1>8. /\ b.read[p] = trio.prev /\ \A x \in N : x # p => b.read[x] = a.read[x]
    BY <1>2, <1>6
<1>9. /\ g.read[q] = trio.sib /\ \A x \in N : x # q => g.read[x] = b.read[x]
    BY <1>3, <1>4, <1>5, <1>6
<1>10. g.hdr = f.hdr
    BY <1>1, <1>2, <1>3, <1>4, <1>5 DEF SameRest
<1> QED BY <1>0, <1>5, <1>7, <1>8, <1>9, <1>10 DEF Rewritten

(* The writes that may or may not find something to write.                 *)
LEMMA WrittenAgain ==
    ASSUME NEW f, NEW N, Kept(f, N), NEW o, NEW p, NEW q, f.dirty \subseteq {o, p}
    PROVE  LET g == WriteAgain(f, o, p, q)
           IN  Kept(g, N) /\ g.hdr = f.hdr /\ g.dirty = {} /\ g.read = f.read
<1> DEFINE a == WriteNode(f, q)
           b == WriteNode(a, p)
           c == WriteNode(b, o)
           d == WriteNode(c, o)
           g == WriteNode(d, p)
<1>0. WriteAgain(f, o, p, q) = g
    BY DEF WriteAgain
<1>1. Kept(a, N) /\ SameRest(f, a) /\ a.dirty = f.dirty \ {q} /\ a.read = f.read
    BY NodeWritten
<1> HIDE DEF a
<1>2. Kept(b, N) /\ SameRest(a, b) /\ b.dirty = a.dirty \ {p} /\ b.read = a.read
    BY <1>1, NodeWritten
<1> HIDE DEF b
<1>3. Kept(c, N) /\ SameRest(b, c) /\ c.dirty = b.dirty \ {o} /\ c.read = b.read
    BY <1>2, NodeWritten
<1> HIDE DEF c
<1>4. Kept(d, N) /\ SameRest(c, d) /\ d.dirty = c.dirty \ {o} /\ d.read = c.read
    BY <1>3, NodeWritten
<1> HIDE DEF d
<1>5. Kept(g, N) /\ SameRest(d, g) /\ g.dirty = d.dirty \ {p} /\ g.read = d.read
    BY <1>4, NodeWritten
<1> HIDE DEF g
<1>6. g.dirty = {}
    BY <1>1, <1>2, <1>3, <1>4, <1>5
<1> QED BY <1>0, <1>1, <1>2, <1>3, <1>4, <1>5, <1>6 DEF SameRest

(* Node o becomes x, p becomes y and q is erased.                          *)
Merged(f, g, N, o, x, p, y, q) ==
    /\ Kept(g, N \ {q}) /\ g.dirty = {} /\ g.hdr = f.hdr
    /\ g.read[o] = x /\ g.read[p] = y
    /\ \A a \in N : a # o /\ a # p => g.read[a] = f.read[a]

LEMMA MergeLeftDone ==
    ASSUME NEW f, NEW N, Kept(f, N), f.dirty = {}, NEW o \in N, NEW p \in N, NEW q \in N,
           o # p, o # q, p # q, NEW c
    PROVE  Merged(f, MergeLeft(f, o, p, c, q), N, q, Joined(f.read[q], f.read[p].keys[c - 1], f.read[o]),
                  p, Closed(f.read[p], c - 1, q), o)
<1> DEFINE x == Joined(f.read[q], f.read[p].keys[c - 1], f.read[o])
           y == Closed(f.read[p], c - 1, q)
           a == SaveNode(f, q, x)
           b == EraseNode(a, o)
           d == SaveNode(b, p, y)
           g == WriteAgain(d, o, p, q)
<1>0. MergeLeft(f, o, p, c, q) = g
    BY DEF MergeLeft
<1> HIDE DEF x, y
<1>1. Kept(a, N) /\ SameRest(f, a) /\ a.dirty = {} /\ a.read = [f.read EXCEPT ![q] = x]
    <2>1. Kept(a, N) /\ SameRest(f, a) /\ a.dirty = f.dirty \ {q} /\ a.read = [f.read EXCEPT ![q] = x]
        BY NodeSaved
    <2> QED BY <2>1
<1> HIDE DEF a
<1>2. Kept(b, N \ {o}) /\ b.hdr = a.hdr /\ b.dirty = {} /\ b.read = a.read
    BY <1>1, NodeErased
<1> HIDE DEF b
<1>3. Kept(d, N \ {o}) /\ SameRest(b, d) /\ d.dirty = {} /\ d.read = [b.read EXCEPT ![p] = y]
    <2>1. p \in N \ {o}
        OBVIOUS
    <2>2. Kept(d, N \ {o}) /\ SameRest(b, d) /\ d.dirty = b.dirty \ {p} /\ d.read = [b.read EXCEPT ![p] = y]
        BY <1>2, <2>1, NodeSaved
    <2> QED BY <2>2, <1>2
<1> HIDE DEF d
<1>4. Kept(g, N \ {o}) /\ g.hdr = d.hdr /\ g.dirty = {} /\ g.read = d.read
    BY <1>3, WrittenAgain
<1> HIDE DEF g
<1>5. N \subseteq DOMAIN f.read /\ N \subseteq DOMAIN a.read
    BY <1>1 DEF Kept
<1>6. a.read[q] = x /\ \A z \in N : z # q => a.read[z] = f.read[z]
    BY <1>1, <1>5
<1>7. g.read[p] = y /\ \A z \in N : z # p => g.read[z] = a.read[z]
    BY <1>2, <1>3, <1>4, <1>5
<1>8. g.hdr = f.hdr
    BY <1>1, <1>2, <1>3, <1>4 DEF SameRest
<1>9. Merged(f, g, N, q, x, p, y, o)
    BY <1>4, <1>6, <1>7, <1>8 DEF Merged
<1> QED BY <1>0, <1>9 DEF x, y

LEMMA MergeRightDone ==
    ASSUME NEW f, NEW N, Kept(f, N), f.dirty = {}, NEW o \in N, NEW p \in N, NEW q \in N,
           o # p, o # q, p # q, NEW c, NEW text, Identity(text), f.read[q].keys \in Seq(Key),
           NEW leaf, f.read[q] = [leaf |-> leaf, keys |-> f.read[q].keys, kids |-> f.read[q].kids]
    PROVE  Merged(f, MergeRight(f, o, p, c, q, text), N, o, Joined(f.read[o], f.read[p].keys[c], f.read[q]),
                  p, Closed(f.read[p], c, o), q)
<1> DEFINE sib == FreedAhead(f.read[o], f.read[q], text)
           z == Joined(f.read[o], f.read[p].keys[c], sib)
           x == Joined(f.read[o], f.read[p].keys[c], f.read[q])
           y == Closed(f.read[p], c, o)
           a == SetNode(f, o, z)
           b == EraseNode(a, q)
           d == SaveNode(b, p, y)
           g == WriteAgain(d, o, p, q)
<1>0. MergeRight(f, o, p, c, q, text) = g
    BY DEF MergeRight
<1>9. z = x
    <2> DEFINE node == f.read[q]
               n == Len(f.read[o].keys)
               keys == [i \in DOMAIN node.keys |-> IF i > n THEN text[node.keys[i]] ELSE node.keys[i]]
    <2>1. node.keys \in Seq(Key) /\ node = [leaf |-> leaf, keys |-> node.keys, kids |-> node.kids]
        OBVIOUS
    <2>2. sib = [node EXCEPT !.keys = keys]
        BY DEF FreedAhead
    <2>3. \A i \in DOMAIN node.keys : text[node.keys[i]] = node.keys[i]
        BY <2>1 DEF Identity
    <2>4. \A i \in DOMAIN node.keys : keys[i] = node.keys[i]
        BY <2>3
    <2>5. keys = node.keys
        BY <2>1, <2>3
    <2> HIDE DEF keys, node
    <2>6. [node EXCEPT !.keys = node.keys] = node
        BY <2>1
    <2> QED BY <2>2, <2>5, <2>6 DEF node
<1> HIDE DEF z
<1> HIDE DEF x, y, sib
<1>1. Kept(a, N) /\ SameRest(f, a) /\ a.dirty = {o} /\ a.read = [f.read EXCEPT ![o] = z]
    BY NodeSet
<1> HIDE DEF a
<1>2. Kept(b, N \ {q}) /\ b.hdr = a.hdr /\ b.dirty = {o} /\ b.read = a.read
    BY <1>1, NodeErased
<1> HIDE DEF b
<1>3. Kept(d, N \ {q}) /\ SameRest(b, d) /\ d.dirty = {o} /\ d.read = [b.read EXCEPT ![p] = y]
    <2>1. p \in N \ {q}
        OBVIOUS
    <2>2. Kept(d, N \ {q}) /\ SameRest(b, d) /\ d.dirty = b.dirty \ {p} /\ d.read = [b.read EXCEPT ![p] = y]
        BY <1>2, <2>1, NodeSaved
    <2> QED BY <2>2, <1>2
<1> HIDE DEF d
<1>4. Kept(g, N \ {q}) /\ g.hdr = d.hdr /\ g.dirty = {} /\ g.read = d.read
    BY <1>3, WrittenAgain
<1> HIDE DEF g
<1>5. N \subseteq DOMAIN f.read /\ N \subseteq DOMAIN a.read
    BY <1>1 DEF Kept
<1>6. a.read[o] = z /\ \A u \in N : u # o => a.read[u] = f.read[u]
    BY <1>1, <1>5
<1>7. g.read[p] = y /\ \A u \in N : u # p => g.read[u] = a.read[u]
    BY <1>2, <1>3, <1>4, <1>5
<1>8. g.hdr = f.hdr
    BY <1>1, <1>2, <1>3, <1>4 DEF SameRest
<1>10. Merged(f, g, N, o, x, p, y, q)
    BY <1>4, <1>6, <1>7, <1>8, <1>9 DEF Merged
<1> QED BY <1>0, <1>10 DEF x, y

(* From level n of the tree on its nodes are where they were, and above    *)
(* level n they are as they were.                                          *)
Untouched(G, t, G2, t2, n) ==
    \A x \in t.nodes : t.lev[x] >= n =>
        /\ x \in t2.nodes /\ t2.lev[x] = t.lev[x]
        /\ t.lev[x] > n => G2[x] = G[x]
Passed(f, t, e, t2, p) ==
    /\ Stored(e.file, t2, {}, {p}) /\ (e.merged \/ Stored(e.file, t2, {}, {}))
    /\ e.file.hdr = f.hdr /\ t2.root = t.root
    /\ SameEntries(f.read, t, e.file.read, t2) /\ FirstKept(t, t2)
    /\ Untouched(f.read, t, e.file.read, t2, t.lev[p])

LEMMA StoredMore ==
    ASSUME NEW f, NEW t, Stored(f, t, {}, {}), NEW small
    PROVE  Stored(f, t, {}, small)
<1>1. \A x \in t.nodes : Formed(f.read[x]) /\ IsTree(f.read, t, {}, {})
    BY DEF Stored, IsTree, Local
<1>2. \A x \in t.nodes : Sized(f.read[x], x, t.root, {}, {}) => Sized(f.read[x], x, t.root, {}, small)
    BY <1>1, SizedMore
<1>3. IsTree(f.read, t, {}, small)
    BY <1>1, <1>2, Resized DEF Stored
<1> QED BY <1>3 DEF Stored

LoanMade(f, t, small, p, c, l, r, s, s2, n2, m2, e) ==
    /\ Siblings(f.read, t, small, p, c, l, r, s) /\ s2 \in Key
    /\ Loan(f.read[l], f.read[r], s, e.file.read[l], e.file.read[r], s2, n2, m2)
    /\ ~e.merged /\ e.file.hdr = f.hdr /\ Kept(e.file, t.nodes) /\ e.file.dirty = {}
    /\ e.file.read[p] = [f.read[p] EXCEPT !.keys[c] = s2]
    /\ \A a \in t.nodes : a # l /\ a # r /\ a # p => e.file.read[a] = f.read[a]
LEMMA LoanStep ==
    ASSUME NEW f, NEW t, NEW small, NEW p, NEW c, NEW l, NEW r, NEW s, NEW s2, NEW n2, NEW m2, NEW e,
           LoanMade(f, t, small, p, c, l, r, s, s2, n2, m2, e)
    PROVE  \E t2 : Passed(f, t, e, t2, p)
<1> USE DEF LoanMade
<1> DEFINE t2 == LoanGhost(t, l, r, s2)
           G == f.read
           G2 == e.file.read
<1>1. /\ l \in t.nodes /\ r \in t.nodes /\ p \in t.nodes /\ Placed(t) /\ l # r
      /\ t.lev[l] = t.lev[p] - 1 /\ t.lev[r] = t.lev[p] - 1 /\ t.lev[p] \in Nat
    <2>1. Paired(G, t, small, p, c, l, r, s)
        BY SiblingFacts
    <2> QED BY <2>1 DEF Paired
<1>2. /\ IsTree(G2, t2, {}, {}) /\ SameEntries(G, t, G2, t2) /\ t2.nodes = t.nodes /\ t2.root = t.root
      /\ \A a \in t.nodes : t2.lev[a] = t.lev[a]
    <2>1. /\ Siblings(G, t, small, p, c, l, r, s) /\ s2 \in Key /\ Loan(G[l], G[r], s, G2[l], G2[r], s2, n2, m2)
          /\ G2[p] = [G[p] EXCEPT !.keys[c] = s2]
          /\ \A a \in t.nodes : a # l /\ a # r /\ a # p => G2[a] = G[a]
        OBVIOUS
    <2> HIDE DEF G, G2, t2
    <2>2. /\ IsTree(G2, LoanGhost(t, l, r, s2), {}, {}) /\ SameEntries(G, t, G2, LoanGhost(t, l, r, s2))
          /\ LoanGhost(t, l, r, s2).nodes = t.nodes /\ LoanGhost(t, l, r, s2).root = t.root
          /\ \A a \in t.nodes : LoanGhost(t, l, r, s2).lev[a] = t.lev[a]
        BY SMTT(30), <2>1, LentPair
    <2> QED BY <2>2 DEF t2
<1>3. FirstKept(t, t2)
    <2>1. PICK b : Neighbours(t, l, p, c, r, b, s)
        BY SiblingNeighbours
    <2> DEFINE t1 == MergeGhost(t, l, r)
    <2>2. FirstKept(t, t1)
        BY <1>1, <2>1, MergeFirst
    <2>3. /\ l \in t1.nodes /\ r \notin t1.nodes /\ \A a \in t1.nodes : t1.rng[a] \subseteq Key
        <3>1. \A a \in t.nodes : t.rng[a] \subseteq Key
            BY <1>1 DEF Placed, Reaches
        <3> QED BY <3>1, <1>1 DEF MergeGhost
    <2> HIDE DEF t1
    <2>4. FirstKept(t1, SplitGhost(t1, l, r, s2))
        BY <2>3, SplitFirst
    <2>5. t2 = SplitGhost(t1, l, r, s2)
        BY DEF LoanGhost, t1
    <2> QED BY <2>2, <2>4, <2>5 DEF FirstKept
<1> HIDE DEF t2
<1>4. Stored(e.file, t2, {}, {})
    BY <1>2 DEF Stored
<1>5. Untouched(G, t, G2, t2, t.lev[p])
    <2>1. ASSUME NEW a \in t.nodes, t.lev[a] > t.lev[p] PROVE G2[a] = G[a]
        <3>1. a # l /\ a # r /\ a # p
            BY <2>1, <1>1
        <3> QED BY <3>1
    <2> QED BY <2>1, <1>2 DEF Untouched
<1>6. Stored(e.file, t2, {}, {p})
    BY <1>4, StoredMore
<1> QED BY <1>2, <1>3, <1>4, <1>5, <1>6 DEF Passed

LEMMA MergeStep ==
    ASSUME NEW f, NEW t, NEW small, NEW p, NEW c, NEW l, NEW r, NEW s, Siblings(f.read, t, small, p, c, l, r, s),
           Len(f.read[l].keys) <= MinKeys(f.read[l]), Len(f.read[r].keys) <= MinKeys(f.read[r]),
           small = {l} => Len(f.read[l].keys) < MinKeys(f.read[l]),
           small = {r} => Len(f.read[r].keys) < MinKeys(f.read[r]),
           NEW e, e.merged, NEW x, x = Joined(f.read[l], s, f.read[r]), NEW y, y = Closed(f.read[p], c, l),
           Merged(f, e.file, t.nodes, l, x, p, y, r)
    PROVE  \E t2 : Passed(f, t, e, t2, p)
<1> DEFINE t2 == MergeGhost(t, l, r)
           G == f.read
           G2 == e.file.read
<1>1. /\ l \in t.nodes /\ r \in t.nodes /\ p \in t.nodes /\ Placed(t) /\ l # r
      /\ t.lev[l] = t.lev[p] - 1 /\ t.lev[r] = t.lev[p] - 1 /\ t.lev[p] \in Nat
    <2>1. Paired(G, t, small, p, c, l, r, s)
        BY SiblingFacts
    <2> QED BY <2>1 DEF Paired
<1>2. /\ Kept(e.file, t.nodes \ {r}) /\ e.file.dirty = {} /\ e.file.hdr = f.hdr
      /\ G2[l] = Joined(G[l], s, G[r]) /\ G2[p] = Closed(G[p], c, l)
      /\ \A a \in t.nodes : a # l /\ a # p => G2[a] = G[a]
    BY DEF Merged
<1>3. IsTree(G2, t2, {}, {p}) /\ SameEntries(G, t, G2, t2)
    <2>1. /\ Siblings(G, t, small, p, c, l, r, s)
          /\ Len(G[l].keys) <= MinKeys(G[l]) /\ Len(G[r].keys) <= MinKeys(G[r])
          /\ (small = {l} => Len(G[l].keys) < MinKeys(G[l])) /\ (small = {r} => Len(G[r].keys) < MinKeys(G[r]))
        OBVIOUS
    <2> HIDE DEF G, G2, t2
    <2> QED BY SMTT(30), <2>1, <1>2, MergedPair DEF t2
<1>4. t2.nodes = t.nodes \ {r} /\ t2.root = t.root /\ \A a \in t.nodes \ {r} : t2.lev[a] = t.lev[a]
    BY DEF MergeGhost
<1>5. FirstKept(t, t2)
    <2>1. PICK b : Neighbours(t, l, p, c, r, b, s)
        BY SiblingNeighbours
    <2> QED BY <1>1, <2>1, MergeFirst
<1> HIDE DEF t2
<1>6. Stored(e.file, t2, {}, {p})
    BY <1>2, <1>3, <1>4 DEF Stored
<1>7. Untouched(G, t, G2, t2, t.lev[p])
    <2>1. ASSUME NEW a \in t.nodes, t.lev[a] >= t.lev[p] PROVE a # l /\ a # r
        BY <2>1, <1>1
    <2>2. ASSUME NEW a \in t.nodes, t.lev[a] > t.lev[p] PROVE G2[a] = G[a]
        <3>1. a # l /\ a # p
            BY <2>2, <1>1
        <3> QED BY <3>1, <1>2
    <2> QED BY <2>1, <2>2, <1>4 DEF Untouched
<1> QED BY <1>2, <1>3, <1>4, <1>5, <1>6, <1>7 DEF Passed

(* The node with a key too few, its parent and where it is there.          *)
Poor(f, t, o, p, c) ==
    /\ Stored(f, t, {}, {o}) /\ p \in t.nodes /\ t.lev[p] # 0
    /\ c \in 1 .. Len(f.read[p].kids) /\ f.read[p].kids[c] = o
    /\ Len(f.read[o].keys) < MinKeys(f.read[o])

LEMMA RightSibling ==
    ASSUME NEW f, NEW t, NEW o, NEW p, NEW c, Poor(f, t, o, p, c), c + 1 \in 1 .. Len(f.read[p].kids)
    PROVE  /\ Siblings(f.read, t, {o}, p, c, o, f.read[p].kids[c + 1], f.read[p].keys[c])
           /\ Paired(f.read, t, {o}, p, c, o, f.read[p].kids[c + 1], f.read[p].keys[c])
<1>1. Formed(f.read[p]) /\ c \in 1 .. Len(f.read[p].kids)
    BY DEF Poor, Stored, IsTree, Local
<1>2. c \in 1 .. Len(f.read[p].keys)
    BY <1>1 DEF Formed
<1>3. Siblings(f.read, t, {o}, p, c, o, f.read[p].kids[c + 1], f.read[p].keys[c])
    BY <1>2 DEF Poor, Stored, Siblings
<1> QED BY <1>3, SiblingFacts

LEMMA LeftSibling ==
    ASSUME NEW f, NEW t, NEW o, NEW p, NEW c, Poor(f, t, o, p, c), c - 1 \in 1 .. Len(f.read[p].kids)
    PROVE  /\ Siblings(f.read, t, {o}, p, c - 1, f.read[p].kids[c - 1], o, f.read[p].keys[c - 1])
           /\ Paired(f.read, t, {o}, p, c - 1, f.read[p].kids[c - 1], o, f.read[p].keys[c - 1])
<1>1. Formed(f.read[p]) /\ c \in 1 .. Len(f.read[p].kids)
    BY DEF Poor, Stored, IsTree, Local
<1>2. c - 1 \in 1 .. Len(f.read[p].keys) /\ (c - 1) + 1 = c
    BY <1>1 DEF Formed
<1>3. f.read[p].kids[(c - 1) + 1] = o
    BY <1>2 DEF Poor
<1>4. Siblings(f.read, t, {o}, p, c - 1, f.read[p].kids[c - 1], o, f.read[p].keys[c - 1])
    BY <1>2, <1>3 DEF Poor, Stored, Siblings
<1> QED BY <1>4, SiblingFacts

LEMMA PoorFacts ==
    ASSUME NEW f, NEW t, NEW o, NEW p, NEW c, Poor(f, t, o, p, c)
    PROVE  /\ Kept(f, t.nodes) /\ f.dirty = {} /\ c \in Nat \ {0}
           /\ c - 1 \in 1 .. Len(f.read[p].kids) \/ c + 1 \in 1 .. Len(f.read[p].kids)
           /\ c > 1 <=> c - 1 \in 1 .. Len(f.read[p].kids)
<1>1. /\ Kept(f, t.nodes) /\ f.dirty = {} /\ c \in 1 .. Len(f.read[p].kids) /\ p # o
      /\ Formed(f.read[p]) /\ Sized(f.read[p], p, t.root, {}, {o})
    <2>1. Local(f.read, t, p) /\ t.lev[p] # 0 /\ t.lev[p] \in Nat /\ c \in 1 .. Len(f.read[p].kids)
        BY DEF Poor, Stored, IsTree, Placed
    <2>2. t.lev[o] = t.lev[p] - 1
        BY <2>1 DEF Local, Poor
    <2>3. p # o
        BY <2>1, <2>2
    <2>4. /\ Kept(f, t.nodes) /\ f.dirty = {}
          /\ Formed(f.read[p]) /\ Sized(f.read[p], p, t.root, {}, {o})
        BY <2>1 DEF Poor, Stored, IsTree, Local
    <2> QED BY <2>1, <2>3, <2>4
<1> DEFINE n == Len(f.read[p].keys)
<1>2. n \in Nat /\ Len(f.read[p].kids) = n + 1 /\ MinKeys(f.read[p]) \in Nat /\ MinKeys(f.read[p]) >= 1
    BY <1>1, Orders DEF Formed, MinKeys
<1>3. n >= 1
    <2>1. n + 0 >= IF p = t.root THEN 1 ELSE MinKeys(f.read[p])
        BY <1>1 DEF Sized
    <2> QED BY <2>1, <1>2
<1> QED BY <1>1, <1>2, <1>3

LEMMA Numbers ==
    ASSUME NEW node, Formed(node)
    PROVE  /\ Len(node.keys) \in Nat /\ Len(node.kids) = Len(node.keys) + 1
           /\ MinKeys(node) \in Nat /\ MinKeys(node) >= 1 /\ node.leaf \in BOOLEAN
           /\ \A i \in 1 .. Len(node.keys) : node.keys[i] \in Key
<1>1. node.keys \in Seq(Key) /\ node.leaf \in BOOLEAN /\ Len(node.kids) = Len(node.keys) + 1
    BY DEF Formed
<1>2. MinKeys(node) \in Nat /\ MinKeys(node) >= 1
    BY <1>1, Orders DEF MinKeys
<1> QED BY <1>1, <1>2

RightTrio(a, b, z, c, text) ==
    IF a.leaf THEN BorrowRightLeaf(a, b, z, c, text) ELSE BorrowRightInt(a, b, z, c, text)
LeftTrio(a, b, z, c) == IF a.leaf THEN BorrowLeftLeaf(a, b, z, c) ELSE BorrowLeftInt(a, b, z, c)

RightLent(a, b, z, c, trio) ==
    \E s2 \in Key : \E n2, m2 :
        /\ Loan(a, z, b.keys[c], trio.node, trio.sib, s2, n2, m2)
        /\ trio.prev = [b EXCEPT !.keys[c] = s2]

LeftLent(a, b, z, c, trio) ==
    \E s2 \in Key : \E n2, m2 :
        /\ Loan(z, a, b.keys[c - 1], trio.sib, trio.node, s2, n2, m2)
        /\ trio.prev = [b EXCEPT !.keys[c - 1] = s2]

(* Node a has a key too few and its sibling z one to lend.                 *)
Borrows(a, z) ==
    /\ Formed(a) /\ Formed(z) /\ a.leaf = z.leaf
    /\ Len(a.keys) < MinKeys(a) /\ Len(a.keys) + 1 >= MinKeys(a)
    /\ Len(z.keys) > MinKeys(z) /\ Len(z.keys) <= MaxKeys

LEMMA LoanRight ==
    ASSUME NEW a, NEW b, NEW z, Borrows(a, z), NEW c \in Nat \ {0}, b.keys[c] \in Key,
           NEW text, Identity(text),
           NEW trio, trio = RightTrio(a, b, z, c, text)
    PROVE  RightLent(a, b, z, c, trio)
<1>1. /\ Formed(a) /\ Formed(z) /\ a.leaf = z.leaf /\ Len(z.keys) > MinKeys(z) /\ Len(z.keys) <= MaxKeys
      /\ Len(a.keys) < MinKeys(a) /\ Len(a.keys) + 1 >= MinKeys(a)
    BY DEF Borrows
<1>2. Len(a.keys) \in Nat /\ MinKeys(a) \in Nat /\ a.leaf \in BOOLEAN
    BY <1>1, Numbers
<1>3. Len(a.keys) + 1 = MinKeys(a)
    BY <1>1, <1>2
<1>4. CASE a.leaf
    <2>1. trio = BorrowRightLeaf(a, b, z, c, text) /\ z.leaf
        BY <1>1, <1>4 DEF RightTrio, LeftTrio
    <2>2. /\ Loan(a, z, b.keys[c], BorrowRightLeaf(a, b, z, c, text).node, BorrowRightLeaf(a, b, z, c, text).sib,
                  z.keys[1], Len(a.keys) + 1, Len(a.keys) + 1)
          /\ BorrowRightLeaf(a, b, z, c, text).prev = [b EXCEPT !.keys[c] = z.keys[1]]
          /\ 1 \in 1 .. Len(z.keys)
        BY <1>1, <1>3, <1>4, <2>1, LoanRightLeaf
    <2>3. z.keys[1] \in Key
        BY <1>1, <2>2, Numbers
    <2> QED BY <2>1, <2>2, <2>3 DEF RightLent
<1>5. CASE ~a.leaf
    <2>1. trio = BorrowRightInt(a, b, z, c, text) /\ ~z.leaf
        BY <1>1, <1>5 DEF RightTrio, LeftTrio
    <2>2. /\ Loan(a, z, b.keys[c], BorrowRightInt(a, b, z, c, text).node, BorrowRightInt(a, b, z, c, text).sib,
                  z.keys[1], Len(a.keys) + 1, Len(a.keys) + 2)
          /\ BorrowRightInt(a, b, z, c, text).prev = [b EXCEPT !.keys[c] = z.keys[1]]
          /\ 1 \in 1 .. Len(z.keys)
        BY <1>1, <1>3, <1>5, <2>1, LoanRightInt
    <2>3. z.keys[1] \in Key
        BY <1>1, <2>2, Numbers
    <2> QED BY <2>1, <2>2, <2>3 DEF RightLent
<1> QED BY <1>2, <1>4, <1>5

LEMMA LoanLeft ==
    ASSUME NEW a, NEW b, NEW z, Borrows(a, z), NEW c, b.keys[c - 1] \in Key,
           NEW trio, trio = LeftTrio(a, b, z, c)
    PROVE  LeftLent(a, b, z, c, trio)
<1>1. /\ Formed(a) /\ Formed(z) /\ a.leaf = z.leaf /\ Len(z.keys) > MinKeys(z) /\ Len(z.keys) <= MaxKeys
      /\ Len(a.keys) < MinKeys(a) /\ Len(a.keys) + 1 >= MinKeys(a)
    BY DEF Borrows
<1>2. Len(a.keys) \in Nat /\ MinKeys(a) \in Nat /\ a.leaf \in BOOLEAN
    BY <1>1, Numbers
<1>3. Len(a.keys) + 1 = MinKeys(a)
    BY <1>1, <1>2
<1>4. CASE a.leaf
    <2>1. trio = BorrowLeftLeaf(a, b, z, c) /\ z.leaf
        BY <1>1, <1>4 DEF RightTrio, LeftTrio
    <2>2. /\ Loan(z, a, b.keys[c - 1], BorrowLeftLeaf(a, b, z, c).sib, BorrowLeftLeaf(a, b, z, c).node,
                  z.keys[Len(z.keys) - 1], Len(z.keys) - 1, Len(z.keys) - 1)
          /\ BorrowLeftLeaf(a, b, z, c).prev = [b EXCEPT !.keys[c - 1] = z.keys[Len(z.keys) - 1]]
          /\ Len(z.keys) - 1 \in 1 .. Len(z.keys)
        BY <1>1, <1>3, <1>4, <2>1, LoanLeftLeaf
    <2>3. z.keys[Len(z.keys) - 1] \in Key
        BY <1>1, <2>2, Numbers
    <2> QED BY <2>1, <2>2, <2>3 DEF LeftLent
<1>5. CASE ~a.leaf
    <2>1. trio = BorrowLeftInt(a, b, z, c) /\ ~z.leaf
        BY <1>1, <1>5 DEF RightTrio, LeftTrio
    <2>2. /\ Loan(z, a, b.keys[c - 1], BorrowLeftInt(a, b, z, c).sib, BorrowLeftInt(a, b, z, c).node,
                  z.keys[Len(z.keys)], Len(z.keys) - 1, Len(z.keys))
          /\ BorrowLeftInt(a, b, z, c).prev = [b EXCEPT !.keys[c - 1] = z.keys[Len(z.keys)]]
          /\ Len(z.keys) \in 1 .. Len(z.keys)
        BY <1>1, <1>3, <1>5, <2>1, LoanLeftInt
    <2>3. z.keys[Len(z.keys)] \in Key
        BY <1>1, <2>2, Numbers
    <2> QED BY <2>1, <2>2, <2>3 DEF LeftLent
<1> QED BY <1>2, <1>4, <1>5

PairFacts(f, t, o, p, q, s) ==
    /\ o \in t.nodes /\ q \in t.nodes /\ p \in t.nodes /\ o # q /\ p # o /\ p # q
    /\ Formed(f.read[o]) /\ Formed(f.read[q]) /\ s \in Key
    /\ Len(f.read[q].keys) > MinKeys(f.read[q]) => Borrows(f.read[o], f.read[q])
    /\ ~(Len(f.read[q].keys) > MinKeys(f.read[q])) =>
          /\ Len(f.read[o].keys) <= MinKeys(f.read[o]) /\ Len(f.read[q].keys) <= MinKeys(f.read[q])
          /\ Len(f.read[o].keys) < MinKeys(f.read[o]) /\ {o} # {q}
LEMMA PoorPair ==
    ASSUME NEW f, NEW t, NEW o, NEW p, NEW c, Poor(f, t, o, p, c), NEW q, NEW s, NEW d,
           Paired(f.read, t, {o}, p, d, o, q, s) \/ Paired(f.read, t, {o}, p, d, q, o, s)
    PROVE  PairFacts(f, t, o, p, q, s)
<1>1. /\ o \in t.nodes /\ q \in t.nodes /\ p \in t.nodes /\ o # q /\ p # o /\ p # q
      /\ Formed(f.read[o]) /\ Formed(f.read[q]) /\ f.read[o].leaf = f.read[q].leaf /\ s \in Key
      /\ Enough(f.read[o], o \in {o}) /\ Enough(f.read[q], q \in {o})
    BY DEF Paired
<1>2. Len(f.read[o].keys) < MinKeys(f.read[o])
    BY DEF Poor
<1>3. Len(f.read[o].keys) + 1 >= MinKeys(f.read[o]) /\ Len(f.read[q].keys) <= MaxKeys
    BY <1>1 DEF Enough
<1>4. Len(f.read[o].keys) \in Nat /\ MinKeys(f.read[o]) \in Nat /\ Len(f.read[q].keys) \in Nat /\ MinKeys(f.read[q]) \in Nat
    BY <1>1, Numbers
<1>5. Len(f.read[q].keys) > MinKeys(f.read[q]) => Borrows(f.read[o], f.read[q])
    BY <1>1, <1>2, <1>3 DEF Borrows
<1>6. {o} # {q}
    BY <1>1
<1>7. Len(f.read[o].keys) <= MinKeys(f.read[o])
    BY <1>2, <1>4
<1>8. ~(Len(f.read[q].keys) > MinKeys(f.read[q])) => Len(f.read[q].keys) <= MinKeys(f.read[q])
    BY <1>4
<1> QED BY <1>1, <1>2, <1>5, <1>6, <1>7, <1>8 DEF PairFacts

LEMMA LendsRight ==
    ASSUME NEW f, NEW t, NEW o, NEW p, NEW c, Poor(f, t, o, p, c), NEW text, Identity(text),
           c + 1 \in 1 .. Len(f.read[p].kids), NEW r, r = f.read[p].kids[c + 1],
           Len(f.read[r].keys) > MinKeys(f.read[r]),
           NEW trio, trio = IF f.read[o].leaf THEN BorrowRightLeaf(f.read[o], f.read[p], f.read[r], c, text)
                            ELSE BorrowRightInt(f.read[o], f.read[p], f.read[r], c, text),
           NEW e, ~e.merged, e.file = Borrow(f, o, p, r, trio)
    PROVE  \E t2 : Passed(f, t, e, t2, p)
<1>1. /\ Siblings(f.read, t, {o}, p, c, o, r, f.read[p].keys[c])
      /\ Paired(f.read, t, {o}, p, c, o, r, f.read[p].keys[c])
    BY RightSibling
<1>2. Kept(f, t.nodes) /\ f.dirty = {} /\ c \in Nat \ {0}
    BY PoorFacts
<1>3. /\ o \in t.nodes /\ r \in t.nodes /\ p \in t.nodes /\ o # r /\ p # o /\ p # r
      /\ f.read[p].keys[c] \in Key /\ Borrows(f.read[o], f.read[r])
    <2>1. PairFacts(f, t, o, p, r, f.read[p].keys[c])
        BY <1>1, PoorPair
    <2> QED BY <2>1 DEF PairFacts
<1>4. PICK s2 \in Key : \E n2, m2 :
          /\ Loan(f.read[o], f.read[r], f.read[p].keys[c], trio.node, trio.sib, s2, n2, m2)
          /\ trio.prev = [f.read[p] EXCEPT !.keys[c] = s2]
    <2> DEFINE a == f.read[o]
               b == f.read[p]
               z == f.read[r]
    <2>1. /\ Borrows(a, z) /\ c \in Nat \ {0} /\ b.keys[c] \in Key
          /\ trio = RightTrio(a, b, z, c, text)
        BY <1>2, <1>3 DEF RightTrio
    <2> HIDE DEF a, b, z
    <2>2. RightLent(a, b, z, c, trio)
        BY <2>1, LoanRight
    <2> QED BY <2>2 DEF a, b, z, RightLent
<1>5. PICK n2, m2 :
          /\ Loan(f.read[o], f.read[r], f.read[p].keys[c], trio.node, trio.sib, s2, n2, m2)
          /\ trio.prev = [f.read[p] EXCEPT !.keys[c] = s2]
    BY <1>4
<1>7. Rewritten(f, e.file, t.nodes, o, trio.node, p, trio.prev, r, trio.sib)
    <2>1. Rewritten(f, Borrow(f, o, p, r, trio), t.nodes, o, trio.node, p, trio.prev, r, trio.sib)
        BY <1>2, <1>3, BorrowDone
    <2> QED BY <2>1
<1>8. /\ e.file.hdr = f.hdr /\ Kept(e.file, t.nodes) /\ e.file.dirty = {}
      /\ e.file.read[o] = trio.node /\ e.file.read[r] = trio.sib /\ e.file.read[p] = [f.read[p] EXCEPT !.keys[c] = s2]
      /\ \A a \in t.nodes : a # o /\ a # r /\ a # p => e.file.read[a] = f.read[a]
    BY <1>5, <1>7 DEF Rewritten
<1>9. LoanMade(f, t, {o}, p, c, o, r, f.read[p].keys[c], s2, n2, m2, e)
    BY <1>1, <1>5, <1>8 DEF LoanMade
<1> QED BY <1>9, LoanStep

LEMMA LendsLeft ==
    ASSUME NEW f, NEW t, NEW o, NEW p, NEW c, Poor(f, t, o, p, c),
           c - 1 \in 1 .. Len(f.read[p].kids), NEW l, l = f.read[p].kids[c - 1],
           Len(f.read[l].keys) > MinKeys(f.read[l]),
           NEW trio, trio = IF f.read[o].leaf THEN BorrowLeftLeaf(f.read[o], f.read[p], f.read[l], c)
                            ELSE BorrowLeftInt(f.read[o], f.read[p], f.read[l], c),
           NEW e, ~e.merged, e.file = Borrow(f, o, p, l, trio)
    PROVE  \E t2 : Passed(f, t, e, t2, p)
<1>1. /\ Siblings(f.read, t, {o}, p, c - 1, l, o, f.read[p].keys[c - 1])
      /\ Paired(f.read, t, {o}, p, c - 1, l, o, f.read[p].keys[c - 1])
    BY LeftSibling
<1>2. Kept(f, t.nodes) /\ f.dirty = {} /\ c \in Nat \ {0}
    BY PoorFacts
<1>3. /\ o \in t.nodes /\ l \in t.nodes /\ p \in t.nodes /\ o # l /\ p # o /\ p # l
      /\ f.read[p].keys[c - 1] \in Key /\ Borrows(f.read[o], f.read[l])
    <2>1. PairFacts(f, t, o, p, l, f.read[p].keys[c - 1])
        BY <1>1, PoorPair
    <2> QED BY <2>1 DEF PairFacts
<1>4. PICK s2 \in Key : \E n2, m2 :
          /\ Loan(f.read[l], f.read[o], f.read[p].keys[c - 1], trio.sib, trio.node, s2, n2, m2)
          /\ trio.prev = [f.read[p] EXCEPT !.keys[c - 1] = s2]
    <2> DEFINE a == f.read[o]
               b == f.read[p]
               z == f.read[l]
    <2>1. /\ Borrows(a, z) /\ b.keys[c - 1] \in Key
          /\ trio = LeftTrio(a, b, z, c)
        BY <1>3 DEF LeftTrio
    <2> HIDE DEF a, b, z
    <2>2. LeftLent(a, b, z, c, trio)
        BY <2>1, LoanLeft
    <2> QED BY <2>2 DEF a, b, z, LeftLent
<1>5. PICK n2, m2 :
          /\ Loan(f.read[l], f.read[o], f.read[p].keys[c - 1], trio.sib, trio.node, s2, n2, m2)
          /\ trio.prev = [f.read[p] EXCEPT !.keys[c - 1] = s2]
    BY <1>4
<1>7. Rewritten(f, e.file, t.nodes, o, trio.node, p, trio.prev, l, trio.sib)
    <2>1. Rewritten(f, Borrow(f, o, p, l, trio), t.nodes, o, trio.node, p, trio.prev, l, trio.sib)
        BY <1>2, <1>3, BorrowDone
    <2> QED BY <2>1
<1>8. /\ e.file.hdr = f.hdr /\ Kept(e.file, t.nodes) /\ e.file.dirty = {}
      /\ e.file.read[o] = trio.node /\ e.file.read[l] = trio.sib
      /\ e.file.read[p] = [f.read[p] EXCEPT !.keys[c - 1] = s2]
      /\ \A a \in t.nodes : a # l /\ a # o /\ a # p => e.file.read[a] = f.read[a]
    BY <1>5, <1>7 DEF Rewritten
<1>9. LoanMade(f, t, {o}, p, c - 1, l, o, f.read[p].keys[c - 1], s2, n2, m2, e)
    BY <1>1, <1>5, <1>8 DEF LoanMade
<1> QED BY <1>9, LoanStep

LEMMA MergesLeft ==
    ASSUME NEW f, NEW t, NEW o, NEW p, NEW c, Poor(f, t, o, p, c),
           c - 1 \in 1 .. Len(f.read[p].kids), NEW l, l = f.read[p].kids[c - 1],
           ~(Len(f.read[l].keys) > MinKeys(f.read[l])),
           NEW e, e.merged, e.file = MergeLeft(f, o, p, c, l)
    PROVE  \E t2 : Passed(f, t, e, t2, p)
<1>1. /\ Siblings(f.read, t, {o}, p, c - 1, l, o, f.read[p].keys[c - 1])
      /\ Paired(f.read, t, {o}, p, c - 1, l, o, f.read[p].keys[c - 1])
    BY LeftSibling
<1>2. Kept(f, t.nodes) /\ f.dirty = {} /\ c \in Nat \ {0}
    BY PoorFacts
<1>3. /\ o \in t.nodes /\ l \in t.nodes /\ p \in t.nodes /\ o # l /\ p # o /\ p # l
      /\ Len(f.read[o].keys) <= MinKeys(f.read[o]) /\ Len(f.read[l].keys) <= MinKeys(f.read[l])
      /\ Len(f.read[o].keys) < MinKeys(f.read[o]) /\ {o} # {l}
    <2>1. PairFacts(f, t, o, p, l, f.read[p].keys[c - 1])
        BY <1>1, PoorPair
    <2> QED BY <2>1 DEF PairFacts
<1>5. Merged(f, e.file, t.nodes, l, Joined(f.read[l], f.read[p].keys[c - 1], f.read[o]), p,
             Closed(f.read[p], c - 1, l), o)
    <2>1. Merged(f, MergeLeft(f, o, p, c, l), t.nodes, l, Joined(f.read[l], f.read[p].keys[c - 1], f.read[o]), p,
                 Closed(f.read[p], c - 1, l), o)
        BY <1>2, <1>3, MergeLeftDone
    <2> QED BY <2>1
<1> DEFINE d == c - 1
           s == f.read[p].keys[c - 1]
           x == Joined(f.read[l], s, f.read[o])
           y == Closed(f.read[p], d, l)
<1>6. Siblings(f.read, t, {o}, p, d, l, o, s) /\ Merged(f, e.file, t.nodes, l, x, p, y, o)
    BY <1>1, <1>5
<1>7. x = Joined(f.read[l], s, f.read[o]) /\ y = Closed(f.read[p], d, l)
    OBVIOUS
<1> HIDE DEF s, x, y, d
<1> QED BY <1>3, <1>6, <1>7, MergeStep

LEMMA MergesRight ==
    ASSUME NEW f, NEW t, NEW o, NEW p, NEW c, Poor(f, t, o, p, c), NEW text, Identity(text),
           c + 1 \in 1 .. Len(f.read[p].kids), NEW r, r = f.read[p].kids[c + 1],
           ~(Len(f.read[r].keys) > MinKeys(f.read[r])),
           NEW e, e.merged, e.file = MergeRight(f, o, p, c, r, text)
    PROVE  \E t2 : Passed(f, t, e, t2, p)
<1>1. /\ Siblings(f.read, t, {o}, p, c, o, r, f.read[p].keys[c])
      /\ Paired(f.read, t, {o}, p, c, o, r, f.read[p].keys[c])
    BY RightSibling
<1>2. Kept(f, t.nodes) /\ f.dirty = {} /\ c \in Nat \ {0}
    BY PoorFacts
<1>3. /\ o \in t.nodes /\ r \in t.nodes /\ p \in t.nodes /\ o # r /\ p # o /\ p # r /\ Formed(f.read[r])
      /\ Len(f.read[o].keys) <= MinKeys(f.read[o]) /\ Len(f.read[r].keys) <= MinKeys(f.read[r])
      /\ Len(f.read[o].keys) < MinKeys(f.read[o]) /\ {o} # {r}
    <2>1. PairFacts(f, t, o, p, r, f.read[p].keys[c])
        BY <1>1, PoorPair
    <2> QED BY <2>1 DEF PairFacts
<1>4. /\ f.read[r].keys \in Seq(Key)
      /\ f.read[r] = [leaf |-> f.read[r].leaf, keys |-> f.read[r].keys, kids |-> f.read[r].kids]
    BY <1>3 DEF Formed
<1>5. Merged(f, e.file, t.nodes, o, Joined(f.read[o], f.read[p].keys[c], f.read[r]), p, Closed(f.read[p], c, o), r)
    <2>1. Merged(f, MergeRight(f, o, p, c, r, text), t.nodes, o, Joined(f.read[o], f.read[p].keys[c], f.read[r]), p,
                 Closed(f.read[p], c, o), r)
        BY <1>2, <1>3, <1>4, MergeRightDone
    <2> QED BY <2>1
<1> DEFINE s == f.read[p].keys[c]
           x == Joined(f.read[o], s, f.read[r])
           y == Closed(f.read[p], c, o)
<1>6. Siblings(f.read, t, {o}, p, c, o, r, s) /\ Merged(f, e.file, t.nodes, o, x, p, y, r)
    BY <1>1, <1>5
<1>7. x = Joined(f.read[o], s, f.read[r]) /\ y = Closed(f.read[p], c, o)
    OBVIOUS
<1> HIDE DEF s, x, y
<1> QED BY <1>3, <1>6, <1>7, MergeStep

LEMMA RebalanceStep ==
    ASSUME NEW del, NEW f, f = del.file, NEW t, NEW o, NEW p, NEW c, NEW text, Identity(text),
           Stored(f, t, {}, {o}), p \in t.nodes, t.lev[p] # 0,
           c \in 1 .. Len(f.read[p].kids), f.read[p].kids[c] = o
    PROVE  \E t2 : Passed(f, t, Rebalance(del, o, p, c, text), t2, p)
<1> DEFINE node == f.read[o]
           prev == f.read[p]
           Sib(d) == f.read[prev.kids[d]]
           Lends(d) == d \in 1 .. Len(prev.kids) /\ Len(Sib(d).keys) > MinKeys(Sib(d))
           trioR == IF node.leaf THEN BorrowRightLeaf(node, prev, Sib(c + 1), c, text)
                                 ELSE BorrowRightInt(node, prev, Sib(c + 1), c, text)
           trioL == IF node.leaf THEN BorrowLeftLeaf(node, prev, Sib(c - 1), c)
                                 ELSE BorrowLeftInt(node, prev, Sib(c - 1), c)
           bR == [file |-> Borrow(f, o, p, prev.kids[c + 1], trioR), merged |-> FALSE]
           bL == [file |-> Borrow(f, o, p, prev.kids[c - 1], trioL), merged |-> FALSE]
           m  == [file |-> IF c > 1 THEN MergeLeft(f, o, p, c, prev.kids[c - 1])
                           ELSE MergeRight(f, o, p, c, prev.kids[c + 1], text),
                  merged |-> TRUE]
           e == Rebalance(del, o, p, c, text)
<1>1. e = IF Len(node.keys) >= MinKeys(node) THEN del
          ELSE IF Lends(c + 1) THEN bR ELSE IF Lends(c - 1) THEN bL ELSE m
    BY DEF Rebalance
<1>2. o \in t.nodes /\ Formed(node) /\ Formed(f.read[o])
    BY DEF Stored, IsTree, Local
<1>3. Len(node.keys) \in Nat /\ MinKeys(node) \in Nat
    BY <1>2, Orders DEF Formed, MinKeys
<1>4. CASE Len(node.keys) >= MinKeys(node)
    <2>1. Stored(f, t, {}, {})
        <3>1. \A x \in t.nodes : Sized(f.read[x], x, t.root, {}, {o}) => Sized(f.read[x], x, t.root, {}, {})
            <4> SUFFICES ASSUME NEW x \in t.nodes, Sized(f.read[x], x, t.root, {}, {o})
                         PROVE  Sized(f.read[x], x, t.root, {}, {})
                OBVIOUS
            <4>1. CASE x # o
                BY <4>1 DEF Sized
            <4>2. CASE x = o
                <5>1. x # t.root
                    <6>1. t.lev[o] = t.lev[p] - 1 /\ t.lev[p] \in Nat /\ t.lev[p] <= t.lev[t.root] /\ t.lev[t.root] \in Nat
                        BY SMTT(30) DEF Stored, IsTree, Placed, Local
                    <6> QED BY <6>1, <4>2
                <5> QED BY <5>1, <4>2, <1>3, <1>4 DEF Sized
            <4> QED BY <4>1, <4>2
        <3>2. IsTree(f.read, t, {}, {})
            BY <3>1, Resized DEF Stored
        <3> QED BY <3>2 DEF Stored
    <2>2. Stored(f, t, {}, {p})
        BY <2>1, StoredMore
    <2>3. SameEntries(f.read, t, f.read, t) /\ FirstKept(t, t) /\ Untouched(f.read, t, f.read, t, t.lev[p])
        BY DEF SameEntries, FirstKept, Untouched
    <2>4. Passed(f, t, del, t, p)
        BY <2>1, <2>2, <2>3 DEF Passed
    <2> QED BY <2>4, <1>1, <1>4
<1>5. CASE ~(Len(node.keys) >= MinKeys(node))
    <2>1. Poor(f, t, o, p, c)
        BY <1>3, <1>5 DEF Poor
    <2>2. /\ c - 1 \in 1 .. Len(prev.kids) \/ c + 1 \in 1 .. Len(prev.kids)
          /\ c > 1 <=> c - 1 \in 1 .. Len(prev.kids)
        BY <2>1, PoorFacts
    <2>3. CASE Lends(c + 1)
        <3>1. e = bR
            BY <1>1, <1>5, <2>3
        <3> HIDE DEF e
        <3>2. e.file = Borrow(f, o, p, prev.kids[c + 1], trioR) /\ ~e.merged
            BY <3>1
        <3>3. c + 1 \in 1 .. Len(prev.kids) /\ Len(Sib(c + 1).keys) > MinKeys(Sib(c + 1))
            BY <2>3
        <3>4. \E t2 : Passed(f, t, e, t2, p)
            BY SMTT(30), <2>1, <3>2, <3>3, LendsRight
        <3> QED BY <3>4 DEF e
    <2>4. CASE ~Lends(c + 1) /\ Lends(c - 1)
        <3>1. e = bL
            BY <1>1, <1>5, <2>4
        <3> HIDE DEF e
        <3>2. e.file = Borrow(f, o, p, prev.kids[c - 1], trioL) /\ ~e.merged
            BY <3>1
        <3>3. c - 1 \in 1 .. Len(prev.kids) /\ Len(Sib(c - 1).keys) > MinKeys(Sib(c - 1))
            BY <2>4
        <3>4. \E t2 : Passed(f, t, e, t2, p)
            BY SMTT(30), <2>1, <3>2, <3>3, LendsLeft
        <3> QED BY <3>4 DEF e
    <2>5. CASE ~Lends(c + 1) /\ ~Lends(c - 1) /\ c > 1
        <3>1. e = m
            BY <1>1, <1>5, <2>5
        <3> HIDE DEF e
        <3>2. e.file = MergeLeft(f, o, p, c, prev.kids[c - 1]) /\ e.merged
            BY <3>1, <2>5
        <3>3. c - 1 \in 1 .. Len(prev.kids) /\ ~(Len(Sib(c - 1).keys) > MinKeys(Sib(c - 1)))
            BY <2>2, <2>5
        <3>4. \E t2 : Passed(f, t, e, t2, p)
            BY <2>1, <3>2, <3>3, MergesLeft
        <3> QED BY <3>4 DEF e
    <2>6. CASE ~Lends(c + 1) /\ ~Lends(c - 1) /\ ~(c > 1)
        <3>1. e = m
            BY <1>1, <1>5, <2>6
        <3> HIDE DEF e
        <3>2. e.file = MergeRight(f, o, p, c, prev.kids[c + 1], text) /\ e.merged
            BY <3>1, <2>6
        <3>3. c + 1 \in 1 .. Len(prev.kids) /\ ~(Len(Sib(c + 1).keys) > MinKeys(Sib(c + 1)))
            BY <2>2, <2>6
        <3>4. \E t2 : Passed(f, t, e, t2, p)
            BY <2>1, <3>2, <3>3, MergesRight
        <3> QED BY <3>4 DEF e
    <2> QED BY <2>3, <2>4, <2>5, <2>6
<1> QED BY <1>4, <1>5

-----------------------------------------------------------------------------
(* The way down.                                                           *)

LEMMA NextDown ==
    ASSUME NEW G, NEW t, NEW big, NEW small, IsTree(G, t, big, small),
           NEW o \in t.nodes, NEW k \in t.rng[o], t.lev[o] # 0
    PROVE  /\ k \in Key /\ Pos(G[o].keys, k) \in 1 .. Len(G[o].kids)
           /\ G[o].kids[Pos(G[o].keys, k)] \in t.nodes
           /\ t.lev[G[o].kids[Pos(G[o].keys, k)]] = t.lev[o] - 1
           /\ k \in t.rng[G[o].kids[Pos(G[o].keys, k)]]
<1>1. Local(G, t, o) /\ Reaches(t.rng[o])
    BY DEF IsTree, Placed
<1>2. k \in Key /\ Formed(G[o])
    BY <1>1 DEF Local, Reaches
<1>3. Pos(G[o].keys, k) \in 1 .. Len(G[o].keys) + 1 /\ Bounded(G[o].keys, Pos(G[o].keys, k), k)
    <2>1. G[o].keys \in Seq(Key) /\ Sorted(G[o].keys)
        BY <1>2 DEF Formed
    <2> QED BY <2>1, <1>2, PosBounds
<1>4. Pos(G[o].keys, k) \in 1 .. Len(G[o].kids)
    BY <1>2, <1>3 DEF Formed
<1> QED BY <1>1, <1>2, <1>3, <1>4 DEF Local

LEMMA OnEachLevel ==
    ASSUME NEW G, NEW t, NEW big, NEW small, IsTree(G, t, big, small), NEW k \in Key, NEW m \in 0 .. t.lev[t.root]
    PROVE  \E o \in t.nodes : t.lev[o] = m /\ k \in t.rng[o]
<1> DEFINE L == t.lev[t.root]
           At(n) == \E o \in t.nodes : t.lev[o] = L - n /\ k \in t.rng[o]
           A == {n \in Nat : n <= L /\ ~At(n)}
<1>1. t.root \in t.nodes /\ L \in Nat /\ k \in t.rng[t.root]
    BY DEF IsTree, Placed
<1>2. A = {}
    <2>1. ASSUME A # {} PROVE FALSE
        <3>1. PICK n \in A : \A j \in A : n <= j
            <4>1. A \subseteq Nat
                OBVIOUS
            <4> HIDE DEF A
            <4> QED BY <2>1, <4>1, LeastIn
        <3>2. n # 0
            <4>1. L - 0 = L
                BY <1>1
            <4>2. At(0)
                BY <1>1, <4>1
            <4> QED BY <3>1, <4>2
        <3>3. n - 1 \in Nat /\ n - 1 <= L /\ n - 1 \notin A
            BY <3>1, <3>2, <1>1
        <3>4. PICK o \in t.nodes : t.lev[o] = L - (n - 1) /\ k \in t.rng[o]
            BY <3>3
        <3>5. t.lev[o] # 0 /\ t.lev[o] - 1 = L - n
            BY <3>4, <3>1, <1>1
        <3>6. At(n)
            BY <3>4, <3>5, NextDown
        <3> QED BY <3>6, <3>1
    <2> QED BY <2>1
<1>3. L - m \in Nat /\ L - m <= L /\ L - (L - m) = m
    BY <1>1
<1> QED BY <1>2, <1>3

LEMMA NodesEnough ==
    ASSUME NEW G, NEW t, NEW big, NEW small, IsTree(G, t, big, small), NEW D, IsFiniteSet(D), t.nodes \subseteq D
    PROVE  Cardinality(D) \in Nat /\ t.lev[t.root] \in Nat /\ t.lev[t.root] + 1 <= Cardinality(D)
<1> DEFINE L == t.lev[t.root]
<1>1. L \in Nat /\ t.root \in t.nodes
    BY DEF IsTree, Placed
<1>2. PICK k : k \in Key
    BY <1>1 DEF IsTree, Placed, Reaches
<1> DEFINE h == [m \in 0 .. L |-> CHOOSE o \in t.nodes : t.lev[o] = m /\ k \in t.rng[o]]
<1>3. \A m \in 0 .. L : h[m] \in t.nodes /\ t.lev[h[m]] = m
    <2> SUFFICES ASSUME NEW m \in 0 .. L PROVE h[m] \in t.nodes /\ t.lev[h[m]] = m
        OBVIOUS
    <2>1. \E o \in t.nodes : t.lev[o] = m /\ k \in t.rng[o]
        BY <1>2, OnEachLevel
    <2> QED BY <2>1
<1>4. h \in [0 .. L -> D]
    <2>1. h = [m \in 0 .. L |-> h[m]]
        OBVIOUS
    <2> HIDE DEF h
    <2> QED BY <2>1, <1>3
<1>5. h \in Injection(0 .. L, D)
    <2> HIDE DEF h
    <2> QED BY <1>3, <1>4 DEF Injection, IsInjective
<1>6. Cardinality(0 .. L) <= Cardinality(D)
    <2> HIDE DEF h
    <2> QED BY <1>5, FS_Injection
<1>7. Cardinality(0 .. L) = L + 1
    <2>1. Cardinality(0 .. L) = IF 0 > L THEN 0 ELSE L - 0 + 1
        BY <1>1, FS_Interval
    <2> QED BY <2>1, <1>1
<1>8. Cardinality(D) \in Nat
    BY FS_CardinalityType
<1> QED BY <1>1, <1>6, <1>7, <1>8

Onward(G, k, o) == IF G[o].leaf THEN o ELSE G[o].kids[Pos(G[o].keys, k)]
Downward(G, t, k, w, C) ==
    /\ DOMAIN w = 1 .. C /\ w[1] = t.root
    /\ \A n \in 2 .. C : w[n] = Onward(G, k, w[n - 1])
    /\ \A n \in 1 .. C : w[n] \in t.nodes

LEMMA OnwardInside ==
    ASSUME NEW G, NEW t, NEW big, NEW small, IsTree(G, t, big, small), NEW o \in t.nodes, NEW k \in Key
    PROVE  Onward(G, k, o) \in t.nodes
<1>1. Local(G, t, o) /\ Formed(G[o])
    BY DEF IsTree, Local
<1>2. Pos(G[o].keys, k) \in 1 .. Len(G[o].kids)
    <2>1. G[o].keys \in Seq(Key) /\ Sorted(G[o].keys) /\ Len(G[o].kids) = Len(G[o].keys) + 1
        BY <1>1 DEF Formed
    <2>2. Pos(G[o].keys, k) \in 1 .. Len(G[o].keys) + 1
        BY <2>1, PosBounds
    <2> QED BY <2>1, <2>2
<1> QED BY <1>1, <1>2 DEF Onward, Local

LEMMA WayIs ==
    ASSUME NEW f, NEW t, Kept(f, t.nodes), IsTree(f.read, t, {}, {}), Root(f) = t.root, NEW k \in Key
    PROVE  Downward(f.read, t, k, Way(f, k), Cardinality(DOMAIN f.read))
<1> DEFINE C == Cardinality(DOMAIN f.read)
           Body(w) == [n \in 1 .. C |->
                          IF n = 1 THEN Root(f)
                          ELSE LET o == w[n - 1]
                               IN  IF f.read[o].leaf THEN o ELSE f.read[o].kids[Pos(f.read[o].keys, k)]]
           step == [p \in Nat \X t.nodes |-> Onward(f.read, k, p[2])]
           last == C - 1
<1>1. C \in Nat /\ last \in Nat /\ C = last + 1
    <2>1. IsFiniteSet(DOMAIN f.read) /\ t.nodes \subseteq DOMAIN f.read
        BY DEF Kept
    <2>2. C \in Nat /\ t.lev[t.root] \in Nat /\ t.lev[t.root] + 1 <= C
        <3> HIDE DEF C
        <3>1. Cardinality(DOMAIN f.read) \in Nat /\ t.lev[t.root] \in Nat /\ t.lev[t.root] + 1 <= Cardinality(DOMAIN f.read)
            BY <2>1, NodesEnough
        <3> QED BY <3>1 DEF C
    <2> HIDE DEF C
    <2> QED BY <2>2
<1>2. t.root \in t.nodes
    BY DEF IsTree, Placed
<1>3. step \in [Nat \X t.nodes -> t.nodes]
    <2>1. \A o \in t.nodes : Onward(f.read, k, o) \in t.nodes
        BY OnwardInside
    <2> QED BY <2>1
<1>4. PICK g \in [0 .. last -> t.nodes] : RunsTo(g, t.root, step, last)
    <2> HIDE DEF step, last
    <2>1. HasRun(t.nodes, t.root, step, last)
        BY <1>1, <1>2, <1>3, RunExists
    <2> QED BY <2>1 DEF HasRun
<1> DEFINE h == [n \in 1 .. C |-> g[n - 1]]
<1>5. h = Body(h)
    <2> SUFFICES ASSUME NEW n \in 1 .. C
                 PROVE  h[n] = IF n = 1 THEN Root(f) ELSE Onward(f.read, k, h[n - 1])
        BY DEF Onward
    <2> HIDE DEF C, last, step
    <2>1. n - 1 \in 0 .. last /\ n \in Nat
        BY <1>1
    <2>2. h[n] = g[n - 1]
        BY <1>1
    <2>3. CASE n = 1
        BY <2>2, <2>3, <1>4 DEF RunsTo
    <2>4. CASE n # 1
        <3>1. n - 1 \in 1 .. last /\ n - 1 \in 1 .. C /\ n - 1 \in Nat /\ (n - 1) - 1 \in 0 .. last
            BY <2>1, <2>4, <1>1
        <3>2. g[n - 1] = step[<<n - 1, g[(n - 1) - 1]>>]
            BY <3>1, <1>4 DEF RunsTo
        <3>3. h[n - 1] = g[(n - 1) - 1] /\ g[(n - 1) - 1] \in t.nodes
            BY <3>1, <1>1
        <3>4. step[<<n - 1, g[(n - 1) - 1]>>] = Onward(f.read, k, g[(n - 1) - 1])
            BY <3>1, <3>3 DEF step
        <3> HIDE DEF h
        <3> QED BY <3>2, <3>3, <3>4, <2>2, <2>4
    <2> QED BY <2>3, <2>4
<1>6. Way(f, k) = Body(Way(f, k))
    <2>1. Way(f, k) = CHOOSE w : w = Body(w)
        BY Zenon DEF Way
    <2> HIDE DEF Body, h
    <2> QED BY <2>1, <1>5
<1> DEFINE w == Way(f, k)
<1>7. /\ DOMAIN w = 1 .. C
      /\ \A n \in 1 .. C : w[n] = IF n = 1 THEN Root(f) ELSE Onward(f.read, k, w[n - 1])
    <2> HIDE DEF C, w
    <2>1. w = Body(w)
        BY <1>6 DEF w
    <2>2. DOMAIN Body(w) = 1 .. C /\ \A n \in 1 .. C : Body(w)[n] = IF n = 1 THEN Root(f) ELSE Onward(f.read, k, w[n - 1])
        BY DEF Onward
    <2> HIDE DEF Body
    <2> QED BY <2>1, <2>2
<1> HIDE DEF w, C, last
<1>8. 1 \in 1 .. C
    BY <1>1
<1>9. w[1] = t.root
    BY <1>7, <1>8
<1>10. \A n \in 2 .. C : w[n] = Onward(f.read, k, w[n - 1])
    <2> SUFFICES ASSUME NEW n \in 2 .. C PROVE w[n] = Onward(f.read, k, w[n - 1])
        OBVIOUS
    <2>1. n \in 1 .. C /\ n # 1
        BY <1>1
    <2> QED BY <2>1, <1>7
<1>11. \A n \in 1 .. C : w[n] \in t.nodes
    <2> DEFINE A == {n \in Nat : n \in 1 .. C /\ w[n] \notin t.nodes}
    <2>1. ASSUME A # {} PROVE FALSE
        <3>1. PICK n \in A : \A j \in A : n <= j
            <4>1. A \subseteq Nat
                OBVIOUS
            <4> HIDE DEF A
            <4> QED BY <2>1, <4>1, LeastIn
        <3>2. n # 1
            BY <3>1, <1>2, <1>9
        <3>3. n \in 2 .. C /\ n - 1 \in Nat /\ n - 1 \in 1 .. C
            BY <3>1, <3>2, <1>1
        <3>4. w[n - 1] \in t.nodes
            BY <3>1, <3>3
        <3>5. Onward(f.read, k, w[n - 1]) \in t.nodes
            BY <3>4, OnwardInside
        <3>6. w[n] \in t.nodes
            BY <3>3, <3>5, <1>10
        <3> QED BY <3>1, <3>6
    <2> SUFFICES ASSUME NEW n \in 1 .. C PROVE w[n] \in t.nodes
        OBVIOUS
    <2>2. n \in Nat
        BY <1>1
    <2> QED BY <2>1, <2>2
<1> QED BY <1>7, <1>9, <1>10, <1>11 DEF Downward, w, C

LEMMA Listed ==
    ASSUME NEW D \in Nat, NEW s, s = [i \in 1 .. D |-> s[i]]
    PROVE  Len(s) = D
<1> DEFINE S == {s[i] : i \in 1 .. D}
<1>1. s \in [1 .. D -> S]
    OBVIOUS
<1>2. s \in Seq(S)
    BY <1>1
<1>3. DOMAIN s = 1 .. D /\ DOMAIN s = 1 .. Len(s) /\ Len(s) \in Nat
    BY <1>1, <1>2
<1> QED BY <1>3

(* A path from the root to a leaf: node number i and the child taken there. *)
Road(G, t, k, path) ==
    /\ Len(path) = t.lev[t.root] + 1 /\ t.lev[t.root] \in Nat
    /\ path[1].at = t.root
    /\ \A i \in 1 .. Len(path) : /\ path[i].at \in t.nodes /\ t.lev[path[i].at] = Len(path) - i
                                 /\ k \in t.rng[path[i].at]
    /\ \A i \in 1 .. Len(path) - 1 : /\ path[i].child \in 1 .. Len(G[path[i].at].kids)
                                     /\ G[path[i].at].kids[path[i].child] = path[i + 1].at

LEMMA DescendIs ==
    ASSUME NEW f, NEW t, Kept(f, t.nodes), IsTree(f.read, t, {}, {}), Root(f) = t.root, NEW k \in Key
    PROVE  Road(f.read, t, k, Descend(f, k))
<1> DEFINE C == Cardinality(DOMAIN f.read)
           L == t.lev[t.root]
           w == Way(f, k)
           G == f.read
<1>1. C \in Nat /\ L \in Nat /\ L + 1 <= C
    <2>1. IsFiniteSet(DOMAIN f.read) /\ t.nodes \subseteq DOMAIN f.read
        BY DEF Kept
    <2> HIDE DEF C
    <2>2. Cardinality(DOMAIN f.read) \in Nat /\ t.lev[t.root] \in Nat /\ t.lev[t.root] + 1 <= Cardinality(DOMAIN f.read)
        BY <2>1, NodesEnough
    <2> QED BY <2>2 DEF C
<1>2. Downward(G, t, k, w, C)
    BY WayIs
<1>3. t.root \in t.nodes /\ k \in t.rng[t.root]
    BY DEF IsTree, Placed
<1> HIDE DEF w, C
<1> DEFINE Here(n) == w[n] \in t.nodes /\ t.lev[w[n]] = (L + 1) - n /\ k \in t.rng[w[n]]
<1>4. \A n \in 1 .. L + 1 : Here(n)
    <2> DEFINE A == {n \in Nat : n \in 1 .. L + 1 /\ ~Here(n)}
    <2>1. ASSUME A # {} PROVE FALSE
        <3>1. PICK n \in A : \A j \in A : n <= j
            <4>1. A \subseteq Nat
                OBVIOUS
            <4> HIDE DEF A
            <4> QED BY <2>1, <4>1, LeastIn
        <3>2. n # 1
            <4>1. Here(1)
                BY <1>1, <1>2, <1>3 DEF Downward
            <4> QED BY <4>1, <3>1
        <3>3. n \in 2 .. C /\ n - 1 \in Nat /\ n - 1 \in 1 .. L + 1
            BY <3>1, <3>2, <1>1
        <3>4. Here(n - 1)
            <4> HIDE DEF Here
            <4> QED BY <3>1, <3>3
        <3>5. t.lev[w[n - 1]] # 0 /\ t.lev[w[n - 1]] - 1 = (L + 1) - n
            BY <3>4, <3>1, <1>1
        <3>6. Onward(G, k, w[n - 1]) = G[w[n - 1]].kids[Pos(G[w[n - 1]].keys, k)]
            BY <3>4, <3>5 DEF Onward, IsTree, Local
        <3>7. w[n] = Onward(G, k, w[n - 1])
            BY <3>3, <1>2 DEF Downward
        <3>8. /\ G[w[n - 1]].kids[Pos(G[w[n - 1]].keys, k)] \in t.nodes
              /\ t.lev[G[w[n - 1]].kids[Pos(G[w[n - 1]].keys, k)]] = t.lev[w[n - 1]] - 1
              /\ k \in t.rng[G[w[n - 1]].kids[Pos(G[w[n - 1]].keys, k)]]
            BY SMTT(30), <3>4, <3>5, NextDown
        <3>9. Here(n)
            BY <3>5, <3>6, <3>7, <3>8
        <3> QED BY <3>9, <3>1
    <2> SUFFICES ASSUME NEW n \in 1 .. L + 1 PROVE Here(n)
        OBVIOUS
    <2>2. n \in Nat
        BY <1>1
    <2> QED BY <2>1, <2>2
<1>5. \A n \in 1 .. L + 1 : G[w[n]].leaf <=> n = L + 1
    <2> SUFFICES ASSUME NEW n \in 1 .. L + 1 PROVE G[w[n]].leaf <=> n = L + 1
        OBVIOUS
    <2>1. Here(n)
        BY <1>4
    <2>2. G[w[n]].leaf <=> t.lev[w[n]] = 0
        BY <2>1 DEF IsTree, Local
    <2>3. t.lev[w[n]] = 0 <=> n = L + 1
        BY <2>1, <1>1
    <2> QED BY <2>2, <2>3
<1> DEFINE First1(n) == G[w[n]].leaf /\ \A m \in 1 .. n - 1 : ~G[w[m]].leaf
           depth == CHOOSE n \in DOMAIN w : First1(n)
<1>6. depth = L + 1
    <2>1. L + 1 \in DOMAIN w
        BY <1>1, <1>2 DEF Downward
    <2>2. First1(L + 1)
        BY <1>1, <1>5
    <2>3. ASSUME NEW n \in DOMAIN w, First1(n) PROVE n = L + 1
        <3>1. n \in 1 .. C
            BY <1>2 DEF Downward
        <3>2. CASE n \in 1 .. L + 1
            BY <2>3, <3>2, <1>5
        <3>3. CASE ~(n \in 1 .. L + 1)
            <4>1. L + 1 \in 1 .. n - 1 /\ L + 1 \in 1 .. L + 1
                BY <3>1, <3>3, <1>1
            <4> QED BY <4>1, <2>3, <1>5
        <3> QED BY <3>2, <3>3
    <2> HIDE DEF First1
    <2> QED BY <2>1, <2>2, <2>3
<1> DEFINE path == [i \in 1 .. L + 1 |->
                      [at |-> w[i], child |-> IF i = L + 1 THEN 0 ELSE Pos(f.read[w[i]].keys, k)]]
<1>7. Descend(f, k) = path
    <2>1. Descend(f, k) = [i \in 1 .. depth |->
                      [at |-> w[i], child |-> IF i = depth THEN 0 ELSE Pos(f.read[w[i]].keys, k)]]
        BY Zenon DEF Descend, w
    <2> HIDE DEF depth
    <2> QED BY <2>1, <1>6
<1>8. Len(path) = L + 1
    <2>1. path = [i \in 1 .. L + 1 |-> path[i]]
        OBVIOUS
    <2> HIDE DEF path, L
    <2>2. L + 1 \in Nat
        BY <1>1
    <2> QED BY <2>1, <2>2, Listed
<1>9. \A i \in 1 .. L + 1 : /\ path[i].at = w[i]
                            /\ i # L + 1 => path[i].child = Pos(f.read[w[i]].keys, k)
    OBVIOUS
<1> HIDE DEF path, L
<1>10. ASSUME NEW i \in 1 .. L
       PROVE  path[i].child \in 1 .. Len(G[path[i].at].kids) /\ G[path[i].at].kids[path[i].child] = path[i + 1].at
    <2>1. i \in 1 .. L + 1 /\ i # L + 1 /\ i + 1 \in 1 .. L + 1 /\ i + 1 \in 2 .. C /\ (i + 1) - 1 = i
        BY <1>1
    <2>2. Here(i) /\ ~G[w[i]].leaf
        BY <2>1, <1>4, <1>5
    <2>3. t.lev[w[i]] # 0
        BY <2>2, <2>1, <1>1
    <2>4. path[i].at = w[i] /\ path[i].child = Pos(G[w[i]].keys, k) /\ path[i + 1].at = w[i + 1]
        BY <2>1, <1>9
    <2>5. Pos(G[w[i]].keys, k) \in 1 .. Len(G[w[i]].kids)
        BY <2>2, <2>3, NextDown
    <2>6. w[i + 1] = Onward(G, k, w[i])
        BY <2>1, <1>2 DEF Downward
    <2> QED BY <2>2, <2>4, <2>5, <2>6 DEF Onward
<1>11. path[1].at = t.root
    <2>1. 1 \in 1 .. L + 1
        BY <1>1
    <2> QED BY <2>1, <1>2, <1>9 DEF Downward
<1>12. \A i \in 1 .. L + 1 : path[i].at \in t.nodes /\ t.lev[path[i].at] = (L + 1) - i /\ k \in t.rng[path[i].at]
    BY <1>4, <1>9
<1>13. 1 .. (L + 1) - 1 = 1 .. L
    BY <1>1
<1> QED BY <1>1, <1>7, <1>8, <1>10, <1>11, <1>12, <1>13 DEF Road, L

-----------------------------------------------------------------------------
(* What a search finds.                                                    *)

LEMMA EntryAt ==
    ASSUME NEW G, NEW t, NEW big, NEW small, IsTree(G, t, big, small),
           NEW o \in t.nodes, t.lev[o] = 0, NEW k \in t.rng[o]
    PROVE  /\ \A v : Entry(G, t, k, v) <=> Keeps(G[o], k, v)
           /\ G[o].leaf /\ Formed(G[o]) /\ k \in Key
           /\ \A v : Keeps(G[o], k, v) <=> Holds(G[o], k) /\ v = G[o].kids[Pos(G[o].keys, k)]
<1>1. Local(G, t, o) /\ G[o].leaf /\ Formed(G[o]) /\ k \in Key
    BY DEF IsTree, Local, Placed, Reaches
<1>2. ASSUME NEW v, Entry(G, t, k, v) PROVE Keeps(G[o], k, v)
    <2>1. PICK p \in t.nodes : t.lev[p] = 0 /\ Keeps(G[p], k, v)
        BY <1>2 DEF Entry
    <2>2. k \in t.rng[p]
        BY <2>1 DEF Keeps, IsTree, Local
    <2>3. p = o
        BY <2>1, <2>2 DEF IsTree, Apart
    <2> QED BY <2>1, <2>3
<1>3. ASSUME NEW v, Keeps(G[o], k, v) PROVE Entry(G, t, k, v)
    BY <1>3 DEF Entry
<1>4. /\ Holds(G[o], k) <=> \E i \in 1 .. Len(G[o].keys) : G[o].keys[i] = k
      /\ \A i \in 1 .. Len(G[o].keys) : G[o].keys[i] = k => i = Pos(G[o].keys, k)
    BY <1>1, HoldsIs
<1>5. \A v : Keeps(G[o], k, v) <=> Holds(G[o], k) /\ v = G[o].kids[Pos(G[o].keys, k)]
    BY <1>4 DEF Keeps
<1> QED BY <1>1, <1>2, <1>3, <1>5

LEMMA LeafForIs ==
    ASSUME NEW f, NEW t, Kept(f, t.nodes), IsTree(f.read, t, {}, {}), Root(f) = t.root, NEW k \in Key
    PROVE  /\ LeafFor(f, k) \in t.nodes /\ t.lev[LeafFor(f, k)] = 0 /\ k \in t.rng[LeafFor(f, k)]
           /\ LeafFor(f, k) = Descend(f, k)[Len(Descend(f, k))].at
<1> DEFINE path == Descend(f, k)
           n == Len(path)
<1>1. Road(f.read, t, k, path)
    BY DescendIs
<1>2. n \in Nat /\ n \in 1 .. n /\ n - n = 0
    BY <1>1 DEF Road
<1>3. path[n].at \in t.nodes /\ t.lev[path[n].at] = n - n /\ k \in t.rng[path[n].at]
    BY <1>1, <1>2 DEF Road
<1>4. LeafFor(f, k) = path[n].at
    BY DEF LeafFor, Last
<1> QED BY <1>2, <1>3, <1>4

(* The leaf for a key is the only one that can hold it.                    *)
LEMMA FoundThere ==
    ASSUME NEW f, NEW t, Kept(f, t.nodes), IsTree(f.read, t, {}, {}), Root(f) = t.root, NEW k \in Key
    PROVE  LET leaf == f.read[LeafFor(f, k)]
           IN  /\ Formed(leaf) /\ leaf.leaf
               /\ \A v : Entry(f.read, t, k, v) <=> Holds(leaf, k) /\ v = leaf.kids[Pos(leaf.keys, k)]
<1> DEFINE o == LeafFor(f, k)
<1>1. o \in t.nodes /\ t.lev[o] = 0 /\ k \in t.rng[o]
    BY LeafForIs
<1> HIDE DEF o
<1>2. /\ \A v : Entry(f.read, t, k, v) <=> Keeps(f.read[o], k, v)
      /\ f.read[o].leaf /\ Formed(f.read[o])
      /\ \A v : Keeps(f.read[o], k, v) <=> Holds(f.read[o], k) /\ v = f.read[o].kids[Pos(f.read[o].keys, k)]
    BY ZenonT(40), <1>1, EntryAt
<1>3. \A v : Entry(f.read, t, k, v) <=> Holds(f.read[o], k) /\ v = f.read[o].kids[Pos(f.read[o].keys, k)]
    BY <1>2
<1> QED BY <1>2, <1>3 DEF o

-----------------------------------------------------------------------------
(* The levels, from the root down.                                         *)

Below(G, P) == UNION {ToSet(G[o].kids) : o \in {p \in P : ~G[p].leaf}}
OnLevel(t, n) == {o \in t.nodes : t.lev[o] = t.lev[t.root] - n}

LEMMA RootLevel ==
    ASSUME NEW G, NEW t, NEW big, NEW small, IsTree(G, t, big, small)
    PROVE  OnLevel(t, 0) = {t.root}
<1>1. t.root \in t.nodes /\ t.lev[t.root] \in Nat /\ t.rng[t.root] = Key
    BY DEF IsTree, Placed
<1>2. ASSUME NEW o \in OnLevel(t, 0) PROVE o = t.root
    <2>1. o \in t.nodes /\ t.lev[o] = t.lev[t.root]
        BY <1>1 DEF OnLevel
    <2>2. \E k \in Key : k \in t.rng[o]
        BY <2>1 DEF IsTree, Placed, Reaches
    <2> QED BY <1>1, <2>1, <2>2 DEF IsTree, Apart
<1>3. t.root \in OnLevel(t, 0)
    BY <1>1 DEF OnLevel
<1> QED BY <1>2, <1>3

LEMMA NextLevel ==
    ASSUME NEW G, NEW t, NEW big, NEW small, IsTree(G, t, big, small), NEW n \in Nat
    PROVE  Below(G, OnLevel(t, n)) = OnLevel(t, n + 1)
<1> DEFINE L == t.lev[t.root]
<1>1. L \in Nat /\ \A o \in t.nodes : t.lev[o] \in Nat /\ t.lev[o] <= L
    BY DEF IsTree, Placed
<1>2. ASSUME NEW x \in Below(G, OnLevel(t, n)) PROVE x \in OnLevel(t, n + 1)
    <2>1. PICK o \in OnLevel(t, n) : ~G[o].leaf /\ x \in ToSet(G[o].kids)
        BY DEF Below
    <2>2. o \in t.nodes /\ t.lev[o] = L - n /\ Local(G, t, o)
        BY DEF OnLevel, IsTree
    <2>3. t.lev[o] # 0 /\ G[o].kids \in Seq(Kid)
        BY <2>1, <2>2 DEF Local, Formed
    <2>4. PICK c \in 1 .. Len(G[o].kids) : x = G[o].kids[c]
        BY <2>1, <2>3 DEF ToSet
    <2>5. x \in t.nodes /\ t.lev[x] = t.lev[o] - 1
        BY <2>2, <2>3, <2>4 DEF Local
    <2>6. t.lev[x] = L - (n + 1)
        BY <2>2, <2>5, <1>1
    <2> QED BY <2>5, <2>6 DEF OnLevel
<1>3. ASSUME NEW x \in OnLevel(t, n + 1) PROVE x \in Below(G, OnLevel(t, n))
    <2>1. x \in t.nodes /\ t.lev[x] = L - (n + 1)
        BY DEF OnLevel
    <2>2. PICK k \in Key : k \in t.rng[x]
        BY <2>1 DEF IsTree, Placed, Reaches
    <2>3. t.lev[x] \in Nat /\ L - n \in 0 .. L /\ (L - n) - 1 = t.lev[x] /\ L - n # 0
        BY <2>1, <1>1
    <2>4. PICK o \in t.nodes : t.lev[o] = L - n /\ k \in t.rng[o]
        BY <2>2, <2>3, OnEachLevel
    <2> DEFINE y == G[o].kids[Pos(G[o].keys, k)]
    <2>5. Pos(G[o].keys, k) \in 1 .. Len(G[o].kids) /\ y \in t.nodes /\ t.lev[y] = t.lev[o] - 1 /\ k \in t.rng[y]
        BY <2>3, <2>4, NextDown
    <2>6. y = x
        <3> HIDE DEF y
        <3> QED BY <2>1, <2>2, <2>3, <2>4, <2>5 DEF IsTree, Apart
    <2>7. ~G[o].leaf /\ G[o].kids \in Seq(Kid)
        BY <2>3, <2>4 DEF IsTree, Local, Formed
    <2>8. x \in ToSet(G[o].kids)
        BY <2>5, <2>6, <2>7 DEF ToSet
    <2>9. o \in OnLevel(t, n)
        BY <2>4 DEF OnLevel
    <2> QED BY <2>7, <2>8, <2>9 DEF Below
<1> QED BY <1>2, <1>3

LEMMA LevelsAre ==
    ASSUME NEW f, NEW t, Kept(f, t.nodes), IsTree(f.read, t, {}, {}), Root(f) = t.root
    PROVE  /\ DOMAIN Levels(f) = 0 .. Cardinality(DOMAIN f.read)
           /\ \A n \in DOMAIN Levels(f) : Levels(f)[n] = OnLevel(t, n)
           /\ Nodes(f) = t.nodes
<1> DEFINE C == Cardinality(DOMAIN f.read)
           L == t.lev[t.root]
           G == f.read
           Body(w) == [n \in 0 .. C |->
                          IF n = 0 THEN {Root(f)} \ {0}
                          ELSE UNION {ToSet(f.read[o].kids) : o \in {p \in w[n - 1] : ~f.read[p].leaf}}]
           h == [n \in 0 .. C |-> OnLevel(t, n)]
<1>1. C \in Nat /\ L \in Nat /\ L + 1 <= C
    <2>1. IsFiniteSet(DOMAIN f.read) /\ t.nodes \subseteq DOMAIN f.read
        BY DEF Kept
    <2> HIDE DEF C
    <2>2. Cardinality(DOMAIN f.read) \in Nat /\ t.lev[t.root] \in Nat /\ t.lev[t.root] + 1 <= Cardinality(DOMAIN f.read)
        BY <2>1, NodesEnough
    <2> QED BY <2>2 DEF C
<1>2. t.root # 0 /\ {Root(f)} \ {0} = OnLevel(t, 0)
    <2>1. t.root # 0
        BY DEF IsTree, Placed
    <2>2. OnLevel(t, 0) = {t.root}
        BY RootLevel
    <2> QED BY <2>1, <2>2
<1> HIDE DEF C
<1>3. h = Body(h)
    <2> SUFFICES ASSUME NEW n \in 0 .. C
                 PROVE  h[n] = IF n = 0 THEN {Root(f)} \ {0} ELSE Below(G, h[n - 1])
        BY DEF Below
    <2>1. CASE n = 0
        BY <2>1, <1>1, <1>2
    <2>2. CASE n # 0
        <3>1. n - 1 \in Nat /\ (n - 1) + 1 = n /\ n - 1 \in 0 .. C
            BY <2>2, <1>1
        <3>2. Below(G, OnLevel(t, n - 1)) = OnLevel(t, (n - 1) + 1)
            BY <3>1, NextLevel
        <3>3. h[n] = OnLevel(t, n) /\ h[n - 1] = OnLevel(t, n - 1)
            BY <3>1
        <3> HIDE DEF h
        <3> QED BY <3>1, <3>2, <3>3, <2>2
    <2> QED BY <2>1, <2>2
<1> DEFINE w == Levels(f)
<1>4. w = Body(w)
    <2>1. w = CHOOSE v : v = Body(v)
        BY Zenon DEF Levels, C
    <2> HIDE DEF Body, h, w
    <2> QED BY <2>1, <1>3
<1>5. /\ DOMAIN w = 0 .. C
      /\ \A n \in 0 .. C : w[n] = IF n = 0 THEN {Root(f)} \ {0} ELSE Below(G, w[n - 1])
    <2> HIDE DEF w
    <2>1. /\ DOMAIN Body(w) = 0 .. C
          /\ \A n \in 0 .. C : Body(w)[n] = IF n = 0 THEN {Root(f)} \ {0} ELSE Below(G, w[n - 1])
        BY DEF Below
    <2>2. w = Body(w)
        BY <1>4 DEF w
    <2> HIDE DEF Body
    <2> QED BY <2>1, <2>2
<1> HIDE DEF w
<1>6. \A n \in 0 .. C : w[n] = OnLevel(t, n)
    <2> DEFINE A == {n \in Nat : n \in 0 .. C /\ w[n] # OnLevel(t, n)}
    <2>1. ASSUME A # {} PROVE FALSE
        <3>1. PICK n \in A : \A j \in A : n <= j
            <4>1. A \subseteq Nat
                OBVIOUS
            <4> HIDE DEF A
            <4> QED BY <2>1, <4>1, LeastIn
        <3>2. n # 0
            BY <3>1, <1>1, <1>2, <1>5
        <3>3. n - 1 \in Nat /\ n - 1 \in 0 .. C /\ (n - 1) + 1 = n /\ n \in 0 .. C
            BY <3>1, <3>2, <1>1
        <3>4. w[n - 1] = OnLevel(t, n - 1)
            BY <3>1, <3>3
        <3>5. Below(G, OnLevel(t, n - 1)) = OnLevel(t, (n - 1) + 1)
            BY <3>3, NextLevel
        <3>6. w[n] = Below(G, w[n - 1])
            BY <3>2, <3>3, <1>5
        <3>7. w[n] = OnLevel(t, n)
            BY <3>3, <3>4, <3>5, <3>6
        <3> QED BY <3>1, <3>7
    <2> SUFFICES ASSUME NEW n \in 0 .. C PROVE w[n] = OnLevel(t, n)
        OBVIOUS
    <2>2. n \in Nat
        BY <1>1
    <2> QED BY <2>1, <2>2
<1>7. Nodes(f) = t.nodes
    <2>1. ASSUME NEW x \in Nodes(f) PROVE x \in t.nodes
        <3>1. PICK n \in 0 .. C : x \in w[n]
            BY <1>5 DEF Nodes, w
        <3> QED BY <3>1, <1>6 DEF OnLevel
    <2>2. ASSUME NEW x \in t.nodes PROVE x \in Nodes(f)
        <3>1. t.lev[x] \in Nat /\ t.lev[x] <= L
            BY DEF IsTree, Placed
        <3>2. L - t.lev[x] \in 0 .. C /\ t.lev[x] = L - (L - t.lev[x])
            BY <3>1, <1>1
        <3>3. x \in OnLevel(t, L - t.lev[x])
            BY <3>2 DEF OnLevel
        <3> QED BY <3>2, <3>3, <1>5, <1>6 DEF Nodes, w
    <2> QED BY <2>1, <2>2
<1> QED BY <1>5, <1>6, <1>7 DEF w, C

-----------------------------------------------------------------------------
(* What the tree's shape says of the file.                                 *)

Alive(f, t) == Stored(f, t, {}, {}) /\ t.root = Root(f)
Empty(f) == Kept(f, {}) /\ f.dirty = {} /\ Root(f) = 0
TreeThere(f) == Empty(f) \/ \E t : Alive(f, t)

LEMMA EmptyLevels ==
    ASSUME NEW f, Empty(f)
    PROVE  /\ \A n \in DOMAIN Levels(f) : Levels(f)[n] = {}
           /\ Nodes(f) = {}
<1> DEFINE C == Cardinality(DOMAIN f.read)
           Body(w) == [n \in 0 .. C |->
                          IF n = 0 THEN {Root(f)} \ {0}
                          ELSE UNION {ToSet(f.read[o].kids) : o \in {p \in w[n - 1] : ~f.read[p].leaf}}]
           h == [n \in 0 .. C |-> {}]
<1>1. C \in Nat
    BY FS_CardinalityType DEF Empty, Kept
<1>2. {Root(f)} \ {0} = {}
    BY DEF Empty
<1> HIDE DEF C
<1>3. h = Body(h)
    <2> SUFFICES ASSUME NEW n \in 0 .. C
                 PROVE  h[n] = IF n = 0 THEN {Root(f)} \ {0} ELSE Below(f.read, h[n - 1])
        BY DEF Below
    <2>1. CASE n = 0
        BY <2>1, <1>2
    <2>2. CASE n # 0
        <3>1. n - 1 \in 0 .. C
            BY <2>2, <1>1
        <3>2. h[n - 1] = {}
            BY <3>1
        <3> HIDE DEF h
        <3>3. Below(f.read, h[n - 1]) = {}
            BY <3>2 DEF Below
        <3>4. h[n] = {}
            BY DEF h
        <3> QED BY <3>3, <3>4, <2>2
    <2> QED BY <2>1, <2>2
<1> DEFINE w == Levels(f)
<1>4. w = Body(w)
    <2>1. w = CHOOSE v : v = Body(v)
        BY Zenon DEF Levels, C
    <2> HIDE DEF Body, h, w
    <2> QED BY <2>1, <1>3
<1>5. /\ DOMAIN w = 0 .. C
      /\ \A n \in 0 .. C : w[n] = IF n = 0 THEN {} ELSE Below(f.read, w[n - 1])
    <2> HIDE DEF w
    <2>1. /\ DOMAIN Body(w) = 0 .. C
          /\ \A n \in 0 .. C : Body(w)[n] = IF n = 0 THEN {} ELSE Below(f.read, w[n - 1])
        BY <1>2 DEF Below
    <2>2. w = Body(w)
        BY <1>4 DEF w
    <2> HIDE DEF Body
    <2> QED BY <2>1, <2>2
<1> HIDE DEF w
<1>6. \A n \in 0 .. C : w[n] = {}
    <2> DEFINE A == {n \in Nat : n \in 0 .. C /\ w[n] # {}}
    <2>1. ASSUME A # {} PROVE FALSE
        <3>1. PICK n \in A : \A j \in A : n <= j
            <4>1. A \subseteq Nat
                OBVIOUS
            <4> HIDE DEF A
            <4> QED BY <2>1, <4>1, LeastIn
        <3>2. n # 0
            BY <3>1, <1>5
        <3>3. n - 1 \in Nat /\ n - 1 \in 0 .. C /\ n \in 0 .. C
            BY <3>1, <3>2, <1>1
        <3>4. w[n - 1] = {}
            BY <3>1, <3>3
        <3>5. w[n] = Below(f.read, w[n - 1])
            BY <3>2, <3>3, <1>5
        <3>6. w[n] = {}
            BY <3>4, <3>5 DEF Below
        <3> QED BY <3>1, <3>6
    <2> SUFFICES ASSUME NEW n \in 0 .. C PROVE w[n] = {}
        OBVIOUS
    <2>2. n \in Nat
        BY <1>1
    <2> QED BY <2>1, <2>2
<1>7. Nodes(f) = {}
    BY <1>5, <1>6 DEF Nodes, w
<1> QED BY <1>5, <1>6, <1>7 DEF w

LEMMA AliveFacts ==
    ASSUME NEW f, NEW t, Alive(f, t)
    PROVE  /\ Kept(f, t.nodes) /\ f.dirty = {} /\ IsTree(f.read, t, {}, {}) /\ Root(f) = t.root
           /\ \A n \in DOMAIN Levels(f) : n \in Nat /\ Levels(f)[n] = OnLevel(t, n)
           /\ Nodes(f) = t.nodes
<1>1. Kept(f, t.nodes) /\ f.dirty = {} /\ IsTree(f.read, t, {}, {}) /\ Root(f) = t.root
    BY DEF Alive, Stored
<1>2. /\ DOMAIN Levels(f) = 0 .. Cardinality(DOMAIN f.read)
      /\ \A n \in DOMAIN Levels(f) : Levels(f)[n] = OnLevel(t, n)
      /\ Nodes(f) = t.nodes
    BY <1>1, LevelsAre
<1>3. Cardinality(DOMAIN f.read) \in Nat
    BY <1>1, FS_CardinalityType DEF Kept
<1> QED BY <1>1, <1>2, <1>3

LEMMA SpaceFact ==
    ASSUME TreeThere(file)
    PROVE  SpaceAccounted
<1>1. CASE Empty(file)
    <2>1. Nodes(file) = {}
        BY <1>1, EmptyLevels
    <2> QED BY <2>1, <1>1 DEF SpaceAccounted, Empty, Kept
<1>2. ASSUME NEW t, Alive(file, t) PROVE SpaceAccounted
    <2> DEFINE G == file.read
    <2>1. Kept(file, t.nodes) /\ IsTree(G, t, {}, {}) /\ Root(file) = t.root /\ Nodes(file) = t.nodes
        BY <1>2, AliveFacts
    <2>2. t.nodes \cap file.free = {} /\ t.nodes \cup file.free = 1 .. file.end - 1
        BY <2>1 DEF Kept
    <2>3. ASSUME NEW o \in t.nodes, NEW p \in t.nodes, ~G[o].leaf, ~G[p].leaf,
                 NEW c \in DOMAIN G[o].kids, NEW d \in DOMAIN G[p].kids
          PROVE  /\ G[o].kids[c] # Root(file)
                 /\ G[o].kids[c] = G[p].kids[d] => o = p /\ c = d
        <3>1. Local(G, t, o) /\ Local(G, t, p)
            BY <2>1 DEF IsTree
        <3>2. t.lev[o] # 0 /\ t.lev[p] # 0 /\ c \in 1 .. Len(G[o].kids) /\ d \in 1 .. Len(G[p].kids)
            BY SMTT(30), <2>3, <3>1 DEF Local, Formed
        <3>3. t.lev[G[o].kids[c]] = t.lev[o] - 1
            BY <3>1, <3>2 DEF Local
        <3>4. t.lev[o] \in Nat /\ t.lev[o] <= t.lev[t.root] /\ t.lev[t.root] \in Nat
            BY <2>1 DEF IsTree, Placed
        <3>5. G[o].kids[c] # t.root
            BY <3>3, <3>4
        <3>6. G[o].kids[c] = G[p].kids[d] => o = p /\ c = d
            BY <2>1, <3>2, OnePlace
        <3> QED BY <3>5, <3>6, <2>1
    <2> QED BY <2>1, <2>2, <2>3 DEF SpaceAccounted
<1> QED BY <1>1, <1>2 DEF TreeThere

LEMMA DurableFact ==
    ASSUME TreeThere(file)
    PROVE  Durable
<1>1. CASE Empty(file)
    <2>1. Nodes(file) = {}
        BY <1>1, EmptyLevels
    <2> QED BY <2>1 DEF Durable
<1>2. ASSUME NEW t, Alive(file, t) PROVE Durable
    <2>1. Kept(file, t.nodes) /\ file.dirty = {} /\ Nodes(file) = t.nodes
        BY <1>2, AliveFacts
    <2> QED BY <2>1 DEF Durable, Kept
<1> QED BY <1>1, <1>2 DEF TreeThere

LEMMA BalancedFact ==
    ASSUME TreeThere(file)
    PROVE  Balanced
<1>1. CASE Empty(file)
    <2>1. \A n \in DOMAIN Levels(file) : Levels(file)[n] = {}
        BY <1>1, EmptyLevels
    <2> QED BY <2>1 DEF Balanced
<1>2. ASSUME NEW t, Alive(file, t) PROVE Balanced
    <2> DEFINE G == file.read
    <2>1. /\ IsTree(G, t, {}, {})
          /\ \A n \in DOMAIN Levels(file) : n \in Nat /\ Levels(file)[n] = OnLevel(t, n)
        BY <1>2, AliveFacts
    <2>2. ASSUME NEW n \in DOMAIN Levels(file), NEW o \in OnLevel(t, n), NEW p \in OnLevel(t, n)
          PROVE  G[o].leaf = G[p].leaf /\ Len(G[o].keys) >= IF n = 0 THEN 1 ELSE MinKeys(G[o])
        <3>1. n \in Nat /\ o \in t.nodes /\ p \in t.nodes /\ t.lev[o] = t.lev[t.root] - n /\ t.lev[p] = t.lev[o]
            BY <2>1 DEF OnLevel
        <3>2. /\ Local(G, t, o) /\ Local(G, t, p) /\ Sized(G[o], o, t.root, {}, {}) /\ t.lev[t.root] \in Nat
              /\ Formed(G[o])
            BY <2>1, <3>1 DEF IsTree, Placed, Local
        <3>3. G[o].leaf = G[p].leaf
            <4>1. G[o].leaf \in BOOLEAN /\ G[p].leaf \in BOOLEAN
                BY <3>2 DEF Local, Formed
            <4>2. G[o].leaf <=> G[p].leaf
                BY <3>1, <3>2 DEF Local
            <4> QED BY <4>1, <4>2
        <3>4. o = t.root <=> n = 0
            <4>1. n = 0 => o = t.root
                <5>1. OnLevel(t, 0) = {t.root}
                    BY <2>1, RootLevel
                <5> QED BY <5>1
            <4> QED BY <4>1, <3>1, <3>2
        <3>5. Len(G[o].keys) \in Nat /\ Len(G[o].keys) + 0 >= IF o = t.root THEN 1 ELSE MinKeys(G[o])
            BY <3>2, Numbers DEF Sized
        <3> QED BY <3>3, <3>4, <3>5
    <2> QED BY <2>1, <2>2 DEF Balanced
<1> QED BY <1>1, <1>2 DEF TreeThere

LEMMA FindableFact ==
    ASSUME TreeThere(file)
    PROVE  Findable
<1>1. CASE Empty(file)
    <2>1. Nodes(file) = {}
        BY <1>1, EmptyLevels
    <2> QED BY <2>1 DEF Findable, Leaves
<1>2. ASSUME NEW t, Alive(file, t) PROVE Findable
    <2> DEFINE G == file.read
    <2>1. Kept(file, t.nodes) /\ IsTree(G, t, {}, {}) /\ Root(file) = t.root /\ Nodes(file) = t.nodes
        BY <1>2, AliveFacts
    <2>2. ASSUME NEW o \in t.nodes, G[o].leaf, NEW k \in ToSet(G[o].keys)
          PROVE  LeafFor(file, k) = o
        <3>1. Local(G, t, o) /\ t.lev[o] = 0 /\ G[o].keys \in Seq(Key)
            BY <2>1, <2>2 DEF IsTree, Local, Formed
        <3>2. PICK i \in 1 .. Len(G[o].keys) : k = G[o].keys[i]
            BY <3>1 DEF ToSet
        <3>3. k \in t.rng[o] /\ k \in Key
            BY <3>1, <3>2 DEF Local
        <3>4. /\ LeafFor(file, k) \in t.nodes /\ t.lev[LeafFor(file, k)] = 0 /\ k \in t.rng[LeafFor(file, k)]
            BY <2>1, <3>3, LeafForIs
        <3> QED BY <3>1, <3>3, <3>4, <2>1 DEF IsTree, Apart
    <2> QED BY <2>1, <2>2 DEF Findable, Leaves
<1> QED BY <1>1, <1>2 DEF TreeThere

(* The leaves in key order.                                                *)
Ends(G, t, o, lo, hi) ==
    /\ lo = G[o].keys[1] /\ hi = Last(G[o].keys) /\ lo \in t.rng[o] /\ hi \in t.rng[o]
    /\ lo \in Key /\ hi \in Key /\ lo \in Int /\ hi \in Int /\ lo <= hi /\ t.lev[o] = 0 /\ o \in t.nodes

LEMMA LeafEnds ==
    ASSUME NEW G, NEW t, IsTree(G, t, {}, {}), NEW o \in t.nodes, G[o].leaf
    PROVE  Ends(G, t, o, G[o].keys[1], Last(G[o].keys)) /\ Last(G[o].kids) = Link(G[o])
<1> DEFINE n == Len(G[o].keys)
<1>1. Local(G, t, o) /\ t.lev[o] = 0 /\ Formed(G[o]) /\ Sized(G[o], o, t.root, {}, {})
    BY DEF IsTree, Local
<1>2. n \in Nat /\ Len(G[o].kids) = n + 1 /\ MinKeys(G[o]) >= 1 /\ MinKeys(G[o]) \in Nat
    BY <1>1, Numbers
<1>3. n >= 1
    <2>1. n + 0 >= IF o = t.root THEN 1 ELSE MinKeys(G[o])
        BY <1>1 DEF Sized
    <2> QED BY <2>1, <1>2
<1>4. 1 \in 1 .. n /\ n \in 1 .. n
    BY <1>2, <1>3
<1>5. G[o].keys[1] \in t.rng[o] /\ G[o].keys[n] \in t.rng[o]
    BY <1>1, <1>4 DEF Local
<1>6. G[o].keys[1] \in Key /\ G[o].keys[n] \in Key
    BY <1>1, <1>4, Numbers
<1>7. G[o].keys[1] \in Int /\ G[o].keys[n] \in Int
    BY <1>6, KeysAreInts
<1>8. G[o].keys[1] <= G[o].keys[n]
    <2>1. CASE n = 1
        BY <2>1, <1>7
    <2>2. CASE n # 1
        <3>1. 1 < n
            <4> HIDE DEF n
            <4> QED BY <2>2, <1>2, <1>3
        <3>2. G[o].keys[1] < G[o].keys[n]
            BY <3>1, <1>1, <1>4 DEF Formed, Sorted
        <3> QED BY <3>2, <1>7
    <2> QED BY <2>1, <2>2
<1>9. Last(G[o].keys) = G[o].keys[n] /\ Last(G[o].kids) = Link(G[o])
    BY <1>2 DEF Last, Link
<1> QED BY <1>1, <1>5, <1>6, <1>7, <1>8, <1>9 DEF Ends

LEMMA EndsApart ==
    ASSUME NEW G, NEW t, IsTree(G, t, {}, {}), NEW o, NEW p, o # p,
           NEW a, NEW b, Ends(G, t, o, a, b), NEW c, NEW d, Ends(G, t, p, c, d)
    PROVE  /\ b < c \/ d < a
           /\ ~(b < c /\ d < a)
           /\ \A k \in Key : ~(k \in t.rng[o] /\ k \in t.rng[p])
<1>1. /\ a \in t.rng[o] /\ b \in t.rng[o] /\ a \in Key /\ b \in Key /\ a \in Int /\ b \in Int /\ a <= b
      /\ c \in t.rng[p] /\ d \in t.rng[p] /\ c \in Key /\ d \in Key /\ c \in Int /\ d \in Int /\ c <= d
    BY DEF Ends
<1>2. \A k \in Key : ~(k \in t.rng[o] /\ k \in t.rng[p])
    <2>1. o \in t.nodes /\ p \in t.nodes /\ t.lev[o] = t.lev[p]
        BY DEF Ends
    <2> QED BY <2>1 DEF IsTree, Apart
<1>3. Reaches(t.rng[o]) /\ Reaches(t.rng[p])
    BY DEF IsTree, Placed, Ends
<1>4. a < c /\ c < b => c \in t.rng[o]
    BY <1>1, <1>3 DEF Reaches
<1>5. c < a /\ a < d => a \in t.rng[p]
    BY <1>1, <1>3 DEF Reaches
<1>6. a # c /\ b # c /\ a # d
    BY <1>1, <1>2
<1> QED BY <1>1, <1>2, <1>4, <1>5, <1>6

LEMMA LeafChainFact ==
    ASSUME LongWords = 1, Empty(file) \/ \E t : Alive(file, t) /\ First(t, file.hdr[3])
    PROVE  LeafChain
<1>1. CASE Empty(file)
    <2>1. Nodes(file) = {}
        BY <1>1, EmptyLevels
    <2> QED BY <2>1 DEF LeafChain, Leaves
<1>2. ASSUME NEW t, Alive(file, t), First(t, file.hdr[3]) PROVE LeafChain
    <2> DEFINE G == file.read
    <2>1. IsTree(G, t, {}, {}) /\ Nodes(file) = t.nodes
        BY <1>2, AliveFacts
    <2>2. Leaves(file) = {o \in t.nodes : G[o].leaf}
        BY <2>1 DEF Leaves
    <2> DEFINE lo(o) == G[o].keys[1]
               hi(o) == Last(G[o].keys)
               leaves == {o \in t.nodes : G[o].leaf}
    <2>3. \A o \in leaves : Ends(G, t, o, lo(o), hi(o)) /\ Last(G[o].kids) = Link(G[o]) /\ lo(o) \in Key /\ hi(o) \in Key
        <3> SUFFICES ASSUME NEW o \in leaves
                     PROVE  Ends(G, t, o, lo(o), hi(o)) /\ Last(G[o].kids) = Link(G[o]) /\ lo(o) \in Key /\ hi(o) \in Key
            OBVIOUS
        <3>1. Ends(G, t, o, G[o].keys[1], Last(G[o].keys)) /\ Last(G[o].kids) = Link(G[o])
            BY <2>1, LeafEnds
        <3> QED BY <3>1 DEF Ends
    <2>4. \A o, p \in leaves : o # p => /\ hi(o) < lo(p) \/ hi(p) < lo(o)
                                       /\ ~(hi(o) < lo(p) /\ hi(p) < lo(o))
                                       /\ \A k \in Key : ~(k \in t.rng[o] /\ k \in t.rng[p])
        <3> SUFFICES ASSUME NEW o \in leaves, NEW p \in leaves, o # p
                     PROVE  /\ hi(o) < lo(p) \/ hi(p) < lo(o)
                            /\ ~(hi(o) < lo(p) /\ hi(p) < lo(o))
                            /\ \A k \in Key : ~(k \in t.rng[o] /\ k \in t.rng[p])
            OBVIOUS
        <3>1. Ends(G, t, o, lo(o), hi(o)) /\ Ends(G, t, p, lo(p), hi(p))
            BY <2>3
        <3> HIDE DEF lo, hi, leaves
        <3> QED BY <3>1, <2>1, EndsApart
    <2>5. \A o \in leaves : /\ lo(o) \in t.rng[o] /\ hi(o) \in t.rng[o] /\ lo(o) \in Int /\ hi(o) \in Int
                            /\ lo(o) <= hi(o) /\ t.lev[o] = 0
        BY <2>3 DEF Ends
    <2>6. ASSUME NEW o \in t.nodes, t.lev[o] = 0 PROVE o \in leaves
        BY <2>1, <2>6 DEF IsTree, Local
    <2>7. ASSUME NEW a \in leaves
          PROVE  LET keys  == file.read[a].keys
                     after == {b \in leaves : Precedes(a, b)}
                 IN  /\ \A i \in 1 .. Len(keys) - 1 : keys[i] < keys[i + 1]
                     /\ \A b \in leaves \ after : a = b \/ Precedes(b, a)
                     /\ after = leaves \ {a} => GetField(file, LEFTLEAF) = a
                     /\ IF after = {} THEN Last(file.read[a].kids) = 0
                        ELSE \E b \in after :
                                 Last(file.read[a].kids) = b /\ \A c \in after \ {b} : Precedes(b, c)
        <3> DEFINE after == {b \in leaves : Precedes(a, b)}
                   x == Link(G[a])
        <3>1. \A o, p \in leaves : Precedes(o, p) <=> hi(o) < lo(p)
            BY DEF Precedes
        <3>2. \A i \in 1 .. Len(G[a].keys) - 1 : G[a].keys[i] < G[a].keys[i + 1]
            <4>1. Formed(G[a])
                BY <2>1 DEF IsTree, Local
            <4>2. Len(G[a].keys) \in Nat
                BY <4>1, Numbers
            <4> SUFFICES ASSUME NEW i \in 1 .. Len(G[a].keys) - 1 PROVE G[a].keys[i] < G[a].keys[i + 1]
                OBVIOUS
            <4>3. i \in 1 .. Len(G[a].keys) /\ i + 1 \in 1 .. Len(G[a].keys) /\ i < i + 1
                BY <4>2
            <4> QED BY <4>1, <4>3 DEF Formed, Sorted
        <3>3. Behind(t, a, x)
            BY <2>1, <2>5 DEF IsTree, Linked
        <3>4. First(t, file.hdr[3])
            BY <1>2
        <3>5. Last(G[a].kids) = x
            BY <2>3
        <3> HIDE DEF lo, hi, leaves, x
        <3>6. \A b \in leaves : b \in after <=> hi(a) < lo(b)
            BY <3>1
        <3>7. \A b \in leaves \ after : a = b \/ Precedes(b, a)
            BY <2>4, <3>1, <3>6
        <3>8. ASSUME after = leaves \ {a} PROVE GetField(file, LEFTLEAF) = a
            <4> DEFINE h == file.hdr[3]
            <4>1. h \in leaves /\ \A j \in t.rng[h], i \in Key : i < j => i \in t.rng[h]
                BY <2>6, <3>4 DEF First
            <4>2. h = a
                <5> SUFFICES ASSUME h # a PROVE FALSE
                    OBVIOUS
                <5>1. hi(a) < lo(h)
                    BY <3>6, <3>8, <4>1
                <5>2. lo(h) \in t.rng[h] /\ hi(a) \in t.rng[a] /\ hi(a) \in Key
                    BY <2>3, <2>5, <4>1
                <5>3. hi(a) \in t.rng[h]
                    BY <4>1, <5>1, <5>2
                <5> QED BY <5>2, <5>3, <2>4, <4>1
            <4> QED BY <4>2 DEF GetField, LEFTLEAF
        <3>9. ASSUME x = 0 PROVE after = {}
            <4> SUFFICES ASSUME NEW b \in leaves, hi(a) < lo(b) PROVE FALSE
                BY <3>6
            <4>1. \A j \in t.rng[a], k \in Key : j < k => k \in t.rng[a]
                BY <3>3, <3>9 DEF Behind
            <4>2. lo(b) \in t.rng[a] /\ lo(b) \in t.rng[b] /\ lo(b) \in Key
                BY <4>1, <2>3, <2>5
            <4>3. a # b
                BY <2>5
            <4> QED BY <4>2, <4>3, <2>4
        <3>10. ASSUME x # 0 PROVE x \in after /\ \A c \in after \ {x} : Precedes(x, c)
            <4>1. x \in t.nodes /\ t.lev[x] = 0 /\ NextTo(t, a, x)
                BY <3>3, <3>10 DEF Behind
            <4>2. x \in leaves
                BY <4>1, <2>6
            <4>3. \A j \in t.rng[a], i \in t.rng[x] : j < i
                BY <4>1 DEF NextTo
            <4>4. hi(a) < lo(x)
                BY <4>2, <4>3, <2>5
            <4>5. ASSUME NEW c \in after \ {x} PROVE Precedes(x, c)
                <5>1. c \in leaves /\ hi(a) < lo(c) /\ c # x
                    BY <3>6
                <5>2. c # a
                    BY <5>1, <2>5
                <5> SUFFICES ASSUME ~(hi(x) < lo(c)) PROVE FALSE
                    BY <5>1, <4>2, <3>1
                <5>3. hi(c) < lo(x)
                    BY <5>1, <4>2, <2>4
                <5>4. lo(c) < lo(x)
                    BY <5>1, <5>3, <4>2, <2>5
                <5>5. lo(c) \in Key /\ hi(a) \in t.rng[a] /\ lo(x) \in t.rng[x] /\ lo(c) \in t.rng[c]
                    BY <5>1, <4>2, <2>3, <2>5
                <5>6. lo(c) \in t.rng[a] \cup t.rng[x]
                    BY <4>1, <5>1, <5>4, <5>5 DEF NextTo
                <5> QED BY <5>1, <5>2, <5>5, <5>6, <4>2, <2>4
            <4> QED BY <4>2, <4>4, <4>5, <3>6
        <3>11. IF after = {} THEN x = 0
               ELSE \E b \in after : x = b /\ \A c \in after \ {b} : Precedes(b, c)
            BY <3>9, <3>10
        <3> QED BY <3>2, <3>5, <3>7, <3>8, <3>11
    <2> DEFINE Chain(all) ==
                   \A a \in all :
                       LET keys  == file.read[a].keys
                           after == {b \in all : Precedes(a, b)}
                       IN  /\ \A i \in 1 .. Len(keys) - 1 : keys[i] < keys[i + 1]
                           /\ \A b \in all \ after : a = b \/ Precedes(b, a)
                           /\ after = all \ {a} => GetField(file, LEFTLEAF) = a
                           /\ IF after = {} THEN Last(file.read[a].kids) = 0
                              ELSE \E b \in after :
                                       Last(file.read[a].kids) = b /\ \A c \in after \ {b} : Precedes(b, c)
    <2>8. Chain(leaves)
        BY <2>7, Zenon
    <2> HIDE DEF Chain, leaves
    <2>9. \A all \in {Leaves(file)} : Chain(all)
        BY <2>2, <2>8 DEF leaves
    <2> QED BY <2>9, Zenon DEF LeafChain, Chain
<1> QED BY <1>1, <1>2

-----------------------------------------------------------------------------
(* An insertion's way up.                                                  *)

(* The entries are those of G and t, but for k, whose values are V.         *)
Target(G, t, k, V, G2, t2) == \A j, x : Entry(G2, t2, j, x) <=> IF j = k THEN x \in V ELSE Entry(G, t, j, x)
Grown(f, p, key, kid) == [f.read EXCEPT ![p] = AddKey(f.read[p], key, kid)]

(* Node p, on level n, is still to take key and kid.                        *)
Pend(g, s, k, V, f, t, p, n, key, kid) ==
    /\ Kept(f, t.nodes) /\ f.dirty = {} /\ SameRest(g, f) /\ t.root = s.root /\ Heirs(s, t)
    /\ p \in s.nodes /\ s.lev[p] = n
    /\ key \in Key /\ kid \in Kid /\ (Full(f.read[p]) => ~Holds(f.read[p], key))
    /\ IsTree(Grown(f, p, key, kid), t, {p}, {})
    /\ Target(g.read, s, k, V, Grown(f, p, key, kid), t)
    /\ \A x \in s.nodes : s.lev[x] >= n => x \in t.nodes /\ t.lev[x] = s.lev[x] /\ f.read[x] = g.read[x]
(* The tree is whole again.                                                *)
Finished(g, s, k, V, f) ==
    \E t : /\ Stored(f, t, {}, {}) /\ SameRest(g, f) /\ t.root = s.root /\ Heirs(s, t)
           /\ Target(g.read, s, k, V, f.read, t)
(* A new root is to take key, the old root and kid.                         *)
Topped(g, s, k, V, f, N, u, G, key, kid) ==
    (\A x \in N : G[x] = f.read[x]) /\ G[u] = Internal(<<key>>, <<s.root, kid>>) =>
        \E t : /\ t.nodes = N \cup {u} /\ t.root = u /\ IsTree(G, t, {}, {})
               /\ Target(g.read, s, k, V, G, t) /\ Heirs(s, t)
RootPend(g, s, k, V, f, key, kid) ==
    \E N : /\ Kept(f, N) /\ f.dirty = {} /\ SameRest(g, f) /\ key \in Key /\ kid \in Kid
           /\ \A u \in Nat \ {0} : u \notin N => \A G : Topped(g, s, k, V, f, N, u, G, key, kid)

LEMMA TargetMore ==
    ASSUME NEW G, NEW t, NEW k, NEW V, NEW G1, NEW t1, Target(G, t, k, V, G1, t1),
           NEW G2, NEW t2, SameEntries(G1, t1, G2, t2)
    PROVE  Target(G, t, k, V, G2, t2)
BY DEF Target, SameEntries

(* The node that is to grow.                                               *)
LEMMA PendFacts ==
    ASSUME NEW g, NEW s, IsTree(g.read, s, {}, {}), NEW k, NEW V, NEW f, NEW t, NEW p, NEW n, NEW key, NEW kid,
           Pend(g, s, k, V, f, t, p, n, key, kid)
    PROVE  /\ p \in t.nodes /\ t.lev[p] = n /\ f.read[p] = g.read[p] /\ Formed(f.read[p])
           /\ Len(f.read[p].keys) <= MaxKeys /\ p \in DOMAIN f.read
           /\ Grown(f, p, key, kid)[p] = AddKey(f.read[p], key, kid)
           /\ \A x : x # p => Grown(f, p, key, kid)[x] = f.read[x]
<1>1. p \in s.nodes /\ s.lev[p] = n /\ n \in Nat
    BY DEF Pend, IsTree, Placed
<1>2. s.lev[p] >= n
    BY <1>1
<1>3. p \in t.nodes /\ t.lev[p] = n /\ f.read[p] = g.read[p]
    BY <1>1, <1>2 DEF Pend
<1>4. Formed(f.read[p]) /\ Len(f.read[p].keys) <= MaxKeys
    BY <1>1, <1>3 DEF IsTree, Local, Sized
<1>5. p \in DOMAIN f.read /\ f.read = [o \in DOMAIN f.read |-> f.read[o]]
    BY <1>3 DEF Pend, Kept, IsFile
<1>6. /\ Grown(f, p, key, kid)[p] = AddKey(f.read[p], key, kid)
      /\ \A x : x # p => Grown(f, p, key, kid)[x] = f.read[x]
    BY <1>5 DEF Grown
<1> QED BY <1>3, <1>4, <1>5, <1>6

LEMMA Taken ==
    ASSUME NEW g, NEW s, IsTree(g.read, s, {}, {}), NEW k, NEW V, NEW f, NEW t, NEW p, NEW n, NEW key, NEW kid,
           Pend(g, s, k, V, f, t, p, n, key, kid), ~Full(f.read[p])
    PROVE  Finished(g, s, k, V, SaveNode(f, p, AddKey(f.read[p], key, kid)))
<1> DEFINE h == SaveNode(f, p, AddKey(f.read[p], key, kid))
           G == Grown(f, p, key, kid)
<1>1. /\ p \in t.nodes /\ Formed(f.read[p]) /\ Len(f.read[p].keys) <= MaxKeys
      /\ G[p] = AddKey(f.read[p], key, kid)
    BY PendFacts
<1>2. Kept(f, t.nodes) /\ f.dirty = {} /\ SameRest(g, f) /\ key \in Key /\ kid \in Kid
      /\ IsTree(G, t, {p}, {}) /\ t.root = s.root /\ Heirs(s, t) /\ Target(g.read, s, k, V, G, t)
    BY DEF Pend
<1>3. Kept(h, t.nodes) /\ SameRest(f, h) /\ h.dirty = f.dirty \ {p} /\ h.read = G
    BY <1>1, <1>2, NodeSaved DEF Grown
<1> HIDE DEF h, G
<1>4. Len(G[p].keys) <= MaxKeys
    <2>1. Len(f.read[p].keys) \in Nat /\ ~(Len(f.read[p].keys) >= MaxKeys) /\ MaxKeys \in Int
        BY <1>1, Numbers, Orders DEF Full
    <2>2. CASE Holds(f.read[p], key)
        <3>1. G[p] = [f.read[p] EXCEPT !.kids[Pos(f.read[p].keys, key)] = kid]
            BY <1>1, <2>2 DEF AddKey
        <3>2. G[p].keys = f.read[p].keys
            BY <3>1, <1>1 DEF Formed
        <3> QED BY <3>2, <1>1
    <2>3. CASE ~Holds(f.read[p], key)
        <3>1. Widens(f.read[p], AddKey(f.read[p], key, kid), Pos(f.read[p].keys, key), key, kid)
            BY <1>1, <1>2, <2>3, Widened
        <3>2. Len(G[p].keys) = Len(f.read[p].keys) + 1
            BY <3>1, <1>1 DEF Widens, Grows
        <3> QED BY <3>2, <2>1
    <2> QED BY <2>2, <2>3
<1>5. IsTree(G, t, {}, {})
    <2>1. \A x \in t.nodes : Sized(G[x], x, t.root, {p}, {}) => Sized(G[x], x, t.root, {}, {})
        BY <1>4 DEF Sized
    <2> QED BY <2>1, <1>2, Resized
<1>6. Stored(h, t, {}, {}) /\ SameRest(g, h) /\ Target(g.read, s, k, V, h.read, t)
    BY <1>2, <1>3, <1>5 DEF Stored, SameRest
<1> QED BY <1>2, <1>6 DEF Finished, h

(* The node is full and not the last to be cut.                             *)
HalvesOf(f, N, p, key, kid, q, w, h) ==
    /\ w = AddKey(f.read[p], key, kid) /\ Formed(w) /\ Len(w.keys) = Order
    /\ q \in Nat \ {0} /\ q \notin N
    /\ Kept(h, N \cup {q}) /\ h.dirty = {} /\ SameRest(f, h)
    /\ h.read[p] = LeftOf(w, q) /\ h.read[q] = RightOf(w)
    /\ \A x \in N : x # p => h.read[x] = f.read[x]

LEMMA Halved ==
    ASSUME NEW g, NEW s, IsTree(g.read, s, {}, {}), NEW k, NEW V, NEW f, NEW t, NEW p, NEW n, NEW key, NEW kid,
           Pend(g, s, k, V, f, t, p, n, key, kid), Full(f.read[p]), g.retired = {},
           NEW node, node = f.read[p], NEW q, q = NewOffset(f)
    PROVE  /\ HalvesOf(f, t.nodes, p, key, kid, q, AddKey(node, key, kid),
                       SaveNode(AddNode(f, SplitRight(node, key, kid)), p, SplitLeft(node, key, kid, q)))
           /\ SplitKey(node, key) = AddKey(node, key, kid).keys[Cut(AddKey(node, key, kid))]
<1> DEFINE w == AddKey(node, key, kid)
           h1 == AddNode(f, SplitRight(node, key, kid))
           h == SaveNode(h1, p, SplitLeft(node, key, kid, q))
           N == t.nodes
<1>1. p \in N /\ Formed(node) /\ Len(node.keys) <= MaxKeys
    BY PendFacts
<1>2. /\ Kept(f, N) /\ f.dirty = {} /\ SameRest(g, f) /\ key \in Key /\ kid \in Kid /\ ~Holds(node, key)
    BY DEF Pend
<1>3. /\ SplitLeft(node, key, kid, q) = LeftOf(w, q) /\ SplitRight(node, key, kid) = RightOf(w)
      /\ SplitKey(node, key) = w.keys[Cut(w)]
    BY <1>1, <1>2, SplitIsCut
<1>4. Formed(w) /\ Len(w.keys) = Order
    <2>1. Widens(node, w, Pos(node.keys, key), key, kid)
        BY <1>1, <1>2, Widened
    <2>2. Formed(w) /\ Len(w.keys) = Len(node.keys) + 1
        BY <2>1 DEF Widens, Grows
    <2>3. Len(node.keys) \in Nat /\ Len(node.keys) >= MaxKeys
        BY <1>1, Numbers DEF Full
    <2> HIDE DEF w
    <2> QED BY <2>2, <2>3, <1>1, Orders
<1>5. q \in Nat \ {0} /\ q \notin N
    BY <1>2, FreshOffset
<1>6. Kept(h1, N \cup {q}) /\ SameRest(f, h1) /\ h1.dirty = f.dirty /\ h1.read = Put(f.read, q, RightOf(w))
    <2>1. f.retired = {}
        BY <1>2 DEF SameRest
    <2> HIDE DEF w
    <2>2. /\ Kept(AddNode(f, RightOf(w)), N \cup {q}) /\ SameRest(f, AddNode(f, RightOf(w)))
          /\ AddNode(f, RightOf(w)).dirty = f.dirty
          /\ AddNode(f, RightOf(w)).read = Put(f.read, q, RightOf(w))
        BY <1>2, <2>1, NodeAdded
    <2> QED BY <2>2, <1>3
<1>7. /\ Kept(h, N \cup {q}) /\ SameRest(h1, h) /\ h.dirty = h1.dirty \ {p}
      /\ h.read = [h1.read EXCEPT ![p] = LeftOf(w, q)]
    <2>1. p \in N \cup {q} /\ h = SaveNode(h1, p, LeftOf(w, q))
        BY <1>1, <1>3
    <2> HIDE DEF h, h1, w
    <2>2. LET z == SaveNode(h1, p, LeftOf(w, q))
          IN  /\ Kept(z, N \cup {q}) /\ SameRest(h1, z) /\ SameUnits(h1, z)
              /\ z.dirty = h1.dirty \ {p}
              /\ z.read = [h1.read EXCEPT ![p] = LeftOf(w, q)]
        BY <1>6, <2>1, NodeSaved
    <2> QED BY <2>1, <2>2
<1> HIDE DEF h, h1, w
<1>8. /\ N \subseteq DOMAIN f.read /\ f.read = [o \in DOMAIN f.read |-> f.read[o]]
    BY <1>2 DEF Kept, IsFile
<1>9. h.read[p] = LeftOf(w, q) /\ h.read[q] = RightOf(w) /\ \A x \in N : x # p => h.read[x] = f.read[x]
    <2>1. DOMAIN h1.read = DOMAIN f.read \cup {q}
        BY <1>6 DEF Put
    <2>2. h1.read[q] = RightOf(w) /\ \A x \in N : x # q => h1.read[x] = f.read[x]
        BY <1>6, <1>8 DEF Put
    <2>3. p # q /\ p \in DOMAIN h1.read
        BY <1>1, <1>5, <1>8, <2>1
    <2>4. h.read[p] = LeftOf(w, q) /\ \A x \in DOMAIN h1.read : x # p => h.read[x] = h1.read[x]
        BY <1>7, <2>3
    <2> QED BY <1>5, <1>8, <2>1, <2>2, <2>3, <2>4
<1>10. h.dirty = {} /\ SameRest(f, h)
    BY <1>2, <1>6, <1>7 DEF SameRest
<1> QED BY <1>3, <1>4, <1>5, <1>7, <1>9, <1>10 DEF HalvesOf, h, h1, w

(* A node below the root is cut; its parent takes the key.                  *)
LEMMA CutBelow ==
    ASSUME NEW g, NEW s, IsTree(g.read, s, {}, {}), NEW k, NEW V, NEW f, NEW t, NEW p, NEW n, NEW key, NEW kid,
           Pend(g, s, k, V, f, t, p, n, key, kid), NEW q, NEW w, NEW h, HalvesOf(f, t.nodes, p, key, kid, q, w, h),
           NEW pp \in s.nodes, s.lev[pp] = n + 1, NEW c \in 1 .. Len(g.read[pp].kids), g.read[pp].kids[c] = p,
           NEW sep, sep = w.keys[Cut(w)]
    PROVE  Pend(g, s, k, V, h, SplitGhost(t, p, q, sep), pp, n + 1, sep, q)
<1> DEFINE G  == Grown(f, p, key, kid)
           G2 == Grown(h, pp, sep, q)
           t2 == SplitGhost(t, p, q, sep)
<1>1. /\ Kept(f, t.nodes) /\ SameRest(g, f) /\ t.root = s.root /\ Heirs(s, t)
      /\ p \in s.nodes /\ s.lev[p] = n /\ IsTree(G, t, {p}, {}) /\ Target(g.read, s, k, V, G, t)
      /\ \A x \in s.nodes : s.lev[x] >= n => x \in t.nodes /\ t.lev[x] = s.lev[x] /\ f.read[x] = g.read[x]
    BY DEF Pend
<1>2. /\ p \in t.nodes /\ t.lev[p] = n /\ G[p] = AddKey(f.read[p], key, kid)
      /\ \A x : x # p => G[x] = f.read[x]
    BY PendFacts
<1>3. /\ G[p] = w /\ Formed(w) /\ Len(w.keys) = Order /\ q \in Nat \ {0} /\ q \notin t.nodes
      /\ Kept(h, t.nodes \cup {q}) /\ h.dirty = {} /\ SameRest(f, h)
      /\ h.read[p] = LeftOf(w, q) /\ h.read[q] = RightOf(w)
      /\ \A x \in t.nodes : x # p => h.read[x] = f.read[x]
    BY <1>2 DEF HalvesOf
<1>4. n \in Nat
    BY <1>1 DEF IsTree, Placed
<1>5. /\ pp # p /\ pp \in t.nodes /\ t.lev[pp] = n + 1 /\ t.lev[pp] # 0 /\ f.read[pp] = g.read[pp]
      /\ G[pp] = g.read[pp] /\ h.read[pp] = g.read[pp] /\ pp # q
    <2>1. s.lev[pp] >= n /\ n + 1 # n /\ n + 1 # 0
        BY <1>4
    <2>2. pp # p
        BY <2>1, <1>1
    <2>3. pp \in t.nodes /\ t.lev[pp] = n + 1 /\ f.read[pp] = g.read[pp]
        BY <2>1, <1>1
    <2> QED BY <2>1, <2>2, <2>3, <1>2, <1>3
<1>6. Formed(g.read[pp])
    BY DEF IsTree, Local
<1>7. /\ CutAt(w, LeftCount(w), Cut(w)) /\ Cuts(w, LeftOf(w, q), RightOf(w), LeftCount(w), Cut(w))
      /\ w.leaf => LeftOf(w, q).kids[LeftCount(w) + 1] = q
    BY <1>3, CutInTwo DEF Kid
<1> HIDE DEF G
<1>8. Divides(G, t, {}, p, pp, c, q, LeftCount(w), Cut(w), sep)
    BY <1>1, <1>2, <1>3, <1>5, <1>7 DEF Divides
<1>9. /\ sep \in Key /\ Pos(G[pp].keys, sep) = c /\ ~Holds(G[pp], sep)
    BY <1>8, SplitFacts
<1>10. /\ G2[pp] = AddKey(g.read[pp], sep, q)
       /\ \A x \in t.nodes \cup {q} : x # pp => G2[x] = h.read[x]
    <2>1. t.nodes \cup {q} \subseteq DOMAIN h.read /\ h.read = [o \in DOMAIN h.read |-> h.read[o]]
        BY <1>3 DEF Kept, IsFile
    <2> QED BY <2>1, <1>5 DEF Grown
<1> HIDE DEF G2
<1>11. Grows(G[pp], G2[pp], c, sep, q)
    <2>1. Widens(g.read[pp], AddKey(g.read[pp], sep, q), Pos(g.read[pp].keys, sep), sep, q)
        BY <1>3, <1>5, <1>6, <1>9, Widened DEF Kid
    <2> QED BY <2>1, <1>5, <1>9, <1>10 DEF Widens
<1>12. SplitMap(G, t, G2, p, pp, c, q, LeftCount(w), Cut(w), sep)
    <2>1. G2[p] = LeftOf(w, q) /\ G2[q] = RightOf(w)
        BY <1>2, <1>3, <1>5, <1>10
    <2>2. G[p].leaf => Link(G2[p]) = q
        BY <2>1, <1>3, <1>7 DEF Link, Cuts
    <2>3. \A x \in t.nodes : x # p /\ x # pp => G2[x] = G[x]
        BY <1>2, <1>3, <1>10
    <2> QED BY <2>1, <2>2, <2>3, <1>3, <1>7, <1>11 DEF SplitMap
<1>13. IsTree(G2, t2, {pp}, {}) /\ SameEntries(G, t, G2, t2)
    BY <1>8, <1>12, SplitOff
<1>14. Target(g.read, s, k, V, G2, t2)
    BY <1>1, <1>13, TargetMore
<1>15. Heirs(s, t2)
    <2>1. \A x \in t.nodes : t.rng[x] \subseteq Key
        BY <1>1 DEF IsTree, Placed, Reaches
    <2>2. Heirs(t, t2)
        BY <2>1, <1>2, <1>3, <1>9, SplitHeirs
    <2> QED BY <2>2, <1>1, HeirsOfHeirs
<1>16. t2.nodes = t.nodes \cup {q} /\ t2.root = t.root /\ \A x \in t.nodes : t2.lev[x] = t.lev[x]
    BY <1>3 DEF SplitGhost
<1> HIDE DEF t2
<1>17. \A x \in s.nodes : s.lev[x] >= n + 1 => x \in t2.nodes /\ t2.lev[x] = s.lev[x] /\ h.read[x] = g.read[x]
    <2> SUFFICES ASSUME NEW x \in s.nodes, s.lev[x] >= n + 1
                 PROVE  x \in t2.nodes /\ t2.lev[x] = s.lev[x] /\ h.read[x] = g.read[x]
        OBVIOUS
    <2>1. s.lev[x] \in Nat
        BY DEF IsTree, Placed
    <2>2. s.lev[x] >= n /\ s.lev[x] # n
        BY <2>1, <1>4
    <2>3. x \in t.nodes /\ t.lev[x] = s.lev[x] /\ f.read[x] = g.read[x] /\ x # p
        BY <2>2, <1>1
    <2> QED BY <2>3, <1>3, <1>16
<1>18. ~Holds(h.read[pp], sep) /\ q \in Kid
    BY <1>3, <1>5, <1>9 DEF Kid
<1>19. SameRest(g, h)
    BY <1>1, <1>3 DEF SameRest
<1>20. IsTree(Grown(h, pp, sep, q), t2, {pp}, {}) /\ Target(g.read, s, k, V, Grown(h, pp, sep, q), t2)
    BY <1>13, <1>14 DEF G2
<1>21. Kept(h, t2.nodes) /\ h.dirty = {} /\ t2.root = s.root
    BY <1>1, <1>3, <1>16
<1>22. Pend(g, s, k, V, h, t2, pp, n + 1, sep, q)
    BY <1>9, <1>15, <1>17, <1>18, <1>19, <1>20, <1>21 DEF Pend
<1> QED BY <1>22 DEF t2

LEMMA RaiseHeirs ==
    ASSUME NEW t, NEW u, u \notin t.nodes
    PROVE  Heirs(t, RaiseGhost(t, u))
<1> DEFINE t1 == RaiseGhost(t, u)
<1>1. \A x \in t.nodes : x \in t1.nodes /\ t1.lev[x] = t.lev[x] /\ t1.rng[x] = t.rng[x]
    BY DEF RaiseGhost
<1> HIDE DEF t1
<1>2. FirstKept(t, t1)
    BY <1>1 DEF FirstKept, First
<1>3. Heirs(t, t1)
    BY <1>1, <1>2 DEF Heirs
<1> QED BY <1>3 DEF t1

LEMMA TopGrows ==
    ASSUME NEW p \in Kid, NEW q \in Kid, NEW sep \in Key
    PROVE  Grows(Internal(<<>>, <<p>>), Internal(<<sep>>, <<p, q>>), 1, sep, q)
<1> DEFINE a == Internal(<<>>, <<p>>)
           b == Internal(<<sep>>, <<p, q>>)
<1>1. /\ a.leaf = FALSE /\ a.keys = <<>> /\ a.kids = <<p>>
      /\ b.leaf = FALSE /\ b.keys = <<sep>> /\ b.kids = <<p, q>>
      /\ b \in [leaf : BOOLEAN, keys : Seq(Key), kids : Seq(Kid)]
    BY DEF Internal
<1> HIDE DEF a, b
<1>2. Len(a.keys) = 0 /\ Len(b.keys) = 1 /\ Len(a.kids) = 1 /\ Len(b.kids) = 2
    BY <1>1
<1>3. b.keys[1] = sep /\ b.kids[2] = q /\ b.kids[1] = p /\ a.kids[1] = p
    BY <1>1
<1>4. LET i == IF a.leaf THEN 1 ELSE 1 + 1
      IN  /\ b.kids[i] = q
          /\ \A j \in 1 .. Len(a.kids) : j < i => b.kids[j] = a.kids[j]
          /\ \A j \in 1 .. Len(a.kids) : j >= i => b.kids[j + 1] = a.kids[j]
    <2>1. (IF a.leaf THEN 1 ELSE 1 + 1) = 2
        BY <1>1
    <2>2. \A j \in 1 .. Len(a.kids) : j = 1
        BY <1>2
    <2> QED BY <2>1, <2>2, <1>3
<1>5. /\ \A j \in 1 .. Len(a.keys) : j < 1 => b.keys[j] = a.keys[j]
      /\ \A j \in 1 .. Len(a.keys) : j >= 1 => b.keys[j + 1] = a.keys[j]
    BY <1>2
<1>6. /\ Len(b.keys) = Len(a.keys) + 1 /\ Len(b.kids) = Len(a.kids) + 1
      /\ 1 \in 1 .. Len(a.keys) + 1
    BY <1>2
<1>7. Grows(a, b, 1, sep, q)
    BY <1>1, <1>3, <1>4, <1>5, <1>6 DEF Grows
<1> QED BY <1>7 DEF a, b

IsTop(s, p) == s.root = p
(* The root is cut; a new root is to take the key.                          *)
LEMMA CutTop ==
    ASSUME NEW g, NEW s, IsTree(g.read, s, {}, {}), NEW k, NEW V, NEW f, NEW t, NEW p, NEW n, NEW key, NEW kid,
           Pend(g, s, k, V, f, t, p, n, key, kid), NEW q, NEW w, NEW h, HalvesOf(f, t.nodes, p, key, kid, q, w, h),
           IsTop(s, p), NEW sep, sep = w.keys[Cut(w)]
    PROVE  RootPend(g, s, k, V, h, sep, q)
<1> DEFINE G == Grown(f, p, key, kid)
           N == t.nodes \cup {q}
<1>1. /\ Kept(f, t.nodes) /\ SameRest(g, f) /\ t.root = p /\ Heirs(s, t)
      /\ IsTree(G, t, {p}, {}) /\ Target(g.read, s, k, V, G, t)
    BY DEF Pend, IsTop
<1>2. /\ p \in t.nodes /\ G[p] = AddKey(f.read[p], key, kid)
      /\ \A x : x # p => G[x] = f.read[x]
    <2>1. /\ p \in t.nodes /\ Grown(f, p, key, kid)[p] = AddKey(f.read[p], key, kid)
          /\ \A x : x # p => Grown(f, p, key, kid)[x] = f.read[x]
        BY PendFacts
    <2> QED BY <2>1
<1>3. /\ G[p] = w /\ Formed(w) /\ Len(w.keys) = Order /\ q \in Nat \ {0} /\ q \notin t.nodes
      /\ Kept(h, N) /\ h.dirty = {} /\ SameRest(f, h)
      /\ h.read[p] = LeftOf(w, q) /\ h.read[q] = RightOf(w)
      /\ \A x \in t.nodes : x # p => h.read[x] = f.read[x]
    BY <1>2 DEF HalvesOf
<1>4. /\ CutAt(w, LeftCount(w), Cut(w)) /\ Cuts(w, LeftOf(w, q), RightOf(w), LeftCount(w), Cut(w))
      /\ w.leaf => LeftOf(w, q).kids[LeftCount(w) + 1] = q
    BY <1>3, CutInTwo DEF Kid
<1>5. /\ p \in Nat \ {0} /\ t.lev[p] \in Nat /\ \A x \in t.nodes : t.rng[x] \subseteq Key
    BY <1>1 DEF IsTree, Placed, Reaches
<1>6. Len(G[p].keys) >= MinKeys(G[p])
    <2>1. MinKeys(w) <= Order
        BY OrderAssumption DEF MinKeys, MinLeaf, MinInt
    <2> QED BY <2>1, <1>3, Orders
<1> HIDE DEF G, N
<1>7. sep \in Key
    <2>1. Cut(w) \in Nat /\ Cut(w) >= 1 /\ Cut(w) <= Len(w.keys)
        BY <1>3, <1>4, CutBetween
    <2> QED BY <2>1, <1>3 DEF Formed
<1>8. ASSUME NEW u \in Nat \ {0}, u \notin N, NEW F, \A x \in N : F[x] = h.read[x],
             F[u] = Internal(<<sep>>, <<s.root, q>>)
      PROVE  \E t3 : /\ t3.nodes = N \cup {u} /\ t3.root = u /\ IsTree(F, t3, {}, {})
                     /\ Target(g.read, s, k, V, F, t3) /\ Heirs(s, t3)
    <2> DEFINE G1 == [x \in t.nodes \cup {u} |-> IF x = u THEN Internal(<<>>, <<p>>) ELSE G[x]]
               t1 == RaiseGhost(t, u)
               t2 == SplitGhost(t1, p, q, sep)
    <2>1. G1[u] = Internal(<<>>, <<p>>) /\ (\A x \in t.nodes : G1[x] = G[x]) /\ u \notin t.nodes /\ u # q
        BY <1>8 DEF N
    <2> HIDE DEF G1
    <2>2. IsTree(G1, t1, {p}, {u}) /\ SameEntries(G, t, G1, t1)
        BY <2>1, <1>1, <1>6, Raised
    <2>3. /\ t1.nodes = t.nodes \cup {u} /\ t1.root = u /\ t1.lev[u] = t.lev[p] + 1
        BY <1>1 DEF RaiseGhost
    <2> HIDE DEF t1
    <2>4. G1[u].kids = <<p>> /\ Len(G1[u].kids) = 1 /\ G1[u].kids[1] = p
        BY <2>1 DEF Internal
    <2>5. Divides(G1, t1, {u}, p, u, 1, q, LeftCount(w), Cut(w), sep)
        <3>1. t1.lev[u] # 0 /\ p \in t1.nodes /\ u \in t1.nodes /\ q \notin t1.nodes /\ G1[p] = w
            BY <1>2, <1>3, <1>5, <2>1, <2>3
        <3>2. 1 \in 1 .. Len(G1[u].kids)
            BY <2>4
        <3> QED BY <3>1, <3>2, <2>2, <2>4, <1>3, <1>4 DEF Divides
    <2>6. Grows(G1[u], F[u], 1, sep, q)
        BY <2>1, <1>1, <1>3, <1>5, <1>7, <1>8, TopGrows DEF Kid, IsTop
    <2>7. F[p] = LeftOf(w, q) /\ F[q] = RightOf(w) /\ \A x \in t.nodes : x # p => F[x] = f.read[x]
        BY <1>2, <1>3, <1>8 DEF N
    <2>8. SplitMap(G1, t1, F, p, u, 1, q, LeftCount(w), Cut(w), sep)
        <3>1. G1[p] = w
            BY <1>2, <1>3, <2>1
        <3>2. G1[p].leaf => Link(F[p]) = q
            BY <3>1, <2>7, <1>4 DEF Link, Cuts
        <3>3. \A x \in t1.nodes : x # p /\ x # u => F[x] = G1[x]
            BY <1>2, <2>1, <2>3, <2>7
        <3> QED BY <3>1, <3>2, <3>3, <2>6, <2>7, <1>4 DEF SplitMap
    <2>9. IsTree(F, t2, {u}, {}) /\ SameEntries(G1, t1, F, t2)
        BY <2>5, <2>8, SplitOff
    <2>10. Target(g.read, s, k, V, F, t2)
        BY <2>2, <2>9, <1>1, TargetMore
    <2>11. Heirs(s, t2)
        <3>1. Heirs(t, t1)
            BY <2>1, RaiseHeirs DEF t1
        <3>2. \A x \in t1.nodes : t1.rng[x] \subseteq Key
            BY <2>2 DEF IsTree, Placed, Reaches
        <3>3. Heirs(t1, t2)
            <4>1. p \in t1.nodes /\ q \notin t1.nodes
                BY <1>2, <1>3, <2>1, <2>3
            <4> QED BY <4>1, <3>2, <1>7, SplitHeirs
        <3> HIDE DEF t2
        <3>4. Heirs(s, t1)
            BY <3>1, <1>1, HeirsOfHeirs
        <3> QED BY <3>3, <3>4, HeirsOfHeirs
    <2>12. t2.nodes = N \cup {u} /\ t2.root = u
        <3>1. t2.nodes = t1.nodes \cup {q} /\ t2.root = t1.root
            BY DEF SplitGhost
        <3> HIDE DEF t2
        <3> QED BY <3>1, <2>3 DEF N
    <2> HIDE DEF t2
    <2>13. Len(F[u].keys) <= MaxKeys
        <3>1. F[u].keys = <<sep>>
            BY <1>8 DEF Internal
        <3>2. Len(F[u].keys) = 1
            BY <3>1
        <3> QED BY <3>2, Orders
    <2>14. IsTree(F, t2, {}, {})
        <3>1. \A x \in t2.nodes : Sized(F[x], x, t2.root, {u}, {}) => Sized(F[x], x, t2.root, {}, {})
            BY <2>13 DEF Sized
        <3> QED BY <3>1, <2>9, Resized
    <2> QED BY <2>10, <2>11, <2>12, <2>14
<1>9. \A u \in Nat \ {0} : u \notin N => \A F : Topped(g, s, k, V, h, N, u, F, sep, q)
    BY <1>8 DEF Topped
<1>10. SameRest(g, h) /\ q \in Kid
    BY <1>1, <1>3 DEF SameRest, Kid
<1>11. Kept(h, N) /\ h.dirty = {}
    BY <1>3
<1> QED BY <1>7, <1>9, <1>10, <1>11, Zenon DEF RootPend

(* What goes up the path, n of its nodes passed.                            *)
IsCarry(e) ==
    /\ DOMAIN e = {"file", "key", "kid", "split"} /\ e = [x \in DOMAIN e |-> e[x]]
    /\ e.split \in BOOLEAN
CarryAt(g, s, k, V, path, n, e) ==
    IF ~e.split THEN Finished(g, s, k, V, e.file)
    ELSE IF n < Len(path)
    THEN \E t : Pend(g, s, k, V, e.file, t, path[Len(path) - n].at, n, e.key, e.kid)
    ELSE RootPend(g, s, k, V, e.file, e.key, e.kid)

LEMMA CarryStep ==
    ASSUME NEW g, NEW s, IsTree(g.read, s, {}, {}), g.retired = {}, NEW k, NEW V,
           NEW path, Road(g.read, s, k, path), NEW n \in Nat, n < Len(path),
           NEW e, IsCarry(e), CarryAt(g, s, k, V, path, n, e),
           NEW p, p = path[Len(path) - n].at
    PROVE  IsCarry(AddAt(e, p)) /\ CarryAt(g, s, k, V, path, n + 1, AddAt(e, p))
<1> DEFINE H == Len(path)
           f == e.file
           node == f.read[p]
           key == e.key
           kid == e.kid
           q == NewOffset(f)
           e2 == AddAt(e, p)
           h == SaveNode(AddNode(f, SplitRight(node, key, kid)), p, SplitLeft(node, key, kid, q))
           w == AddKey(node, key, kid)
<1>1. e2 = IF ~e.split \/ (Full(node) /\ Holds(node, key))
           THEN [e EXCEPT !.split = FALSE]
           ELSE IF Full(node)
           THEN [file |-> h, key |-> SplitKey(node, key), kid |-> q, split |-> TRUE]
           ELSE [e EXCEPT !.file = SaveNode(f, p, w), !.split = FALSE]
    BY DEF AddAt
<1>2. H \in Nat
    BY DEF Road
<1>3. CASE ~e.split
    <2>1. e2 = [e EXCEPT !.split = FALSE] /\ Finished(g, s, k, V, f)
        BY <1>1, <1>3 DEF CarryAt
    <2> HIDE DEF e2
    <2>2. e2.split = FALSE /\ e2.file = f /\ IsCarry(e2)
        BY <2>1 DEF IsCarry
    <2> QED BY <2>1, <2>2 DEF CarryAt, e2
<1>4. CASE e.split
    <2>1. PICK t : Pend(g, s, k, V, f, t, p, n, key, kid)
        BY <1>4 DEF CarryAt
    <2>2. CASE ~Full(node)
        <3>1. Finished(g, s, k, V, SaveNode(f, p, w))
            BY <2>1, <2>2, Taken
        <3>2. e2 = [e EXCEPT !.file = SaveNode(f, p, w), !.split = FALSE]
            BY <1>1, <1>4, <2>2
        <3> HIDE DEF e2, w
        <3>3. e2.split = FALSE /\ e2.file = SaveNode(f, p, w) /\ IsCarry(e2)
            BY <3>2 DEF IsCarry
        <3> QED BY <3>1, <3>3 DEF CarryAt, e2
    <2>3. CASE Full(node)
        <3>1. ~Holds(node, key)
            BY <2>1, <2>3 DEF Pend
        <3>2. /\ HalvesOf(f, t.nodes, p, key, kid, q, w, h) /\ SplitKey(node, key) = w.keys[Cut(w)]
            BY SMTT(30), <2>1, <2>3, Halved
        <3> DEFINE sep == w.keys[Cut(w)]
        <3>3. e2 = [file |-> h, key |-> sep, kid |-> q, split |-> TRUE]
            BY <1>1, <1>4, <2>3, <3>1, <3>2
        <3> HIDE DEF e2, w, h, q, node
        <3>4. e2.file = h /\ e2.key = sep /\ e2.kid = q /\ e2.split = TRUE /\ IsCarry(e2)
            BY <3>3 DEF IsCarry
        <3>5. CASE n + 1 < H
            <4> DEFINE i == H - (n + 1)
                       pp == path[i].at
                       c == path[i].child
            <4>1. i \in 1 .. H /\ i \in 1 .. H - 1 /\ i + 1 = H - n /\ H - i = n + 1
                BY <1>2, <3>5
            <4> HIDE DEF i
            <4>2. /\ pp \in s.nodes /\ s.lev[pp] = n + 1
                  /\ c \in 1 .. Len(g.read[pp].kids) /\ g.read[pp].kids[c] = p
                BY <4>1 DEF Road
            <4> HIDE DEF pp, c
            <4>3. Pend(g, s, k, V, h, SplitGhost(t, p, q, sep), pp, n + 1, sep, q)
                BY <2>1, <3>2, <4>2, CutBelow
            <4>4. \E t2 : Pend(g, s, k, V, h, t2, pp, n + 1, sep, q)
                BY <4>3
            <4>5. pp = path[Len(path) - (n + 1)].at
                BY DEF pp, i
            <4> QED BY <3>4, <3>5, <4>4, <4>5 DEF CarryAt, e2
        <3>6. CASE ~(n + 1 < H)
            <4>1. H - n = 1
                BY <1>2, <3>6
            <4>2. IsTop(s, p)
                BY <4>1 DEF Road, IsTop
            <4>3. RootPend(g, s, k, V, h, sep, q)
                BY <2>1, <3>2, <4>2, CutTop
            <4> QED BY <3>4, <3>6, <4>3 DEF CarryAt, e2
        <3> QED BY <3>5, <3>6
    <2> QED BY <2>2, <2>3
<1> QED BY <1>3, <1>4

CarryUp(up, first, path, m) ==
    up[0] = first /\ \A n \in 1 .. m : up[n] = AddAt(up[n - 1], path[Len(path) + 1 - n].at)

LEMMA CarryExists ==
    ASSUME NEW first, NEW path, NEW m \in Nat
    PROVE  \E up : CarryUp(up, first, path, m)
<1> DEFINE A == {j \in Nat : ~ \E up : CarryUp(up, first, path, j)}
<1>1. ASSUME A # {} PROVE FALSE
    <2>1. PICK j \in A : \A i \in A : j <= i
        <3> HIDE DEF A
        <3>1. A \subseteq Nat
            BY DEF A
        <3> QED BY <1>1, <3>1, LeastIn
    <2>2. j # 0
        <3>1. CarryUp([n \in 0 .. 0 |-> first], first, path, 0)
            BY DEF CarryUp
        <3> QED BY <3>1
    <2>3. j - 1 \in Nat /\ j - 1 \notin A /\ j \in Nat
        BY <2>1, <2>2
    <2>4. PICK u : CarryUp(u, first, path, j - 1)
        BY <2>3
    <2> DEFINE top == AddAt(u[j - 1], path[Len(path) + 1 - j].at)
               h == [n \in 0 .. j |-> IF n = j THEN top ELSE u[n]]
    <2>5. h[j] = top /\ \A n \in 0 .. j - 1 : h[n] = u[n]
        <3> HIDE DEF top
        <3> QED BY <2>3
    <2>6. h[0] = first
        BY <2>2, <2>3, <2>4, <2>5 DEF CarryUp
    <2>7. h[j - 1] = u[j - 1]
        BY <2>3, <2>5
    <2> HIDE DEF h
    <2>8. h[j] = AddAt(h[j - 1], path[Len(path) + 1 - j].at)
        BY <2>5, <2>7
    <2>9. ASSUME NEW n \in 1 .. j - 1 PROVE h[n] = AddAt(h[n - 1], path[Len(path) + 1 - n].at)
        <3>1. n \in 0 .. j - 1 /\ n - 1 \in 0 .. j - 1
            BY <2>3
        <3>2. h[n] = u[n] /\ h[n - 1] = u[n - 1]
            BY <3>1, <2>5
        <3>3. u[n] = AddAt(u[n - 1], path[Len(path) + 1 - n].at)
            BY <2>4 DEF CarryUp
        <3> QED BY <3>2, <3>3
    <2>10. \A n \in 1 .. j : n = j \/ n \in 1 .. j - 1
        BY <2>3
    <2>11. CarryUp(h, first, path, j)
        BY <2>6, <2>8, <2>9, <2>10 DEF CarryUp
    <2> QED BY <2>1, <2>11
<1> QED BY <1>1

(* The recursion of the way up.                                            *)
LEMMA CarriedUp ==
    ASSUME NEW g, NEW k, NEW path, Len(path) \in Nat, NEW v, NEW first,
           first = [file |-> g, key |-> k, kid |-> v, split |-> TRUE]
    PROVE  \E up : CarryUp(up, first, path, Len(path)) /\ Carried(g, path, k, v) = up[Len(path)]
<1> DEFINE H == Len(path)
           Body(u) == [n \in 0 .. H |->
                          IF n = 0 THEN [file |-> g, key |-> k, kid |-> v, split |-> TRUE]
                          ELSE AddAt(u[n - 1], path[H + 1 - n].at)]
           Chosen(u) == u[H]
<1>1. H \in Nat
    OBVIOUS
<1> HIDE DEF H
<1>2. PICK u : CarryUp(u, first, path, H)
    BY <1>1, CarryExists
<1> DEFINE h == [n \in 0 .. H |-> u[n]]
<1>3. \A n \in 0 .. H : h[n] = u[n]
    OBVIOUS
<1>4. h = Body(h)
    <2>1. ASSUME NEW n \in 0 .. H
          PROVE  h[n] = IF n = 0 THEN first ELSE AddAt(h[n - 1], path[H + 1 - n].at)
        <3> HIDE DEF h
        <3>1. CASE n = 0
            BY <3>1, <1>1, <1>2, <1>3 DEF CarryUp
        <3>2. CASE n # 0
            <4>1. n \in 1 .. H /\ n - 1 \in 0 .. H
                BY <3>2, <1>1
            <4>2. u[n] = AddAt(u[n - 1], path[H + 1 - n].at)
                BY <4>1, <1>2 DEF CarryUp, H
            <4> QED BY <4>1, <4>2, <3>2, <1>3
        <3> QED BY <3>1, <3>2
    <2> QED BY <2>1, Zenon
<1>5. \E x : x = Body(x)
    <2> HIDE DEF h, Body
    <2> QED BY <1>4
<1> DEFINE up == CHOOSE x : x = Body(x)
<1>6. up = Body(up)
    <2> HIDE DEF Body
    <2> QED BY <1>5
<1>7. Carried(g, path, k, v) = up[H]
    BY Zenon DEF Carried, H
<1> HIDE DEF up
<1>8. \A n \in 0 .. H : up[n] = IF n = 0 THEN first ELSE AddAt(up[n - 1], path[H + 1 - n].at)
    <2>1. \A n \in 0 .. H : Body(up)[n] = IF n = 0 THEN first ELSE AddAt(up[n - 1], path[H + 1 - n].at)
        OBVIOUS
    <2> HIDE DEF Body
    <2> QED BY <2>1, <1>6
<1>9. CarryUp(up, first, path, H)
    <2>1. up[0] = first
        <3>1. 0 \in 0 .. H
            BY <1>1
        <3> QED BY <3>1, <1>8, Zenon
    <2>2. \A n \in 1 .. H : n \in 0 .. H /\ n # 0
        BY <1>1
    <2>3. \A n \in 1 .. H : up[n] = AddAt(up[n - 1], path[H + 1 - n].at)
        BY <2>2, <1>8
    <2> QED BY <2>1, <2>3 DEF CarryUp, H
<1> QED BY <1>7, <1>9 DEF H

LEMMA CarriedIs ==
    ASSUME NEW g, NEW s, IsTree(g.read, s, {}, {}), g.retired = {}, NEW k, NEW V,
           NEW path, Road(g.read, s, k, path), NEW v, NEW first,
           first = [file |-> g, key |-> k, kid |-> v, split |-> TRUE], CarryAt(g, s, k, V, path, 0, first)
    PROVE  LET e == Carried(g, path, k, v)
           IN  CarryAt(g, s, k, V, path, Len(path), e)
<1> DEFINE H == Len(path)
<1>1. H \in Nat
    BY DEF Road
<1>2. PICK up : CarryUp(up, first, path, H) /\ Carried(g, path, k, v) = up[H]
    BY <1>1, CarriedUp
<1> HIDE DEF H
<1> DEFINE Good(n) == IsCarry(up[n]) /\ CarryAt(g, s, k, V, path, n, up[n])
           A == {n \in Nat : n \in 0 .. H /\ ~Good(n)}
<1>3. ASSUME A # {} PROVE FALSE
    <2>1. PICK n \in A : \A i \in A : n <= i
        <3> HIDE DEF A
        <3>1. A \subseteq Nat
            BY DEF A
        <3> QED BY <1>3, <3>1, LeastIn
    <2>2. Good(0)
        <3>1. up[0] = first
            BY <1>2 DEF CarryUp
        <3>2. IsCarry(first)
            BY DEF IsCarry
        <3> QED BY <3>1, <3>2
    <2>3. n # 0 /\ n \in 1 .. H
        BY <2>1, <2>2, <1>1
    <2> DEFINE m == n - 1
    <2>4. m \in Nat /\ m < H /\ m \in 0 .. H /\ m \notin A /\ m + 1 = n /\ H + 1 - n = H - m
        BY <2>1, <2>3, <1>1
    <2>5. Good(m)
        BY <2>4
    <2>6. up[n] = AddAt(up[m], path[H - m].at)
        BY <2>3, <2>4, <1>2 DEF CarryUp, H
    <2> HIDE DEF m
    <2>7. Good(m + 1)
        <3>1. IsCarry(AddAt(up[m], path[H - m].at)) /\ CarryAt(g, s, k, V, path, m + 1, AddAt(up[m], path[H - m].at))
            BY <2>4, <2>5, CarryStep DEF H
        <3> QED BY <3>1, <2>4, <2>6
    <2> QED BY <2>7, <2>4, <2>1
<1>4. Good(H)
    BY <1>1, <1>3
<1> QED BY <1>2, <1>4 DEF H

(* At the leaf.                                                            *)
LEMMA CarryBase ==
    ASSUME NEW g, NEW s, Kept(g, s.nodes), g.dirty = {}, IsTree(g.read, s, {}, {}), Root(g) = s.root,
           NEW k \in Key, NEW v \in Kid, ~Rejects(g, k), Root(g) # 0,
           NEW first, first = [file |-> g, key |-> k, kid |-> v, split |-> TRUE]
    PROVE  CarryAt(g, s, k, {v}, Descend(g, k), 0, first)
<1> DEFINE path == Descend(g, k)
           H == Len(path)
           p == LeafFor(g, k)
           node == g.read[p]
           G == Grown(g, p, k, v)
<1>1. Road(g.read, s, k, path)
    BY DescendIs
<1>2. H \in Nat /\ 0 < H /\ H - 0 = H
    BY <1>1 DEF Road
<1>3. p \in s.nodes /\ s.lev[p] = 0 /\ k \in s.rng[p] /\ p = path[H].at
    BY LeafForIs
<1> HIDE DEF path, p
<1>4. Full(node) => ~Holds(node, k)
    BY DEF Rejects, p
<1>5. Formed(node) /\ node.leaf /\ Sized(node, p, s.root, {}, {})
    BY <1>3 DEF IsTree, Local
<1>6. Turned(node, AddKey(node, k, v), k, {v}) /\ Len(AddKey(node, k, v).keys) = Len(node.keys) + (IF Holds(node, k) THEN 0 ELSE 1)
    BY <1>5, LeafWith
<1>7. G[p] = AddKey(node, k, v) /\ \A x \in s.nodes : x # p => G[x] = g.read[x]
    <2>1. p \in DOMAIN g.read /\ g.read = [o \in DOMAIN g.read |-> g.read[o]] /\ s.nodes \subseteq DOMAIN g.read
        BY <1>3 DEF Kept, IsFile
    <2> QED BY <2>1 DEF Grown
<1> HIDE DEF G
<1>8. Sized(G[p], p, s.root, {p}, {})
    <2>1. Len(node.keys) \in Nat /\ MinKeys(node) \in Nat /\ G[p].leaf = node.leaf
        BY <1>5, <1>6, <1>7, Numbers DEF Turned
    <2>2. Len(node.keys) >= IF p = s.root THEN 1 ELSE MinKeys(node)
        BY <1>5, <2>1 DEF Sized
    <2>3. MinKeys(G[p]) = MinKeys(node)
        BY <2>1 DEF MinKeys
    <2>4. Len(G[p].keys) = Len(node.keys) + (IF Holds(node, k) THEN 0 ELSE 1)
        BY <1>6, <1>7
    <2> DEFINE a == Len(node.keys)
               b == Len(G[p].keys)
    <2>5. b >= a /\ a \in Nat /\ b \in Nat
        <3>1. a \in Nat /\ (b = a + 0 \/ b = a + 1)
            BY <2>1, <2>4
        <3> HIDE DEF a, b
        <3> QED BY <3>1
    <2>6. b >= IF p = s.root THEN 1 ELSE MinKeys(G[p])
        <3> HIDE DEF a, b
        <3>1. a >= IF p = s.root THEN 1 ELSE MinKeys(node)
            BY <2>2 DEF a
        <3> QED BY <3>1, <2>1, <2>3, <2>5
    <2> QED BY <2>5, <2>6 DEF Sized
<1>9. /\ IsTree(G, s, {p}, {})
      /\ \A j, x : Entry(G, s, j, x) <=> IF j = k THEN x \in {v} ELSE Entry(g.read, s, j, x)
    <2> DEFINE V == {v}
               big == {p}
               small == {}
    <2>1. Turned(g.read[p], G[p], k, V) /\ Sized(G[p], p, s.root, big, small)
        BY <1>6, <1>7, <1>8
    <2>2. IsTree(g.read, s, {}, {})
        OBVIOUS
    <2> HIDE DEF V, big, small
    <2>3. /\ IsTree(G, s, big, small)
          /\ \A j, x : Entry(G, s, j, x) <=> IF j = k THEN x \in V ELSE Entry(g.read, s, j, x)
        BY <2>1, <2>2, <1>3, <1>7, LeafTurned
    <2> QED BY <2>3 DEF V, big, small
<1>10. Target(g.read, s, k, {v}, G, s)
    BY <1>9 DEF Target
<1>11. SameRest(g, g) /\ Heirs(s, s)
    BY OwnHeirs DEF SameRest
<1>12. IsTree(Grown(g, p, k, v), s, {p}, {}) /\ Target(g.read, s, k, {v}, Grown(g, p, k, v), s)
    BY <1>9, <1>10 DEF G
<1>13. Pend(g, s, k, {v}, g, s, p, 0, k, v)
    BY <1>3, <1>4, <1>11, <1>12 DEF Pend
<1>14. first.split = TRUE /\ first.file = g /\ first.key = k /\ first.kid = v
    OBVIOUS
<1>15. \E t : Pend(g, s, k, {v}, first.file, t, path[Len(path) - 0].at, 0, first.key, first.kid)
    BY <1>2, <1>3, <1>13, <1>14
<1>16. CarryAt(g, s, k, {v}, path, 0, first)
    BY <1>2, <1>14, <1>15 DEF CarryAt
<1> QED BY <1>16 DEF path

-----------------------------------------------------------------------------
(* A call's file.                                                          *)

(* m gives each key its value, or 0.                                       *)
Maps == [Key -> Value \cup {0}]
KeysIn(m) == {k \in Key : m[k] # 0}
Says(G, t, m) == \A k \in Key : \A v : Entry(G, t, k, v) <=> v = m[k] /\ v # 0
Living(f, t, m) == Alive(f, t) /\ Says(f.read, t, m) /\ (LongWords = 1 => First(t, f.hdr[3]))
Shows(f, m) ==
    /\ Words(f)
    /\ IsFiniteSet(KeysIn(m)) /\ Cardinality(KeysIn(m)) <= f.hdr[1]
    /\ (Empty(f) /\ KeysIn(m) = {}) \/ \E t : Living(f, t, m)

(* A tree of one leaf.                                                     *)
SoleGhost(o) == [nodes |-> {o}, root |-> o, lev |-> [x \in {o} |-> 0], rng |-> [x \in {o} |-> Key]]

LEMMA Sole ==
    ASSUME NEW o \in Nat \ {0}, NEW k \in Key, NEW v \in Kid, NEW G, G[o] = Leaf(<<k>>, <<v, 0>>)
    PROVE  /\ IsTree(G, SoleGhost(o), {}, {}) /\ First(SoleGhost(o), o)
           /\ \A j, x : Entry(G, SoleGhost(o), j, x) <=> j = k /\ x = v
<1> DEFINE t == SoleGhost(o)
           node == Leaf(<<k>>, <<v, 0>>)
<1>1. t.nodes = {o} /\ t.root = o /\ t.lev[o] = 0 /\ t.rng[o] = Key
    BY DEF SoleGhost
<1>2. /\ node \in [leaf : BOOLEAN, keys : Seq(Key), kids : Seq(Kid)]
      /\ node.leaf = TRUE /\ node.keys = <<k>> /\ node.kids = <<v, 0>>
    BY DEF Leaf, Kid
<1> HIDE DEF t, node
<1>14. G[o] = node
    BY DEF node
<1>3. Len(node.keys) = 1 /\ Len(node.kids) = 2 /\ node.keys[1] = k /\ node.kids[1] = v /\ node.kids[2] = 0
    BY <1>2
<1>4. Formed(node)
    BY <1>2, <1>3 DEF Formed, Sorted
<1>5. Link(node) = 0
    BY <1>3 DEF Link
<1>6. Placed(t) /\ Apart(t)
    BY <1>1 DEF Placed, Apart, Reaches
<1>7. Linked(G, t)
    BY <1>1, <1>5, <1>14 DEF Linked, Behind
<1>8. Local(G, t, o)
    <2>1. \A i \in 1 .. Len(node.keys) : node.keys[i] \in t.rng[o]
        BY <1>1, <1>3
    <2>2. node.leaf <=> t.lev[o] = 0
        BY <1>1, <1>2
    <2> QED BY <2>1, <2>2, <1>1, <1>4, <1>14 DEF Local
<1>9. Sized(node, o, t.root, {}, {})
    BY <1>1, <1>3, Orders DEF Sized
<1>10. IsTree(G, t, {}, {})
    BY <1>1, <1>6, <1>7, <1>8, <1>9, <1>14 DEF IsTree
<1>11. First(t, o)
    BY <1>1 DEF First
<1>12. \A j, x : Keeps(node, j, x) <=> j = k /\ x = v
    BY <1>3 DEF Keeps
<1>13. \A j, x : Entry(G, t, j, x) <=> j = k /\ x = v
    BY <1>1, <1>12, <1>14 DEF Entry
<1> QED BY <1>10, <1>11, <1>13 DEF t

(* An insertion into f with tree s has made of it r, in which the leaves of *)
(* s are still leaves.                                                      *)
Swelled(f, s, k, V, low, r) ==
    /\ Words(r) /\ r.hdr[1] = low
    /\ \E t : /\ Alive(r, t) /\ Target(f.read, s, k, V, r.read, t) /\ Heirs(s, t)
              /\ LongWords = 1 /\ First(s, f.hdr[3]) => First(t, r.hdr[3])

(* A call on f with tree s has made of it r, with size low and V for k.     *)
Became(f, s, k, V, low, r) ==
    /\ Words(r) /\ r.hdr[1] = low
    /\ \E t : /\ Alive(r, t) /\ Target(f.read, s, k, V, r.read, t)
              /\ LongWords = 1 /\ First(s, f.hdr[3]) => First(t, r.hdr[3])

LEMMA SameSize ==
    ASSUME NEW f, NEW g, g.hdr = f.hdr
    PROVE  Size(g) = Size(f) /\ Root(g) = Root(f) /\ (Words(f) => Words(g))
BY DEF Size, Root, GetField, Words

(* The root had room, or a node below it.                                   *)
LEMMA InsertEnds ==
    ASSUME NEW f, NEW s, NEW k, NEW V, NEW F, Words(f), Root(f) = s.root, Finished(f, s, k, V, F),
           NEW low \in Nat, LongWords = 2 => low < WordBase, low = f.hdr[1] + 1
    PROVE  Swelled(f, s, k, V, low, SetField(F, SIZE, Size(f) + 1))
<1> DEFINE r == SetField(F, SIZE, Size(f) + 1)
           x == Size(f) + 1
<1>1. PICK t : /\ Stored(F, t, {}, {}) /\ SameRest(f, F) /\ t.root = s.root /\ Heirs(s, t)
               /\ Target(f.read, s, k, V, F.read, t)
    BY DEF Finished
<1>2. Size(F) = Size(f) /\ Root(F) = Root(f) /\ Words(F) /\ F.hdr = f.hdr
    BY <1>1, SameSize DEF SameRest
<1>3. Kept(F, t.nodes) /\ F.dirty = {} /\ IsTree(F.read, t, {}, {})
    BY <1>1 DEF Stored
<1>4. x = Size(F) + (low - F.hdr[1])
    <2>1. f.hdr[1] \in Nat
        BY DEF Words
    <2>2. low - F.hdr[1] = 1
        BY <2>1, <1>2
    <2> QED BY <2>2, <1>2
<1> HIDE DEF x, r
<1>5. /\ Kept(r, t.nodes) /\ SameNodes(F, r) /\ Words(r)
      /\ r.hdr[1] = low /\ Root(r) = Root(F) /\ r.hdr[3] = F.hdr[3]
    <2>1. r = SetField(F, SIZE, x)
        BY DEF r, x
    <2>2. LET g == SetField(F, SIZE, x)
          IN  /\ Kept(g, t.nodes) /\ SameNodes(F, g) /\ Words(g)
              /\ g.hdr[1] = low /\ Root(g) = Root(F) /\ g.hdr[3] = F.hdr[3]
        BY <1>2, <1>3, <1>4, SizeWritten
    <2> QED BY <2>1, <2>2
<1>6. r.read = F.read /\ r.dirty = {}
    BY <1>3, <1>5 DEF SameNodes
<1>7. Alive(r, t) /\ Target(f.read, s, k, V, r.read, t)
    BY <1>1, <1>2, <1>3, <1>5, <1>6 DEF Alive, Stored
<1>8. LongWords = 1 /\ First(s, f.hdr[3]) => First(t, r.hdr[3])
    BY <1>1, <1>2, <1>5 DEF Heirs, FirstKept
<1> QED BY <1>1, <1>5, <1>7, <1>8 DEF Swelled, r

(* A new root.                                                             *)
LEMMA InsertTops ==
    ASSUME NEW f, NEW s, NEW k, NEW V, NEW F, NEW key, NEW kid, Words(f), Root(f) = s.root, s.root # 0,
           f.retired = {}, RootPend(f, s, k, V, F, key, kid),
           NEW low \in Nat, LongWords = 2 => low < WordBase, low = f.hdr[1] + 1
    PROVE  Swelled(f, s, k, V, low, AddRoot(SetField(F, SIZE, Size(f) + 1), key, kid))
<1> DEFINE x == Size(f) + 1
           a == SetField(F, SIZE, x)
           u == NewOffset(a)
           top == Internal(<<key>>, <<s.root, kid>>)
           b == AddNode(a, top)
           r == SetField(b, ROOT, u)
<1>1. PICK N : /\ Kept(F, N) /\ F.dirty = {} /\ SameRest(f, F) /\ key \in Key /\ kid \in Kid
               /\ \A n \in Nat \ {0} : n \notin N => \A G : Topped(f, s, k, V, F, N, n, G, key, kid)
    BY Zenon DEF RootPend
<1>2. Size(F) = Size(f) /\ Root(F) = Root(f) /\ Words(F) /\ F.hdr = f.hdr /\ F.retired = {}
    BY <1>1, SameSize DEF SameRest
<1>3. x = Size(F) + (low - F.hdr[1])
    <2>1. f.hdr[1] \in Nat
        BY DEF Words
    <2>2. low - F.hdr[1] = 1
        BY <2>1, <1>2
    <2> QED BY <2>2, <1>2
<1>0. AddRoot(a, key, kid) = r
    <2>0. x = Size(F) + (low - F.hdr[1])
        BY <1>3
    <2> HIDE DEF x
    <2>1. LET z == SetField(F, SIZE, x)
          IN  /\ Kept(z, N) /\ SameNodes(F, z) /\ Words(z)
              /\ z.hdr[1] = low /\ Root(z) = Root(F) /\ z.hdr[3] = F.hdr[3]
        BY <1>1, <1>2, <2>0, SizeWritten
    <2>2. Root(a) = s.root
        BY <2>1, <1>2
    <2> HIDE DEF a
    <2> QED BY <2>2 DEF AddRoot
<1> HIDE DEF x
<1>4. /\ Kept(a, N) /\ SameNodes(F, a) /\ Words(a)
      /\ a.hdr[1] = low /\ Root(a) = Root(F) /\ a.hdr[3] = F.hdr[3]
    <2>1. LET z == SetField(F, SIZE, x)
          IN  /\ Kept(z, N) /\ SameNodes(F, z) /\ Words(z)
              /\ z.hdr[1] = low /\ Root(z) = Root(F) /\ z.hdr[3] = F.hdr[3]
        BY <1>1, <1>2, <1>3, SizeWritten
    <2> QED BY <2>1
<1> HIDE DEF a
<1>5. a.retired = {} /\ a.dirty = {} /\ a.read = F.read
    BY <1>1, <1>2, <1>4 DEF SameNodes
<1>6. u \in Nat \ {0} /\ u \notin N
    BY <1>4, FreshOffset
<1>7. Kept(b, N \cup {u}) /\ SameRest(a, b) /\ b.dirty = {} /\ b.read = Put(a.read, u, top)
    <2> DEFINE q == NewOffset(a)
    <2>1. q = NewOffset(a) /\ u = q
        OBVIOUS
    <2> HIDE DEF top, u, q
    <2>2. LET g == AddNode(a, top)
          IN  /\ Kept(g, N \cup {q}) /\ SameRest(a, g) /\ g.dirty = a.dirty
              /\ g.read = Put(a.read, q, top)
        BY <2>1, <1>4, <1>5, NodeAdded
    <2> QED BY <2>1, <2>2, <1>5
<1> HIDE DEF u, top, b
<1>8. Words(b) /\ b.hdr = a.hdr
    BY <1>4, <1>7, SameSize DEF SameRest
<1>9. /\ Kept(r, N \cup {u}) /\ SameNodes(b, r) /\ Words(r)
      /\ r.hdr[1] = b.hdr[1] /\ Root(r) = u /\ (LongWords = 1 => r.hdr[3] = b.hdr[3])
    BY <1>6, <1>7, <1>8, RootWritten
<1> HIDE DEF r
<1>10. r.read = Put(a.read, u, top) /\ r.dirty = {}
    BY <1>7, <1>9 DEF SameNodes
<1>11. r.read[u] = top /\ \A o \in N : r.read[o] = F.read[o]
    <2>1. N \subseteq DOMAIN a.read
        BY <1>4 DEF Kept
    <2> QED BY <2>1, <1>5, <1>6, <1>10 DEF Put
<1>12. Topped(f, s, k, V, F, N, u, r.read, key, kid)
    BY <1>1, <1>6
<1>13. PICK t : /\ t.nodes = N \cup {u} /\ t.root = u /\ IsTree(r.read, t, {}, {})
                /\ Target(f.read, s, k, V, r.read, t) /\ Heirs(s, t)
    BY <1>11, <1>12 DEF Topped, top
<1>14. Alive(r, t)
    BY <1>9, <1>10, <1>13 DEF Alive, Stored
<1>15. LongWords = 1 /\ First(s, f.hdr[3]) => First(t, r.hdr[3])
    BY <1>2, <1>4, <1>8, <1>9, <1>13 DEF Heirs, FirstKept
<1>16. r.hdr[1] = low
    BY <1>4, <1>8, <1>9
<1>17. Swelled(f, s, k, V, low, r)
    BY <1>9, <1>13, <1>14, <1>15, <1>16 DEF Swelled
<1> QED BY <1>0, <1>17 DEF a, x

LEMMA InsertAlive ==
    ASSUME NEW f, NEW s, Alive(f, s), Words(f), f.retired = {}, NEW k \in Key, NEW v \in Kid, ~Rejects(f, k),
           NEW low \in Nat, LongWords = 2 => low < WordBase, low = f.hdr[1] + 1
    PROVE  Swelled(f, s, k, {v}, low, InsertInto(f, k, v))
<1> DEFINE path == Descend(f, k)
           e == Carried(f, path, k, v)
           first == [file |-> f, key |-> k, kid |-> v, split |-> TRUE]
           V == {v}
           Counted(g) == SetField(g, SIZE, Size(f) + 1)
<1>1. Kept(f, s.nodes) /\ f.dirty = {} /\ IsTree(f.read, s, {}, {}) /\ Root(f) = s.root
    BY AliveFacts
<1>2. s.root # 0 /\ Root(f) # 0
    BY <1>1 DEF IsTree, Placed
<1>3. Road(f.read, s, k, path)
    BY <1>1, DescendIs
<1>4. CarryAt(f, s, k, V, path, 0, first)
    BY <1>1, <1>2, CarryBase
<1>5. CarryAt(f, s, k, V, path, Len(path), e)
    <2> HIDE DEF V, path
    <2>1. first = [file |-> f, key |-> k, kid |-> v, split |-> TRUE]
        OBVIOUS
    <2> HIDE DEF first
    <2>2. LET z == Carried(f, path, k, v)
          IN  CarryAt(f, s, k, V, path, Len(path), z)
        BY <2>1, <1>1, <1>3, <1>4, CarriedIs
    <2> QED BY <2>2
<1>6. InsertInto(f, k, v) = IF e.split THEN AddRoot(Counted(e.file), e.key, e.kid) ELSE Counted(e.file)
    BY <1>2 DEF InsertInto
<1>7. Len(path) \in Nat
    BY <1>3 DEF Road
<1> HIDE DEF e, path, V
<1>8. CASE e.split
    <2>1. RootPend(f, s, k, V, e.file, e.key, e.kid)
        BY <1>5, <1>7, <1>8 DEF CarryAt
    <2>2. Swelled(f, s, k, V, low, AddRoot(Counted(e.file), e.key, e.kid))
        BY <2>1, <1>1, <1>2, InsertTops
    <2> QED BY <2>2, <1>6, <1>8 DEF V
<1>9. CASE ~e.split
    <2>1. Finished(f, s, k, V, e.file)
        BY <1>5, <1>9 DEF CarryAt
    <2>2. Swelled(f, s, k, V, low, Counted(e.file))
        BY <2>1, <1>1, InsertEnds
    <2> QED BY <2>2, <1>6, <1>9 DEF V
<1> QED BY <1>8, <1>9

(* The first key.                                                          *)
Began(k, v, low, r) ==
    /\ Words(r) /\ r.hdr[1] = low
    /\ \E t : /\ Alive(r, t) /\ (\A j, x : Entry(r.read, t, j, x) <=> j = k /\ x = v)
              /\ LongWords = 1 => First(t, r.hdr[3])

LEMMA InsertEmpty ==
    ASSUME NEW f, Empty(f), Words(f), f.retired = {}, NEW k \in Key, NEW v \in Kid,
           NEW low \in Nat, LongWords = 2 => low < WordBase, low = f.hdr[1] + 1
    PROVE  Began(k, v, low, InsertInto(f, k, v))
<1> DEFINE x == Size(f) + 1
           a == SetField(f, SIZE, x)
           u == NewOffset(a)
           leaf == Leaf(<<k>>, <<v, 0>>)
           b == AddNode(a, leaf)
           c == SetField(b, LEFTLEAF, u)
           r == SetField(c, ROOT, u)
<1>1. Kept(f, {}) /\ f.dirty = {} /\ Root(f) = 0
    BY DEF Empty
<1>2. x = Size(f) + (low - f.hdr[1])
    <2>1. f.hdr[1] \in Nat
        BY DEF Words
    <2>2. low - f.hdr[1] = 1
        BY <2>1
    <2> QED BY <2>2
<1>4. /\ Kept(a, {}) /\ SameNodes(f, a) /\ Words(a)
      /\ a.hdr[1] = low /\ Root(a) = Root(f) /\ a.hdr[3] = f.hdr[3]
    <2>0. x = Size(f) + (low - f.hdr[1])
        BY <1>2
    <2> HIDE DEF x
    <2>1. LET z == SetField(f, SIZE, x)
          IN  /\ Kept(z, {}) /\ SameNodes(f, z) /\ Words(z)
              /\ z.hdr[1] = low /\ Root(z) = Root(f) /\ z.hdr[3] = f.hdr[3]
        BY <1>1, <2>0, SizeWritten
    <2> QED BY <2>1
<1>0. InsertInto(f, k, v) = r
    <2>1. InsertInto(f, k, v) = AddRoot(a, k, v)
        BY <1>1 DEF InsertInto
    <2>2. Root(a) = 0
        BY <1>1, <1>4
    <2> HIDE DEF a
    <2> QED BY <2>1, <2>2 DEF AddRoot
<1> HIDE DEF x, a
<1>5. a.retired = {} /\ a.dirty = {} /\ a.read = f.read
    BY <1>1, <1>4 DEF SameNodes
<1>6. u \in Nat \ {0}
    BY <1>4, FreshOffset
<1>7. Kept(b, {u}) /\ SameRest(a, b) /\ b.dirty = {} /\ b.read = Put(a.read, u, leaf)
    <2> DEFINE q == NewOffset(a)
    <2>1. q = NewOffset(a) /\ u = q
        OBVIOUS
    <2> HIDE DEF leaf, u, q
    <2>2. LET g == AddNode(a, leaf)
          IN  /\ Kept(g, {} \cup {q}) /\ SameRest(a, g) /\ g.dirty = a.dirty
              /\ g.read = Put(a.read, q, leaf)
        BY <2>1, <1>4, <1>5, NodeAdded
    <2>3. {} \cup {q} = {q}
        OBVIOUS
    <2> QED BY <2>1, <2>2, <2>3, <1>5
<1> HIDE DEF u, leaf, b
<1>8. Words(b) /\ b.hdr = a.hdr
    BY <1>4, <1>7, SameSize DEF SameRest
<1>9. /\ Kept(c, {u}) /\ SameNodes(b, c) /\ Words(c)
      /\ c.hdr[1] = b.hdr[1] /\ (LongWords = 1 => c.hdr[3] = u)
    BY <1>6, <1>7, <1>8, LeftLeafWritten
<1> HIDE DEF c
<1>10. /\ Kept(r, {u}) /\ SameNodes(c, r) /\ Words(r)
       /\ r.hdr[1] = c.hdr[1] /\ Root(r) = u /\ (LongWords = 1 => r.hdr[3] = c.hdr[3])
    BY <1>6, <1>9, RootWritten
<1> HIDE DEF r
<1>11. r.read = Put(a.read, u, leaf) /\ r.dirty = {}
    BY <1>7, <1>9, <1>10 DEF SameNodes
<1>12. r.read[u] = Leaf(<<k>>, <<v, 0>>)
    BY <1>11 DEF Put, leaf
<1> DEFINE t == SoleGhost(u)
<1>13. /\ IsTree(r.read, t, {}, {}) /\ First(t, u)
       /\ \A j, y : Entry(r.read, t, j, y) <=> j = k /\ y = v
    BY <1>6, <1>12, Sole
<1>14. t.nodes = {u} /\ t.root = u
    BY DEF SoleGhost
<1> HIDE DEF t
<1>15. Alive(r, t)
    BY <1>10, <1>11, <1>13, <1>14 DEF Alive, Stored
<1>16. r.hdr[1] = low /\ Words(r) /\ (LongWords = 1 => First(t, r.hdr[3]))
    BY <1>4, <1>8, <1>9, <1>10, <1>13
<1> QED BY <1>0, <1>13, <1>15, <1>16 DEF Began

LEMMA KeysMore ==
    ASSUME NEW m \in Maps, NEW k \in Key, NEW v \in Value, NEW n \in Nat,
           IsFiniteSet(KeysIn(m)), Cardinality(KeysIn(m)) <= n
    PROVE  LET m2 == [m EXCEPT ![k] = v]
           IN  m2 \in Maps /\ IsFiniteSet(KeysIn(m2)) /\ Cardinality(KeysIn(m2)) <= n + 1
<1> DEFINE m2 == [m EXCEPT ![k] = v]
           K == KeysIn(m)
<1>1. v # 0
    BY BTreeAssumption
<1>2. m2 \in Maps /\ m2[k] = v /\ \A j \in Key : j # k => m2[j] = m[j]
    BY DEF Maps
<1> HIDE DEF m2
<1>3. KeysIn(m2) = K \cup {k}
    BY <1>1, <1>2 DEF KeysIn
<1> HIDE DEF K
<1>4. /\ IsFiniteSet(K \cup {k})
      /\ Cardinality(K \cup {k}) = Cardinality(K) \/ Cardinality(K \cup {k}) = Cardinality(K) + 1
    BY FS_AddElement DEF K
<1>5. Cardinality(K) \in Nat /\ Cardinality(K) <= n
    BY FS_CardinalityType DEF K
<1>6. Cardinality(K \cup {k}) <= n + 1
    BY <1>4, <1>5
<1> QED BY <1>2, <1>3, <1>4, <1>6 DEF m2

LEMMA KeysLess ==
    ASSUME NEW m \in Maps, NEW k \in Key, m[k] # 0, NEW n \in Nat,
           IsFiniteSet(KeysIn(m)), Cardinality(KeysIn(m)) <= n
    PROVE  LET m2 == [m EXCEPT ![k] = 0]
           IN  m2 \in Maps /\ IsFiniteSet(KeysIn(m2)) /\ n - 1 \in Nat /\ Cardinality(KeysIn(m2)) <= n - 1
<1> DEFINE m2 == [m EXCEPT ![k] = 0]
           K == KeysIn(m)
<1>2. m2 \in Maps /\ m2[k] = 0 /\ \A j \in Key : j # k => m2[j] = m[j]
    BY DEF Maps
<1> HIDE DEF m2
<1>3. KeysIn(m2) = K \ {k} /\ k \in K
    BY <1>2 DEF KeysIn
<1> HIDE DEF K
<1>4. IsFiniteSet(K \ {k}) /\ Cardinality(K \ {k}) = Cardinality(K) - 1
    BY <1>3, FS_RemoveElement DEF K
<1>5. Cardinality(K) \in Nat /\ Cardinality(K) <= n /\ Cardinality(K \ {k}) \in Nat
    BY <1>4, FS_CardinalityType DEF K
<1>6. Cardinality(K \ {k}) <= n - 1 /\ n - 1 \in Nat
    BY <1>4, <1>5
<1> QED BY <1>2, <1>3, <1>4, <1>6 DEF m2

(* What the call says of the keys.                                          *)
LEMMA SaysTarget ==
    ASSUME NEW G, NEW t, NEW m \in Maps, Says(G, t, m), NEW k \in Key, NEW V, NEW G2, NEW t2, Target(G, t, k, V, G2, t2),
           NEW v, \A x : x \in V <=> x = v /\ v # 0
    PROVE  Says(G2, t2, [m EXCEPT ![k] = v])
<1> DEFINE m2 == [m EXCEPT ![k] = v]
<1>1. m2[k] = v /\ \A j \in Key : j # k => m2[j] = m[j]
    BY DEF Maps
<1> HIDE DEF m2
<1>2. ASSUME NEW j \in Key, NEW x PROVE Entry(G2, t2, j, x) <=> x = m2[j] /\ x # 0
    <2>1. CASE j = k
        BY <2>1, <1>1 DEF Target
    <2>2. CASE j # k
        BY <2>2, <1>1 DEF Target, Says
    <2> QED BY <2>1, <2>2
<1>3. Says(G2, t2, m2)
    BY <1>2 DEF Says
<1> QED BY <1>3 DEF m2

LEMMA InsertLives ==
    ASSUME NEW f, NEW m \in Maps, NEW s, Living(f, s, m), Words(f), f.retired = {}, NEW k \in Key, NEW v \in Value,
           ~Rejects(f, k), LongWords = 2 => f.hdr[1] + 1 < WordBase
    PROVE  LET r == InsertInto(f, k, v)
           IN  /\ Words(r) /\ r.hdr[1] = f.hdr[1] + 1
               /\ \E t : Living(r, t, [m EXCEPT ![k] = v]) /\ Heirs(s, t)
<1> DEFINE m2 == [m EXCEPT ![k] = v]
           low == f.hdr[1] + 1
           r == InsertInto(f, k, v)
           V == {v}
<1>1. f.hdr[1] \in Nat /\ low \in Nat /\ v \in Kid /\ v # 0 /\ low = f.hdr[1] + 1
    BY BTreeAssumption DEF Words, Kid
<1>2. Alive(f, s) /\ Says(f.read, s, m) /\ (LongWords = 1 => First(s, f.hdr[3]))
    BY DEF Living
<1>3. LongWords = 2 => low < WordBase
    OBVIOUS
<1> HIDE DEF low
<1>4. Swelled(f, s, k, V, low, InsertInto(f, k, v))
    BY <1>1, <1>2, <1>3, InsertAlive
<1>5. \A x : x \in V <=> x = v /\ v # 0
    BY <1>1
<1> HIDE DEF r, V
<1>6. Swelled(f, s, k, V, low, r)
    BY <1>4 DEF r
<1>7. PICK t : /\ Alive(r, t) /\ Target(f.read, s, k, V, r.read, t) /\ Heirs(s, t)
               /\ LongWords = 1 /\ First(s, f.hdr[3]) => First(t, r.hdr[3])
    BY <1>6 DEF Swelled
<1>8. Says(r.read, t, m2)
    BY <1>2, <1>5, <1>7, SaysTarget
<1> HIDE DEF m2
<1>9. Living(r, t, m2) /\ Heirs(s, t)
    BY <1>2, <1>7, <1>8 DEF Living
<1>10. Words(r) /\ r.hdr[1] = low
    BY <1>6 DEF Swelled
<1> QED BY <1>1, <1>9, <1>10 DEF r, m2

LEMMA InsertShows ==
    ASSUME NEW f, NEW m \in Maps, Shows(f, m), f.retired = {}, NEW k \in Key, NEW v \in Value, ~Rejects(f, k),
           LongWords = 2 => f.hdr[1] + 1 < WordBase
    PROVE  [m EXCEPT ![k] = v] \in Maps /\ Shows(InsertInto(f, k, v), [m EXCEPT ![k] = v])
<1> DEFINE m2 == [m EXCEPT ![k] = v]
           low == f.hdr[1] + 1
           r == InsertInto(f, k, v)
<1>1. Words(f) /\ IsFiniteSet(KeysIn(m)) /\ Cardinality(KeysIn(m)) <= f.hdr[1]
    BY DEF Shows
<1>2. f.hdr[1] \in Nat /\ low \in Nat /\ v \in Kid /\ v # 0
    BY <1>1, BTreeAssumption DEF Words, Kid
<1>3. m2 \in Maps /\ IsFiniteSet(KeysIn(m2)) /\ Cardinality(KeysIn(m2)) <= low
    <2> DEFINE n == f.hdr[1]
    <2>1. n \in Nat /\ Cardinality(KeysIn(m)) <= n /\ low = n + 1
        BY <1>1, <1>2
    <2> HIDE DEF n
    <2> QED BY <2>1, <1>1, KeysMore
<1>4. LongWords = 2 => low < WordBase
    OBVIOUS
<1>5. ASSUME Empty(f), KeysIn(m) = {}
      PROVE  Words(r) /\ r.hdr[1] = low /\ \E t : Living(r, t, m2)
    <2>1. low = f.hdr[1] + 1
        OBVIOUS
    <2> HIDE DEF low
    <2>2. Began(k, v, low, r)
        BY <2>1, <1>1, <1>2, <1>4, <1>5, InsertEmpty
    <2> HIDE DEF r
    <2>3. PICK t : /\ Alive(r, t) /\ (\A j, x : Entry(r.read, t, j, x) <=> j = k /\ x = v)
                   /\ LongWords = 1 => First(t, r.hdr[3])
        BY <2>2 DEF Began
    <2>4. \A j \in Key : m2[j] = IF j = k THEN v ELSE 0
        BY <1>5 DEF Maps, KeysIn
    <2> HIDE DEF m2
    <2>5. Says(r.read, t, m2)
        BY <2>3, <2>4, <1>2 DEF Says
    <2> QED BY <2>2, <2>3, <2>5 DEF Living, Began
<1>6. ASSUME NEW s, Living(f, s, m)
      PROVE  Words(r) /\ r.hdr[1] = low /\ \E t : Living(r, t, m2)
    BY <1>1, <1>6, InsertLives
<1>7. Words(r) /\ r.hdr[1] = low /\ \E t : Living(r, t, m2)
    BY <1>5, <1>6 DEF Shows
<1> HIDE DEF r, m2, low
<1>8. Shows(r, m2)
    BY <1>3, <1>7 DEF Shows
<1> QED BY <1>3, <1>8 DEF r, m2

-----------------------------------------------------------------------------
(* A deletion's way up.  Node number n from below may have a key too few,   *)
(* and has none too few when the last step was no merge.                    *)
IsDel(e) == DOMAIN e = {"file", "merged"} /\ e = [x \in DOMAIN e |-> e[x]]
Falls(g, s, k, V, o, n, e, t) ==
    /\ Stored(e.file, t, {}, {o}) /\ (n # 0 => e.merged \/ Stored(e.file, t, {}, {}))
    /\ e.file.hdr = g.hdr /\ t.root = s.root /\ FirstKept(s, t)
    /\ Target(g.read, s, k, V, e.file.read, t) /\ Untouched(g.read, s, e.file.read, t, n)
FallsAt(g, s, k, V, path, n, e) == \E t : Falls(g, s, k, V, path[Len(path) - n].at, n, e, t)

LEMMA RebalanceRecord ==
    ASSUME NEW del, IsDel(del), NEW o, NEW p, NEW c, NEW text
    PROVE  IsDel(Rebalance(del, o, p, c, text))
<1> DEFINE f == del.file
           node == f.read[o]
           prev == f.read[p]
           Sib(d) == f.read[prev.kids[d]]
           Lends(d) == d \in 1 .. Len(prev.kids) /\ Len(Sib(d).keys) > MinKeys(Sib(d))
           bR == Borrow(f, o, p, prev.kids[c + 1],
                        IF node.leaf THEN BorrowRightLeaf(node, prev, Sib(c + 1), c, text)
                                     ELSE BorrowRightInt(node, prev, Sib(c + 1), c, text))
           bL == Borrow(f, o, p, prev.kids[c - 1],
                        IF node.leaf THEN BorrowLeftLeaf(node, prev, Sib(c - 1), c)
                                     ELSE BorrowLeftInt(node, prev, Sib(c - 1), c))
           m  == IF c > 1 THEN MergeLeft(f, o, p, c, prev.kids[c - 1])
                 ELSE MergeRight(f, o, p, c, prev.kids[c + 1], text)
           e == Rebalance(del, o, p, c, text)
<1>1. e = IF Len(node.keys) >= MinKeys(node) THEN del
          ELSE IF Lends(c + 1) THEN [file |-> bR, merged |-> FALSE]
          ELSE IF Lends(c - 1) THEN [file |-> bL, merged |-> FALSE] ELSE [file |-> m, merged |-> TRUE]
    BY DEF Rebalance
<1> HIDE DEF e, bR, bL, m, Lends, node
<1>2. \/ e = del \/ e = [file |-> bR, merged |-> FALSE]
      \/ e = [file |-> bL, merged |-> FALSE] \/ e = [file |-> m, merged |-> TRUE]
    BY <1>1
<1>3. IsDel(e)
    BY <1>2 DEF IsDel
<1> QED BY <1>3 DEF e

LEMMA FallStep ==
    ASSUME NEW g, NEW s, IsTree(g.read, s, {}, {}), NEW k, NEW V, NEW path, Road(g.read, s, k, path),
           NEW text, Identity(text), NEW n \in Nat, n + 1 < Len(path),
           NEW e, IsDel(e), FallsAt(g, s, k, V, path, n, e),
           NEW o, o = path[Len(path) - n].at, NEW above, above = path[Len(path) - (n + 1)],
           NEW e2, e2 = Rebalance(e, o, above.at, above.child, text)
    PROVE  IsDel(e2) /\ FallsAt(g, s, k, V, path, n + 1, e2)
<1> DEFINE H == Len(path)
           i == H - (n + 1)
           p == above.at
           c == above.child
           f == e.file
<1>1. H \in Nat
    BY SMTT(30) DEF Road
<1>2. i \in 1 .. H /\ i \in 1 .. H - 1 /\ i + 1 = H - n /\ H - i = n + 1 /\ above = path[i]
    BY <1>1
<1> HIDE DEF i
<1>3. /\ p \in s.nodes /\ s.lev[p] = n + 1
      /\ c \in 1 .. Len(g.read[p].kids) /\ g.read[p].kids[c] = o
    BY <1>2 DEF Road
<1> HIDE DEF p, c
<1>4. PICK t : Falls(g, s, k, V, o, n, e, t)
    BY DEF FallsAt
<1>5. /\ Stored(f, t, {}, {o}) /\ f.hdr = g.hdr /\ t.root = s.root /\ FirstKept(s, t)
      /\ Target(g.read, s, k, V, f.read, t) /\ Untouched(g.read, s, f.read, t, n)
    BY <1>4 DEF Falls
<1>6. p \in t.nodes /\ t.lev[p] = n + 1 /\ t.lev[p] # 0 /\ f.read[p] = g.read[p]
    <2>1. s.lev[p] >= n /\ s.lev[p] > n /\ n + 1 # 0
        BY <1>3
    <2> QED BY <2>1, <1>3, <1>5 DEF Untouched
<1>7. e2 = Rebalance(e, o, p, c, text)
    BY DEF p, c
<1>8. PICK t2 : Passed(f, t, e2, t2, p)
    <2>1. c \in 1 .. Len(f.read[p].kids) /\ f.read[p].kids[c] = o
        BY <1>3, <1>6
    <2>2. \E t2 : Passed(f, t, Rebalance(e, o, p, c, text), t2, p)
        BY <2>1, <1>5, <1>6, RebalanceStep
    <2> QED BY <2>2, <1>7
<1> HIDE DEF f
<1>9. /\ Stored(e2.file, t2, {}, {p}) /\ (e2.merged \/ Stored(e2.file, t2, {}, {}))
      /\ e2.file.hdr = f.hdr /\ t2.root = t.root
      /\ SameEntries(f.read, t, e2.file.read, t2) /\ FirstKept(t, t2)
      /\ Untouched(f.read, t, e2.file.read, t2, n + 1)
    BY <1>6, <1>8 DEF Passed
<1>10. Target(g.read, s, k, V, e2.file.read, t2)
    BY <1>5, <1>9, TargetMore
<1>11. FirstKept(s, t2)
    BY <1>5, <1>9 DEF FirstKept
<1>12. Untouched(g.read, s, e2.file.read, t2, n + 1)
    <2> SUFFICES ASSUME NEW x \in s.nodes, s.lev[x] >= n + 1
                 PROVE  /\ x \in t2.nodes /\ t2.lev[x] = s.lev[x]
                        /\ s.lev[x] > n + 1 => e2.file.read[x] = g.read[x]
        BY DEF Untouched
    <2>1. s.lev[x] \in Nat
        BY DEF IsTree, Placed
    <2>2. s.lev[x] >= n /\ s.lev[x] > n
        BY <2>1
    <2>3. x \in t.nodes /\ t.lev[x] = s.lev[x] /\ f.read[x] = g.read[x]
        BY <2>2, <1>5 DEF Untouched
    <2> QED BY <2>3, <1>9 DEF Untouched
<1>13. Falls(g, s, k, V, p, n + 1, e2, t2)
    BY <1>5, <1>9, <1>10, <1>11, <1>12 DEF Falls
<1>14. FallsAt(g, s, k, V, path, n + 1, e2)
    BY <1>13 DEF FallsAt, p
<1>15. IsDel(e2)
    BY <1>7, RebalanceRecord
<1> QED BY <1>14, <1>15

RebalanceUp(up, first, path, text, m) ==
    /\ up[0] = first
    /\ \A n \in 1 .. m : up[n] = Rebalance(up[n - 1], path[Len(path) + 1 - n].at,
                                           path[Len(path) - n].at, path[Len(path) - n].child, text)

LEMMA RebalanceExists ==
    ASSUME NEW first, NEW path, NEW text, NEW m \in Nat
    PROVE  \E up : RebalanceUp(up, first, path, text, m)
<1> DEFINE A == {j \in Nat : ~ \E up : RebalanceUp(up, first, path, text, j)}
           Next1(u, n) == Rebalance(u, path[Len(path) + 1 - n].at,
                                    path[Len(path) - n].at, path[Len(path) - n].child, text)
<1>1. ASSUME A # {} PROVE FALSE
    <2>1. PICK j \in A : \A i \in A : j <= i
        <3> HIDE DEF A
        <3>1. A \subseteq Nat
            BY DEF A
        <3> QED BY <1>1, <3>1, LeastIn
    <2>2. j # 0
        <3>1. RebalanceUp([n \in 0 .. 0 |-> first], first, path, text, 0)
            BY DEF RebalanceUp
        <3> QED BY <3>1
    <2>3. j - 1 \in Nat /\ j - 1 \notin A /\ j \in Nat
        BY <2>1, <2>2
    <2>4. PICK u : RebalanceUp(u, first, path, text, j - 1)
        BY <2>3
    <2> DEFINE top == Next1(u[j - 1], j)
               h == [n \in 0 .. j |-> IF n = j THEN top ELSE u[n]]
    <2>5. h[j] = top /\ \A n \in 0 .. j - 1 : h[n] = u[n]
        <3> HIDE DEF top
        <3> QED BY <2>3
    <2>6. h[0] = first
        BY <2>2, <2>3, <2>4, <2>5 DEF RebalanceUp
    <2>7. h[j - 1] = u[j - 1]
        BY <2>3, <2>5
    <2> HIDE DEF h
    <2>8. h[j] = Next1(h[j - 1], j)
        BY <2>5, <2>7
    <2>9. ASSUME NEW n \in 1 .. j - 1 PROVE h[n] = Next1(h[n - 1], n)
        <3>1. n \in 0 .. j - 1 /\ n - 1 \in 0 .. j - 1
            BY <2>3
        <3>2. h[n] = u[n] /\ h[n - 1] = u[n - 1]
            BY <3>1, <2>5
        <3>3. u[n] = Next1(u[n - 1], n)
            BY <2>4 DEF RebalanceUp
        <3> QED BY <3>2, <3>3
    <2>10. \A n \in 1 .. j : n = j \/ n \in 1 .. j - 1
        BY <2>3
    <2>11. RebalanceUp(h, first, path, text, j)
        BY <2>6, <2>8, <2>9, <2>10 DEF RebalanceUp
    <2> QED BY <2>1, <2>11
<1> QED BY <1>1

LEMMA RebalancedIs ==
    ASSUME NEW g, NEW s, IsTree(g.read, s, {}, {}), NEW k, NEW V, NEW path, Road(g.read, s, k, path),
           NEW text, Identity(text), NEW f, NEW first, first = [file |-> f, merged |-> FALSE],
           FallsAt(g, s, k, V, path, 0, first)
    PROVE  LET e == Rebalanced(f, path, text)
           IN  IsDel(e) /\ FallsAt(g, s, k, V, path, Len(path) - 1, e)
<1> DEFINE L == Len(path)
           H == L - 1
           After(u, n) == Rebalance(u, path[L + 1 - n].at, path[L - n].at, path[L - n].child, text)
           Body(u) == [n \in 0 .. H |->
                          IF n = 0 THEN [file |-> f, merged |-> FALSE]
                          ELSE LET above == path[L - n]
                               IN  Rebalance(u[n - 1], path[L + 1 - n].at, above.at, above.child, text)]
<1>1. L \in Nat /\ H \in Nat /\ L = H + 1
    BY DEF Road
<1> HIDE DEF L, H
<1>2. PICK u : RebalanceUp(u, first, path, text, H)
    BY <1>1, RebalanceExists
<1> DEFINE h == [n \in 0 .. H |-> u[n]]
<1>3. \A n \in 0 .. H : h[n] = u[n]
    OBVIOUS
<1>4. h = Body(h)
    <2>1. ASSUME NEW n \in 0 .. H
          PROVE  h[n] = IF n = 0 THEN first ELSE After(h[n - 1], n)
        <3> HIDE DEF h
        <3>1. CASE n = 0
            BY <3>1, <1>1, <1>2, <1>3 DEF RebalanceUp
        <3>2. CASE n # 0
            <4>1. n \in 1 .. H /\ n - 1 \in 0 .. H
                BY <3>2, <1>1
            <4>2. u[n] = After(u[n - 1], n)
                BY <4>1, <1>2 DEF RebalanceUp, L
            <4> QED BY <4>1, <4>2, <3>2, <1>3
        <3> QED BY <3>1, <3>2
    <2> QED BY <2>1, Zenon
<1>5. \E x : x = Body(x)
    <2> HIDE DEF h, Body
    <2> QED BY <1>4
<1> DEFINE up == CHOOSE x : x = Body(x)
<1>6. up = Body(up)
    <2> HIDE DEF Body
    <2> QED BY <1>5
<1>7. Rebalanced(f, path, text) = up[H]
    BY Zenon DEF Rebalanced, H, L
<1> HIDE DEF up
<1>8. \A n \in 0 .. H : up[n] = IF n = 0 THEN first ELSE After(up[n - 1], n)
    <2>1. \A n \in 0 .. H : Body(up)[n] = IF n = 0 THEN first ELSE After(up[n - 1], n)
        OBVIOUS
    <2> HIDE DEF Body
    <2> QED BY <2>1, <1>6
<1> DEFINE Good(n) == IsDel(up[n]) /\ FallsAt(g, s, k, V, path, n, up[n])
           A == {n \in Nat : n \in 0 .. H /\ ~Good(n)}
<1>9. ASSUME A # {} PROVE FALSE
    <2>1. PICK n \in A : \A i \in A : n <= i
        <3> HIDE DEF A
        <3>1. A \subseteq Nat
            BY DEF A
        <3> QED BY <1>9, <3>1, LeastIn
    <2>2. Good(0)
        <3>1. up[0] = first
            <4>1. 0 \in 0 .. H
                BY <1>1
            <4> QED BY <4>1, <1>8, Zenon
        <3>2. IsDel(first)
            BY DEF IsDel
        <3> QED BY <3>1, <3>2
    <2>3. n # 0 /\ n \in 1 .. H
        BY <2>1, <2>2, <1>1
    <2> DEFINE m == n - 1
    <2>4. m \in Nat /\ m + 1 < L /\ m \in 0 .. H /\ m \notin A /\ m + 1 = n /\ L + 1 - n = L - m
        BY <2>1, <2>3, <1>1
    <2>5. Good(m)
        BY <2>4
    <2> DEFINE o == path[L - m].at
               above == path[L - (m + 1)]
               e2 == Rebalance(up[m], o, above.at, above.child, text)
    <2>6. up[n] = e2
        BY <2>3, <2>4, <1>8
    <2> HIDE DEF m
    <2>7. IsDel(e2) /\ FallsAt(g, s, k, V, path, m + 1, e2)
        <3>1. o = path[Len(path) - m].at /\ above = path[Len(path) - (m + 1)] /\ m + 1 < Len(path)
            BY <2>4 DEF L
        <3>2. e2 = Rebalance(up[m], o, above.at, above.child, text)
            OBVIOUS
        <3>3. m \in Nat /\ IsDel(up[m]) /\ FallsAt(g, s, k, V, path, m, up[m])
            BY <2>4, <2>5
        <3> HIDE DEF o, above, e2
        <3> QED BY <3>1, <3>2, <3>3, FallStep
    <2> HIDE DEF e2
    <2> QED BY <2>1, <2>4, <2>6, <2>7
<1>10. Good(H)
    BY <1>1, <1>9
<1> QED BY <1>7, <1>10 DEF H, L

(* At the leaf.                                                            *)
LEMMA FallBase ==
    ASSUME NEW g, NEW s, Kept(g, s.nodes), g.dirty = {}, IsTree(g.read, s, {}, {}), Root(g) = s.root,
           NEW k \in Key, NEW o, o = LeafFor(g, k), Holds(g.read[o], k),
           NEW cut, cut = SaveNode(g, o, RemoveKey(g.read[o], Pos(g.read[o].keys, k))),
           NEW first, first = [file |-> cut, merged |-> FALSE]
    PROVE  FallsAt(g, s, k, {}, Descend(g, k), 0, first)
<1> DEFINE path == Descend(g, k)
           H == Len(path)
           node == g.read[o]
           w == RemoveKey(node, Pos(node.keys, k))
<1>1. Road(g.read, s, k, path)
    BY DescendIs
<1>2. H \in Nat /\ H - 0 = H
    BY <1>1 DEF Road
<1>3. o \in s.nodes /\ s.lev[o] = 0 /\ k \in s.rng[o] /\ o = path[H].at
    BY LeafForIs
<1> HIDE DEF path
<1>5. Formed(node) /\ node.leaf /\ Sized(node, o, s.root, {}, {})
    BY <1>3 DEF IsTree, Local
<1>6. Turned(node, w, k, {}) /\ Len(w.keys) = Len(node.keys) - 1
    BY <1>5, LeafWithout
<1>7. Kept(cut, s.nodes) /\ SameRest(g, cut) /\ cut.dirty = {} /\ cut.read = [g.read EXCEPT ![o] = w]
    <2>1. cut = SaveNode(g, o, w)
        OBVIOUS
    <2> HIDE DEF w
    <2>2. LET z == SaveNode(g, o, w)
          IN  /\ Kept(z, s.nodes) /\ SameRest(g, z) /\ SameUnits(g, z)
              /\ z.dirty = g.dirty \ {o}
              /\ z.read = [g.read EXCEPT ![o] = w]
        BY <1>3, NodeSaved
    <2> QED BY <2>1, <2>2
<1>8. cut.read[o] = w /\ \A x \in s.nodes : x # o => cut.read[x] = g.read[x]
    <2>1. o \in DOMAIN g.read /\ g.read = [x \in DOMAIN g.read |-> g.read[x]] /\ s.nodes \subseteq DOMAIN g.read
        BY <1>3 DEF Kept, IsFile
    <2> QED BY <2>1, <1>7
<1> HIDE DEF w
<1>9. Sized(cut.read[o], o, s.root, {}, {o})
    <2>1. Len(node.keys) \in Nat /\ MinKeys(node) \in Nat /\ w.leaf = node.leaf
        BY <1>5, <1>6, Numbers DEF Turned
    <2>2. Len(node.keys) >= (IF o = s.root THEN 1 ELSE MinKeys(node)) /\ Len(node.keys) <= MaxKeys
        BY <1>5, <2>1 DEF Sized
    <2>3. MinKeys(w) = MinKeys(node)
        BY <2>1 DEF MinKeys
    <2> DEFINE a == Len(node.keys)
               b == Len(w.keys)
    <2>4. a \in Nat /\ b = a - 1
        BY <2>1, <1>6
    <2>5. b + 1 = a /\ b <= a
        <3> HIDE DEF a, b
        <3> QED BY <2>4
    <2>6. Len(w.keys) + 1 >= (IF o = s.root THEN 1 ELSE MinKeys(w)) /\ Len(w.keys) <= MaxKeys
        <3>1. a >= (IF o = s.root THEN 1 ELSE MinKeys(w)) /\ a <= MaxKeys
            BY <2>2, <2>3
        <3> HIDE DEF a, b
        <3>2. b + 1 >= (IF o = s.root THEN 1 ELSE MinKeys(w)) /\ b <= MaxKeys
            BY <3>1, <2>4, <2>5, Orders
        <3> QED BY <3>2 DEF b
    <2> QED BY <2>6, <1>8 DEF Sized
<1>10. /\ IsTree(cut.read, s, {}, {o})
       /\ \A j, x : Entry(cut.read, s, j, x) <=> IF j = k THEN x \in {} ELSE Entry(g.read, s, j, x)
    <2> DEFINE V == {}
               big == {}
               small == {o}
               G == g.read
               G2 == cut.read
    <2>1. Turned(G[o], G2[o], k, V) /\ Sized(G2[o], o, s.root, big, small)
        BY <1>6, <1>8, <1>9
    <2>2. IsTree(G, s, {}, {}) /\ \A x \in s.nodes : x # o => G2[x] = G[x]
        BY <1>8
    <2> HIDE DEF V, big, small, G, G2
    <2>3. /\ IsTree(G2, s, big, small)
          /\ \A j, x : Entry(G2, s, j, x) <=> IF j = k THEN x \in V ELSE Entry(G, s, j, x)
        BY <2>1, <2>2, <1>3, LeafTurned
    <2> QED BY <2>3 DEF V, big, small, G, G2
<1>11. Target(g.read, s, k, {}, cut.read, s)
    BY <1>10 DEF Target
<1>12. Untouched(g.read, s, cut.read, s, 0)
    <2>1. ASSUME NEW x \in s.nodes, s.lev[x] > 0 PROVE cut.read[x] = g.read[x]
        <3>1. x # o
            BY <2>1, <1>3
        <3> QED BY <3>1, <1>8
    <2> QED BY <2>1, Zenon DEF Untouched
<1>13. cut.hdr = g.hdr /\ FirstKept(s, s)
    BY <1>7 DEF SameRest, FirstKept
<1>14. first.file = cut
    OBVIOUS
<1>15. Stored(cut, s, {}, {o})
    BY <1>7, <1>10 DEF Stored
<1>16. Falls(g, s, k, {}, o, 0, first, s)
    BY <1>11, <1>12, <1>13, <1>14, <1>15 DEF Falls
<1>17. FallsAt(g, s, k, {}, path, 0, first)
    BY <1>2, <1>3, <1>16 DEF FallsAt
<1> QED BY <1>17 DEF path

(* The size is written and the root may have no key left.                   *)
Settles(g, s, k, V, F, t, low) ==
    /\ Kept(F, t.nodes) /\ F.dirty = {} /\ IsTree(F.read, t, {}, {t.root})
    /\ Words(F) /\ F.hdr[1] = low /\ Root(F) = t.root /\ F.hdr[3] = g.hdr[3]
    /\ FirstKept(s, t) /\ Target(g.read, s, k, V, F.read, t)
(* No key is left.                                                          *)
Gone(g, s, k, V, low, r) ==
    /\ Words(r) /\ r.hdr[1] = low /\ Empty(r)
    /\ \A j, x : ~(IF j = k THEN x \in V ELSE Entry(g.read, s, j, x))

LEMMA RootStays ==
    ASSUME NEW g, NEW s, NEW k, NEW V, NEW F, NEW t, NEW low, Settles(g, s, k, V, F, t, low),
           IsTree(F.read, t, {}, {})
    PROVE  Became(g, s, k, V, low, F)
<1>1. Alive(F, t)
    BY DEF Settles, Alive, Stored
<1>2. LongWords = 1 /\ First(s, g.hdr[3]) => First(t, F.hdr[3])
    BY DEF Settles, FirstKept
<1> QED BY <1>1, <1>2 DEF Settles, Became

LEMMA RootGone ==
    ASSUME NEW g, NEW s, NEW k, NEW V, NEW F, NEW t, NEW low, Settles(g, s, k, V, F, t, low),
           NEW u, u = t.root, F.read[u].leaf, F.read[u].keys = <<>>
    PROVE  Gone(g, s, k, V, low, EraseNode(SetField(F, ROOT, 0), u))
<1> DEFINE a == SetField(F, ROOT, 0)
           r == EraseNode(a, u)
<1>1. /\ Kept(F, t.nodes) /\ F.dirty = {} /\ IsTree(F.read, t, {}, {t.root})
      /\ Words(F) /\ F.hdr[1] = low /\ Target(g.read, s, k, V, F.read, t)
    BY DEF Settles
<1>2. /\ u \in t.nodes /\ t.rng[u] = Key /\ Local(F.read, t, u) /\ Apart(t)
      /\ \A o \in t.nodes : t.lev[o] \in Nat /\ t.lev[o] <= t.lev[u] /\ Reaches(t.rng[o])
    BY <1>1 DEF IsTree, Placed
<1>3. t.lev[u] = 0
    BY <1>2 DEF Local
<1>4. t.nodes = {u}
    <2> SUFFICES ASSUME NEW o \in t.nodes, o # u PROVE FALSE
        BY <1>2
    <2>1. t.lev[o] = t.lev[u]
        BY <1>2, <1>3
    <2>2. t.rng[o] \cap t.rng[u] = {}
        BY <2>1, <1>2 DEF Apart
    <2> QED BY <2>2, <1>2 DEF Reaches
<1>5. /\ Kept(a, t.nodes) /\ SameNodes(F, a) /\ Words(a) /\ a.hdr[1] = F.hdr[1] /\ Root(a) = 0
    BY <1>1, RootWritten
<1> HIDE DEF a
<1>6. u \notin a.dirty /\ a.dirty = {}
    BY <1>1, <1>5 DEF SameNodes
<1>7. Kept(r, t.nodes \ {u}) /\ r.hdr = a.hdr /\ r.dirty = a.dirty
    BY ZenonT(40), <1>2, <1>5, <1>6, NodeErased
<1> HIDE DEF r
<1>8. Kept(r, {})
    BY <1>4, <1>7
<1>9. Words(r) /\ r.hdr[1] = low /\ Root(r) = 0
    BY <1>1, <1>5, <1>7, SameSize
<1>10. ASSUME NEW j, NEW x PROVE ~Entry(F.read, t, j, x)
    <2>1. Len(F.read[u].keys) = 0
        OBVIOUS
    <2> QED BY <2>1, <1>4 DEF Entry, Keeps
<1>11. \A j, x : ~(IF j = k THEN x \in V ELSE Entry(g.read, s, j, x))
    BY <1>1, <1>10 DEF Target
<1> QED BY <1>6, <1>7, <1>8, <1>9, <1>11 DEF Gone, Empty, r, a

LEMMA LowerFirst ==
    ASSUME NEW t, t.lev[t.root] # 0, NEW o
    PROVE  FirstKept(t, LowerGhost(t, o))
<1> DEFINE t2 == LowerGhost(t, o)
<1>1. \A x \in t.nodes : x # t.root => x \in t2.nodes /\ t2.lev[x] = t.lev[x] /\ t2.rng[x] = t.rng[x]
    BY DEF LowerGhost
<1> HIDE DEF t2
<1>2. FirstKept(t, t2)
    BY <1>1 DEF FirstKept, First
<1> QED BY <1>2 DEF t2

(* The root has one child left.                                             *)
Lone(node, o) == ~node.leaf /\ Len(node.keys) = 0 /\ node.kids[1] = o
LEMMA RootLowered ==
    ASSUME NEW g, NEW s, NEW k, NEW V, NEW F, NEW t, NEW low, Settles(g, s, k, V, F, t, low),
           NEW u, IsTop(t, u), NEW o, Lone(F.read[u], o)
    PROVE  LET a == SetField(F, ROOT, o)
           IN  Root(a) = o /\ Became(g, s, k, V, low, EraseNode(SaveNode(a, o, a.read[o]), u))
<1> DEFINE a == SetField(F, ROOT, o)
           b == SaveNode(a, o, a.read[o])
           r == EraseNode(b, u)
           t2 == LowerGhost(t, o)
<1>0. t.root = u
    BY DEF IsTop
<1>1. /\ Kept(F, t.nodes) /\ F.dirty = {} /\ IsTree(F.read, t, {}, {u})
      /\ Words(F) /\ F.hdr[1] = low /\ Target(g.read, s, k, V, F.read, t) /\ FirstKept(s, t)
      /\ F.hdr[3] = g.hdr[3]
    BY <1>0 DEF Settles
<1>2. u \in t.nodes /\ Local(F.read, t, u) /\ t.nodes \subseteq Nat \ {0}
    BY <1>0, <1>1 DEF IsTree, Placed
<1>3. t.lev[u] # 0 /\ Len(F.read[u].keys) = 0 /\ F.read[u].kids[1] = o
    BY <1>2 DEF Local, Lone
<1>4. \A G2 : (\A x \in t.nodes : x # u => G2[x] = F.read[x]) =>
         /\ o \in t.nodes /\ o # u
         /\ IsTree(G2, LowerGhost(t, o), {}, {}) /\ SameEntries(F.read, t, G2, LowerGhost(t, o))
    <2> DEFINE G == F.read
    <2>1. IsTree(G, t, {}, {u}) /\ Len(G[u].keys) = 0 /\ o = G[u].kids[1]
        BY <1>1, <1>3
    <2> HIDE DEF G
    <2>2. \A G2 : (\A x \in t.nodes : x # u => G2[x] = G[x]) =>
             /\ o \in t.nodes /\ o # u
             /\ IsTree(G2, LowerGhost(t, o), {}, {}) /\ SameEntries(G, t, G2, LowerGhost(t, o))
        BY <2>1, <1>0, <1>3, Lowered
    <2> QED BY <2>2 DEF G
<1>5. o \in t.nodes /\ o # u /\ o \in Nat
    <2>1. o \in t.nodes /\ o # u
        BY <1>4
    <2> QED BY <2>1, <1>2
<1>6. /\ Kept(a, t.nodes) /\ SameNodes(F, a) /\ Words(a) /\ a.hdr[1] = F.hdr[1] /\ Root(a) = o
      /\ LongWords = 1 => a.hdr[3] = F.hdr[3]
    <2>1. LET z == SetField(F, ROOT, o)
          IN  /\ Kept(z, t.nodes) /\ SameNodes(F, z) /\ Words(z)
              /\ z.hdr[1] = F.hdr[1] /\ Root(z) = o /\ (LongWords = 1 => z.hdr[3] = F.hdr[3])
        BY <1>1, <1>5, RootWritten
    <2> QED BY <2>1
<1> HIDE DEF a
<1>7. a.read = F.read /\ a.dirty = {}
    BY <1>1, <1>6 DEF SameNodes
<1> HIDE DEF t2
<1>8. /\ Kept(b, t.nodes) /\ SameRest(a, b) /\ b.dirty = {} /\ b.read = [a.read EXCEPT ![o] = a.read[o]]
    <2> DEFINE node == a.read[o]
    <2> HIDE DEF node
    <2>1. LET z == SaveNode(a, o, node)
          IN  /\ Kept(z, t.nodes) /\ SameRest(a, z) /\ SameUnits(a, z)
              /\ z.dirty = a.dirty \ {o}
              /\ z.read = [a.read EXCEPT ![o] = node]
        BY <1>5, <1>6, NodeSaved
    <2>2. b = SaveNode(a, o, node)
        BY DEF node
    <2> HIDE DEF b
    <2> QED BY <2>1, <2>2, <1>7 DEF node
<1> HIDE DEF b
<1>9. /\ Kept(r, t.nodes \ {u}) /\ r.hdr = b.hdr /\ r.dirty = b.dirty /\ r.read = b.read
    <2>1. u \notin b.dirty
        BY <1>8
    <2>2. LET z == EraseNode(b, u)
          IN  /\ Kept(z, t.nodes \ {u}) /\ z.hdr = b.hdr /\ z.dirty = b.dirty /\ z.read = b.read
        BY <2>1, <1>2, <1>8, NodeErased
    <2> QED BY <2>2
<1> HIDE DEF r
<1>10. \A x \in t.nodes : x # u => r.read[x] = F.read[x]
    <2>1. t.nodes \subseteq DOMAIN a.read /\ a.read = [x \in DOMAIN a.read |-> a.read[x]]
        BY <1>6 DEF Kept, IsFile
    <2> QED BY <2>1, <1>7, <1>8, <1>9
<1>11. IsTree(r.read, t2, {}, {}) /\ SameEntries(F.read, t, r.read, t2)
    BY <1>4, <1>10 DEF t2
<1>12. t2.nodes = t.nodes \ {u} /\ t2.root = o
    BY <1>0 DEF t2, LowerGhost
<1>13. Root(r) = o /\ Words(r) /\ r.hdr[1] = low /\ (LongWords = 1 => r.hdr[3] = g.hdr[3])
    <2>1. r.hdr = a.hdr
        BY <1>8, <1>9 DEF SameRest
    <2>2. Root(r) = Root(a) /\ Words(r)
        BY <2>1, <1>6, SameSize
    <2> QED BY <2>1, <2>2, <1>1, <1>6
<1>14. Alive(r, t2)
    BY <1>8, <1>9, <1>11, <1>12, <1>13 DEF Alive, Stored
<1>15. Target(g.read, s, k, V, r.read, t2)
    BY <1>1, <1>11, TargetMore
<1>16. LongWords = 1 /\ First(s, g.hdr[3]) => First(t2, r.hdr[3])
    <2>1. FirstKept(t, t2)
        BY <1>0, <1>3, LowerFirst DEF t2
    <2> QED BY <2>1, <1>1, <1>13 DEF FirstKept
<1>17. Became(g, s, k, V, low, r)
    BY <1>13, <1>14, <1>15, <1>16 DEF Became
<1> QED BY <1>6, <1>17 DEF r, b, a

(* The size is one less.                                                    *)
IsHeight(s, o, n) == o \in s.nodes /\ s.lev[o] = n /\ n \in Nat
Lowers(g, low) == low = g.hdr[1] - 1
LEMMA DeleteSettles ==
    ASSUME NEW g, NEW s, NEW k, NEW V, NEW o, NEW n, NEW del, NEW t, Falls(g, s, k, V, o, n, del, t),
           Words(g), Root(g) = s.root, IsTop(s, o), IsHeight(s, o, n), NEW low \in Nat, Lowers(g, low)
    PROVE  LET F == SetField(del.file, SIZE, Size(g) - 1)
           IN  /\ Settles(g, s, k, V, F, t, low) /\ IsTop(t, o)
               /\ n # 0 => del.merged \/ IsTree(F.read, t, {}, {})
               /\ F.read[o].leaf <=> n = 0
<1> DEFINE e == del.file
           x == Size(g) - 1
           F == SetField(e, SIZE, x)
<1>0. s.lev[o] = n /\ n \in Nat /\ o \in s.nodes /\ low = g.hdr[1] - 1
    BY DEF IsHeight, Lowers
<1>1. /\ Kept(e, t.nodes) /\ e.dirty = {} /\ IsTree(e.read, t, {}, {o}) /\ (n # 0 => del.merged \/ IsTree(e.read, t, {}, {}))
      /\ e.hdr = g.hdr /\ t.root = s.root /\ FirstKept(s, t)
      /\ Target(g.read, s, k, V, e.read, t) /\ Untouched(g.read, s, e.read, t, n)
    BY DEF Falls, Stored
<1>2. t.root = o /\ IsTop(t, o)
    BY <1>1 DEF IsTop
<1> HIDE DEF e
<1>3. Size(e) = Size(g) /\ Root(e) = Root(g) /\ Words(e)
    BY <1>1, SameSize
<1>4. x = Size(e) + (low - e.hdr[1])
    <2>1. g.hdr[1] \in Nat
        BY DEF Words
    <2>2. low - e.hdr[1] = -1
        BY <2>1, <1>0, <1>1
    <2>3. Size(g) \in Int
        <3>1. g.hdr[1] \in Nat /\ g.hdr[1 + 1] \in Nat /\ WordBase \in Nat
            BY BTreeAssumption DEF Words
        <3> QED BY <3>1 DEF Size, GetField, SIZE
    <2> QED BY <2>2, <2>3, <1>3
<1>5. LongWords = 2 => low < WordBase
    <2>1. g.hdr[1] \in Nat /\ WordBase \in Nat /\ (LongWords = 2 => g.hdr[1] < WordBase)
        BY BTreeAssumption DEF Words
    <2> QED BY <2>1, <1>0
<1> HIDE DEF x
<1>6. /\ Kept(F, t.nodes) /\ SameNodes(e, F) /\ Words(F)
      /\ F.hdr[1] = low /\ Root(F) = Root(e) /\ F.hdr[3] = e.hdr[3]
    <2>1. LET z == SetField(e, SIZE, x)
          IN  /\ Kept(z, t.nodes) /\ SameNodes(e, z) /\ Words(z)
              /\ z.hdr[1] = low /\ Root(z) = Root(e) /\ z.hdr[3] = e.hdr[3]
        BY <1>1, <1>3, <1>4, <1>5, SizeWritten
    <2> QED BY <2>1
<1> HIDE DEF F
<1>7. F.read = e.read /\ F.dirty = {}
    BY <1>1, <1>6 DEF SameNodes
<1>8. Settles(g, s, k, V, F, t, low)
    BY <1>1, <1>2, <1>3, <1>6, <1>7 DEF Settles
<1>9. F.read[o].leaf <=> n = 0
    <2>1. o \in t.nodes /\ t.lev[o] = n
        BY <1>0, <1>1 DEF Untouched
    <2> QED BY <2>1, <1>1, <1>7 DEF IsTree, Local
<1> QED BY <1>1, <1>2, <1>7, <1>8, <1>9 DEF F, x, e

LEMMA RootLow ==
    ASSUME NEW g, NEW s, NEW k, NEW V, NEW t, NEW low, NEW u, IsTop(t, u), NEW del,
           Settles(g, s, k, V, del.file, t, low), NEW n,
           n # 0 => del.merged \/ IsTree(del.file.read, t, {}, {}), del.file.read[u].leaf <=> n = 0
    PROVE  Became(g, s, k, V, low, LowerRoot(del)) \/ Gone(g, s, k, V, low, LowerRoot(del))
<1> DEFINE F == del.file
           node == F.read[u]
           o == node.kids[1]
           r == LowerRoot(del)
<1>1. t.root = u /\ Root(F) = u /\ IsTree(F.read, t, {}, {u}) /\ u \in t.nodes
    BY DEF IsTop, Settles, IsTree, Placed
<1>2. Formed(node)
    BY <1>1 DEF IsTree, Local
<1>3. CASE node.leaf /\ node.keys = <<>>
    <2>1. r = EraseNode(SetField(F, ROOT, 0), u)
        BY <1>1, <1>3 DEF LowerRoot
    <2> HIDE DEF F, r
    <2>2. Gone(g, s, k, V, low, EraseNode(SetField(F, ROOT, 0), u))
        BY <1>1, <1>3, RootGone DEF F
    <2> QED BY <2>1, <2>2 DEF r
<1>4. CASE ~node.leaf /\ node.keys = <<>> /\ del.merged
    <2> DEFINE a == SetField(F, ROOT, o)
    <2>1. Lone(F.read[u], o)
        BY <1>4 DEF Lone
    <2>2. r = EraseNode(SaveNode(a, Root(a), a.read[Root(a)]), u)
        BY <1>1, <1>4 DEF LowerRoot
    <2>3. Settles(g, s, k, V, F, t, low)
        OBVIOUS
    <2> HIDE DEF F, r, o, node
    <2>4. LET z == SetField(F, ROOT, o)
          IN  Root(z) = o /\ Became(g, s, k, V, low, EraseNode(SaveNode(z, o, z.read[o]), u))
        BY <2>1, <2>3, RootLowered
    <2> QED BY <2>2, <2>4 DEF r
<1>5. CASE ~(node.keys = <<>> /\ (node.leaf \/ del.merged))
    <2>1. r = F
        BY <1>1, <1>5 DEF LowerRoot
    <2>2. IsTree(F.read, t, {}, {})
        <3>1. CASE node.keys = <<>>
            BY <3>1, <1>5
        <3>2. CASE node.keys # <<>>
            <4>1. Len(node.keys) \in Nat /\ Len(node.keys) >= 1
                BY <3>2, <1>2 DEF Formed
            <4>2. \A x \in t.nodes : Sized(F.read[x], x, t.root, {}, {u}) => Sized(F.read[x], x, t.root, {}, {})
                <5>1. ASSUME NEW x \in t.nodes, Sized(F.read[x], x, t.root, {}, {u}), x # u
                      PROVE  Sized(F.read[x], x, t.root, {}, {})
                    BY <5>1 DEF Sized
                <5>2. Sized(F.read[u], u, t.root, {}, {u}) => Sized(F.read[u], u, t.root, {}, {})
                    <6> HIDE DEF F
                    <6>1. t.root = u /\ Len(F.read[u].keys) \in Nat /\ Len(F.read[u].keys) >= 1
                        BY <1>1, <4>1
                    <6> QED BY <6>1 DEF Sized
                <5> HIDE DEF F
                <5> QED BY <5>1, <5>2
            <4> HIDE DEF F
            <4> QED BY <4>2, <1>1, Resized
        <3> QED BY <3>1, <3>2
    <2>3. Settles(g, s, k, V, F, t, low)
        OBVIOUS
    <2> HIDE DEF F, r
    <2>4. Became(g, s, k, V, low, F)
        BY <2>2, <2>3, RootStays
    <2> QED BY <2>1, <2>4 DEF r
<1> QED BY <1>3, <1>4, <1>5

LEMMA DeleteAlive ==
    ASSUME NEW f, NEW s, Alive(f, s), Words(f), NEW k \in Key, Holds(f.read[LeafFor(f, k)], k),
           NEW text, Identity(text), NEW low \in Nat, low = f.hdr[1] - 1
    PROVE  Became(f, s, k, {}, low, DeleteFrom(f, k, text)) \/ Gone(f, s, k, {}, low, DeleteFrom(f, k, text))
<1> DEFINE path == Descend(f, k)
           o == LeafFor(f, k)
           cut == SaveNode(f, o, RemoveKey(f.read[o], Pos(f.read[o].keys, k)))
           first == [file |-> cut, merged |-> FALSE]
           e == Rebalanced(cut, path, text)
           V == {}
           F == SetField(e.file, SIZE, Size(f) - 1)
           d == [e EXCEPT !.file = F]
           n == s.lev[s.root]
           u == s.root
<1>1. Kept(f, s.nodes) /\ f.dirty = {} /\ IsTree(f.read, s, {}, {}) /\ Root(f) = s.root
    BY AliveFacts
<1>2. Road(f.read, s, k, path)
    BY <1>1, DescendIs
<1>3. DeleteFrom(f, k, text) = LowerRoot([e EXCEPT !.file = SetField(@, SIZE, Size(f) - 1)])
    BY DEF DeleteFrom
<1>4. FallsAt(f, s, k, V, path, 0, first)
    <2>1. o = LeafFor(f, k) /\ Holds(f.read[o], k)
        OBVIOUS
    <2>2. cut = SaveNode(f, o, RemoveKey(f.read[o], Pos(f.read[o].keys, k)))
        OBVIOUS
    <2>3. first = [file |-> cut, merged |-> FALSE]
        OBVIOUS
    <2> HIDE DEF o, cut, first
    <2> QED BY <2>1, <2>2, <2>3, <1>1, FallBase
<1>5. IsDel(e) /\ FallsAt(f, s, k, V, path, Len(path) - 1, e)
    <2>3. first = [file |-> cut, merged |-> FALSE]
        OBVIOUS
    <2> HIDE DEF path, cut, first, V, e
    <2>4. LET z == Rebalanced(cut, path, text)
          IN  IsDel(z) /\ FallsAt(f, s, k, V, path, Len(path) - 1, z)
        BY <2>3, <1>1, <1>2, <1>4, RebalancedIs
    <2> QED BY <2>4 DEF e
<1>6. /\ n \in Nat /\ Len(path) - 1 = n /\ Len(path) - n = 1 /\ path[1].at = u /\ u \in s.nodes
    BY <1>1, <1>2 DEF Road, IsTree, Placed
<1> HIDE DEF n
<1>7. PICK t : Falls(f, s, k, V, u, n, e, t)
    BY <1>5, <1>6 DEF FallsAt
<1>8. d.file = F /\ d.merged = e.merged /\ DeleteFrom(f, k, text) = LowerRoot(d)
    <2> HIDE DEF e
    <2>1. d.file = F /\ d.merged = e.merged
        BY <1>5 DEF IsDel
    <2>2. d = [e EXCEPT !.file = SetField(@, SIZE, Size(f) - 1)]
        OBVIOUS
    <2> QED BY <2>1, <2>2, <1>3
<1>9. Root(f) = s.root /\ IsTop(s, u) /\ IsHeight(s, u, n) /\ Lowers(f, low)
    BY <1>1, <1>6 DEF IsTop, IsHeight, Lowers, n
<1> HIDE DEF e, path, V, u, cut, first, o
<1>10. /\ Settles(f, s, k, V, F, t, low) /\ IsTop(t, u)
       /\ n # 0 => e.merged \/ IsTree(F.read, t, {}, {})
       /\ F.read[u].leaf <=> n = 0
    <2>1. LET z == SetField(e.file, SIZE, Size(f) - 1)
          IN  /\ Settles(f, s, k, V, z, t, low) /\ IsTop(t, u)
              /\ n # 0 => e.merged \/ IsTree(z.read, t, {}, {})
              /\ z.read[u].leaf <=> n = 0
        BY <1>6, <1>7, <1>9, DeleteSettles
    <2> QED BY <2>1
<1> HIDE DEF F, d
<1>11. Became(f, s, k, V, low, LowerRoot(d)) \/ Gone(f, s, k, V, low, LowerRoot(d))
    <2>1. Settles(f, s, k, V, d.file, t, low) /\ (n # 0 => d.merged \/ IsTree(d.file.read, t, {}, {})) /\ (d.file.read[u].leaf <=> n = 0)
        BY <1>8, <1>10
    <2> QED BY <2>1, <1>10, RootLow
<1> QED BY <1>8, <1>11 DEF V

LEMMA DeleteShows ==
    ASSUME NEW f, NEW m \in Maps, Shows(f, m), NEW k \in Key, Root(f) # 0, Holds(f.read[LeafFor(f, k)], k),
           NEW text, Identity(text)
    PROVE  [m EXCEPT ![k] = 0] \in Maps /\ Shows(DeleteFrom(f, k, text), [m EXCEPT ![k] = 0])
<1> DEFINE m2 == [m EXCEPT ![k] = 0]
           n == f.hdr[1]
           low == n - 1
           r == DeleteFrom(f, k, text)
           V == {}
           zero == 0
<1>1. PICK s : Living(f, s, m)
    BY DEF Shows, Empty
<1>2. /\ Words(f) /\ n \in Nat /\ IsFiniteSet(KeysIn(m)) /\ Cardinality(KeysIn(m)) <= n
      /\ Alive(f, s) /\ Says(f.read, s, m) /\ (LongWords = 1 => First(s, f.hdr[3]))
    BY <1>1 DEF Shows, Words, Living
<1>3. m[k] # 0
    <2>1. Kept(f, s.nodes) /\ f.dirty = {} /\ IsTree(f.read, s, {}, {}) /\ Root(f) = s.root
        BY <1>2, AliveFacts
    <2> DEFINE leaf == f.read[LeafFor(f, k)]
               x == leaf.kids[Pos(leaf.keys, k)]
    <2>2. Entry(f.read, s, k, x)
        BY <2>1, FoundThere
    <2> HIDE DEF x
    <2> QED BY <2>2, <1>2 DEF Says
<1>4. m2 \in Maps /\ IsFiniteSet(KeysIn(m2)) /\ low \in Nat /\ Cardinality(KeysIn(m2)) <= low
    <2> HIDE DEF n
    <2> QED BY <1>2, <1>3, KeysLess
<1>5. Became(f, s, k, V, low, r) \/ Gone(f, s, k, V, low, r)
    <2>1. low = f.hdr[1] - 1
        OBVIOUS
    <2> HIDE DEF low, n
    <2>2. Became(f, s, k, {}, low, DeleteFrom(f, k, text)) \/ Gone(f, s, k, {}, low, DeleteFrom(f, k, text))
        BY <2>1, <1>2, <1>4, DeleteAlive
    <2> QED BY <2>2
<1>6. \A x : x \in V <=> x = zero /\ zero # 0
    OBVIOUS
<1> HIDE DEF r, V, low
<1>7. ASSUME Became(f, s, k, V, low, r) PROVE Shows(r, m2)
    <2>1. PICK t : /\ Alive(r, t) /\ Target(f.read, s, k, V, r.read, t)
                   /\ LongWords = 1 /\ First(s, f.hdr[3]) => First(t, r.hdr[3])
        BY <1>7 DEF Became
    <2>2. Says(r.read, t, m2)
        <3>1. m2 = [m EXCEPT ![k] = zero]
            OBVIOUS
        <3> HIDE DEF zero, m2
        <3> QED BY <3>1, <2>1, <1>2, <1>6, SaysTarget
    <2> HIDE DEF m2
    <2>3. Living(r, t, m2)
        BY <2>1, <2>2, <1>2 DEF Living
    <2> QED BY <2>3, <1>4, <1>7 DEF Shows, Became
<1>8. ASSUME Gone(f, s, k, V, low, r) PROVE Shows(r, m2)
    <2>1. Words(r) /\ r.hdr[1] = low /\ Empty(r) /\ \A j, x : ~(IF j = k THEN x \in V ELSE Entry(f.read, s, j, x))
        BY <1>8 DEF Gone
    <2>2. KeysIn(m2) = {}
        <3>1. ASSUME NEW j \in Key, m2[j] # 0 PROVE FALSE
            <4>1. j # k /\ m2[j] = m[j]
                BY <3>1 DEF Maps
            <4>2. Entry(f.read, s, j, m[j])
                BY <4>1, <3>1, <1>2 DEF Says
            <4> QED BY <4>1, <4>2, <2>1
        <3> HIDE DEF m2
        <3> QED BY <3>1 DEF KeysIn
    <2> HIDE DEF m2
    <2> QED BY <2>1, <2>2, <1>4 DEF Shows
<1> QED BY <1>4, <1>5, <1>7, <1>8 DEF r, m2

-----------------------------------------------------------------------------
(* Between the calls.                                                       *)

LEMMA SameTree ==
    ASSUME NEW G, NEW t, NEW big, NEW small, IsTree(G, t, big, small), NEW G2, \A o \in t.nodes : G2[o] = G[o]
    PROVE  IsTree(G2, t, big, small) /\ SameEntries(G, t, G2, t)
<1>1. \A o \in t.nodes : Local(G2, t, o)
    <2>1. ASSUME NEW o \in t.nodes PROVE Local(G2, t, o)
        <3>1. Local(G, t, o) /\ G2[o] = G[o]
            BY DEF IsTree
        <3> QED BY <3>1 DEF Local
    <2> QED BY <2>1
<1>2. Linked(G2, t)
    BY DEF IsTree, Linked
<1>3. SameEntries(G, t, G2, t)
    BY DEF SameEntries, Entry
<1> QED BY <1>1, <1>2, <1>3 DEF IsTree

LEMMA ShowsIs ==
    ASSUME NEW f, NEW m, Shows(f, m)
    PROVE  IsFile(f)
BY DEF Shows, Empty, Living, Alive, Stored, Kept

LEMMA DoneLives ==
    ASSUME NEW f, NEW t, NEW m, Living(f, t, m)
    PROVE  Living(Done(f), t, m) /\ Done(f).read = f.read
<1> DEFINE g == Done(f)
<1>1. IsFile(f)
    BY DEF Living, Alive, Stored, Kept
<1>2. /\ DOMAIN g = DOMAIN f /\ g.read = f.read /\ g.disk = f.disk /\ g.dirty = f.dirty
      /\ g.free = f.free /\ g.end = f.end /\ g.hdr = f.hdr
    BY <1>1 DEF Done, IsFile
<1> HIDE DEF g
<1>3. IsFile(g)
    BY <1>1, <1>2 DEF IsFile
<1>4. \A N : Kept(f, N) => Kept(g, N)
    BY <1>2, <1>3 DEF Kept
<1>5. Root(g) = Root(f)
    BY <1>2, SameSize
<1>6. Living(g, t, m)
    BY <1>2, <1>4, <1>5 DEF Living, Alive, Stored
<1> QED BY <1>2, <1>6 DEF g

LEMMA DoneShows ==
    ASSUME NEW f, NEW m, Shows(f, m)
    PROVE  Shows(Done(f), m)
<1> DEFINE g == Done(f)
<1>1. IsFile(f)
    BY ShowsIs
<1>2. /\ DOMAIN g = DOMAIN f /\ g.read = f.read /\ g.disk = f.disk /\ g.dirty = f.dirty
      /\ g.free = f.free /\ g.end = f.end /\ g.hdr = f.hdr
    BY <1>1 DEF Done, IsFile
<1> HIDE DEF g
<1>3. IsFile(g)
    BY <1>1, <1>2 DEF IsFile
<1>4. \A N : Kept(f, N) => Kept(g, N)
    BY <1>2, <1>3 DEF Kept
<1>5. Size(g) = Size(f) /\ Root(g) = Root(f) /\ (Words(f) => Words(g))
    BY <1>2, SameSize
<1>6. ASSUME NEW t, Living(f, t, m) PROVE Living(g, t, m)
    BY <1>6, DoneLives DEF g
<1>7. Empty(f) => Empty(g)
    BY <1>2, <1>4, <1>5 DEF Empty
<1>8. Shows(g, m)
    BY <1>2, <1>5, <1>6, <1>7 DEF Shows
<1> QED BY <1>8 DEF g

(* A file as it is found when it is opened.                                 *)
Reopened(f) == [f EXCEPT !.read = f.disk, !.dirty = {}, !.retired = {}]
LEMMA ReopenShows ==
    ASSUME NEW f, NEW m, Shows(f, m)
    PROVE  Shows(Reopened(f), m)
<1> DEFINE g == Reopened(f)
<1>1. IsFile(f)
    BY ShowsIs
<1>2. /\ DOMAIN g = DOMAIN f /\ g.read = f.disk /\ g.disk = f.disk /\ g.dirty = {}
      /\ g.free = f.free /\ g.end = f.end /\ g.hdr = f.hdr
    BY <1>1 DEF Reopened, IsFile
<1> HIDE DEF g
<1>3. IsFile(g)
    BY <1>1, <1>2 DEF IsFile
<1>4. ASSUME NEW N, Kept(f, N), f.dirty = {} PROVE Kept(g, N) /\ \A o \in N : g.read[o] = f.read[o]
    BY <1>2, <1>3, <1>4 DEF Kept
<1>5. Size(g) = Size(f) /\ Root(g) = Root(f) /\ (Words(f) => Words(g))
    BY <1>2, SameSize
<1>6. ASSUME NEW t, Living(f, t, m) PROVE Living(g, t, m)
    <2>1. /\ Kept(f, t.nodes) /\ f.dirty = {} /\ IsTree(f.read, t, {}, {}) /\ t.root = Root(f)
          /\ Says(f.read, t, m) /\ (LongWords = 1 => First(t, f.hdr[3]))
        BY <1>6 DEF Living, Alive, Stored
    <2>2. Kept(g, t.nodes) /\ \A o \in t.nodes : g.read[o] = f.read[o]
        BY <2>1, <1>4
    <2>3. IsTree(g.read, t, {}, {}) /\ SameEntries(f.read, t, g.read, t)
        <3> DEFINE G == f.read
                   G2 == g.read
                   none == {}
        <3>1. IsTree(G, t, none, none) /\ \A o \in t.nodes : G2[o] = G[o]
            BY <2>1, <2>2
        <3> HIDE DEF G, G2, none
        <3>2. IsTree(G2, t, none, none) /\ SameEntries(G, t, G2, t)
            BY <3>1, SameTree
        <3> QED BY <3>2 DEF G, G2, none
    <2>4. Says(g.read, t, m)
        BY <2>1, <2>3 DEF Says, SameEntries
    <2> QED BY <2>1, <2>2, <2>3, <2>4, <1>2, <1>5 DEF Living, Alive, Stored
<1>7. Empty(f) => Empty(g)
    BY <1>2, <1>4, <1>5 DEF Empty
<1>8. Shows(g, m)
    BY <1>2, <1>5, <1>6, <1>7 DEF Shows
<1> QED BY <1>8 DEF g

(* A search finds what the map says.                                        *)
LEMMA SearchShows ==
    ASSUME NEW f, NEW m \in Maps, Shows(f, m), NEW k \in Key
    PROVE  /\ Search(f, k) = m[k]
           /\ Root(f) # 0 => LET leaf == f.read[LeafFor(f, k)]
                             IN  /\ Holds(leaf, k) <=> m[k] # 0
                                 /\ Holds(leaf, k) => leaf.kids[Pos(leaf.keys, k)] = m[k]
<1> DEFINE leaf == f.read[LeafFor(f, k)]
           x == leaf.kids[Pos(leaf.keys, k)]
           n == f.hdr[1]
<1>1. n \in Nat /\ IsFiniteSet(KeysIn(m)) /\ Cardinality(KeysIn(m)) <= n
    BY DEF Shows, Words
<1>2. Size(f) = 0 => m[k] = 0
    <2> SUFFICES ASSUME Size(f) = 0, m[k] # 0 PROVE FALSE
        OBVIOUS
    <2>1. n = 0
        <3>1. n \in Nat /\ f.hdr[1 + 1] \in Nat /\ WordBase \in Nat
            BY BTreeAssumption DEF Shows, Words
        <3> DEFINE y == f.hdr[1 + 1]
        <3>2. Size(f) = n \/ Size(f) = n + WordBase * y
            BY DEF Size, GetField, SIZE
        <3> HIDE DEF n, y
        <3>3. WordBase * y \in Nat
            BY <3>1 DEF y
        <3> QED BY <3>1, <3>2, <3>3
    <2> DEFINE low == n - 1
    <2>2. low \in Nat
        <3> HIDE DEF n
        <3>1. m[k] # 0
            OBVIOUS
        <3> QED BY <3>1, <1>1, KeysLess
    <2> QED BY <2>1, <2>2
<1>3. CASE Root(f) = 0
    <2>1. ~ \E t : Living(f, t, m)
        BY <1>3 DEF Living, Alive, Stored, IsTree, Placed
    <2>2. KeysIn(m) = {}
        BY <2>1 DEF Shows
    <2> QED BY <2>2, <1>3 DEF Search, KeysIn
<1>4. CASE Root(f) # 0
    <2>1. PICK t : Living(f, t, m)
        BY <1>4 DEF Shows, Empty
    <2>2. Kept(f, t.nodes) /\ IsTree(f.read, t, {}, {}) /\ Root(f) = t.root /\ Says(f.read, t, m)
        BY <2>1 DEF Living, Alive, Stored
    <2>3. \A v : Entry(f.read, t, k, v) <=> Holds(leaf, k) /\ v = x
        BY <2>2, FoundThere
    <2>4. \A v : Entry(f.read, t, k, v) <=> v = m[k] /\ v # 0
        BY <2>2 DEF Says
    <2>5. Search(f, k) = IF Size(f) = 0 THEN 0 ELSE IF Holds(leaf, k) THEN x ELSE 0
        BY <1>4 DEF Search
    <2> HIDE DEF x, leaf
    <2>6. (Holds(leaf, k) <=> m[k] # 0) /\ (Holds(leaf, k) => x = m[k])
        BY <2>3, <2>4
    <2>7. Search(f, k) = m[k]
        BY <2>5, <2>6, <1>2
    <2> QED BY <2>6, <2>7 DEF x, leaf
<1> QED BY <1>3, <1>4

-----------------------------------------------------------------------------
(* The specification.                                                       *)

(* A client that reopens the file between a deletion that erased nodes and *)
(* the next insertion, freed keys whose text is still read as it was, and  *)
(* fewer keys than a word of the header counts: without the first two, TLC *)
(* finds the run BTreeStale and the note at btree_delete.c:298.            *)
Careful ==
    /\ ReopenFirst
    /\ FreedText = {}
    /\ LongWords = 2 => MaxSize \in Nat /\ MaxSize < WordBase

TreeInv == Careful /\ \E m \in Maps : Shows(file, m)

(* The file's own step, on the map as on the tree.                          *)
LEMMA InsertStep ==
    ASSUME Careful, NEW m \in Maps, Shows(file, m), NEW k \in Key, NEW v \in Value, Insert(k, v)
    PROVE  \/ /\ ~Rejects(file, k) /\ answer' = <<"insert", k, v, SUCCESS>>
              /\ [m EXCEPT ![k] = v] \in Maps /\ Shows(file', [m EXCEPT ![k] = v])
           \/ /\ Rejects(file, k) /\ answer' = <<"insert", k, v, DUPLICATE>>
              /\ m[k] # 0 /\ file' = file
<1>1. CASE Rejects(file, k)
    <2>1. Root(file) # 0 /\ Holds(file.read[LeafFor(file, k)], k)
        BY <1>1 DEF Rejects
    <2>2. m[k] # 0
        BY <2>1, SearchShows
    <2> QED BY <1>1, <2>2 DEF Insert
<1>2. CASE ~Rejects(file, k)
    <2>1. /\ Size(file) % WordBase < MaxSize /\ file.retired = {}
          /\ file' = Done(InsertInto(file, k, v)) /\ answer' = <<"insert", k, v, SUCCESS>>
        BY <1>2 DEF Insert, Careful
    <2>2. LongWords = 2 => file.hdr[1] + 1 < WordBase
        <3> SUFFICES ASSUME LongWords = 2 PROVE file.hdr[1] + 1 < WordBase
            OBVIOUS
        <3> DEFINE a == file.hdr[1]
                   b == file.hdr[1 + 1]
                   W == WordBase
        <3>1. a \in Nat /\ b \in Nat /\ W \in Nat \ {0} /\ a < W
            BY BTreeAssumption DEF Shows, Words
        <3>2. Size(file) = a + W * b
            BY DEF Size, GetField, SIZE
        <3> HIDE DEF a, b, W
        <3>3. (a + W * b) % W = a
            BY <3>1, TwoWords
        <3>4. a < MaxSize /\ MaxSize \in Nat /\ MaxSize < W
            BY <2>1, <3>2, <3>3 DEF Careful, W
        <3>5. a + 1 < W
            BY <3>1, <3>4
        <3> QED BY <3>5 DEF a, W
    <2>3. [m EXCEPT ![k] = v] \in Maps /\ Shows(InsertInto(file, k, v), [m EXCEPT ![k] = v])
        BY <1>2, <2>1, <2>2, InsertShows
    <2>4. Shows(Done(InsertInto(file, k, v)), [m EXCEPT ![k] = v])
        BY <2>3, DoneShows
    <2> QED BY <1>2, <2>1, <2>3, <2>4
<1> QED BY <1>1, <1>2

LEMMA DeleteStep ==
    ASSUME Careful, NEW m \in Maps, Shows(file, m), NEW k \in Key, Delete(k)
    PROVE  /\ answer' = <<"delete", k, m[k]>>
           /\ [m EXCEPT ![k] = 0] \in Maps /\ Shows(file', [m EXCEPT ![k] = 0])
<1> DEFINE leaf == file.read[LeafFor(file, k)]
<1>1. CASE Root(file) = 0 \/ ~Holds(leaf, k)
    <2>1. m[k] = 0
        <3>1. CASE Root(file) = 0
            BY <3>1, SearchShows DEF Search
        <3>2. CASE Root(file) # 0
            BY <3>2, <1>1, SearchShows
        <3> QED BY <3>1, <3>2
    <2>2. [m EXCEPT ![k] = 0] = m
        BY <2>1 DEF Maps
    <2>3. answer' = <<"delete", k, 0>> /\ file' = file
        BY <1>1 DEF Delete
    <2> QED BY <2>1, <2>2, <2>3
<1>2. CASE Root(file) # 0 /\ Holds(leaf, k)
    <2> DEFINE text == [key \in Key |-> key]
    <2>1. leaf.kids[Pos(leaf.keys, k)] = m[k]
        BY <1>2, SearchShows
    <2>2. answer' = <<"delete", k, leaf.kids[Pos(leaf.keys, k)]>> /\ file' = Done(DeleteFrom(file, k, text))
        <3>1. answer' = <<"delete", k, leaf.kids[Pos(leaf.keys, k)]>>
            BY <1>2 DEF Delete
        <3>2. {<<>>} \cup {<<x>> : x \in FreedText} = {<<>>}
            BY DEF Careful
        <3>3. \E t \in {<<>>} \cup {<<x>> : x \in FreedText} :
                 file' = Done(DeleteFrom(file, k, [key \in Key |-> IF t = <<>> THEN key ELSE t[1]]))
            BY <1>2 DEF Delete
        <3>4. file' = Done(DeleteFrom(file, k, [key \in Key |-> IF <<>> = <<>> THEN key ELSE <<>>[1]]))
            BY <3>2, <3>3, Zenon
        <3>5. [key \in Key |-> IF <<>> = <<>> THEN key ELSE <<>>[1]] = text
            OBVIOUS
        <3> QED BY <3>1, <3>4, <3>5, Zenon
    <2>3. Identity(text)
        BY DEF Identity
    <2> HIDE DEF text
    <2>4. [m EXCEPT ![k] = 0] \in Maps /\ Shows(DeleteFrom(file, k, text), [m EXCEPT ![k] = 0])
        BY <1>2, <2>3, DeleteShows
    <2>5. Shows(Done(DeleteFrom(file, k, text)), [m EXCEPT ![k] = 0])
        BY <2>4, DoneShows
    <2> QED BY <2>1, <2>2, <2>4, <2>5
<1> QED BY <1>1, <1>2

LEMMA InitShows ==
    ASSUME Init
    PROVE  [k \in Key |-> 0] \in Maps /\ Shows(file, [k \in Key |-> 0])
<1> DEFINE m == [k \in Key |-> 0]
<1>1. m \in Maps
    BY DEF Maps
<1>2. KeysIn(m) = {}
    BY DEF KeysIn
<1>3. Cardinality({}) = 0 /\ IsFiniteSet({})
    BY FS_EmptySet
<1>4. /\ DOMAIN file = {"read", "disk", "dirty", "retired", "free", "end", "hdr", "log", "aborted"}
      /\ file.read = [o \in {} |-> 0] /\ file.disk = [o \in {} |-> 0] /\ file.dirty = {}
      /\ file.free = {} /\ file.end = 1 /\ file.hdr = <<0, 0, 0, 0>>
    BY DEF Init
<1>5. file.hdr \in [1 .. 4 -> Nat] /\ file.hdr[1] = 0 /\ file.hdr[2] = 0 /\ file.hdr[3] = 0
    BY <1>4
<1>6. DOMAIN file.read = {} /\ DOMAIN file.disk = {}
    BY <1>4
<1>7. IsFile(file)
    BY <1>4, <1>6 DEF IsFile
<1>8. Kept(file, {})
    BY <1>3, <1>4, <1>6, <1>7 DEF Kept
<1>9. Root(file) = 0
    <2>1. WordBase \in Nat
        BY BTreeAssumption
    <2> QED BY <2>1, <1>5 DEF Root, GetField, ROOT
<1>10. Words(file)
    <2>1. WordBase \in Nat \ {0}
        BY BTreeAssumption
    <2> QED BY <2>1, <1>5 DEF Words
<1>11. Empty(file)
    BY <1>4, <1>8, <1>9 DEF Empty
<1> HIDE DEF m
<1>12. Cardinality(KeysIn(m)) <= file.hdr[1]
    BY <1>2, <1>3, <1>5
<1>13. Shows(file, m)
    BY <1>2, <1>3, <1>10, <1>11, <1>12 DEF Shows
<1> QED BY <1>1, <1>13 DEF m

LEMMA TreeStep ==
    ASSUME TreeInv, [Next]_vars
    PROVE  TreeInv'
<1>0. Careful /\ Careful'
    BY DEF TreeInv, Careful
<1>1. PICK m \in Maps : Shows(file, m)
    BY DEF TreeInv
<1>2. ASSUME NEW n \in Maps, Shows(file', n) PROVE TreeInv'
    BY <1>0, <1>2 DEF TreeInv
<1>3. ASSUME file' = file PROVE TreeInv'
    BY <1>1, <1>2, <1>3
<1>4. ASSUME NEW k \in Key, NEW v \in Value, Insert(k, v) PROVE TreeInv'
    BY <1>0, <1>1, <1>2, <1>3, <1>4, InsertStep
<1>5. ASSUME NEW k \in Key, Delete(k) PROVE TreeInv'
    BY <1>0, <1>1, <1>2, <1>5, DeleteStep
<1>6. ASSUME NEW k \in Key, Attempt(k) PROVE TreeInv'
    BY <1>3, <1>6 DEF Attempt
<1>7. ASSUME NEW n \in Mode, Reopen(n) PROVE TreeInv'
    <2>1. file' = Reopened(file)
        BY <1>7 DEF Reopen, Reopened
    <2> QED BY <2>1, <1>1, <1>2, ReopenShows
<1>8. CASE UNCHANGED vars
    BY <1>3, <1>8 DEF vars
<1> QED BY <1>4, <1>5, <1>6, <1>7, <1>8 DEF Next

LEMMA TreeAlways == Careful => (Spec => []TreeInv)
<1>1. Careful /\ Init => TreeInv
    BY InitShows DEF TreeInv
<1>2. TreeInv /\ [Next]_vars => TreeInv'
    BY TreeStep
<1> QED BY <1>1, <1>2, PTL DEF Spec

LEMMA TreeFacts ==
    ASSUME TreeInv
    PROVE  TreeThere(file)
BY DEF TreeInv, Shows, Living, TreeThere

(* Whatever inserts and deletes went before, no unit is lost and none has  *)
(* two uses, and no node has two places: __splitNode, __borrowLeft,        *)
(* __borrowRight, __mergeNode and the end of btreeDelete give back what    *)
(* they no longer use, and only that.                                      *)
THEOREM SpaceAccountedAlways == Careful => (Spec => []SpaceAccounted)
<1>1. TreeInv => SpaceAccounted
    BY TreeFacts, SpaceFact
<1> QED BY <1>1, TreeAlways, PTL

(* Every change a call makes to a node is on disk when it returns: each of *)
(* the cascades of btreeInsert and btreeDelete writes all it has touched.  *)
THEOREM DurableAlways == Careful => (Spec => []Durable)
<1>1. TreeInv => Durable
    BY TreeFacts, DurableFact
<1> QED BY <1>1, TreeAlways, PTL

(* For every order of at least 3: all leaves are on one level, every node  *)
(* but the root is half full, and a search for a stored key comes to its   *)
(* leaf (btreeSearch, btreeInsert, btreeDelete).                           *)
THEOREM SearchableAlways == Careful => (Spec => []Searchable)
<1>1. TreeInv => Searchable
    BY TreeFacts, BalancedFact, FindableFact DEF Searchable
<1> QED BY <1>1, TreeAlways, PTL

(* Where a long is 32 bits wide, as the tree header expects: the chain     *)
(* from leftLeaf runs through all leaves in key order, through every split *)
(* and merge (__splitNode, __mergeNode, btreeSetLeftLeaf).                 *)
THEOREM LeafChainAlways == Careful /\ LongWords = 1 => (Spec => []LeafChain)
<1>1. LongWords = 1 /\ TreeInv => LeafChain
    <2> SUFFICES ASSUME LongWords = 1, TreeInv PROVE LeafChain
        OBVIOUS
    <2>1. Empty(file) \/ \E t : Alive(file, t) /\ First(t, file.hdr[3])
        BY DEF TreeInv, Shows, Living
    <2> QED BY <2>1, LeafChainFact
<1>2. CASE LongWords = 1
    <2>1. TreeInv => LeafChain
        BY <1>1, <1>2
    <2>2. Careful => (Spec => []LeafChain)
        BY <2>1, TreeAlways, PTL
    <2> QED BY <2>2
<1> QED BY <1>2

LEMMA ContentsAre ==
    ASSUME NEW m \in Maps, Shows(file, m)
    PROVE  Contents = m
<1>1. \A k \in Key : Search(file, k) = m[k]
    BY SearchShows
<1> QED BY <1>1 DEF Contents, Maps

LEMMA ContentsNext ==
    ASSUME NEW m \in Maps, Shows(file', m)
    PROVE  Contents' = m
<1>1. \A k \in Key : Search(file', k) = m[k]
    BY SearchShows
<1>2. Contents' = [k \in Key |-> Search(file', k)]
    BY DEF Contents
<1> QED BY <1>1, <1>2 DEF Maps

(* One call, seen through searches.                                         *)
LEMMA MapStep ==
    ASSUME TreeInv, [Next]_vars
    PROVE  [Map!Next]_<<Contents, mode, answer>>
<1>1. PICK m \in Maps : Shows(file, m)
    BY DEF TreeInv
<1>2. Contents = m /\ Careful
    BY <1>1, ContentsAre DEF TreeInv
<1>3. ASSUME file' = file PROVE Contents' = Contents
    BY <1>3 DEF Contents
<1>4. ASSUME NEW k \in Key, NEW v \in Value, Insert(k, v) PROVE Map!Insert(k, v)
    <2>1. mode = "rw" /\ mode' = mode
        BY <1>4 DEF Insert
    <2>2. CASE ~Rejects(file, k)
        <3>1. answer' = <<"insert", k, v, SUCCESS>> /\ Contents' = [m EXCEPT ![k] = v]
            BY <1>1, <1>2, <1>4, <2>2, InsertStep, ContentsNext
        <3> QED BY <3>1, <2>1, <1>2 DEF Map!Insert, Map!SUCCESS, SUCCESS
    <2>3. CASE Rejects(file, k)
        <3>1. answer' = <<"insert", k, v, DUPLICATE>> /\ m[k] # 0 /\ file' = file
            BY <1>1, <1>2, <1>4, <2>3, InsertStep
        <3> QED BY <3>1, <2>1, <1>2, <1>3 DEF Map!Insert, Map!DUPLICATE, DUPLICATE
    <2> QED BY <2>2, <2>3
<1>5. ASSUME NEW k \in Key, Delete(k) PROVE Map!Delete(k)
    <2>1. mode = "rw" /\ mode' = mode
        BY <1>5 DEF Delete
    <2>2. answer' = <<"delete", k, m[k]>> /\ Contents' = [m EXCEPT ![k] = 0]
        BY <1>1, <1>2, <1>5, DeleteStep, ContentsNext
    <2> QED BY <2>1, <2>2, <1>2 DEF Map!Delete
<1>6. ASSUME NEW k \in Key, Attempt(k) PROVE Map!Attempt(k)
    <2>1. /\ mode # "rw" /\ mode' = mode /\ Contents' = Contents
          /\ \/ mode = "ro" /\ answer' \in {<<"insert", k, ERROR>>, <<"delete", k, 0>>}
             \/ /\ mode = "test"
                /\ answer' \in {<<"insert", k, IF Search(file, k) # 0 THEN DUPLICATE ELSE SUCCESS>>,
                                <<"delete", k, Search(file, k)>>}
        BY <1>3, <1>6 DEF Attempt
    <2>2. Search(file, k) = Contents[k]
        BY DEF Contents
    <2> QED BY <2>1, <2>2 DEF Map!Attempt, Map!DUPLICATE, DUPLICATE, Map!SUCCESS, SUCCESS, Map!ERROR, ERROR
<1>7. ASSUME NEW n \in Mode, Reopen(n) PROVE Map!Open(n)
    <2>1. file' = Reopened(file) /\ mode' = n /\ answer' = <<"open", n>>
        BY <1>7 DEF Reopen, Reopened
    <2>2. Contents' = m
        BY <2>1, <1>1, ReopenShows, ContentsNext
    <2> QED BY <2>1, <2>2, <1>2 DEF Map!Open
<1>8. CASE UNCHANGED vars
    BY <1>3, <1>8 DEF vars
<1> QED BY <1>4, <1>5, <1>6, <1>7, <1>8 DEF Next, Map!Next

(* The tree is a map: every insert, delete and search answers as a map     *)
(* from keys to values does, for every order, set of keys and set of       *)
(* values, whether a long has one word or two.                             *)
THEOREM TreeIsMap == Careful => (Spec => IsOrderedMap)
<1>1. Careful /\ Init => Map!Init
    <2> SUFFICES ASSUME Init PROVE Map!Init
        OBVIOUS
    <2>1. Contents = [k \in Key |-> 0]
        BY InitShows, ContentsAre
    <2> QED BY <2>1 DEF Map!Init, Init
<1>2. TreeInv /\ [Next]_vars => [Map!Next]_<<Contents, mode, answer>>
    BY MapStep
<1> QED BY <1>1, <1>2, TreeAlways, PTL DEF Spec, IsOrderedMap, Map!Spec

(* A key reported as inserted is found with its value: the run BTreeStale  *)
(* shows what it takes that this is not so (btreeInsert after btreeDelete  *)
(* on a file that stays open).                                             *)
THEOREM InsertedIsFoundThere == Careful => (Spec => InsertedIsFound)
<1>1. TreeInv /\ [Next]_vars =>
         [\A k \in Key, v \in Value : Insert(k, v) /\ answer'[4] = SUCCESS => Search(file', k) = v]_vars
    <2> SUFFICES ASSUME TreeInv, NEW k \in Key, NEW v \in Value, Insert(k, v), answer'[4] = SUCCESS
                 PROVE  Search(file', k) = v
        BY Zenon
    <2>1. PICK m \in Maps : Shows(file, m)
        BY DEF TreeInv
    <2>2. ~Rejects(file, k)
        <3>1. Rejects(file, k) => answer'[4] = DUPLICATE
            BY DEF Insert
        <3> QED BY <3>1 DEF DUPLICATE, SUCCESS
    <2> DEFINE m2 == [m EXCEPT ![k] = v]
    <2>3. m2 \in Maps /\ Shows(file', m2) /\ m2[k] = v
        BY <2>1, <2>2, InsertStep DEF TreeInv, Maps
    <2> HIDE DEF m2
    <2> QED BY <2>3, SearchShows
<1> QED BY <1>1, TreeAlways, PTL DEF Spec, InsertedIsFound

(* A deletion takes away its own key only: the loans and merges of         *)
(* __delete lose no other key and no value.                                *)
THEOREM DeleteSparesTheOthers == Careful => (Spec => DeleteSparesOthers)
<1>1. TreeInv /\ [Next]_vars =>
         [\A k \in Key : Delete(k) =>
             \A j \in Key \ {k} : Search(file', j) = Search(file, j)]_vars
    <2> SUFFICES ASSUME TreeInv, NEW k \in Key, Delete(k), NEW j \in Key \ {k}
                 PROVE  Search(file', j) = Search(file, j)
        BY Zenon
    <2>1. PICK m \in Maps : Shows(file, m)
        BY DEF TreeInv
    <2> DEFINE m2 == [m EXCEPT ![k] = 0]
    <2>2. m2 \in Maps /\ Shows(file', m2) /\ m2[j] = m[j]
        BY <2>1, DeleteStep DEF TreeInv, Maps
    <2> HIDE DEF m2
    <2> QED BY <2>1, <2>2, SearchShows
<1> QED BY <1>1, TreeAlways, PTL DEF Spec, DeleteSparesOthers
-----------------------------------------------------------------------------
(* A traversal beside inserts and deletes.                                  *)

(* Between two sorted sequences, the second with all of the first up to     *)
(* place i: what is at i is not earlier in the second.                      *)
LEMMA NotEarlier ==
    ASSUME NEW a \in Seq(Key), NEW b \in Seq(Key), Sorted(a), Sorted(b),
           NEW i \in 1 .. Len(a), NEW n \in 1 .. Len(b), b[n] = a[i],
           \A j \in 1 .. i : \E h \in 1 .. Len(b) : b[h] = a[j]
    PROVE  i <= n
<1> DEFINE f == [j \in 1 .. i |-> CHOOSE h \in 1 .. Len(b) : b[h] = a[j]]
<1>1. Len(a) \in Nat /\ Len(b) \in Nat /\ i \in Int /\ n \in Int /\ i >= 1 /\ n >= 1
    OBVIOUS
<1>2. /\ \A j \in 1 .. Len(a) : a[j] \in Int
      /\ \A j \in 1 .. Len(b) : b[j] \in Int
    <2>1. /\ \A j \in 1 .. Len(a) : a[j] \in Key
          /\ \A j \in 1 .. Len(b) : b[j] \in Key
        OBVIOUS
    <2> QED BY <2>1, KeysAreInts
<1>3. \A j \in 1 .. i : j \in 1 .. Len(a)
    BY <1>1
<1>4. \A j \in 1 .. i : f[j] \in 1 .. Len(b) /\ b[f[j]] = a[j]
    OBVIOUS
<1>5. DOMAIN f = 1 .. i /\ f = [j \in 1 .. i |-> f[j]]
    OBVIOUS
<1> HIDE DEF f
<1>6. \A j \in 1 .. i : f[j] \in 1 .. n
    <2> SUFFICES ASSUME NEW j \in 1 .. i PROVE f[j] \in 1 .. n
        OBVIOUS
    <2>1. a[j] <= a[i]
        <3>1. CASE j = i
            BY <3>1, <1>2, <1>3
        <3>2. CASE j # i
            BY <3>2, <1>1, <1>2, <1>3 DEF Sorted
        <3> QED BY <3>1, <3>2
    <2>2. f[j] \in 1 .. Len(b) /\ b[f[j]] <= b[n]
        BY <2>1, <1>4
    <2>3. ~(n < f[j])
        BY <2>2, <1>2 DEF Sorted
    <2> QED BY <2>2, <2>3, <1>1
<1>7. \A j, h \in 1 .. i : f[j] = f[h] => j = h
    <2> SUFFICES ASSUME NEW j \in 1 .. i, NEW h \in 1 .. i, f[j] = f[h] PROVE j = h
        OBVIOUS
    <2>1. a[j] = a[h]
        BY <1>4
    <2>2. ~(j < h) /\ ~(h < j)
        BY <2>1, <1>2, <1>3 DEF Sorted
    <2> QED BY <2>2
<1>8. f \in Injection(1 .. i, 1 .. n)
    BY <1>5, <1>6, <1>7 DEF Injection, IsInjective
<1>9. /\ IsFiniteSet(1 .. n)
      /\ Cardinality(1 .. n) = n /\ Cardinality(1 .. i) = i
    <2>1. /\ IsFiniteSet(1 .. n) /\ Cardinality(1 .. n) = IF 1 > n THEN 0 ELSE n - 1 + 1
          /\ Cardinality(1 .. i) = IF 1 > i THEN 0 ELSE i - 1 + 1
        BY <1>1, FS_Interval
    <2> QED BY <2>1, <1>1
<1>10. Cardinality(1 .. i) <= Cardinality(1 .. n)
    BY <1>8, <1>9, FS_Injection
<1> QED BY <1>9, <1>10

(* A stored key is a key of its leaf, and a leaf's keys are stored.         *)
LEMMA StoredAt ==
    ASSUME NEW G, NEW t, IsTree(G, t, {}, {}), NEW m, Says(G, t, m), NEW o \in t.nodes, t.lev[o] = 0
    PROVE  /\ \A k \in t.rng[o] : k \in KeysIn(m) => \E i \in 1 .. Len(G[o].keys) : G[o].keys[i] = k
           /\ \A i \in 1 .. Len(G[o].keys) : G[o].keys[i] \in KeysIn(m) /\ G[o].keys[i] \in t.rng[o]
<1>1. Local(G, t, o) /\ Formed(G[o]) /\ t.rng[o] \subseteq Key
    BY DEF IsTree, Local, Placed, Reaches
<1>2. ASSUME NEW k \in t.rng[o], k \in KeysIn(m) PROVE \E i \in 1 .. Len(G[o].keys) : G[o].keys[i] = k
    <2>1. Entry(G, t, k, m[k])
        BY <1>2 DEF Says, KeysIn
    <2>2. Keeps(G[o], k, m[k])
        BY <2>1, EntryAt
    <2> QED BY <2>2 DEF Keeps
<1>3. ASSUME NEW i \in 1 .. Len(G[o].keys) PROVE G[o].keys[i] \in KeysIn(m) /\ G[o].keys[i] \in t.rng[o]
    <2>1. G[o].keys[i] \in t.rng[o] /\ G[o].keys[i] \in Key
        BY <1>1 DEF Local
    <2>2. Entry(G, t, G[o].keys[i], G[o].kids[i])
        BY DEF Entry, Keeps
    <2> QED BY <2>1, <2>2 DEF Says, KeysIn
<1> QED BY <1>2, <1>3

LEMMA StoredKeysAre ==
    ASSUME NEW m \in Maps, Shows(file, m)
    PROVE  StoredKeys = KeysIn(m)
<1>1. CASE Empty(file) /\ KeysIn(m) = {}
    <2>1. Leaves(file) = {}
        BY <1>1, EmptyLevels DEF Leaves
    <2> QED BY <2>1, <1>1 DEF StoredKeys
<1>2. ASSUME NEW t, Living(file, t, m) PROVE StoredKeys = KeysIn(m)
    <2> DEFINE G == file.read
    <2>1. Alive(file, t) /\ Says(G, t, m)
        BY <1>2 DEF Living
    <2>2. IsTree(G, t, {}, {}) /\ Nodes(file) = t.nodes
        BY <2>1, AliveFacts
    <2>3. \A o \in t.nodes : (G[o].leaf <=> t.lev[o] = 0) /\ G[o].keys \in Seq(Key)
        BY <2>2 DEF IsTree, Local, Formed
    <2>4. Leaves(file) = {o \in t.nodes : t.lev[o] = 0}
        BY <2>2, <2>3 DEF Leaves
    <2>5. ASSUME NEW k \in StoredKeys PROVE k \in KeysIn(m)
        <3>1. PICK o \in Leaves(file) : k \in ToSet(G[o].keys)
            BY <2>5 DEF StoredKeys
        <3>2. PICK i \in 1 .. Len(G[o].keys) : k = G[o].keys[i]
            BY <3>1, <2>3, <2>4 DEF ToSet
        <3> QED BY <3>1, <3>2, <2>1, <2>2, <2>4, StoredAt
    <2>6. ASSUME NEW k \in KeysIn(m) PROVE k \in StoredKeys
        <3>1. k \in Key /\ Entry(G, t, k, m[k])
            BY <2>1, <2>6 DEF Says, KeysIn
        <3>2. PICK o \in t.nodes : t.lev[o] = 0 /\ Keeps(G[o], k, m[k])
            BY <3>1 DEF Entry
        <3>3. k \in ToSet(G[o].keys)
            BY <3>2, <2>3 DEF Keeps, ToSet
        <3> QED BY <3>2, <3>3, <2>4 DEF StoredKeys
    <2> QED BY <2>5, <2>6
<1> QED BY <1>1, <1>2 DEF Shows

(* btreeSearch answers that a key is not there when the size in the header *)
(* is 0.  It never is while there are keys, even where the size shares a   *)
(* word with the root (btreeInsert, btreeDelete, btreeGetSize).            *)
THEOREM SizeCoversKeysAlways == Careful => (Spec => []SizeCoversKeys)
<1>1. TreeInv => SizeCoversKeys
    <2> SUFFICES ASSUME TreeInv PROVE SizeCoversKeys
        OBVIOUS
    <2>1. PICK m \in Maps : Shows(file, m)
        BY DEF TreeInv
    <2> DEFINE a == file.hdr[1]
               b == file.hdr[1 + 1]
               c == Cardinality(KeysIn(m))
    <2>2. a \in Nat /\ b \in Nat /\ WordBase \in Nat /\ c \in Nat /\ c <= a
        BY <2>1, BTreeAssumption, FS_CardinalityType DEF Shows, Words
    <2>3. Size(file) = a \/ Size(file) = a + WordBase * b
        BY DEF Size, GetField, SIZE
    <2>4. Cardinality(StoredKeys) = c
        BY <2>1, StoredKeysAre
    <2> HIDE DEF a, b, c
    <2>5. WordBase * b \in Nat
        BY <2>2
    <2> QED BY <2>2, <2>3, <2>4, <2>5 DEF SizeCoversKeys
<1> QED BY <1>1, TreeAlways, PTL

(* The records of a traversal.                                              *)
IsWalk(w) ==
    /\ DOMAIN w = {"state", "at", "pos", "due", "last", "calm", "ascending"}
    /\ w = [x \in DOMAIN w |-> w[x]]
    /\ w.calm \in BOOLEAN /\ w.ascending = TRUE
    /\ w.state = "ended" => w.due = {}
    /\ w.state = "lost" => w.calm = FALSE

(* A due key is on a leaf behind the traversal's, or behind its place in it. *)
Ahead(G, t, w, k) ==
    \/ \A j \in t.rng[w.at] : j < k
    \/ \E i \in 1 .. Len(G[w.at].keys) : i > w.pos /\ G[w.at].keys[i] = k
OnTrack(G, t, m, w) ==
    /\ w.at \in t.nodes /\ t.lev[w.at] = 0 /\ w.pos \in Nat \ {0}
    /\ w.due \subseteq KeysIn(m) /\ \A k \in w.due : Ahead(G, t, w, k)
    /\ w.calm => w.pos <= Len(G[w.at].keys) /\ w.last = G[w.at].keys[w.pos]

LEMMA ReturnedIs ==
    ASSUME NEW w, IsWalk(w), w.state = "on", NEW o, NEW i, NEW key, key = file.read[o].keys[i + 1],
           w.calm /\ w.pos # 0 => w.last < key
    PROVE  LET r == Returned(w, o, i)
           IN  /\ IsWalk(r) /\ r.state = "on" /\ r.at = o /\ r.pos = i + 1 /\ r.due = w.due \ {key}
               /\ r.calm = w.calm /\ (w.calm => r.last = key)
<1> DEFINE r == Returned(w, o, i)
<1>1. r = [w EXCEPT !.at = o, !.pos = i + 1, !.due = w.due \ {key}, !.last = IF w.calm THEN key ELSE 0,
                    !.ascending = w.ascending /\ (w.calm /\ w.pos # 0 => w.last < key)]
    BY DEF Returned
<1>2. /\ DOMAIN w = {"state", "at", "pos", "due", "last", "calm", "ascending"}
      /\ w.calm \in BOOLEAN /\ w.ascending = TRUE
    BY DEF IsWalk
<1> HIDE DEF r
<1>3. /\ DOMAIN r = DOMAIN w /\ r = [x \in DOMAIN r |-> r[x]]
      /\ r.state = "on" /\ r.at = o /\ r.pos = i + 1 /\ r.due = w.due \ {key} /\ r.calm = w.calm
      /\ r.last = IF w.calm THEN key ELSE 0
      /\ r.ascending = (w.ascending /\ (w.calm /\ w.pos # 0 => w.last < key))
    BY <1>1, <1>2
<1>4. r.ascending = TRUE
    BY <1>2, <1>3
<1>5. IsWalk(r)
    BY <1>2, <1>3, <1>4 DEF IsWalk
<1> QED BY <1>3, <1>5 DEF r

LEMMA StraysIs ==
    ASSUME NEW w, IsWalk(w), w.state = "on", w.calm = FALSE
    PROVE  LET r == Strays(w)
           IN  /\ IsWalk(r) /\ r.calm = FALSE /\ r.due = w.due /\ r.at = w.at
               /\ r.state = "on" => r.pos = w.pos + 1
<1> DEFINE r == Strays(w)
<1>1. CASE w.pos > MaxKeys
    <2>1. r = [w EXCEPT !.state = "lost"]
        BY <1>1 DEF Strays
    <2> HIDE DEF r
    <2>2. IsWalk(r) /\ r.state = "lost" /\ r.calm = FALSE /\ r.due = w.due /\ r.at = w.at
        BY <2>1 DEF IsWalk
    <2> QED BY <2>2 DEF r
<1>2. CASE ~(w.pos > MaxKeys)
    <2>1. r = [w EXCEPT !.pos = w.pos + 1]
        BY <1>2 DEF Strays
    <2> HIDE DEF r
    <2>2. IsWalk(r) /\ r.state = "on" /\ r.calm = FALSE /\ r.due = w.due /\ r.at = w.at /\ r.pos = w.pos + 1
        BY <2>1 DEF IsWalk
    <2> QED BY <2>2 DEF r
<1> QED BY <1>1, <1>2

(* The first call.                                                          *)
LEMMA FirstOnTrack ==
    ASSUME NEW t, NEW m, IsTree(file.read, t, {}, {}), Says(file.read, t, m),
           NEW a, First(t, a), NEW w, IsWalk(w), w.state = "on", w.pos = 0, w.due = KeysIn(m)
    PROVE  LET r == Returned(w, a, 0)
           IN  IsWalk(r) /\ r.state = "on" /\ OnTrack(file.read, t, m, r)
<1> DEFINE G == file.read
           key == G[a].keys[1]
           r == Returned(w, a, 0)
<1>1. a \in t.nodes /\ t.lev[a] = 0 /\ t.rng[a] \subseteq Key
    BY DEF First, IsTree, Placed, Reaches
<1>2. Ends(G, t, a, key, Last(G[a].keys)) /\ Len(G[a].keys) \in Nat /\ Len(G[a].keys) >= 1
    <2>1. G[a].leaf /\ Formed(G[a])
        BY <1>1 DEF IsTree, Local
    <2>2. Sized(G[a], a, t.root, {}, {}) /\ MinKeys(G[a]) >= 1 /\ MinKeys(G[a]) \in Nat /\ Len(G[a].keys) \in Nat
        BY <1>1, <2>1, Numbers DEF IsTree
    <2> DEFINE n == Len(G[a].keys)
    <2>3. n + 0 >= IF a = t.root THEN 1 ELSE MinKeys(G[a])
        BY <2>2 DEF Sized
    <2>4. n >= 1
        <3> HIDE DEF n
        <3>1. n \in Nat
            BY <2>2 DEF n
        <3> QED BY <2>2, <2>3, <3>1
    <2> QED BY <1>1, <2>1, <2>2, <2>4, LeafEnds
<1>3. /\ IsWalk(r) /\ r.state = "on" /\ r.at = a /\ r.pos = 1 /\ r.due = w.due \ {key}
      /\ r.calm = w.calm /\ (w.calm => r.last = key)
    <2>1. key = file.read[a].keys[0 + 1] /\ (w.calm /\ w.pos # 0 => w.last < key)
        OBVIOUS
    <2> HIDE DEF key
    <2> QED BY <2>1, ReturnedIs
<1> HIDE DEF r
<1>4. ASSUME NEW k \in KeysIn(m), k # key PROVE Ahead(G, t, r, k)
    <2>1. CASE k \in t.rng[a]
        <3>1. PICK i \in 1 .. Len(G[a].keys) : G[a].keys[i] = k
            BY <2>1, <1>1, <1>4, StoredAt
        <3>2. i # 1
            BY <3>1, <1>4
        <3>3. i > 1
            BY <3>2, <1>2
        <3> QED BY <3>1, <3>3, <1>3 DEF Ahead
    <2>2. CASE k \notin t.rng[a]
        <3>1. k \in Key /\ k \in Int
            BY <1>4, KeysAreInts DEF KeysIn
        <3>2. ASSUME NEW j \in t.rng[a] PROVE j < k
            <4>1. j \in Int /\ j # k
                BY <1>1, <2>2, <3>2, KeysAreInts
            <4>2. ~(k < j)
                BY <2>2, <3>1 DEF First
            <4> QED BY <4>1, <4>2, <3>1
        <3> QED BY <3>2, <1>3 DEF Ahead
    <2> QED BY <2>1, <2>2
<1>5. OnTrack(G, t, m, r)
    BY <1>1, <1>2, <1>3, <1>4 DEF OnTrack
<1> QED BY <1>3, <1>5 DEF r, G

(* The next calls.                                                          *)
LEMMA StepOnTrack ==
    ASSUME NEW t, NEW m, IsTree(file.read, t, {}, {}), Says(file.read, t, m),
           NEW w, IsWalk(w), w.state = "on", OnTrack(file.read, t, m, w)
    PROVE  LET r == Step(w)
           IN  IsWalk(r) /\ (r.state = "on" => OnTrack(file.read, t, m, r))
<1> DEFINE G == file.read
           o == w.at
           n == Len(G[o].keys)
           x == Link(G[o])
           r == Step(w)
<1>1. o \in t.nodes /\ t.lev[o] = 0 /\ w.pos \in Nat \ {0} /\ w.due \subseteq KeysIn(m)
    BY DEF OnTrack
<1>2. /\ G[o].leaf /\ Formed(G[o]) /\ n \in Nat /\ Last(G[o].kids) = x /\ Behind(t, o, x)
      /\ G[o].keys \in Seq(Key) /\ Sorted(G[o].keys)
    <2>1. G[o].leaf /\ Formed(G[o]) /\ Behind(t, o, x)
        BY <1>1 DEF IsTree, Local, Linked
    <2> QED BY <2>1, <1>1, Numbers, LeafEnds DEF Formed
<1>3. t.rng[o] \subseteq Key /\ \E j \in t.rng[o] : j \in Key
    BY <1>1 DEF IsTree, Placed, Reaches
<1>4. \A i \in 1 .. n : G[o].keys[i] \in Key /\ G[o].keys[i] \in Int
    BY <1>2, Numbers, KeysAreInts
<1>5. r = IF w.pos < n THEN Returned(w, o, w.pos)
          ELSE IF w.pos > n THEN Strays(w)
          ELSE IF x = 0 THEN [w EXCEPT !.state = "ended", !.at = 0]
          ELSE Returned(w, x, 0)
    BY <1>2 DEF Step
<1>6. \A k \in w.due : k \in Key /\ k \in Int /\ Ahead(G, t, w, k)
    BY <1>1, KeysAreInts DEF OnTrack, KeysIn
<1> HIDE DEF n, x
<1>7. CASE w.pos < n
    <2> DEFINE p == w.pos
               key == G[o].keys[p + 1]
    <2>1. p \in 1 .. n /\ p + 1 \in 1 .. n /\ p \in Nat
        BY <1>1, <1>2, <1>7
    <2>2. w.calm => w.last < key
        <3>1. w.calm => w.last = G[o].keys[p]
            BY DEF OnTrack
        <3>2. G[o].keys[p] < key
            BY <2>1, <1>2 DEF Sorted, n
        <3> QED BY <3>1, <3>2
    <2>3. r = Returned(w, o, p)
        BY <1>5, <1>7
    <2> HIDE DEF r
    <2>4. /\ IsWalk(r) /\ r.state = "on" /\ r.at = o /\ r.pos = p + 1 /\ r.due = w.due \ {key}
          /\ r.calm = w.calm /\ (w.calm => r.last = key)
        <3>1. key = file.read[o].keys[p + 1]
            OBVIOUS
        <3> HIDE DEF key, p, o
        <3> QED BY <3>1, <2>2, <2>3, ReturnedIs
    <2>5. ASSUME NEW k \in w.due, k # key PROVE Ahead(G, t, r, k)
        <3>1. CASE \A j \in t.rng[o] : j < k
            BY <3>1, <2>4 DEF Ahead
        <3>2. CASE \E i \in 1 .. n : i > p /\ G[o].keys[i] = k
            <4>1. PICK i \in 1 .. n : i > p /\ G[o].keys[i] = k
                BY <3>2
            <4>2. i # p + 1
                BY <4>1, <2>5
            <4>3. i > p + 1
                BY <4>1, <4>2, <2>1
            <4> QED BY <4>1, <4>3, <2>4 DEF Ahead, n
        <3> QED BY <3>1, <3>2, <1>6 DEF Ahead, n
    <2>6. OnTrack(G, t, m, r)
        BY SMTT(30), <1>1, <1>2, <2>1, <2>4, <2>5 DEF OnTrack, n
    <2> QED BY <2>4, <2>6 DEF r
<1>8. CASE w.pos > n
    <2>1. r = Strays(w)
        BY <1>5, <1>8, <1>1, <1>2
    <2>2. w.calm = FALSE
        <3>1. w.calm => w.pos <= n
            BY DEF OnTrack, n
        <3> QED BY <3>1, <1>1, <1>2, <1>8 DEF IsWalk
    <2> HIDE DEF r
    <2>3. /\ IsWalk(r) /\ r.calm = FALSE /\ r.due = w.due /\ r.at = w.at
          /\ r.state = "on" => r.pos = w.pos + 1
        BY <2>1, <2>2, StraysIs
    <2>4. ASSUME NEW k \in w.due PROVE Ahead(G, t, r, k)
        <3>1. ~ \E i \in 1 .. n : i > w.pos /\ G[o].keys[i] = k
            BY <1>1, <1>2, <1>8
        <3>2. \A j \in t.rng[o] : j < k
            BY <3>1, <2>4, <1>6 DEF Ahead, n
        <3> QED BY <3>2, <2>3 DEF Ahead
    <2>5. r.state = "on" => OnTrack(G, t, m, r)
        BY <1>1, <2>3, <2>4 DEF OnTrack
    <2> QED BY <2>3, <2>5 DEF r
<1>9. ASSUME w.pos = n, NEW k \in w.due PROVE \A j \in t.rng[o] : j < k
    <2>1. ~ \E i \in 1 .. n : i > w.pos /\ G[o].keys[i] = k
        BY <1>9, <1>2
    <2> QED BY <2>1, <1>6 DEF Ahead, n
<1>10. CASE w.pos = n /\ x = 0
    <2>1. ASSUME NEW k \in w.due PROVE FALSE
        <3>1. PICK j \in t.rng[o] : j \in Key
            BY <1>3
        <3>2. j < k /\ k \in Key
            BY <3>1, <2>1, <1>6, <1>9, <1>10
        <3>3. k \in t.rng[o]
            BY <3>2, <1>2, <1>10 DEF Behind
        <3>4. k < k
            BY <3>3, <2>1, <1>9, <1>10
        <3> QED BY <3>4, <2>1, <1>6
    <2>2. r = [w EXCEPT !.state = "ended", !.at = 0]
        BY <1>5, <1>10, <1>1, <1>2
    <2> HIDE DEF r
    <2>3. w.due = {}
        BY <2>1
    <2>4. IsWalk(r) /\ r.state = "ended"
        BY <2>2, <2>3 DEF IsWalk
    <2> QED BY <2>4 DEF r
<1>11. CASE w.pos = n /\ x # 0
    <2> DEFINE key == G[x].keys[1]
    <2>1. x \in t.nodes /\ t.lev[x] = 0 /\ NextTo(t, o, x)
        BY <1>2, <1>11 DEF Behind
    <2>2. t.rng[x] \subseteq Key
        BY <2>1 DEF IsTree, Placed, Reaches
    <2>3. Ends(G, t, x, key, Last(G[x].keys)) /\ Len(G[x].keys) \in Nat /\ Len(G[x].keys) >= 1
        <3>1. G[x].leaf /\ Formed(G[x])
            BY <2>1 DEF IsTree, Local
        <3>2. Sized(G[x], x, t.root, {}, {}) /\ MinKeys(G[x]) >= 1 /\ MinKeys(G[x]) \in Nat /\ Len(G[x].keys) \in Nat
            BY <2>1, <3>1, Numbers DEF IsTree
        <3> DEFINE l == Len(G[x].keys)
        <3>3. l + 0 >= IF x = t.root THEN 1 ELSE MinKeys(G[x])
            BY <3>2 DEF Sized
        <3>4. l >= 1
            <4> HIDE DEF l
            <4>1. l \in Nat
                BY <3>2 DEF l
            <4> QED BY <3>2, <3>3, <4>1
        <3> QED BY <2>1, <3>1, <3>2, <3>4, LeafEnds
    <2>4. key \in t.rng[x] /\ key \in Int
        BY <2>3 DEF Ends
    <2>5. w.calm => w.last < key
        <3>1. n \in 1 .. n
            BY <1>1, <1>2, <1>11
        <3>2. G[o].keys[n] \in t.rng[o]
            BY <3>1, <1>1 DEF IsTree, Local, n
        <3>3. w.calm => w.last = G[o].keys[n]
            BY <1>11 DEF OnTrack
        <3> HIDE DEF key
        <3> QED BY <3>2, <3>3, <2>1, <2>4 DEF NextTo
    <2>6. r = Returned(w, x, 0)
        BY <1>5, <1>11, <1>1, <1>2
    <2> HIDE DEF r
    <2>7. /\ IsWalk(r) /\ r.state = "on" /\ r.at = x /\ r.pos = 1 /\ r.due = w.due \ {key}
          /\ r.calm = w.calm /\ (w.calm => r.last = key)
        <3>1. key = file.read[x].keys[0 + 1]
            OBVIOUS
        <3> HIDE DEF key
        <3>2. Returned(w, x, 0).pos = 0 + 1 /\ IsWalk(r) /\ r.state = "on" /\ r.at = x /\ r.due = w.due \ {key}
              /\ r.calm = w.calm /\ (w.calm => r.last = key)
            BY <3>1, <2>5, <2>6, ReturnedIs
        <3> QED BY <3>2, <2>6
    <2>8. ASSUME NEW k \in w.due, k # key PROVE Ahead(G, t, r, k)
        <3>1. k \in Int /\ k \in Key /\ \A j \in t.rng[o] : j < k
            BY <2>8, <1>6, <1>9, <1>11
        <3>2. CASE k \in t.rng[x]
            <4>1. PICK i \in 1 .. Len(G[x].keys) : G[x].keys[i] = k
                BY <3>2, <2>1, <1>1, <2>8, StoredAt
            <4>2. i # 1
                BY <4>1, <2>8
            <4>3. i > 1
                BY <4>2, <2>3
            <4> QED BY <4>1, <4>3, <2>7 DEF Ahead
        <3>3. CASE k \notin t.rng[x]
            <4>1. PICK j \in t.rng[o] : j \in Key
                BY <1>3
            <4>2. ASSUME NEW i \in t.rng[x] PROVE i < k
                <5>1. i \in Int /\ i # k /\ j < k
                    BY <2>2, <3>1, <3>3, <4>1, KeysAreInts
                <5>2. ~(k < i)
                    <6> SUFFICES ASSUME k < i PROVE FALSE
                        OBVIOUS
                    <6>1. k \in t.rng[o] \cup t.rng[x]
                        BY <2>1, <3>1, <5>1, <4>1 DEF NextTo
                    <6>2. k < k
                        BY <6>1, <3>1, <3>3
                    <6> QED BY <6>2, <3>1
                <5> QED BY <5>1, <5>2, <3>1
            <4> QED BY <4>2, <2>7 DEF Ahead
        <3> QED BY <3>2, <3>3
    <2>9. OnTrack(G, t, m, r)
        BY <1>1, <2>1, <2>3, <2>7, <2>8 DEF OnTrack
    <2> QED BY <2>7, <2>9 DEF r
<1>12. w.pos < n \/ w.pos > n \/ w.pos = n
    BY <1>1, <1>2
<1> QED BY <1>7, <1>8, <1>10, <1>11, <1>12

(* An insertion beside it.                                                  *)
LEMMA InsertOnTrack ==
    ASSUME NEW G, NEW s, NEW m \in Maps, IsTree(G, s, {}, {}), Says(G, s, m), NEW k \in Key, NEW v \in Value,
           NEW G2, NEW t, IsTree(G2, t, {}, {}), Says(G2, t, [m EXCEPT ![k] = v]), Heirs(s, t),
           NEW w, OnTrack(G, s, m, w), NEW w2, w2.at = w.at, w2.pos = w.pos, w2.due = w.due, ~w2.calm
    PROVE  OnTrack(G2, t, [m EXCEPT ![k] = v], w2)
<1> DEFINE m2 == [m EXCEPT ![k] = v]
           o == w.at
           a == G[o].keys
           b == G2[o].keys
<1>1. /\ o \in s.nodes /\ s.lev[o] = 0 /\ w.pos \in Nat \ {0}
      /\ w.due \subseteq KeysIn(m) /\ \A j \in w.due : Ahead(G, s, w, j)
    BY DEF OnTrack
<1>2. /\ o \in t.nodes /\ t.lev[o] = 0 /\ t.rng[o] \subseteq s.rng[o]
      /\ \A j \in t.rng[o], i \in s.rng[o] : i \notin t.rng[o] => j < i
    BY <1>1 DEF Heirs
<1>3. KeysIn(m) \subseteq KeysIn(m2)
    <2>1. v # 0 /\ m2[k] = v /\ \A j \in Key : j # k => m2[j] = m[j]
        BY BTreeAssumption DEF Maps
    <2> HIDE DEF m2
    <2> QED BY <2>1 DEF KeysIn
<1>4. Says(G2, t, m2)
    OBVIOUS
<1> HIDE DEF m2
<1>5. a \in Seq(Key) /\ Sorted(a) /\ b \in Seq(Key) /\ Sorted(b)
    BY <1>1, <1>2 DEF IsTree, Local, Formed
<1>6. \A i \in 1 .. Len(a) : a[i] \in Int /\ a[i] \in KeysIn(m) /\ a[i] \in s.rng[o]
    <2>1. \A i \in 1 .. Len(a) : a[i] \in Key
        BY <1>5
    <2> QED BY <2>1, <1>1, StoredAt, KeysAreInts
<1>7. \A j \in t.rng[o] : j \in KeysIn(m2) => \E h \in 1 .. Len(b) : b[h] = j
    BY <1>2, <1>4, StoredAt
<1>8. ASSUME NEW j \in w.due PROVE Ahead(G2, t, w2, j)
    <2>1. j \in Int /\ j \in KeysIn(m2)
        BY <1>1, <1>3, <1>8, KeysAreInts DEF KeysIn
    <2>2. CASE \A i \in s.rng[o] : i < j
        <3>1. \A i \in t.rng[o] : i < j
            BY <2>2, <1>2
        <3> QED BY <3>1 DEF Ahead
    <2>3. ASSUME NEW i \in 1 .. Len(a), i > w.pos, a[i] = j PROVE Ahead(G2, t, w2, j)
        <3>1. j \in s.rng[o]
            BY <2>3, <1>6
        <3>2. CASE j \notin t.rng[o]
            <4>1. \A h \in t.rng[o] : h < j
                BY <3>1, <3>2, <1>2
            <4> QED BY <4>1 DEF Ahead
        <3>3. CASE j \in t.rng[o]
            <4>1. PICK n \in 1 .. Len(b) : b[n] = j
                BY <3>3, <2>1, <1>7
            <4>2. ASSUME NEW h \in 1 .. i PROVE \E g \in 1 .. Len(b) : b[g] = a[h]
                <5>1. Len(a) \in Nat /\ i \in Nat
                    BY <1>5, <2>3
                <5>2. h \in 1 .. Len(a)
                    BY <5>1, <2>3
                <5>3. a[h] <= a[i]
                    <6>1. CASE h = i
                        BY <6>1, <2>3, <1>6
                    <6>2. CASE h # i
                        BY <6>2, <5>1, <5>2, <1>5, <1>6, <2>3 DEF Sorted
                    <6> QED BY <6>1, <6>2
                <5>4. a[h] \in t.rng[o]
                    <6> SUFFICES ASSUME a[h] \notin t.rng[o] PROVE FALSE
                        OBVIOUS
                    <6>1. a[h] \in s.rng[o] /\ a[h] \in Int
                        BY <5>2, <1>6
                    <6>2. j < a[h]
                        BY <6>1, <3>3, <1>2
                    <6> QED BY <6>1, <6>2, <5>3, <2>1, <2>3
                <5> QED BY <5>2, <5>4, <1>3, <1>6, <1>7
            <4>3. i <= n
                <5>1. b[n] = a[i]
                    BY <4>1, <2>3
                <5> HIDE DEF a, b
                <5>2. a \in Seq(Key) /\ b \in Seq(Key) /\ Sorted(a) /\ Sorted(b)
                    BY <1>5
                <5>3. i \in 1 .. Len(a) /\ n \in 1 .. Len(b)
                    BY <4>1, <2>3
                <5> QED BY ZenonT(40), <5>1, <5>2, <5>3, <4>2, NotEarlier
            <4>4. n > w.pos
                BY <4>1, <4>3, <2>3, <1>1
            <4> QED BY <4>1, <4>4 DEF Ahead
        <3> QED BY <3>2, <3>3
    <2> QED BY <2>2, <2>3, <1>1, <1>8 DEF Ahead
<1>9. OnTrack(G2, t, m2, w2)
    BY <1>1, <1>2, <1>3, <1>8 DEF OnTrack
<1> QED BY <1>9 DEF m2

(* The file of a traversal under way, unless a deletion went beside it.     *)
Follows(f, w) ==
    \E m \in Maps : Shows(f, m) /\ \E t : Living(f, t, m) /\ OnTrack(f.read, t, m, w)
WalkInv ==
    /\ Careful /\ LongWords = 1 /\ IsWalk(walk)
    /\ IF interrupted = {} THEN \E m \in Maps : Shows(file, m) ELSE walk.state = "off"
    /\ walk.state = "on" => (~walk.calm /\ walk.due = {}) \/ Follows(file, walk)

LEMMA BesideIs ==
    ASSUME NEW call, Beside(call), IsWalk(walk)
    PROVE  /\ interrupted = {} /\ interrupted' = {} /\ IsWalk(walk') /\ walk'.state = walk.state
           /\ walk.state = "on" => /\ walk'.at = walk.at /\ walk'.pos = walk.pos /\ ~walk'.calm
                                   /\ walk'.due = IF call = "insert" THEN walk.due ELSE {}
<1>1. /\ DOMAIN walk = {"state", "at", "pos", "due", "last", "calm", "ascending"}
      /\ walk = [x \in DOMAIN walk |-> walk[x]] /\ walk.ascending = TRUE
    BY DEF IsWalk
<1>2. CASE walk.state = "on"
    <2>1. walk' = [walk EXCEPT !.calm = FALSE, !.last = 0, !.due = IF call = "insert" THEN walk.due ELSE {}]
        BY <1>2 DEF Beside, Walking
    <2>2. /\ DOMAIN walk' = DOMAIN walk /\ walk' = [x \in DOMAIN walk' |-> walk'[x]]
          /\ walk'.calm = FALSE /\ walk'.ascending = TRUE /\ walk'.state = "on"
          /\ walk'.at = walk.at /\ walk'.pos = walk.pos
          /\ walk'.due = IF call = "insert" THEN walk.due ELSE {}
        BY <1>1, <1>2, <2>1
    <2>3. IsWalk(walk')
        BY <1>1, <2>2 DEF IsWalk
    <2> QED BY <1>2, <2>2, <2>3 DEF Beside
<1>3. CASE walk.state # "on"
    BY <1>3 DEF Beside, Walking
<1> QED BY <1>2, <1>3

LEMMA WalkInsert ==
    ASSUME WalkInv, NEW k \in Key, NEW v \in Value, Insert(k, v), Beside("insert")
    PROVE  WalkInv'
<1>1. /\ interrupted = {} /\ interrupted' = {} /\ IsWalk(walk') /\ walk'.state = walk.state
      /\ walk.state = "on" => /\ walk'.at = walk.at /\ walk'.pos = walk.pos /\ ~walk'.calm
                              /\ walk'.due = walk.due
    BY BesideIs DEF WalkInv
<1>2. Careful /\ LongWords = 1 /\ Careful'
    BY DEF WalkInv, Careful
<1>3. \E m \in Maps : Shows(file', m)
    <2>1. PICK m \in Maps : Shows(file, m)
        BY <1>1 DEF WalkInv
    <2> QED BY <2>1, <1>2, InsertStep
<1>4. ASSUME walk.state = "on", Follows(file, walk) PROVE Follows(file', walk')
    <2>0. PICK m \in Maps : Shows(file, m) /\ \E s : Living(file, s, m) /\ OnTrack(file.read, s, m, walk)
        BY <1>4 DEF Follows
    <2>1. PICK s : Shows(file, m) /\ Living(file, s, m) /\ OnTrack(file.read, s, m, walk)
        BY <2>0
    <2>2. IsTree(file.read, s, {}, {}) /\ Says(file.read, s, m) /\ Words(file)
        BY <2>1 DEF Living, Alive, Stored, Shows
    <2>3. CASE Rejects(file, k)
        <3>1. file' = file
            BY <2>3 DEF Insert
        <3>2. OnTrack(file.read, s, m, walk')
            BY <2>1, <1>1, <1>4 DEF OnTrack, Ahead
        <3> QED BY <3>1, <3>2, <2>1 DEF Follows
    <2>4. CASE ~Rejects(file, k)
        <3> DEFINE m2 == [m EXCEPT ![k] = v]
        <3>1. m2 \in Maps /\ Shows(file', m2)
            BY <2>1, <2>4, <1>2, InsertStep
        <3>2. file.retired = {} /\ file' = Done(InsertInto(file, k, v))
            BY <2>4, <1>2 DEF Insert, Careful
        <3>3. PICK t : Living(InsertInto(file, k, v), t, m2) /\ Heirs(s, t)
            BY <2>1, <2>2, <2>4, <3>2, <1>2, InsertLives
        <3>4. Living(file', t, m2)
            <4> HIDE DEF m2
            <4> QED BY <3>2, <3>3, DoneLives
        <3>5. IsTree(file'.read, t, {}, {}) /\ Says(file'.read, t, m2)
            BY <3>4 DEF Living, Alive, Stored
        <3>6. OnTrack(file'.read, t, m2, walk')
            BY <2>1, <2>2, <3>3, <3>5, <1>1, <1>4, InsertOnTrack
        <3> HIDE DEF m2
        <3> QED BY <3>1, <3>4, <3>6 DEF Follows
    <2> QED BY <2>3, <2>4
<1> QED BY <1>1, <1>2, <1>3, <1>4 DEF WalkInv

LEMMA WalkDelete ==
    ASSUME WalkInv, NEW k \in Key, Delete(k), Beside("delete")
    PROVE  WalkInv'
<1>1. /\ interrupted = {} /\ interrupted' = {} /\ IsWalk(walk') /\ walk'.state = walk.state
      /\ walk.state = "on" => ~walk'.calm /\ walk'.due = {}
    BY BesideIs DEF WalkInv
<1>2. Careful /\ LongWords = 1 /\ Careful'
    BY DEF WalkInv, Careful
<1>3. \E m \in Maps : Shows(file', m)
    <2>1. PICK m \in Maps : Shows(file, m)
        BY <1>1 DEF WalkInv
    <2> QED BY <2>1, <1>2, DeleteStep
<1> QED BY <1>1, <1>2, <1>3 DEF WalkInv

LEMMA WalkBegins ==
    ASSUME WalkInv, GetFirst
    PROVE  WalkInv'
<1> DEFINE w == [NoWalk EXCEPT !.state = "on", !.due = StoredKeys]
           a == GetField(file, LEFTLEAF)
<1>1. /\ Careful /\ LongWords = 1 /\ Careful' /\ interrupted = {} /\ interrupted' = {} /\ file' = file
      /\ a = 0 \/ StoredKeys # {}
      /\ walk' = IF a = 0 THEN [w EXCEPT !.state = "ended"] ELSE Returned(w, a, 0)
    BY DEF WalkInv, GetFirst, vars, Careful
<1>2. PICK m \in Maps : Shows(file, m)
    BY <1>1 DEF WalkInv
<1>3. StoredKeys = KeysIn(m)
    BY <1>2, StoredKeysAre
<1>4. a = file.hdr[3]
    BY <1>1 DEF GetField, LEFTLEAF
<1>5. /\ IsWalk(w) /\ w.state = "on" /\ w.pos = 0 /\ w.due = StoredKeys
    BY DEF IsWalk, NoWalk
<1> HIDE DEF w, a
<1>6. CASE a = 0
    <2>1. KeysIn(m) = {}
        <3>1. ASSUME NEW t, Living(file, t, m) PROVE FALSE
            BY <3>1, <1>1, <1>4, <1>6 DEF Living, First, Alive, Stored, IsTree, Placed
        <3> QED BY <3>1, <1>2 DEF Shows
    <2>2. walk' = [w EXCEPT !.state = "ended"]
        BY <1>1, <1>6
    <2>3. IsWalk(walk') /\ walk'.state = "ended"
        BY <2>1, <2>2, <1>3, <1>5 DEF IsWalk
    <2> QED BY <2>3, <1>1, <1>2 DEF WalkInv
<1>7. CASE a # 0
    <2>1. ~(Empty(file) /\ KeysIn(m) = {})
        BY <1>1, <1>3, <1>7
    <2>2. PICK t : Living(file, t, m)
        BY <2>1, <1>2 DEF Shows
    <2>3. IsTree(file.read, t, {}, {}) /\ Says(file.read, t, m) /\ First(t, a)
        BY <2>2, <1>1, <1>4 DEF Living, Alive, Stored
    <2>4. walk' = Returned(w, a, 0)
        BY <1>1, <1>7
    <2>5. IsWalk(walk') /\ walk'.state = "on" /\ OnTrack(file.read, t, m, walk')
        BY <2>3, <2>4, <1>3, <1>5, FirstOnTrack
    <2>6. Follows(file', walk')
        BY <2>2, <2>5, <1>1, <1>2 DEF Follows
    <2> QED BY <2>5, <2>6, <1>1, <1>2 DEF WalkInv
<1> QED BY <1>6, <1>7

LEMMA WalkGoesOn ==
    ASSUME WalkInv, GetNext
    PROVE  WalkInv'
<1>1. /\ Careful /\ LongWords = 1 /\ Careful' /\ file' = file /\ interrupted' = interrupted
      /\ walk.state = "on" /\ walk' = Step(walk) /\ IsWalk(walk)
    BY DEF WalkInv, GetNext, vars, Careful, Walking
<1>2. interrupted = {} /\ \E m \in Maps : Shows(file, m)
    BY <1>1 DEF WalkInv
<1>3. CASE Follows(file, walk)
    <2>0. PICK m \in Maps : Shows(file, m) /\ \E t : Living(file, t, m) /\ OnTrack(file.read, t, m, walk)
        BY <1>3 DEF Follows
    <2>1. PICK t : Shows(file, m) /\ Living(file, t, m) /\ OnTrack(file.read, t, m, walk)
        BY <2>0
    <2>2. IsTree(file.read, t, {}, {}) /\ Says(file.read, t, m)
        BY <2>1 DEF Living, Alive, Stored
    <2>3. IsWalk(walk') /\ (walk'.state = "on" => OnTrack(file.read, t, m, walk'))
        BY <2>1, <2>2, <1>1, StepOnTrack
    <2>4. walk'.state = "on" => Follows(file', walk')
        BY <2>1, <2>3, <1>1 DEF Follows
    <2> QED BY <2>3, <2>4, <1>1, <1>2 DEF WalkInv
<1>4. CASE ~walk.calm /\ walk.due = {}
    <2>1. ASSUME NEW o, NEW i, walk' = Returned(walk, o, i)
          PROVE  IsWalk(walk') /\ ~walk'.calm /\ walk'.due = {}
        <3> DEFINE key == file.read[o].keys[i + 1]
        <3>1. key = file.read[o].keys[i + 1] /\ (walk.calm /\ walk.pos # 0 => walk.last < key)
            BY <1>4
        <3> HIDE DEF key
        <3> DEFINE r == Returned(walk, o, i)
        <3>3. IsWalk(r) /\ r.calm = walk.calm /\ r.due = walk.due \ {key}
            BY <3>1, <1>1, ReturnedIs
        <3> HIDE DEF r
        <3>2. IsWalk(walk') /\ walk'.calm = walk.calm /\ walk'.due = walk.due \ {key}
            <4>1. walk' = r
                BY <2>1 DEF r
            <4> QED BY <3>3, <4>1
        <3> QED BY <3>2, <1>4
    <2>2. ASSUME walk' = Strays(walk) PROVE IsWalk(walk') /\ ~walk'.calm /\ walk'.due = {}
        <3>1. walk.calm = FALSE
            BY <1>1, <1>4 DEF IsWalk
        <3> QED BY <3>1, <2>2, <1>1, <1>4, StraysIs
    <2>3. ASSUME walk' = [walk EXCEPT !.state = "ended", !.at = 0] PROVE IsWalk(walk') /\ ~walk'.calm /\ walk'.due = {}
        BY <2>3, <1>1, <1>4 DEF IsWalk
    <2>4. \/ \E o, i : walk' = Returned(walk, o, i)
          \/ walk' = Strays(walk)
          \/ walk' = [walk EXCEPT !.state = "ended", !.at = 0]
        <3> DEFINE n == Len(file.read[walk.at].keys)
                   x == Last(file.read[walk.at].kids)
        <3>1. walk' = IF walk.pos < n THEN Returned(walk, walk.at, walk.pos)
                      ELSE IF walk.pos > n THEN Strays(walk)
                      ELSE IF x = 0 THEN [walk EXCEPT !.state = "ended", !.at = 0]
                      ELSE Returned(walk, x, 0)
            BY <1>1 DEF Step
        <3> HIDE DEF n, x
        <3> QED BY <3>1, Zenon
    <2>5. IsWalk(walk') /\ ~walk'.calm /\ walk'.due = {}
        BY <2>1, <2>2, <2>3, <2>4
    <2> QED BY <2>5, <1>1, <1>2 DEF WalkInv
<1> QED BY <1>1, <1>3, <1>4 DEF WalkInv

LEMMA WalkStep ==
    ASSUME WalkInv, [CursorNext]_cvars
    PROVE  WalkInv'
<1>0. Careful /\ LongWords = 1 /\ Careful' /\ IsWalk(walk)
    BY DEF WalkInv, Careful
<1>1. ASSUME NEW k \in Key, NEW v \in Value, Crash(k, v) PROVE WalkInv'
    <2>1. walk' = walk /\ walk.state = "off" /\ interrupted' # {}
        BY <1>1 DEF Crash
    <2> QED BY <2>1, <1>0 DEF WalkInv
<1>2. CASE walk.state = "off" /\ interrupted = {} /\ Reopen("rw") /\ UNCHANGED <<walk, interrupted>>
    <2>1. file' = Reopened(file)
        BY <1>2 DEF Reopen, Reopened
    <2>2. PICK m \in Maps : Shows(file, m)
        BY <1>2 DEF WalkInv
    <2>3. Shows(file', m)
        BY <2>1, <2>2, ReopenShows
    <2> QED BY <2>3, <1>0, <1>2 DEF WalkInv
<1>3. CASE EndWalk
    <2>1. /\ walk' = NoWalk /\ walk.state # "off" /\ file' = file /\ interrupted' = interrupted
        BY <1>3 DEF EndWalk, vars
    <2>2. IsWalk(walk') /\ walk'.state = "off"
        BY <2>1 DEF IsWalk, NoWalk
    <2>3. interrupted = {}
        BY <2>1 DEF WalkInv
    <2> QED BY <2>1, <2>2, <2>3, <1>0 DEF WalkInv
<1>4. CASE UNCHANGED cvars
    <2>1. walk' = walk /\ interrupted' = interrupted /\ file' = file
        BY <1>4 DEF cvars, vars
    <2> QED BY <2>1, <1>0 DEF WalkInv
<1>5. CASE CallAgain
    <2>1. /\ walk' = [walk EXCEPT !.state = "hung"] /\ walk.state = "ended"
          /\ file' = file /\ interrupted' = interrupted
        BY <1>5 DEF CallAgain, vars
    <2>2. IsWalk(walk') /\ walk'.state = "hung"
        BY <2>1, <1>0 DEF IsWalk
    <2>3. interrupted = {}
        BY <2>1 DEF WalkInv
    <2> QED BY <2>1, <2>2, <2>3, <1>0 DEF WalkInv
<1> QED BY <1>1, <1>2, <1>3, <1>4, <1>5, WalkInsert, WalkDelete, WalkBegins, WalkGoesOn DEF CursorNext

LEMMA WalkStarts ==
    ASSUME Careful, LongWords = 1, CursorInit
    PROVE  WalkInv
<1>1. IsWalk(walk) /\ walk.state = "off" /\ interrupted = {}
    BY DEF CursorInit, NoWalk, IsWalk
<1>2. \E m \in Maps : Shows(file, m)
    BY InitShows DEF CursorInit
<1> QED BY <1>1, <1>2 DEF WalkInv

(* For every order of at least 3 and wherever the walk stands: one that    *)
(* nothing disturbs returns all keys, ascending, and inserts beside it,    *)
(* with their splits, make it miss none (btreeGetFirstOffset,              *)
(* btreeGetNextOffset, btreeInsert).                                       *)
THEOREM WalkCompleteAlways == Careful /\ LongWords = 1 => (CursorSpec => []WalkComplete)
<1> SUFFICES ASSUME Careful, LongWords = 1 PROVE CursorSpec => []WalkComplete
    OBVIOUS
<1>1. CursorInit => WalkInv
    BY WalkStarts
<1>2. WalkInv /\ [CursorNext]_cvars => WalkInv'
    BY WalkStep
<1>3. WalkInv => WalkComplete
    BY DEF WalkInv, IsWalk, WalkComplete
<1> QED BY <1>1, <1>2, <1>3, PTL DEF CursorSpec

-----------------------------------------------------------------------------
(* A process that dies inside an insertion.                                *)

Follow(D, o) == IF o \in DOMAIN D THEN Last(D[o].kids) ELSE 0
LEMMA ChainIs ==
    ASSUME NEW D, IsFiniteSet(DOMAIN D), NEW V, NEW a \in V, \A o \in V : Follow(D, o) \in V
    PROVE  LET w == ChainOf(D, a)
               C == Cardinality(DOMAIN D)
           IN  /\ C \in Nat /\ DOMAIN w = 0 .. C /\ w[0] = a
               /\ \A n \in 1 .. C : w[n] = Follow(D, w[n - 1])
               /\ \A n \in 0 .. C : w[n] \in V
<1> DEFINE C == Cardinality(DOMAIN D)
           w == ChainOf(D, a)
           Body(u) == [n \in 0 .. C |->
                          IF n = 0 THEN a
                          ELSE IF u[n - 1] \in DOMAIN D THEN Last(D[u[n - 1]].kids) ELSE 0]
           step == [p \in Nat \X V |-> Follow(D, p[2])]
<1>1. C \in Nat
    BY FS_CardinalityType
<1> HIDE DEF C
<1>2. step \in [Nat \X V -> V]
    OBVIOUS
<1>3. PICK g \in [0 .. C -> V] : RunsTo(g, a, step, C)
    <2> HIDE DEF step
    <2>1. HasRun(V, a, step, C)
        BY <1>1, <1>2, RunExists
    <2> QED BY <2>1 DEF HasRun
<1>4. g = Body(g)
    <2> SUFFICES ASSUME NEW n \in 0 .. C PROVE g[n] = IF n = 0 THEN a ELSE Follow(D, g[n - 1])
        BY DEF Follow
    <2>1. CASE n = 0
        BY <2>1, <1>3 DEF RunsTo
    <2>2. CASE n # 0
        <3>1. n \in 1 .. C /\ n \in Nat /\ n - 1 \in 0 .. C
            BY <2>2, <1>1
        <3>2. g[n] = step[<<n, g[n - 1]>>]
            <4> HIDE DEF step
            <4> QED BY <3>1, <1>3 DEF RunsTo
        <3>3. g[n - 1] \in V
            BY <3>1
        <3> QED BY <3>1, <3>2, <3>3, <2>2
    <2> QED BY <2>1, <2>2
<1>5. w = Body(w)
    <2>1. w = CHOOSE u : u = Body(u)
        BY Zenon DEF ChainOf, C
    <2> HIDE DEF Body, w
    <2> QED BY <2>1, <1>4
<1> HIDE DEF w
<1>6. DOMAIN w = 0 .. C /\ \A n \in 0 .. C : w[n] = IF n = 0 THEN a ELSE Follow(D, w[n - 1])
    <2>1. /\ DOMAIN Body(w) = 0 .. C
          /\ \A n \in 0 .. C : Body(w)[n] = IF n = 0 THEN a ELSE Follow(D, w[n - 1])
        BY DEF Follow
    <2> HIDE DEF Body
    <2> QED BY <2>1, <1>5
<1>7. w[0] = a
    <2>1. 0 \in 0 .. C
        BY <1>1
    <2> QED BY <2>1, <1>6
<1>8. ASSUME NEW n \in 1 .. C PROVE w[n] = Follow(D, w[n - 1])
    <2>1. n \in 0 .. C /\ n # 0
        BY <1>1
    <2> QED BY <2>1, <1>6
<1> DEFINE A == {n \in Nat : n \in 0 .. C /\ w[n] \notin V}
<1>9. ASSUME A # {} PROVE FALSE
    <2>1. PICK n \in A : \A j \in A : n <= j
        <3>1. A \subseteq Nat
            OBVIOUS
        <3> HIDE DEF A
        <3> QED BY <1>9, <3>1, LeastIn
    <2>2. n # 0
        BY <2>1, <1>7
    <2>3. n \in 1 .. C /\ n - 1 \in Nat /\ n - 1 \in 0 .. C
        BY <2>1, <2>2, <1>1
    <2>4. w[n - 1] \in V
        BY <2>1, <2>3
    <2> QED BY <2>1, <2>3, <2>4, <1>8
<1>10. \A n \in 0 .. C : w[n] \in V
    <2> SUFFICES ASSUME NEW n \in 0 .. C PROVE w[n] \in V
        OBVIOUS
    <2>1. n \in Nat
        BY <1>1
    <2> QED BY <2>1, <1>9
<1> QED BY <1>1, <1>6, <1>7, <1>8, <1>10 DEF C, w

(* The leaves of t are on D, linked in key order from a.                    *)
IsLeaf(t, o) == o \in t.nodes /\ t.lev[o] = 0
LeafThere(D, t, o) ==
    /\ o \in DOMAIN D /\ Formed(D[o]) /\ Reaches(t.rng[o]) /\ Behind(t, o, Link(D[o]))
    /\ \A i \in 1 .. Len(D[o].keys) : D[o].keys[i] \in t.rng[o]
Strung(D, t, a) ==
    /\ IsFiniteSet(DOMAIN D) /\ 0 \notin DOMAIN D
    /\ First(t, a) /\ Apart(t)
    /\ \A o : IsLeaf(t, o) => LeafThere(D, t, o)
Under(t, o, p) == \A j \in t.rng[o], i \in t.rng[p] : j < i

LEMMA StrungFollow ==
    ASSUME NEW D, NEW t, NEW a, Strung(D, t, a), NEW o, IsLeaf(t, o)
    PROVE  /\ t.rng[o] # {} /\ t.rng[o] \subseteq Int /\ t.rng[o] \subseteq Key
           /\ Follow(D, o) = Link(D[o]) /\ Behind(t, o, Link(D[o]))
           /\ Link(D[o]) # 0 => IsLeaf(t, Link(D[o])) /\ Under(t, o, Link(D[o]))
<1>1. LeafThere(D, t, o)
    BY DEF Strung
<1>2. Len(D[o].kids) = Len(D[o].keys) + 1 /\ o \in DOMAIN D /\ Reaches(t.rng[o]) /\ Behind(t, o, Link(D[o]))
    BY <1>1 DEF LeafThere, Formed
<1>3. t.rng[o] # {} /\ t.rng[o] \subseteq Key
    BY <1>2 DEF Reaches
<1>4. t.rng[o] \subseteq Int
    BY <1>3, KeysAreInts
<1>5. Follow(D, o) = Link(D[o])
    BY <1>2 DEF Follow, Last, Link
<1> QED BY <1>2, <1>3, <1>4, <1>5 DEF Behind, NextTo, IsLeaf, Under

LEMMA BelowBelow ==
    ASSUME NEW t, NEW o, NEW p, NEW q, Under(t, o, p), Under(t, p, q),
           t.rng[p] # {}, t.rng[o] \subseteq Int, t.rng[p] \subseteq Int, t.rng[q] \subseteq Int
    PROVE  Under(t, o, q)
<1> SUFFICES ASSUME NEW j \in t.rng[o], NEW i \in t.rng[q] PROVE j < i
    BY DEF Under
<1>1. PICK h \in t.rng[p] : TRUE
    OBVIOUS
<1>2. j < h /\ h < i /\ j \in Int /\ h \in Int /\ i \in Int
    BY DEF Under
<1> QED BY <1>2

(* A leaf that has not been passed is still ahead.                          *)
LEMMA StillAhead ==
    ASSUME NEW D, NEW t, NEW a, Strung(D, t, a), NEW o, IsLeaf(t, o), NEW p, IsLeaf(t, p), Under(t, p, o)
    PROVE  Follow(D, p) = o \/ (IsLeaf(t, Follow(D, p)) /\ Under(t, Follow(D, p), o))
<1> DEFINE q == Link(D[p])
<1>1. /\ t.rng[p] # {} /\ t.rng[p] \subseteq Int /\ t.rng[p] \subseteq Key
      /\ Follow(D, p) = q /\ Behind(t, p, q)
      /\ q # 0 => IsLeaf(t, q) /\ Under(t, p, q)
    BY StrungFollow
<1>2. t.rng[o] # {} /\ t.rng[o] \subseteq Int /\ t.rng[o] \subseteq Key
    BY StrungFollow
<1> HIDE DEF q
<1>3. \A x, y : IsLeaf(t, x) /\ IsLeaf(t, y) /\ x # y => t.rng[x] \cap t.rng[y] = {}
    BY DEF Strung, Apart, IsLeaf
<1>4. p # o
    <2>1. PICK j \in t.rng[o] : j \in Int
        BY <1>2
    <2> QED BY <2>1 DEF Under
<1>5. PICK j \in t.rng[p] : j \in Int
    BY <1>1
<1>6. q # 0
    <2> SUFFICES ASSUME q = 0 PROVE FALSE
        OBVIOUS
    <2>1. PICK i \in t.rng[o] : i \in Key
        BY <1>2
    <2>2. j < i
        BY <1>5, <2>1 DEF Under
    <2>3. i \in t.rng[p]
        BY <1>1, <1>5, <2>1, <2>2 DEF Behind
    <2> QED BY <2>1, <2>3, <1>3, <1>4
<1>7. t.rng[q] \subseteq Int
    BY <1>1, <1>6, StrungFollow
<1>8. ASSUME q # o PROVE Under(t, q, o)
    <2> SUFFICES ASSUME NEW h \in t.rng[q], NEW i \in t.rng[o], ~(h < i) PROVE FALSE
        BY DEF Under
    <2>1. h # i
        BY <1>1, <1>3, <1>6, <1>8
    <2>2. j < i /\ i < h
        <3>1. h \in Int /\ i \in Int
            BY <1>2, <1>7
        <3>2. j < i
            BY <1>5 DEF Under
        <3> QED BY <3>1, <3>2, <2>1
    <2>3. i \in t.rng[p] \cup t.rng[q]
        BY <2>2, <1>1, <1>2, <1>5, <1>6 DEF Behind, NextTo
    <2> QED BY <2>3, <1>1, <1>3, <1>4, <1>6, <1>8
<1> QED BY <1>1, <1>6, <1>8

(* The chain's leaves: w is the chain of D from a, C the number of nodes.   *)
Passes(D, t, a, w, C) ==
    /\ C \in Nat /\ C = Cardinality(DOMAIN D) /\ DOMAIN w = 0 .. C /\ w[0] = a
    /\ \A n \in 1 .. C : w[n] = Follow(D, w[n - 1])
    /\ \A n \in 0 .. C : w[n] = 0 \/ IsLeaf(t, w[n])

LEMMA ChainPasses ==
    ASSUME NEW D, NEW t, NEW a, Strung(D, t, a)
    PROVE  Passes(D, t, a, ChainOf(D, a), Cardinality(DOMAIN D))
<1> DEFINE V == {o \in t.nodes : t.lev[o] = 0} \cup {0}
<1>1. a \in V /\ IsFiniteSet(DOMAIN D) /\ 0 \notin DOMAIN D
    BY DEF Strung, First
<1>2. ASSUME NEW o \in V PROVE Follow(D, o) \in V
    <2>1. CASE IsLeaf(t, o)
        BY <2>1, StrungFollow DEF IsLeaf
    <2>2. CASE o = 0
        BY <2>2, <1>1 DEF Follow
    <2> QED BY <2>1, <2>2 DEF IsLeaf
<1>3. \A o \in V : o = 0 \/ IsLeaf(t, o)
    BY DEF IsLeaf
<1> HIDE DEF V
<1> DEFINE w == ChainOf(D, a)
           C == Cardinality(DOMAIN D)
<1>4. /\ C \in Nat /\ DOMAIN w = 0 .. C /\ w[0] = a
      /\ \A n \in 1 .. C : w[n] = Follow(D, w[n - 1])
      /\ \A n \in 0 .. C : w[n] \in V
    BY <1>1, <1>2, ChainIs
<1> HIDE DEF w, C
<1>5. Passes(D, t, a, w, C)
    BY <1>3, <1>4 DEF Passes, C
<1> QED BY <1>5 DEF w, C

LEMMA ChainRises ==
    ASSUME NEW D, NEW t, NEW a, Strung(D, t, a), NEW w, NEW C, Passes(D, t, a, w, C),
           NEW m \in 0 .. C, NEW n \in 0 .. C, m < n, w[n] # 0
    PROVE  IsLeaf(t, w[m]) /\ IsLeaf(t, w[n]) /\ Under(t, w[m], w[n])
<1>1. C \in Nat /\ m \in Nat /\ n \in Nat
    BY DEF Passes
<1> DEFINE Good(j) == w[j] # 0 => IsLeaf(t, w[m]) /\ Under(t, w[m], w[j])
           A == {j \in Nat : m < j /\ j <= C /\ ~Good(j)}
<1>2. ASSUME A # {} PROVE FALSE
    <2>1. PICK j \in A : \A i \in A : j <= i
        <3>1. A \subseteq Nat
            OBVIOUS
        <3> HIDE DEF A
        <3> QED BY <1>2, <3>1, LeastIn
    <2> DEFINE i == j - 1
    <2>2. j \in 1 .. C /\ i \in Nat /\ i \in 0 .. C /\ j - 1 = i /\ (i = m \/ m < i) /\ ~(j <= i) /\ i <= C
        BY <2>1, <1>1
    <2>3. w[j] # 0 /\ ~Good(j)
        BY <2>1
    <2> HIDE DEF i
    <2>4. w[j] = Follow(D, w[i]) /\ (w[i] = 0 \/ IsLeaf(t, w[i]))
        BY <2>2 DEF Passes
    <2>5. w[i] # 0
        BY <2>3, <2>4 DEF Follow, Strung
    <2>6. IsLeaf(t, w[i]) /\ IsLeaf(t, w[j]) /\ Under(t, w[i], w[j]) /\ t.rng[w[i]] # {} /\ t.rng[w[i]] \subseteq Int
        BY <2>3, <2>4, <2>5, StrungFollow
    <2>7. CASE i = m
        BY <2>6, <2>7, <2>3
    <2>8. CASE m < i
        <3>1. i \notin A
            BY <2>1, <2>2
        <3>2. IsLeaf(t, w[m]) /\ Under(t, w[m], w[i])
            BY <3>1, <2>2, <2>8, <2>5
        <3>3. t.rng[w[m]] \subseteq Int /\ t.rng[w[j]] \subseteq Int
            BY <3>2, <2>6, StrungFollow
        <3>4. Under(t, w[m], w[j])
            BY <3>2, <3>3, <2>6, BelowBelow
        <3> QED BY <3>2, <3>4, <2>3
    <2> QED BY <2>2, <2>7, <2>8
<1>3. Good(n)
    BY <1>1, <1>2
<1>4. IsLeaf(t, w[n])
    BY DEF Passes
<1> QED BY <1>3, <1>4

(* No leaf is left out: there are no more steps than nodes.                 *)
LEMMA ChainCovers ==
    ASSUME NEW D, NEW t, NEW a, Strung(D, t, a), NEW w, NEW C, Passes(D, t, a, w, C), NEW o, IsLeaf(t, o)
    PROVE  \E n \in 0 .. C : w[n] = o
<1> SUFFICES ASSUME \A n \in 0 .. C : w[n] # o PROVE FALSE
    OBVIOUS
<1>1. C \in Nat
    BY DEF Passes
<1> DEFINE A == {n \in Nat : n \in 0 .. C /\ ~(IsLeaf(t, w[n]) /\ Under(t, w[n], o))}
<1>2. ASSUME A # {} PROVE FALSE
    <2>1. PICK n \in A : \A j \in A : n <= j
        <3>1. A \subseteq Nat
            OBVIOUS
        <3> HIDE DEF A
        <3> QED BY <1>2, <3>1, LeastIn
    <2>2. n # 0
        <3>1. First(t, a) /\ w[0] = a /\ 0 \in 0 .. C
            BY <1>1 DEF Strung, Passes
        <3>2. IsLeaf(t, a) /\ a # o
            BY <3>1 DEF First, IsLeaf
        <3>3. t.rng[a] \cap t.rng[o] = {}
            BY <3>2 DEF Strung, Apart, IsLeaf
        <3>4. t.rng[a] \subseteq Int /\ t.rng[o] \subseteq Int /\ t.rng[o] \subseteq Key
            BY <3>2, StrungFollow
        <3>5. ASSUME NEW j \in t.rng[a], NEW i \in t.rng[o] PROVE j < i
            <4>1. ~(i < j) /\ i # j
                BY <3>1, <3>3, <3>4 DEF First
            <4> QED BY <4>1, <3>4
        <3>6. Under(t, a, o)
            BY <3>5 DEF Under
        <3> QED BY <3>1, <3>2, <3>6, <2>1
    <2>3. n \in 1 .. C /\ n - 1 \in Nat /\ n - 1 \in 0 .. C /\ ~(n <= n - 1)
        BY <2>1, <2>2, <1>1
    <2>4. IsLeaf(t, w[n - 1]) /\ Under(t, w[n - 1], o)
        BY <2>1, <2>3
    <2>5. w[n] = Follow(D, w[n - 1]) /\ w[n] # o
        BY <2>3, <2>1 DEF Passes
    <2> QED BY <2>1, <2>4, <2>5, StillAhead
<1>3. \A n \in 0 .. C : IsLeaf(t, w[n]) /\ w[n] # 0
    <2> SUFFICES ASSUME NEW n \in 0 .. C PROVE IsLeaf(t, w[n]) /\ w[n] # 0
        OBVIOUS
    <2>1. n \in Nat
        BY <1>1
    <2>2. IsLeaf(t, w[n])
        BY <2>1, <1>2
    <2> QED BY <2>2 DEF Strung, LeafThere
<1> DEFINE f == [n \in 0 .. C |-> w[n]]
<1>4. f \in Injection(0 .. C, DOMAIN D)
    <2>1. \A n \in 0 .. C : f[n] \in DOMAIN D
        BY <1>3 DEF Strung, LeafThere
    <2>2. ASSUME NEW m \in 0 .. C, NEW n \in 0 .. C, m < n PROVE w[m] # w[n]
        <3>1. Under(t, w[m], w[n]) /\ t.rng[w[m]] # {} /\ t.rng[w[m]] \subseteq Int
            BY <2>2, <1>3, ChainRises, StrungFollow
        <3>2. PICK j \in t.rng[w[m]] : j \in Int
            BY <3>1
        <3> SUFFICES ASSUME w[m] = w[n] PROVE FALSE
            OBVIOUS
        <3>3. j < j
            BY <3>1, <3>2 DEF Under
        <3> QED BY <3>2, <3>3
    <2>3. \A m, n \in 0 .. C : f[m] = f[n] => m = n
        <3> SUFFICES ASSUME NEW m \in 0 .. C, NEW n \in 0 .. C, f[m] = f[n] PROVE m = n
            OBVIOUS
        <3>1. ~(m < n) /\ ~(n < m)
            BY <2>2
        <3> QED BY <3>1, <1>1
    <2> QED BY <2>1, <2>3 DEF Injection, IsInjective
<1>5. Cardinality(0 .. C) = C + 1
    <2>1. Cardinality(0 .. C) = IF 0 > C THEN 0 ELSE C - 0 + 1
        BY <1>1, FS_Interval
    <2> QED BY <2>1, <1>1
<1>6. Cardinality(0 .. C) <= C
    BY <1>4, FS_Injection DEF Passes, Strung
<1> QED BY <1>1, <1>5, <1>6

StoredIn(D, t, K) == \A k \in K : \E o : IsLeaf(t, o) /\ \E i \in 1 .. Len(D[o].keys) : D[o].keys[i] = k

LEMMA StrungInOrder ==
    ASSUME NEW D, NEW t, NEW a, Strung(D, t, a), NEW K, StoredIn(D, t, K)
    PROVE  InOrder(D, a, K)
<1> DEFINE w == ChainOf(D, a)
           C == Cardinality(DOMAIN D)
           leaves == {n \in DOMAIN w : w[n] \in DOMAIN D}
           at(n) == D[w[n]].keys
<1>1. Passes(D, t, a, w, C)
    BY ChainPasses
<1> HIDE DEF w, C
<1>2. DOMAIN w = 0 .. C
    BY <1>1 DEF Passes
<1>3. ASSUME NEW n \in leaves
      PROVE  /\ n \in 0 .. C /\ w[n] # 0 /\ IsLeaf(t, w[n]) /\ Formed(D[w[n]])
             /\ \A i \in ToSet(at(n)) : i \in t.rng[w[n]]
    <2>1. n \in 0 .. C /\ w[n] \in DOMAIN D
        BY <1>2
    <2>2. w[n] # 0 /\ IsLeaf(t, w[n])
        BY <2>1, <1>1 DEF Passes, Strung
    <2>3. LeafThere(D, t, w[n])
        BY <2>2 DEF Strung
    <2>4. \A i \in ToSet(at(n)) : i \in t.rng[w[n]]
        BY <2>3 DEF LeafThere, ToSet, Formed
    <2> QED BY <2>1, <2>2, <2>3, <2>4 DEF LeafThere
<1>4. ASSUME NEW k \in K PROVE \E n \in leaves : k \in ToSet(at(n))
    <2>1. PICK o : IsLeaf(t, o) /\ \E i \in 1 .. Len(D[o].keys) : D[o].keys[i] = k
        BY DEF StoredIn
    <2>2. PICK n \in 0 .. C : w[n] = o
        BY <2>1, <1>1, ChainCovers
    <2>3. LeafThere(D, t, o)
        BY <2>1 DEF Strung
    <2>4. n \in leaves
        BY <2>2, <2>3, <1>2 DEF LeafThere
    <2>5. k \in ToSet(D[o].keys)
        BY <2>1, <2>3 DEF LeafThere, Formed, ToSet
    <2> QED BY <2>2, <2>4, <2>5
<1>5. ASSUME NEW n \in leaves, NEW i \in 1 .. Len(at(n)), NEW j \in 1 .. Len(at(n)), i < j PROVE at(n)[i] < at(n)[j]
    BY <1>3, <1>5 DEF Formed, Sorted
<1>6. ASSUME NEW m \in leaves, NEW n \in leaves, m < n, NEW i \in ToSet(at(m)), NEW j \in ToSet(at(n)) PROVE i < j
    <2>1. /\ m \in 0 .. C /\ n \in 0 .. C /\ w[n] # 0 /\ i \in t.rng[w[m]] /\ j \in t.rng[w[n]]
        BY <1>3
    <2>2. Under(t, w[m], w[n])
        BY <2>1, <1>1, <1>6, ChainRises
    <2> QED BY <2>1, <2>2 DEF Under
<1> HIDE DEF leaves, at
<1>7. K \subseteq UNION {ToSet(at(n)) : n \in leaves}
    BY <1>4
<1>8. \A n \in leaves : \A i, j \in 1 .. Len(at(n)) : i < j => at(n)[i] < at(n)[j]
    BY <1>5
<1>9. \A m, n \in leaves : m < n => \A i \in ToSet(at(m)), j \in ToSet(at(n)) : i < j
    BY <1>6
<1> QED BY <1>7, <1>8, <1>9, Zenon DEF InOrder, leaves, at, w

(* There is no chain yet.                                                   *)
LEMMA NoChain ==
    ASSUME NEW D, IsFiniteSet(DOMAIN D), 0 \notin DOMAIN D, NEW a, a \notin DOMAIN D
    PROVE  InOrder(D, a, {})
<1> DEFINE V == {a, 0}
           w == ChainOf(D, a)
           leaves == {n \in DOMAIN w : w[n] \in DOMAIN D}
           at(n) == D[w[n]].keys
<1>1. a \in V /\ \A o \in V : Follow(D, o) \in V
    BY DEF Follow
<1>2. \A n \in DOMAIN w : w[n] \in V
    <2> HIDE DEF V
    <2> QED BY <1>1, ChainIs
<1>3. leaves = {}
    BY <1>2
<1> HIDE DEF leaves, at
<1>4. {} \subseteq UNION {ToSet(at(n)) : n \in leaves}
    OBVIOUS
<1>5. \A n \in leaves : \A i, j \in 1 .. Len(at(n)) : i < j => at(n)[i] < at(n)[j]
    BY <1>3
<1>6. \A m, n \in leaves : m < n => \A i \in ToSet(at(m)), j \in ToSet(at(n)) : i < j
    BY <1>3
<1> QED BY <1>4, <1>5, <1>6, Zenon DEF InOrder, leaves, at, w

(* The keys K are on the chain from a, or there is neither key nor chain.   *)
Held(D, a, K) == \E t : Strung(D, t, a) /\ StoredIn(D, t, K)
Whole(D, a, K) ==
    \/ Held(D, a, K)
    \/ K = {} /\ IsFiniteSet(DOMAIN D) /\ 0 \notin DOMAIN D /\ a \notin DOMAIN D

LEMMA WholeInOrder ==
    ASSUME NEW D, NEW a, NEW K, Whole(D, a, K)
    PROVE  InOrder(D, a, K)
<1>1. CASE Held(D, a, K)
    BY <1>1, StrungInOrder DEF Held
<1>2. CASE K = {} /\ IsFiniteSet(DOMAIN D) /\ 0 \notin DOMAIN D /\ a \notin DOMAIN D
    BY <1>2, NoChain
<1> QED BY <1>1, <1>2 DEF Whole

(* Two disks that differ in node o, which leads where it led or nowhere:    *)
(* the chains agree up to there.                                            *)
LEMMA TornChain ==
    ASSUME NEW D, NEW D2, NEW a, NEW o, IsFiniteSet(DOMAIN D), 0 \notin DOMAIN D, DOMAIN D2 = DOMAIN D,
           \A x \in DOMAIN D : x # o => D2[x] = D[x],
           (\E p \in DOMAIN ChainOf(D, a) : ChainOf(D, a)[p] = o) => Follow(D2, o) \in {Follow(D, o), 0}
    PROVE  LET w == ChainOf(D, a)
               w2 == ChainOf(D2, a)
           IN  /\ DOMAIN w \subseteq Nat /\ DOMAIN w2 = DOMAIN w
               /\ \A n \in DOMAIN w :
                    \/ w2[n] = w[n]
                    \/ w2[n] = 0 /\ Follow(D2, o) # Follow(D, o) /\ \E p \in DOMAIN w : p < n /\ w[p] = o
<1> DEFINE w == ChainOf(D, a)
           w2 == ChainOf(D2, a)
           C == Cardinality(DOMAIN D)
           V == {a, 0} \cup {Follow(D, x) : x \in DOMAIN D}
           V2 == {a, 0} \cup {Follow(D2, x) : x \in DOMAIN D2}
<1>1. a \in V /\ \A x \in V : Follow(D, x) \in V
    BY DEF Follow
<1>2. a \in V2 /\ \A x \in V2 : Follow(D2, x) \in V2
    BY DEF Follow
<1> HIDE DEF V, V2
<1>3. C \in Nat /\ DOMAIN w = 0 .. C /\ w[0] = a /\ \A n \in 1 .. C : w[n] = Follow(D, w[n - 1])
    BY <1>1, ChainIs
<1>4. DOMAIN w2 = 0 .. C /\ w2[0] = a /\ \A n \in 1 .. C : w2[n] = Follow(D2, w2[n - 1])
    BY <1>2, ChainIs
<1>5. \A p \in 0 .. C : w[p] = o => Follow(D2, o) \in {Follow(D, o), 0}
    BY <1>3
<1> HIDE DEF w, w2, C
<1> DEFINE Later(n) == w2[n] = 0 /\ Follow(D2, o) # Follow(D, o) /\ \E p \in 0 .. C : p < n /\ w[p] = o
           A == {n \in Nat : n <= C /\ w2[n] # w[n] /\ ~Later(n)}
<1>6. ASSUME A # {} PROVE FALSE
    <2>1. PICK n \in A : \A j \in A : n <= j
        <3>1. A \subseteq Nat
            OBVIOUS
        <3> HIDE DEF A
        <3> QED BY <1>6, <3>1, LeastIn
    <2>2. n # 0
        BY <2>1, <1>3, <1>4
    <2> DEFINE i == n - 1
    <2>3. n \in 1 .. C /\ i \in Nat /\ i \in 0 .. C /\ i < n /\ ~(n <= i) /\ i <= C /\ n - 1 = i
        BY <2>1, <2>2, <1>3
    <2>4. w2[n] # w[n] /\ ~Later(n)
        BY <2>1
    <2> HIDE DEF i
    <2>5. w2[i] = w[i] \/ Later(i)
        BY <2>1, <2>3
    <2>6. w[n] = Follow(D, w[i]) /\ w2[n] = Follow(D2, w2[i])
        BY <2>3, <1>3, <1>4
    <2>7. CASE Later(i)
        <3>1. w2[n] = 0
            BY <2>6, <2>7 DEF Follow
        <3>2. PICK p \in 0 .. C : p < i /\ w[p] = o
            BY <2>7
        <3>3. p < n
            BY <3>2, <2>3
        <3> QED BY <3>1, <3>2, <3>3, <2>7, <2>4
    <2>8. CASE w2[i] = w[i] /\ w[i] # o
        BY <2>8, <2>4, <2>6 DEF Follow
    <2>9. CASE w2[i] = w[i] /\ w[i] = o
        <3>1. Follow(D2, o) \in {Follow(D, o), 0}
            BY <2>9, <2>3, <1>5
        <3> QED BY <3>1, <2>9, <2>3, <2>4, <2>6
    <2> QED BY <2>5, <2>7, <2>8, <2>9
<1>7. ASSUME NEW n \in 0 .. C PROVE w2[n] = w[n] \/ Later(n)
    <2>1. n \in Nat /\ n <= C
        BY <1>3
    <2> QED BY <2>1, <1>6
<1>8. DOMAIN w \subseteq Nat /\ DOMAIN w2 = DOMAIN w
    BY <1>3, <1>4
<1> QED BY <1>3, <1>7, <1>8 DEF w, w2

(* A leaf that shows its first n keys, or that cannot be read: L are the    *)
(* keys that are asked of the chain then.                                   *)
Shown(was, node, n, L) ==
    /\ n \in 0 .. Len(was.keys) /\ node.keys = SubSeq(was.keys, 1, n)
    /\ \/ Last(node.kids) = Last(was.kids) /\ \A k \in L : \A i \in n + 1 .. Len(was.keys) : was.keys[i] # k
       \/ Last(node.kids) = 0 /\ \A k \in L : Len(was.keys) > 0 /\ k < was.keys[1]
LEMMA TornInOrder ==
    ASSUME NEW D, NEW a, NEW K, Whole(D, a, K), NEW o \in DOMAIN D, NEW D2, NEW node, NEW n, NEW L, L \subseteq K,
           DOMAIN D2 = DOMAIN D, D2[o] = node, \A x \in DOMAIN D : x # o => D2[x] = D[x],
           Formed(D[o]) => Shown(D[o], node, n, L)
    PROVE  InOrder(D2, a, L)
<1>1. CASE ~Held(D, a, K)
    BY <1>1, NoChain DEF Whole
<1>2. CASE Held(D, a, K)
    <2>1. PICK t : Strung(D, t, a) /\ StoredIn(D, t, K)
        BY <1>2 DEF Held
    <2> DEFINE w == ChainOf(D, a)
               w2 == ChainOf(D2, a)
               leaves == {i \in DOMAIN w : w[i] \in DOMAIN D}
               at(i) == D[w[i]].keys
               leaves2 == {i \in DOMAIN w2 : w2[i] \in DOMAIN D2}
               at2(i) == D2[w2[i]].keys
    <2>2. InOrder(D, a, K)
        BY <2>1, StrungInOrder
    <2>3. /\ K \subseteq UNION {ToSet(at(i)) : i \in leaves}
          /\ \A i \in leaves : \A j, h \in 1 .. Len(at(i)) : j < h => at(i)[j] < at(i)[h]
          /\ \A i, j \in leaves : i < j => \A h \in ToSet(at(i)), l \in ToSet(at(j)) : h < l
        BY <2>2, Zenon DEF InOrder
    <2>4. ASSUME NEW i \in leaves PROVE w[i] # 0 /\ Formed(D[w[i]])
        <3>1. Passes(D, t, a, w, Cardinality(DOMAIN D))
            BY <2>1, ChainPasses
        <3>2. w[i] # 0 /\ IsLeaf(t, w[i])
            BY <3>1, <2>1 DEF Passes, Strung
        <3> QED BY <3>2, <2>1 DEF Strung, LeafThere
    <2>5. IsFiniteSet(DOMAIN D) /\ 0 \notin DOMAIN D
        BY <2>1 DEF Strung
    <2>6. ASSUME NEW p \in DOMAIN w, w[p] = o PROVE Formed(D[o]) /\ Shown(D[o], node, n, L)
        BY <2>4, <2>6
    <2>7. ASSUME NEW p \in DOMAIN w, w[p] = o PROVE Follow(D2, o) \in {Follow(D, o), 0}
        BY <2>6, <2>7 DEF Shown, Follow
    <2>8. /\ DOMAIN w \subseteq Nat /\ DOMAIN w2 = DOMAIN w
          /\ \A i \in DOMAIN w :
               \/ w2[i] = w[i]
               \/ w2[i] = 0 /\ Follow(D2, o) # Follow(D, o) /\ \E p \in DOMAIN w : p < i /\ w[p] = o
        <3>1. (\E p \in DOMAIN w : w[p] = o) => Follow(D2, o) \in {Follow(D, o), 0}
            BY <2>7
        <3> QED BY <3>1, <2>5, TornChain
    <2> HIDE DEF w, w2
    <2>9. ASSUME NEW i \in leaves2
          PROVE  i \in leaves /\ w2[i] = w[i] /\ Len(at2(i)) <= Len(at(i)) /\ Len(at2(i)) \in Nat /\ Len(at(i)) \in Nat
                 /\ at2(i) \in Seq(Key) /\ \A j \in 1 .. Len(at2(i)) : at2(i)[j] = at(i)[j]
        <3>1. w2[i] \in DOMAIN D /\ i \in DOMAIN w
            BY <2>8
        <3>2. w2[i] = w[i] /\ i \in leaves
            BY <3>1, <2>5, <2>8
        <3>3. at(i) \in Seq(Key)
            BY <3>2, <2>4 DEF Formed
        <3>4. CASE w[i] # o
            <4>1. at2(i) = at(i)
                BY <3>2, <3>4
            <4> HIDE DEF at, at2
            <4> QED BY <4>1, <3>2, <3>3
        <3>5. CASE w[i] = o
            <4>1. at2(i) = SubSeq(at(i), 1, n) /\ n \in 0 .. Len(at(i))
                BY <3>2, <3>5, <2>6 DEF Shown
            <4> HIDE DEF at, at2
            <4>2. at2(i) = [j \in 1 .. n |-> at(i)[j]]
                BY <4>1, <3>3
            <4> QED BY <4>1, <4>2, <3>2, <3>3
        <3> QED BY <3>4, <3>5
    <2>10. ASSUME NEW k \in L PROVE \E i \in leaves2 : k \in ToSet(at2(i))
        <3>1. PICK i \in leaves : k \in ToSet(at(i))
            BY <2>3
        <3>2. at(i) \in Seq(Key) /\ i \in DOMAIN w
            BY <2>4 DEF Formed
        <3>3. PICK j \in 1 .. Len(at(i)) : at(i)[j] = k
            BY <3>1, <3>2 DEF ToSet
        <3>7. k \in Int /\ Len(at(i)) \in Nat
            <4> HIDE DEF at
            <4>1. at(i)[j] \in Key
                BY <3>2, <3>3
            <4>2. at(i)[j] \in Int
                BY <4>1, KeysAreInts
            <4>3. k \in Int
                BY <4>2, <3>3
            <4>4. Len(at(i)) \in Nat
                BY <3>2
            <4> QED BY <4>3, <4>4
        <3>4. CASE w2[i] = w[i] /\ w[i] # o
            <4>1. i \in leaves2 /\ at2(i) = at(i)
                BY <3>2, <3>4, <2>8
            <4> QED BY <4>1, <3>1
        <3>5. CASE w2[i] = w[i] /\ w[i] = o
            <4>1. i \in leaves2 /\ Shown(D[o], node, n, L) /\ at2(i) = node.keys /\ at(i) = D[o].keys
                BY <3>2, <3>5, <2>6, <2>8
            <4> HIDE DEF at, at2, leaves, leaves2
            <4>2. CASE \A h \in n + 1 .. Len(at(i)) : at(i)[h] # k
                <5>1. n \in 0 .. Len(at(i)) /\ at2(i) = SubSeq(at(i), 1, n)
                    BY <4>1 DEF Shown
                <5>2. j \in 1 .. n
                    BY <5>1, <4>2, <3>2, <3>3
                <5>3. at2(i) = [h \in 1 .. n |-> at(i)[h]] /\ DOMAIN at2(i) = 1 .. n
                    BY <5>1, <3>2
                <5>4. at2(i)[j] = k
                    BY <5>2, <5>3, <3>3
                <5> QED BY <5>2, <5>3, <5>4, <4>1 DEF ToSet
            <4>3. CASE Len(at(i)) > 0 /\ k < at(i)[1]
                <5>1. 1 \in 1 .. Len(at(i)) /\ k \in Int /\ at(i)[1] \in Int
                    <6>1. 1 \in 1 .. Len(at(i))
                        BY <3>7, <4>3
                    <6>2. at(i)[1] \in Key
                        BY <6>1, <3>2
                    <6> QED BY <6>1, <6>2, <3>7, KeysAreInts
                <5>2. j = 1 \/ 1 < j
                    BY <3>2, <3>3
                <5>3. at(i)[1] = k \/ at(i)[1] < k
                    BY <5>1, <5>2, <2>3, <3>3
                <5> QED BY <5>1, <5>3, <4>3
            <4> QED BY <4>1, <4>2, <4>3 DEF Shown
        <3>6. CASE w2[i] # w[i]
            <4>1. PICK p \in DOMAIN w : p < i /\ w[p] = o /\ w2[i] = 0 /\ Follow(D2, o) # Follow(D, o)
                BY <3>2, <3>6, <2>8
            <4>2. Formed(D[o]) /\ Shown(D[o], node, n, L) /\ p \in leaves /\ at(p) = D[o].keys
                BY <4>1, <2>6
            <4>3. Len(at(p)) > 0 /\ k < at(p)[1]
                <5>1. Last(node.kids) # Last(D[o].kids)
                    BY <4>1 DEF Follow
                <5> QED BY <5>1, <4>2 DEF Shown
            <4>4. at(p)[1] \in ToSet(at(p)) /\ at(p)[1] \in Int /\ k \in Int
                <5>1. at(p) \in Seq(Key)
                    BY <4>2 DEF Formed
                <5> HIDE DEF at
                <5>2. 1 \in 1 .. Len(at(p))
                    BY <5>1, <4>3
                <5>3. at(p)[1] \in Key
                    BY <5>1, <5>2
                <5>4. at(p)[1] \in Int
                    BY <5>3, KeysAreInts
                <5>5. at(p)[1] \in ToSet(at(p))
                    BY <5>1, <5>2 DEF ToSet
                <5> QED BY <5>4, <5>5, <3>7
            <4>5. at(p)[1] < k
                <5>1. p \in leaves /\ i \in leaves /\ p < i
                    BY <4>1, <4>2
                <5>2. at(p)[1] \in ToSet(at(p)) /\ k \in ToSet(at(i))
                    BY <4>4, <3>1
                <5> HIDE DEF at, leaves
                <5> QED BY <5>1, <5>2, <2>3
            <4> QED BY <4>3, <4>4, <4>5
        <3> QED BY <3>4, <3>5, <3>6
    <2> HIDE DEF leaves, leaves2, at, at2
    <2>11. L \subseteq UNION {ToSet(at2(i)) : i \in leaves2}
        BY <2>10
    <2>12. \A i \in leaves2 : \A j, h \in 1 .. Len(at2(i)) : j < h => at2(i)[j] < at2(i)[h]
        <3> SUFFICES ASSUME NEW i \in leaves2, NEW j \in 1 .. Len(at2(i)), NEW h \in 1 .. Len(at2(i)), j < h
                     PROVE  at2(i)[j] < at2(i)[h]
            OBVIOUS
        <3>1. i \in leaves /\ j \in 1 .. Len(at(i)) /\ h \in 1 .. Len(at(i)) /\ at2(i)[j] = at(i)[j] /\ at2(i)[h] = at(i)[h]
            BY <2>9
        <3> QED BY <3>1, <2>3
    <2>13. \A i, j \in leaves2 : i < j => \A h \in ToSet(at2(i)), l \in ToSet(at2(j)) : h < l
        <3>1. ASSUME NEW i \in leaves2, NEW h \in ToSet(at2(i)) PROVE h \in ToSet(at(i))
            <4>1. at2(i) \in Seq(Key) /\ at(i) \in Seq(Key)
                <5>1. i \in leaves
                    BY <2>9
                <5> QED BY <5>1, <2>4, <2>9 DEF Formed, leaves, at
            <4>2. PICK j \in 1 .. Len(at2(i)) : at2(i)[j] = h
                BY <4>1, <3>1 DEF ToSet
            <4>3. j \in 1 .. Len(at(i)) /\ at(i)[j] = h
                BY <4>2, <2>9
            <4> QED BY <4>1, <4>3 DEF ToSet
        <3> QED BY <3>1, <2>3, <2>9
    <2> QED BY <2>11, <2>12, <2>13, Zenon DEF InOrder, leaves2, at2, w2
<1> QED BY <1>1, <1>2

LEMMA CutInOrder ==
    ASSUME NEW e, NEW K, Whole(e.disk, e.hdr[3], K), NEW o \in DOMAIN e.disk, NEW n,
           Formed(e.disk[o]) => n \in 0 .. Len(e.disk[o].keys)
    PROVE  LET c == CutShort(e, o, n, K) IN InOrder(c.disk, c.hdr[3], c.keys)
<1> DEFINE D == e.disk
           c == CutShort(e, o, n, K)
           D2 == c.disk
           L == c.keys
           node == D2[o]
<1>1. c.hdr = e.hdr
    BY DEF CutShort
<1>2. D2 = [e.disk EXCEPT ![o].keys = SubSeq(e.disk[o].keys, 1, n)]
    BY DEF CutShort
<1>3. L = {k \in K : \A i \in n + 1 .. Len(e.disk[o].keys) : e.disk[o].keys[i] # k}
    BY DEF CutShort
<1> HIDE DEF c
<1>4. DOMAIN D2 = DOMAIN D /\ \A x \in DOMAIN D : x # o => D2[x] = D[x]
    BY <1>2
<1>5. ASSUME Formed(D[o]) PROVE Shown(D[o], node, n, L)
    <2> DEFINE d == D[o]
    <2>1. node.keys = SubSeq(d.keys, 1, n) /\ node.kids = d.kids /\ n \in 0 .. Len(d.keys)
        BY <1>2, <1>5 DEF Formed
    <2>2. \A k \in L : \A i \in n + 1 .. Len(d.keys) : d.keys[i] # k
        BY <1>3
    <2> HIDE DEF d, node, L
    <2> QED BY <2>1, <2>2 DEF Shown, d
<1>6. L \subseteq K
    BY <1>3
<1>8. D2[o] = node
    OBVIOUS
<1> HIDE DEF D2, node, L
<1>7. InOrder(D2, e.hdr[3], L)
    BY <1>4, <1>5, <1>6, <1>8, TornInOrder
<1> QED BY <1>1, <1>7 DEF c, D2, L

LEMMA BrokenInOrder ==
    ASSUME NEW e, NEW K, Whole(e.disk, e.hdr[3], K), NEW o \in DOMAIN e.disk
    PROVE  LET c == Broken(e, o, K) IN InOrder(c.disk, c.hdr[3], c.keys)
<1> DEFINE D == e.disk
           node == Leaf(<<>>, <<0>>)
           D2 == [D EXCEPT ![o] = node]
           L == {k \in K : Len(D[o].keys) > 0 /\ k < D[o].keys[1]}
           c == Broken(e, o, K)
<1>1. c.disk = D2 /\ c.hdr = e.hdr /\ c.keys = L
    BY DEF Broken
<1>2. DOMAIN D2 = DOMAIN D /\ D2[o] = node /\ \A x \in DOMAIN D : x # o => D2[x] = D[x]
    OBVIOUS
<1>3. ASSUME Formed(D[o]) PROVE Shown(D[o], node, 0, L)
    <2> DEFINE d == D[o]
    <2>1. node.keys = <<>> /\ Last(node.kids) = 0
        BY DEF Leaf, Last
    <2>2. d.keys \in Seq(Key)
        BY <1>3 DEF Formed
    <2>3. SubSeq(d.keys, 1, 0) = <<>> /\ 0 \in 0 .. Len(d.keys)
        BY <2>2
    <2>4. \A k \in L : Len(d.keys) > 0 /\ k < d.keys[1]
        OBVIOUS
    <2> HIDE DEF d, node, L
    <2> QED BY <2>1, <2>3, <2>4 DEF Shown, d
<1>4. L \subseteq K
    OBVIOUS
<1> HIDE DEF D2, node, L
<1>5. InOrder(D2, e.hdr[3], L)
    BY <1>2, <1>3, <1>4, TornInOrder
<1> QED BY <1>1, <1>5

(* Whatever a write that is cut off leaves.                                 *)
LEMMA TornKeeps ==
    ASSUME NEW was, NEW is, NEW K, Whole(was.disk, was.hdr[3], K), Whole(is.disk, is.hdr[3], K),
           NEW left \in Torn(was, is, K)
    PROVE  InOrder(left.disk, left.hdr[3], left.keys)
<1>1. PICK o \in DOMAIN was.disk \cap DOMAIN is.disk : left \in TornAt(was, is, o, K)
    BY DEF Torn
<1> DEFINE old == was.disk[o].keys
           new == is.disk[o].keys
           both == {i \in DOMAIN old : old[i] \in ToSet(new)}
<1>2. \/ \E n \in Cardinality(both) .. Len(old) : left = CutShort(was, o, n, K)
      \/ \E n \in 0 .. Len(new) : left = CutShort(is, o, n, K)
      \/ left = Broken(was, o, K)
    <2>1. TornAt(was, is, o, K) = {CutShort(was, o, n, K) : n \in Cardinality(both) .. Len(old)}
                                    \cup {CutShort(is, o, n, K) : n \in 0 .. Len(new)}
                                    \cup {Broken(was, o, K)}
        BY DEF TornAt
    <2> HIDE DEF both, old, new
    <2> QED BY <1>1, <2>1
<1>3. ASSUME NEW n \in Cardinality(both) .. Len(old), left = CutShort(was, o, n, K)
      PROVE  InOrder(left.disk, left.hdr[3], left.keys)
    <2>1. ASSUME Formed(was.disk[o]) PROVE n \in 0 .. Len(old)
        <3>1. old \in Seq(Key)
            BY <2>1 DEF Formed
        <3> HIDE DEF old, new
        <3>2. IsFiniteSet(DOMAIN old) /\ Len(old) \in Nat
            BY <3>1, FS_Interval
        <3>4. IsFiniteSet(both)
            BY <3>2, FS_Subset
        <3>5. Cardinality(both) \in Nat
            BY <3>4, FS_CardinalityType
        <3> HIDE DEF both
        <3> QED BY <3>2, <3>5
    <2> HIDE DEF both
    <2>2. LET c == CutShort(was, o, n, K) IN InOrder(c.disk, c.hdr[3], c.keys)
        BY <2>1, CutInOrder
    <2> QED BY <1>3, <2>2
<1>4. ASSUME NEW n \in 0 .. Len(new), left = CutShort(is, o, n, K)
      PROVE  InOrder(left.disk, left.hdr[3], left.keys)
    <2>1. LET c == CutShort(is, o, n, K) IN InOrder(c.disk, c.hdr[3], c.keys)
        BY CutInOrder
    <2> QED BY <1>4, <2>1
<1>5. CASE left = Broken(was, o, K)
    <2>1. LET c == Broken(was, o, K) IN InOrder(c.disk, c.hdr[3], c.keys)
        BY BrokenInOrder
    <2> QED BY <1>5, <2>1
<1> HIDE DEF both, old, new
<1> QED BY <1>2, <1>3, <1>4, <1>5

(* A node more on disk is not in the way.                                   *)
LEMMA HeldMore ==
    ASSUME NEW D, NEW a, NEW K, Held(D, a, K), NEW q, q # 0, q \notin DOMAIN D, NEW node
    PROVE  Held(Put(D, q, node), a, K)
<1> DEFINE D2 == Put(D, q, node)
<1>1. PICK t : Strung(D, t, a) /\ StoredIn(D, t, K)
    BY DEF Held
<1>2. DOMAIN D2 = DOMAIN D \cup {q} /\ \A x \in DOMAIN D : D2[x] = D[x]
    BY DEF Put
<1> HIDE DEF D2
<1>3. IsFiniteSet(DOMAIN D2) /\ 0 \notin DOMAIN D2
    BY <1>1, <1>2, FS_AddElement DEF Strung
<1>4. \A o : IsLeaf(t, o) => o \in DOMAIN D /\ D2[o] = D[o]
    BY <1>1, <1>2 DEF Strung, LeafThere
<1>5. ASSUME NEW o, IsLeaf(t, o) PROVE LeafThere(D2, t, o)
    <2>1. LeafThere(D, t, o) /\ D2[o] = D[o] /\ o \in DOMAIN D2
        BY <1>1, <1>2, <1>4, <1>5 DEF Strung
    <2> QED BY <2>1 DEF LeafThere
<1>6. Strung(D2, t, a)
    BY <1>1, <1>3, <1>5 DEF Strung
<1>7. StoredIn(D2, t, K)
    BY <1>1, <1>4 DEF StoredIn
<1> QED BY <1>6, <1>7 DEF Held, D2

(* The keys of a tree whose leaves have all been written.                   *)
LEMMA TreeHeld ==
    ASSUME NEW f, NEW N, Kept(f, N), f.dirty = {}, NEW G, NEW t, NEW big, NEW small, IsTree(G, t, big, small),
           \A o : IsLeaf(t, o) => o \in N /\ G[o] = f.read[o],
           NEW a, First(t, a), NEW K, \A k \in K : \E v : Entry(G, t, k, v)
    PROVE  Held(f.disk, a, K)
<1> DEFINE D == f.disk
<1>1. IsFiniteSet(DOMAIN D) /\ 0 \notin DOMAIN D
    <2>1. \A o \in N : o \in 1 .. f.end - 1
        BY DEF Kept
    <2>2. 0 \notin N
        BY <2>1
    <2> QED BY <2>2 DEF Kept
<1>2. ASSUME NEW o, IsLeaf(t, o) PROVE o \in DOMAIN D /\ D[o] = G[o] /\ o \in t.nodes /\ t.lev[o] = 0
    BY <1>2 DEF Kept, IsLeaf
<1> HIDE DEF D
<1>3. ASSUME NEW o, IsLeaf(t, o) PROVE LeafThere(D, t, o)
    <2>1. o \in DOMAIN D /\ D[o] = G[o] /\ o \in t.nodes /\ t.lev[o] = 0
        BY <1>2, <1>3
    <2>2. Local(G, t, o) /\ Reaches(t.rng[o]) /\ Behind(t, o, Link(G[o]))
        BY <2>1 DEF IsTree, Placed, Linked
    <2> QED BY <2>1, <2>2 DEF LeafThere, Local
<1>4. Strung(D, t, a)
    BY <1>1, <1>3 DEF Strung, IsTree
<1>5. ASSUME NEW k \in K PROVE \E o : IsLeaf(t, o) /\ \E i \in 1 .. Len(D[o].keys) : D[o].keys[i] = k
    <2>1. PICK v : Entry(G, t, k, v)
        OBVIOUS
    <2>2. PICK o \in t.nodes : t.lev[o] = 0 /\ Keeps(G[o], k, v)
        BY <2>1 DEF Entry
    <2>3. IsLeaf(t, o) /\ D[o] = G[o]
        BY <2>2, <1>2 DEF IsLeaf
    <2> QED BY <2>2, <2>3 DEF Keeps
<1>6. StoredIn(D, t, K)
    BY <1>5 DEF StoredIn
<1> QED BY <1>4, <1>6 DEF Held, D

(* What a process that dies after any write of the call leaves.             *)
Logs(f, K) == \E S : f.log \in Seq(S) /\ \A e \in S : Whole(e.disk, e.hdr[3], K)

LEMMA LogMore ==
    ASSUME NEW f, IsFile(f), NEW K, Logs(f, K), Whole(f.disk, f.hdr[3], K)
    PROVE  Logs(Logged(f), K)
<1> DEFINE e == [disk |-> f.disk, hdr |-> f.hdr, free |-> f.free, end |-> f.end]
           g == Logged(f)
<1>1. PICK S : f.log \in Seq(S) /\ \A x \in S : Whole(x.disk, x.hdr[3], K)
    BY DEF Logs
<1>2. g.log = Append(f.log, e)
    BY DEF IsFile, Logged
<1>3. e.disk = f.disk /\ e.hdr = f.hdr
    OBVIOUS
<1> HIDE DEF g, e
<1>4. Append(f.log, e) \in Seq(S \cup {e})
    <2>1. f.log \in Seq(S \cup {e})
        BY <1>1
    <2> QED BY <2>1
<1>5. \A x \in S \cup {e} : Whole(x.disk, x.hdr[3], K)
    BY <1>1, <1>3
<1> QED BY <1>2, <1>4, <1>5 DEF Logs, g

LEMMA SaveLogs ==
    ASSUME NEW f, IsFile(f), NEW o \in DOMAIN f.read, NEW node, NEW K, Logs(f, K),
           NEW g, g = SaveNode(f, o, node), Whole(g.disk, g.hdr[3], K)
    PROVE  Logs(g, K)
<1> DEFINE h == SetNode(f, o, node)
           x == [h EXCEPT !.disk = Put(@, o, h.read[o]), !.dirty = @ \ {o}]
<1>1. /\ h.dirty = f.dirty \cup {o} /\ h.log = f.log /\ h.hdr = f.hdr /\ IsFile(h)
    <2>1. /\ h.dirty = f.dirty \cup {o} /\ h.log = f.log /\ h.hdr = f.hdr /\ DOMAIN h = DOMAIN f
          /\ h.disk = f.disk /\ h.read = [f.read EXCEPT ![o] = node]
        BY DEF SetNode, IsFile
    <2> HIDE DEF h
    <2>2. IsFile(h)
        BY <2>1 DEF IsFile
    <2> QED BY <2>1, <2>2
<1>2. g = WriteNode(h, o)
    BY DEF SaveNode
<1> HIDE DEF h
<1>3. g = Logged(x)
    BY <1>1, <1>2 DEF WriteNode
<1>4. /\ x.log = f.log /\ IsFile(x)
    <2>1. /\ x.log = h.log /\ DOMAIN x = DOMAIN h /\ x.read = h.read
          /\ x.disk = Put(h.disk, o, h.read[o])
        BY <1>1 DEF IsFile
    <2>2. x.disk = [p \in DOMAIN x.disk |-> x.disk[p]]
        <3> HIDE DEF x
        <3> QED BY <2>1 DEF Put
    <2> HIDE DEF x
    <2> QED BY <2>1, <2>2, <1>1 DEF IsFile
<1> HIDE DEF x
<1>5. g.disk = x.disk /\ g.hdr = x.hdr
    BY <1>3, <1>4 DEF Logged, IsFile
<1>6. Logs(x, K)
    BY <1>4 DEF Logs
<1> QED BY <1>3, <1>4, <1>5, <1>6, LogMore

LEMMA AddLogs ==
    ASSUME NEW f, NEW N, Kept(f, N), f.retired = {}, NEW node, NEW K, Logs(f, K),
           NEW g, g = AddNode(f, node)
    PROVE  /\ g.disk = Put(f.disk, NewOffset(f), node) /\ g.hdr = f.hdr
           /\ Whole(g.disk, g.hdr[3], K) => Logs(g, K)
<1> DEFINE q == NewOffset(f)
           x == [f EXCEPT !.free = @ \ {q}, !.end  = IF q = @ THEN @ + 1 ELSE @,
                          !.disk = Put(@, q, node),
                          !.read = IF q \in f.retired THEN @ ELSE Put(@, q, node)]
<1>1. IsFile(f)
    BY DEF Kept
<1>2. g = Logged(x)
    BY DEF AddNode
<1>3. /\ x.log = f.log /\ x.hdr = f.hdr /\ DOMAIN x = DOMAIN f
      /\ x.disk = Put(f.disk, q, node) /\ x.read = Put(f.read, q, node)
    BY <1>1 DEF IsFile
<1> HIDE DEF x, q
<1>4. IsFile(x)
    <2>1. x.disk = [p \in DOMAIN x.disk |-> x.disk[p]] /\ x.read = [p \in DOMAIN x.read |-> x.read[p]]
        BY <1>3 DEF Put
    <2> QED BY <2>1, <1>1, <1>3 DEF IsFile
<1>5. g.disk = x.disk /\ g.hdr = x.hdr
    BY <1>2, <1>4 DEF Logged, IsFile
<1>6. Logs(x, K)
    BY <1>3 DEF Logs
<1>7. ASSUME Whole(g.disk, g.hdr[3], K) PROVE Logs(g, K)
    BY <1>2, <1>4, <1>5, <1>6, <1>7, LogMore
<1> QED BY <1>3, <1>5, <1>7 DEF q

LEMMA FieldLogs ==
    ASSUME NEW f, IsFile(f), LongWords = 1, NEW i, NEW long, NEW K, Logs(f, K),
           NEW g, g = SetField(f, i, long)
    PROVE  /\ g.disk = f.disk /\ g.hdr = [f.hdr EXCEPT ![i] = long]
           /\ Whole(g.disk, g.hdr[3], K) => Logs(g, K)
<1> DEFINE x == [f EXCEPT !.hdr[i] = long]
<1>1. g = Logged(x)
    BY DEF SetField
<1>2. /\ x.log = f.log /\ x.hdr = [f.hdr EXCEPT ![i] = long] /\ DOMAIN x = DOMAIN f
      /\ x.disk = f.disk /\ x.read = f.read
    BY DEF IsFile
<1> HIDE DEF x
<1>3. IsFile(x)
    BY <1>2 DEF IsFile
<1>4. g.disk = x.disk /\ g.hdr = x.hdr
    BY <1>1, <1>3 DEF Logged, IsFile
<1>5. Logs(x, K)
    BY <1>2 DEF Logs
<1>6. ASSUME Whole(g.disk, g.hdr[3], K) PROVE Logs(g, K)
    BY <1>1, <1>3, <1>4, <1>5, <1>6, LogMore
<1> QED BY <1>2, <1>4, <1>6

(* The keys K are there beside k.                                          *)
Others(G, s, k, K) == \A j \in K : j # k /\ \E v : Entry(G, s, j, v)

(* The file and its tree before an insertion.                               *)
Before(g, s, k, K) == IsTree(g.read, s, {}, {}) /\ First(s, g.hdr[3]) /\ Others(g.read, s, k, K)
(* A file on the way up.                                                    *)
Stays(g, K, f) ==
    /\ Held(f.disk, f.hdr[3], K) /\ f.hdr = g.hdr /\ f.retired = g.retired
    /\ \E N : Kept(f, N)

(* Whatever is still to go up, the leaves are linked and hold the keys.     *)
LEMMA CarryHeld ==
    ASSUME NEW g, NEW s, NEW k, NEW K, Before(g, s, k, K), NEW V, NEW path, NEW n \in Nat \ {0},
           NEW e, CarryAt(g, s, k, V, path, n, e)
    PROVE  Stays(g, K, e.file)
<1> DEFINE f == e.file
           a == g.hdr[3]
<1>0. IsTree(g.read, s, {}, {})
    BY DEF Before
<1>1. ASSUME NEW G, NEW t, Target(g.read, s, k, V, G, t) PROVE \A j \in K : \E v : Entry(G, t, j, v)
    BY <1>1 DEF Target, Others, Before
<1>2. ASSUME NEW t, Heirs(s, t) PROVE First(t, a)
    BY <1>2 DEF Heirs, FirstKept, Before
<1>3. CASE ~e.split
    <2>1. Finished(g, s, k, V, f)
        BY <1>3 DEF CarryAt
    <2>2. PICK t : /\ Stored(f, t, {}, {}) /\ SameRest(g, f) /\ Heirs(s, t) /\ Target(g.read, s, k, V, f.read, t)
        BY <2>1 DEF Finished
    <2>3. Kept(f, t.nodes) /\ f.dirty = {} /\ IsTree(f.read, t, {}, {})
        BY <2>2 DEF Stored
    <2>4. \A o : IsLeaf(t, o) => o \in t.nodes
        BY DEF IsLeaf
    <2>5. First(t, a) /\ \A j \in K : \E v : Entry(f.read, t, j, v)
        BY <2>2, <1>1, <1>2
    <2> HIDE DEF f, a
    <2>6. Held(f.disk, a, K)
        BY <2>3, <2>4, <2>5, TreeHeld
    <2> QED BY <2>2, <2>3, <2>6 DEF SameRest, Stays, f, a
<1>4. CASE e.split /\ n < Len(path)
    <2> DEFINE p == path[Len(path) - n].at
               G == Grown(f, p, e.key, e.kid)
    <2>1. PICK t : Pend(g, s, k, V, f, t, p, n, e.key, e.kid)
        BY <1>4 DEF CarryAt
    <2>2. /\ Kept(f, t.nodes) /\ f.dirty = {} /\ SameRest(g, f) /\ Heirs(s, t)
          /\ IsTree(G, t, {p}, {}) /\ Target(g.read, s, k, V, G, t)
        BY <2>1 DEF Pend
    <2>3. /\ t.lev[p] = n /\ \A x : x # p => G[x] = f.read[x]
        <3> HIDE DEF p, f
        <3> QED BY <1>0, <2>1, PendFacts
    <2>4. \A o : IsLeaf(t, o) => o \in t.nodes /\ G[o] = f.read[o]
        BY <2>3 DEF IsLeaf
    <2>5. First(t, a) /\ \A j \in K : \E v : Entry(G, t, j, v)
        BY <2>2, <1>1, <1>2
    <2> HIDE DEF f, a, G, p
    <2>6. Held(f.disk, a, K)
        BY <2>2, <2>4, <2>5, TreeHeld
    <2> QED BY <2>2, <2>6 DEF SameRest, Stays, f, a
<1>5. CASE e.split /\ ~(n < Len(path))
    <2>1. RootPend(g, s, k, V, f, e.key, e.kid)
        BY <1>5 DEF CarryAt
    <2>2. PICK N : /\ Kept(f, N) /\ f.dirty = {} /\ SameRest(g, f)
                   /\ \A u \in Nat \ {0} : u \notin N => \A G : Topped(g, s, k, V, f, N, u, G, e.key, e.kid)
        BY <2>1, Zenon DEF RootPend
    <2> DEFINE u == f.end
               top == Internal(<<e.key>>, <<s.root, e.kid>>)
               G == [x \in N \cup {u} |-> IF x = u THEN top ELSE f.read[x]]
    <2>3. u \in Nat \ {0} /\ u \notin N
        <3>1. f.end \in Nat \ {0} /\ \A o \in N : o \in 1 .. f.end - 1
            BY <2>2 DEF Kept
        <3> QED BY <3>1
    <2>4. G[u] = top /\ \A x \in N : G[x] = f.read[x]
        BY <2>3
    <2>5. top.leaf = FALSE
        BY DEF Internal
    <2> HIDE DEF G, u
    <2>6. Topped(g, s, k, V, f, N, u, G, e.key, e.kid)
        BY <2>2, <2>3
    <2>7. PICK t : /\ t.nodes = N \cup {u} /\ IsTree(G, t, {}, {})
                   /\ Target(g.read, s, k, V, G, t) /\ Heirs(s, t)
        BY <2>4, <2>6 DEF Topped
    <2>8. \A o : IsLeaf(t, o) => o \in N /\ G[o] = f.read[o]
        <3> SUFFICES ASSUME NEW o, IsLeaf(t, o) PROVE o \in N /\ G[o] = f.read[o]
            OBVIOUS
        <3>1. o \in t.nodes /\ G[o].leaf
            BY <2>7 DEF IsLeaf, IsTree, Local
        <3>2. o # u
            BY <3>1, <2>4, <2>5
        <3> QED BY <3>1, <3>2, <2>4, <2>7
    <2>9. First(t, a) /\ \A j \in K : \E v : Entry(G, t, j, v)
        BY <2>7, <1>1, <1>2
    <2> HIDE DEF f, a
    <2>10. Held(f.disk, a, K)
        BY <2>2, <2>7, <2>8, <2>9, TreeHeld
    <2> QED BY <2>2, <2>10 DEF SameRest, Stays, f, a
<1> QED BY <1>3, <1>4, <1>5

(* One level of the way up: the right half is on disk before the left half. *)
LEMMA AddAtLogs ==
    ASSUME NEW e, IsCarry(e), NEW K, Logs(e.file, K), Held(e.file.disk, e.file.hdr[3], K),
           NEW N, Kept(e.file, N), e.file.retired = {}, NEW p, e.split => p \in N,
           NEW e2, e2 = AddAt(e, p), Held(e2.file.disk, e2.file.hdr[3], K)
    PROVE  Logs(e2.file, K)
<1> DEFINE f == e.file
           node == f.read[p]
           key == e.key
           kid == e.kid
           q == NewOffset(f)
           b == AddNode(f, SplitRight(node, key, kid))
           h == SaveNode(b, p, SplitLeft(node, key, kid, q))
           w == SaveNode(f, p, AddKey(node, key, kid))
<1>1. e2 = IF ~e.split \/ (Full(node) /\ Holds(node, key))
           THEN [e EXCEPT !.split = FALSE]
           ELSE IF Full(node)
           THEN [file |-> h, key |-> SplitKey(node, key), kid |-> q, split |-> TRUE]
           ELSE [e EXCEPT !.file = w, !.split = FALSE]
    BY DEF AddAt
<1>2. Whole(e2.file.disk, e2.file.hdr[3], K)
    BY DEF Whole
<1>3. IsFile(f) /\ (p \in N => p \in DOMAIN f.read)
    BY DEF Kept
<1>4. CASE ~e.split \/ (Full(node) /\ Holds(node, key))
    <2>1. e2.file = f
        BY <1>1, <1>4 DEF IsCarry
    <2> QED BY <2>1
<1>5. CASE e.split /\ ~(Full(node) /\ Holds(node, key)) /\ Full(node)
    <2>1. e2.file = h
        BY <1>1, <1>5
    <2>2. Kept(b, N \cup {q}) /\ b.read = Put(f.read, q, SplitRight(node, key, kid))
        <3> DEFINE right == SplitRight(node, key, kid)
        <3> HIDE DEF right, f
        <3>1. LET z == AddNode(f, right)
              IN  /\ Kept(z, N \cup {q}) /\ SameRest(f, z) /\ z.dirty = f.dirty
                  /\ z.read = Put(f.read, q, right)
            BY NodeAdded DEF f
        <3> QED BY <3>1 DEF right
    <2>3. IsFile(b) /\ p \in DOMAIN b.read
        BY <2>2, <1>3, <1>5 DEF Kept, Put
    <2>4. Logs(b, K)
        <3> DEFINE right == SplitRight(node, key, kid)
        <3>1. q \in Nat \ {0} /\ q \notin N /\ DOMAIN f.disk \subseteq N
            BY FreshOffset DEF Kept
        <3> HIDE DEF right, f
        <3>2. /\ b.disk = Put(f.disk, q, right) /\ b.hdr = f.hdr
              /\ Whole(b.disk, b.hdr[3], K) => Logs(b, K)
            <4>1. b = AddNode(f, right)
                BY DEF right
            <4> HIDE DEF b, q
            <4>2. /\ b.disk = Put(f.disk, NewOffset(f), right) /\ b.hdr = f.hdr
                  /\ Whole(b.disk, b.hdr[3], K) => Logs(b, K)
                BY <4>1, AddLogs DEF f
            <4> QED BY <4>2 DEF q
        <3> HIDE DEF b, q
        <3>3. Held(Put(f.disk, q, right), f.hdr[3], K)
            <4>1. q # 0 /\ q \notin DOMAIN f.disk
                BY <3>1
            <4> QED BY <4>1, HeldMore DEF f
        <3> QED BY <3>2, <3>3 DEF Whole
    <2> HIDE DEF b, f, node, key, kid, q
    <2>5. Whole(h.disk, h.hdr[3], K)
        BY <2>1, <1>2
    <2>6. Logs(h, K)
        BY <2>3, <2>4, <2>5, SaveLogs
    <2> QED BY <2>1, <2>6
<1>6. CASE e.split /\ ~(Full(node) /\ Holds(node, key)) /\ ~Full(node)
    <2>1. e2.file = w
        BY <1>1, <1>6 DEF IsCarry
    <2>2. Logs(w, K)
        <3> DEFINE full == AddKey(node, key, kid)
        <3>1. w = SaveNode(f, p, full) /\ Whole(w.disk, w.hdr[3], K) /\ p \in DOMAIN f.read /\ Logs(f, K)
            BY <2>1, <1>2, <1>3, <1>6
        <3> HIDE DEF full, f, w
        <3> QED BY <3>1, <1>3, SaveLogs
    <2> QED BY <2>1, <2>2
<1> QED BY <1>4, <1>5, <1>6

(* What every write on the way up has left, and what there is now.          *)
CarryKeeps(K, e) ==
    /\ Logs(e.file, K) /\ Held(e.file.disk, e.file.hdr[3], K)
    /\ e.file.retired = {} /\ \E N : Kept(e.file, N)

LEMMA CarryLogs ==
    ASSUME NEW g, NEW s, IsTree(g.read, s, {}, {}), g.retired = {}, NEW k, NEW V,
           NEW path, Road(g.read, s, k, path), NEW n \in Nat, n < Len(path), First(s, g.hdr[3]),
           NEW K, Others(g.read, s, k, K),
           NEW e, IsCarry(e), CarryAt(g, s, k, V, path, n, e), CarryKeeps(K, e),
           NEW p, p = path[Len(path) - n].at
    PROVE  CarryKeeps(K, AddAt(e, p))
<1> DEFINE e2 == AddAt(e, p)
<1>1. CarryAt(g, s, k, V, path, n + 1, e2)
    BY CarryStep
<1>2. e2 = AddAt(e, p) /\ n + 1 \in Nat \ {0}
    OBVIOUS
<1> HIDE DEF e2
<1>3. Stays(g, K, e2.file)
    <2> DEFINE i == n + 1
    <2>1. CarryAt(g, s, k, V, path, i, e2) /\ i \in Nat \ {0}
        BY <1>1, <1>2
    <2>2. Before(g, s, k, K)
        BY DEF Before
    <2> HIDE DEF i
    <2> QED BY <2>1, <2>2, CarryHeld
<1>4. PICK N : Kept(e.file, N) /\ (e.split => p \in N)
    <2>1. CASE e.split
        <3>1. PICK t : Pend(g, s, k, V, e.file, t, p, n, e.key, e.kid)
            BY <2>1 DEF CarryAt
        <3>2. p \in t.nodes /\ Kept(e.file, t.nodes)
            BY <3>1, PendFacts DEF Pend
        <3> QED BY <3>2
    <2>2. CASE ~e.split
        BY <2>2 DEF CarryKeeps
    <2> QED BY <2>1, <2>2
<1>5. Logs(e2.file, K)
    BY <1>2, <1>3, <1>4, AddAtLogs DEF CarryKeeps, Stays
<1> QED BY <1>3, <1>5 DEF CarryKeeps, Stays, e2

LEMMA CarriedLogs ==
    ASSUME NEW g, NEW s, IsTree(g.read, s, {}, {}), g.retired = {}, NEW k, NEW V,
           NEW path, Road(g.read, s, k, path), NEW v, First(s, g.hdr[3]),
           NEW K, Others(g.read, s, k, K), NEW first,
           first = [file |-> g, key |-> k, kid |-> v, split |-> TRUE], CarryAt(g, s, k, V, path, 0, first),
           CarryKeeps(K, first)
    PROVE  CarryKeeps(K, Carried(g, path, k, v))
<1> DEFINE H == Len(path)
<1>1. H \in Nat
    BY DEF Road
<1>2. PICK up : CarryUp(up, first, path, H) /\ Carried(g, path, k, v) = up[H]
    BY <1>1, CarriedUp
<1> HIDE DEF H
<1> DEFINE Good(n) == IsCarry(up[n]) /\ CarryAt(g, s, k, V, path, n, up[n]) /\ CarryKeeps(K, up[n])
           A == {n \in Nat : n \in 0 .. H /\ ~Good(n)}
<1>3. ASSUME A # {} PROVE FALSE
    <2>1. PICK n \in A : \A i \in A : n <= i
        <3> HIDE DEF A
        <3>1. A \subseteq Nat
            BY DEF A
        <3> QED BY <1>3, <3>1, LeastIn
    <2>2. Good(0)
        <3>1. up[0] = first
            BY <1>2 DEF CarryUp
        <3>2. IsCarry(first)
            BY DEF IsCarry
        <3> QED BY <3>1, <3>2
    <2>3. n # 0 /\ n \in 1 .. H
        BY <2>1, <2>2, <1>1
    <2> DEFINE m == n - 1
    <2>4. m \in Nat /\ m < H /\ m \in 0 .. H /\ m \notin A /\ m + 1 = n /\ H + 1 - n = H - m
        BY <2>1, <2>3, <1>1
    <2>5. Good(m)
        BY <2>4
    <2>6. up[n] = AddAt(up[m], path[H - m].at)
        BY <2>3, <2>4, <1>2 DEF CarryUp, H
    <2> HIDE DEF m
    <2>7. Good(m + 1)
        <3>1. IsCarry(AddAt(up[m], path[H - m].at)) /\ CarryAt(g, s, k, V, path, m + 1, AddAt(up[m], path[H - m].at))
            BY <2>4, <2>5, CarryStep DEF H
        <3>2. CarryKeeps(K, AddAt(up[m], path[H - m].at))
            BY <2>4, <2>5, CarryLogs DEF H
        <3> QED BY <3>1, <3>2, <2>4, <2>6
    <2> QED BY <2>7, <2>4, <2>1
<1>4. Good(H)
    BY <1>1, <1>3
<1> QED BY <1>2, <1>4

(* An insertion of a new key beside the keys K.                             *)
LEMMA AliveLogs ==
    ASSUME NEW f, NEW s, Alive(f, s), Words(f), LongWords = 1, First(s, f.hdr[3]), f.retired = {}, f.log = <<>>,
           NEW k \in Key, NEW v \in Kid, ~Rejects(f, k),
           NEW K, Others(f.read, s, k, K)
    PROVE  Logs(InsertInto(f, k, v), K)
<1> DEFINE path == Descend(f, k)
           e == Carried(f, path, k, v)
           first == [file |-> f, key |-> k, kid |-> v, split |-> TRUE]
           V == {v}
           size == Size(f) + 1
           a == SetField(e.file, SIZE, size)
<1>1. Kept(f, s.nodes) /\ f.dirty = {} /\ IsTree(f.read, s, {}, {}) /\ Root(f) = s.root
    BY AliveFacts
<1>2. s.root # 0 /\ Root(f) # 0
    BY <1>1 DEF IsTree, Placed
<1>3. Road(f.read, s, k, path)
    BY <1>1, DescendIs
<1>4. CarryAt(f, s, k, V, path, 0, first)
    BY <1>1, <1>2, CarryBase
<1>5. CarryKeeps(K, first)
    <2>1. Held(f.disk, f.hdr[3], K)
        <3>1. \A o : IsLeaf(s, o) => o \in s.nodes
            BY DEF IsLeaf
        <3>2. \A j \in K : \E x : Entry(f.read, s, j, x)
            BY DEF Others
        <3> QED BY <3>1, <3>2, <1>1, TreeHeld
    <2>2. Logs(f, K)
        <3>1. f.log \in Seq({})
            OBVIOUS
        <3> QED BY <3>1 DEF Logs
    <2> QED BY <2>1, <2>2, <1>1 DEF CarryKeeps
<1>6. InsertInto(f, k, v) = IF e.split THEN AddRoot(a, e.key, e.kid) ELSE a
    BY <1>2 DEF InsertInto
<1>7. CarryAt(f, s, k, V, path, Len(path), e) /\ CarryKeeps(K, e)
    <2> HIDE DEF V, path
    <2>1. first = [file |-> f, key |-> k, kid |-> v, split |-> TRUE]
        OBVIOUS
    <2> HIDE DEF first
    <2>2. LET z == Carried(f, path, k, v)
          IN  CarryAt(f, s, k, V, path, Len(path), z)
        BY <2>1, <1>1, <1>3, <1>4, CarriedIs
    <2>3. CarryKeeps(K, Carried(f, path, k, v))
        BY <2>1, <1>1, <1>3, <1>4, <1>5, CarriedLogs
    <2> QED BY <2>2, <2>3
<1>8. Len(path) \in Nat \ {0}
    BY <1>3 DEF Road
<1> HIDE DEF e, path, V, size
<1>9. e.file.hdr = f.hdr
    <2> DEFINE n == Len(path)
    <2>1. n \in Nat \ {0} /\ CarryAt(f, s, k, V, path, n, e)
        BY <1>7, <1>8
    <2>2. Before(f, s, k, K)
        BY <1>1 DEF Before
    <2> HIDE DEF n
    <2>3. Stays(f, K, e.file)
        BY <2>1, <2>2, CarryHeld
    <2> QED BY <2>3 DEF Stays
<1>10. PICK N : Kept(e.file, N)
    BY <1>7 DEF CarryKeeps
<1>11. /\ a.disk = e.file.disk /\ a.hdr = [e.file.hdr EXCEPT ![1] = size]
       /\ Whole(a.disk, a.hdr[3], K) => Logs(a, K)
    BY <1>7, <1>10, FieldLogs DEF CarryKeeps, Kept, SIZE
<1>12. f.hdr \in [1 .. 4 -> Nat]
    BY DEF Words
<1>13. a.hdr[3] = e.file.hdr[3] /\ a.hdr[2] = f.hdr[2] /\ DOMAIN a.hdr = 1 .. 4
    BY <1>9, <1>11, <1>12
<1>14. Held(a.disk, a.hdr[3], K)
    BY <1>7, <1>11, <1>13 DEF CarryKeeps
<1>15. Logs(a, K)
    BY <1>11, <1>14 DEF Whole
<1>16. CASE ~e.split
    BY <1>6, <1>15, <1>16
<1>17. CASE e.split
    <2> DEFINE u == NewOffset(a)
               top == Internal(<<e.key>>, <<Root(a), e.kid>>)
               b == AddNode(a, top)
               r == SetField(b, ROOT, u)
    <2>1. Root(a) # 0
        BY <1>2, <1>13 DEF Root, GetField, ROOT
    <2>2. InsertInto(f, k, v) = r
        <3> HIDE DEF a
        <3> QED BY <2>1, <1>6, <1>17 DEF AddRoot
    <2>3. Kept(a, N) /\ a.retired = {}
        <3>1. Words(e.file)
            BY <1>9, SameSize
        <3>2. size \in Nat
            BY <1>12 DEF size, Size, GetField, SIZE
        <3> DEFINE F == e.file
        <3>3. Kept(F, N) /\ Words(F) /\ F.retired = {} /\ a = SetField(F, 1, size)
            BY <3>1, <1>7, <1>10 DEF SIZE, CarryKeeps
        <3> HIDE DEF F, a
        <3>4. 1 \in 1 .. 3
            OBVIOUS
        <3>5. Kept(a, N) /\ SameNodes(F, a)
            BY <3>2, <3>3, <3>4, FieldWritten
        <3> QED BY <3>3, <3>5 DEF SameNodes
    <2> HIDE DEF a, top
    <2>4. /\ b.disk = Put(a.disk, u, top) /\ b.hdr = a.hdr
          /\ Whole(b.disk, b.hdr[3], K) => Logs(b, K)
        <3>1. b = AddNode(a, top)
            OBVIOUS
        <3> HIDE DEF b, u
        <3>2. /\ b.disk = Put(a.disk, NewOffset(a), top) /\ b.hdr = a.hdr
              /\ Whole(b.disk, b.hdr[3], K) => Logs(b, K)
            BY <3>1, <2>3, <1>15, AddLogs
        <3> QED BY <3>2 DEF u
    <2>5. u # 0 /\ u \notin DOMAIN a.disk
        BY <2>3, FreshOffset DEF Kept
    <2>6. IsFile(b)
        <3>1. LET z == AddNode(a, top) IN Kept(z, N \cup {u})
            BY <2>3, NodeAdded
        <3> QED BY <3>1 DEF Kept
    <2> HIDE DEF b, u
    <2>7. Held(b.disk, b.hdr[3], K)
        BY <2>4, <2>5, <1>14, HeldMore
    <2>8. Logs(b, K)
        BY <2>4, <2>7 DEF Whole
    <2>9. /\ r.disk = b.disk /\ r.hdr = [b.hdr EXCEPT ![2] = u]
          /\ Whole(r.disk, r.hdr[3], K) => Logs(r, K)
        BY <2>6, <2>8, FieldLogs DEF ROOT
    <2> HIDE DEF r
    <2>10. r.hdr[3] = b.hdr[3]
        BY <2>4, <2>9, <1>13
    <2> QED BY <2>2, <2>7, <2>9, <2>10 DEF Whole
<1> QED BY <1>16, <1>17

LEMMA EmptyLogs ==
    ASSUME NEW f, Empty(f), Words(f), LongWords = 1, f.retired = {}, f.log = <<>>, NEW k \in Key, NEW v \in Kid
    PROVE  Logs(InsertInto(f, k, v), {})
<1> DEFINE size == Size(f) + 1
           a == SetField(f, SIZE, size)
           u == NewOffset(a)
           leaf == Leaf(<<k>>, <<v, 0>>)
           b == AddNode(a, leaf)
           c == SetField(b, LEFTLEAF, u)
           r == SetField(c, ROOT, u)
<1>1. Kept(f, {}) /\ f.dirty = {} /\ Root(f) = 0 /\ f.hdr \in [1 .. 4 -> Nat]
    BY DEF Empty, Words
<1>2. Logs(f, {})
    <2>1. f.log \in Seq({})
        OBVIOUS
    <2> QED BY <2>1 DEF Logs
<1>3. /\ a.disk = f.disk /\ a.hdr = [f.hdr EXCEPT ![1] = size]
      /\ Whole(a.disk, a.hdr[3], {}) => Logs(a, {})
    BY <1>1, <1>2, FieldLogs DEF Kept, SIZE
<1>4. DOMAIN f.disk = {}
    BY <1>1 DEF Kept
<1>5. Logs(a, {})
    BY <1>3, <1>4, FS_EmptySet DEF Whole
<1>6. Kept(a, {}) /\ a.retired = {} /\ a.dirty = {}
    <2>1. size \in Nat
        BY <1>1 DEF Size, GetField, SIZE
    <2> HIDE DEF size
    <2>2. 1 \in 1 .. 3
        OBVIOUS
    <2>3. LET z == SetField(f, 1, size)
          IN  Kept(z, {}) /\ SameNodes(f, z)
        BY <1>1, <2>1, <2>2, FieldWritten
    <2> QED BY <2>3, <1>1 DEF SIZE, SameNodes
<1>7. a.hdr \in [1 .. 4 -> Nat \cup {size}] /\ a.hdr[2] = f.hdr[2]
    BY <1>1, <1>3
<1>8. InsertInto(f, k, v) = r
    <2>1. InsertInto(f, k, v) = AddRoot(a, k, v)
        BY <1>1 DEF InsertInto
    <2>2. Root(a) = 0
        BY <1>1, <1>7 DEF Root, GetField, ROOT
    <2> HIDE DEF a
    <2> QED BY <2>1, <2>2 DEF AddRoot
<1> HIDE DEF a, size
<1>9. u \in Nat \ {0}
    BY <1>6, FreshOffset
<1>10. /\ b.disk = Put(a.disk, u, leaf) /\ b.hdr = a.hdr
       /\ Whole(b.disk, b.hdr[3], {}) => Logs(b, {})
    <2> HIDE DEF leaf
    <2>1. b = AddNode(a, leaf)
        OBVIOUS
    <2> HIDE DEF b, u
    <2>2. /\ b.disk = Put(a.disk, NewOffset(a), leaf) /\ b.hdr = a.hdr
          /\ Whole(b.disk, b.hdr[3], {}) => Logs(b, {})
        BY <2>1, <1>5, <1>6, AddLogs
    <2> QED BY <2>2 DEF u
<1>11. Kept(b, {u}) /\ b.dirty = {} /\ b.read = Put(a.read, u, leaf)
    <2> DEFINE q == NewOffset(a)
    <2>1. q = NewOffset(a) /\ u = q
        OBVIOUS
    <2> HIDE DEF leaf, u, q
    <2>2. LET g == AddNode(a, leaf)
          IN  /\ Kept(g, {} \cup {q}) /\ SameRest(a, g) /\ g.dirty = a.dirty
              /\ g.read = Put(a.read, q, leaf)
        BY <2>1, <1>6, NodeAdded
    <2>3. {} \cup {q} = {q}
        OBVIOUS
    <2> QED BY <2>1, <2>2, <2>3, <1>6
<1> HIDE DEF u, b
<1>12. DOMAIN b.disk = {u} /\ IsFiniteSet(DOMAIN b.disk)
    <2>1. DOMAIN b.disk = {u}
        BY <1>3, <1>4, <1>10 DEF Put
    <2> QED BY <2>1, <1>11 DEF Kept
<1>13. Held(b.disk, u, {})
    <2> DEFINE t == SoleGhost(u)
    <2>1. b.read[u] = leaf
        BY <1>11 DEF Put
    <2>2. IsTree(b.read, t, {}, {}) /\ First(t, u)
        BY <2>1, <1>9, Sole
    <2>3. \A o : IsLeaf(t, o) => o \in {u}
        BY DEF IsLeaf, SoleGhost
    <2> HIDE DEF t
    <2> DEFINE G == b.read
               K == {}
               N == {u}
    <2>4. \A o : IsLeaf(t, o) => o \in N /\ G[o] = b.read[o]
        BY <2>3
    <2>5. IsTree(G, t, {}, {}) /\ Kept(b, N) /\ \A j \in K : \E x : Entry(G, t, j, x)
        BY <2>2, <1>11
    <2> HIDE DEF G, K, N
    <2>6. Held(b.disk, u, K)
        BY <2>2, <2>4, <2>5, <1>11, TreeHeld
    <2> QED BY <2>6 DEF K
<1>14. Logs(b, {})
    <2>1. CASE b.hdr[3] = u
        BY <2>1, <1>10, <1>13 DEF Whole
    <2>2. CASE b.hdr[3] # u
        BY <2>2, <1>9, <1>10, <1>12 DEF Whole
    <2> QED BY <2>1, <2>2
<1>15. /\ c.disk = b.disk /\ c.hdr = [b.hdr EXCEPT ![3] = u]
       /\ Whole(c.disk, c.hdr[3], {}) => Logs(c, {})
    BY <1>11, <1>14, FieldLogs DEF Kept, LEFTLEAF
<1>16. IsFile(c)
    <2> DEFINE h == [b EXCEPT !.hdr[3] = u]
    <2>1. c = [h EXCEPT !.log = Append(@, [disk |-> h.disk, hdr |-> h.hdr, free |-> h.free, end |-> h.end])]
        BY DEF SetField, Logged, LEFTLEAF
    <2>2. IsFile(b)
        BY <1>11 DEF Kept
    <2>3. DOMAIN h = DOMAIN b /\ h.read = b.read /\ h.disk = b.disk
        BY <2>2 DEF IsFile
    <2> HIDE DEF h, c
    <2>4. DOMAIN c = DOMAIN b /\ c.read = b.read /\ c.disk = b.disk
        BY <2>1, <2>2, <2>3 DEF IsFile
    <2> QED BY <2>2, <2>4 DEF IsFile
<1> HIDE DEF c
<1>17. c.hdr[3] = u /\ DOMAIN c.hdr = 1 .. 4
    BY <1>7, <1>10, <1>15
<1>18. Logs(c, {})
    BY <1>13, <1>15, <1>17 DEF Whole
<1>19. /\ r.disk = c.disk /\ r.hdr = [c.hdr EXCEPT ![2] = u]
       /\ Whole(r.disk, r.hdr[3], {}) => Logs(r, {})
    BY <1>16, <1>18, FieldLogs DEF ROOT
<1> HIDE DEF r
<1>20. r.hdr[3] = u
    BY <1>17, <1>19
<1> QED BY <1>8, <1>13, <1>15, <1>19, <1>20 DEF Whole

LEMMA InsertLogs ==
    ASSUME NEW f, NEW m \in Maps, Shows(f, m), LongWords = 1, f.retired = {}, f.log = <<>>,
           NEW k \in Key, NEW v \in Value, m[k] = 0
    PROVE  Logs(InsertInto(f, k, v), KeysIn(m))
<1>1. Words(f) /\ v \in Kid
    BY BTreeAssumption DEF Shows, Kid
<1>2. CASE Empty(f) /\ KeysIn(m) = {}
    BY <1>1, <1>2, EmptyLogs
<1>3. ASSUME NEW s, Living(f, s, m) PROVE Logs(InsertInto(f, k, v), KeysIn(m))
    <2>1. Alive(f, s) /\ Says(f.read, s, m) /\ First(s, f.hdr[3])
        BY <1>3 DEF Living
    <2>2. ~Rejects(f, k)
        BY SearchShows DEF Rejects
    <2>3. Others(f.read, s, k, KeysIn(m))
        BY <2>1 DEF Others, Says, KeysIn
    <2> QED BY <2>1, <2>2, <2>3, <1>1, AliveLogs
<1> QED BY <1>2, <1>3 DEF Shows

LEMMA ShowsWhole ==
    ASSUME NEW f, NEW m \in Maps, Shows(f, m), LongWords = 1
    PROVE  Whole(f.disk, f.hdr[3], KeysIn(m))
<1>1. CASE Empty(f) /\ KeysIn(m) = {}
    <2>1. DOMAIN f.disk = {} /\ IsFiniteSet(DOMAIN f.disk)
        BY <1>1 DEF Empty, Kept
    <2> QED BY <2>1, <1>1 DEF Whole
<1>2. ASSUME NEW s, Living(f, s, m) PROVE Whole(f.disk, f.hdr[3], KeysIn(m))
    <2>1. Alive(f, s) /\ Says(f.read, s, m) /\ First(s, f.hdr[3])
        BY <1>2 DEF Living
    <2>2. Kept(f, s.nodes) /\ f.dirty = {} /\ IsTree(f.read, s, {}, {})
        BY <2>1, AliveFacts
    <2>3. \A o : IsLeaf(s, o) => o \in s.nodes
        BY DEF IsLeaf
    <2>4. \A j \in KeysIn(m) : \E x : Entry(f.read, s, j, x)
        BY <2>1 DEF Says, KeysIn
    <2>5. Held(f.disk, f.hdr[3], KeysIn(m))
        BY <2>1, <2>2, <2>3, <2>4, TreeHeld
    <2> QED BY <2>5 DEF Whole
<1> QED BY <1>1, <1>2 DEF Shows

LEMMA DoneLog ==
    ASSUME NEW f, IsFile(Done(f))
    PROVE  Done(f).log = <<>>
BY DEF Done, IsFile

(* A file found when a process has died keeps the chain; until then nothing *)
(* is half written between calls.                                           *)
CrashInv ==
    /\ WalkInv
    /\ IF interrupted = {} THEN file.log = <<>>
       ELSE \A keys \in interrupted : InOrder(file.disk, file.hdr[3], keys)

LEMMA CrashHappens ==
    ASSUME CrashInv, NEW k \in Key, NEW v \in Value, Crash(k, v)
    PROVE  CrashInv'
<1>1. /\ Careful /\ LongWords = 1 /\ interrupted = {} /\ file.log = <<>> /\ file.retired = {} /\ Search(file, k) = 0
    BY DEF CrashInv, WalkInv, Crash, Careful
<1>2. WalkInv'
    <2>1. [CursorNext]_cvars
        BY DEF CursorNext
    <2> QED BY <2>1, WalkStep DEF CrashInv
<1>3. PICK m \in Maps : Shows(file, m)
    BY <1>1 DEF CrashInv, WalkInv
<1>4. StoredKeys = KeysIn(m) /\ m[k] = 0
    BY <1>1, <1>3, StoredKeysAre, SearchShows
<1> DEFINE K == StoredKeys
           log == InsertInto(file, k, v).log
           Was(i) == IF i = 1 THEN file ELSE log[i - 1]
           Lefts(i) == {[disk |-> log[i].disk, hdr |-> log[i].hdr, keys |-> K]} \cup Torn(Was(i), log[i], K)
<1>5. Logs(InsertInto(file, k, v), K)
    BY <1>1, <1>3, <1>4, InsertLogs
<1>6. PICK S : log \in Seq(S) /\ \A x \in S : Whole(x.disk, x.hdr[3], K)
    BY <1>5 DEF Logs
<1>7. PICK i \in DOMAIN log :
          \E left \in Lefts(i) :
             /\ file' = [file EXCEPT !.read = left.disk, !.disk = left.disk, !.dirty = {},
                                     !.retired = {}, !.free = log[i].free, !.end = log[i].end,
                                     !.hdr = left.hdr]
             /\ interrupted' = {left.keys}
    BY Zenon DEF Crash
<1>8. PICK left \in Lefts(i) :
             /\ file' = [file EXCEPT !.read = left.disk, !.disk = left.disk, !.dirty = {},
                                     !.retired = {}, !.free = log[i].free, !.end = log[i].end,
                                     !.hdr = left.hdr]
             /\ interrupted' = {left.keys}
    BY <1>7
<1>9. Whole(file.disk, file.hdr[3], K)
    BY <1>1, <1>3, <1>4, ShowsWhole
<1> HIDE DEF log, K
<1>10. Whole(log[i].disk, log[i].hdr[3], K) /\ Whole(Was(i).disk, Was(i).hdr[3], K)
    <2>1. i \in 1 .. Len(log) /\ Len(log) \in Nat
        BY <1>6
    <2>2. log[i] \in S
        BY <1>6
    <2>3. CASE i = 1
        BY <2>2, <2>3, <1>6, <1>9
    <2>4. CASE i # 1
        <3>1. i - 1 \in 1 .. Len(log)
            BY <2>1, <2>4
        <3>2. log[i - 1] \in S
            BY <3>1, <1>6
        <3> QED BY <2>2, <2>4, <3>2, <1>6
    <2> QED BY <2>3, <2>4
<1>11. InOrder(left.disk, left.hdr[3], left.keys)
    <2>1. CASE left = [disk |-> log[i].disk, hdr |-> log[i].hdr, keys |-> K]
        <3>1. left.disk = log[i].disk /\ left.hdr = log[i].hdr /\ left.keys = K
            BY <2>1
        <3> QED BY <3>1, <1>10, WholeInOrder
    <2>2. CASE left \in Torn(Was(i), log[i], K)
        <3> HIDE DEF Was
        <3> QED BY <2>2, <1>10, TornKeeps
    <2> QED BY <1>8, <2>1, <2>2
<1>12. IsFile(file)
    BY <1>3, ShowsIs
<1>13. file'.disk = left.disk /\ file'.hdr = left.hdr
    BY <1>8, <1>12 DEF IsFile
<1>14. InOrder(file'.disk, file'.hdr[3], left.keys)
    BY <1>11, <1>13
<1> QED BY <1>2, <1>8, <1>14 DEF CrashInv

LEMMA CrashStep ==
    ASSUME CrashInv, [CursorNext]_cvars
    PROVE  CrashInv'
<1>1. WalkInv /\ WalkInv'
    BY WalkStep DEF CrashInv
<1>2. ASSUME NEW k \in Key, NEW v \in Value, Crash(k, v) PROVE CrashInv'
    BY <1>2, CrashHappens
<1>3. ASSUME interrupted = {}, interrupted' = {}, file' = file \/ \E f : file' = Done(f)
      PROVE  CrashInv'
    <2>1. PICK m \in Maps : Shows(file', m)
        BY <1>1, <1>3 DEF WalkInv
    <2>2. IsFile(file')
        BY <2>1, ShowsIs
    <2>3. file'.log = <<>>
        BY <2>2, <1>3, DoneLog DEF CrashInv
    <2> QED BY <2>3, <1>1, <1>3 DEF CrashInv
<1>4. ASSUME NEW k \in Key, NEW v \in Value, Insert(k, v), Beside("insert") PROVE CrashInv'
    <2>1. interrupted = {} /\ interrupted' = {}
        BY <1>4 DEF Beside
    <2>2. file' = file \/ file' = Done(InsertInto(file, k, v))
        BY <1>4 DEF Insert
    <2> QED BY <2>1, <2>2, <1>3
<1>5. ASSUME NEW k \in Key, Delete(k), Beside("delete") PROVE CrashInv'
    <2>1. interrupted = {} /\ interrupted' = {}
        BY <1>5 DEF Beside
    <2>2. file' = file \/ \E f : file' = Done(f)
        BY <1>5, Zenon DEF Delete
    <2> QED BY <2>1, <2>2, <1>3
<1>6. CASE walk.state = "off" /\ interrupted = {} /\ Reopen("rw") /\ UNCHANGED <<walk, interrupted>>
    <2>1. IsFile(file)
        BY <1>1, <1>6, ShowsIs DEF WalkInv
    <2>2. file'.log = file.log
        BY <2>1, <1>6 DEF Reopen, IsFile
    <2> QED BY <2>2, <1>1, <1>6 DEF CrashInv
<1>7. CASE GetFirst \/ GetNext \/ CallAgain \/ EndWalk \/ UNCHANGED cvars
    <2>1. file' = file /\ interrupted' = interrupted
        BY <1>7 DEF GetFirst, GetNext, CallAgain, EndWalk, cvars, vars
    <2> QED BY <2>1, <1>1 DEF CrashInv
<1> QED BY <1>2, <1>4, <1>5, <1>6, <1>7 DEF CursorNext

(* A process that dies between any two writes of an insertion leaves a leaf *)
(* chain on which a traversal finds every key that was stored before, in    *)
(* order: __splitNode writes the new right half before the left one links   *)
(* to it and gives its keys up (btreeInsert, __splitNode, btreeWriteNode).  *)
(* One that dies in the write of a leaf, when gdbWriteBlock has flushed the *)
(* header or the first unit and not the rest, loses keys of that leaf, and  *)
(* the ones behind it if it has become unreadable, but none before it.  The *)
(* size and the root may be behind.                                         *)
THEOREM CrashKeepsChainAlways == Careful /\ LongWords = 1 => (CursorSpec => []CrashKeepsChain)
<1> SUFFICES ASSUME Careful, LongWords = 1 PROVE CursorSpec => []CrashKeepsChain
    OBVIOUS
<1>1. CursorInit => CrashInv
    <2> SUFFICES ASSUME CursorInit PROVE CrashInv
        OBVIOUS
    <2>1. WalkInv
        BY WalkStarts
    <2>2. interrupted = {} /\ file.log = <<>>
        BY DEF CursorInit, Init
    <2> QED BY <2>1, <2>2 DEF CrashInv
<1>2. CrashInv /\ [CursorNext]_cvars => CrashInv'
    BY CrashStep
<1>3. CrashInv => CrashKeepsChain
    <2> SUFFICES ASSUME CrashInv, NEW keys \in interrupted PROVE InOrder(file.disk, GetField(file, LEFTLEAF), keys)
        BY DEF CrashKeepsChain
    <2>1. InOrder(file.disk, file.hdr[3], keys)
        BY DEF CrashInv
    <2>2. GetField(file, LEFTLEAF) = file.hdr[3]
        BY DEF GetField, LEFTLEAF
    <2> QED BY <2>1, <2>2
<1> QED BY <1>1, <1>2, <1>3, PTL DEF CursorSpec
=============================================================================
