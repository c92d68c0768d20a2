------------------------------ MODULE BzBlock ------------------------------
(***************************************************************************)
(* A block of libbzip2 as bits (compress.c, huffman.c) and back            *)
(* (decompress.c): block sort, move to front with the runs of zeros in     *)
(* base two, several Huffman tables chosen per group of symbols, the bits; *)
(* then the tables again, the move to front kept in lines, and the inverse *)
(* of the block sort in its fast and its small form.                       *)
(***************************************************************************)
EXTENDS Integers, Sequences, SequencesExt, FiniteSetsExt

-----------------------------------------------------------------------------
(***************************************************************************)
(* libbzip2's block sort (blocksort.c): the rotations of a block in order, *)
(* by refinement of buckets that doubles its depth (fallbackSort) or by a  *)
(* radix sort on two bytes, quicksorts of small buckets and a scan that    *)
(* saves most of them (mainSort), with a budget after which it gives up.   *)
(*                                                                         *)
(* Arrays are functions from 0; a block's overshoot, a copy of its front   *)
(* behind its end, is the index taken modulo the block's length.           *)
(***************************************************************************)

CONSTANTS
    Symbols,            \* byte values: 256
    FallbackSmall,      \* FALLBACK_QSORT_SMALL_THRESH, 10
    MainSmall,          \* MAIN_QSORT_SMALL_THRESH, 20
    MainDepth,          \* MAIN_QSORT_DEPTH_THRESH, 14
    Direct,             \* bytes mainGtU compares before it uses quadrants, 12
    MainBlock           \* blocks from here go to mainSort, 10000

ASSUME SortAssumption ==
    {Symbols, FallbackSmall, MainSmall, MainDepth, Direct, MainBlock} \subseteq Nat

Size(b) == Cardinality(DOMAIN b)
At(b, i) == b[i % Size(b)]
Swap(f, i, j) == [f EXCEPT ![i] = f[j], ![j] = f[i]]
UpTo(lo, hi) == [k \in 1 .. (hi - lo + 1) |-> lo + k - 1]
SortedBy(S, before(_, _)) ==
    [k \in 1 .. Cardinality(S) |->
        CHOOSE x \in S : Cardinality({y \in S : before(y, x)}) = k - 1]
DownTo(hi, lo) == [k \in 1 .. (hi - lo + 1) |-> hi - k + 1]

(* One insertion of fallbackSimpleSort: entries h apart move down past v.  *)
InsertUp(fmap, eclass, i, h, hi) ==
    LET v     == fmap[i]
        ahead == {j \in (i + 1) .. hi : (j - i) % h = 0}
        stops == {j \in ahead : eclass[v] <= eclass[fmap[j]]}
        goal  == IF stops # {} THEN Min(stops) - h
                 ELSE IF ahead = {} THEN i ELSE Max(ahead)
    IN  [p \in DOMAIN fmap |->
            CASE p = goal -> v
              [] p \in i .. (goal - 1) /\ (p - i) % h = 0 -> fmap[p + h]
              [] OTHER -> fmap[p]]

fallbackSimpleSort(fmap, eclass, lo, hi) ==
    LET pass(f, h) == FoldLeft(LAMBDA g, i : InsertUp(g, eclass, i, h, hi), f, DownTo(hi - h, lo))
    IN  IF lo = hi THEN fmap
        ELSE IF hi - lo > 3 THEN pass(pass(fmap, 4), 1) ELSE pass(fmap, 1)

(* The three-way partition of both quicksorts: equal entries gather at the *)
(* ends while unLo and unHi meet, and are swapped to the middle.           *)
RECURSIVE Narrow(_, _, _)
Narrow(p, key, med) ==
    IF p.unLo > p.unHi THEN p
    ELSE LET a == key[p.f[p.unLo]]  z == key[p.f[p.unHi]]
         IN  CASE a = med -> Narrow([p EXCEPT !.f = Swap(@, p.unLo, p.ltLo),
                                              !.unLo = @ + 1, !.ltLo = @ + 1], key, med)
               [] a < med -> Narrow([p EXCEPT !.unLo = @ + 1], key, med)
               [] a > med /\ z = med ->
                    Narrow([p EXCEPT !.f = Swap(@, p.unHi, p.gtHi),
                                     !.unHi = @ - 1, !.gtHi = @ - 1], key, med)
               [] a > med /\ z > med -> Narrow([p EXCEPT !.unHi = @ - 1], key, med)
               [] OTHER -> Narrow([p EXCEPT !.f = Swap(@, p.unLo, p.unHi),
                                            !.unLo = @ + 1, !.unHi = @ - 1], key, med)

SwapRanges(f, p, q, n) ==
    [i \in DOMAIN f |-> CASE i \in p .. (p + n - 1) /\ n > 0 -> f[q + (i - p)]
                          [] i \in q .. (q + n - 1) /\ n > 0 -> f[p + (i - q)]
                          [] OTHER -> f[i]]

(* The array after it, and the bounds of the smaller and the greater part. *)
Parted(p, lo, hi) ==
    LET n == Min({p.ltLo - lo, p.unLo - p.ltLo})
        m == Min({hi - p.gtHi, p.gtHi - p.unHi})
    IN  [allEqual |-> p.gtHi < p.ltLo,
         f    |-> IF p.gtHi < p.ltLo THEN p.f
                  ELSE SwapRanges(SwapRanges(p.f, lo, p.unLo - n, n), p.unLo, hi - m + 1, m),
         less |-> lo + p.unLo - p.ltLo - 1,
         more |-> hi - (p.gtHi - p.unHi) + 1]
Partition(f, key, med, lo, hi) ==
    Parted(Narrow([f |-> f, unLo |-> lo, ltLo |-> lo, unHi |-> hi, gtHi |-> hi], key, med), lo, hi)

(* fallbackQSort3, its stack a sequence with the top in front.             *)
PushParts(p, lo, hi, rest, r) ==
    LET small == <<lo, p.less>>
        big   == <<p.more, hi>>
    IN  [fmap |-> p.f, r |-> r,
         stack |-> (CASE p.allEqual -> <<>>
                      [] ~p.allEqual /\ p.less - lo > hi - p.more -> <<big, small>>
                      [] OTHER -> <<small, big>>) \o rest]
QSortTop(s, eclass) ==
    LET lo    == s.stack[1][1]
        hi    == s.stack[1][2]
        r1    == (s.r * 7621 + 1) % 32768
        pivot == CASE r1 % 3 = 0 -> lo [] r1 % 3 = 1 -> (lo + hi) \div 2 [] OTHER -> hi
    IN  IF lo >= hi THEN [s EXCEPT !.stack = Tail(@)]
        ELSE IF hi - lo < FallbackSmall
        THEN [s EXCEPT !.fmap = fallbackSimpleSort(@, eclass, lo, hi), !.stack = Tail(@)]
        ELSE PushParts(Partition(s.fmap, eclass, eclass[s.fmap[pivot]], lo, hi), lo, hi, Tail(s.stack), r1)
RECURSIVE QSort3(_, _)
QSort3(s, eclass) == IF s.stack = <<>> THEN s.fmap ELSE QSort3(QSortTop(s, eclass), eclass)
fallbackQSort3(fmap, eclass, lo, hi) == QSort3([fmap |-> fmap, stack |-> <<<<lo, hi>>>>, r |-> 0], eclass)

(* fallbackSort's first bucket sort: equal bytes in descending order, and  *)
(* the first places of the buckets.                                        *)
Below(b, c) == Cardinality({i \in DOMAIN b : b[i] < c})
BucketSort(b) ==
    [fmap  |-> [k \in DOMAIN b |->
                   CHOOSE i \in DOMAIN b :
                      k = Below(b, b[i]) + Cardinality({j \in DOMAIN b : b[j] = b[i] /\ j > i})],
     heads |-> {Below(b, c) : c \in 0 .. Symbols - 1} \cup {Size(b)}]

(* A refinement by the H bytes behind those that are sorted: eclass is the *)
(* bucket of what follows; buckets of more than one are sorted by it and   *)
(* split where it changes.                                                 *)
BucketOf(heads, i) == Max({h \in heads : h <= i})
NextHead(heads, l) == Min({h \in heads : h > l})
Classes(s, n, H) ==
    [k \in DOMAIN s.fmap |->
        BucketOf(s.heads, CHOOSE i \in DOMAIN s.fmap : s.fmap[i] = (k + H) % n)]
SplitBucket(f, heads, eclass, l, r) ==
    [fmap |-> f, heads |-> heads \cup {i \in (l + 1) .. r : eclass[f[i]] # eclass[f[i - 1]]}]
RefineBucket(s, eclass, l) ==
    LET r == NextHead(s.heads, l) - 1
    IN  IF r = l THEN s ELSE SplitBucket(fallbackQSort3(s.fmap, eclass, l, r), s.heads, eclass, l, r)
Refine(s, n, H) ==
    LET eclass == Classes(s, n, H)
    IN  FoldLeft(LAMBDA t, l : RefineBucket(t, eclass, l), s,
                 SortedBy(s.heads \ {n}, <))

(* The log(N) loop goes on while a bucket had more than one and twice the  *)
(* depth is within the block.                                              *)
Resolved(s, n) == Cardinality(s.heads) = n + 1
RefinedAll(before, n, H) == H * 2 > n \/ Resolved(before, n)

(* mainGtU: the first difference of the two rotations, of their bytes and, *)
(* behind the first few, of their quadrants too; and the budget it takes.  *)
mainGtU(i1, i2, b, quadrant) ==
    LET n       == Size(b)
        same(k) == /\ At(b, i1 + k) = At(b, i2 + k)
                   /\ k >= Direct => At(quadrant, i1 + k) = At(quadrant, i2 + k)
        differ  == {k \in 0 .. (Direct + n + 15) : ~same(k)}
        k1      == Min(differ)
        rounds(last) == IF last < Direct THEN 0 ELSE (last - Direct) \div 8
    IN  IF differ = {} THEN [gt |-> FALSE, cost |-> n \div 8 + 2]
        ELSE [gt   |-> IF At(b, i1 + k1) # At(b, i2 + k1)
                       THEN At(b, i1 + k1) > At(b, i2 + k1)
                       ELSE At(quadrant, i1 + k1) > At(quadrant, i2 + k1),
              cost |-> rounds(k1)]

(* One insertion of mainSimpleSort, entries h apart.  t.ptr, t.spent.      *)
RECURSIVE SiftDown(_, _, _, _, _, _, _, _)
SiftDown(t, v, j, h, lo, d, b, quadrant) ==
    IF j <= lo + h - 1 THEN [t EXCEPT !.ptr[j] = v]
    ELSE LET c    == mainGtU(t.ptr[j - h] + d, v + d, b, quadrant)
             paid == [t EXCEPT !.spent = @ + c.cost]
         IN  IF c.gt THEN SiftDown([paid EXCEPT !.ptr[j] = t.ptr[j - h]], v, j - h, h, lo, d,
                                   b, quadrant)
             ELSE [paid EXCEPT !.ptr[j] = v]

mainSimpleSort(t, b, quadrant, lo, hi, d) ==
    LET incs == SelectSeq(<<13, 4, 1>>, LAMBDA h : h < hi - lo + 1)
        pass(u, h) == FoldLeft(LAMBDA w, i : SiftDown(w, w.ptr[i], i, h, lo, d, b, quadrant), u,
                               UpTo(lo + h, hi))
    IN  FoldLeft(pass, t, incs)

mmed3(a, b, c) == Max({Min({a, b}), Min({Max({a, b}), c})})

(* mainQSort3.  The greatest of the three parts is pushed first.           *)
MainParts(p, x) ==
    LET part(l, h, e) == [lo |-> l, hi |-> h, d |-> e]
    IN  IF p.allEqual THEN <<part(x.lo, x.hi, x.d + 1)>>
        ELSE SortedBy({part(x.lo, p.less, x.d), part(p.more, x.hi, x.d),
                       part(p.less + 1, p.more - 1, x.d + 1)},
                      LAMBDA y, z : \/ y.hi - y.lo < z.hi - z.lo
                                    \/ (y.hi - y.lo = z.hi - z.lo /\ y.lo < z.lo))
PushMain(s, p) == [t |-> [s.t EXCEPT !.ptr = p.f], stack |-> MainParts(p, s.stack[1]) \o Tail(s.stack)]
MQSortTop(s, b, quadrant) ==
    LET x   == s.stack[1]
        key == [i \in DOMAIN b |-> At(b, i + x.d)]
        med == mmed3(key[s.t.ptr[x.lo]], key[s.t.ptr[x.hi]], key[s.t.ptr[(x.lo + x.hi) \div 2]])
    IN  IF x.lo >= x.hi THEN [s EXCEPT !.stack = Tail(@)]
        ELSE IF x.hi - x.lo < MainSmall \/ x.d > MainDepth
        THEN [t |-> mainSimpleSort(s.t, b, quadrant, x.lo, x.hi, x.d), stack |-> Tail(s.stack)]
        ELSE PushMain(s, Partition(s.t.ptr, key, med, x.lo, x.hi))
RECURSIVE MQSort3(_, _, _)
MQSort3(s, b, quadrant) ==
    IF s.stack = <<>> THEN s.t ELSE MQSort3(MQSortTop(s, b, quadrant), b, quadrant)
mainQSort3(t, b, quadrant, lo, hi) ==
    MQSort3([t |-> t, stack |-> <<[lo |-> lo, hi |-> hi, d |-> 2]>>], b, quadrant)

(* mainSort's radix sort on two bytes: ascending where they are equal.     *)
Pair2(b, i) == b[i] * Symbols + At(b, i + 1)
First(b, c, c2) == Cardinality({i \in DOMAIN b : Pair2(b, i) < c * Symbols + c2})
RadixSort(b) ==
    [k \in DOMAIN b |-> CHOOSE i \in DOMAIN b :
        k = Cardinality({j \in DOMAIN b : \/ Pair2(b, j) < Pair2(b, i)
                                          \/ (Pair2(b, j) = Pair2(b, i) /\ j < i)})]
BigFreq(b, c) == Cardinality({i \in DOMAIN b : b[i] = c})
RunningOrder(b) ==
    SortedBy(0 .. Symbols - 1, LAMBDA x, y : \/ BigFreq(b, x) < BigFreq(b, y)
                                                 \/ (BigFreq(b, x) = BigFreq(b, y) /\ x < y))

(* Step 1: the small buckets [ss, j] that no scan has completed.           *)
SortSmall(t, b, ss, j) ==
    LET lo == First(b, ss, j)  hi == First(b, ss, j + 1) - 1
    IN  IF j = ss \/ t.done[ss, j] THEN t
        ELSE [(IF hi > lo THEN mainQSort3(t, b, t.quadrant, lo, hi) ELSE t)
                 EXCEPT !.done[ss, j] = TRUE]

(* Step 2: the big bucket, from its front and from its back, gives the     *)
(* order of the small buckets [t, ss], those of big buckets done apart.    *)
RECURSIVE ScanUp(_, _, _, _)
ScanUp(t, b, ss, j) ==
    IF j >= t.start[ss] THEN t
    ELSE LET k == (t.ptr[j] - 1) % Size(b)  c == b[k]
         IN  ScanUp(IF t.bigDone[c] THEN t
                    ELSE [t EXCEPT !.ptr[t.start[c]] = k, !.start[c] = @ + 1], b, ss, j + 1)
RECURSIVE ScanDown(_, _, _, _)
ScanDown(t, b, ss, j) ==
    IF j <= t.end[ss] THEN t
    ELSE LET k == (t.ptr[j] - 1) % Size(b)  c == b[k]
         IN  ScanDown(IF t.bigDone[c] THEN t
                      ELSE [t EXCEPT !.ptr[t.end[c]] = k, !.end[c] = @ - 1], b, ss, j - 1)
Met(t, b, ss) == \/ t.start[ss] - 1 = t.end[ss]
                 \/ t.start[ss] = 0 /\ t.end[ss] = Size(b) - 1
ScanDone(t, b, ss) ==
    [t EXCEPT !.done = [p \in DOMAIN @ |-> @[p] \/ p[2] = ss], !.met = @ /\ Met(t, b, ss)]
Scan(t, b, ss) ==
    LET from == [t EXCEPT !.start = [c \in 0 .. Symbols - 1 |-> First(b, c, ss)],
                          !.end = [c \in 0 .. Symbols - 1 |-> First(b, c, ss + 1) - 1]]
        up   == ScanUp(from, b, ss, First(b, ss, 0))
    IN  ScanDone(ScanDown(up, b, ss, First(b, ss + 1, 0) - 1), b, ss)

(* Mutant: the quadrants keep the order of the positions.                  *)
QuadrantsByPlace(t, b, ss) ==
    [t EXCEPT !.bigDone[ss] = TRUE,
              !.quadrant = [i \in DOMAIN b |-> IF b[i] = ss THEN i ELSE @[i]]]

(* Step 3: the order of the big bucket's rotations, for mainGtU.           *)
SetQuadrants(t, b, ss) ==
    [t EXCEPT !.bigDone[ss] = TRUE,
              !.quadrant = [i \in DOMAIN b |->
                  IF b[i] = ss THEN (CHOOSE k \in DOMAIN b : t.ptr[k] = i) - First(b, ss, 0)
                  ELSE @[i]]]

BigBucket(t, b, ss) ==
    LET sorted == FoldLeft(LAMBDA u, j : SortSmall(u, b, ss, j), t, UpTo(0, Symbols - 1))
    IN  SetQuadrants(Scan(sorted, b, ss), b, ss)

MainStart(b) ==
    [ptr |-> RadixSort(b), spent |-> 0, met |-> TRUE,
     quadrant |-> [i \in DOMAIN b |-> 0],
     done |-> [p \in (0 .. Symbols - 1) \X (0 .. Symbols - 1) |-> FALSE],
     bigDone |-> [c \in 0 .. Symbols - 1 |-> FALSE],
     start |-> <<>>, end |-> <<>>]

(* BZ2_blockSort: a sort that went over its budget is done again.          *)
Budget(n, wfact) ==
    n * ((CASE wfact < 1 -> 0 [] wfact > 100 -> 99 [] OTHER -> wfact - 1) \div 3)
FallsBack(b, spent, wfact) == Size(b) < MainBlock \/ spent > Budget(Size(b), wfact)
origPtr(ptr) == CHOOSE i \in DOMAIN ptr : ptr[i] = 0

-----------------------------------------------------------------------------

(* The reference: the rotations' order.                                    *)
RotationLess(b, i, j) ==
    \E k \in DOMAIN b : /\ \A l \in 0 .. (k - 1) : At(b, i + l) = At(b, j + l)
                        /\ At(b, i + k) < At(b, j + k)
InOrder(b, ptr) ==
    /\ {ptr[k] : k \in DOMAIN ptr} = DOMAIN b
    /\ \A k \in DOMAIN ptr : k + 1 \in DOMAIN ptr => ~RotationLess(b, ptr[k + 1], ptr[k])

-----------------------------------------------------------------------------
(* From the sorted block to bits and back.                                 *)

CONSTANTS
    MapLine,        \* bytes per line of the mapping table; Symbols is its square
    GroupSize,      \* BZ_G_SIZE, 50
    MaxCodeLen,     \* the longest code that is written, 17
    MtfLine,        \* MTFL_SIZE, 16
    MtfArea         \* MTFA_SIZE, 4096

ASSUME BlockAssumption ==
    /\ MapLine * MapLine = Symbols
    /\ {GroupSize, MaxCodeLen, MtfLine, MtfArea} \subseteq Nat \ {0}
    /\ Symbols % MtfLine = 0 /\ MtfArea > Symbols

RUNA == 0
RUNB == 1
Iterations == 4

SumOf(S, f(_)) == FoldSet(LAMBDA x, n : f(x) + n, 0, S)
Along(op(_, _), base, seq) ==
    LET upto[i \in 0 .. Len(seq)] == IF i = 0 THEN base ELSE op(upto[i - 1], seq[i])
    IN  upto[Len(seq)]
Concat(n, f(_)) == Along(LAMBDA s, i : s \o f(i), <<>>, UpTo(0, n - 1))

Flat(seqs) == Along(LAMBDA s, x : s \o x, <<>>, seqs)

(* bsW: the n low bits of v, the highest first.                            *)
bsW(n, v) == [k \in 1 .. n |-> (v \div 2 ^ (n - k)) % 2]

-----------------------------------------------------------------------------
(* Move to front.                                                          *)

makeMaps_e(b) == SortedBy({b[i] : i \in DOMAIN b}, <)

(* The pending zeros: bijective base two, RUNA for 1 and RUNB for 2.       *)
RECURSIVE ZeroRun(_)
ZeroRun(zPend) ==
    IF zPend = 0 THEN <<>>
    ELSE <<IF (zPend - 1) % 2 = 1 THEN RUNB ELSE RUNA>> \o ZeroRun((zPend - 1) \div 2)

(* Mutant: a run of zeros is written as so many RUNAs.                     *)
ZeroRunUnary(zPend) == [k \in 1 .. zPend |-> RUNA]

(* generateMTFValues over the last column of the sorted rotations.         *)
MtfOne(t, byte, map) ==
    LET seq == SelectInSeq(map, LAMBDA c : c = byte) - 1
        j   == SelectInSeq(t.yy, LAMBDA c : c = seq) - 1
    IN  IF j = 0 THEN [t EXCEPT !.zPend = @ + 1]
        ELSE [yy |-> <<seq>> \o RemoveAt(t.yy, j + 1), zPend |-> 0,
              mtfv |-> t.mtfv \o ZeroRun(t.zPend) \o <<j + 1>>]
generateMTFValues(b, ptr) ==
    LET map  == makeMaps_e(b)
        last == [k \in 1 .. Size(b) |-> At(b, ptr[k - 1] + Size(b) - 1)]
        t    == Along(LAMBDA u, byte : MtfOne(u, byte, map),
                         [yy |-> UpTo(0, Len(map) - 1), zPend |-> 0, mtfv |-> <<>>], last)
    IN  t.mtfv \o ZeroRun(t.zPend) \o <<Len(map) + 1>>

-----------------------------------------------------------------------------
(* Huffman codes (huffman.c).                                              *)

(* ADDWEIGHTS: frequencies add up, and the depth breaks their ties; which  *)
(* of two nodes that are still equal comes first is up to the heap.        *)
Lighter(x, y) ==
    \/ x.freq < y.freq
    \/ x.freq = y.freq /\ (x.depth < y.depth \/ (x.depth = y.depth /\ x.first < y.first))
Joined(x, y) ==
    [freq |-> x.freq + y.freq, depth |-> 1 + Max({x.depth, y.depth}),
     first |-> Min({x.first, y.first}), leaves |-> x.leaves \cup y.leaves]
Lightest(heap) == CHOOSE x \in heap : \A y \in heap \ {x} : Lighter(x, y)

RECURSIVE Depths(_, _)
Depths(heap, len) ==
    IF Cardinality(heap) = 1 THEN len
    ELSE LET n1   == Lightest(heap)
             n2   == Lightest(heap \ {n1})
             node == Joined(n1, n2)
         IN  Depths((heap \ {n1, n2}) \cup {node},
                    [v \in DOMAIN len |-> IF v \in node.leaves THEN len[v] + 1 ELSE len[v]])

(* Mutant: code lengths are not scaled down to the longest that is allowed.*)
RECURSIVE CodeLengthsUnscaled(_)
CodeLengthsUnscaled(weight) ==
    Depths({[freq |-> weight[v], depth |-> 0, first |-> v, leaves |-> {v}] : v \in DOMAIN weight},
           [v \in DOMAIN weight |-> 0])

(* While a code is too long the weights are halved.                        *)
RECURSIVE CodeLengths(_)
CodeLengths(weight) ==
    LET len == Depths({[freq |-> weight[v], depth |-> 0, first |-> v, leaves |-> {v}] :
                          v \in DOMAIN weight}, [v \in DOMAIN weight |-> 0])
    IN  IF \A v \in DOMAIN len : len[v] <= MaxCodeLen THEN len
        ELSE CodeLengths([v \in DOMAIN weight |-> 1 + (weight[v] \div 2)])
hbMakeCodeLengths(freq) == CodeLengths([v \in DOMAIN freq |-> Max({1, freq[v]})])

Lens(length) == {length[v] : v \in DOMAIN length}
Ordered(length) ==
    SortedBy(DOMAIN length, LAMBDA u, v : \/ length[u] < length[v]
                                              \/ (length[u] = length[v] /\ u < v))

(* hbAssignCodes: codes of a length follow one another, and the first of   *)
(* a length is behind the last shorter one, shifted.                       *)
RECURSIVE FirstCode(_, _)
FirstCode(length, n) ==
    IF n <= Min(Lens(length)) THEN 0
    ELSE 2 * (FirstCode(length, n - 1) + Cardinality({v \in DOMAIN length : length[v] = n - 1}))
hbAssignCodes(length) ==
    [v \in DOMAIN length |->
        FirstCode(length, length[v])
          + Cardinality({u \in DOMAIN length : length[u] = length[v] /\ u < v})]

(* hbCreateDecodeTables: the last code of each length, what to take from a *)
(* code of a length for its place in perm.                                 *)
hbCreateDecodeTables(length) ==
    LET shorter(n) == Cardinality({v \in DOMAIN length : length[v] < n})
    IN  [limit |-> [n \in Min(Lens(length)) .. Max(Lens(length)) |->
                       FirstCode(length, n)
                         + Cardinality({v \in DOMAIN length : length[v] = n}) - 1],
         base  |-> [n \in Min(Lens(length)) .. Max(Lens(length)) |->
                       FirstCode(length, n) - shorter(n)],
         perm  |-> Ordered(length)]

-----------------------------------------------------------------------------
(* Choosing tables (sendMTFValues).                                        *)

Groups(nMTF) ==
    CASE nMTF < 4 * GroupSize -> 2
      [] nMTF \in 4 * GroupSize .. 12 * GroupSize - 1 -> 3
      [] nMTF \in 12 * GroupSize .. 24 * GroupSize - 1 -> 4
      [] nMTF \in 24 * GroupSize .. 48 * GroupSize - 1 -> 5
      [] OTHER -> 6

Freq(mtfv, v) == Cardinality({i \in DOMAIN mtfv : mtfv[i] = v})

(* The initial tables share the symbols out by frequency: the range of     *)
(* symbols of the table nPart - 1, from gs, with remF left.                *)
RECURSIVE RangeEnd(_, _, _, _, _)
RangeEnd(mtfv, alphaSize, ge, aFreq, tFreq) ==
    IF aFreq >= tFreq \/ ge >= alphaSize - 1 THEN ge
    ELSE RangeEnd(mtfv, alphaSize, ge + 1, aFreq + Freq(mtfv, ge + 1), tFreq)
RECURSIVE InitialTables(_, _, _, _, _, _)
InitialTables(mtfv, alphaSize, nGroups, nPart, gs, remF) ==
    IF nPart = 0 THEN [t \in {} |-> 0]
    ELSE LET ge1 == RangeEnd(mtfv, alphaSize, gs - 1, 0, remF \div nPart)
             ge  == IF ge1 > gs /\ nPart # nGroups /\ nPart # 1 /\ (nGroups - nPart) % 2 = 1
                    THEN ge1 - 1 ELSE ge1
             f(v) == Freq(mtfv, v)
             rest == InitialTables(mtfv, alphaSize, nGroups, nPart - 1, ge + 1,
                                   remF - SumOf(gs .. ge, f))
         IN  [t \in 0 .. nPart - 1 |->
                IF t = nPart - 1
                THEN [v \in 0 .. alphaSize - 1 |-> IF v \in gs .. ge THEN 0 ELSE 15]
                ELSE rest[t]]

GroupCount(mtfv) == (Len(mtfv) + GroupSize - 1) \div GroupSize
GroupOf(mtfv, g) == SubSeq(mtfv, g * GroupSize + 1, Min({(g + 1) * GroupSize, Len(mtfv)}))

(* The first of the tables that are cheapest for a group.                  *)
Best(len, group) ==
    LET cost(t) == Along(LAMBDA n, v : n + len[t][v], 0, group)
    IN  CHOOSE t \in DOMAIN len : \A u \in DOMAIN len :
            cost(t) < cost(u) \/ (cost(t) = cost(u) /\ t <= u)
Select(len, mtfv) == [g \in 0 .. GroupCount(mtfv) - 1 |-> Best(len, GroupOf(mtfv, g))]

(* An iteration: every table is made anew from the groups that chose it.   *)
Improve(len, mtfv) ==
    LET selector == Select(len, mtfv)
        rfreq(t) == [v \in DOMAIN len[t] |->
                        Cardinality({i \in DOMAIN mtfv :
                            mtfv[i] = v /\ selector[(i - 1) \div GroupSize] = t})]
    IN  [len |-> [t \in DOMAIN len |-> hbMakeCodeLengths(rfreq(t))], selector |-> selector]
-----------------------------------------------------------------------------
(* The bits of a block behind its CRC (sendMTFValues).                     *)

MapBits(b) ==
    LET inUse   == {b[i] : i \in DOMAIN b}
        line(i) == {c \in inUse : c \div MapLine = i}
        used(i) == bsW(1, IF line(i) # {} THEN 1 ELSE 0)
        lineBits(i) == IF line(i) = {} THEN <<>>
                       ELSE [j \in 1 .. MapLine |-> IF i * MapLine + j - 1 \in inUse THEN 1 ELSE 0]
    IN  Concat(MapLine, used) \o Concat(MapLine, lineBits)

(* Mutant: selectors are written as they are.                              *)
SelectorsPlain(selector, nGroups) == selector

(* Selectors move to the front too.                                        *)
SelectorMtf(selector, nGroups) ==
    Along(LAMBDA t, i : LET j == SelectInSeq(t.pos, LAMBDA x : x = selector[i]) - 1
                        IN  [pos |-> <<selector[i]>> \o RemoveAt(t.pos, j + 1),
                             out |-> [t.out EXCEPT ![i] = j]],
             [pos |-> UpTo(0, nGroups - 1), out |-> selector],
             SortedBy(DOMAIN selector, <)).out
SelectorBits(selector, nGroups) ==
    LET mtf    == SelectorMtf(selector, nGroups)
        one(i) == [k \in 1 .. mtf[i] |-> 1] \o <<0>>
    IN  bsW(3, nGroups) \o bsW(15, Cardinality(DOMAIN selector))
          \o Concat(Cardinality(DOMAIN selector), one)

(* Code lengths as differences: 10 for one more, 11 for one less, 0.       *)
LengthBits(length, alphaSize) ==
    LET before(i) == IF i = 0 THEN length[0] ELSE length[i - 1]
        step(i)   == Flat([k \in 1 .. Max({length[i] - before(i), 0}) |-> bsW(2, 2)])
                       \o Flat([k \in 1 .. Max({before(i) - length[i], 0}) |-> bsW(2, 3)])
                       \o <<0>>
    IN  bsW(5, length[0]) \o Concat(alphaSize, step)

DataBits(mtfv, len, selector) ==
    LET code == [t \in DOMAIN len |-> hbAssignCodes(len[t])]
        group(g) == Flat([i \in DOMAIN GroupOf(mtfv, g) |->
                        bsW(len[selector[g]][GroupOf(mtfv, g)[i]],
                            code[selector[g]][GroupOf(mtfv, g)[i]])])
    IN  Concat(GroupCount(mtfv), group)

BlockBits(b, ptr, mtfv, len, selector) ==
    LET lengths(t) == LengthBits(len[t], Cardinality(DOMAIN len[t]))
    IN  bsW(24, origPtr(ptr)) \o MapBits(b) \o SelectorBits(selector, Cardinality(DOMAIN len))
          \o Concat(Cardinality(DOMAIN len), lengths) \o DataBits(mtfv, len, selector)

-----------------------------------------------------------------------------
(* The decompressor: r.bits are to come, r.ok is false after an error.     *)

Value(bits) == Along(LAMBDA v, bit : 2 * v + bit, 0, bits)
Take(bits, n) == Value(SubSeq(bits, 1, n))
Drop(bits, n) == SubSeq(bits, n + 1, Len(bits))

DecodeMap(bits) ==
    LET lines == {i \in 0 .. MapLine - 1 : bits[i + 1] = 1}
        index(i) == Cardinality({l \in lines : l < i})
    IN  [map  |-> SortedBy({c \in 0 .. Symbols - 1 :
                      /\ c \div MapLine \in lines
                      /\ bits[MapLine + index(c \div MapLine) * MapLine + (c % MapLine) + 1] = 1}, <),
         bits |-> Drop(bits, MapLine + MapLine * Cardinality(lines))]

(* The selectors, and their move to front undone.                          *)
RECURSIVE Ones(_)
Ones(bits) == IF bits[1] = 0 THEN 0 ELSE 1 + Ones(Tail(bits))
RECURSIVE DecodeSelectors(_, _, _, _, _)
DecodeSelectors(bits, n, pos, nGroups, selector) ==
    IF n = 0 THEN [bits |-> bits, selector |-> selector]
    ELSE LET j == Ones(bits)
         IN  IF j >= nGroups THEN [bits |-> bits, selector |-> <<>>]
             ELSE DecodeSelectors(Drop(bits, j + 1), n - 1,
                                  <<pos[j + 1]>> \o RemoveAt(pos, j + 1), nGroups,
                                  Append(selector, pos[j + 1]))

RECURSIVE DecodeLength(_, _)
DecodeLength(bits, curr) ==
    IF bits[1] = 0 \/ curr \notin 1 .. 20 THEN [curr |-> curr, bits |-> Tail(bits)]
    ELSE DecodeLength(Drop(bits, 2), IF bits[2] = 0 THEN curr + 1 ELSE curr - 1)
DecodeLengths(bits, alphaSize) ==
    LET next(t, i) == LET d == DecodeLength(t.bits, t.curr)
                      IN  [bits |-> d.bits, curr |-> d.curr, len |-> Append(t.len, d.curr)]
        all == Along(next, [bits |-> Drop(bits, 5), curr |-> Take(bits, 5), len |-> <<>>],
                        UpTo(1, alphaSize))
    IN  [bits |-> all.bits, len |-> [v \in 0 .. alphaSize - 1 |-> all.len[v + 1]]]
DecodeTables(bits, nGroups, alphaSize) ==
    Along(LAMBDA t, i : LET d == DecodeLengths(t.bits, alphaSize)
                        IN  [bits |-> d.bits, tables |-> Append(t.tables, hbCreateDecodeTables(d.len))],
             [bits |-> bits, tables |-> <<>>], UpTo(1, nGroups))

(* GET_MTF_VAL: a code grows until it is not above the last of its length. *)
RECURSIVE Symbol(_, _, _)
Symbol(bits, table, zn) ==
    LET zvec == Take(bits, zn)
    IN  IF zvec <= table.limit[zn]
        THEN [sym |-> table.perm[zvec - table.base[zn] + 1], bits |-> Drop(bits, zn)]
        ELSE Symbol(bits, table, zn + 1)
RECURSIVE DecodeSymbols(_, _, _, _, _)
DecodeSymbols(bits, tables, selector, EOB, mtfv) ==
    LET table == tables[selector[Len(mtfv) \div GroupSize + 1] + 1]
        s     == Symbol(bits, table, Min(DOMAIN table.limit))
    IN  IF s.sym = EOB THEN mtfv
        ELSE DecodeSymbols(s.bits, tables, selector, EOB, Append(mtfv, s.sym))

(* The move to front of the decoder keeps its list in lines, each with its *)
(* place in an area; a byte that comes to the front moves one entry from   *)
(* each line before its own to the next, and lines slide to lower places   *)
(* until they are all packed at the area's end again.                      *)
Lines == Symbols \div MtfLine
PackedBase == [l \in 0 .. Lines - 1 |-> MtfArea - Symbols + l * MtfLine]
PackedAt(byte) == MtfArea - Symbols + byte
MtfInit == [mtfa |-> [p \in 0 .. MtfArea - 1 |->
                         IF p >= MtfArea - Symbols THEN p - (MtfArea - Symbols) ELSE 0],
            mtfbase |-> PackedBase]
Packed(m) ==
    [mtfa |-> [p \in 0 .. MtfArea - 1 |->
                  IF p >= MtfArea - Symbols
                  THEN LET k == p - (MtfArea - Symbols)
                       IN  m.mtfa[m.mtfbase[k \div MtfLine] + (k % MtfLine)]
                  ELSE m.mtfa[p]],
     mtfbase |-> PackedBase]

(* Mutant: the lines before it keep what should move on to the next line.  *)
MtfFrontStays(m, nn) ==
    LET pp == m.mtfbase[nn \div MtfLine] + (nn % MtfLine)
    IN  [m EXCEPT !.mtfa = [p \in DOMAIN m.mtfa |->
                CASE p = m.mtfbase[0] -> m.mtfa[pp]
                  [] p \in m.mtfbase[0] + 1 .. m.mtfbase[0] + MtfLine - 1 -> m.mtfa[p - 1]
                  [] OTHER -> m.mtfa[p]]]

MtfFront(m, nn) ==
    LET lno  == nn \div MtfLine
        pp   == m.mtfbase[lno] + (nn % MtfLine)
        near == [m EXCEPT !.mtfa = [p \in DOMAIN m.mtfa |->
                    CASE p = m.mtfbase[0] -> m.mtfa[pp]
                      [] p \in m.mtfbase[0] + 1 .. pp -> m.mtfa[p - 1]
                      [] OTHER -> m.mtfa[p]]]
        line == [p \in DOMAIN m.mtfa |->
                    IF p \in m.mtfbase[lno] + 1 .. pp THEN m.mtfa[p - 1] ELSE m.mtfa[p]]
        base == [l \in DOMAIN m.mtfbase |->
                    IF l < lno THEN m.mtfbase[l] - 1 ELSE m.mtfbase[l]]
        far  == [mtfbase |-> base,
                 mtfa |-> [p \in DOMAIN line |->
                    CASE p = base[0] -> m.mtfa[pp]
                      [] \E l \in 1 .. lno : p = m.mtfbase[l] - (IF l = lno THEN 0 ELSE 1) ->
                           LET l == CHOOSE k \in 1 .. lno :
                                       p = m.mtfbase[k] - (IF k = lno THEN 0 ELSE 1)
                           IN  m.mtfa[m.mtfbase[l - 1] + MtfLine - 1]
                      [] OTHER -> line[p]]]
    IN  IF nn < MtfLine THEN near
        ELSE IF base[0] = 0 THEN Packed(far) ELSE far
FrontByte(m) == m.mtfa[m.mtfbase[0]]

(* The MTF values back to the last column.                                 *)
RECURSIVE UnMtf(_, _, _, _, _)
UnMtf(mtfv, map, m, N, column) ==
    IF mtfv = <<>> THEN column
    ELSE LET front(k) == [i \in 1 .. k |-> map[FrontByte(m) + 1]]
         IN  IF mtfv[1] \in {RUNA, RUNB}
             THEN UnMtf(Tail(mtfv), map, m, N * 2, column \o front((mtfv[1] + 1) * N))
             ELSE LET n == MtfFront(m, mtfv[1] - 1)
                  IN  UnMtf(Tail(mtfv), map, n, 1, Append(column, map[FrontByte(n) + 1]))

(* T^(-1), fast: where each row's byte stands in the last column.          *)
cftab(column, i) ==
    Cardinality({j \in DOMAIN column : \/ column[j] < column[i]
                                       \/ (column[j] = column[i] /\ j < i)})
UnsortFast(column, ptr) ==
    LET n   == Len(column)
        row == [k \in 0 .. n - 1 |-> (CHOOSE i \in 1 .. n : cftab(column, i) = k) - 1]
        at[k \in 0 .. n] == IF k = 0 THEN row[ptr] ELSE row[at[k - 1]]
    IN  [k \in 0 .. n - 1 |-> column[at[k] + 1]]

(* T^(-1), small: T with its pointers reversed along the cycle of origPtr, *)
(* and the byte of a row found by bisection (BZ2_indexIntoF).              *)
RECURSIVE Reversed(_, _, _, _)
Reversed(ll, i, j, ptr) ==
    IF i = ptr THEN ll ELSE Reversed([ll EXCEPT ![j] = i], j, ll[j], ptr)
ReverseCycle(T, ptr) ==
    LET i == ptr  j == T[ptr]
    IN  Reversed([T EXCEPT ![j] = i], j, T[j], ptr)
RECURSIVE indexIntoF(_, _, _, _)
indexIntoF(x, starts, nb, na) ==
    LET mid == (nb + na) \div 2
    IN  IF na - nb = 1 THEN nb
        ELSE IF x >= starts[mid] THEN indexIntoF(x, starts, mid, na)
        ELSE indexIntoF(x, starts, nb, mid)
UnsortSmall(column, ptr) ==
    LET n      == Len(column)
        starts == [c \in 0 .. Symbols |-> Cardinality({j \in DOMAIN column : column[j] < c})]
        ll     == ReverseCycle([i \in 0 .. n - 1 |-> cftab(column, i + 1)], ptr)
        at[k \in 0 .. n] == IF k = 0 THEN ptr ELSE ll[at[k - 1]]
    IN  [k \in 0 .. n - 1 |-> indexIntoF(at[k], starts, 0, Symbols)]

-----------------------------------------------------------------------------
(***************************************************************************)
(* A block on its way through BZ2_compressBlock and BZ2_decompress, one    *)
(* loop iteration or field a step: it is sorted both ways, the work factor *)
(* decides which order is used, its MTF values get their tables, become    *)
(* bits and are read back.                                                 *)
(***************************************************************************)
CONSTANTS
    CodecBlock,     \* blocks that are tried
    WorkFactor      \* work factors, 0 .. 250 (0 is 30)

VARIABLES
    block,
    wfact,
    stage,          \* what is done next
    fall,           \* fallbackSort: fmap and the heads of the buckets
    depth,          \* bytes fallbackSort has sorted by
    main,           \* mainSort
    order,          \* big buckets mainSort has still to do
    mtfv,
    tables,         \* the code lengths and the selectors
    iter,
    bits,           \* to be read
    read            \* what was read

codecvars ==
    <<block, wfact, stage, fall, depth, main, order, mtfv, tables, iter, bits, read>>

SortedPtr == IF FallsBack(block, main.spent, wfact) THEN fall.fmap ELSE main.ptr

RefineStep ==
    /\ stage = "refine"
    /\ fall' = Refine(fall, Size(block), depth)
    /\ depth' = depth * 2
    /\ stage' = IF RefinedAll(fall, Size(block), depth) THEN "main" ELSE "refine"
    /\ UNCHANGED <<block, wfact, main, order, mtfv, tables, iter, bits, read>>

BigBucketStep ==
    /\ stage = "main"
    /\ main' = BigBucket(main, block, Head(order))
    /\ order' = Tail(order)
    /\ stage' = IF Len(order) = 1 THEN "mtf" ELSE "main"
    /\ UNCHANGED <<block, wfact, fall, depth, mtfv, tables, iter, bits, read>>

MtfStep ==
    /\ stage = "mtf"
    /\ mtfv' = generateMTFValues(block, SortedPtr)
    /\ stage' = "groups"
    /\ UNCHANGED <<block, wfact, fall, depth, main, order, tables, iter, bits, read>>

(* sendMTFValues, up to the tables it improves.                            *)
GroupsStep ==
    /\ stage = "groups"
    /\ LET alphaSize == Len(makeMaps_e(block)) + 2
           nGroups   == Groups(Len(mtfv))
       IN  tables' = [len |-> InitialTables(mtfv, alphaSize, nGroups, nGroups, 0, Len(mtfv)),
                      selector |-> <<>>]
    /\ stage' = "improve"
    /\ UNCHANGED <<block, wfact, fall, depth, main, order, mtfv, iter, bits, read>>

ImproveStep ==
    /\ stage = "improve"
    /\ tables' = Improve(tables.len, mtfv)
    /\ iter' = iter + 1
    /\ stage' = IF iter' = Iterations THEN "send" ELSE "improve"
    /\ UNCHANGED <<block, wfact, fall, depth, main, order, mtfv, bits, read>>

SendStep ==
    /\ stage = "send"
    /\ bits' = BlockBits(block, SortedPtr, mtfv, tables.len, tables.selector)
    /\ stage' = "origPtr"
    /\ UNCHANGED <<block, wfact, fall, depth, main, order, mtfv, tables, iter, read>>

Read(next, rest, what) ==
    /\ stage' = next
    /\ bits' = rest
    /\ read' = what
    /\ UNCHANGED <<block, wfact, fall, depth, main, order, mtfv, tables, iter>>

ReadMap ==
    /\ stage = "origPtr"
    /\ LET mapped == DecodeMap(Drop(bits, 24))
       IN  Read("selectors", mapped.bits,
                [read EXCEPT !.origPtr = Take(bits, 24), !.map = mapped.map])

ReadSelectors ==
    /\ stage = "selectors"
    /\ LET nGroups == Take(bits, 3)
           s == DecodeSelectors(Drop(bits, 18), Take(Drop(bits, 3), 15), UpTo(0, nGroups - 1),
                                nGroups, <<>>)
       IN  Read("tables", s.bits, [read EXCEPT !.nGroups = nGroups, !.selector = s.selector])

ReadTables ==
    /\ stage = "tables"
    /\ LET t == DecodeTables(bits, read.nGroups, Len(read.map) + 2)
       IN  Read("symbols", t.bits, [read EXCEPT !.tables = t.tables])

ReadSymbols ==
    /\ stage = "symbols"
    /\ Read("unmtf", <<>>,
            [read EXCEPT !.mtfv = DecodeSymbols(bits, read.tables, read.selector,
                                                Len(read.map) + 1, <<>>)])

ReadColumn ==
    /\ stage = "unmtf"
    /\ Read("unsort", <<>>, [read EXCEPT !.column = UnMtf(read.mtfv, read.map, MtfInit, 1, <<>>)])

Unsort ==
    /\ stage = "unsort"
    /\ Read("done", <<>>, [read EXCEPT !.fast = UnsortFast(read.column, read.origPtr),
                                       !.small = UnsortSmall(read.column, read.origPtr)])

NothingRead ==
    /\ mtfv = <<>> /\ tables = <<>> /\ iter = 0 /\ bits = <<>>
    /\ read = [origPtr |-> 0, map |-> <<>>, nGroups |-> 0, selector |-> <<>>, tables |-> <<>>,
               mtfv |-> <<>>, column |-> <<>>, fast |-> <<>>, small |-> <<>>]
CodecInit ==
    /\ block \in CodecBlock /\ wfact \in WorkFactor
    /\ stage = "refine" /\ fall = BucketSort(block) /\ depth = 1
    /\ main = MainStart(block) /\ order = RunningOrder(block)
    /\ NothingRead
CodecOff ==
    /\ block = <<>> /\ wfact = 0 /\ stage = "off" /\ fall = <<>> /\ depth = 1
    /\ main = [met |-> TRUE] /\ order = <<>> /\ NothingRead

CodecNext ==
    \/ RefineStep \/ BigBucketStep \/ MtfStep \/ GroupsStep \/ ImproveStep \/ SendStep
    \/ ReadMap \/ ReadSelectors \/ ReadTables \/ ReadSymbols \/ ReadColumn \/ Unsort

-----------------------------------------------------------------------------

(* Both sorts bring the rotations in order, and keep what they rest on on  *)
(* the way: fallbackSort's buckets are the rotations that agree on as many *)
(* bytes as it has sorted by; mainSort's quadrants never contradict the    *)
(* rotations' order, as its comment says, and the two scans of every big   *)
(* bucket meet (assertion 1007).                                           *)
SameTo(b, i, j, n) == \A k \in 0 .. n - 1 : At(b, i + k) = At(b, j + k)
SortsBlock ==
    /\ \A k \in 1 .. Size(block) - 1 :
          (k \in fall.heads) = ~SameTo(block, fall.fmap[k - 1], fall.fmap[k], depth)
    /\ \A i, j \in DOMAIN block :
          block[i] = block[j] /\ main.quadrant[i] < main.quadrant[j] => ~RotationLess(block, j, i)
    /\ main.met
    /\ stage = "main" => InOrder(block, fall.fmap)
    /\ stage = "mtf" => InOrder(block, main.ptr)

(* What is written is read back: the MTF values, the last column and, both *)
(* ways, the block.  Every table is a complete prefix code with no code    *)
(* longer than is allowed, also for symbols that do not occur.             *)
BlockRoundTrip ==
    /\ stage \in {"unmtf", "unsort", "done"} =>
          read.mtfv = SubSeq(mtfv, 1, Len(mtfv) - 1)
    /\ stage = "done" => read.fast = block /\ read.small = block
    /\ iter > 0 => \A t \in DOMAIN tables.len :
          LET len == tables.len[t]
              share(v) == 2 ^ (MaxCodeLen - len[v])
          IN  /\ \A v \in DOMAIN len : len[v] \in 1 .. MaxCodeLen
              /\ SumOf(DOMAIN len, share) = 2 ^ MaxCodeLen

(* The two together: a block survives the way through the codec.           *)
CodecSound == SortsBlock /\ BlockRoundTrip

(* What blockSort's comment says: the stream does not depend on which of   *)
(* the sorts ordered the block.                                            *)
SortsAgree == stage = "mtf" => origPtr(fall.fmap) = origPtr(main.ptr)
=============================================================================
