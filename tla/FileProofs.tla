------------------------------ MODULE FileProofs ------------------------------
(***************************************************************************)
(* Two programs and their files, each by itself: the room in a GDB file,   *)
(* for every set of blocks and all sizes of units, and what bzip2 does to  *)
(* the files of a disk, with any library below it.                         *)
(***************************************************************************)
EXTENDS BlockStore, BzProgram, SequenceTheorems, TLAPS

-----------------------------------------------------------------------------
(* The room in a GDB file.                                                 *)

(* What the steps preserve together: disjointness of new room rests on     *)
(* every old unit being inside the file.                                   *)
IInv == TypeOK /\ UnitsInFile /\ UnitsDisjoint

Units == [size : Nat \ {0}, offset : Nat]

-----------------------------------------------------------------------------
(* Facts about the operators.                                              *)

(* Room for k units is room for every one of the first k.                  *)
LEMMA RoomForEach ==
    ASSUME NEW k \in Nat, NEW j \in 0 .. k - 1, NEW m \in Nat
    PROVE  j * m + m <= k * m
<1>1. PICK d \in Nat : k = j + 1 + d
  <2>1. k - (j + 1) \in Nat
    OBVIOUS
  <2> QED BY <2>1
<1>2. k * m = (j + 1 + d) * m
  BY <1>1
<1>3. (j + 1 + d) * m = j * m + m + d * m
  OBVIOUS
<1>4. d * m \in Nat /\ j * m \in Nat
  OBVIOUS
<1> QED BY <1>2, <1>3, <1>4

(* Two different units of new room are apart.                              *)
LEMMA FreshApart ==
    ASSUME NEW m \in Nat, NEW j \in Nat, NEW k \in Nat, j # k, end \in Nat
    PROVE  ~Overlap(Unit(m, end + j * m), Unit(m, end + k * m))
<1>1. CASE j < k
  <2>1. j * m + m <= k * m
    BY <1>1, RoomForEach
  <2>2. j * m \in Nat /\ k * m \in Nat
    OBVIOUS
  <2> QED BY <2>1, <2>2 DEF Overlap, Unit
<1>2. CASE k < j
  <2>1. k * m + m <= j * m
    BY <1>2, RoomForEach
  <2>2. j * m \in Nat /\ k * m \in Nat
    OBVIOUS
  <2> QED BY <2>1, <2>2 DEF Overlap, Unit
<1> QED BY <1>1, <1>2

(* A step that deals the units of one block, the free units and new room   *)
(* out again between that block and the list keeps all units apart.        *)
LEMMA Redistribute ==
    ASSUME IInv, NEW b \in Block, NEW New \in SUBSET Units,
           end' \in Nat, end <= end',
           \A c \in Block \ {b} : UnitsOf(c)' = UnitsOf(c),
           \A c \in Block \ {b} : chain'[c] = chain[c],
           UnitsOf(b)' \cup free' \subseteq UnitsOf(b) \cup free \cup New,
           UnitsOf(b)' \cap free' = {},
           \A i, j \in DOMAIN chain'[b] : i # j => chain'[b][i] # chain'[b][j],
           \A u \in New : end <= u.offset /\ u.offset + u.size <= end',
           \A u, v \in New : u # v => ~Overlap(u, v),
           \A c \in Block : UnitsOf(c) \subseteq Units
    PROVE  UnitsInFile' /\ UnitsDisjoint'
<1> DEFINE Dealt == UnitsOf(b) \cup free \cup New
<1>1. /\ end \in Nat
      /\ AreaStart \in Nat
      /\ free \subseteq Units
  BY SizeAssumption DEF IInv, TypeOK, Units
<1>2. \A c \in Block : \A u \in UnitsOf(c) : InFile(u)
  BY DEF IInv, UnitsInFile
<1>3. \A u \in free : InFile(u)
  BY DEF IInv, UnitsInFile
<1>4. \A u \in Units : InFile(u) => InFile(u)'
  BY <1>1 DEF InFile, Units
<1>5. AreaStart <= end
  BY DEF IInv, UnitsInFile
<1>6. \A u \in New : InFile(u)'
  BY <1>1, <1>5 DEF InFile, Units
<1>7. \A u \in Dealt : InFile(u)'
  BY <1>1, <1>2, <1>3, <1>4, <1>6
<1>8. UnitsInFile'
  <2>1. \A c \in Block \ {b} : \A u \in UnitsOf(c)' : InFile(u)'
    BY <1>2, <1>4
  <2>2. \A u \in UnitsOf(b)' : InFile(u)'
    BY <1>7
  <2>3. \A u \in free' : InFile(u)'
    BY <1>7
  <2>4. (AreaStart <= end)'
    BY <1>1, <1>5
  <2> QED BY <2>1, <2>2, <2>3, <2>4 DEF UnitsInFile
<1>9. \A u \in Units, v \in New : InFile(u) => ~Overlap(u, v) /\ ~Overlap(v, u)
  BY <1>1 DEF InFile, Overlap, Units
<1>10. \A u, v \in Dealt : u # v => ~Overlap(u, v)
  <2>1. \A u, v \in UnitsOf(b) \cup free : u # v => ~Overlap(u, v)
    BY DEF IInv, UnitsDisjoint
  <2>2. \A u \in UnitsOf(b) \cup free : u \in Units /\ InFile(u)
    BY <1>1, <1>2, <1>3
  <2> QED BY <2>1, <2>2, <1>9
(* No other block's unit touches what is dealt out.                        *)
<1>11. ASSUME NEW c \in Block \ {b}, NEW u \in UnitsOf(c), NEW v \in Dealt
       PROVE  ~Overlap(u, v) /\ ~Overlap(v, u)
  <2>1. u \in Units /\ InFile(u)
    BY <1>2
  <2>2. CASE v \in New
    BY <2>1, <2>2, <1>9
  <2>3. CASE v \in UnitsOf(b)
    BY <2>3 DEF IInv, UnitsDisjoint
  <2>4. CASE v \in free
    <3>1. u # v
      BY <2>4 DEF IInv, UnitsDisjoint
    <3> QED BY <2>4, <3>1 DEF IInv, UnitsDisjoint
  <2> QED BY <2>2, <2>3, <2>4
<1>12. \A u \in Units : Overlap(u, u)
  BY DEF Overlap, Units
<1>13. \A c \in Block : \A i, j \in DOMAIN chain'[c] : i # j => chain'[c][i] # chain'[c][j]
  BY DEF IInv, UnitsDisjoint
<1>14. \A c \in Block : \A u, v \in UnitsOf(c)' \cup free' : u # v => ~Overlap(u, v)
  <2>1. ASSUME NEW c \in Block \ {b}, NEW u \in UnitsOf(c), NEW v \in UnitsOf(c), u # v
        PROVE  ~Overlap(u, v)
    BY <2>1 DEF IInv, UnitsDisjoint
  <2>2. ASSUME NEW c \in Block \ {b}, NEW u \in UnitsOf(c)' \cup free',
               NEW v \in UnitsOf(c)' \cup free', u # v
        PROVE  ~Overlap(u, v)
    <3>1. free' \subseteq Dealt /\ UnitsOf(c)' = UnitsOf(c)
      OBVIOUS
    <3>2. CASE u \in UnitsOf(c) /\ v \in UnitsOf(c)
      BY <3>2, <2>1, <2>2
    <3>3. CASE u \in free' /\ v \in free'
      BY <3>1, <3>3, <1>10, <2>2
    <3>4. CASE u \in UnitsOf(c) /\ v \in free'
      BY <3>1, <3>4, <1>11
    <3>5. CASE u \in free' /\ v \in UnitsOf(c)
      BY <3>1, <3>5, <1>11
    <3> QED BY <3>1, <3>2, <3>3, <3>4, <3>5
  <2>3. \A u, v \in UnitsOf(b)' \cup free' : u # v => ~Overlap(u, v)
    BY <1>10
  <2> QED BY <2>2, <2>3
<1>15. \A c \in Block : UnitsOf(c)' \cap free' = {}
  <2>1. ASSUME NEW c \in Block \ {b}, NEW u \in UnitsOf(c), u \in free'
        PROVE  FALSE
    <3>1. u \in Dealt /\ u \in Units
      BY <2>1
    <3> QED BY <3>1, <1>11, <1>12
  <2> QED BY <2>1
<1>16. \A c, d \in Block : c # d =>
          \A u \in UnitsOf(c)', v \in UnitsOf(d)' : ~Overlap(u, v)
  <2>1. ASSUME NEW c \in Block \ {b}, NEW d \in Block \ {b}, c # d,
               NEW u \in UnitsOf(c), NEW v \in UnitsOf(d)
        PROVE  ~Overlap(u, v)
    BY <2>1 DEF IInv, UnitsDisjoint
  <2>2. ASSUME NEW c \in Block \ {b}, NEW u \in UnitsOf(c), NEW v \in UnitsOf(b)'
        PROVE  ~Overlap(u, v) /\ ~Overlap(v, u)
    <3>1. v \in Dealt
      OBVIOUS
    <3> QED BY <3>1, <1>11
  <2> QED BY <2>1, <2>2
<1>17. UnitsDisjoint'
  BY <1>13, <1>14, <1>15, <1>16 DEF UnitsDisjoint
<1> QED BY <1>8, <1>17

-----------------------------------------------------------------------------
(* What the invariant says of one block.                                   *)

LEMMA BlockFacts ==
    ASSUME TypeOK, NEW b \in Block, kind[b] # NoType
    PROVE  /\ kind[b] \in Type
           /\ Multiple[kind[b]] \in Nat \ {0}
           /\ chain[b] \in Seq(Nat)
           /\ UnitsOf(b) \subseteq Units
<1>1. kind[b] \in Type
  BY DEF TypeOK
<1>2. Multiple[kind[b]] \in Nat \ {0}
  BY <1>1, SizeAssumption
<1>3. chain[b] \in Seq(Nat)
  BY DEF TypeOK
<1>4. \A i \in DOMAIN chain[b] : chain[b][i] \in Nat
  BY <1>3
<1> QED BY <1>1, <1>2, <1>3, <1>4 DEF UnitsOf, Unit, Units

LEMMA AllUnits ==
    ASSUME TypeOK
    PROVE  \A c \in Block : UnitsOf(c) \subseteq Units
<1> SUFFICES ASSUME NEW c \in Block PROVE UnitsOf(c) \subseteq Units
  OBVIOUS
<1>1. CASE kind[c] # NoType
  BY <1>1, BlockFacts
<1>2. CASE kind[c] = NoType
  BY <1>2 DEF TypeOK, UnitsOf
<1> QED BY <1>1, <1>2

(* Writing the list settles whether it was overrun.                        *)
LEMMA ListWritten ==
    ASSUME NEW list, WriteFreeList(list)
    PROVE  overrun' \in BOOLEAN
<1>1. overrun' = ~(CountSize + Cardinality(list) * EntrySize <= ListArea)
  BY Zenon DEF WriteFreeList
<1> QED BY <1>1, Zenon

(* A reservation is made of listed units, which leave the list, and of new *)
(* room between the old end of the file and the new one.                   *)
LEMMA Reserved ==
    ASSUME TypeOK, NEW m \in Nat \ {0}, NEW n \in Nat, NEW fresh \in Nat,
           NEW c \in [1 .. n -> FreeOffsets(m) \cup Fresh(fresh, m)],
           Reserve(c, fresh, m)
    PROVE  /\ c \in Seq(Nat) /\ Len(c) = n
           /\ \A i, j \in 1 .. n : i # j => c[i] # c[j]
           /\ end' \in Nat /\ end <= end'
           /\ free' \subseteq free
           /\ \A i \in 1 .. n : Unit(m, c[i]) \notin free'
           /\ \A i \in 1 .. n :
                 \/ Unit(m, c[i]) \in free
                 \/ Unit(m, c[i]) \in {Unit(m, o) : o \in Fresh(fresh, m)}
           /\ \A o \in Fresh(fresh, m) : o \in Nat /\ end <= o /\ o + m <= end'
           /\ \A o, p \in Fresh(fresh, m) : o # p => ~Overlap(Unit(m, o), Unit(m, p))
           /\ overrun' \in BOOLEAN
<1>1. end \in Nat /\ fresh * m \in Nat
  BY DEF TypeOK
<1>2. end' = end + fresh * m
  BY DEF Reserve
<1>3. ASSUME NEW o \in Fresh(fresh, m)
      PROVE  o \in Nat /\ end <= o /\ o + m <= end'
  <2>1. PICK j \in 0 .. fresh - 1 : o = end + j * m
    BY DEF Fresh
  <2>2. j * m \in Nat /\ j * m + m <= fresh * m
    BY RoomForEach
  <2> QED BY <1>1, <1>2, <2>1, <2>2
<1>4. ASSUME NEW o \in Fresh(fresh, m), NEW p \in Fresh(fresh, m), o # p
      PROVE  ~Overlap(Unit(m, o), Unit(m, p))
  <2>1. PICK j \in 0 .. fresh - 1 : o = end + j * m
    BY DEF Fresh
  <2>2. PICK k \in 0 .. fresh - 1 : p = end + k * m
    BY DEF Fresh
  <2>3. j # k /\ j \in Nat /\ k \in Nat
    BY <1>4, <2>1, <2>2
  <2> QED BY <1>1, <2>1, <2>2, <2>3, FreshApart
<1>5. FreeOffsets(m) \subseteq Nat
  BY DEF FreeOffsets, TypeOK
<1>6. c \in Seq(Nat) /\ Len(c) = n /\ DOMAIN c = 1 .. n
  <2>1. c \in [1 .. n -> Nat]
    BY <1>3, <1>5
  <2> QED BY <2>1
<1>7. \A i, j \in 1 .. n : i # j => c[i] # c[j]
  <2>1. Increasing(c)
    BY DEF Reserve, IsReservation
  <2>2. \A i \in 1 .. n : c[i] \in Nat
    BY <1>6
  <2> QED BY <1>6, <2>1, <2>2 DEF Increasing
<1> DEFINE taken == {u \in free : u.size = m /\ \E i \in DOMAIN c : c[i] = u.offset}
<1>8. free' = free \ taken
  <2>1. CASE taken = {}
    BY <2>1 DEF Reserve
  <2>2. CASE taken # {}
    BY <2>2 DEF Reserve, WriteFreeList
  <2> QED BY <2>1, <2>2
<1>9. \A i \in 1 .. n : Unit(m, c[i]) \notin free'
  <2>1. ASSUME NEW i \in 1 .. n, Unit(m, c[i]) \in free
        PROVE  Unit(m, c[i]) \in taken
    BY <1>6, <2>1 DEF Unit
  <2> QED BY <1>8, <2>1
<1>10. ASSUME NEW i \in 1 .. n
       PROVE  \/ Unit(m, c[i]) \in free
              \/ Unit(m, c[i]) \in {Unit(m, o) : o \in Fresh(fresh, m)}
  <2>1. CASE c[i] \in FreeOffsets(m)
    <3>1. PICK u \in free : u.size = m /\ u.offset = c[i]
      BY <2>1 DEF FreeOffsets
    <3>2. u = Unit(m, c[i])
      BY <3>1 DEF TypeOK, Unit
    <3> QED BY <3>2
  <2>2. CASE c[i] \in Fresh(fresh, m)
    BY <2>2
  <2> QED BY <2>1, <2>2
<1>11. overrun' \in BOOLEAN
  <2>1. CASE taken = {}
    BY <2>1 DEF Reserve, TypeOK
  <2>2. CASE taken # {}
    <3>1. WriteFreeList(free \ taken)
      BY <2>2 DEF Reserve
    <3> QED BY <3>1, ListWritten
  <2> QED BY <2>1, <2>2
<1> QED BY <1>1, <1>2, <1>3, <1>4, <1>6, <1>7, <1>8, <1>9, <1>10, <1>11

-----------------------------------------------------------------------------
(* The steps.                                                              *)

LEMMA DiskTyped ==
    ASSUME TypeOK, NEW c \in Seq(Nat), NEW size \in Nat, PutOnDisk(c, size)
    PROVE  \A o \in DOMAIN disk' : disk'[o] \in [size : Nat, next : Nat]
<1>1. \A i \in DOMAIN c : Next1(c, i) \in Nat
  BY DEF Next1
<1> SUFFICES ASSUME NEW o \in DOMAIN disk'
             PROVE  disk'[o] \in [size : Nat, next : Nat]
  OBVIOUS
<1>2. CASE \E i \in DOMAIN c : c[i] = o
  <2> DEFINE i == CHOOSE i \in DOMAIN c : c[i] = o
  <2>1. i \in DOMAIN c
    BY <1>2
  <2>2. disk'[o] = [size |-> IF i = 1 THEN size ELSE 0, next |-> Next1(c, i)]
    BY <1>2 DEF PutOnDisk
  <2>3. (IF i = 1 THEN size ELSE 0) \in Nat
    OBVIOUS
  <2> HIDE DEF i
  <2> QED BY <1>1, <2>1, <2>2, <2>3
<1>3. CASE ~ \E i \in DOMAIN c : c[i] = o
  <2>1. o \in DOMAIN disk /\ disk'[o] = disk[o]
    BY <1>3 DEF PutOnDisk
  <2> QED BY <2>1 DEF TypeOK
<1> QED BY <1>2, <1>3

(* Nothing is placed and nothing is reserved yet.                          *)
LEMMA InitStep == Init => IInv
<1> SUFFICES ASSUME Init PROVE IInv
  OBVIOUS
<1>1. TypeOK
  <2>1. end \in Nat
    BY SizeAssumption DEF Init
  <2>2. free \subseteq [size : Nat \ {0}, offset : Nat]
    BY DEF Init
  <2>3. kind \in [Block -> Type \cup {NoType}]
    BY DEF Init
  <2>4. /\ chain \in [Block -> Seq(Nat)]
        /\ \A b \in Block : Len(chain[b]) <= MaxUnits
        /\ \A b \in Block : kind[b] = NoType => chain[b] = <<>>
    BY SizeAssumption DEF Init
  <2>5. \A o \in DOMAIN disk : disk[o] \in [size : Nat, next : Nat]
    BY DEF Init
  <2>6. overrun \in BOOLEAN
    BY Zenon DEF Init
  <2> QED BY <2>1, <2>2, <2>3, <2>4, <2>5, <2>6 DEF TypeOK
<1>2. \A b \in Block : UnitsOf(b) = {}
  BY DEF Init, UnitsOf
<1>3. UnitsInFile
  BY <1>2, SizeAssumption DEF Init, UnitsInFile
<1>4. UnitsDisjoint
  BY <1>2 DEF Init, UnitsDisjoint
<1> QED BY <1>1, <1>3, <1>4 DEF IInv

(* A new object owns nothing.                                              *)
LEMMA NewBlockStep ==
    ASSUME IInv, NEW b \in Block, NEW t \in Type, NewBlock(b, t)
    PROVE  IInv'
<1>1. TypeOK /\ chain[b] = <<>>
  BY DEF IInv, TypeOK, NewBlock
<1>2. TypeOK'
  BY <1>1 DEF NewBlock, TypeOK
<1>3. \A c \in Block \ {b} : UnitsOf(c)' = UnitsOf(c)
  BY <1>1 DEF NewBlock, TypeOK, UnitsOf
<1>4. UnitsOf(b) = {} /\ UnitsOf(b)' = {}
  BY <1>1 DEF NewBlock, UnitsOf
<1>5. \A c \in Block : UnitsOf(c)' = UnitsOf(c)
  BY <1>3, <1>4
<1>6. free' = free /\ end' = end /\ chain' = chain
  BY DEF NewBlock
<1>7. UnitsInFile'
  BY <1>5, <1>6 DEF IInv, UnitsInFile, InFile
<1>8. UnitsDisjoint'
  BY <1>5, <1>6 DEF IInv, UnitsDisjoint
<1> QED BY <1>2, <1>7, <1>8 DEF IInv

(* A written block may give units to the list and take units from it.      *)
LEMMA OthersStay ==
    ASSUME IInv, NEW b \in Block, NEW x, chain' = [chain EXCEPT ![b] = x],
           kind' = kind \/ \E k : kind' = [kind EXCEPT ![b] = k]
    PROVE  /\ chain'[b] = x
           /\ \A c \in Block \ {b} : chain'[c] = chain[c] /\ UnitsOf(c)' = UnitsOf(c)
<1>1. chain'[b] = x /\ \A c \in Block \ {b} : chain'[c] = chain[c]
  BY DEF IInv, TypeOK
<1>2. \A c \in Block \ {b} : kind'[c] = kind[c]
  BY DEF IInv, TypeOK
<1> QED BY <1>1, <1>2 DEF UnitsOf

(* The block grows: listed units and new room become its own.              *)
LEMMA ExtendStep ==
    ASSUME IInv, NEW b \in Block, kind[b] # NoType, kind' = kind,
           NEW size \in Nat, NEW n \in 1 .. MaxUnits, Extend(b, size, n)
    PROVE  IInv'
<1> DEFINE m == Multiple[kind[b]]
           old == chain[b]
           more == n - Len(old)
<1>1. /\ TypeOK
      /\ m \in Nat \ {0}
      /\ old \in Seq(Nat) /\ Len(old) < n /\ more \in Nat
      /\ MaxUnits \in Nat
  BY BlockFacts, SizeAssumption DEF IInv, Extend
<1>2. PICK fresh \in 0 .. more :
         \E c \in [1 .. more -> FreeOffsets(m) \cup Fresh(fresh, m)] :
            /\ Reserve(c, fresh, m)
            /\ chain' = [chain EXCEPT ![b] = old \o c]
            /\ PutOnDisk(old \o c, size)
  BY DEF Extend
<1>3. PICK c \in [1 .. more -> FreeOffsets(m) \cup Fresh(fresh, m)] :
            /\ Reserve(c, fresh, m)
            /\ chain' = [chain EXCEPT ![b] = old \o c]
            /\ PutOnDisk(old \o c, size)
  BY <1>2
<1> DEFINE New == {Unit(m, o) : o \in Fresh(fresh, m)}
           whole == old \o c
<1> HIDE DEF m, old, more, New, whole
<1>4. fresh \in Nat
  BY <1>1
<1>5. /\ c \in Seq(Nat) /\ Len(c) = more
      /\ \A i, j \in 1 .. more : i # j => c[i] # c[j]
      /\ end' \in Nat /\ end <= end'
      /\ free' \subseteq free
      /\ \A i \in 1 .. more : Unit(m, c[i]) \notin free'
      /\ \A i \in 1 .. more : Unit(m, c[i]) \in free \cup New
      /\ \A o \in Fresh(fresh, m) : o \in Nat /\ end <= o /\ o + m <= end'
      /\ \A o, p \in Fresh(fresh, m) : o # p => ~Overlap(Unit(m, o), Unit(m, p))
      /\ overrun' \in BOOLEAN
  BY <1>1, <1>3, <1>4, Reserved DEF New
<1>6. whole \in Seq(Nat) /\ Len(whole) = n /\ DOMAIN whole = 1 .. n
  BY <1>1, <1>5 DEF whole, more
<1>7. /\ \A i \in 1 .. Len(old) : whole[i] = old[i]
      /\ \A i \in Len(old) + 1 .. n : /\ i - Len(old) \in 1 .. more
                                      /\ whole[i] = c[i - Len(old)]
  BY <1>1, <1>5 DEF whole, more
<1>8. /\ chain'[b] = whole
      /\ \A d \in Block \ {b} : chain'[d] = chain[d] /\ UnitsOf(d)' = UnitsOf(d)
  BY <1>3, OthersStay DEF whole
<1>9. TypeOK'
  <2>1. PutOnDisk(whole, size)
    BY <1>3 DEF whole
  <2>2. \A o \in DOMAIN disk' : disk'[o] \in [size : Nat, next : Nat]
    BY <1>1, <1>6, <2>1, DiskTyped
  <2>3. chain' \in [Block -> Seq(Nat)]
    BY <1>1, <1>3, <1>6 DEF TypeOK, whole
  <2>4. \A d \in Block : Len(chain'[d]) <= MaxUnits
    <3>1. \A d \in Block \ {b} : Len(chain'[d]) <= MaxUnits
      BY <1>1, <1>8 DEF TypeOK
    <3>2. Len(chain'[b]) = n /\ n <= MaxUnits
      BY <1>1, <1>6, <1>8
    <3> QED BY <3>1, <3>2
  <2>5. \A d \in Block : kind'[d] = NoType => chain'[d] = <<>>
    BY <1>1, <1>8 DEF TypeOK
  <2>6. free' \subseteq [size : Nat \ {0}, offset : Nat] /\ end' \in Nat
    BY <1>1, <1>5 DEF TypeOK
  <2>7. kind' \in [Block -> Type \cup {NoType}]
    BY <1>1 DEF TypeOK
  <2> QED BY <2>2, <2>3, <2>4, <2>5, <2>6, <2>7, <1>5 DEF TypeOK
<1>10. /\ New \subseteq Units
       /\ \A u \in New : u.size = m /\ end <= u.offset /\ u.offset + u.size <= end'
       /\ \A u, v \in New : u # v => ~Overlap(u, v)
  BY <1>1, <1>5 DEF New, Unit, Units
<1>11. UnitsOf(b)' = {Unit(m, whole[i]) : i \in 1 .. n}
  BY <1>6, <1>8 DEF UnitsOf, m
<1>12. \A i \in 1 .. Len(old) : Unit(m, whole[i]) \in UnitsOf(b)
  BY <1>1, <1>7 DEF UnitsOf, m, old
<1>13. \A i \in Len(old) + 1 .. n : Unit(m, whole[i]) \in (free \cup New) \ free'
  BY <1>5, <1>7
<1>14. \A i \in 1 .. n : i \in 1 .. Len(old) \/ i \in Len(old) + 1 .. n
  BY <1>1
<1>15. UnitsOf(b)' \cup free' \subseteq UnitsOf(b) \cup free \cup New
  BY <1>5, <1>11, <1>12, <1>13, <1>14
<1>16. UnitsOf(b)' \cap free' = {}
  <2>1. \A i \in 1 .. Len(old) : Unit(m, whole[i]) \notin free'
    BY <1>5, <1>12 DEF IInv, UnitsDisjoint
  <2> QED BY <1>11, <1>13, <1>14, <2>1
<1>17. \A i \in 1 .. Len(old), j \in Len(old) + 1 .. n : whole[i] # whole[j]
  <2> SUFFICES ASSUME NEW i \in 1 .. Len(old), NEW j \in Len(old) + 1 .. n,
                      whole[i] = whole[j]
               PROVE  FALSE
    OBVIOUS
  <2> DEFINE u == Unit(m, whole[i])
  <2>1. u \in UnitsOf(b) /\ u \in free \cup New
    BY <1>12, <1>13
  <2>2. u \notin free
    BY <2>1 DEF IInv, UnitsDisjoint
  <2>3. u \in New
    BY <2>1, <2>2
  <2>4. u.offset + u.size <= end
    BY <2>1 DEF IInv, UnitsInFile, InFile
  <2> QED BY <1>1, <1>10, <2>3, <2>4 DEF Units, TypeOK
<1>18. \A i, j \in 1 .. n : i # j => whole[i] # whole[j]
  <2>1. \A i, j \in 1 .. Len(old) : i # j => whole[i] # whole[j]
    <3>1. \A i, j \in DOMAIN old : i # j => old[i] # old[j]
      BY DEF IInv, UnitsDisjoint, old
    <3>2. DOMAIN old = 1 .. Len(old)
      BY <1>1
    <3> QED BY <1>7, <3>1, <3>2
  <2>2. \A i, j \in Len(old) + 1 .. n : i # j => whole[i] # whole[j]
    BY <1>1, <1>5, <1>7
  <2> QED BY <1>14, <1>17, <2>1, <2>2
<1>19. UnitsInFile' /\ UnitsDisjoint'
  <2>1. \A u \in New : end <= u.offset /\ u.offset + u.size <= end'
    BY <1>10
  <2>2. \A i, j \in DOMAIN chain'[b] : i # j => chain'[b][i] # chain'[b][j]
    BY <1>6, <1>8, <1>18
  <2>3. \A d \in Block : UnitsOf(d) \subseteq Units
    BY <1>1, AllUnits
  <2> QED BY <1>5, <1>8, <1>10, <1>15, <1>16, <2>1, <2>2, <2>3, Redistribute
<1> QED BY <1>9, <1>19 DEF IInv

(* The block keeps its units: nothing moves.                               *)
LEMMA RewriteStep ==
    ASSUME IInv, NEW b \in Block, kind[b] # NoType, kind' = kind,
           NEW size \in Nat, NEW n \in 1 .. MaxUnits, Rewrite(b, size, n)
    PROVE  IInv'
<1>1. TypeOK /\ chain[b] \in Seq(Nat)
  BY BlockFacts DEF IInv
<1>2. free' = free /\ end' = end /\ chain' = chain /\ overrun' = overrun
  BY DEF Rewrite
<1>3. \A o \in DOMAIN disk' : disk'[o] \in [size : Nat, next : Nat]
  BY <1>1, DiskTyped DEF Rewrite
<1>4. TypeOK'
  BY <1>1, <1>2, <1>3 DEF TypeOK
<1>5. \A c \in Block : UnitsOf(c)' = UnitsOf(c)
  BY <1>2 DEF UnitsOf
<1>6. UnitsInFile'
  BY <1>2, <1>5 DEF IInv, UnitsInFile, InFile
<1>7. UnitsDisjoint'
  BY <1>2, <1>5 DEF IInv, UnitsDisjoint
<1> QED BY <1>4, <1>6, <1>7 DEF IInv

(* The tail of the chain goes to the list.                                 *)
LEMMA ShrinkStep ==
    ASSUME IInv, NEW b \in Block, kind[b] # NoType, kind' = kind,
           NEW size \in Nat, NEW n \in 1 .. MaxUnits, Shrink(b, size, n)
    PROVE  IInv'
<1> DEFINE m == Multiple[kind[b]]
           old == chain[b]
           kept == SubSeq(old, 1, n)
           tail == {Unit(m, old[i]) : i \in n + 1 .. Len(old)}
<1>1. /\ TypeOK
      /\ m \in Nat \ {0}
      /\ old \in Seq(Nat) /\ n < Len(old)
      /\ UnitsOf(b) \subseteq Units
  BY BlockFacts DEF IInv, Shrink
<1>2. /\ PutOnDisk(kept, size)
      /\ chain' = [chain EXCEPT ![b] = kept]
      /\ WriteFreeList(free \cup tail)
      /\ end' = end
  BY DEF Shrink
<1>3. UnitsOf(b) = {Unit(m, old[i]) : i \in 1 .. Len(old)}
  <2>1. DOMAIN old = 1 .. Len(old)
    BY <1>1
  <2> QED BY <2>1 DEF UnitsOf
<1>4. \A i, j \in 1 .. Len(old) : i # j => old[i] # old[j]
  BY <1>1 DEF IInv, UnitsDisjoint
<1> HIDE DEF m, old
<1>5. kept \in Seq(Nat) /\ Len(kept) = n /\ DOMAIN kept = 1 .. n
  BY <1>1
<1>6. \A i \in 1 .. n : kept[i] = old[i] /\ i \in 1 .. Len(old)
  BY <1>1
<1> HIDE DEF kept
<1>7. /\ chain'[b] = kept
      /\ \A d \in Block \ {b} : chain'[d] = chain[d] /\ UnitsOf(d)' = UnitsOf(d)
  BY <1>2, OthersStay
<1>8. free' = free \cup tail /\ overrun' \in BOOLEAN
  BY <1>2, ListWritten DEF WriteFreeList
<1>9. tail \subseteq UnitsOf(b)
  BY <1>1, <1>3
<1>10. TypeOK'
  <2>1. \A o \in DOMAIN disk' : disk'[o] \in [size : Nat, next : Nat]
    BY <1>1, <1>2, <1>5, DiskTyped
  <2>2. chain' \in [Block -> Seq(Nat)]
    BY <1>1, <1>2, <1>5 DEF TypeOK
  <2>3. \A d \in Block : Len(chain'[d]) <= MaxUnits
    <3>1. \A d \in Block \ {b} : Len(chain'[d]) <= MaxUnits
      BY <1>1, <1>7 DEF TypeOK
    <3>2. Len(chain'[b]) = n /\ n <= MaxUnits
      BY SizeAssumption, <1>5, <1>7
    <3> QED BY <3>1, <3>2
  <2>4. \A d \in Block : kind'[d] = NoType => chain'[d] = <<>>
    BY <1>1, <1>7 DEF TypeOK
  <2>5. free' \subseteq [size : Nat \ {0}, offset : Nat]
    BY <1>1, <1>8, <1>9 DEF TypeOK, Units
  <2>6. kind' \in [Block -> Type \cup {NoType}] /\ end' \in Nat
    BY <1>1, <1>2 DEF TypeOK
  <2> QED BY <2>1, <2>2, <2>3, <2>4, <2>5, <2>6, <1>8 DEF TypeOK
<1>11. UnitsOf(b)' = {Unit(m, old[i]) : i \in 1 .. n}
  BY <1>5, <1>6, <1>7 DEF UnitsOf, m
<1>12. UnitsOf(b)' \subseteq UnitsOf(b)
  BY <1>3, <1>6, <1>11
<1>13. UnitsOf(b)' \cap tail = {}
  <2> SUFFICES ASSUME NEW i \in 1 .. n, NEW j \in n + 1 .. Len(old),
                      Unit(m, old[i]) = Unit(m, old[j])
               PROVE  FALSE
    BY <1>11
  <2>1. old[i] = old[j]
    BY DEF Unit
  <2> QED BY <1>1, <1>4, <1>6, <2>1
<1>14. UnitsOf(b)' \cap free' = {}
  BY <1>8, <1>12, <1>13 DEF IInv, UnitsDisjoint
<1> HIDE DEF tail
<1>15. UnitsInFile' /\ UnitsDisjoint'
  <2>1. end' \in Nat /\ end <= end'
    BY <1>1, <1>2 DEF TypeOK
  <2>2. \A i, j \in DOMAIN chain'[b] : i # j => chain'[b][i] # chain'[b][j]
    BY <1>4, <1>5, <1>6, <1>7
  <2>3. UnitsOf(b)' \cup free' \subseteq UnitsOf(b) \cup free \cup {}
    BY <1>8, <1>9, <1>12
  <2>4. \A c \in Block : UnitsOf(c) \subseteq Units
    BY <1>1, AllUnits
  <2> QED BY <1>7, <1>14, <2>1, <2>2, <2>3, <2>4, Redistribute
<1> QED BY <1>10, <1>15 DEF IInv

(* The first unit goes to the list and the object is gone.                 *)
LEMMA EraseBlockStep ==
    ASSUME IInv, NEW b \in Block, EraseBlock(b)
    PROVE  IInv'
<1> DEFINE first == Unit(Multiple[kind[b]], chain[b][1])
<1>1. /\ TypeOK
      /\ kind[b] # NoType
      /\ chain[b] \in Seq(Nat) /\ 1 \in DOMAIN chain[b]
      /\ UnitsOf(b) \subseteq Units
  <2>1. TypeOK /\ kind[b] # NoType /\ chain[b] # <<>>
    BY DEF IInv, EraseBlock, Live
  <2> QED BY <2>1, BlockFacts
<1>2. first \in UnitsOf(b)
  BY <1>1 DEF UnitsOf
<1>3. /\ WriteFreeList(free \cup {first})
      /\ kind' = [kind EXCEPT ![b] = NoType]
      /\ chain' = [chain EXCEPT ![b] = <<>>]
      /\ end' = end /\ disk' = disk
  BY DEF EraseBlock
<1> HIDE DEF first
<1>4. /\ chain'[b] = <<>>
      /\ \A d \in Block \ {b} : chain'[d] = chain[d] /\ UnitsOf(d)' = UnitsOf(d)
  BY <1>3, OthersStay
<1>5. free' = free \cup {first} /\ overrun' \in BOOLEAN
  BY <1>3, ListWritten DEF WriteFreeList
<1>6. UnitsOf(b)' = {}
  BY <1>4 DEF UnitsOf
<1>7. TypeOK'
  <2>1. chain' \in [Block -> Seq(Nat)] /\ kind' \in [Block -> Type \cup {NoType}]
    BY <1>1, <1>3 DEF TypeOK
  <2>2. \A d \in Block : Len(chain'[d]) <= MaxUnits
    <3>1. \A d \in Block \ {b} : Len(chain'[d]) <= MaxUnits
      BY <1>1, <1>4 DEF TypeOK
    <3>2. Len(chain'[b]) <= MaxUnits
      BY <1>4, SizeAssumption
    <3> QED BY <3>1, <3>2
  <2>3. \A d \in Block : kind'[d] = NoType => chain'[d] = <<>>
    BY <1>1, <1>3, <1>4 DEF TypeOK
  <2>4. free' \subseteq [size : Nat \ {0}, offset : Nat]
    BY <1>1, <1>2, <1>5 DEF TypeOK, Units
  <2>5. /\ \A o \in DOMAIN disk' : disk'[o] \in [size : Nat, next : Nat]
        /\ end' \in Nat
    BY <1>1, <1>3 DEF TypeOK
  <2> QED BY <2>1, <2>2, <2>3, <2>4, <2>5, <1>5 DEF TypeOK
<1>8. UnitsInFile' /\ UnitsDisjoint'
  <2>1. end' \in Nat /\ end <= end'
    BY <1>1, <1>3 DEF TypeOK
  <2>2. \A i, j \in DOMAIN chain'[b] : i # j => chain'[b][i] # chain'[b][j]
    BY <1>4
  <2>3. UnitsOf(b)' \cup free' \subseteq UnitsOf(b) \cup free \cup {}
    BY <1>2, <1>5, <1>6
  <2>4. \A c \in Block : UnitsOf(c) \subseteq Units
    BY <1>1, AllUnits
  <2> QED BY <1>4, <1>6, <2>1, <2>2, <2>3, <2>4, Redistribute
<1> QED BY <1>7, <1>8 DEF IInv

-----------------------------------------------------------------------------
(* The theorems.                                                           *)

LEMMA StepKeepsInvariant == IInv /\ [Next]_vars => IInv'
<1> SUFFICES ASSUME IInv, [Next]_vars PROVE IInv'
  OBVIOUS
<1>1. ASSUME NEW b \in Block, NEW t \in Type, NewBlock(b, t)
      PROVE  IInv'
  BY <1>1, NewBlockStep
<1>2. ASSUME NEW b \in Block, NEW size, WriteBlock(b, size)
      PROVE  IInv'
  <2>1. kind[b] # NoType /\ kind' = kind /\ size \in DataSize[kind[b]]
    BY <1>2 DEF WriteBlock
  <2>2. size \in Nat
    BY <2>1, SizeAssumption DEF IInv, TypeOK
  <2>3. PICK n \in 1 .. MaxUnits :
           Extend(b, size, n) \/ Rewrite(b, size, n) \/ Shrink(b, size, n)
    BY <1>2 DEF WriteBlock
  <2>4. CASE Extend(b, size, n)
    BY <2>1, <2>2, <2>4, ExtendStep
  <2>5. CASE Rewrite(b, size, n)
    BY <2>1, <2>2, <2>5, RewriteStep
  <2>6. CASE Shrink(b, size, n)
    BY <2>1, <2>2, <2>6, ShrinkStep
  <2> QED BY <2>3, <2>4, <2>5, <2>6
<1>3. ASSUME NEW b \in Block, EraseBlock(b)
      PROVE  IInv'
  BY <1>3, EraseBlockStep
<1>4. CASE UNCHANGED vars
  <2>1. TypeOK'
    BY <1>4 DEF vars, IInv, TypeOK
  <2>2. \A c \in Block : UnitsOf(c)' = UnitsOf(c)
    BY <1>4 DEF vars, UnitsOf
  <2>3. UnitsInFile'
    BY <1>4, <2>2 DEF vars, IInv, UnitsInFile, InFile
  <2>4. UnitsDisjoint'
    BY <1>4, <2>2 DEF vars, IInv, UnitsDisjoint
  <2> QED BY <2>1, <2>3, <2>4 DEF IInv
<1> QED BY <1>1, <1>2, <1>3, <1>4 DEF Next

LEMMA Invariance == Spec => []IInv
<1> QED BY InitStep, StepKeepsInvariant, PTL DEF Spec

(* Every variable keeps its type, and a name no block has owns no unit     *)
(* (gdbNewBlock, gdbWriteBlock, gdbFreeBlock).                             *)
THEOREM TypeCorrect == Spec => []TypeOK
<1>1. IInv => TypeOK
  BY DEF IInv
<1> QED BY <1>1, Invariance, PTL

(* Every unit stays behind the free list and inside the file.              *)
THEOREM InFileAlways == Spec => []UnitsInFile
<1>1. IInv => UnitsInFile
  BY DEF IInv
<1> QED BY <1>1, Invariance, PTL

(* No byte of the file ever has two owners, for every number of blocks and *)
(* types, every unit size and every file size (gdbReserveBlockChain,       *)
(* gdbWriteBlock, gdbFreeBlockChain).                                      *)
THEOREM DisjointAlways == Spec => []UnitsDisjoint
<1>1. IInv => UnitsDisjoint
  BY DEF IInv
<1> QED BY <1>1, Invariance, PTL

(* The new units follow the old ones.                                      *)
LEMMA Extended ==
    ASSUME TypeOK, NEW b \in Block, kind[b] # NoType,
           NEW size, NEW n \in 1 .. MaxUnits, Extend(b, size, n)
    PROVE  \E c \in Seq(Nat) : chain' = [chain EXCEPT ![b] = chain[b] \o c]
<1> DEFINE m == Multiple[kind[b]]
           more == n - Len(chain[b])
<1>1. m \in Nat \ {0} /\ more \in Nat
  BY BlockFacts, SizeAssumption DEF Extend
<1>2. PICK fresh \in 0 .. more :
         \E c \in [1 .. more -> FreeOffsets(m) \cup Fresh(fresh, m)] :
            /\ Reserve(c, fresh, m)
            /\ chain' = [chain EXCEPT ![b] = chain[b] \o c]
  BY DEF Extend
<1>3. PICK c \in [1 .. more -> FreeOffsets(m) \cup Fresh(fresh, m)] :
            /\ Reserve(c, fresh, m)
            /\ chain' = [chain EXCEPT ![b] = chain[b] \o c]
  BY <1>2
<1> HIDE DEF m, more
<1>4. fresh \in Nat
  BY <1>1
<1>5. /\ c \in Seq(Nat) /\ Len(c) = more
      /\ free' \subseteq free
      /\ \A i \in 1 .. more : Unit(m, c[i]) \notin free'
  BY <1>1, <1>3, <1>4, Reserved
<1> QED BY <1>3, <1>5

(* A write never moves the unit other records know a block by.             *)
THEOREM HeadStays == Spec => HeadStable
<1> DEFINE Stays(b) == Live(b) /\ Live(b)' => chain'[b][1] = chain[b][1]
<1>1. ASSUME IInv, Next, NEW d \in Block PROVE Stays(d)
  <2> SUFFICES ASSUME Live(d), Live(d)' PROVE chain'[d][1] = chain[d][1]
    OBVIOUS
  <2>1. ASSUME NEW b \in Block, NEW t \in Type, NewBlock(b, t)
        PROVE  chain'[d][1] = chain[d][1]
    BY <2>1 DEF NewBlock
  <2>2. ASSUME NEW b \in Block, NEW size, WriteBlock(b, size)
        PROVE  chain'[d][1] = chain[d][1]
    <3>1. kind[b] # NoType /\ kind' = kind
      BY <2>2 DEF WriteBlock
    <3>2. PICK n \in 1 .. MaxUnits :
             Extend(b, size, n) \/ Rewrite(b, size, n) \/ Shrink(b, size, n)
      BY <2>2 DEF WriteBlock
    <3>3. chain[b] \in Seq(Nat) /\ chain[d] \in Seq(Nat) /\ chain[d] # <<>>
      BY <1>1, <3>1, BlockFacts DEF IInv, Live
    <3>4. CASE Extend(b, size, n)
      <4>1. PICK c \in Seq(Nat) : chain' = [chain EXCEPT ![b] = chain[b] \o c]
        BY <1>1, <3>1, <3>4, Extended DEF IInv
      <4>2. /\ chain'[b] = chain[b] \o c
            /\ \A e \in Block \ {b} : chain'[e] = chain[e]
        BY <1>1, <3>1, <4>1, OthersStay
      <4>3. d = b => chain'[d][1] = chain[d][1]
        BY <3>3, <4>2
      <4> QED BY <4>2, <4>3
    <3>5. CASE Rewrite(b, size, n)
      BY <3>5 DEF Rewrite
    <3>6. CASE Shrink(b, size, n)
      <4>1. chain' = [chain EXCEPT ![b] = SubSeq(chain[b], 1, n)]
        BY <3>6 DEF Shrink
      <4>2. /\ chain'[b] = SubSeq(chain[b], 1, n)
            /\ \A e \in Block \ {b} : chain'[e] = chain[e]
        BY <1>1, <3>1, <4>1, OthersStay
      <4>3. n < Len(chain[b])
        BY <3>6 DEF Shrink
      <4>4. d = b => chain'[d][1] = chain[d][1]
        BY <3>3, <4>2, <4>3
      <4> QED BY <4>2, <4>4
    <3> QED BY <3>2, <3>4, <3>5, <3>6
  <2>3. ASSUME NEW b \in Block, EraseBlock(b)
        PROVE  chain'[d][1] = chain[d][1]
    <3>1. /\ kind' = [kind EXCEPT ![b] = NoType]
          /\ chain' = [chain EXCEPT ![b] = <<>>]
      BY <2>3 DEF EraseBlock
    <3>2. /\ chain'[b] = <<>>
          /\ \A e \in Block \ {b} : chain'[e] = chain[e]
      BY <1>1, <3>1, OthersStay
    <3>3. d # b
      BY <3>2 DEF Live
    <3> QED BY <3>2, <3>3
  <2> QED BY <1>1, <2>1, <2>2, <2>3 DEF Next
<1>2. IInv /\ [Next]_vars => [\A b \in Block : Stays(b)]_vars
  BY <1>1
<1>3. Spec => [][\A b \in Block : Stays(b)]_vars
  BY <1>2, Invariance, PTL DEF Spec
<1> QED BY <1>3 DEF HeadStable

-----------------------------------------------------------------------------
(* What the file itself tells of the chains.                               *)

(* Two units that begin at the same place are not apart.                   *)
LEMMA SameStart ==
    ASSUME NEW m \in Nat \ {0}, NEW n \in Nat \ {0}, NEW o \in Nat
    PROVE  Overlap(Unit(m, o), Unit(n, o))
<1> QED BY DEF Overlap, Unit

(* A chain that goes to disk is there with its links and its size, and the *)
(* chains of other blocks, whose units are elsewhere, are as they were.    *)
LEMMA ChainOnDisk ==
    ASSUME IInv, IInv', ReadBack, NEW b \in Block, kind[b] # NoType, kind' = kind,
           NEW c \in Seq(Nat), chain' = [chain EXCEPT ![b] = c],
           NEW size \in Nat, NEW n \in Nat \ {0}, Len(c) = n,
           IsNeededBlockCount(n, size, Multiple[kind[b]]), PutOnDisk(c, size)
    PROVE  ReadBack'
<1>1. chain'[b] = c /\ \A d \in Block \ {b} : chain'[d] = chain[d]
  BY OthersStay
<1>2. DOMAIN c = 1 .. n /\ 1 \in DOMAIN c
  OBVIOUS
<1>3. \A i, j \in DOMAIN c : i # j => c[i] # c[j]
  BY <1>1 DEF IInv, UnitsDisjoint
<1>4. ASSUME NEW i \in DOMAIN c
      PROVE  /\ c[i] \in DOMAIN disk'
             /\ disk'[c[i]].next = Next1(c, i)
             /\ i = 1 => disk'[c[i]].size = size
  <2> DEFINE first == IF i = 1 THEN size ELSE 0
             after == Next1(c, i)
  <2>1. (CHOOSE j \in DOMAIN c : c[j] = c[i]) = i
    BY <1>3
  <2>2. \E j \in DOMAIN c : c[j] = c[i]
    OBVIOUS
  <2>3. c[i] \in DOMAIN disk' /\ disk'[c[i]] = [size |-> first, next |-> after]
    BY <2>1, <2>2 DEF PutOnDisk
  <2>4. i = 1 => first = size
    OBVIOUS
  <2> HIDE DEF first, after
  <2>5. disk'[c[i]].next = after /\ disk'[c[i]].size = first
    BY <2>3
  <2> QED BY <2>3, <2>4, <2>5 DEF after
<1>5. ASSUME NEW o \in DOMAIN disk, \A i \in DOMAIN c : c[i] # o
      PROVE  o \in DOMAIN disk' /\ disk'[o] = disk[o]
  BY <1>5 DEF PutOnDisk
<1>6. ASSUME NEW d \in Block \ {b}, Live(d), NEW i \in DOMAIN chain[d]
      PROVE  disk'[chain[d][i]] = disk[chain[d][i]] /\ chain[d][i] \in DOMAIN disk'
  <2>1. chain[d][i] \in DOMAIN disk
    BY <1>6 DEF ReadBack
  <2>2. ASSUME NEW j \in DOMAIN c, c[j] = chain[d][i]
        PROVE  FALSE
    <3>1. /\ Unit(Multiple[kind[d]], chain[d][i]) \in UnitsOf(d)'
          /\ Unit(Multiple[kind[b]], c[j]) \in UnitsOf(b)'
      BY <1>1 DEF UnitsOf
    <3>2. ~Overlap(Unit(Multiple[kind[d]], chain[d][i]), Unit(Multiple[kind[b]], c[j]))
      BY <3>1 DEF IInv, UnitsDisjoint
    <3>3. Multiple[kind[d]] \in Nat \ {0} /\ Multiple[kind[b]] \in Nat \ {0}
      BY <1>6, BlockFacts DEF IInv, Live
    <3>4. c[j] \in Nat
      OBVIOUS
    <3> QED BY <2>2, <3>2, <3>3, <3>4, SameStart
  <2> QED BY <1>5, <2>1, <2>2
<1>7. ASSUME NEW d \in Block \ {b}, Live(d)'
      PROVE  /\ \A i \in DOMAIN chain'[d] :
                   /\ chain'[d][i] \in DOMAIN disk'
                   /\ disk'[chain'[d][i]].next = Next1(chain'[d], i)
             /\ IsNeededBlockCount(Len(chain'[d]), disk'[chain'[d][1]].size,
                                   Multiple[kind'[d]])
  <2>1. Live(d)
    BY <1>1, <1>7 DEF Live
  <2>2. chain[d] \in Seq(Nat) /\ chain[d] # <<>>
    BY <2>1, BlockFacts DEF IInv, Live
  <2>3. 1 \in DOMAIN chain[d]
    BY <2>2
  <2>4. /\ \A i \in DOMAIN chain[d] : disk[chain[d][i]].next = Next1(chain[d], i)
        /\ IsNeededBlockCount(Len(chain[d]), disk[chain[d][1]].size, Multiple[kind[d]])
    BY <2>1 DEF ReadBack
  <2> QED BY <1>1, <1>6, <2>1, <2>3, <2>4
<1>8. /\ \A i \in DOMAIN c : c[i] \in DOMAIN disk' /\ disk'[c[i]].next = Next1(c, i)
      /\ disk'[c[1]].size = size
  BY <1>2, <1>4
<1>9. IsNeededBlockCount(Len(c), disk'[c[1]].size, Multiple[kind'[b]])
  BY <1>8
<1> QED BY <1>1, <1>7, <1>8, <1>9 DEF ReadBack

LEMMA StepKeepsChains == IInv /\ ReadBack /\ [Next]_vars => ReadBack'
<1> SUFFICES ASSUME IInv, ReadBack, [Next]_vars PROVE ReadBack'
  OBVIOUS
<1>1. IInv' /\ TypeOK
  BY StepKeepsInvariant DEF IInv
<1>2. ASSUME NEW b \in Block, NEW t \in Type, NewBlock(b, t)
      PROVE  ReadBack'
  <2>1. chain[b] = <<>> /\ chain' = chain /\ disk' = disk
    BY <1>1, <1>2 DEF NewBlock, TypeOK
  <2>2. \A d \in Block \ {b} : kind'[d] = kind[d]
    BY <1>1, <1>2 DEF NewBlock, TypeOK
  <2> QED BY <2>1, <2>2 DEF ReadBack, Live
<1>3. ASSUME NEW b \in Block, EraseBlock(b)
      PROVE  ReadBack'
  <2>1. /\ kind' = [kind EXCEPT ![b] = NoType]
        /\ chain' = [chain EXCEPT ![b] = <<>>]
        /\ disk' = disk
    BY <1>3 DEF EraseBlock
  <2>2. /\ chain'[b] = <<>>
        /\ \A d \in Block \ {b} : chain'[d] = chain[d] /\ kind'[d] = kind[d]
    BY <1>1, <2>1 DEF TypeOK
  <2> QED BY <2>1, <2>2 DEF ReadBack, Live
<1>4. ASSUME NEW b \in Block, NEW size, WriteBlock(b, size)
      PROVE  ReadBack'
  <2> DEFINE m == Multiple[kind[b]]
  <2>1. kind[b] # NoType /\ kind' = kind
    BY <1>4 DEF WriteBlock
  <2>2. PICK n \in 1 .. MaxUnits :
           /\ IsNeededBlockCount(n, size, m)
           /\ Extend(b, size, n) \/ Rewrite(b, size, n) \/ Shrink(b, size, n)
    BY <1>4 DEF WriteBlock
  <2>3. m \in Nat \ {0} /\ chain[b] \in Seq(Nat) /\ n \in Nat \ {0} /\ size \in Nat
    <3>1. size \in DataSize[kind[b]] /\ kind[b] \in Type
      BY <1>1, <1>4, <2>1 DEF WriteBlock, TypeOK
    <3> QED BY <1>1, <2>1, <3>1, BlockFacts, SizeAssumption
  <2>4. \E c \in Seq(Nat) : /\ chain' = [chain EXCEPT ![b] = c]
                            /\ Len(c) = n
                            /\ PutOnDisk(c, size)
    <3>1. CASE Extend(b, size, n)
      <4> DEFINE more == n - Len(chain[b])
      <4>1. PICK fresh \in 0 .. more :
               \E c \in [1 .. more -> FreeOffsets(m) \cup Fresh(fresh, m)] :
                  /\ Reserve(c, fresh, m)
                  /\ chain' = [chain EXCEPT ![b] = chain[b] \o c]
                  /\ PutOnDisk(chain[b] \o c, size)
        BY <3>1 DEF Extend
      <4>2. PICK c \in [1 .. more -> FreeOffsets(m) \cup Fresh(fresh, m)] :
               /\ Reserve(c, fresh, m)
               /\ chain' = [chain EXCEPT ![b] = chain[b] \o c]
               /\ PutOnDisk(chain[b] \o c, size)
        BY <4>1
      <4>3. more \in Nat /\ fresh \in Nat
        BY <2>3, <3>1 DEF Extend
      <4>4. c \in Seq(Nat) /\ Len(c) = more
        <5> HIDE DEF m, more
        <5> QED BY <1>1, <2>3, <4>2, <4>3, Reserved
      <4>5. chain[b] \o c \in Seq(Nat) /\ Len(chain[b] \o c) = n
        BY <2>3, <4>4
      <4> QED BY <4>2, <4>5
    <3>2. CASE Rewrite(b, size, n)
      <4>1. chain' = [chain EXCEPT ![b] = chain[b]]
        BY <1>1, <3>2 DEF Rewrite, TypeOK
      <4> QED BY <2>3, <3>2, <4>1 DEF Rewrite
    <3>3. CASE Shrink(b, size, n)
      <4>1. SubSeq(chain[b], 1, n) \in Seq(Nat) /\ Len(SubSeq(chain[b], 1, n)) = n
        BY <2>3, <3>3 DEF Shrink
      <4> QED BY <3>3, <4>1 DEF Shrink
    <3> QED BY <2>2, <3>1, <3>2, <3>3
  <2> QED BY <1>1, <2>1, <2>2, <2>3, <2>4, ChainOnDisk
<1>5. CASE UNCHANGED vars
  BY <1>5 DEF vars, ReadBack, Live
<1> QED BY <1>2, <1>3, <1>4, <1>5 DEF Next

(* A block dropped from memory can be rebuilt from the file: at every time *)
(* the units on disk, from the first one on, are the block's chain, and as *)
(* many as the stored size asks for (gdbWriteBlock, gdbReadBlock).         *)
THEOREM ReadBackAlways == Spec => []ReadBack
<1>1. Init => ReadBack
  BY DEF Init, ReadBack, Live
<1> QED BY <1>1, StepKeepsChains, Invariance, PTL DEF Spec

-----------------------------------------------------------------------------
(* bzip2 and the files of its disk.                                        *)

Fields == {"name", "out", "del", "open", "lost", "b", "h", "pos", "unused", "streamNo"}
Busy == {"compress", "stream", "finish", "bad", "aborted"}

(* What others have stays, and an output that the program may still change *)
(* or remove is none of it.                                                *)
FilesInv ==
    /\ DOMAIN fs = Names /\ DOMAIN theirs \subseteq Names /\ DOMAIN job = Fields
    /\ \A n \in DOMAIN theirs : fs[n] = theirs[n] /\ theirs[n].type # "none"
    /\ ToFile /\ job.del => job.out \notin DOMAIN theirs
    /\ job.open => ToFile /\ job.del
    /\ pc \in Busy => job.del
    /\ pc = "open" => ~job.del

(* The exit value follows what is left undone; fails is the one note of a  *)
(* damaged file that is not in it yet.                                     *)
ExitInv ==
    /\ exitValue \in Nat /\ cmd.op \in {"Z", "UNZ", "TEST"} /\ cmd.noisy \in BOOLEAN
    /\ pc \in {"stream", "bad"} \/ fails => cmd.op # "Z"
    /\ fails => undone # {}
    /\ pc # "idle" => status = "none" /\ ((\E n \in undone : ~Cut(n)) => exitValue > 0 \/ fails)
    /\ exitValue > 0 => undone # {} \/ failed
    /\ ExitIsTrue

-----------------------------------------------------------------------------
LEMMA IdleFields ==
    /\ DOMAIN Idle = Fields /\ ~Idle.del /\ ~Idle.open
BY DEF Idle, Fields

LEMMA SetFields ==
    ASSUME NEW j, DOMAIN j = Fields, NEW v
    PROVE  /\ [j EXCEPT !.open = v] = [j EXCEPT !["open"] = v]
           /\ DOMAIN [j EXCEPT !.open = v] = Fields /\ [j EXCEPT !.open = v].open = v
           /\ [j EXCEPT !.open = v].del = j.del /\ [j EXCEPT !.open = v].out = j.out
           /\ [j EXCEPT !.open = v].name = j.name
BY DEF Fields

(* What a step of the work on one operand may do: change or remove its own *)
(* output, or call a handler, which has a name to put among the undone.    *)
Works ==
    /\ DOMAIN job' = Fields /\ job'.out = job.out /\ job'.del = job.del /\ job'.name = job.name
    /\ job'.open => job.open
    /\ fs' = fs \/ (ToFile /\ job.del /\ \E v : fs' = [fs EXCEPT ![job.out] = v])
    /\ \/ exitValue' = exitValue /\ undone' = undone /\ failed' = failed /\ cut' = cut
       \/ exitValue' \in Nat /\ exitValue' > 0 /\ undone' # {} /\ failed' /\ cut' = cut
       \/ /\ exitValue' = exitValue /\ failed' = failed
          /\ undone' = undone \cup {job.name} /\ cut' = cut \cup {<<commands, job.name>>}
    /\ pc' \in Busy /\ (pc' \in {"stream", "bad"} => cmd.op # "Z")
OnItsOwn == pc \in Busy /\ Works /\ UNCHANGED <<cmd, theirs, fails, status, queue, texts, commands>>

LEMMA ExitGrows ==
    ASSUME NEW v \in Nat, exitValue \in Nat, setExit(v)
    PROVE  exitValue' \in Nat /\ exitValue' >= v /\ exitValue' >= exitValue
BY DEF setExit

LEMMA HandlersWork ==
    ASSUME FilesInv, ExitInv, pc \in Busy, NEW v \in Nat \ {0}, NEW next \in {"finish", "bad"},
           next = "bad" => cmd.op # "Z", Handlers(v, next)
    PROVE  Works
<1>1. DOMAIN job = Fields /\ exitValue \in Nat /\ job.del
  BY DEF FilesInv, ExitInv
<1>2. job' = [job EXCEPT !.open = FALSE] /\ failed' = TRUE /\ undone' # {} /\ cut' = cut /\ pc' \in {next, "aborted"}
  BY DEF Handlers
<1>3. DOMAIN job' = Fields /\ job'.out = job.out /\ job'.del = job.del /\ job'.open = FALSE /\ job'.name = job.name
  BY <1>1, <1>2, SetFields
<1>4. exitValue' \in Nat /\ exitValue' > 0
  BY <1>1, ExitGrows DEF Handlers
<1>5. fs' = fs \/ (ToFile /\ job.del /\ \E w : fs' = [fs EXCEPT ![job.out] = w])
  BY <1>1 DEF Handlers, Cleaned
<1> QED BY <1>1, <1>2, <1>3, <1>4, <1>5 DEF Works, Busy

LEMMA ClosedWorks ==
    ASSUME FilesInv, pc \in Busy, NEW h, Closed(h)
    PROVE  Works
<1>1. DOMAIN job = Fields /\ job.del
  BY DEF FilesInv
<1>2. /\ job' = [job EXCEPT !.h = h, !.open = FALSE] /\ pc' = "finish"
      /\ exitValue' = exitValue /\ undone' = undone /\ failed' = failed /\ cut' = cut
  BY DEF Closed
<1>3. DOMAIN job' = Fields /\ job'.out = job.out /\ job'.del = job.del /\ job'.name = job.name
  BY <1>1, <1>2 DEF Fields
<1>4. ~job'.open
  BY <1>1, <1>2, SetFields DEF Fields
<1>5. fs' = fs \/ (ToFile /\ \E w : fs' = [fs EXCEPT ![job.out] = w])
  <2>1. CASE ToFile
    BY <2>1 DEF Closed
  <2>2. CASE ~ToFile
    BY <2>2 DEF Closed
  <2> QED BY <2>1, <2>2
<1> QED BY <1>1, <1>2, <1>3, <1>4, <1>5 DEF Works, Busy

(* The close that nobody looks at.                                         *)
LEMMA CloseBlindWorks ==
    ASSUME FilesInv, pc \in Busy, NEW h, CloseBlind(h), NEW g, g = Flush(h)
    PROVE  Works
<1>1. DOMAIN job = Fields /\ job.del
  BY DEF FilesInv
<1>2. CASE Closed(g)
  BY <1>2, ClosedWorks
<1>3. CASE /\ fs' = IF ToFile THEN [fs EXCEPT ![job.out] = Content(g)] ELSE fs
           /\ job' = [job EXCEPT !.h = g, !.open = FALSE]
           /\ pc' = "finish"
           /\ undone' = undone \cup {job.name} /\ cut' = cut \cup {<<commands, job.name>>}
           /\ UNCHANGED <<exitValue, failed>>
  <2>1. DOMAIN job' = Fields /\ job'.out = job.out /\ job'.del = job.del /\ job'.name = job.name
    BY <1>1, <1>3 DEF Fields
  <2>2. ~job'.open
    BY <1>1, <1>3, SetFields DEF Fields
  <2>3. fs' = fs \/ (ToFile /\ \E w : fs' = [fs EXCEPT ![job.out] = w])
    <3>1. CASE ToFile
      BY <1>3, <3>1
    <3>2. CASE ~ToFile
      BY <1>3, <3>2
    <3> QED BY <3>1, <3>2
  <2> QED BY <1>1, <1>3, <2>1, <2>2, <2>3 DEF Works, Busy
<1> QED BY <1>2, <1>3, Zenon DEF CloseBlind

LEMMA CloseOkWorks ==
    ASSUME FilesInv, ExitInv, pc \in Busy, NEW h, CloseOk(h)
    PROVE  Works
<1>1. \/ Handlers(3, "finish") \/ \E g : Closed(g)
  BY Zenon DEF CloseOk
<1> QED BY <1>1, HandlersWork, ClosedWorks

(* The work goes on where it is.                                           *)
LEMMA GoesOnWorks ==
    ASSUME FilesInv, ExitInv, pc \in Busy, UNCHANGED <<fs, exitValue, undone, failed, cut>>,
           DOMAIN job' = Fields, job'.out = job.out, job'.del = job.del, job'.name = job.name, job'.open => job.open,
           pc' \in Busy, pc' \in {"stream", "bad"} => cmd.op # "Z"
    PROVE  Works
BY DEF Works

LEMMA GoingWorks ==
    ASSUME FilesInv, ExitInv, pc \in Busy, NEW b, NEW h, NEW pos, Going(b, h, pos)
    PROVE  Works
<1>1. DOMAIN job = Fields
  BY DEF FilesInv
<1>2. job' = [job EXCEPT !.b = b, !.h = h, !.pos = pos] /\ UNCHANGED <<fs, pc, exitValue, undone, failed, cut>>
  BY DEF Going
<1>3. DOMAIN job' = Fields /\ job'.out = job.out /\ job'.del = job.del /\ job'.open = job.open /\ job'.name = job.name
  BY <1>1, <1>2 DEF Fields
<1> QED BY <1>2, <1>3, GoesOnWorks DEF ExitInv

LEMMA WorkKeeps ==
    ASSUME FilesInv, ExitInv, OnItsOwn
    PROVE  FilesInv' /\ ExitInv'
<1>0. pc \in Busy /\ Works /\ UNCHANGED <<cmd, theirs, fails, status, commands>>
  BY DEF OnItsOwn
<1>1. DOMAIN fs' = Names /\ \A n \in DOMAIN theirs : fs'[n] = theirs[n]
  <2>1. CASE fs' = fs
    BY <2>1, <1>0 DEF FilesInv
  <2>2. CASE fs' # fs
    <3>1. PICK v : fs' = [fs EXCEPT ![job.out] = v]
      BY <2>2, <1>0 DEF Works
    <3>2. job.out \notin DOMAIN theirs
      BY <2>2, <1>0 DEF Works, FilesInv
    <3> QED BY <3>1, <3>2, <1>0 DEF FilesInv
  <2> QED BY <2>1, <2>2
<1>2. FilesInv'
  <2>1. ToFile' = ToFile
    BY <1>0 DEF ToFile
  <2>2. (job'.open => ToFile /\ job.del) /\ job.del /\ pc' # "open"
    BY <1>0 DEF Works, FilesInv, Busy
  <2> QED BY <1>0, <1>1, <2>1, <2>2 DEF FilesInv, Works
<1>3. ExitInv'
  <2>1. status = "none" /\ status' = "none"
    BY <1>0 DEF ExitInv, Busy
  <2>2. ExitIsTrue'
    BY <1>0, <2>1 DEF ExitIsTrue
  <2>3. CASE exitValue' = exitValue /\ undone' = undone /\ failed' = failed /\ cut' = cut
    BY <1>0, <2>1, <2>2, <2>3 DEF ExitInv, Works, Busy, Cut
  <2>4. CASE exitValue' \in Nat /\ exitValue' > 0 /\ undone' # {} /\ failed' /\ cut' = cut
    BY <1>0, <2>1, <2>2, <2>4 DEF ExitInv, Works, Busy, Cut
  <2>5. CASE /\ exitValue' = exitValue /\ failed' = failed
             /\ undone' = undone \cup {job.name} /\ cut' = cut \cup {<<commands, job.name>>}
    <3>1. ASSUME NEW n \in undone', ~Cut(n)' PROVE n \in undone /\ ~Cut(n)
      BY <1>0, <2>5, <3>1 DEF Cut
    <3>2. undone' # {}
      BY <2>5
    <3>3. fails => undone # {}
      BY DEF ExitInv
    <3> QED BY <1>0, <2>1, <2>2, <2>5, <3>1, <3>2, <3>3 DEF ExitInv, Works, Busy
  <2> QED BY <1>0, <2>3, <2>4, <2>5 DEF Works
<1> QED BY <1>2, <1>3

LEMMA CompressWorks ==
    ASSUME FilesInv, ExitInv, CompressPiece \/ CompressEnd
    PROVE  OnItsOwn
<1>1. pc = "compress" /\ UNCHANGED <<cmd, theirs, fails, status, queue, texts, commands>>
  BY DEF CompressPiece, CompressEnd, Rest, Same
<1>2. CASE CompressPiece
  <2>1. \E r, n : Written(r, n)
    BY <1>2, Zenon DEF CompressPiece
  <2>2. PICK r, n : Written(r, n)
    BY <2>1
  <2>3. Going(<<r.b>>, r.h, n) \/ Handlers(3, "finish")
    BY <2>2, Zenon DEF Written
  <2> QED BY <1>1, <2>3, GoingWorks, HandlersWork DEF OnItsOwn, Busy
<1>3. CASE CompressEnd
  <2>1. PICK r : WriteClosed(r)
    BY <1>3, Zenon DEF CompressEnd
  <2>2. Closed(r.h) \/ Handlers(3, "finish")
    BY <2>1, Zenon DEF WriteClosed
  <2> QED BY <1>1, <2>2, ClosedWorks, HandlersWork DEF OnItsOwn, Busy
<1> QED BY <1>2, <1>3

LEMMA NextStreamWorks ==
    ASSUME FilesInv, ExitInv, NextStream
    PROVE  OnItsOwn
<1>1. /\ pc = "stream" /\ UNCHANGED <<cmd, theirs, fails, status, queue, texts, commands>>
      /\ UNCHANGED <<fs, pc, exitValue, undone, failed, cut>> /\ DOMAIN job = Fields
      /\ job' = [job EXCEPT !.b = <<BZ2_bzReadOpen(cmd.small, job.unused)>>, !.streamNo = @ + 1]
  BY DEF NextStream, Rest, Same, FilesInv
<1>2. DOMAIN job' = Fields /\ job'.out = job.out /\ job'.del = job.del /\ job'.open = job.open /\ job'.name = job.name
  BY <1>1 DEF Fields
<1> QED BY <1>1, <1>2, GoesOnWorks DEF OnItsOwn, Busy, ExitInv

LEMMA ReadWorks ==
    ASSUME FilesInv, ExitInv, ReadPiece
    PROVE  OnItsOwn
<1>1. /\ pc = "stream" /\ cmd.op # "Z" /\ UNCHANGED <<cmd, theirs, fails, status, queue, texts, commands>>
      /\ DOMAIN job = Fields
  BY DEF ReadPiece, Rest, Same, FilesInv, ExitInv
<1>2. ASSUME NEW h, NoMagic(h) PROVE Works
  <2>1. CASE \E g : PassedThrough(g)
    <3>1. PICK g : PassedThrough(g)
      BY <2>1
    <3>2. Handlers(3, "finish") \/ CloseOk(g)
      BY <3>1, Zenon DEF PassedThrough
    <3> QED BY <1>1, <3>2, HandlersWork, CloseOkWorks DEF Busy
  <2>2. CASE CloseBlind(h)
    BY <1>1, <2>2, CloseBlindWorks DEF Busy
  <2>3. CASE pc' = "bad" /\ job' = [job EXCEPT !.open = FALSE] /\ UNCHANGED <<fs, exitValue, undone, failed, cut>>
    <3>1. DOMAIN job' = Fields /\ job'.out = job.out /\ job'.del = job.del /\ job'.name = job.name
      BY <1>1, <2>3 DEF Fields
    <3>2. ~job'.open
      BY <1>1, <2>3, SetFields
    <3> QED BY <1>1, <2>3, <3>1, <3>2, GoesOnWorks DEF Busy
  <2> QED BY <1>2, <2>1, <2>2, <2>3, Zenon DEF NoMagic
<1>3. ASSUME NEW r, NEW h, StreamEnd(r, h) PROVE Works
  <2>1. CASE CloseOk(h)
    BY <1>1, <2>1, CloseOkWorks DEF Busy
  <2>2. CASE /\ job' = [job EXCEPT !.b = <<>>, !.h = h, !.pos = r.pos,
                                   !.unused = BZ2_bzReadGetUnused(r.b)]
             /\ UNCHANGED <<fs, pc, exitValue, undone, failed, cut>>
    <3>1. DOMAIN job' = Fields /\ job'.out = job.out /\ job'.del = job.del /\ job'.open = job.open /\ job'.name = job.name
      BY <1>1, <2>2 DEF Fields
    <3> QED BY <1>1, <2>2, <3>1, GoesOnWorks DEF Busy
  <2> QED BY <1>3, <2>1, <2>2, Zenon DEF StreamEnd
<1>4. ASSUME Damaged PROVE Works
  <2>1. CASE pc' = "bad" /\ UNCHANGED <<fs, job, exitValue, undone, failed, cut>>
    BY <1>1, <2>1, GoesOnWorks DEF Busy
  <2>2. CASE \E next \in {"finish", "bad"} : Handlers(2, next)
    BY <1>1, <2>2, HandlersWork DEF Busy
  <2> QED BY <1>4, <2>1, <2>2, Zenon DEF Damaged
<1>5. PICK r, h : Took(r, h)
  <2>1. \E r : Read(r)
    BY Zenon DEF ReadPiece
  <2> QED BY <2>1, Zenon DEF Read
<1>6. \/ Handlers(3, "finish") \/ Going(<<r.b>>, h, r.pos) \/ StreamEnd(r, h) \/ NoMagic(h) \/ Damaged
  BY <1>5, Zenon DEF Took
<1>7. Works
  BY <1>1, <1>2, <1>3, <1>4, <1>6, HandlersWork, GoingWorks DEF Busy
<1> QED BY <1>1, <1>7 DEF OnItsOwn, Busy

LEMMA WriteNowhereWorks ==
    ASSUME FilesInv, ExitInv, WriteNowhere
    PROVE  OnItsOwn
<1>1. /\ pc \in {"compress", "stream"} /\ pc' \in {"finish", "aborted"}
      /\ UNCHANGED <<cmd, theirs, fails, status, queue, texts, commands>> /\ UNCHANGED <<fs, job, exitValue, undone, failed, cut>>
  BY DEF WriteNowhere, Rest, Same
<1>2. DOMAIN job' = Fields
  BY <1>1 DEF FilesInv
<1>3. Works
  BY <1>1, <1>2, GoesOnWorks DEF Busy
<1> QED BY <1>1, <1>3 DEF OnItsOwn, Busy

LEMMA StartKeeps ==
    ASSUME FilesInv, ExitInv, NEW c \in Commands, Start(c)
    PROVE  FilesInv' /\ ExitInv'
<1>1. /\ cmd' = c /\ job' = Idle /\ pc' = "next" /\ status' = "none" /\ exitValue' = 0
      /\ fails' = FALSE /\ undone' = {} /\ fs' = fs /\ theirs' = theirs /\ failed' = failed
  BY DEF Start
<1>2. FilesInv'
  BY <1>1, IdleFields DEF FilesInv, Busy
<1>3. ExitInv'
  BY <1>1, ProgramAssumption DEF ExitInv, ExitIsTrue, Cut
<1> QED BY <1>2, <1>3

(* An operand that is refused, or whose output others have made meanwhile. *)
LEMMA SkipKeeps ==
    ASSUME ExitInv, Skip, UNCHANGED <<cmd, fails, status, failed, cut, commands>>, pc # "idle", pc' = "next"
    PROVE  ExitInv'
<1>1. exitValue' \in Nat /\ exitValue' >= 1 /\ undone' # {}
  BY ExitGrows DEF Skip, ExitInv
<1> QED BY <1>1 DEF ExitInv, ExitIsTrue, Cut

LEMMA CheckKeeps ==
    ASSUME FilesInv, ExitInv, Check
    PROVE  FilesInv' /\ ExitInv'
<1> DEFINE name == Head(queue)
           out == outName(name)
           goes == ToFile /\ Exists(out)
<1>1. /\ pc = "next" /\ UNCHANGED <<cmd, fails, status, failed, cut, commands>>
  BY DEF Check, Same
<1>2. \/ Skip /\ UNCHANGED <<fs, pc, job, theirs, texts>>
      \/ /\ fs' = IF goes THEN [fs EXCEPT ![out] = NoFile] ELSE fs
         /\ theirs' = IF goes THEN Without(theirs, out) ELSE theirs
         /\ job' = [Idle EXCEPT !.name = name, !.out = out]
         /\ pc' = "open"
         /\ UNCHANGED <<queue, exitValue, undone>>
  BY Zenon DEF Check
<1>3. CASE Skip /\ UNCHANGED <<fs, pc, job, theirs, texts>>
  <2>1. FilesInv'
    BY <1>1, <1>3 DEF FilesInv, ToFile
  <2> QED BY <1>1, <1>3, <2>1, SkipKeeps
<1>4. CASE /\ fs' = IF goes THEN [fs EXCEPT ![out] = NoFile] ELSE fs
           /\ theirs' = IF goes THEN Without(theirs, out) ELSE theirs
           /\ job' = [Idle EXCEPT !.name = name, !.out = out]
           /\ pc' = "open"
           /\ UNCHANGED <<queue, exitValue, undone>>
  <2>1. DOMAIN job' = Fields
    BY <1>4 DEF Idle, Fields
  <2>2. ~job'.del /\ ~job'.open
    <3>1. job'.del = Idle.del /\ job'.open = Idle.open
      BY <1>4 DEF Idle
    <3> QED BY <3>1, IdleFields
  <2> HIDE DEF out, goes
  <2>3. DOMAIN fs' = Names /\ DOMAIN theirs' \subseteq Names
    BY <1>4 DEF FilesInv, Without
  <2>4. \A n \in DOMAIN theirs' : fs'[n] = theirs'[n] /\ theirs'[n].type # "none"
    BY <1>4 DEF FilesInv, Without
  <2>5. FilesInv'
    BY <1>4, <2>1, <2>2, <2>3, <2>4 DEF FilesInv, Busy
  <2>6. ExitInv'
    BY <1>1, <1>4 DEF ExitInv, ExitIsTrue, Cut
  <2> QED BY <2>5, <2>6
<1> QED BY <1>2, <1>3, <1>4

LEMMA OpenKeeps ==
    ASSUME FilesInv, ExitInv, NEW space, Open(space)
    PROVE  FilesInv' /\ ExitInv'
<1>1. /\ pc = "open" /\ UNCHANGED <<cmd, fails, status, failed, cut, commands, theirs, texts>> /\ DOMAIN job = Fields
      /\ ToFile' = ToFile
  BY DEF Open, Same, FilesInv, ToFile
<1>2. \/ Skip /\ pc' = "next" /\ UNCHANGED <<fs, job>>
      \/ /\ ToFile => ~Exists(job.out)
         /\ fs' = IF ToFile THEN [fs EXCEPT ![job.out] = Compressed(<<>>)] ELSE fs
         /\ job' = Opened(space)
         /\ pc' = IF cmd.op = "Z" THEN "compress" ELSE "stream"
         /\ UNCHANGED <<queue, exitValue, undone>>
  BY Zenon DEF Open
<1>3. CASE Skip /\ pc' = "next" /\ UNCHANGED <<fs, job>>
  <2>1. FilesInv'
    BY <1>1, <1>3 DEF FilesInv, Busy
  <2> QED BY <1>1, <1>3, <2>1, SkipKeeps
<1>4. CASE /\ ToFile => ~Exists(job.out)
           /\ fs' = IF ToFile THEN [fs EXCEPT ![job.out] = Compressed(<<>>)] ELSE fs
           /\ job' = Opened(space)
           /\ pc' = IF cmd.op = "Z" THEN "compress" ELSE "stream"
           /\ UNCHANGED <<queue, exitValue, undone>>
  <2>1. DOMAIN job' = Fields /\ job'.out = job.out
    BY <1>1, <1>4 DEF Opened, Fields
  <2>2. job'.del /\ job'.open = ToFile
    BY <1>1, <1>4, Zenon DEF Opened, Fields
  <2>3. ToFile => job.out \notin DOMAIN theirs
    BY <1>4 DEF FilesInv, Exists
  <2>4. /\ DOMAIN fs' = Names
        /\ \A n \in DOMAIN theirs : fs'[n] = theirs[n] /\ theirs[n].type # "none"
    <3>1. CASE ToFile
      BY <1>4, <2>3, <3>1 DEF FilesInv
    <3>2. CASE ~ToFile
      BY <1>4, <3>2 DEF FilesInv
    <3> QED BY <3>1, <3>2
  <2>5. FilesInv'
    <3>1. job'.open => ToFile
      BY <2>2, Zenon
    <3> QED BY <1>1, <1>4, <2>1, <2>2, <2>3, <2>4, <3>1 DEF FilesInv
  <2>6. ExitInv'
    BY <1>1, <1>4 DEF ExitInv, ExitIsTrue, Cut
  <2> QED BY <2>5, <2>6
<1> QED BY <1>2, <1>3, <1>4

LEMMA FinishKeeps ==
    ASSUME FilesInv, ExitInv, Finish
    PROVE  FilesInv' /\ ExitInv'
<1>1. /\ pc = "finish" /\ UNCHANGED <<cmd, fails, status, exitValue, undone, failed, cut, commands>>
      /\ pc' = "next" /\ job' = Idle
      /\ fs' = IF ToFile /\ ~cmd.keep THEN [fs EXCEPT ![job.name] = NoFile] ELSE fs
      /\ theirs' = IF ToFile /\ ~cmd.keep THEN Without(theirs, job.name) ELSE theirs
  BY DEF Finish, Same, NextOperand
<1>2. /\ DOMAIN fs' = Names /\ DOMAIN theirs' \subseteq Names
      /\ \A n \in DOMAIN theirs' : fs'[n] = theirs'[n] /\ theirs'[n].type # "none"
  <2>1. CASE ToFile /\ ~cmd.keep
    BY <1>1, <2>1 DEF FilesInv, Without
  <2>2. CASE ~(ToFile /\ ~cmd.keep)
    BY <1>1, <2>2 DEF FilesInv
  <2> QED BY <2>1, <2>2
<1>3. FilesInv'
  BY <1>1, <1>2, IdleFields DEF FilesInv, Busy
<1>4. ExitInv'
  BY <1>1 DEF ExitInv, ExitIsTrue, Cut
<1> QED BY <1>3, <1>4

LEMMA FinishBadKeeps ==
    ASSUME FilesInv, ExitInv, FinishBad
    PROVE  FilesInv' /\ ExitInv'
<1>1. /\ pc = "bad" /\ UNCHANGED <<cmd, status, failed, cut, commands, theirs>> /\ fails' = TRUE /\ undone' # {}
      /\ pc' = "next" /\ job' = Idle
      /\ fs' = IF ToFile THEN [fs EXCEPT ![job.out] = NoFile] ELSE fs
  BY DEF FinishBad, NextOperand
<1>2. exitValue' \in Nat /\ exitValue' >= exitValue
  <2>1. setExit(2) \/ exitValue' = exitValue
    BY DEF FinishBad
  <2>2. exitValue \in Nat
    BY DEF ExitInv
  <2> QED BY <2>1, <2>2, ExitGrows
<1>3. /\ DOMAIN fs' = Names /\ \A n \in DOMAIN theirs : fs'[n] = theirs[n] /\ theirs[n].type # "none"
  <2>1. CASE ToFile
    BY <1>1, <2>1 DEF FilesInv, Busy
  <2>2. CASE ~ToFile
    BY <1>1, <2>2 DEF FilesInv
  <2> QED BY <2>1, <2>2
<1>4. FilesInv'
  BY <1>1, <1>3, IdleFields DEF FilesInv, Busy
<1>5. ExitInv'
  BY <1>1, <1>2 DEF ExitInv, ExitIsTrue, Cut
<1> QED BY <1>4, <1>5

LEMMA EndKeeps ==
    ASSUME FilesInv, ExitInv, EndOfCommand
    PROVE  FilesInv' /\ ExitInv'
<1>1. /\ pc = "next" /\ pc' = "idle" /\ status' = "exit"
      /\ UNCHANGED <<fs, cmd, job, fails, undone, failed, cut, commands, theirs>>
  BY DEF EndOfCommand
<1>2. FilesInv'
  BY <1>1 DEF FilesInv, Busy, ToFile
<1>3. ExitInv'
  <2>1. CASE fails /\ (cmd.op = "UNZ" \/ cmd.noisy)
    <3>1. setExit(2)
      BY <2>1 DEF EndOfCommand
    <3>2. exitValue' \in Nat /\ exitValue' > 0
      BY <3>1, ExitGrows DEF ExitInv
    <3> QED BY <1>1, <2>1, <3>2 DEF ExitInv, ExitIsTrue, Cut
  <2>2. CASE ~(fails /\ (cmd.op = "UNZ" \/ cmd.noisy))
    <3>1. exitValue' = exitValue
      BY <2>2 DEF EndOfCommand
    <3> QED BY <1>1, <2>2, <3>1 DEF ExitInv, ExitIsTrue, Cut
  <2> QED BY <2>1, <2>2
<1> QED BY <1>2, <1>3

LEMMA EndsAtOnceKeeps ==
    ASSUME FilesInv, ExitInv, EndsAtOnce
    PROVE  FilesInv' /\ ExitInv'
<1>1. /\ pc' = "idle" /\ status' = "killed" /\ job' = Idle
      /\ UNCHANGED <<cmd, exitValue, fails, undone, failed, cut, commands, theirs>>
  BY DEF EndsAtOnce
<1>2. fs' = fs \/ (job.open /\ \E v : fs' = [fs EXCEPT ![job.out] = v])
  BY Zenon DEF EndsAtOnce
<1>3. /\ DOMAIN fs' = Names /\ \A n \in DOMAIN theirs : fs'[n] = theirs[n] /\ theirs[n].type # "none"
  BY <1>2 DEF FilesInv
<1>4. FilesInv'
  BY <1>1, <1>3, IdleFields DEF FilesInv, Busy
<1>5. ExitInv'
  BY <1>1 DEF ExitInv, ExitIsTrue, Cut
<1> QED BY <1>4, <1>5

LEMMA InterruptKeeps ==
    ASSUME FilesInv, ExitInv, Interrupt
    PROVE  FilesInv' /\ ExitInv'
<1>1. /\ pc \notin {"idle", "aborted"} /\ UNCHANGED <<cmd, pc, fails, status, theirs>> /\ failed' = TRUE
      /\ fs' = Cleaned /\ undone \subseteq undone' /\ DOMAIN job = Fields
      /\ job' = [job EXCEPT !.lost = job.open, !.open = FALSE]
  BY DEF Interrupt, FilesInv
<1>2. exitValue' \in Nat /\ exitValue' > 0
  BY ExitGrows DEF Interrupt, ExitInv
<1>3. DOMAIN job' = Fields /\ job'.out = job.out /\ job'.del = job.del
  BY <1>1 DEF Fields
<1>4. ~job'.open
  BY <1>1, Zenon DEF Fields
<1>5. /\ DOMAIN fs' = Names /\ \A n \in DOMAIN theirs : fs'[n] = theirs[n] /\ theirs[n].type # "none"
  <2>1. CASE ToFile /\ job.del /\ Exists(job.name)
    BY <1>1, <2>1 DEF FilesInv, Cleaned
  <2>2. CASE ~(ToFile /\ job.del /\ Exists(job.name))
    BY <1>1, <2>2 DEF FilesInv, Cleaned
  <2> QED BY <2>1, <2>2
<1>6. FilesInv'
  BY <1>1, <1>3, <1>4, <1>5 DEF FilesInv, ToFile
<1>7. ExitInv'
  BY <1>1, <1>2 DEF ExitInv, ExitIsTrue, Cut
<1> QED BY <1>6, <1>7

LEMMA OtherKeeps ==
    ASSUME FilesInv, ExitInv, Other
    PROVE  FilesInv' /\ ExitInv'
<1>1. /\ pc = "open" /\ ToFile /\ job.out \in Names
      /\ fs' = [fs EXCEPT ![job.out] = Text(<<2>>)]
      /\ theirs' = [n \in DOMAIN theirs \cup {job.out} |-> fs'[n]]
      /\ UNCHANGED <<cmd, pc, job, exitValue, fails, undone, status, failed, cut, commands>>
  BY DEF Other
<1>2. job.out \in Names /\ Text(<<2>>).type # "none"
  BY <1>1 DEF Text
<1> DEFINE t == Text(<<2>>)
<1> HIDE DEF t
<1>3. /\ DOMAIN fs' = Names /\ DOMAIN theirs' \subseteq Names
      /\ \A n \in DOMAIN theirs' : fs'[n] = theirs'[n] /\ theirs'[n].type # "none"
  <2>1. fs' = [fs EXCEPT ![job.out] = t] /\ t.type # "none"
    BY <1>1, <1>2 DEF t
  <2> QED BY <1>1, <1>2, <2>1 DEF FilesInv
<1>4. FilesInv'
  BY <1>1, <1>3 DEF FilesInv, Busy, ToFile
<1>5. ExitInv'
  BY <1>1 DEF ExitInv, ExitIsTrue, Cut
<1> QED BY <1>4, <1>5
-----------------------------------------------------------------------------
LEMMA InitHolds ==
    ProgramInit => FilesInv /\ ExitInv
<1> SUFFICES ASSUME ProgramInit PROVE FilesInv /\ ExitInv
  OBVIOUS
<1>1. cmd \in Commands
  BY ProgramAssumption DEF ProgramInit
<1>2. DOMAIN fs = Names
  BY ProgramAssumption DEF ProgramInit
<1>3. /\ DOMAIN theirs \subseteq Names
      /\ \A n \in DOMAIN theirs : fs[n] = theirs[n] /\ theirs[n].type # "none"
  BY <1>2 DEF ProgramInit, Exists
<1>4. FilesInv
  BY <1>2, <1>3, IdleFields DEF ProgramInit, FilesInv, Busy
<1>5. ExitInv
  BY <1>1, ProgramAssumption DEF ProgramInit, ExitInv, ExitIsTrue, Cut
<1> QED BY <1>4, <1>5

LEMMA StutterKeeps ==
    ASSUME FilesInv, ExitInv, UNCHANGED bvars
    PROVE  FilesInv' /\ ExitInv'
<1>1. FilesInv'
  BY DEF bvars, FilesInv, ToFile
<1>2. ExitInv'
  BY DEF bvars, ExitInv, ExitIsTrue, Cut
<1> QED BY <1>1, <1>2

LEMMA NextKeeps ==
    ASSUME FilesInv, ExitInv, [ProgramNext]_bvars
    PROVE  FilesInv' /\ ExitInv'
<1>1. ASSUME NEW c \in Commands, Start(c) PROVE FilesInv' /\ ExitInv'
  BY <1>1, StartKeeps
<1>2. ASSUME NEW space \in Spaces, Open(space) PROVE FilesInv' /\ ExitInv'
  BY <1>2, OpenKeeps
<1>3. CASE Check \/ CompressPiece \/ CompressEnd
  BY <1>3, CheckKeeps, CompressWorks, WorkKeeps
<1>4. CASE NextStream \/ ReadPiece \/ WriteNowhere
  BY <1>4, NextStreamWorks, ReadWorks, WriteNowhereWorks, WorkKeeps
<1>5. CASE Finish \/ FinishBad \/ EndOfCommand
  BY <1>5, FinishKeeps, FinishBadKeeps, EndKeeps
<1>6. CASE Abort \/ Kill
  BY <1>6, EndsAtOnceKeeps DEF Abort, Kill
<1>7. CASE Interrupt \/ Other
  BY <1>7, InterruptKeeps, OtherKeeps
<1>8. CASE UNCHANGED bvars
  BY <1>8, StutterKeeps
<1> QED
  BY <1>1, <1>2, <1>3, <1>4, <1>5, <1>6, <1>7, <1>8 DEF ProgramNext

(* Files that the command line does not name stay as they are on every     *)
(* disk, for every command line and whatever the library's calls return:   *)
(* through errors, kills, interrupts and files that others make between    *)
(* the check and the open (bzip2.c's fopen_output_safely).                 *)
THEOREM UntouchedAlways ==
    ProgramSpec => []Untouched
<1>1. FilesInv => Untouched
  BY DEF FilesInv, Untouched
<1> QED
  BY <1>1, InitHolds, NextKeeps, PTL DEF ProgramSpec

(* The exit value of bzip2's main is 0 only when every operand was done,   *)
(* but for one whose output was cut at the close that is not looked at     *)
(* (bzip2.c:534), and not 0 only when one was not or an error handler ran, *)
(* whatever the library's calls return; a quiet test alone does not tell.  *)
THEOREM ExitIsTrueAlways ==
    ProgramSpec => []ExitIsTrue
<1>1. ExitInv => ExitIsTrue
  BY DEF ExitInv
<1> QED
  BY <1>1, InitHolds, NextKeeps, PTL DEF ProgramSpec

-----------------------------------------------------------------------------
(* What is held where.                                                     *)

LEMMA PrefixIs ==
    ASSUME NEW s \in Seq(Nat), NEW u \in Seq(Nat)
    PROVE  IsPrefix(s, u) <=> Len(s) <= Len(u) /\ \A i \in 1 .. Len(s) : u[i] = s[i]
<1>1. Len(s) \in Nat /\ Len(u) \in Nat
  OBVIOUS
<1>2. CASE Len(s) <= Len(u)
  <2> DEFINE a == SubSeq(s, 1, Len(s))
             b == SubSeq(u, 1, Len(s))
  <2>1. /\ a \in Seq(Nat) /\ Len(a) = Len(s) /\ (\A i \in 1 .. Len(s) : a[i] = s[i])
        /\ b \in Seq(Nat) /\ Len(b) = Len(s) /\ (\A i \in 1 .. Len(s) : b[i] = u[i])
    BY <1>1, <1>2
  <2> HIDE DEF a, b
  <2>2. a = b => \A i \in 1 .. Len(s) : u[i] = s[i]
    BY <2>1
  <2>3. ASSUME \A i \in 1 .. Len(s) : u[i] = s[i] PROVE a = b
    <3>1. \A i \in 1 .. Len(a) : a[i] = b[i]
      BY <2>1, <2>3
    <3> QED BY <2>1, <3>1, SeqEqual
  <2> QED BY <1>2, <2>2, <2>3 DEF IsPrefix, a, b
<1>3. CASE ~(Len(s) <= Len(u))
  BY <1>3 DEF IsPrefix
<1> QED BY <1>2, <1>3

LEMMA IsItself ==
    ASSUME NEW x \in Seq(Nat)
    PROVE  Is(x, x)
<1>1. Len(x) \in Nat
  OBVIOUS
<1>2. IsPrefix(x, x)
  BY <1>1, PrefixIs
<1> QED BY <1>1, <1>2 DEF Is

LEMMA IsOfIs ==
    ASSUME NEW x, NEW y, Is(x, y), NEW z, Is(y, z)
    PROVE  Is(x, z)
<1>1. x \in Seq(Nat) /\ y \in Seq(Nat) /\ z \in Seq(Nat)
  BY DEF Is
<1>2. Len(x) \in Nat /\ Len(y) \in Nat /\ Len(z) \in Nat
  BY <1>1
<1>3. /\ Len(x) <= Len(y) /\ \A i \in 1 .. Len(x) : y[i] = x[i]
      /\ Len(y) <= Len(z) /\ \A i \in 1 .. Len(y) : z[i] = y[i]
      /\ \A i \in (Len(x) + 1) .. Len(y) : y[i] = RawByte
      /\ \A i \in (Len(y) + 1) .. Len(z) : z[i] = RawByte
  BY <1>1, PrefixIs DEF Is
<1>4. Len(x) <= Len(z) /\ \A i \in 1 .. Len(x) : z[i] = x[i]
  BY <1>2, <1>3
<1>5. IsPrefix(x, z)
  BY <1>1, <1>4, PrefixIs
<1>6. \A i \in (Len(x) + 1) .. Len(z) : z[i] = RawByte
  <2> SUFFICES ASSUME NEW i \in (Len(x) + 1) .. Len(z) PROVE z[i] = RawByte
    OBVIOUS
  <2>1. CASE i <= Len(y)
    BY <2>1, <1>2, <1>3
  <2>2. CASE ~(i <= Len(y))
    BY <2>2, <1>2, <1>3
  <2> QED BY <2>1, <2>2
<1> QED BY <1>1, <1>5, <1>6 DEF Is

(* An output has another name than its input.                              *)
LEMMA OutNameDiffers ==
    ASSUME NEW name \in Seq(STRING), cmd.op \in {"Z", "UNZ"}
    PROVE  outName(name) # name
<1>1. Len(name) \in Nat
  OBVIOUS
<1>2. \A s \in STRING : Append(name, s) # name
  <2> SUFFICES ASSUME NEW s \in STRING PROVE Append(name, s) # name
    OBVIOUS
  <2>1. Len(Append(name, s)) = Len(name) + 1
    OBVIOUS
  <2> QED BY <2>1, <1>1
<1>3. ASSUME hasSuffix(name) PROVE unzName(name) # name
  <2> DEFINE n == Len(name)
             f == SubSeq(name, 1, n - 1)
  <2>1. n > 1 /\ Last(name) = name[n] /\ name[n] \in {"bz2", "bz", "tbz2", "tbz"} /\ Front(name) = f
    BY <1>3 DEF hasSuffix, Last, Front
  <2>2. f \in Seq(STRING) /\ Len(f) = n - 1
    BY <1>1, <2>1
  <2> HIDE DEF f, n
  <2>3. n \in Nat
    BY DEF n
  <2>4. CASE name[n] \in {"tbz2", "tbz"}
    <3>1. unzName(name) = f \o <<"tar">>
      BY <2>1, <2>4, <1>3 DEF unzName
    <3>2. Len(f \o <<"tar">>) = n /\ (f \o <<"tar">>)[n] = "tar"
      BY <2>2, <2>3, <2>1
    <3>3. name[n] # "tar"
      BY <2>4
    <3> QED BY <3>1, <3>2, <3>3
  <2>5. CASE name[n] \notin {"tbz2", "tbz"}
    <3>1. unzName(name) = f \o <<>>
      BY <2>1, <2>5, <1>3 DEF unzName
    <3>2. f \o <<>> = f
      BY <2>2
    <3>3. Len(f) # n
      BY <2>2, <2>3
    <3> QED BY <3>1, <3>2, <3>3 DEF n
  <2> QED BY <2>4, <2>5
<1>4. ~hasSuffix(name) => unzName(name) # name
  BY <1>2 DEF unzName
<1> QED BY <1>2, <1>3, <1>4 DEF outName

(* All texts are held, and, while an output is at work, elsewhere.         *)
Leads(op, name) ==
    /\ op = "Z" => hasSuffix(name) \/ Append(name, "bz2") \in Names
    /\ op = "UNZ" => unzName(name) \in Names
Held(ts, f, away) == \A t \in ts : \E n \in Names \ away : HeldBy(f[n], t)
Away == IF ToFile /\ pc \in Busy THEN {job.out} ELSE {}
OperandsInv ==
    /\ queue \in Seq(Names) /\ \A i \in 1 .. Len(queue) : Leads(cmd.op, queue[i])
    /\ pc \in Busy \cup {"open"} =>
          queue # <<>> /\ job.name \in Names /\ (ToFile => job.out \in Names /\ job.out # job.name)
    /\ job.open => pc \in Busy
LossInv == OperandsInv /\ (~failed /\ cut = {} => Held(texts, fs, Away))

LEMMA NoneHeld ==
    ASSUME NEW n, ~Exists(n), NEW t
    PROVE  ~HeldBy(fs[n], t)
BY DEF HeldBy, Exists

LEMMA TailKept ==
    ASSUME OperandsInv, queue # <<>>
    PROVE  /\ Tail(queue) \in Seq(Names) /\ \A i \in 1 .. Len(Tail(queue)) : Leads(cmd.op, Tail(queue)[i])
           /\ Head(queue) \in Names /\ Leads(cmd.op, Head(queue))
<1>1. queue \in Seq(Names) /\ \A i \in 1 .. Len(queue) : Leads(cmd.op, queue[i])
  BY DEF OperandsInv
<1>2. /\ Tail(queue) \in Seq(Names) /\ Len(Tail(queue)) = Len(queue) - 1 /\ Len(queue) \in Nat /\ Len(queue) >= 1
      /\ \A i \in 1 .. Len(queue) - 1 : Tail(queue)[i] = queue[i + 1]
      /\ Head(queue) = queue[1] /\ queue[1] \in Names
  BY <1>1
<1>3. ASSUME NEW i \in 1 .. Len(Tail(queue)) PROVE Leads(cmd.op, Tail(queue)[i])
  <2>1. i + 1 \in 1 .. Len(queue) /\ Tail(queue)[i] = queue[i + 1]
    BY <1>2
  <2> QED BY <2>1, <1>1
<1>4. Leads(cmd.op, queue[1])
  BY <1>1, <1>2
<1> QED BY <1>2, <1>3, <1>4

LEMMA WorkLoses ==
    ASSUME FilesInv, LossInv, OnItsOwn
    PROVE  LossInv'
<1>1. /\ pc \in Busy /\ pc' \in Busy /\ UNCHANGED <<cmd, queue, texts>>
      /\ job'.name = job.name /\ job'.out = job.out /\ ToFile' = ToFile
      /\ fs' = fs \/ (ToFile /\ \E v : fs' = [fs EXCEPT ![job.out] = v])
      /\ failed' = failed \/ failed'
      /\ cut' = {} => cut = {}
  BY DEF OnItsOwn, Works, ToFile
<1>2. OperandsInv'
  BY <1>1 DEF LossInv, OperandsInv
<1>3. ASSUME ~failed', cut' = {} PROVE Held(texts', fs', Away')
  <2>1. Held(texts, fs, Away) /\ Away' = Away
    BY <1>1, <1>3 DEF LossInv, Away
  <2>2. \A n \in Names \ Away : fs'[n] = fs[n]
    BY <1>1 DEF Away, FilesInv
  <2> QED BY <2>1, <2>2, <1>1 DEF Held
<1> QED BY <1>2, <1>3 DEF LossInv

LEMMA StartLoses ==
    ASSUME LossInv, NEW c \in Commands, Start(c)
    PROVE  LossInv'
<1>1. /\ cmd' = c /\ queue' = c.args /\ pc' = "next" /\ job' = Idle
      /\ UNCHANGED <<fs, failed, cut, texts>> /\ pc = "idle"
  BY DEF Start
<1>2. queue' \in Seq(Names) /\ \A i \in 1 .. Len(queue') : Leads(cmd'.op, queue'[i])
  BY <1>1, NamesAssumption DEF Leads
<1>3. OperandsInv'
  BY <1>1, <1>2, IdleFields DEF OperandsInv, Busy
<1>4. Away = {} /\ Away' = {}
  BY <1>1 DEF Away, Busy
<1> QED BY <1>1, <1>3, <1>4 DEF LossInv, Held

LEMMA SkipLoses ==
    ASSUME LossInv, Skip, queue # <<>>, UNCHANGED <<fs, cmd, job, failed, cut, texts>>, pc \notin Busy, pc' = "next"
    PROVE  LossInv'
<1>1. queue' = Tail(queue)
  BY DEF Skip
<1>2. OperandsInv'
  BY <1>1, TailKept DEF LossInv, OperandsInv, Busy
<1>3. Away = {} /\ Away' = {}
  BY DEF Away, Busy
<1> QED BY <1>2, <1>3 DEF LossInv, Held

LEMMA CheckLoses ==
    ASSUME ExitInv, LossInv, FilesInv, Check
    PROVE  LossInv'
<1> DEFINE name == Head(queue)
           out == outName(name)
           goes == ToFile /\ Exists(out)
           rest == {t \in texts : \E n \in Names \ {out} : HeldBy(fs[n], t)}
<1>1. /\ pc = "next" /\ queue # <<>> /\ UNCHANGED <<cmd, failed, cut>> /\ ToFile' = ToFile
  BY DEF Check, Same, ToFile
<1>2. \/ Skip /\ UNCHANGED <<fs, pc, job, theirs, texts>>
      \/ /\ ~Refused(name)
         /\ fs' = IF goes THEN [fs EXCEPT ![out] = NoFile] ELSE fs
         /\ texts' = IF goes THEN rest ELSE texts
         /\ job' = [Idle EXCEPT !.name = name, !.out = out]
         /\ pc' = "open"
         /\ UNCHANGED <<queue, exitValue, undone>>
  BY Zenon DEF Check
<1>3. CASE Skip /\ UNCHANGED <<fs, pc, job, theirs, texts>>
  BY <1>1, <1>3, SkipLoses DEF Busy
<1>4. CASE /\ ~Refused(name)
           /\ fs' = IF goes THEN [fs EXCEPT ![out] = NoFile] ELSE fs
           /\ texts' = IF goes THEN rest ELSE texts
           /\ job' = [Idle EXCEPT !.name = name, !.out = out]
           /\ pc' = "open"
           /\ UNCHANGED <<queue, exitValue, undone>>
  <2>1. job'.name = name /\ job'.out = out /\ ~job'.open
    <3>1. job'.name = name /\ job'.out = out /\ job'.open = Idle.open
      BY <1>4 DEF Idle
    <3> QED BY <3>1, IdleFields
  <2>2. name \in Names /\ Leads(cmd.op, name)
    BY <1>1, TailKept DEF LossInv
  <2>3. ToFile => out \in Names /\ out # name
    <3> SUFFICES ASSUME ToFile PROVE out \in Names /\ out # name
      OBVIOUS
    <3>1. cmd.op \in {"Z", "UNZ"}
      BY DEF ToFile, ExitInv
    <3>2. cmd.op = "Z" => ~hasSuffix(name)
      BY <1>4 DEF Refused
    <3>3. out \in Names
      BY <2>2, <3>1, <3>2 DEF Leads, outName
    <3>4. name \in Seq(STRING)
      BY <2>2, NamesAssumption
    <3> HIDE DEF name
    <3> QED BY <3>1, <3>3, <3>4, OutNameDiffers
  <2> HIDE DEF name, out
  <2>4. OperandsInv'
    BY <1>1, <1>4, <2>1, <2>2, <2>3 DEF OperandsInv, LossInv, Busy
  <2>5. Away = {} /\ Away' = {}
    BY <1>1, <1>4 DEF Away, Busy
  <2>6. ASSUME ~failed, cut = {} PROVE Held(texts', fs', {})
    <3>1. CASE goes
      <4>1. fs' = [fs EXCEPT ![out] = NoFile] /\ texts' = rest
        BY <1>4, <3>1
      <4>2. \A n \in Names \ {out} : fs'[n] = fs[n]
        BY <4>1 DEF FilesInv
      <4> QED BY <4>1, <4>2 DEF Held
    <3>2. CASE ~goes
      BY <1>4, <2>5, <2>6, <3>2 DEF Held, LossInv
    <3> QED BY <3>1, <3>2
  <2> QED BY <1>1, <2>4, <2>5, <2>6 DEF LossInv, Held
<1> QED BY <1>2, <1>3, <1>4

LEMMA OpenLoses ==
    ASSUME FilesInv, LossInv, NEW space, Open(space)
    PROVE  LossInv'
<1>1. /\ pc = "open" /\ UNCHANGED <<cmd, failed, cut, texts>> /\ DOMAIN job = Fields
      /\ ToFile' = ToFile
  BY DEF Open, Same, FilesInv, ToFile
<1>2. \/ Skip /\ pc' = "next" /\ UNCHANGED <<fs, job>>
      \/ /\ ToFile => ~Exists(job.out)
         /\ fs' = IF ToFile THEN [fs EXCEPT ![job.out] = Compressed(<<>>)] ELSE fs
         /\ job' = Opened(space)
         /\ pc' = IF cmd.op = "Z" THEN "compress" ELSE "stream"
         /\ UNCHANGED <<queue, exitValue, undone>>
  BY Zenon DEF Open
<1>3. CASE Skip /\ pc' = "next" /\ UNCHANGED <<fs, job>>
  <2>1. queue # <<>> /\ pc \notin Busy
    BY <1>1 DEF LossInv, OperandsInv, Busy
  <2> QED BY <1>1, <1>3, <2>1, SkipLoses
<1>4. CASE /\ ToFile => ~Exists(job.out)
           /\ fs' = IF ToFile THEN [fs EXCEPT ![job.out] = Compressed(<<>>)] ELSE fs
           /\ job' = Opened(space)
           /\ pc' = IF cmd.op = "Z" THEN "compress" ELSE "stream"
           /\ UNCHANGED <<queue, exitValue, undone>>
  <2>1. job'.name = job.name /\ job'.out = job.out /\ pc' \in Busy
    BY <1>1, <1>4 DEF Opened, Fields, Busy
  <2>2. OperandsInv'
    BY <1>1, <1>4, <2>1 DEF LossInv, OperandsInv
  <2>3. Away = {} /\ Away' = IF ToFile THEN {job.out} ELSE {}
    BY <1>1, <2>1 DEF Away, Busy
  <2>4. ASSUME ~failed, cut = {} PROVE Held(texts', fs', Away')
    <3>1. Held(texts, fs, {})
      BY <2>3, <2>4 DEF LossInv
    <3>2. CASE ToFile
      <4>1. \A n \in Names \ {job.out} : fs'[n] = fs[n]
        BY <1>4, <3>2 DEF FilesInv
      <4>2. \A t : ~HeldBy(fs[job.out], t)
        BY <1>4, <3>2, NoneHeld
      <4> QED BY <1>1, <3>1, <3>2, <4>1, <4>2, <2>3 DEF Held
    <3>3. CASE ~ToFile
      BY <1>1, <1>4, <3>1, <3>3, <2>3 DEF Held
    <3> QED BY <3>2, <3>3
  <2> QED BY <1>1, <2>2, <2>4 DEF LossInv, Held
<1> QED BY <1>2, <1>3, <1>4

(* The input goes when its content is in the output.                       *)
LEMMA FinishLoses ==
    ASSUME FilesInv, LossInv, DoneIsDone, Finish
    PROVE  LossInv'
<1>1. /\ pc = "finish" /\ UNCHANGED <<cmd, failed, cut, texts>> /\ pc' = "next" /\ job' = Idle
      /\ queue' = Tail(queue) /\ ToFile' = ToFile
      /\ fs' = IF ToFile /\ ~cmd.keep THEN [fs EXCEPT ![job.name] = NoFile] ELSE fs
  BY DEF Finish, Same, NextOperand, ToFile
<1>2. /\ queue # <<>> /\ job.name \in Names /\ (ToFile => job.out \in Names /\ job.out # job.name)
  BY <1>1 DEF LossInv, OperandsInv, Busy
<1>3. OperandsInv'
  BY <1>1, <1>2, TailKept, IdleFields DEF LossInv, OperandsInv, Busy
<1>4. Away = (IF ToFile THEN {job.out} ELSE {}) /\ Away' = {}
  BY <1>1 DEF Away, Busy
<1>5. ASSUME ~failed, cut = {} PROVE Held(texts', fs', {})
  <2>1. Held(texts, fs, Away)
    BY <1>5 DEF LossInv
  <2>2. CASE ~(ToFile /\ ~cmd.keep)
    BY <1>1, <2>1, <2>2 DEF Held
  <2>3. CASE ToFile /\ ~cmd.keep
    <3> DEFINE file == fs[job.name]
               T == Decoded(file, Meaning(file.z))
    <3>1. HeldBy(fs[job.out], T)
      BY <1>1, <1>5, <2>3 DEF DoneIsDone, Cut
    <3>2. \A n \in Names \ {job.name} : fs'[n] = fs[n]
      BY <1>1, <2>3 DEF FilesInv
    <3>3. ASSUME NEW t \in texts PROVE \E n \in Names : HeldBy(fs'[n], t)
      <4>1. PICK n \in Names : HeldBy(fs[n], t)
        BY <2>1 DEF Held
      <4>2. CASE n # job.name
        BY <4>1, <4>2, <3>2
      <4>3. CASE n = job.name
        <5>1. Is(t, T)
          BY <4>1, <4>3 DEF HeldBy
        <5> HIDE DEF T
        <5>2. HeldBy(fs[job.out], t)
          BY <3>1, <5>1, IsOfIs DEF HeldBy
        <5> QED BY <5>2, <3>2, <1>2, <2>3
      <4> QED BY <4>2, <4>3
    <3> QED BY <1>1, <3>3 DEF Held
  <2> QED BY <2>2, <2>3
<1> QED BY <1>1, <1>3, <1>4, <1>5 DEF LossInv, Held

LEMMA BadLoses ==
    ASSUME FilesInv, LossInv, FinishBad
    PROVE  LossInv'
<1>1. /\ pc = "bad" /\ UNCHANGED <<cmd, failed, cut, texts>> /\ pc' = "next" /\ job' = Idle
      /\ queue' = Tail(queue) /\ ToFile' = ToFile
      /\ fs' = IF ToFile THEN [fs EXCEPT ![job.out] = NoFile] ELSE fs
  BY DEF FinishBad, NextOperand, ToFile
<1>2. queue # <<>>
  BY <1>1 DEF LossInv, OperandsInv, Busy
<1>3. OperandsInv'
  BY <1>1, <1>2, TailKept, IdleFields DEF LossInv, OperandsInv, Busy
<1>4. Away = (IF ToFile THEN {job.out} ELSE {}) /\ Away' = {}
  BY <1>1 DEF Away, Busy
<1>5. \A n \in Names \ Away : fs'[n] = fs[n]
  BY <1>1, <1>4 DEF FilesInv
<1> QED BY <1>1, <1>3, <1>4, <1>5 DEF LossInv, Held

LEMMA EndsLoses ==
    ASSUME FilesInv, LossInv, EndsAtOnce
    PROVE  LossInv'
<1>1. /\ pc' = "idle" /\ job' = Idle /\ UNCHANGED <<cmd, queue, failed, cut, texts>>
  BY DEF EndsAtOnce
<1>2. fs' = fs \/ (job.open /\ \E v : fs' = [fs EXCEPT ![job.out] = v])
  BY Zenon DEF EndsAtOnce
<1>3. OperandsInv'
  BY <1>1, IdleFields DEF LossInv, OperandsInv, Busy
<1>4. Away' = {}
  BY <1>1 DEF Away, Busy
<1>5. \A n \in Names \ Away : fs'[n] = fs[n]
  <2>1. job.open => Away = {job.out}
    BY DEF LossInv, OperandsInv, FilesInv, Away
  <2> QED BY <1>2, <2>1 DEF FilesInv
<1> QED BY <1>1, <1>3, <1>4, <1>5 DEF LossInv, Held

LEMMA EndLoses ==
    ASSUME LossInv, EndOfCommand
    PROVE  LossInv'
<1>1. pc = "next" /\ pc' = "idle" /\ UNCHANGED <<fs, cmd, queue, job, failed, cut, texts>>
  BY DEF EndOfCommand
<1> QED BY <1>1 DEF LossInv, OperandsInv, Held, Away, Busy

LEMMA InterruptLoses ==
    ASSUME FilesInv, LossInv, Interrupt
    PROVE  LossInv'
<1>1. /\ UNCHANGED <<cmd, queue, pc, texts>> /\ failed' = TRUE /\ DOMAIN job = Fields /\ ToFile' = ToFile
      /\ job' = [job EXCEPT !.lost = job.open, !.open = FALSE]
  BY DEF Interrupt, FilesInv, ToFile
<1>2. job'.name = job.name /\ job'.out = job.out
  BY <1>1 DEF Fields
<1>3. ~job'.open
  BY <1>1, Zenon DEF Fields
<1>4. OperandsInv'
  BY <1>1, <1>2, <1>3 DEF LossInv, OperandsInv
<1> QED BY <1>1, <1>4 DEF LossInv

LEMMA OtherLoses ==
    ASSUME FilesInv, LossInv, Other
    PROVE  LossInv'
<1> DEFINE new == Text(<<2>>)
<1>1. /\ pc = "open" /\ ToFile /\ job.out \in Names /\ ~Exists(job.out)
      /\ fs' = [fs EXCEPT ![job.out] = new] /\ texts' = texts \cup {<<2>>}
      /\ UNCHANGED <<cmd, queue, pc, job, failed, cut>> /\ ToFile' = ToFile
  BY DEF Other, ToFile
<1>2. OperandsInv'
  BY <1>1 DEF LossInv, OperandsInv
<1>3. Away = {} /\ Away' = {}
  BY <1>1 DEF Away, Busy
<1>4. HeldBy(new, <<2>>)
  <2>1. new.text = <<2>> /\ new.type # "none" /\ <<2>> # <<>> /\ <<2>> \in Seq(Nat)
    BY DEF Text
  <2>2. Is(<<2>>, <<2>>)
    BY <2>1, IsItself
  <2> HIDE DEF new
  <2> QED BY <2>1, <2>2 DEF HeldBy, Decoded
<1> HIDE DEF new
<1>5. ASSUME ~failed, cut = {}, NEW t \in texts' PROVE \E n \in Names : HeldBy(fs'[n], t)
  <2>1. fs'[job.out] = new /\ \A n \in Names \ {job.out} : fs'[n] = fs[n]
    BY <1>1 DEF FilesInv
  <2>2. CASE t = <<2>>
    BY <1>1, <1>4, <2>1, <2>2
  <2>3. CASE t \in texts
    <3>1. PICK n \in Names : HeldBy(fs[n], t)
      BY <1>3, <1>5, <2>3 DEF LossInv, Held
    <3>2. n # job.out
      BY <3>1, <1>1, NoneHeld
    <3> QED BY <3>1, <3>2, <2>1
  <2> QED BY <1>1, <1>5, <2>2, <2>3
<1> QED BY <1>1, <1>2, <1>3, <1>5 DEF LossInv, Held

LEMMA InitLoses ==
    ProgramInit => LossInv
<1> SUFFICES ASSUME ProgramInit PROVE LossInv
  OBVIOUS
<1>1. fs \in Disks /\ queue = <<>> /\ pc = "idle" /\ job = Idle
  BY DEF ProgramInit
<1>2. OperandsInv
  BY <1>1, IdleFields DEF OperandsInv, Busy
<1>3. Away = {}
  BY <1>1 DEF Away, Busy
<1>4. ASSUME NEW t \in texts PROVE \E n \in Names : HeldBy(fs[n], t)
  <2>1. PICK n \in Names : Exists(n) /\ t = Decoded(fs[n], Meaning(fs[n].z))
    BY <1>4 DEF ProgramInit
  <2>2. t \in Seq(Nat)
    BY <1>1, <2>1, ProgramAssumption DEF Decoded
  <2>3. Is(t, t)
    BY <2>2, IsItself
  <2> QED BY <2>1, <2>3 DEF HeldBy, Exists
<1> QED BY <1>2, <1>3, <1>4 DEF LossInv, Held

LEMMA NextLoses ==
    ASSUME FilesInv, ExitInv, LossInv, DoneIsDone, [ProgramNext]_bvars
    PROVE  LossInv'
<1>1. ASSUME NEW c \in Commands, Start(c) PROVE LossInv'
  BY <1>1, StartLoses
<1>2. ASSUME NEW space \in Spaces, Open(space) PROVE LossInv'
  BY <1>2, OpenLoses
<1>3. CASE Check
  BY <1>3, CheckLoses
<1>4. CASE CompressPiece \/ CompressEnd \/ NextStream \/ ReadPiece \/ WriteNowhere
  BY <1>4, CompressWorks, NextStreamWorks, ReadWorks, WriteNowhereWorks, WorkLoses
<1>5. CASE Finish \/ FinishBad \/ EndOfCommand
  BY <1>5, FinishLoses, BadLoses, EndLoses
<1>6. CASE Abort \/ Kill
  BY <1>6, EndsLoses DEF Abort, Kill
<1>7. CASE Interrupt \/ Other
  BY <1>7, InterruptLoses, OtherLoses
<1>8. CASE UNCHANGED bvars
  BY <1>8 DEF bvars, LossInv, OperandsInv, Held, Away, ToFile
<1> QED
  BY <1>1, <1>2, <1>3, <1>4, <1>5, <1>6, <1>7, <1>8 DEF ProgramNext

(* With a library that keeps its promise at the one place where bzip2      *)
(* relies on it (DoneIsDone: a stream that was closed, or read to its end, *)
(* without an error is complete), no text gets lost on any disk by any     *)
(* command line, kill or file that others make, unless an error handler    *)
(* ran or the close behind trailing garbage failed, unseen: each is in the *)
(* input until a complete output has it (compress, uncompress, bzip2.c).   *)
THEOREM NothingLostIfDone ==
    ProgramSpec /\ []DoneIsDone => []NothingLost
<1>1. LossInv => NothingLost
  BY DEF LossInv, NothingLost, Held
<1> QED
  BY <1>1, InitHolds, NextKeeps, InitLoses, NextLoses, PTL DEF ProgramSpec
=============================================================================
