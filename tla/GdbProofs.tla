----------------------------- MODULE GdbProofs -----------------------------
(***************************************************************************)
(* The parts of a GDB file beside its trees, for every table size, cache   *)
(* size, width of a short and set of names: what the run Gdb checks on one *)
(* small instance of each.                                                 *)
(***************************************************************************)
EXTENDS BlockCache, HashTable, OffsetList, Database, Recursion

-----------------------------------------------------------------------------
(* The trees named in the main tree.                                       *)

DatabaseSpec == DatabaseInit /\ [][DatabaseNext]_dbvars

DatabaseKinds == TypesOfFile \cup {"absent", "foreign", "cut"}

DatabaseFile == [kind : DatabaseKinds, main : BOOLEAN, names : [Name -> Nat]]
OpenDatabase == [mode : ModesOfFile, type : TypesOfFile, main : BOOLEAN]

DatabaseTypeOK ==
    /\ dbFile \in DatabaseFile
    /\ db = <<>> \/ \E d \in OpenDatabase : db = <<d>>
    /\ made \in Nat

(* What is open says of its file what is so.                               *)
OpenAsItIs == db # <<>> => db[1].type = dbFile.kind /\ db[1].main = dbFile.main

DatabaseIInv == DatabaseTypeOK /\ OpenAsItIs /\ UsedFileIsWhole

LEMMA CreateKeeps ==
    ASSUME DatabaseIInv, NEW type \in TypesOfFile, gdbCreate(type), made' = made,
           lbTree' => db' # <<>> /\ db'[1].main /\ type = "data"
    PROVE  DatabaseIInv'
<1> DEFINE opened == [mode |-> "rw", type |-> type, main |-> TRUE]
<1>1. PICK k \in DatabaseKinds, m \in BOOLEAN :
         /\ dbFile' = Empty(k, m)
         /\ \/ db' = <<>>
            \/ db' = <<opened>> /\ k = type /\ m
  BY DEF gdbCreate, DatabaseKinds
<1>2. opened \in OpenDatabase
  BY DEF ModesOfFile, OpenDatabase
<1>3. /\ dbFile' \in DatabaseFile /\ dbFile'.kind = k /\ dbFile'.main = m
      /\ \A n \in Name : dbFile'.names[n] = 0
  BY <1>1 DEF Empty, DatabaseFile
<1>4. db' # <<>> => db' = <<opened>> /\ k = type /\ m
  BY <1>1
<1>5. DatabaseTypeOK'
  BY <1>1, <1>2, <1>3 DEF DatabaseIInv, DatabaseTypeOK
<1>6. OpenAsItIs'
  <2> SUFFICES ASSUME db' # <<>> PROVE db'[1].type = dbFile'.kind /\ db'[1].main = dbFile'.main
    BY DEF OpenAsItIs
  <2>1. db' = <<opened>> /\ k = type /\ m
    BY <1>4
  <2>2. db'[1].type = type /\ db'[1].main = TRUE
    BY <2>1
  <2>3. dbFile'.main = TRUE
    BY <1>3, <2>1, Zenon
  <2> QED BY <1>3, <2>1, <2>2, <2>3
<1>7. UsedFileIsWhole'
  BY <1>3, <1>4 DEF UsedFileIsWhole
<1> QED BY <1>5, <1>6, <1>7 DEF DatabaseIInv

LEMMA OpenKeeps ==
    ASSUME DatabaseIInv, NEW type \in TypesOfFile, NEW mode \in ModesOfFile,
           gdbOpen(type, mode), made' = made,
           lbTree' => db' # <<>> /\ db'[1].main /\ type = "data"
    PROVE  DatabaseIInv'
<1>1. CASE dbFile.kind = "absent" /\ mode = "rw"
  BY <1>1, CreateKeeps DEF gdbOpen
<1>2. CASE ~(dbFile.kind = "absent" /\ mode = "rw")
  <2> DEFINE opened == [mode |-> mode, type |-> type, main |-> dbFile.main]
  <2>1. dbFile' = dbFile
    BY <1>2 DEF gdbOpen
  <2>2. db' = <<>> \/ (db' = <<opened>> /\ dbFile.kind = type)
    BY <1>2 DEF gdbOpen, Acceptable
  <2>3. dbFile.main \in BOOLEAN
    BY DEF DatabaseIInv, DatabaseTypeOK, DatabaseFile
  <2>4. opened \in OpenDatabase
    BY <2>3 DEF OpenDatabase
  <2>5. DatabaseTypeOK'
    BY <2>1, <2>2, <2>4 DEF DatabaseIInv, DatabaseTypeOK
  <2>6. OpenAsItIs' /\ UsedFileIsWhole'
    BY <2>1, <2>2 DEF DatabaseIInv, OpenAsItIs, UsedFileIsWhole
  <2> QED BY <2>5, <2>6 DEF DatabaseIInv
<1> QED BY <1>1, <1>2

(* A step that changes at most one name of a whole file.                   *)
LEMMA NameKeeps ==
    ASSUME DatabaseIInv, NEW name \in Name, NEW block \in Nat,
           dbFile' = [dbFile EXCEPT !.names[name] = block],
           db # <<>>, db[1].main, db' = db, lbTree' = lbTree, made' \in Nat
    PROVE  DatabaseIInv'
<1> USE DEF DatabaseIInv
<1>1. dbFile \in DatabaseFile
  BY DEF DatabaseTypeOK
<1>2. dbFile' = [kind |-> dbFile.kind, main |-> dbFile.main,
                 names |-> [dbFile.names EXCEPT ![name] = block]]
  BY <1>1 DEF DatabaseFile
<1>3. dbFile' \in DatabaseFile /\ dbFile'.kind = dbFile.kind /\ dbFile'.main = dbFile.main
  <2>1. /\ dbFile.kind \in DatabaseKinds /\ dbFile.main \in BOOLEAN
        /\ [dbFile.names EXCEPT ![name] = block] \in [Name -> Nat]
    BY <1>1 DEF DatabaseFile
  <2>2. dbFile'.kind = dbFile.kind /\ dbFile'.main = dbFile.main
    BY <1>2
  <2> QED BY <1>2, <2>1, <2>2 DEF DatabaseFile
<1>4. dbFile.main /\ dbFile.kind \in TypesOfFile
  <2>1. PICK d \in OpenDatabase : db = <<d>>
    BY DEF DatabaseTypeOK
  <2> QED BY <2>1 DEF OpenAsItIs, OpenDatabase
<1>5. DatabaseTypeOK' /\ OpenAsItIs'
  BY <1>3 DEF DatabaseTypeOK, OpenAsItIs
<1>6. UsedFileIsWhole'
  BY <1>3, <1>4 DEF UsedFileIsWhole
<1> QED BY <1>5, <1>6

LEMMA AddTreeKeeps ==
    ASSUME DatabaseIInv, NEW name \in Name, gdbAddTree(name)
    PROVE  DatabaseIInv'
<1>1. /\ made' = made + 1 /\ db' = db /\ lbTree' = lbTree /\ db # <<>> /\ db[1].main
      /\ \/ dbFile' = dbFile
         \/ dbFile' = [dbFile EXCEPT !.names[name] = made + 1]
  BY DEF gdbAddTree, AddTreeTo
<1>2. made + 1 \in Nat
  BY DEF DatabaseIInv, DatabaseTypeOK
<1>3. CASE dbFile' = dbFile
  BY <1>1, <1>2, <1>3 DEF DatabaseIInv, DatabaseTypeOK, OpenAsItIs, UsedFileIsWhole
<1> QED BY <1>1, <1>2, <1>3, NameKeeps

(* For every set of names and number of trees: what LBTree::Open takes for *)
(* its tree is a whole data file, and only whole files hold names, however *)
(* files are created, half created, opened, closed and given trees.        *)
THEOREM UsedFileIsWholeAlways == DatabaseSpec => []UsedFileIsWhole
<1>1. DatabaseInit => DatabaseIInv
  <2> SUFFICES ASSUME DatabaseInit PROVE DatabaseIInv
    OBVIOUS
  <2>1. PICK k \in {"absent", "foreign"} : dbFile = Empty(k, FALSE)
    BY DEF DatabaseInit
  <2> QED
    BY <2>1 DEF DatabaseInit, DatabaseIInv, DatabaseTypeOK, OpenAsItIs,
                UsedFileIsWhole, Empty, DatabaseKinds, DatabaseFile
<1>2. DatabaseIInv /\ [DatabaseNext]_dbvars => DatabaseIInv'
  <2> SUFFICES ASSUME DatabaseIInv, [DatabaseNext]_dbvars PROVE DatabaseIInv'
    OBVIOUS
  <2> USE DEF DatabaseIInv
  <2>1. CASE UNCHANGED dbvars
    BY <2>1 DEF dbvars, DatabaseTypeOK, OpenAsItIs, UsedFileIsWhole
  <2>2. ASSUME db = <<>> PROVE ~lbTree
    BY <2>2 DEF UsedFileIsWhole
  <2>3. ASSUME NEW type \in TypesOfFile, Create(type) PROVE DatabaseIInv'
    BY <2>2, <2>3, CreateKeeps DEF Create, gdbCreate
  <2>4. ASSUME NEW type \in TypesOfFile, NEW mode \in ModesOfFile, Open(type, mode)
        PROVE  DatabaseIInv'
    <3>1. db = <<>> /\ gdbOpen(type, mode) /\ lbTree' = lbTree /\ made' = made
      BY <2>4 DEF Open, gdbOpen
    <3> QED BY <2>2, <3>1, OpenKeeps
  <2>5. CASE LBTreeOpen
    <3>1. /\ gdbOpen("data", "rw") /\ made' = made
          /\ lbTree' = (db' # <<>> /\ db'[1].main)
      BY <2>5 DEF LBTreeOpen
    <3>2. "data" \in TypesOfFile /\ "rw" \in ModesOfFile
      BY DEF TypesOfFile, ModesOfFile
    <3> QED BY <3>1, <3>2, OpenKeeps
  <2>6. CASE Close
    BY <2>6 DEF Close, DatabaseTypeOK, OpenAsItIs, UsedFileIsWhole
  <2>7. ASSUME NEW name \in Name, gdbAddTree(name) \/ DropName(name) PROVE DatabaseIInv'
    <3>1. CASE gdbAddTree(name)
      BY <3>1, AddTreeKeeps
    <3>2. CASE DropName(name)
      BY <3>2, NameKeeps DEF DropName, DatabaseTypeOK
    <3> QED BY <2>7, <3>1, <3>2
  <2> QED BY <2>1, <2>3, <2>4, <2>5, <2>6, <2>7 DEF DatabaseNext
<1>3. DatabaseIInv => UsedFileIsWhole
  BY DEF DatabaseIInv
<1> QED BY <1>1, <1>2, <1>3, PTL DEF DatabaseSpec

-----------------------------------------------------------------------------
(* The offset list.                                                        *)

(* A short keeps the remainder.                                            *)
Low(x) == x % ShortMod

LEMMA LowBits ==
    ASSUME NEW x \in Nat
    PROVE  /\ Low(x) \in 0 .. ShortMod - 1
           /\ x < ShortMod => Low(x) = x
           /\ ShortMod <= x /\ x < 2 * ShortMod => Low(x) = x - ShortMod
BY ListAssumption DEF Low

ListSpec == ListInit /\ [][ListNext]_olvars

StoredOffset == ListedOffset \cup {0}

ListTypeOK ==
    /\ offsets \in [0 .. ShortMod - 1 -> StoredOffset]
    /\ count \in 0 .. ShortMod - 1
    /\ arraySize \in 0 .. ShortMod - 1
    /\ allocated \in Nat
    /\ overrun \in BOOLEAN
    /\ listOnDisk \in Seq(StoredOffset) /\ Len(listOnDisk) < ShortMod
    /\ appended \in Seq(StoredOffset)

(* arraySize is what the array has, or it lost its upper bits: then there  *)
(* is room for all a short can count, and count does not meet arraySize    *)
(* again before it loses its own.                                          *)
RoomInArray ==
    Len(appended) < ShortMod =>
        \/ arraySize = allocated /\ arraySize > 0 /\ count <= arraySize
        \/ allocated >= ShortMod /\ arraySize < count

ListIInv == ListTypeOK /\ RoomInArray /\ ListKeepsAll

LEMMA AddOffsetKeeps ==
    ASSUME ListIInv, NEW offset_ \in ListedOffset, olAddOffset(offset_)
    PROVE  ListIInv'
<1> USE ListAssumption DEF ListIInv
<1>1. /\ count \in Nat /\ arraySize \in Nat /\ count < ShortMod /\ arraySize < ShortMod
      /\ allocated \in Nat /\ ShortMod \in Nat \ {0} /\ appended \in Seq(StoredOffset)
      /\ offset_ \in StoredOffset
  BY DEF ListTypeOK, StoredOffset
<1>2. /\ appended' = Append(appended, offset_) /\ Len(appended') = Len(appended) + 1
      /\ appended' \in Seq(StoredOffset)
      /\ \A i \in 1 .. Len(appended) : appended'[i] = appended[i]
      /\ appended'[Len(appended) + 1] = offset_
  BY <1>1 DEF olAddOffset
<1>3. count' = Low(count + 1) /\ count' \in 0 .. ShortMod - 1
  <2>1. count' = Low(count + 1)
    BY DEF olAddOffset, Low
  <2>2. count + 1 \in Nat
    BY <1>1
  <2> QED BY <2>1, <2>2, LowBits
<1>4. /\ arraySize' = IF count = arraySize THEN Low(arraySize * 2) ELSE arraySize
      /\ allocated' = IF count = arraySize THEN arraySize * 2 ELSE allocated
  BY DEF olAddOffset, Grown, Low
<1>5. arraySize' \in 0 .. ShortMod - 1 /\ allocated' \in Nat
  <2>1. arraySize * 2 \in Nat
    BY <1>1
  <2> QED BY <1>1, <1>4, <2>1, LowBits
<1>6. offsets' = [i \in 0 .. ShortMod - 1 |->
                    IF i = count THEN offset_
                    ELSE IF count = arraySize /\ i >= count THEN 0 ELSE offsets[i]]
  BY DEF olAddOffset
<1>7. offsets' \in [0 .. ShortMod - 1 -> StoredOffset]
  BY <1>1, <1>6 DEF ListTypeOK, StoredOffset
<1>8. ListTypeOK'
  BY <1>2, <1>3, <1>5, <1>7 DEF ListTypeOK, olAddOffset
<1>9. ASSUME Len(appended') < ShortMod
      PROVE  /\ Len(appended) < ShortMod /\ ~overrun /\ count = Len(appended)
             /\ count' = count + 1
             /\ \A i \in 1 .. Len(appended) : offsets[i - 1] = appended[i]
  <2>1. Len(appended) \in Nat
    BY <1>1
  <2>2. Len(appended) < ShortMod
    BY <2>1, <1>1, <1>2, <1>9
  <2>3. count = Len(appended) /\ ~overrun
    BY <2>2 DEF ListKeepsAll
  <2>4. count' = count + 1
    BY <1>1, <1>2, <1>3, <1>9, <2>3, LowBits
  <2>5. \A i \in 1 .. Len(appended) : offsets[i - 1] = appended[i]
    BY <2>1, <2>2, <2>3 DEF ListKeepsAll, olGetOffset
  <2> QED BY <2>2, <2>3, <2>4, <2>5
<1>10. RoomInArray'
  <2> SUFFICES ASSUME Len(appended') < ShortMod
               PROVE  \/ arraySize' = allocated' /\ arraySize' > 0 /\ count' <= arraySize'
                      \/ allocated' >= ShortMod /\ arraySize' < count'
    BY DEF RoomInArray
  <2>1. CASE count # arraySize
    BY <2>1, <1>1, <1>4, <1>9 DEF RoomInArray
  <2>2. CASE count = arraySize
    <3>1. arraySize > 0
      BY <2>2, <1>1, <1>9 DEF RoomInArray
    <3>2. CASE arraySize * 2 < ShortMod
      BY <3>1, <3>2, <2>2, <1>1, <1>4, <1>9, LowBits
    <3>3. CASE arraySize * 2 >= ShortMod
      <4>1. Low(arraySize * 2) = arraySize * 2 - ShortMod
        BY <3>3, <1>1, LowBits
      <4> QED BY <4>1, <3>3, <2>2, <1>1, <1>4, <1>9
    <3> QED BY <3>2, <3>3, <1>1
  <2> QED BY <2>1, <2>2
<1>11. ListKeepsAll'
  <2> SUFFICES ASSUME Len(appended') < ShortMod
               PROVE  /\ ~overrun' /\ count' = Len(appended')
                      /\ \A i \in 1 .. Len(appended') : olGetOffset(i - 1)' = appended'[i]
    BY DEF ListKeepsAll
  <2>1. count' = Len(appended')
    BY <1>9, <1>2
  <2>2. count < allocated'
    <3>1. CASE count # arraySize
      BY <3>1, <1>1, <1>4, <1>9 DEF RoomInArray
    <3>2. CASE count = arraySize
      BY <3>2, <1>1, <1>4, <1>9 DEF RoomInArray
    <3> QED BY <3>1, <3>2
  <2>3. ~overrun'
    <3>1. overrun' = (overrun \/ count >= allocated')
      BY DEF olAddOffset
    <3>2. ~(count >= allocated')
      BY <2>2, <1>1, <1>5
    <3> QED BY <3>1, <3>2, <1>9, Zenon
  <2>4. ASSUME NEW i \in 1 .. Len(appended') PROVE olGetOffset(i - 1)' = appended'[i]
    <3>1. Len(appended) \in Nat /\ i - 1 \in 0 .. ShortMod - 1 /\ i - 1 < count'
      BY <1>1, <1>2, <1>9, <2>1
    <3>2. olGetOffset(i - 1)' = offsets'[i - 1]
      BY <3>1, <1>3 DEF olGetOffset
    <3>3. CASE i = Len(appended) + 1
      BY <3>1, <3>2, <3>3, <1>2, <1>6, <1>9
    <3>4. CASE i \in 1 .. Len(appended)
      <4>1. offsets'[i - 1] = offsets[i - 1]
        BY <3>1, <3>4, <1>1, <1>6, <1>9
      <4> QED BY <4>1, <3>2, <3>4, <1>2, <1>9
    <3> QED BY <3>1, <3>3, <3>4, <1>2
  <2> QED BY <2>1, <2>3, <2>4
<1> QED BY <1>8, <1>10, <1>11

LEMMA WriteListKeeps ==
    ASSUME ListIInv, WriteList
    PROVE  ListIInv'
<1> USE ListAssumption DEF ListIInv
<1>1. /\ count \in Nat /\ count < ShortMod /\ ShortMod \in Nat
      /\ \A i \in 1 .. count : offsets[i - 1] \in StoredOffset
  BY DEF ListTypeOK
<1>2. /\ listOnDisk' = [i \in 1 .. count |-> offsets[i - 1]]
      /\ UNCHANGED <<offsets, count, arraySize, allocated, overrun, appended>>
  BY DEF WriteList
<1>3. listOnDisk' \in Seq(StoredOffset) /\ Len(listOnDisk') = count
  BY <1>1, <1>2
<1> QED
  BY <1>1, <1>2, <1>3 DEF ListTypeOK, RoomInArray, ListKeepsAll, olGetOffset

LEMMA ReopenListKeeps ==
    ASSUME ListIInv, ReopenList
    PROVE  ListIInv'
<1> USE ListAssumption DEF ListIInv
<1>1. /\ listOnDisk \in Seq(StoredOffset) /\ Len(listOnDisk) \in Nat
      /\ Len(listOnDisk) < ShortMod /\ ShortMod \in Nat
      /\ FirstSize \in Nat /\ 0 < FirstSize /\ FirstSize < ShortMod
      /\ \A i \in 1 .. Len(listOnDisk) : listOnDisk[i] \in StoredOffset
  BY DEF ListTypeOK
<1>2. /\ count' = Len(listOnDisk)
      /\ arraySize' = IF count' < FirstSize THEN FirstSize ELSE count'
      /\ allocated' = arraySize' /\ appended' = listOnDisk /\ overrun' = FALSE
      /\ listOnDisk' = listOnDisk
      /\ offsets' = [i \in 0 .. ShortMod - 1 |->
                        IF i < count' THEN listOnDisk[i + 1] ELSE 0]
  BY DEF ReopenList
<1>3. offsets' \in [0 .. ShortMod - 1 -> StoredOffset]
  BY <1>1, <1>2 DEF StoredOffset
<1>4. /\ count' \in 0 .. ShortMod - 1 /\ arraySize' \in 0 .. ShortMod - 1
      /\ allocated' \in Nat
  BY <1>1, <1>2
<1>5. overrun' \in BOOLEAN
  BY <1>2, Zenon
<1>6. ListTypeOK'
  BY <1>1, <1>2, <1>3, <1>4, <1>5 DEF ListTypeOK
<1>7. RoomInArray'
  BY <1>1, <1>2 DEF RoomInArray
<1>8. ListKeepsAll'
  BY <1>1, <1>2 DEF ListKeepsAll, olGetOffset
<1> QED BY <1>6, <1>7, <1>8

(* For every width of the counters and first size of the array: until a    *)
(* list has as many offsets as a short can count, it holds what was added, *)
(* in order, and stores nothing behind its array (olAddOffset).            *)
THEOREM ListKeepsAllAlways == ListSpec => []ListKeepsAll
<1>1. ListInit => ListIInv
  <2> SUFFICES ASSUME ListInit PROVE ListIInv
    OBVIOUS
  <2>1. <<>> \in Seq(StoredOffset) /\ Len(<<>>) = 0
    OBVIOUS
  <2>2. offsets \in [0 .. ShortMod - 1 -> StoredOffset]
    BY DEF ListInit, StoredOffset
  <2>3. overrun \in BOOLEAN /\ ~overrun
    BY Zenon DEF ListInit
  <2> QED
    BY <2>1, <2>2, <2>3, ListAssumption
    DEF ListInit, ListIInv, ListTypeOK, RoomInArray, ListKeepsAll
<1>2. ListIInv /\ [ListNext]_olvars => ListIInv'
  <2> SUFFICES ASSUME ListIInv, [ListNext]_olvars PROVE ListIInv'
    OBVIOUS
  <2>1. CASE UNCHANGED olvars
    BY <2>1 DEF olvars, ListIInv, ListTypeOK, RoomInArray, ListKeepsAll, olGetOffset
  <2> QED
    BY <2>1, AddOffsetKeeps, WriteListKeeps, ReopenListKeeps DEF ListNext
<1>3. ListIInv => ListKeepsAll
  BY DEF ListIInv
<1> QED BY <1>1, <1>2, <1>3, PTL DEF ListSpec

-----------------------------------------------------------------------------
(* The table of cached blocks.                                             *)

(* The natural slot of each object.                                        *)
HomeIn(off) == [e \in Object |-> HASH(off[e])]
Home == HomeIn(offset)
Tables == [Slots -> Object \cup {NoObject}]
Homes == [Object -> Slots]
Entries(t) == {t[i] : i \in Slots} \ {NoObject}

(* No object twice; none that is not in Q beyond its natural slot; no      *)
(* empty slot between the natural slot of an entry and its own.            *)
Once(t) == \A i, j \in Slots : t[i] = t[j] /\ t[i] # NoObject => i = j
Aside(t, Q, home) == \A i \in Slots : t[i] # NoObject /\ t[i] \notin Q => i < home[t[i]]
Unbroken(t, home) ==
    \A i \in Slots : t[i] # NoObject => \A j \in home[t[i]] .. i : t[j] # NoObject

(* What the loop of hashDelete keeps, n turns after it has emptied at: the *)
(* hole is the one empty slot inside a cluster, and of no cluster that the *)
(* loop has passed.                                                        *)
Scan == [table : Tables, hole : Slots, done : BOOLEAN]
ButHole(t, hole, home) ==
    \A i \in Slots : t[i] # NoObject =>
        \A j \in home[t[i]] .. i : t[j] # NoObject \/ j = hole
Passed(t, hole, home, to) ==
    \A i \in Slots : t[i] # NoObject /\ i <= to => ~(home[t[i]] <= hole /\ hole <= i)

LEMMA SlotsOf ==
    ASSUME NEW n \in Nat
    PROVE  HASH(n) \in Slots
BY CacheAssumption DEF HASH, Slots

LEMMA WrapOf ==
    ASSUME NEW i \in Slots, NEW n \in Slots
    PROVE  /\ HASHWRAP(i + n) \in Slots
           /\ i + n < HashSize => HASHWRAP(i + n) = i + n
           /\ i + n >= HashSize => HASHWRAP(i + n) = i + n - HashSize
BY CacheAssumption DEF HASHWRAP, Slots

LEMMA OffsetOf ==
    ASSUME offset \in [Object -> Offset \cup {0}], NEW e \in Object
    PROVE  offset[e] \in Offset \cup {0} /\ offset[e] \in Nat
<1>1. offset[e] \in Offset \cup {0}
    OBVIOUS
<1>2. \A o \in Offset \cup {0} : o \in Nat
    BY CacheAssumption
<1> QED BY <1>1, <1>2

LEMMA HomesAre ==
    ASSUME NEW off \in [Object -> Offset \cup {0}]
    PROVE  /\ HomeIn(off) \in Homes
           /\ \A e \in Object : HASH(off[e]) = HomeIn(off)[e]
<1>1. ASSUME NEW e \in Object PROVE HASH(off[e]) \in Slots
    BY SlotsOf, CacheAssumption
<1> QED BY <1>1 DEF HomeIn, Homes

LEMMA HomeOf ==
    ASSUME offset \in [Object -> Offset \cup {0}]
    PROVE  /\ Home \in Homes
           /\ \A e \in Object : HASH(offset[e]) = Home[e]
BY HomesAre DEF Home

LEMMA BubbledTyped ==
    ASSUME NEW was \in Scan, NEW slot \in Slots
    PROVE  BubbledAt(was, slot) \in Scan
<1>1. /\ was.table \in Tables /\ was.hole \in Slots
      /\ was = [table |-> was.table, hole |-> was.hole, done |-> was.done]
    BY DEF Scan
<1> DEFINE e == was.table[slot]
<1>2. e \in Object \cup {NoObject}
    BY <1>1 DEF Tables
<1>4. [was.table EXCEPT ![was.hole] = e, ![slot] = NoObject] \in Tables
    BY <1>1, <1>2 DEF Tables
<1>5. [table |-> [was.table EXCEPT ![was.hole] = e, ![slot] = NoObject],
       hole |-> slot, done |-> FALSE] \in Scan
    BY <1>4 DEF Scan
<1>6. [table |-> was.table, hole |-> was.hole, done |-> TRUE] \in Scan
    BY <1>1 DEF Scan
<1> QED BY <1>5, <1>6 DEF BubbledAt

(* hashDelete as a run of its loop.                                        *)
LEMMA ScanUnfolds ==
    ASSUME NEW t \in Tables, NEW b \in Object, Reached(t, b)
    PROVE  \E at \in Slots, g \in [Slots -> Scan] :
              /\ t[at] = b
              /\ g[0] = [table |-> [t EXCEPT ![at] = NoObject], hole |-> at, done |-> FALSE]
              /\ \A n \in 1 .. HashSize - 1 : g[n] = BubbledAt(g[n - 1], HASHWRAP(at + n))
              /\ HashDelete(t, b) = g[HashSize - 1].table
<1> DEFINE at == CHOOSE i \in Slots : t[i] = b
<1>1. at \in Slots /\ t[at] = b
    BY DEF Reached
<1> DEFINE cut == [table |-> [t EXCEPT ![at] = NoObject], hole |-> at, done |-> FALSE]
           body(f) == [n \in Slots |-> IF n = 0 THEN cut
                                       ELSE BubbledAt(f[n - 1], HASHWRAP(at + n))]
           scan == CHOOSE f : f = body(f)
           s == [p \in Nat \X Scan |->
                    IF p[1] \in Slots THEN BubbledAt(p[2], HASHWRAP(at + p[1])) ELSE cut]
<1>2. HashDelete(t, b) = scan[HashSize - 1].table
    BY Zenon DEF HashDelete
<1>3. cut \in Scan
    <2>1. [t EXCEPT ![at] = NoObject] \in Tables
        BY DEF Tables
    <2> HIDE DEF at
    <2> QED BY <1>1, <2>1 DEF Scan
<1>4. s \in [Nat \X Scan -> Scan]
    <2>1. ASSUME NEW n \in Nat, NEW w \in Scan, n \in Slots
          PROVE  BubbledAt(w, HASHWRAP(at + n)) \in Scan
        BY <1>1, <2>1, WrapOf, BubbledTyped
    <2> HIDE DEF cut, at
    <2> QED BY <2>1, <1>3
<1>5. PICK g \in [0 .. HashSize - 1 -> Scan] :
              g[0] = cut /\ \A n \in 1 .. HashSize - 1 : g[n] = s[<<n, g[n - 1]>>]
    <2> DEFINE last == HashSize - 1
    <2>1. last \in Nat
        BY CacheAssumption
    <2> HIDE DEF s, cut, last
    <2>2. HasRun(Scan, cut, s, last)
        BY <1>3, <1>4, <2>1, RunExists
    <2> QED BY <2>2 DEF last, HasRun, RunsTo
<1>6. ASSUME NEW n \in 1 .. HashSize - 1
      PROVE  g[n] = BubbledAt(g[n - 1], HASHWRAP(at + n))
    <2>1. n \in Nat /\ n \in Slots /\ n - 1 \in 0 .. HashSize - 1
        BY CacheAssumption DEF Slots
    <2>2. g[n - 1] \in Scan
        BY <1>5, <2>1
    <2>3. s[<<n, g[n - 1]>>] = BubbledAt(g[n - 1], HASHWRAP(at + n))
        <3> HIDE DEF cut, at
        <3> QED BY <2>1, <2>2
    <2> HIDE DEF s
    <2> QED BY <1>5, <2>3
<1>7. g = body(g)
    <2> HIDE DEF cut, at
    <2> QED BY <1>5, <1>6, CacheAssumption DEF Slots
<1>8. scan = body(scan)
    <2> HIDE DEF body
    <2> QED BY <1>7
<1>9. DOMAIN scan = Slots /\ scan[0] = cut
      /\ \A n \in 1 .. HashSize - 1 : scan[n] = BubbledAt(scan[n - 1], HASHWRAP(at + n))
    <2> HIDE DEF cut, at, scan
    <2> QED BY <1>8, CacheAssumption DEF Slots
<1>10. scan[HashSize - 1] = g[HashSize - 1]
    <2> DEFINE A == {n \in Slots : scan[n] # g[n]}
    <2> HIDE DEF cut, at, scan, s, body
    <2>1. ASSUME A # {} PROVE FALSE
        <3>1. PICK n \in A : \A m \in A : n <= m
            <4>1. A \subseteq Nat
                BY CacheAssumption DEF Slots
            <4> HIDE DEF A
            <4> QED BY <2>1, <4>1, LeastIn
        <3>2. n # 0 /\ n \in 1 .. HashSize - 1 /\ n - 1 \in Slots /\ n - 1 \notin A
            BY <3>1, <1>5, <1>9, CacheAssumption DEF Slots
        <3>3. scan[n - 1] = g[n - 1]
            BY <3>2
        <3> QED BY <3>1, <3>2, <3>3, <1>6, <1>9
    <2> QED BY <2>1, CacheAssumption DEF Slots
<1> HIDE DEF at, scan, s, body
<1> QED BY <1>1, <1>2, <1>5, <1>6, <1>10 DEF Slots

(* An entry bubbles down.                                                  *)
Bubbled(t, hole, slot) == [t EXCEPT ![hole] = t[slot], ![slot] = NoObject]

LEMMA MoveKeeps ==
    ASSUME NEW home \in Homes, NEW Q, NEW t \in Tables,
           NEW hole \in Slots, NEW slot \in Slots, hole < slot,
           t[hole] = NoObject, t[slot] # NoObject, home[t[slot]] <= hole,
           Once(t), Aside(t, Q, home), ButHole(t, hole, home),
           NEW u, u = Bubbled(t, hole, slot)
    PROVE  /\ u \in Tables /\ u[slot] = NoObject
           /\ Entries(u) = Entries(t) /\ Once(u) /\ Aside(u, Q, home)
           /\ ButHole(u, slot, home) /\ Passed(u, slot, home, slot)
<1>1. /\ u \in Tables
      /\ \A i \in Slots : u[i] = IF i = slot THEN NoObject
                                 ELSE IF i = hole THEN t[slot] ELSE t[i]
    BY DEF Tables, Bubbled
<1>2. \A i \in Slots : i \in Nat /\ t[i] \in Object \cup {NoObject}
    BY DEF Slots, Tables
<1>3. hole # slot /\ hole \in Nat /\ slot \in Nat
    BY <1>2
<1>4. u[slot] = NoObject /\ u[hole] = t[slot]
    BY <1>1, <1>3
<1>5. Entries(u) = Entries(t)
    <2>1. ASSUME NEW i \in Slots, u[i] # NoObject PROVE \E j \in Slots : t[j] = u[i]
        BY <1>1, <2>1
    <2>2. ASSUME NEW i \in Slots, t[i] # NoObject PROVE \E j \in Slots : u[j] = t[i]
        BY <1>1, <1>4, <2>2
    <2>3. ASSUME NEW e \in Entries(u) PROVE e \in Entries(t)
        BY <2>1 DEF Entries
    <2>4. ASSUME NEW e \in Entries(t) PROVE e \in Entries(u)
        BY <2>2 DEF Entries
    <2> QED BY <2>3, <2>4
<1>6. Once(u)
    BY <1>1, <1>3 DEF Once
<1>7. Aside(u, Q, home)
    <2> SUFFICES ASSUME NEW i \in Slots, u[i] # NoObject, u[i] \notin Q
                 PROVE  i < home[u[i]]
        BY DEF Aside
    <2>1. CASE i = hole
        <3>1. u[i] = t[slot] /\ slot < home[t[slot]]
            BY <2>1, <1>4 DEF Aside
        <3>2. t[slot] \in Object /\ home[t[slot]] \in Nat
            BY <1>2 DEF Homes, Slots
        <3> QED BY <3>1, <3>2, <1>3
    <2>2. CASE i # hole
        BY <2>2, <1>1 DEF Aside
    <2> QED BY <2>1, <2>2
<1>8. ButHole(u, slot, home)
    <2> SUFFICES ASSUME NEW i \in Slots, u[i] # NoObject,
                        NEW j \in home[u[i]] .. i, u[j] = NoObject
                 PROVE  j = slot
        BY DEF ButHole
    <2>1. i \in Nat /\ u[i] \in Object /\ home[u[i]] \in Slots /\ i \in Slots
        BY <1>1, <1>2 DEF Homes, Tables
    <2>2. j \in Slots /\ j <= i
        BY <2>1, CacheAssumption DEF Slots
    <2>3. CASE i = hole
        <3>1. u[i] = t[slot] /\ j \in home[t[slot]] .. slot
            BY <2>3, <2>1, <2>2, <1>3, <1>4
        <3>2. t[j] # NoObject \/ j = hole
            BY <3>1 DEF ButHole
        <3> QED BY <3>2, <2>2, <1>1, <1>4
    <2>4. CASE i # hole
        <3>1. u[i] = t[i] /\ t[i] # NoObject
            BY <2>4, <1>1
        <3>2. t[j] # NoObject \/ j = hole
            BY <3>1 DEF ButHole
        <3> QED BY <3>2, <2>2, <1>1, <1>4
    <2> QED BY <2>3, <2>4
<1>9. Passed(u, slot, home, slot)
    <2> SUFFICES ASSUME NEW i \in Slots, u[i] # NoObject, i <= slot
                 PROVE  ~(slot <= i)
        BY DEF Passed
    <2>1. i \in Nat
        BY <1>2
    <2>2. slot <= i => i = slot
        BY <2>1, <1>3
    <2> QED BY <2>2, <1>4
<1> QED BY <1>1, <1>4, <1>5, <1>6, <1>7, <1>8, <1>9

(* The loop stops at an empty slot: no later entry's cluster has the hole. *)
LEMMA StopKeeps ==
    ASSUME NEW home \in Homes, NEW t \in Tables,
           NEW hole \in Slots, NEW slot \in Slots, NEW to \in Nat,
           slot < hole \/ hole < slot, hole <= to, t[slot] = NoObject,
           slot = to + 1 \/ HashSize <= to + 1,
           ButHole(t, hole, home), Passed(t, hole, home, to)
    PROVE  Passed(t, hole, home, HashSize)
<1> SUFFICES ASSUME NEW i \in Slots, t[i] # NoObject, home[t[i]] <= hole, hole <= i,
                    ~(i <= to)
             PROVE  FALSE
    BY DEF Passed
<1>1. i \in Nat /\ i < HashSize /\ HashSize \in Nat /\ slot \in Nat /\ hole \in Nat
    BY CacheAssumption DEF Slots
<1>2. t[i] \in Object /\ home[t[i]] \in Nat
    BY DEF Tables, Homes, Slots
<1>3. slot = to + 1 /\ slot \in home[t[i]] .. i
    BY <1>1, <1>2
<1>4. t[slot] # NoObject \/ slot = hole
    BY <1>3 DEF ButHole
<1> QED BY <1>1, <1>3, <1>4

ScanOK(w, at, to, Q, E) ==
    /\ w \in Scan
    /\ at <= w.hole /\ w.hole <= at + to
    /\ w.table[w.hole] = NoObject
    /\ Entries(w.table) = E /\ Once(w.table) /\ Aside(w.table, Q, Home)
    /\ ButHole(w.table, w.hole, Home)
    /\ Passed(w.table, w.hole, Home, IF w.done THEN HashSize ELSE at + to)

(* One turn of the loop.                                                   *)
LEMMA TurnKeeps ==
    ASSUME offset \in [Object -> Offset \cup {0}],
           NEW at \in Slots, NEW n \in 1 .. HashSize - 1, NEW Q, NEW E,
           NEW w, ScanOK(w, at, n - 1, Q, E)
    PROVE  ScanOK(BubbledAt(w, HASHWRAP(at + n)), at, n, Q, E)
<1> DEFINE t == w.table
           hole == w.hole
           slot == HASHWRAP(at + n)
           to == at + (n - 1)
<1>1. /\ w \in Scan /\ t \in Tables /\ hole \in Slots /\ Home \in Homes
      /\ w.done \in BOOLEAN
    BY HomeOf DEF ScanOK, Scan
<1>2. /\ at <= hole /\ hole <= to /\ t[hole] = NoObject /\ Entries(t) = E /\ Once(t)
      /\ Aside(t, Q, Home) /\ ButHole(t, hole, Home)
      /\ w.done => Passed(t, hole, Home, HashSize)
      /\ ~w.done => Passed(t, hole, Home, to)
    BY DEF ScanOK
<1>3. /\ at \in Nat /\ n \in Nat /\ n > 0 /\ at < HashSize /\ n < HashSize /\ HashSize \in Nat
      /\ n \in Slots /\ hole \in Nat /\ hole < HashSize /\ to \in Nat /\ at + n = to + 1
    BY <1>1, CacheAssumption DEF Slots
<1>4. /\ slot \in Slots /\ slot \in Nat
      /\ at + n < HashSize => slot = at + n
      /\ at + n >= HashSize => slot < at
    <2>1. slot \in Slots /\ (at + n < HashSize => slot = at + n)
          /\ (at + n >= HashSize => slot = at + n - HashSize)
        BY <1>3, WrapOf
    <2>2. slot \in Nat
        BY <2>1 DEF Slots
    <2> HIDE DEF slot
    <2> QED BY <1>3, <2>1, <2>2
<1> HIDE DEF t, hole, slot, to
<1>5. CASE w.done \/ t[slot] = NoObject
    <2>1. BubbledAt(w, slot) = [table |-> t, hole |-> hole, done |-> TRUE]
        BY <1>5 DEF BubbledAt, t, hole
    <2>2. Passed(t, hole, Home, HashSize)
        <3>1. CASE w.done
            BY <3>1, <1>2
        <3>2. CASE ~w.done
            <4>1. t[slot] = NoObject /\ Passed(t, hole, Home, to)
                BY <3>2, <1>2, <1>5
            <4>2. slot < hole \/ hole < slot
                BY <1>2, <1>3, <1>4
            <4>3. slot = to + 1 \/ HashSize <= to + 1
                BY <1>3, <1>4
            <4> QED BY <4>1, <4>2, <4>3, <1>1, <1>2, <1>3, <1>4, StopKeeps
        <3> QED BY <3>1, <3>2
    <2>3. hole <= at + n
        BY <1>2, <1>3
    <2>4. [table |-> t, hole |-> hole, done |-> TRUE] \in Scan
        BY <1>1 DEF Scan
    <2> QED BY <2>1, <2>2, <2>3, <2>4, <1>2 DEF ScanOK, slot
<1>6. CASE ~w.done /\ t[slot] # NoObject /\ Bubbles(HASH(offset[t[slot]]), slot, hole)
    <2> DEFINE u == Bubbled(t, hole, slot)
    <2>1. BubbledAt(w, slot) = [table |-> u, hole |-> slot, done |-> FALSE]
        BY <1>6 DEF BubbledAt, Bubbled, t, hole
    <2>2. t[slot] \in Object
        BY <1>1, <1>4, <1>6 DEF Tables
    <2>3. hole < slot /\ Home[t[slot]] <= hole
        BY <1>6, <2>2, HomeOf DEF Bubbles
    <2>4. /\ u \in Tables /\ u[slot] = NoObject
          /\ Entries(u) = Entries(t) /\ Once(u) /\ Aside(u, Q, Home)
          /\ ButHole(u, slot, Home) /\ Passed(u, slot, Home, slot)
        <3> HIDE DEF u
        <3>1. u = Bubbled(t, hole, slot)
            BY DEF u
        <3> QED BY <3>1, <2>3, <1>1, <1>2, <1>4, <1>6, MoveKeeps
    <2>5. slot = at + n
        BY <2>3, <1>2, <1>3, <1>4
    <2>6. [table |-> u, hole |-> slot, done |-> FALSE] \in Scan
        <3> HIDE DEF u
        <3> QED BY <2>4, <1>4 DEF Scan
    <2>7. at <= slot /\ slot <= at + n
        BY <2>5, <1>3
    <2> HIDE DEF u
    <2> QED BY <2>1, <2>4, <2>5, <2>6, <2>7, <1>2 DEF ScanOK, slot
<1>7. CASE ~w.done /\ t[slot] # NoObject /\ ~Bubbles(HASH(offset[t[slot]]), slot, hole)
    <2>1. BubbledAt(w, slot) = w
        BY <1>7 DEF BubbledAt, t, hole
    <2>2. t[slot] \in Object /\ Home[t[slot]] \in Nat
        BY <1>1, <1>4, <1>7 DEF Tables, Homes, Slots
    <2>3. hole < slot => Home[t[slot]] > hole
        BY <1>7, <1>3, <1>4, <2>2, HomeOf DEF Bubbles
    <2>4. Passed(t, hole, Home, at + n)
        <3> SUFFICES ASSUME NEW i \in Slots, t[i] # NoObject, i <= at + n
                     PROVE  ~(Home[t[i]] <= hole /\ hole <= i)
            BY DEF Passed
        <3>1. CASE i <= to
            BY <3>1, <1>2, <1>7 DEF Passed
        <3>2. CASE ~(i <= to)
            <4>1. i \in Nat /\ i < HashSize
                BY CacheAssumption DEF Slots
            <4>2. i = at + n
                BY <3>2, <4>1, <1>3
            <4>3. i = slot /\ hole < slot
                BY <4>1, <4>2, <1>2, <1>3, <1>4
            <4> QED BY <4>3, <2>2, <2>3, <1>3
        <3> QED BY <3>1, <3>2
    <2>5. hole <= at + n
        BY <1>2, <1>3
    <2> QED BY <2>1, <2>4, <2>5, <1>1, <1>2, <1>7 DEF ScanOK, slot, t, hole
<1> QED BY <1>5, <1>6, <1>7 DEF slot


(* hashDelete takes out one entry and leaves the others found as before.   *)
LEMMA DeleteKeeps ==
    ASSUME offset \in [Object -> Offset \cup {0}],
           NEW t \in Tables, NEW b \in Object, Reached(t, b), NEW Q,
           Once(t), Aside(t, Q, Home), Unbroken(t, Home)
    PROVE  /\ HashDelete(t, b) \in Tables
           /\ Entries(HashDelete(t, b)) = Entries(t) \ {b}
           /\ Once(HashDelete(t, b)) /\ Aside(HashDelete(t, b), Q, Home)
           /\ Unbroken(HashDelete(t, b), Home)
           /\ \E i \in Slots : HashDelete(t, b)[i] = NoObject
<1>1. PICK at \in Slots, g \in [Slots -> Scan] :
         /\ t[at] = b
         /\ g[0] = [table |-> [t EXCEPT ![at] = NoObject], hole |-> at, done |-> FALSE]
         /\ \A n \in 1 .. HashSize - 1 : g[n] = BubbledAt(g[n - 1], HASHWRAP(at + n))
         /\ HashDelete(t, b) = g[HashSize - 1].table
    BY ScanUnfolds
<1> DEFINE E == Entries(t) \ {b}
<1>2. /\ HashSize \in Nat /\ HashSize > 0 /\ Home \in Homes
      /\ \A i \in Slots : i \in Nat /\ i < HashSize /\ t[i] \in Object \cup {NoObject}
      /\ b # NoObject
    BY CacheAssumption, HomeOf DEF Slots, Tables
<1>3. ScanOK(g[0], at, 0, Q, E)
    <2> DEFINE u == [t EXCEPT ![at] = NoObject]
    <2>1. /\ u \in Tables
          /\ \A i \in Slots : u[i] = IF i = at THEN NoObject ELSE t[i]
        BY DEF Tables
    <2>2. g[0] = [table |-> u, hole |-> at, done |-> FALSE]
        BY <1>1
    <2> HIDE DEF u
    <2>3. Entries(u) = E
        <3>1. ASSUME NEW e \in Entries(u) PROVE e \in E
            BY <1>1, <1>2, <2>1 DEF Entries, Once
        <3>2. ASSUME NEW e \in E PROVE e \in Entries(u)
            <4>1. PICK i \in Slots : e = t[i] /\ t[i] # NoObject /\ t[i] # b
                BY DEF Entries
            <4>2. i # at
                BY <4>1, <1>1
            <4> QED BY <4>1, <4>2, <2>1 DEF Entries
        <3> HIDE DEF E
        <3> QED BY <3>1, <3>2
    <2>4. Once(u) /\ Aside(u, Q, Home)
        BY <2>1 DEF Once, Aside
    <2>5. ButHole(u, at, Home)
        <3> SUFFICES ASSUME NEW i \in Slots, u[i] # NoObject,
                            NEW j \in Home[u[i]] .. i
                     PROVE  u[j] # NoObject \/ j = at
            BY DEF ButHole
        <3>1. u[i] = t[i] /\ t[i] # NoObject /\ u[i] \in Object
            BY <2>1, <1>2
        <3>2. j \in Slots
            BY <3>1, <1>2, CacheAssumption DEF Homes, Slots
        <3>3. t[j] # NoObject
            BY <3>1 DEF Unbroken
        <3> QED BY <3>2, <3>3, <2>1
    <2>6. Passed(u, at, Home, at + 0)
        <3> SUFFICES ASSUME NEW i \in Slots, u[i] # NoObject, i <= at
                     PROVE  ~(at <= i)
            BY <1>2 DEF Passed
        <3> QED BY <1>2, <2>1
    <2>7. [table |-> u, hole |-> at, done |-> FALSE] \in Scan
        BY <2>1 DEF Scan
    <2>8. u[at] = NoObject /\ at <= at /\ at <= at + 0
        BY <2>1, <1>2
    <2> HIDE DEF E
    <2> QED BY <2>2, <2>3, <2>4, <2>5, <2>6, <2>7, <2>8 DEF ScanOK
<1>4. ScanOK(g[HashSize - 1], at, HashSize - 1, Q, E)
    <2> DEFINE A == {n \in Slots : ~ScanOK(g[n], at, n, Q, E)}
    <2> HIDE DEF E
    <2>1. ASSUME A # {} PROVE FALSE
        <3>1. PICK n \in A : \A m \in A : n <= m
            <4>1. A \subseteq Nat
                BY <1>2
            <4> HIDE DEF A
            <4> QED BY <2>1, <4>1, LeastIn
        <3>2. n # 0 /\ n \in Slots
            BY <3>1, <1>3
        <3>3. n \in 1 .. HashSize - 1 /\ n - 1 \in Slots
            BY <3>2, CacheAssumption DEF Slots
        <3>4. ScanOK(g[n - 1], at, n - 1, Q, E)
            BY <3>1, <3>3, <1>2
        <3>5. ScanOK(BubbledAt(g[n - 1], HASHWRAP(at + n)), at, n, Q, E)
            <4> HIDE DEF A
            <4> QED BY <3>3, <3>4, TurnKeeps
        <3> QED BY <3>1, <3>3, <3>5, <1>1
    <2> QED BY <2>1, CacheAssumption DEF Slots
<1> DEFINE w == g[HashSize - 1]
           u == w.table
<1>5. /\ w \in Scan /\ u \in Tables /\ w.hole \in Slots /\ w.done \in BOOLEAN
      /\ Entries(u) = E /\ Once(u) /\ Aside(u, Q, Home)
      /\ ButHole(u, w.hole, Home) /\ u[w.hole] = NoObject
      /\ Passed(u, w.hole, Home, IF w.done THEN HashSize ELSE at + (HashSize - 1))
    BY <1>4 DEF ScanOK, Scan
<1>6. Unbroken(u, Home)
    <2> SUFFICES ASSUME NEW i \in Slots, u[i] # NoObject, NEW j \in Home[u[i]] .. i
                 PROVE  u[j] # NoObject
        BY DEF Unbroken
    <2> HIDE DEF w, u
    <2>1. u[j] # NoObject \/ j = w.hole
        BY <1>5 DEF ButHole
    <2>2. i <= IF w.done THEN HashSize ELSE at + (HashSize - 1)
        BY <1>2, <1>5
    <2>3. ~(Home[u[i]] <= w.hole /\ w.hole <= i)
        BY <2>2, <1>5 DEF Passed
    <2>4. u[i] \in Object /\ Home[u[i]] \in Nat /\ i \in Nat
        BY <1>2, <1>5 DEF Tables, Homes, Slots
    <2> QED BY <2>1, <2>3, <2>4
<1>7. HashDelete(t, b) = u
    BY <1>1
<1> HIDE DEF w, u
<1> QED BY <1>5, <1>6, <1>7

LEMMA ProbeOf ==
    ASSUME NEW o \in Nat, NEW i \in Slots
    PROVE  /\ Probe(o)[i] \in Slots
           /\ HASH(o) + i < HashSize => Probe(o)[i] = HASH(o) + i
           /\ HASH(o) + i >= HashSize => Probe(o)[i] = HASH(o) + i - HashSize
<1>1. Probe(o)[i] = HASHWRAP(HASH(o) + i)
    BY DEF Probe
<1>2. HASH(o) \in Slots
    BY SlotsOf
<1> QED BY <1>1, <1>2, WrapOf

(* What hashDelete does not come to lies beyond the end of its table.      *)
LEMMA NotReached ==
    ASSUME offset \in [Object -> Offset \cup {0}],
           NEW t \in Tables, NEW b \in Object, ~Reached(t, b), Unbroken(t, Home),
           NEW i \in Slots, t[i] = b
    PROVE  i < Home[b]
<1> SUFFICES ASSUME ~(i < Home[b]) PROVE FALSE
    OBVIOUS
<1> DEFINE h == HASH(offset[b])
<1>1. h = Home[b] /\ h \in Slots /\ offset[b] \in Nat
    <2>1. offset[b] \in Nat
        BY OffsetOf
    <2>2. HASH(offset[b]) = Home[b] /\ HASH(offset[b]) \in Slots
        BY <2>1, HomeOf, SlotsOf
    <2> QED BY <2>1, <2>2
<1>2. PICK k \in Slots : /\ t[Probe(offset[b])[k]] = NoObject
                         /\ ~ \E j \in 0 .. k : t[Probe(offset[b])[j]] = b
    BY DEF Reached
<1> HIDE DEF h
<1>3. /\ h \in Nat /\ i \in Nat /\ k \in Nat /\ h <= i /\ i < HashSize /\ k < HashSize
      /\ HashSize \in Nat /\ b # NoObject
    BY <1>1, CacheAssumption DEF Slots
<1>4. i - h \in Slots /\ i - h \in Nat /\ h + (i - h) = i
    BY <1>3, CacheAssumption DEF Slots
<1>5. Probe(offset[b])[i - h] = i
    BY <1>1, <1>3, <1>4, ProbeOf DEF h
<1>6. CASE i - h <= k
    <2>1. i - h \in 0 .. k
        BY <1>6, <1>3, <1>4
    <2> QED BY <2>1, <1>2, <1>5
<1>7. CASE ~(i - h <= k)
    <2>1. h + k < HashSize /\ h + k \in Home[b] .. i
        BY <1>1, <1>3, <1>7
    <2>2. Probe(offset[b])[k] = h + k
        BY <1>1, <2>1, ProbeOf DEF h
    <2>3. t[h + k] # NoObject
        BY <2>1, <1>3 DEF Unbroken
    <2> QED BY <2>2, <2>3, <1>2
<1> QED BY <1>6, <1>7

(* Only the natural slots of the entries matter.                           *)
LEMMA SameHomes ==
    ASSUME NEW home \in Homes, NEW other \in Homes, NEW t \in Tables, NEW Q,
           \A e \in Entries(t) : home[e] = other[e],
           Aside(t, Q, home), Unbroken(t, home)
    PROVE  Aside(t, Q, other) /\ Unbroken(t, other)
<1>1. \A i \in Slots : t[i] # NoObject => home[t[i]] = other[t[i]]
    BY DEF Entries
<1>2. Aside(t, Q, other)
    BY <1>1 DEF Aside
<1>3. ASSUME NEW i \in Slots, t[i] # NoObject, NEW j \in other[t[i]] .. i
      PROVE  t[j] # NoObject
    BY <1>1, <1>3 DEF Unbroken
<1> QED BY <1>2, <1>3 DEF Unbroken

LEMMA InsertKeeps ==
    ASSUME NEW home \in Homes, NEW t \in Tables, NEW Q,
           NEW b \in Object, b \notin Entries(t), NEW o \in Nat, home[b] = HASH(o),
           Once(t), Aside(t, Q, home), Unbroken(t, home),
           \E i \in Slots : t[i] = NoObject
    PROVE  /\ HashInsert(t, b, o) \in Tables
           /\ Entries(HashInsert(t, b, o)) = Entries(t) \cup {b}
           /\ Once(HashInsert(t, b, o))
           /\ Aside(HashInsert(t, b, o), Q \cup {b}, home)
           /\ Unbroken(HashInsert(t, b, o), home)
<1> DEFINE open == {i \in Slots : t[Probe(o)[i]] = NoObject}
           k == CHOOSE i \in open : \A j \in open : i <= j
           p == Probe(o)[k]
           u == [t EXCEPT ![p] = b]
           h == HASH(o)
<1>1. /\ h \in Slots /\ h \in Nat /\ h < HashSize /\ HashSize \in Nat
      /\ \A i \in Slots : i \in Nat /\ i < HashSize /\ t[i] \in Object \cup {NoObject}
      /\ b # NoObject
    <2>1. h \in Slots
        BY SlotsOf
    <2> HIDE DEF h
    <2> QED BY <2>1, CacheAssumption DEF Slots, Tables
<1>2. open # {} /\ open \subseteq Nat
    <2> HIDE DEF h
    <2>1. PICK s \in Slots : t[s] = NoObject
        OBVIOUS
    <2> DEFINE i == IF s >= h THEN s - h ELSE s - h + HashSize
    <2>2. i \in Slots /\ Probe(o)[i] = s
        <3>1. CASE s >= h
            <4>1. s - h \in Slots /\ h + (s - h) = s
                BY <3>1, <1>1 DEF Slots
            <4> QED BY <3>1, <4>1, <1>1, ProbeOf DEF h
        <3>2. CASE ~(s >= h)
            <4>1. s - h + HashSize \in Slots /\ h + (s - h + HashSize) = s + HashSize
                BY <3>2, <1>1 DEF Slots
            <4>2. h + (s - h + HashSize) >= HashSize /\ s + HashSize - HashSize = s
                BY <4>1, <1>1
            <4> QED BY <3>2, <4>1, <4>2, <1>1, ProbeOf DEF h
        <3> QED BY <3>1, <3>2
    <2> QED BY <2>1, <2>2, <1>1
<1>3. k \in open /\ \A j \in open : k <= j
    <2> HIDE DEF open
    <2>1. \E i \in open : \A j \in open : i <= j
        BY <1>2, LeastIn
    <2> QED BY <2>1
<1>4. k \in Slots /\ t[p] = NoObject /\ p \in Slots
    <2> HIDE DEF k
    <2> QED BY <1>3, ProbeOf
<1>5. HashInsert(t, b, o) = u
    <2>1. open # {}
        BY <1>2
    <2> QED BY <2>1 DEF HashInsert
<1> HIDE DEF k, p, h
<1>6. u \in Tables /\ \A i \in Slots : u[i] = IF i = p THEN b ELSE t[i]
    BY <1>4 DEF Tables
<1> HIDE DEF u
<1>7. Entries(u) = Entries(t) \cup {b}
    <2>1. ASSUME NEW e \in Entries(u) PROVE e \in Entries(t) \cup {b}
        BY <1>6 DEF Entries
    <2>2. b \in Entries(u)
        BY <1>1, <1>4, <1>6 DEF Entries
    <2>3. ASSUME NEW e \in Entries(t) PROVE e \in Entries(u)
        <3>1. PICK i \in Slots : t[i] = e /\ e # NoObject
            BY DEF Entries
        <3>2. u[i] = e
            BY <3>1, <1>4, <1>6
        <3> QED BY <3>1, <3>2 DEF Entries
    <2> QED BY <2>1, <2>2, <2>3
<1>8. \A i \in Slots : t[i] # b
    BY <1>1 DEF Entries
<1>9. Once(u)
    BY <1>6, <1>8 DEF Once
<1>10. Aside(u, Q \cup {b}, home)
    BY <1>6 DEF Aside
<1>11. Unbroken(u, home)
    <2> SUFFICES ASSUME NEW i \in Slots, u[i] # NoObject, NEW j \in home[u[i]] .. i
                 PROVE  u[j] # NoObject
        BY DEF Unbroken
    <2>1. u[i] \in Object /\ home[u[i]] \in Nat /\ j \in Slots /\ j \in Nat
        BY <1>1, <1>6 DEF Tables, Homes, Slots
    <2>2. CASE i # p
        BY <2>1, <2>2, <1>1, <1>6 DEF Unbroken
    <2>3. CASE i = p
        <3>1. h <= j /\ j <= p
            BY <2>1, <2>3, <1>1, <1>6 DEF h
        <3>2. h + k < HashSize => p = h + k
            BY <1>4, ProbeOf DEF p, h
        <3>3. h + k >= HashSize => p = h + k - HashSize
            BY <1>4, ProbeOf DEF p, h
        <3>4. p = h + k /\ j - h \in Slots /\ j - h \in Nat /\ h + (j - h) = j
            <4>1. p \in Nat /\ k \in Nat /\ k < HashSize
                BY <1>1, <1>4
            <4> QED BY <4>1, <3>1, <3>2, <3>3, <2>1, <1>1 DEF Slots
        <3>5. Probe(o)[j - h] = j
            BY <3>4, <2>1, <1>1, ProbeOf DEF h
        <3>6. CASE j = p
            BY <3>6, <1>1, <1>4, <1>6
        <3>7. CASE j # p
            <4>1. j - h < k /\ k \in Nat
                BY <3>1, <3>4, <3>7, <2>1, <1>1, <1>4
            <4>2. j - h \notin open
                BY <4>1, <3>4, <1>3
            <4>3. t[j] # NoObject
                BY <4>2, <3>4, <3>5
            <4> QED BY <4>3, <3>7, <2>1, <1>6
        <3> QED BY <3>6, <3>7
    <2> QED BY <2>2, <2>3
<1> QED BY <1>5, <1>6, <1>7, <1>9, <1>10, <1>11

(* With a full table hashInsert fails and its caller does not look.        *)
SpareSlot == \E i \in Slots : hash[i] = NoObject

-----------------------------------------------------------------------------
(* The queue.                                                              *)

Joins(r, a, c) == r = a \o c
ReadsAs(r, a, c) ==
    /\ r \in Seq(Object) /\ Len(r) = Len(a) + Len(c)
    /\ \A i \in 1 .. Len(a) : r[i] = a[i]
    /\ \A i \in 1 .. Len(c) : r[Len(a) + i] = c[i]

LEMMA Joined ==
    ASSUME NEW a \in Seq(Object), NEW c \in Seq(Object), NEW r, Joins(r, a, c)
    PROVE  ReadsAs(r, a, c)
BY DEF Joins, ReadsAs

LEMMA QueDeleteRemoves ==
    ASSUME NEW q \in Seq(Object), IsInjective(q), NEW b \in ToSet(q), Len(q) >= 2
    PROVE  /\ QueDelete(q, b) \in Seq(Object)
           /\ Len(QueDelete(q, b)) = Len(q) - 1
           /\ IsInjective(QueDelete(q, b))
           /\ ToSet(QueDelete(q, b)) = ToSet(q) \ {b}
<1> DEFINE k == CHOOSE i \in DOMAIN q : q[i] = b
           r == QueDelete(q, b)
<1>1. k \in 1 .. Len(q) /\ q[k] = b /\ Len(q) \in Nat
    BY DEF ToSet
<1>2. r = SubSeq(q, 1, k - 1) \o SubSeq(q, k + 1, Len(q))
    <2>1. Len(q) \in Nat
        OBVIOUS
    <2>2. Len(q) # 1
        <3> DEFINE n == Len(q)
        <3>1. n \in Nat /\ n >= 2
            BY <2>1
        <3> HIDE DEF n
        <3>2. n # 1
            BY <3>1
        <3> QED BY <3>2 DEF n
    <2> QED BY <2>2, Zenon DEF QueDelete, RemoveAt
<1> HIDE DEF k, r
<1>3. /\ SubSeq(q, 1, k - 1) \in Seq(Object) /\ Len(SubSeq(q, 1, k - 1)) = k - 1
      /\ \A i \in 1 .. k - 1 : SubSeq(q, 1, k - 1)[i] = q[i]
    BY <1>1
<1>4. /\ SubSeq(q, k + 1, Len(q)) \in Seq(Object)
      /\ Len(SubSeq(q, k + 1, Len(q))) = Len(q) - k
      /\ \A i \in 1 .. Len(q) - k : SubSeq(q, k + 1, Len(q))[i] = q[k + i]
    BY <1>1
<1>5. /\ r \in Seq(Object) /\ Len(r) = Len(q) - 1
      /\ \A i \in 1 .. Len(q) - 1 : r[i] = IF i < k THEN q[i] ELSE q[i + 1]
    <2> DEFINE a == SubSeq(q, 1, k - 1)
               c == SubSeq(q, k + 1, Len(q))
    <2>1. r = a \o c /\ a \in Seq(Object) /\ c \in Seq(Object)
          /\ Len(a) = k - 1 /\ Len(c) = Len(q) - k
        BY <1>2, <1>3, <1>4
    <2>2. /\ \A i \in 1 .. k - 1 : a[i] = q[i]
          /\ \A i \in 1 .. Len(q) - k : c[i] = q[k + i]
        BY <1>3, <1>4
    <2> HIDE DEF a, c
    <2>3. ReadsAs(r, a, c)
        <3>1. Joins(r, a, c)
            BY <2>1 DEF Joins
        <3> QED BY <2>1, <3>1, Joined
    <2>4. ASSUME NEW i \in 1 .. Len(q) - 1
          PROVE  r[i] = IF i < k THEN q[i] ELSE q[i + 1]
        <3>1. CASE i < k
            <4>1. i \in 1 .. Len(a) /\ i \in 1 .. k - 1
                BY <3>1, <1>1, <2>1
            <4> QED BY <3>1, <4>1, <2>2, <2>3 DEF ReadsAs
        <3>2. CASE ~(i < k)
            <4> DEFINE j == i - (k - 1)
            <4>1. j \in 1 .. Len(q) - k /\ k + j = i + 1 /\ Len(a) + j = i /\ j \in 1 .. Len(c)
                BY <3>2, <1>1, <2>1
            <4> HIDE DEF j
            <4>2. r[i] = c[j] /\ c[j] = q[k + j]
                BY <4>1, <2>2, <2>3 DEF ReadsAs
            <4> QED BY <3>2, <4>1, <4>2
        <3> QED BY <3>1, <3>2
    <2>5. r \in Seq(Object) /\ Len(r) = Len(q) - 1
        BY <1>1, <2>1, <2>3 DEF ReadsAs
    <2> QED BY <2>4, <2>5
<1>6. IsInjective(r)
    <2> SUFFICES ASSUME NEW i \in 1 .. Len(r), NEW j \in 1 .. Len(r), r[i] = r[j]
                 PROVE  i = j
        BY <1>5 DEF IsInjective
    <2>1. \A m, n \in 1 .. Len(q) : q[m] = q[n] => m = n
        BY DEF IsInjective
    <2> QED BY <2>1, <1>1, <1>5
<1>7. ToSet(r) = ToSet(q) \ {b}
    <2>1. ASSUME NEW e \in ToSet(r) PROVE e \in ToSet(q) \ {b}
        <3>1. PICK i \in 1 .. Len(r) : e = r[i]
            BY <1>5 DEF ToSet
        <3>2. PICK m \in 1 .. Len(q) : e = q[m] /\ m # k
            BY <3>1, <1>1, <1>5
        <3> QED BY <3>2, <1>1 DEF ToSet, IsInjective
    <2>2. ASSUME NEW e \in ToSet(q), e # b PROVE e \in ToSet(r)
        <3>1. PICK m \in 1 .. Len(q) : e = q[m] /\ m # k
            BY <2>2, <1>1 DEF ToSet
        <3>2. CASE m < k
            <4>1. m \in 1 .. Len(r) /\ r[m] = e
                BY <3>1, <3>2, <1>1, <1>5
            <4> QED BY <4>1, <1>5 DEF ToSet
        <3>3. CASE ~(m < k)
            <4>1. m - 1 \in 1 .. Len(r) /\ r[m - 1] = e
                BY <3>1, <3>3, <1>1, <1>5
            <4> QED BY <4>1, <1>5 DEF ToSet
        <3> QED BY <3>2, <3>3
    <2> QED BY <2>1, <2>2
<1> QED BY <1>5, <1>6, <1>7 DEF r

LEMMA PushedInFront ==
    ASSUME NEW q \in Seq(Object), IsInjective(q), NEW b \in Object, b \notin ToSet(q)
    PROVE  /\ <<b>> \o q \in Seq(Object) /\ Len(<<b>> \o q) = Len(q) + 1
           /\ IsInjective(<<b>> \o q) /\ ToSet(<<b>> \o q) = ToSet(q) \cup {b}
<1> DEFINE a == <<b>>
           r == a \o q
<1>1. /\ r \in Seq(Object) /\ Len(r) = Len(q) + 1 /\ r[1] = b /\ Len(q) \in Nat
      /\ \A i \in 1 .. Len(q) : r[i + 1] = q[i]
    <2>1. a \in Seq(Object) /\ Len(a) = 1 /\ a[1] = b /\ Len(q) \in Nat
        OBVIOUS
    <2> HIDE DEF a
    <2>2. /\ r \in Seq(Object) /\ Len(r) = 1 + Len(q)
          /\ \A i \in 1 .. Len(a) : r[i] = a[i]
          /\ \A i \in 1 .. Len(q) : r[Len(a) + i] = q[i]
        <3> HIDE DEF r
        <3>1. Joins(r, a, q)
            BY DEF r, Joins
        <3>2. a \in Seq(Object) /\ q \in Seq(Object)
            BY <2>1
        <3>3. ReadsAs(r, a, q)
            BY <3>1, <3>2, Joined
        <3> QED BY <2>1, <3>3 DEF ReadsAs
    <2> HIDE DEF r
    <2>3. ASSUME NEW i \in 1 .. Len(q) PROVE r[i + 1] = q[i]
        <3>1. i + 1 = Len(a) + i
            BY <2>1
        <3> QED BY <3>1, <2>2
    <2>4. r[1] = b
        BY <2>1, <2>2
    <2>5. Len(r) = Len(q) + 1
        BY <2>1, <2>2
    <2> QED BY <2>1, <2>2, <2>3, <2>4, <2>5
<1> HIDE DEF r
<1>2. \A i \in 1 .. Len(r) : i = 1 \/ (i - 1 \in 1 .. Len(q) /\ r[i] = q[i - 1])
    <2> SUFFICES ASSUME NEW i \in 1 .. Len(r), i # 1
                 PROVE  i - 1 \in 1 .. Len(q) /\ r[i] = q[i - 1]
        OBVIOUS
    <2>1. i - 1 \in 1 .. Len(q) /\ (i - 1) + 1 = i
        BY <1>1
    <2> QED BY <2>1, <1>1
<1>3. \A i \in 1 .. Len(q) : q[i] \in ToSet(q) /\ q[i] # b
    BY DEF ToSet
<1>4. IsInjective(r)
    <2> SUFFICES ASSUME NEW i \in 1 .. Len(r), NEW j \in 1 .. Len(r), r[i] = r[j]
                 PROVE  i = j
        BY <1>1 DEF IsInjective
    <2>1. \A m, n \in 1 .. Len(q) : q[m] = q[n] => m = n
        BY DEF IsInjective
    <2>2. CASE i = 1
        BY <2>2, <1>1, <1>2, <1>3
    <2>3. CASE j = 1
        BY <2>3, <1>1, <1>2, <1>3
    <2>4. CASE i # 1 /\ j # 1
        BY <2>1, <2>4, <1>2
    <2> QED BY <2>2, <2>3, <2>4
<1>5. ToSet(r) = ToSet(q) \cup {b}
    <2>1. ASSUME NEW e \in ToSet(r) PROVE e \in ToSet(q) \cup {b}
        <3>1. PICK i \in 1 .. Len(r) : e = r[i]
            BY <1>1 DEF ToSet
        <3>2. CASE i = 1
            BY <3>1, <3>2, <1>1
        <3>3. CASE i # 1
            BY <3>1, <3>3, <1>2, <1>3
        <3> QED BY <3>2, <3>3
    <2>2. b \in ToSet(r)
        BY <1>1 DEF ToSet
    <2>3. ASSUME NEW e \in ToSet(q) PROVE e \in ToSet(r)
        <3>1. PICK i \in 1 .. Len(q) : e = q[i]
            BY DEF ToSet
        <3>2. i + 1 \in 1 .. Len(r) /\ r[i + 1] = e
            BY <3>1, <1>1
        <3> QED BY <3>2, <1>1 DEF ToSet
    <2> QED BY <2>1, <2>2, <2>3
<1> QED BY <1>1, <1>4, <1>5 DEF r

-----------------------------------------------------------------------------
(* The cache.                                                              *)

BlocksTypeOK ==
    /\ live \subseteq Object /\ added \subseteq live
    /\ offset \in [Object -> Offset \cup {0}]
    /\ refCount \in [Object -> Nat] /\ held \in [Object -> Nat]
    /\ hash \in Tables
    /\ queue \in Seq(Object)
    /\ openBlockCount \in Nat
    /\ placed \subseteq Offset

(* QueueMatchesTable and ClustersUnbroken, of the table as it is.          *)
TableOK ==
    /\ openBlockCount = Len(queue) /\ IsInjective(queue)
    /\ ToSet(queue) \subseteq Entries(hash)
    /\ Once(hash) /\ Aside(hash, ToSet(queue), Home) /\ Unbroken(hash, Home)

(* A block is added once, by its first write or when it is read, and has   *)
(* one holder and no reference until then.                                 *)
AddedOnce ==
    /\ \A b \in added : offset[b] # 0
    /\ Entries(hash) \subseteq added
    /\ \A b \in Object \ added : held[b] <= 1
    /\ \A b \in live \ added : refCount[b] = 0
    /\ \A b \in Object \ live : held[b] = 0
    /\ openBlockCount = 0 => added = {}

BlocksIInv == BlocksTypeOK /\ TableOK /\ AddedOnce /\ PinsAreHeld

(* The victim is gone from the queue, and from the table or is where       *)
(* hashDelete does not find it.                                            *)
LEMMA DropKeeps ==
    ASSUME SpareSlot, BlocksTypeOK, TableOK,
           openBlockCount >= MaxCache, NEW v \in Victims
    PROVE  /\ HashDelete(hash, v) \in Tables
           /\ Entries(HashDelete(hash, v)) \subseteq Entries(hash)
           /\ Once(HashDelete(hash, v))
           /\ QueDelete(queue, v) \in Seq(Object)
           /\ Len(QueDelete(queue, v)) = Len(queue) - 1
           /\ IsInjective(QueDelete(queue, v))
           /\ ToSet(QueDelete(queue, v)) \subseteq Entries(HashDelete(hash, v))
           /\ Aside(HashDelete(hash, v), ToSet(QueDelete(queue, v)), Home)
           /\ Unbroken(HashDelete(hash, v), Home)
           /\ \E i \in Slots : HashDelete(hash, v)[i] = NoObject
<1> DEFINE u == HashDelete(hash, v)
           q == QueDelete(queue, v)
<1>1. v \in ToSet(queue) /\ v \in Object /\ v \in Entries(hash)
    <2>1. v \in ToSet(queue)
        BY DEF Victims, ToSet
    <2>2. v \in Object
        BY <2>1 DEF BlocksTypeOK, ToSet
    <2> QED BY <2>1, <2>2 DEF TableOK
<1>2. Len(queue) >= 2
    BY CacheAssumption DEF TableOK, BlocksTypeOK
<1>3. /\ q \in Seq(Object) /\ Len(q) = Len(queue) - 1 /\ IsInjective(q)
      /\ ToSet(q) = ToSet(queue) \ {v}
    <2>1. queue \in Seq(Object) /\ IsInjective(queue)
        BY DEF BlocksTypeOK, TableOK
    <2> QED BY <2>1, <1>1, <1>2, QueDeleteRemoves
<1>4. /\ hash \in Tables /\ Once(hash) /\ Unbroken(hash, Home)
      /\ Aside(hash, ToSet(queue), Home) /\ ToSet(queue) \subseteq Entries(hash)
      /\ offset \in [Object -> Offset \cup {0}]
    BY DEF BlocksTypeOK, TableOK
<1> HIDE DEF q
<1>5. CASE Reached(hash, v)
    <2>1. /\ u \in Tables /\ Entries(u) = Entries(hash) \ {v} /\ Once(u)
          /\ Aside(u, ToSet(queue), Home) /\ Unbroken(u, Home)
          /\ \E i \in Slots : u[i] = NoObject
        BY <1>1, <1>4, <1>5, DeleteKeeps
    <2> HIDE DEF u
    <2>2. ASSUME NEW i \in Slots, u[i] # NoObject PROVE u[i] # v
        BY <2>1, <2>2 DEF Entries
    <2>3. Aside(u, ToSet(q), Home)
        BY <2>1, <2>2, <1>3 DEF Aside
    <2>4. ToSet(q) \subseteq Entries(u) /\ Entries(u) \subseteq Entries(hash)
        BY <2>1, <1>3, <1>4
    <2> QED BY <2>1, <2>3, <2>4, <1>3 DEF u, q
<1>6. CASE ~Reached(hash, v)
    <2>1. u = hash
        BY <1>6 DEF HashDelete
    <2>2. ASSUME NEW i \in Slots, hash[i] = v PROVE i < Home[v]
        BY <1>1, <1>4, <1>6, <2>2, NotReached
    <2>3. Aside(hash, ToSet(q), Home)
        BY <2>2, <1>3, <1>4 DEF Aside
    <2>4. ToSet(q) \subseteq Entries(hash)
        BY <1>3, <1>4
    <2> QED BY <2>1, <2>3, <2>4, <1>3, <1>4 DEF q, SpareSlot
<1> QED BY <1>5, <1>6

LEMMA AddBlockKeeps ==
    ASSUME SpareSlot, BlocksTypeOK, TableOK, NEW b \in Object, b \notin Entries(hash),
           NEW o \in Offset, offset' = [offset EXCEPT ![b] = o], AddBlock(b, o)
    PROVE  /\ hash' \in Tables /\ queue' \in Seq(Object)
           /\ openBlockCount' \in Nat /\ openBlockCount' # 0
           /\ Entries(hash') \subseteq Entries(hash) \cup {b}
           /\ TableOK'
<1> DEFINE v == CHOOSE v \in Victims : TRUE
           drops == openBlockCount >= MaxCache /\ Victims # {}
           u == IF drops THEN HashDelete(hash, v) ELSE hash
           q == IF drops THEN QueDelete(queue, v) ELSE queue
<1>1. /\ u \in Tables /\ Entries(u) \subseteq Entries(hash) /\ Once(u)
      /\ q \in Seq(Object) /\ IsInjective(q) /\ ToSet(q) \subseteq Entries(u)
      /\ Len(q) = IF drops THEN Len(queue) - 1 ELSE Len(queue)
      /\ Aside(u, ToSet(q), Home) /\ Unbroken(u, Home)
      /\ \E i \in Slots : u[i] = NoObject
    <2>1. CASE drops
        <3>1. v \in Victims /\ openBlockCount >= MaxCache
            BY <2>1
        <3>2. u = HashDelete(hash, v) /\ q = QueDelete(queue, v)
            BY <2>1
        <3> HIDE DEF u, q, v, drops
        <3> QED BY <2>1, <3>1, <3>2, DropKeeps
    <2>2. CASE ~drops
        <3>1. u = hash /\ q = queue
            BY <2>2
        <3> HIDE DEF u, q, v, drops
        <3> QED BY <2>2, <3>1 DEF BlocksTypeOK, TableOK, SpareSlot
    <2> QED BY <2>1, <2>2
<1>2. /\ hash' = HashInsert(u, b, o) /\ queue' = <<b>> \o q
      /\ openBlockCount' = openBlockCount + (IF drops THEN 0 ELSE 1)
    BY DEF AddBlock
<1> HIDE DEF u, q, v, drops
<1>3. /\ offset' \in [Object -> Offset \cup {0}] /\ offset'[b] = o
      /\ offset \in [Object -> Offset \cup {0}]
      /\ \A e \in Object : e # b => offset'[e] = offset[e]
    BY DEF BlocksTypeOK
<1>4. /\ Home' \in Homes /\ Home \in Homes /\ Home'[b] = HASH(o) /\ o \in Nat
      /\ \A e \in Object : e # b => Home[e] = Home'[e]
    <2>1. Home' = HomeIn(offset')
        BY DEF Home
    <2>2. /\ HomeIn(offset') \in Homes /\ HomeIn(offset) \in Homes
          /\ \A e \in Object : HASH(offset'[e]) = HomeIn(offset')[e]
          /\ \A e \in Object : HASH(offset[e]) = HomeIn(offset)[e]
        BY <1>3, HomesAre
    <2>3. o \in Nat
        BY CacheAssumption
    <2>4. ASSUME NEW e \in Object, e # b PROVE HomeIn(offset)[e] = HomeIn(offset')[e]
        BY <2>2, <2>4, <1>3
    <2>5. HomeIn(offset')[b] = HASH(o)
        BY <2>2, <1>3
    <2> QED BY <2>1, <2>2, <2>3, <2>4, <2>5 DEF Home
<1>5. b \notin Entries(u) /\ Entries(u) \subseteq Object
    BY <1>1 DEF Entries, Tables
<1>6. Aside(u, ToSet(q), Home') /\ Unbroken(u, Home')
    <2>1. \A e \in Entries(u) : Home[e] = Home'[e]
        BY <1>4, <1>5
    <2> QED BY <2>1, <1>1, <1>4, SameHomes
<1>7. \E i \in Slots : u[i] = NoObject
    BY <1>1
<1>8. /\ hash' \in Tables /\ Entries(hash') = Entries(u) \cup {b} /\ Once(hash')
      /\ Aside(hash', ToSet(q) \cup {b}, Home') /\ Unbroken(hash', Home')
    <2> DEFINE h == Home'
    <2>1. h \in Homes /\ h[b] = HASH(o) /\ Aside(u, ToSet(q), h) /\ Unbroken(u, h)
        BY <1>4, <1>6
    <2>2. o \in Nat /\ u \in Tables /\ Once(u) /\ b \notin Entries(u)
        BY <1>1, <1>4, <1>5
    <2> HIDE DEF h
    <2>3. /\ HashInsert(u, b, o) \in Tables
          /\ Entries(HashInsert(u, b, o)) = Entries(u) \cup {b}
          /\ Once(HashInsert(u, b, o))
          /\ Aside(HashInsert(u, b, o), ToSet(q) \cup {b}, h)
          /\ Unbroken(HashInsert(u, b, o), h)
        BY <1>7, <2>1, <2>2, InsertKeeps
    <2> QED BY <2>3, <1>2 DEF h
<1>9. b \notin ToSet(q)
    BY <1>1, <1>5
<1>10. /\ queue' \in Seq(Object) /\ Len(queue') = Len(q) + 1
       /\ IsInjective(queue') /\ ToSet(queue') = ToSet(q) \cup {b}
    BY <1>1, <1>2, <1>9, PushedInFront
<1>11. openBlockCount' = Len(queue') /\ openBlockCount' \in Nat /\ openBlockCount' # 0
    <2>1. openBlockCount = Len(queue) /\ Len(queue) \in Nat /\ Len(q) \in Nat
        BY <1>1 DEF BlocksTypeOK, TableOK
    <2>2. CASE drops
        BY <2>1, <2>2, <1>1, <1>2, <1>10
    <2>3. CASE ~drops
        BY <2>1, <2>3, <1>1, <1>2, <1>10
    <2> QED BY <2>2, <2>3
<1>12. TableOK'
    BY <1>1, <1>8, <1>10, <1>11 DEF TableOK
<1> QED BY <1>1, <1>8, <1>10, <1>11, <1>12

(* A block that is not in the table may get another place.                 *)
LEMMA TableStays ==
    ASSUME BlocksTypeOK, TableOK, UNCHANGED <<hash, queue, openBlockCount>>,
           NEW b \in Object, b \notin Entries(hash), NEW o \in Offset \cup {0},
           offset' = [offset EXCEPT ![b] = o]
    PROVE  TableOK'
<1>1. /\ offset' \in [Object -> Offset \cup {0}] /\ offset \in [Object -> Offset \cup {0}]
      /\ \A e \in Object : e # b => offset'[e] = offset[e]
    BY DEF BlocksTypeOK
<1>2. Home' = HomeIn(offset') /\ Home = HomeIn(offset)
    BY DEF Home
<1>3. /\ HomeIn(offset') \in Homes /\ HomeIn(offset) \in Homes
      /\ \A e \in Object : HASH(offset'[e]) = HomeIn(offset')[e]
      /\ \A e \in Object : HASH(offset[e]) = HomeIn(offset)[e]
    BY <1>1, HomesAre
<1>4. hash \in Tables /\ Entries(hash) \subseteq Object
    BY DEF BlocksTypeOK, Entries, Tables
<1>5. \A e \in Entries(hash) : HomeIn(offset)[e] = HomeIn(offset')[e]
    <2> SUFFICES ASSUME NEW e \in Entries(hash)
                 PROVE  HomeIn(offset)[e] = HomeIn(offset')[e]
        OBVIOUS
    <2>1. e \in Object /\ e # b
        BY <1>4
    <2> QED BY <2>1, <1>1, <1>3
<1>6. /\ Aside(hash, ToSet(queue), HomeIn(offset')) /\ Unbroken(hash, HomeIn(offset'))
    <2>1. Aside(hash, ToSet(queue), HomeIn(offset)) /\ Unbroken(hash, HomeIn(offset))
        BY <1>2 DEF TableOK
    <2> QED BY <2>1, <1>3, <1>4, <1>5, SameHomes
<1> QED BY <1>2, <1>6 DEF TableOK

LEMMA UnreachableIsOut ==
    ASSUME BlocksIInv, NEW b \in Object, Unreachable(b)
    PROVE  b \notin Entries(hash)
BY DEF BlocksIInv, BlocksTypeOK, AddedOnce, Unreachable, Cached, Entries

LEMMA NewBlockKeeps ==
    ASSUME BlocksIInv, NEW b \in Object, NewBlock(b)
    PROVE  BlocksIInv'
<1>1. b \notin Entries(hash)
    BY UnreachableIsOut DEF NewBlock
<1>2. TableOK'
    BY <1>1, TableStays DEF NewBlock, BlocksIInv
<1>3. BlocksTypeOK'
    BY DEF NewBlock, BlocksIInv, BlocksTypeOK
<1>4. AddedOnce'
    BY <1>1 DEF NewBlock, BlocksIInv, BlocksTypeOK, AddedOnce
<1>5. PinsAreHeld'
    BY DEF NewBlock, BlocksIInv, BlocksTypeOK, PinsAreHeld
<1> QED BY <1>2, <1>3, <1>4, <1>5 DEF BlocksIInv

LEMMA WriteBlockKeeps ==
    ASSUME SpareSlot, BlocksIInv, NEW b \in Object, NEW o \in Offset, WriteBlock(b, o)
    PROVE  BlocksIInv'
<1> USE DEF BlocksIInv
<1>1. /\ b \notin added /\ held[b] > 0 /\ b \in live /\ refCount[b] = 0 /\ held[b] \in Nat
      /\ b \notin Entries(hash)
    BY DEF WriteBlock, BlocksTypeOK, AddedOnce
<1>2. /\ offset' = [offset EXCEPT ![b] = o] /\ placed' = placed \cup {o}
      /\ refCount' = [refCount EXCEPT ![b] = @ + 1]
      /\ live' = live /\ held' = held /\ added' = added \cup {b} /\ AddBlock(b, o)
    BY DEF WriteBlock, AddBlock
<1>3. /\ hash' \in Tables /\ queue' \in Seq(Object)
      /\ openBlockCount' \in Nat /\ openBlockCount' # 0
      /\ Entries(hash') \subseteq Entries(hash) \cup {b}
      /\ TableOK'
    BY <1>1, <1>2, AddBlockKeeps
<1>4. BlocksTypeOK'
    BY <1>1, <1>2, <1>3 DEF BlocksTypeOK
<1>5. AddedOnce'
    <2>1. \A e \in added' : offset'[e] # 0
        BY <1>2, CacheAssumption DEF BlocksTypeOK, AddedOnce
    <2>2. \A e \in live' \ added' : refCount'[e] = 0
        BY <1>2 DEF BlocksTypeOK, AddedOnce
    <2> QED BY <1>1, <1>2, <1>3, <2>1, <2>2 DEF AddedOnce
<1>6. PinsAreHeld'
    BY <1>1, <1>2 DEF BlocksTypeOK, PinsAreHeld
<1> QED BY <1>3, <1>4, <1>5, <1>6

LEMMA ReadMissKeeps ==
    ASSUME SpareSlot, BlocksIInv, NEW b \in Object, NEW o \in Offset, ReadMiss(b, o)
    PROVE  BlocksIInv'
<1> USE DEF BlocksIInv
<1>1. b \notin Entries(hash)
    BY UnreachableIsOut DEF ReadMiss
<1>2. /\ offset' = [offset EXCEPT ![b] = o] /\ placed' = placed
      /\ refCount' = [refCount EXCEPT ![b] = 1] /\ held' = [held EXCEPT ![b] = 1]
      /\ live' = live \cup {b} /\ added' = added \cup {b} /\ AddBlock(b, o)
    BY DEF ReadMiss, AddBlock
<1>3. /\ hash' \in Tables /\ queue' \in Seq(Object)
      /\ openBlockCount' \in Nat /\ openBlockCount' # 0
      /\ Entries(hash') \subseteq Entries(hash) \cup {b}
      /\ TableOK'
    BY <1>1, <1>2, AddBlockKeeps
<1>4. BlocksTypeOK'
    BY <1>1, <1>2, <1>3 DEF BlocksTypeOK
<1>5. AddedOnce'
    <2>1. \A e \in added' : offset'[e] # 0
        BY <1>2, CacheAssumption DEF BlocksTypeOK, AddedOnce
    <2>2. \A e \in live' \ added' : refCount'[e] = 0
        BY <1>2 DEF BlocksTypeOK, AddedOnce
    <2>3. \A e \in Object \ added' : held'[e] <= 1
        BY <1>2 DEF BlocksTypeOK, AddedOnce
    <2>4. \A e \in Object \ live' : held'[e] = 0
        BY <1>2 DEF BlocksTypeOK, AddedOnce
    <2> QED BY <1>1, <1>2, <1>3, <2>1, <2>2, <2>3, <2>4 DEF AddedOnce
<1>6. PinsAreHeld'
    BY <1>1, <1>2 DEF BlocksTypeOK, PinsAreHeld
<1> QED BY <1>3, <1>4, <1>5, <1>6

LEMMA ReadHitKeeps ==
    ASSUME BlocksIInv, NEW o \in Offset, ReadHit(o)
    PROVE  BlocksIInv'
<1> DEFINE b == GetBlock(hash, o)
<1> USE DEF BlocksIInv
<1>1. /\ UNCHANGED <<live, offset, added, refCount, hash, queue, openBlockCount, placed>>
      /\ held' = [held EXCEPT ![b] = @ + 1] /\ b # NoObject
    BY DEF ReadHit
<1>2. b \in Entries(hash)
    <2> DEFINE hit(i) == /\ hash[Probe(o)[i]] # NoObject
                         /\ offset[hash[Probe(o)[i]]] = o
                         /\ \A j \in 0 .. i - 1 : hash[Probe(o)[j]] # NoObject
                         /\ \A j \in 0 .. i - 1 : offset[hash[Probe(o)[j]]] # o
               k == CHOOSE i \in Slots : hit(i)
    <2>1. b = IF \E i \in Slots : hit(i) THEN hash[Probe(o)[k]] ELSE NoObject
        BY DEF GetBlock
    <2>2. \E i \in Slots : hit(i)
        BY <2>1, <1>1
    <2>3. k \in Slots
        <3> HIDE DEF hit
        <3> QED BY <2>2
    <2>4. Probe(o)[k] \in Slots
        <3> HIDE DEF k
        <3> QED BY <2>3, ProbeOf, CacheAssumption
    <2>5. b = hash[Probe(o)[k]]
        <3> HIDE DEF hit, k
        <3> QED BY <2>1, <2>2
    <2> HIDE DEF k, b
    <2> QED BY <2>4, <2>5, <1>1 DEF Entries
<1> HIDE DEF b
<1>3. b \in added /\ b \in Object
    BY <1>2 DEF AddedOnce, BlocksTypeOK
<1>4. BlocksTypeOK'
    BY <1>1, <1>3 DEF BlocksTypeOK
<1>5. AddedOnce'
    <2>1. \A e \in Object \ added : held'[e] = held[e]
        BY <1>1, <1>3 DEF BlocksTypeOK
    <2>2. \A e \in Object \ live : held'[e] = held[e]
        BY <1>1, <1>3 DEF BlocksTypeOK
    <2> QED BY <1>1, <2>1, <2>2 DEF AddedOnce
<1>6. PinsAreHeld'
    BY <1>1, <1>3 DEF BlocksTypeOK, PinsAreHeld
<1>7. TableOK'
    BY <1>1 DEF TableOK, Home
<1> QED BY <1>4, <1>5, <1>6, <1>7

LEMMA DestroyBlockKeeps ==
    ASSUME BlocksIInv, NEW b \in Object, DestroyBlock(b)
    PROVE  BlocksIInv'
<1> USE DEF BlocksIInv
<1>1. /\ UNCHANGED <<offset, added, hash, queue, openBlockCount, placed>>
      /\ held' = [held EXCEPT ![b] = @ - 1] /\ held[b] > 0 /\ held[b] \in Nat
      /\ b \in live /\ refCount[b] \in Nat
    BY DEF DestroyBlock, BlocksTypeOK, AddedOnce
<1>2. TableOK'
    BY <1>1 DEF TableOK, Home
<1>3. CASE CacheRefuses(b)
    <2>1. live' = live \ {b} /\ refCount' = refCount
        BY <1>3 DEF DestroyBlock
    <2>2. b \notin added
        BY <1>3 DEF CacheRefuses, AddedOnce
    <2>3. held[b] = 1
        BY <1>1, <2>2 DEF AddedOnce
    <2>4. held' \in [Object -> Nat] /\ held'[b] = 0
          /\ \A e \in Object : e # b => held'[e] = held[e]
        BY <1>1, <2>3 DEF BlocksTypeOK
    <2>5. BlocksTypeOK'
        BY <1>1, <2>1, <2>2, <2>4 DEF BlocksTypeOK
    <2>6. AddedOnce'
        BY <1>1, <2>1, <2>4 DEF AddedOnce
    <2>7. PinsAreHeld'
        <3> SUFFICES ASSUME NEW e \in live' PROVE refCount'[e] <= held'[e]
            BY DEF PinsAreHeld
        <3>1. e \in live /\ e \in Object /\ e # b
            BY <2>1 DEF BlocksTypeOK
        <3> QED BY <3>1, <2>1, <2>4 DEF PinsAreHeld
    <2> QED BY <1>2, <2>5, <2>6, <2>7
<1>4. CASE ~CacheRefuses(b)
    <2>1. /\ live' = live
          /\ refCount' = [refCount EXCEPT ![b] = IF @ > 0 THEN @ - 1 ELSE 0]
        BY <1>4 DEF DestroyBlock
    <2>2. /\ refCount' \in [Object -> Nat] /\ held' \in [Object -> Nat]
          /\ refCount'[b] = (IF refCount[b] > 0 THEN refCount[b] - 1 ELSE 0)
          /\ held'[b] = held[b] - 1
          /\ \A e \in Object : e # b => held'[e] = held[e] /\ refCount'[e] = refCount[e]
        BY <1>1, <2>1 DEF BlocksTypeOK
    <2>3. BlocksTypeOK'
        BY <1>1, <2>1, <2>2 DEF BlocksTypeOK
    <2>4. AddedOnce'
        <3>1. \A e \in Object \ added : held'[e] <= 1
            <4> SUFFICES ASSUME NEW e \in Object \ added PROVE held'[e] <= 1
                OBVIOUS
            <4>1. held[e] <= 1 /\ held[e] \in Nat
                BY DEF AddedOnce, BlocksTypeOK
            <4> QED BY <4>1, <1>1, <2>2
        <3>2. \A e \in live \ added : refCount'[e] = 0
            BY <2>2 DEF AddedOnce, BlocksTypeOK
        <3>3. \A e \in Object \ live : held'[e] = 0
            BY <1>1, <2>2 DEF AddedOnce
        <3> QED BY <1>1, <2>1, <3>1, <3>2, <3>3 DEF AddedOnce
    <2>5. PinsAreHeld'
        <3> SUFFICES ASSUME NEW e \in live PROVE refCount'[e] <= held'[e]
            BY <2>1 DEF PinsAreHeld
        <3>1. refCount[e] <= held[e] /\ e \in Object
            BY DEF PinsAreHeld, BlocksTypeOK
        <3>2. CASE e = b
            BY <3>1, <3>2, <1>1, <2>2
        <3>3. CASE e # b
            BY <3>1, <3>3, <2>2
        <3> QED BY <3>2, <3>3
    <2> QED BY <1>2, <2>3, <2>4, <2>5
<1> QED BY <1>3, <1>4

LEMMA BlocksStepKeeps ==
    ASSUME SpareSlot, BlocksIInv, [Next]_vars
    PROVE  BlocksIInv'
<1>1. CASE UNCHANGED vars
    BY <1>1 DEF vars, BlocksIInv, BlocksTypeOK, TableOK, Home, AddedOnce, PinsAreHeld
<1>2. ASSUME NEW b \in Object, EraseBlock(b) PROVE BlocksIInv'
    BY <1>2 DEF EraseBlock, BlocksIInv, BlocksTypeOK, TableOK, Home, AddedOnce, PinsAreHeld
<1>3. ASSUME NEW b \in Object, NewBlock(b) \/ DestroyBlock(b) PROVE BlocksIInv'
    BY <1>3, NewBlockKeeps, DestroyBlockKeeps
<1>4. ASSUME NEW b \in Object, NEW o \in Offset, WriteBlock(b, o) \/ ReadMiss(b, o)
      PROVE  BlocksIInv'
    BY <1>4, WriteBlockKeeps, ReadMissKeeps
<1>5. ASSUME NEW o \in Offset, ReadHit(o) PROVE BlocksIInv'
    BY <1>5, ReadHitKeeps
<1> QED BY <1>1, <1>2, <1>3, <1>4, <1>5 DEF Next

LEMMA BlocksInvariance == Spec /\ []SpareSlot => []BlocksIInv
<1>1. Init => BlocksIInv
    <2> SUFFICES ASSUME Init PROVE BlocksIInv
        OBVIOUS
    <2>1. /\ hash \in Tables /\ Entries(hash) = {} /\ Once(hash)
          /\ Aside(hash, ToSet(queue), Home) /\ Unbroken(hash, Home)
        BY DEF Init, Tables, Entries, Once, Aside, Unbroken
    <2>2. queue = <<>> /\ queue \in Seq(Object) /\ Len(queue) = 0 /\ DOMAIN queue = {}
        BY DEF Init
    <2>3. ToSet(queue) = {} /\ IsInjective(queue)
        BY <2>2 DEF ToSet, IsInjective
    <2>4. BlocksTypeOK
        BY <2>1, <2>2 DEF Init, BlocksTypeOK
    <2>5. AddedOnce /\ PinsAreHeld
        BY <2>1 DEF Init, AddedOnce, PinsAreHeld
    <2>6. TableOK
        BY <2>1, <2>2, <2>3 DEF Init, TableOK
    <2> QED BY <2>4, <2>5, <2>6 DEF BlocksIInv
<1>2. BlocksIInv /\ SpareSlot /\ [Next]_vars => BlocksIInv'
    BY BlocksStepKeeps
<1> QED BY <1>1, <1>2, PTL DEF Spec

(* For every table, cache, set of offsets and number of blocks in memory,  *)
(* while the table has a spare slot: queue, count and references agree,    *)
(* and the table holds what the queue does and beside it only what         *)
(* hashDelete could not find, which wraps round the table's end            *)
(* (gdbCacheAddBlock, hashDelete, queDelete, gdbDestroyBlock).             *)
THEOREM CacheAgreesAlways == Spec /\ []SpareSlot => []CacheAgrees
<1>1. BlocksIInv => CacheAgrees
    <2> SUFFICES ASSUME BlocksIInv PROVE CacheAgrees
        OBVIOUS
    <2>1. Cached = Entries(hash)
        BY DEF Cached, Entries
    <2>2. /\ BlocksTypeOK /\ TableOK /\ AddedOnce /\ PinsAreHeld
        BY DEF BlocksIInv
    <2>3. \A i \in Slots : hash[i] \in Cached \ ToSet(queue) => Wrapped(i)
        <3> SUFFICES ASSUME NEW i \in Slots, hash[i] \in Entries(hash), hash[i] \notin ToSet(queue)
                     PROVE  i < HASH(offset[hash[i]])
            BY <2>1 DEF Wrapped
        <3>1. hash[i] \in Object /\ hash[i] # NoObject
            BY <2>2 DEF Entries, BlocksTypeOK, Tables
        <3>2. i < Home[hash[i]]
            BY <3>1, <2>2 DEF TableOK, Aside
        <3>3. HASH(offset[hash[i]]) = Home[hash[i]]
            BY <3>1, <2>2, HomeOf DEF BlocksTypeOK
        <3> QED BY <3>2, <3>3
    <2>4. QueueMatchesTable
        BY <2>1, <2>2, <2>3 DEF QueueMatchesTable, TableOK, Once
    <2>5. NoDangling
        BY <2>1, <2>2 DEF NoDangling, TableOK, AddedOnce, BlocksTypeOK
    <2> QED BY <2>2, <2>4, <2>5 DEF CacheAgrees
<1> QED BY <1>1, BlocksInvariance, PTL

(* While the table has a spare slot, the slots between the natural slot of *)
(* an entry and its own are taken, if the entry does not wrap round the    *)
(* table's end (hashInsert, hashDelete).  Of entries that wrap it says     *)
(* nothing: hashDelete cuts them off.                                      *)
THEOREM ClustersUnbrokenAlways == Spec /\ []SpareSlot => []ClustersUnbroken
<1>1. BlocksIInv => ClustersUnbroken
    <2> SUFFICES ASSUME BlocksIInv, NEW i \in Slots, hash[i] # NoObject,
                        NEW j \in HASH(offset[hash[i]]) .. i
                 PROVE  hash[j] # NoObject
        BY DEF ClustersUnbroken
    <2>1. hash[i] \in Object
        BY DEF BlocksIInv, BlocksTypeOK, Tables
    <2>2. HASH(offset[hash[i]]) = Home[hash[i]]
        BY <2>1, HomeOf DEF BlocksIInv, BlocksTypeOK
    <2> QED BY <2>2 DEF BlocksIInv, TableOK, Unbroken
<1> QED BY <1>1, BlocksInvariance, PTL

(* The queue and the references by themselves, whatever becomes of the     *)
(* table.                                                                  *)
QueueTyped ==
    /\ queue \in Seq(Object) /\ refCount \in [Object -> Nat]
    /\ openBlockCount \in Nat

LEMMA QueDeleteTyped ==
    ASSUME NEW q \in Seq(Object), NEW b \in ToSet(q)
    PROVE  QueDelete(q, b) \in Seq(Object)
<1> DEFINE k == CHOOSE i \in DOMAIN q : q[i] = b
<1>1. k \in 1 .. Len(q) /\ Len(q) \in Nat
    BY DEF ToSet
<1>2. QueDelete(q, b) = q \/ QueDelete(q, b) = SubSeq(q, 1, k - 1) \o SubSeq(q, k + 1, Len(q))
    BY DEF QueDelete, RemoveAt
<1> HIDE DEF k
<1> DEFINE a == SubSeq(q, 1, k - 1)
           c == SubSeq(q, k + 1, Len(q))
<1>3. a \in Seq(Object) /\ c \in Seq(Object)
    BY <1>1
<1>4. QueDelete(q, b) = q \/ QueDelete(q, b) = a \o c
    BY <1>2
<1> HIDE DEF a, c
<1>5. a \o c \in Seq(Object)
    BY <1>3
<1> QED BY <1>4, <1>5

LEMMA AddBlockTyped ==
    ASSUME QueueTyped, NEW b \in Object, NEW o, AddBlock(b, o)
    PROVE  queue' \in Seq(Object) /\ openBlockCount' \in Nat
<1> DEFINE v == CHOOSE v \in Victims : TRUE
           drops == openBlockCount >= MaxCache /\ Victims # {}
<1>1. /\ queue' = <<b>> \o (IF drops THEN QueDelete(queue, v) ELSE queue)
      /\ openBlockCount' = openBlockCount + (IF drops THEN 0 ELSE 1)
    BY DEF AddBlock
<1>2. drops => v \in ToSet(queue)
    BY DEF Victims, ToSet
<1> HIDE DEF v, drops
<1>3. (IF drops THEN QueDelete(queue, v) ELSE queue) \in Seq(Object)
    BY <1>2, QueDeleteTyped DEF QueueTyped
<1> QED BY <1>1, <1>3 DEF QueueTyped

LEMMA QueueStaysTyped ==
    ASSUME QueueTyped, [Next]_vars
    PROVE  QueueTyped'
<1>1. CASE UNCHANGED vars
    BY <1>1 DEF vars, QueueTyped
<1>2. ASSUME NEW b \in Object, NewBlock(b) \/ DestroyBlock(b) \/ EraseBlock(b)
      PROVE  QueueTyped'
    <2>1. CASE NewBlock(b)
        BY <2>1 DEF NewBlock, QueueTyped
    <2>2. CASE DestroyBlock(b)
        <3>1. /\ queue' = queue /\ openBlockCount' = openBlockCount
              /\ \/ refCount' = refCount
                 \/ refCount' = [refCount EXCEPT ![b] = IF @ > 0 THEN @ - 1 ELSE 0]
            BY <2>2 DEF DestroyBlock
        <3> QED BY <3>1 DEF QueueTyped
    <2>3. CASE EraseBlock(b)
        BY <2>3 DEF EraseBlock, QueueTyped
    <2> QED BY <1>2, <2>1, <2>2, <2>3
<1>3. ASSUME NEW b \in Object, NEW o \in Offset, WriteBlock(b, o) \/ ReadMiss(b, o)
      PROVE  QueueTyped'
    <2>1. /\ AddBlock(b, o)
          /\ \/ refCount' = [refCount EXCEPT ![b] = @ + 1]
             \/ refCount' = [refCount EXCEPT ![b] = 1]
        BY <1>3 DEF WriteBlock, ReadMiss
    <2>2. queue' \in Seq(Object) /\ openBlockCount' \in Nat
        BY <2>1, AddBlockTyped
    <2>3. refCount' \in [Object -> Nat]
        BY <2>1 DEF QueueTyped
    <2> QED BY <2>2, <2>3 DEF QueueTyped
<1>4. ASSUME NEW o \in Offset, ReadHit(o) PROVE QueueTyped'
    BY <1>4 DEF ReadHit, QueueTyped
<1> QED BY <1>1, <1>2, <1>3, <1>4 DEF Next

(* For every cache, also one whose table is full: a step that adds to a    *)
(* cache at its limit without dropping a block is taken only while every   *)
(* block in the queue is referenced; the search from the end of the queue  *)
(* passes over none that is not (gdbCacheAddBlock).                        *)
THEOREM GrowsOverPinnedAlways == Spec => GrowsOverPinned
<1>1. ASSUME QueueTyped, Next, openBlockCount' > openBlockCount,
             openBlockCount >= MaxCache, NEW b \in ToSet(queue)
      PROVE  refCount[b] > 0
    <2>1. PICK c \in Object, o \in Offset : AddBlock(c, o)
        BY <1>1 DEF Next, NewBlock, DestroyBlock, EraseBlock, ReadHit, WriteBlock, ReadMiss,
                    QueueTyped
    <2>2. Victims = {}
        BY <1>1, <2>1 DEF AddBlock, QueueTyped
    <2>3. queue \in Seq(Object) /\ refCount \in [Object -> Nat] /\ Len(queue) \in Nat
        BY <1>1 DEF QueueTyped
    <2> SUFFICES ASSUME refCount[b] = 0 PROVE FALSE
        BY <2>3, <1>1 DEF ToSet
    <2> DEFINE A == {Len(queue) - i : i \in {i \in 1 .. Len(queue) : refCount[queue[i]] = 0}}
    <2>4. A # {} /\ A \subseteq Nat
        BY <1>1, <2>3 DEF ToSet
    <2>5. PICK a \in A : \A x \in A : a <= x
        <3> HIDE DEF A
        <3> QED BY <2>4, LeastIn
    <2>6. PICK i \in 1 .. Len(queue) : a = Len(queue) - i /\ refCount[queue[i]] = 0
        BY <2>5
    <2>7. ASSUME NEW j \in i + 1 .. Len(queue) PROVE refCount[queue[j]] > 0
        <3>1. j \in 1 .. Len(queue) /\ j > i /\ refCount[queue[j]] \in Nat
            BY <2>3, <2>6
        <3>2. Len(queue) - j \notin A
            <4>1. ~(a <= Len(queue) - j)
                BY <3>1, <2>3, <2>6
            <4> HIDE DEF A
            <4> QED BY <4>1, <2>5
        <3> QED BY <3>1, <3>2
    <2>8. queue[i] \in Victims
        <3>1. /\ i \in DOMAIN queue
              /\ refCount[queue[i]] = 0
              /\ \A j \in i + 1 .. Len(queue) : refCount[queue[j]] > 0
            BY <2>3, <2>6, <2>7
        <3> QED BY <3>1, Zenon DEF Victims
    <2> QED BY <2>2, <2>8
<1>2. QueueTyped /\ [Next]_vars =>
         [openBlockCount' > openBlockCount /\ openBlockCount >= MaxCache =>
             \A b \in ToSet(queue) : refCount[b] > 0]_vars
    BY <1>1
<1>3. Init => QueueTyped
    BY DEF Init, QueueTyped
<1>4. QueueTyped /\ [Next]_vars => QueueTyped'
    BY QueueStaysTyped
<1> QED BY <1>2, <1>3, <1>4, PTL DEF Spec, GrowsOverPinned

-----------------------------------------------------------------------------
(* The hash table of a file.                                               *)

TableData == [type : TableType, size : Nat, data : Datum]
TableEntry == [key : TableKey, type : TableType, size : Nat, data : Datum]
Lists == [0 .. BucketCount - 1 -> Seq(TableEntry)]
Counts == [0 .. BucketCount - 1 -> 0 .. CountMod - 1]
TableBlock == [lists : Lists, counts : Counts]

DataOf(e) == [type |-> e.type, size |-> e.size, data |-> e.data]
OnePerKey(list) == \A i, j \in 1 .. Len(list) : list[i].key = list[j].key => i = j
EveryBucket(lists) == \A h \in 0 .. BucketCount - 1 : OnePerKey(lists[h])
(* A count of eight bits, for n entries.                                   *)
LowPart(c, n) == c \in 0 .. CountMod - 1 /\ \E q \in Nat : n = q * CountMod + c
Counted(lists, cnt) == \A h \in 0 .. BucketCount - 1 : LowPart(cnt[h], Len(lists[h]))

(* What a list gives for a key, said without an index.                     *)
Holds(list, key, r) ==
    \/ \E i \in 1 .. Len(list) : list[i].key = key /\ r = DataOf(list[i])
    \/ (\A i \in 1 .. Len(list) : list[i].key # key) /\ r = Nothing

TableTypeOK ==
    /\ buckets \in Lists /\ counts \in Counts
    /\ tableDirty \in BOOLEAN
    /\ written = <<>> \/ \E block \in TableBlock : written = <<block>>
    /\ table \in {"open", "fallen"}
    /\ meant \in [TableKey -> TableData \cup {Nothing}]
    /\ unsaved \in SUBSET TableKey

TableIInv ==
    /\ TableTypeOK
    /\ EveryBucket(buckets) /\ Counted(buckets, counts)
    /\ \A key \in TableKey : LookupIn(buckets, key) = meant[key]
    /\ \A block \in TableBlock : written = <<block>> =>
           EveryBucket(block.lists) /\ Counted(block.lists, block.counts)
    /\ ~tableDirty => /\ written # <<>>
                      /\ \A key \in TableKey \ unsaved :
                             LookupIn(written[1].lists, key) = meant[key]

LEMMA CountChanges ==
    ASSUME NEW c, NEW n \in Nat, LowPart(c, n)
    PROVE  /\ LowPart((c + 1) % CountMod, n + 1)
           /\ n > 0 => LowPart((c - 1) % CountMod, n - 1)
           /\ n < CountMod => c = n
<1>1. CountMod \in Nat \ {0} /\ c \in 0 .. CountMod - 1
  BY TableAssumption DEF LowPart
<1>2. PICK q \in Nat : n = q * CountMod + c
  BY DEF LowPart
<1>3. LowPart((c + 1) % CountMod, n + 1)
  <2>1. CASE c + 1 < CountMod
    <3>1. (c + 1) % CountMod = c + 1 /\ c + 1 \in 0 .. CountMod - 1
      BY <1>1, <2>1
    <3>2. n + 1 = q * CountMod + (c + 1)
      BY <1>1, <1>2
    <3> QED BY <3>1, <3>2 DEF LowPart
  <2>2. CASE c + 1 = CountMod
    <3>1. (c + 1) % CountMod = 0 /\ 0 \in 0 .. CountMod - 1
      BY <1>1, <2>2
    <3>2. n + 1 = (q + 1) * CountMod + 0
      BY <1>1, <1>2, <2>2
    <3>3. q + 1 \in Nat
      OBVIOUS
    <3> QED BY <3>1, <3>2, <3>3 DEF LowPart
  <2> QED BY <2>1, <2>2, <1>1
<1>4. ASSUME n > 0 PROVE LowPart((c - 1) % CountMod, n - 1)
  <2>1. CASE c > 0
    <3>1. (c - 1) % CountMod = c - 1 /\ c - 1 \in 0 .. CountMod - 1
      BY <1>1, <2>1
    <3>2. n - 1 = q * CountMod + (c - 1)
      BY <1>1, <1>2
    <3> QED BY <3>1, <3>2 DEF LowPart
  <2>2. CASE c = 0
    <3>1. (c - 1) % CountMod = CountMod - 1 /\ CountMod - 1 \in 0 .. CountMod - 1
      BY <1>1, <2>2
    <3>2. q # 0
      BY <1>2, <1>4, <2>2, <1>1
    <3>3. n - 1 = (q - 1) * CountMod + (CountMod - 1)
      BY <1>1, <1>2, <2>2
    <3>4. q - 1 \in Nat
      BY <3>2
    <3> QED BY <3>1, <3>3, <3>4 DEF LowPart
  <2> QED BY <2>1, <2>2, <1>1
<1>5. ASSUME n < CountMod PROVE c = n
  <2>1. CASE q = 0
    BY <2>1, <1>1, <1>2
  <2>2. CASE q >= 1
    <3>1. q * CountMod >= CountMod
      BY <2>2, <1>1
    <3>2. q * CountMod \in Nat
      BY <1>1
    <3> QED BY <3>1, <3>2, <1>1, <1>2, <1>5
  <2> QED BY <2>1, <2>2
<1> QED BY <1>3, <1>4, <1>5

LEMMA HashTyped ==
    ASSUME NEW key \in TableKey
    PROVE  Hash(key) \in 0 .. BucketCount - 1
  BY TableAssumption DEF Hash

LEMMA IndexIs ==
    ASSUME NEW list \in Seq(TableEntry), NEW key
    PROVE  \/ Index(list, key) = 0 /\ \A i \in 1 .. Len(list) : list[i].key # key
           \/ Index(list, key) \in 1 .. Len(list) /\ list[Index(list, key)].key = key
<1> DEFINE A == {i \in 1 .. Len(list) : list[i].key = key}
<1>1. Index(list, key) = IF A # {} THEN Min(A) ELSE 0
  BY DEF Index, SelectInSeq
<1>2. CASE A = {}
  <2>1. Index(list, key) = 0
    BY <1>1, <1>2
  <2> QED BY <2>1, <1>2
<1>3. CASE A # {}
  <2>1. A \subseteq Nat
    OBVIOUS
  <2>2. \E a \in A : \A b \in A : a <= b
    <3> HIDE DEF A
    <3> QED BY <2>1, <1>3, LeastIn
  <2>3. Min(A) \in A
    <3> HIDE DEF A
    <3> QED BY <2>2 DEF Min
  <2>4. Index(list, key) \in A
    BY <2>3, <1>1, <1>3
  <2> QED BY <2>4
<1> QED BY <1>2, <1>3

LEMMA LookupHolds ==
    ASSUME NEW lists \in Lists, EveryBucket(lists), NEW key \in TableKey
    PROVE  \A r : LookupIn(lists, key) = r <=> Holds(lists[Hash(key)], key, r)
<1> SUFFICES ASSUME NEW r PROVE LookupIn(lists, key) = r <=> Holds(lists[Hash(key)], key, r)
  OBVIOUS
<1> DEFINE L == lists[Hash(key)]
<1>1. L \in Seq(TableEntry) /\ OnePerKey(L)
  BY HashTyped DEF Lists, EveryBucket
<1>2. LookupIn(lists, key) = IF Index(L, key) = 0 THEN Nothing ELSE DataOf(L[Index(L, key)])
  BY DEF LookupIn, DataOf
<1> HIDE DEF L
<1>3. ASSUME Index(L, key) = 0, \A i \in 1 .. Len(L) : L[i].key # key
      PROVE  LookupIn(lists, key) = r <=> Holds(L, key, r)
  BY <1>2, <1>3 DEF Holds
<1>4. ASSUME Index(L, key) \in 1 .. Len(L), L[Index(L, key)].key = key
      PROVE  LookupIn(lists, key) = r <=> Holds(L, key, r)
  <2> DEFINE j == Index(L, key)
  <2> HIDE DEF j
  <2>1. j \in 1 .. Len(L) /\ L[j].key = key /\ j # 0
    BY <1>4, <1>1 DEF j
  <2>2. LookupIn(lists, key) = DataOf(L[j])
    BY <1>2, <2>1 DEF j
  <2>3. \A i \in 1 .. Len(L) : L[i].key = key => i = j
    BY <1>1, <2>1 DEF OnePerKey
  <2> QED BY <2>1, <2>2, <2>3 DEF Holds
<1>5. LookupIn(lists, key) = r <=> Holds(L, key, r)
  BY <1>1, <1>3, <1>4, IndexIs
<1> QED BY <1>5 DEF L

(* A list whose entry for a key is written anew, that gets one in front,   *)
(* and that loses one.                                                     *)
LEMMA PutInPlace ==
    ASSUME NEW list \in Seq(TableEntry), OnePerKey(list), NEW key, NEW e \in TableEntry,
           e.key = key, Index(list, key) # 0
    PROVE  LET new == [list EXCEPT ![Index(list, key)] = e]
           IN  /\ new \in Seq(TableEntry) /\ OnePerKey(new) /\ Len(new) = Len(list)
               /\ Holds(new, key, DataOf(e))
               /\ \A k, r : k # key /\ Holds(list, k, r) => Holds(new, k, r)
<1> DEFINE i == Index(list, key)
           new == [list EXCEPT ![i] = e]
<1>1. i \in 1 .. Len(list) /\ list[i].key = key
  BY IndexIs
<1> HIDE DEF i
<1>2. new \in Seq(TableEntry) /\ Len(new) = Len(list)
      /\ \A j \in 1 .. Len(list) : new[j] = IF j = i THEN e ELSE list[j]
  BY <1>1
<1>3. \A j \in 1 .. Len(list) : new[j].key = list[j].key
  BY <1>1, <1>2
<1> HIDE DEF new
<1>4. OnePerKey(new)
  BY <1>2, <1>3 DEF OnePerKey
<1>5. Holds(new, key, DataOf(e))
  BY <1>1, <1>2 DEF Holds
<1>6. ASSUME NEW k, NEW r, k # key, Holds(list, k, r) PROVE Holds(new, k, r)
  <2>1. CASE \E j \in 1 .. Len(list) : list[j].key = k /\ r = DataOf(list[j])
    <3>1. PICK j \in 1 .. Len(list) : list[j].key = k /\ r = DataOf(list[j])
      BY <2>1
    <3>2. new[j] = list[j]
      BY <3>1, <1>1, <1>2, <1>6
    <3> QED BY <3>1, <3>2, <1>2 DEF Holds
  <2>2. CASE (\A j \in 1 .. Len(list) : list[j].key # k) /\ r = Nothing
    BY <2>2, <1>2, <1>3 DEF Holds
  <2> QED BY <1>6, <2>1, <2>2 DEF Holds
<1> QED BY <1>2, <1>4, <1>5, <1>6 DEF new, i

LEMMA PutInFront ==
    ASSUME NEW list \in Seq(TableEntry), OnePerKey(list), NEW key, NEW e \in TableEntry,
           e.key = key, Index(list, key) = 0
    PROVE  LET new == <<e>> \o list
           IN  /\ new \in Seq(TableEntry) /\ OnePerKey(new) /\ Len(new) = Len(list) + 1
               /\ Holds(new, key, DataOf(e))
               /\ \A k, r : k # key /\ Holds(list, k, r) => Holds(new, k, r)
<1> DEFINE new == <<e>> \o list
<1>1. \A i \in 1 .. Len(list) : list[i].key # key
  BY IndexIs
<1>2. /\ new \in Seq(TableEntry) /\ Len(new) = Len(list) + 1 /\ new[1] = e
      /\ \A j \in 2 .. Len(list) + 1 : new[j] = list[j - 1]
      /\ \A j \in 1 .. Len(list) : new[j + 1] = list[j]
      /\ Len(list) \in Nat
  OBVIOUS
<1> HIDE DEF new
<1>3. \A j \in 2 .. Len(new) : new[j].key # key /\ new[1].key = key
  <2>1. \A j \in 2 .. Len(new) : j - 1 \in 1 .. Len(list) /\ new[j] = list[j - 1]
    BY <1>2
  <2> QED BY <2>1, <1>1, <1>2
<1>4. OnePerKey(new)
  <2> SUFFICES ASSUME NEW i \in 1 .. Len(new), NEW j \in 1 .. Len(new), new[i].key = new[j].key
               PROVE  i = j
    BY DEF OnePerKey
  <2>1. CASE i = 1 \/ j = 1
    <3>1. i \in 2 .. Len(new) \/ j \in 2 .. Len(new) \/ i = j
      BY <2>1, <1>2
    <3> QED BY <3>1, <2>1, <1>3
  <2>2. CASE i # 1 /\ j # 1
    <3>1. i \in 2 .. Len(list) + 1 /\ j \in 2 .. Len(list) + 1
          /\ i - 1 \in 1 .. Len(list) /\ j - 1 \in 1 .. Len(list)
      BY <2>2, <1>2
    <3>2. list[i - 1].key = list[j - 1].key
      BY <3>1, <1>2
    <3>3. i - 1 = j - 1
      BY <3>1, <3>2 DEF OnePerKey
    <3> QED BY <3>1, <3>3
  <2> QED BY <2>1, <2>2
<1>5. Holds(new, key, DataOf(e))
  BY <1>2 DEF Holds
<1>6. ASSUME NEW k, NEW r, k # key, Holds(list, k, r) PROVE Holds(new, k, r)
  <2>1. CASE \E j \in 1 .. Len(list) : list[j].key = k /\ r = DataOf(list[j])
    <3>1. PICK j \in 1 .. Len(list) : list[j].key = k /\ r = DataOf(list[j])
      BY <2>1
    <3>2. new[j + 1] = list[j] /\ j + 1 \in 1 .. Len(new)
      BY <3>1, <1>2
    <3> QED BY <3>1, <3>2 DEF Holds
  <2>2. CASE (\A j \in 1 .. Len(list) : list[j].key # k) /\ r = Nothing
    <3>1. \A j \in 1 .. Len(new) : j = 1 \/ (j \in 2 .. Len(list) + 1 /\ j - 1 \in 1 .. Len(list))
      BY <1>2
    <3>2. \A j \in 1 .. Len(new) : new[j].key # k
      BY <3>1, <2>2, <1>2, <1>6
    <3> QED BY <3>2, <2>2 DEF Holds
  <2> QED BY <1>6, <2>1, <2>2 DEF Holds
<1> QED BY <1>2, <1>4, <1>5, <1>6 DEF new

LEMMA TakeOut ==
    ASSUME NEW list \in Seq(TableEntry), OnePerKey(list), NEW key, Index(list, key) > 1
    PROVE  LET new == RemoveAt(list, Index(list, key))
           IN  /\ new \in Seq(TableEntry) /\ OnePerKey(new) /\ Len(new) = Len(list) - 1
               /\ Holds(new, key, Nothing)
               /\ \A k, r : k # key /\ Holds(list, k, r) => Holds(new, k, r)
<1> DEFINE i == Index(list, key)
           new == RemoveAt(list, i)
           From(j) == IF j < i THEN j ELSE j + 1
<1>1. i \in 1 .. Len(list) /\ list[i].key = key /\ Len(list) \in Nat
  BY IndexIs
<1> HIDE DEF i
<1>2. /\ new \in Seq(TableEntry) /\ Len(new) = Len(list) - 1
      /\ \A j \in 1 .. Len(list) - 1 : new[j] = list[From(j)]
  <2>1. new = SubSeq(list, 1, i - 1) \o SubSeq(list, i + 1, Len(list))
    BY DEF RemoveAt
  <2>2. /\ SubSeq(list, 1, i - 1) \in Seq(TableEntry)
        /\ SubSeq(list, i + 1, Len(list)) \in Seq(TableEntry)
        /\ Len(SubSeq(list, 1, i - 1)) = i - 1
        /\ Len(SubSeq(list, i + 1, Len(list))) = Len(list) - i
        /\ \A j \in 1 .. i - 1 : SubSeq(list, 1, i - 1)[j] = list[j]
        /\ \A j \in 1 .. Len(list) - i : SubSeq(list, i + 1, Len(list))[j] = list[i + j]
    BY <1>1
  <2> DEFINE a == SubSeq(list, 1, i - 1)
             b == SubSeq(list, i + 1, Len(list))
  <2>3. /\ a \in Seq(TableEntry) /\ b \in Seq(TableEntry)
        /\ Len(a) = i - 1 /\ Len(b) = Len(list) - i
        /\ \A j \in 1 .. i - 1 : a[j] = list[j]
        /\ \A j \in 1 .. Len(list) - i : b[j] = list[i + j]
        /\ new = a \o b
    BY <2>1, <2>2
  <2> HIDE DEF a, b, new
  <2>4. /\ new \in Seq(TableEntry) /\ Len(new) = Len(list) - 1
        /\ \A j \in 1 .. i - 1 : new[j] = a[j]
        /\ \A j \in i .. Len(list) - 1 : new[j] = b[j - (i - 1)]
    <3>1. /\ new \in Seq(TableEntry) /\ Len(new) = Len(a) + Len(b)
          /\ \A j \in 1 .. Len(a) + Len(b) :
                 new[j] = IF j <= Len(a) THEN a[j] ELSE b[j - Len(a)]
      <4>1. a \in Seq(TableEntry) /\ b \in Seq(TableEntry) /\ new = a \o b
        BY <2>3
      <4> QED BY <4>1
    <3>2. Len(a) + Len(b) = Len(list) - 1 /\ Len(a) = i - 1
      BY <2>3, <1>1
    <3>3. /\ \A j \in 1 .. i - 1 : j \in 1 .. Len(list) - 1 /\ j <= i - 1
          /\ \A j \in i .. Len(list) - 1 : j \in 1 .. Len(list) - 1 /\ ~(j <= i - 1)
      BY <1>1
    <3> QED BY <3>1, <3>2, <3>3
  <2>5. ASSUME NEW j \in 1 .. Len(list) - 1 PROVE new[j] = list[From(j)]
    <3>1. CASE j < i
      <4>1. j \in 1 .. i - 1
        BY <3>1, <1>1
      <4> QED BY <4>1, <3>1, <2>3, <2>4
    <3>2. CASE ~(j < i)
      <4>1. j \in i .. Len(list) - 1 /\ j - (i - 1) \in 1 .. Len(list) - i
            /\ i + (j - (i - 1)) = j + 1
        BY <3>2, <1>1
      <4> QED BY <4>1, <3>2, <2>3, <2>4
    <3> QED BY <3>1, <3>2
  <2> QED BY <2>4, <2>5
<1> HIDE DEF new
<1>3. \A j \in 1 .. Len(list) - 1 : From(j) \in 1 .. Len(list) /\ From(j) # i
  BY <1>1
<1>4. \A j, k \in 1 .. Len(list) - 1 : From(j) = From(k) => j = k
  BY <1>1
<1>5. \A m \in 1 .. Len(list) : m # i => \E j \in 1 .. Len(list) - 1 : From(j) = m
  <2> SUFFICES ASSUME NEW m \in 1 .. Len(list), m # i
               PROVE  \E j \in 1 .. Len(list) - 1 : From(j) = m
    OBVIOUS
  <2>1. CASE m < i
    <3>1. m \in 1 .. Len(list) - 1 /\ From(m) = m
      BY <2>1, <1>1
    <3> QED BY <3>1
  <2>2. CASE m > i
    <3>1. m - 1 \in 1 .. Len(list) - 1 /\ From(m - 1) = m
      BY <2>2, <1>1
    <3> QED BY <3>1
  <2> QED BY <2>1, <2>2, <1>1
<1> HIDE DEF From
<1>6. OnePerKey(new)
  <2> SUFFICES ASSUME NEW j \in 1 .. Len(new), NEW k \in 1 .. Len(new), new[j].key = new[k].key
               PROVE  j = k
    BY DEF OnePerKey
  <2>1. j \in 1 .. Len(list) - 1 /\ k \in 1 .. Len(list) - 1
    BY <1>2
  <2>2. list[From(j)].key = list[From(k)].key
    BY <2>1, <1>2
  <2>3. From(j) = From(k)
    BY <2>1, <2>2, <1>3 DEF OnePerKey
  <2> QED BY <2>1, <2>3, <1>4
<1>7. Holds(new, key, Nothing)
  <2>1. \A m \in 1 .. Len(list) : m # i => list[m].key # key
    BY <1>1 DEF OnePerKey
  <2> QED BY <2>1, <1>2, <1>3 DEF Holds
<1>8. ASSUME NEW k, NEW r, k # key, Holds(list, k, r) PROVE Holds(new, k, r)
  <2>1. CASE \E j \in 1 .. Len(list) : list[j].key = k /\ r = DataOf(list[j])
    <3>1. PICK m \in 1 .. Len(list) : list[m].key = k /\ r = DataOf(list[m])
      BY <2>1
    <3>2. m # i
      BY <3>1, <1>1, <1>8
    <3>3. PICK j \in 1 .. Len(list) - 1 : From(j) = m
      BY <3>2, <1>5
    <3> QED BY <3>1, <3>3, <1>2 DEF Holds
  <2>2. CASE (\A j \in 1 .. Len(list) : list[j].key # k) /\ r = Nothing
    BY <2>2, <1>2, <1>3 DEF Holds
  <2> QED BY <1>8, <2>1, <2>2 DEF Holds
<1> QED BY <1>2, <1>6, <1>7, <1>8 DEF new, i

-----------------------------------------------------------------------------
LEMMA ListSize ==
    ASSUME NEW list \in Seq(TableEntry)
    PROVE  FoldSeq(LAMBDA b, n : n + EntrySize(b), 0, list) \in Nat
<1> DEFINE S == DOMAIN list
           pick == [T \in SUBSET S |-> CHOOSE x \in T : TRUE]
           step == [p \in S \X Nat |-> p[2] + EntrySize(list[p[1]])]
           it == CHOOSE it : it = [T \in SUBSET S |->
                    IF T = {} THEN 0
                    ELSE it[T \ {CHOOSE x \in T : TRUE}] + EntrySize(list[CHOOSE x \in T : TRUE])]
<1>1. FoldSeq(LAMBDA b, n : n + EntrySize(b), 0, list) = it[S]
  BY Zenon DEF FoldSeq, FoldFunction, FoldFunctionOnSet, MapThenFoldSet
<1>2. IsFiniteSet(S) /\ Picks(pick, S)
  <2>1. S = 1 .. Len(list) /\ Len(list) \in Nat
    OBVIOUS
  <2>2. IsFiniteSet(S)
    BY <2>1, FS_Interval
  <2> QED BY <2>2, Zenon DEF Picks
<1>3. \A x \in S : EntrySize(list[x]) \in Nat
  <2> SUFFICES ASSUME NEW x \in S PROVE EntrySize(list[x]) \in Nat
    OBVIOUS
  <2>1. list[x] \in TableEntry
    OBVIOUS
  <2> QED BY <2>1 DEF EntrySize, TableEntry
<1>4. step \in [S \X Nat -> Nat]
  <2> SUFFICES ASSUME NEW p \in S \X Nat PROVE p[2] + EntrySize(list[p[1]]) \in Nat
    OBVIOUS
  <2>1. EntrySize(list[p[1]]) \in Nat /\ p[2] \in Nat
    BY <1>3
  <2> QED BY <2>1
<1> DEFINE Body(g) == [T \in SUBSET S |->
                    IF T = {} THEN 0
                    ELSE g[T \ {CHOOSE x \in T : TRUE}] + EntrySize(list[CHOOSE x \in T : TRUE])]
<1> HIDE DEF S
<1>5. ASSUME NEW g \in [SUBSET S -> Nat] PROVE FoldBody(g, S, 0, pick, step) = Body(g)
  <2>1. ASSUME NEW T \in SUBSET S, T # {}
        PROVE  step[<<pick[T], g[T \ {pick[T]}]>>]
                  = g[T \ {CHOOSE x \in T : TRUE}] + EntrySize(list[CHOOSE x \in T : TRUE])
    <3>1. pick[T] = CHOOSE x \in T : TRUE
      OBVIOUS
    <3>2. pick[T] \in S /\ g[T \ {pick[T]}] \in Nat
      BY <2>1, <1>2 DEF Picks
    <3>3. \A x \in S, n \in Nat : step[<<x, n>>] = n + EntrySize(list[x])
      OBVIOUS
    <3> HIDE DEF step, pick
    <3>4. step[<<pick[T], g[T \ {pick[T]}]>>] = g[T \ {pick[T]}] + EntrySize(list[pick[T]])
      BY <3>2, <3>3
    <3> QED BY <3>1, <3>4
  <2> HIDE DEF pick, step
  <2> QED BY <2>1 DEF FoldBody
<1>6. \E g \in [SUBSET S -> Nat] : g = Body(g)
  <2> HIDE DEF pick, step, Body
  <2>1. PICK g \in [SUBSET S -> Nat] : g = FoldBody(g, S, 0, pick, step)
    <3>1. HasFold(Nat, S, 0, pick, step)
      BY <1>2, <1>4, FoldExists
    <3> QED BY <3>1 DEF HasFold
  <2> QED BY <2>1, <1>5
<1>7. it = Body(it)
  <2>1. it = CHOOSE g : g = Body(g)
    BY Zenon
  <2> HIDE DEF it, Body
  <2> QED BY <2>1, <1>6
<1> DEFINE G == {T \in SUBSET S : it[T] \in Nat}
<1> HIDE DEF it
<1>8. {} \in G
  BY <1>7
<1>9. \A T \in SUBSET S : T # {} /\ T \ {pick[T]} \in G => T \in G
  <2> SUFFICES ASSUME NEW T \in SUBSET S, T # {}, T \ {pick[T]} \in G PROVE T \in G
    OBVIOUS
  <2>1. pick[T] = CHOOSE x \in T : TRUE
    OBVIOUS
  <2>2. pick[T] \in S
    BY <1>2 DEF Picks
  <2>3. it[T] = it[T \ {pick[T]}] + EntrySize(list[pick[T]])
    BY <1>7, <2>1
  <2> QED BY <2>2, <2>3, <1>3
<1>10. S \in G
  <2> HIDE DEF G, pick
  <2> QED BY <1>2, <1>8, <1>9, PickInduction
<1> QED BY <1>1, <1>10

LEMMA SumTyped ==
    ASSUME NEW I, IsFiniteSet(I), NEW f \in [I -> Nat]
    PROVE  FoldFunction(+, 0, f) \in Nat
<1> DEFINE S == DOMAIN f
           pick == [T \in SUBSET S |-> CHOOSE x \in T : TRUE]
           step == [p \in S \X Nat |-> f[p[1]] + p[2]]
           it == CHOOSE it : it = [T \in SUBSET S |->
                    IF T = {} THEN 0
                    ELSE f[CHOOSE x \in T : TRUE] + it[T \ {CHOOSE x \in T : TRUE}]]
<1>1. FoldFunction(+, 0, f) = it[S]
  BY Zenon DEF FoldFunction, FoldFunctionOnSet, MapThenFoldSet
<1>2. IsFiniteSet(S) /\ Picks(pick, S)
  <2>1. IsFiniteSet(S)
    OBVIOUS
  <2> QED BY <2>1, Zenon DEF Picks
<1>3. \A x \in S : f[x] \in Nat
  OBVIOUS
<1>4. step \in [S \X Nat -> Nat]
  <2> SUFFICES ASSUME NEW p \in S \X Nat PROVE f[p[1]] + p[2] \in Nat
    OBVIOUS
  <2>1. f[p[1]] \in Nat /\ p[2] \in Nat
    BY <1>3
  <2> QED BY <2>1
<1> DEFINE Body(g) == [T \in SUBSET S |->
                    IF T = {} THEN 0
                    ELSE f[CHOOSE x \in T : TRUE] + g[T \ {CHOOSE x \in T : TRUE}]]
<1> HIDE DEF S
<1>5. ASSUME NEW g \in [SUBSET S -> Nat] PROVE FoldBody(g, S, 0, pick, step) = Body(g)
  <2>1. ASSUME NEW T \in SUBSET S, T # {}
        PROVE  step[<<pick[T], g[T \ {pick[T]}]>>]
                  = f[CHOOSE x \in T : TRUE] + g[T \ {CHOOSE x \in T : TRUE}]
    <3>1. pick[T] = CHOOSE x \in T : TRUE
      OBVIOUS
    <3>2. pick[T] \in S /\ g[T \ {pick[T]}] \in Nat
      BY <2>1, <1>2 DEF Picks
    <3>3. \A x \in S, n \in Nat : step[<<x, n>>] = f[x] + n
      OBVIOUS
    <3> HIDE DEF step, pick
    <3>4. step[<<pick[T], g[T \ {pick[T]}]>>] = f[pick[T]] + g[T \ {pick[T]}]
      BY <3>2, <3>3
    <3> QED BY <3>1, <3>4
  <2> HIDE DEF pick, step
  <2> QED BY <2>1 DEF FoldBody
<1>6. \E g \in [SUBSET S -> Nat] : g = Body(g)
  <2> HIDE DEF pick, step, Body
  <2>1. PICK g \in [SUBSET S -> Nat] : g = FoldBody(g, S, 0, pick, step)
    <3>1. HasFold(Nat, S, 0, pick, step)
      BY <1>2, <1>4, FoldExists
    <3> QED BY <3>1 DEF HasFold
  <2> QED BY <2>1, <1>5
<1>7. it = Body(it)
  <2>1. it = CHOOSE g : g = Body(g)
    BY Zenon
  <2> HIDE DEF it, Body
  <2> QED BY <2>1, <1>6
<1> DEFINE G == {T \in SUBSET S : it[T] \in Nat}
<1> HIDE DEF it
<1>8. {} \in G
  BY <1>7
<1>9. \A T \in SUBSET S : T # {} /\ T \ {pick[T]} \in G => T \in G
  <2> SUFFICES ASSUME NEW T \in SUBSET S, T # {}, T \ {pick[T]} \in G PROVE T \in G
    OBVIOUS
  <2>1. pick[T] = CHOOSE x \in T : TRUE
    OBVIOUS
  <2>2. pick[T] \in S
    BY <1>2 DEF Picks
  <2>3. it[T] = f[pick[T]] + it[T \ {pick[T]}]
    BY <1>7, <2>1
  <2> QED BY <2>2, <2>3, <1>3
<1>10. S \in G
  <2> HIDE DEF G, pick
  <2> QED BY <1>2, <1>8, <1>9, PickInduction
<1> QED BY <1>1, <1>10

LEMMA TakenIs ==
    ASSUME NEW lists \in Lists
    PROVE  Taken(lists) \in Nat /\ Taken(lists) - 3 \in Nat
<1> DEFINE f == [h \in DOMAIN lists |-> FoldSeq(LAMBDA b, n : n + EntrySize(b), 0, lists[h])]
<1>1. IsFiniteSet(0 .. BucketCount - 1) /\ BucketCount \in Nat
  BY FS_Interval, TableAssumption
<1>2. DOMAIN lists = 0 .. BucketCount - 1 /\ \A h \in DOMAIN lists : lists[h] \in Seq(TableEntry)
  BY DEF Lists
<1>3. \A h \in DOMAIN lists : FoldSeq(LAMBDA b, n : n + EntrySize(b), 0, lists[h]) \in Nat
  BY <1>2, ListSize
<1>4. f \in [0 .. BucketCount - 1 -> Nat]
  BY <1>2, <1>3
<1>5. Taken(lists) = 3 + BucketCount + FoldFunction(+, 0, f)
  BY DEF Taken
<1> HIDE DEF f
<1>6. FoldFunction(+, 0, f) \in Nat
  BY <1>1, <1>4, SumTyped
<1>7. PICK n \in Nat : Taken(lists) = 3 + BucketCount + n
  BY <1>5, <1>6, Zenon
<1> QED BY <1>1, <1>7

LEMMA BlockWhole ==
    ASSUME NEW block \in TableBlock, Counted(block.lists, block.counts),
           \A h \in 0 .. BucketCount - 1 : Len(block.lists[h]) < CountMod,
           Taken(block.lists) < SizeMod
    PROVE  Legible(block)
<1>1. /\ block.lists \in Lists /\ DOMAIN block.lists = 0 .. BucketCount - 1
      /\ \A h \in 0 .. BucketCount - 1 : Len(block.lists[h]) \in Nat
  BY DEF TableBlock, Lists
<1>2. \A h \in DOMAIN block.lists : block.counts[h] = Len(block.lists[h])
  <2> SUFFICES ASSUME NEW h \in 0 .. BucketCount - 1
               PROVE  block.counts[h] = Len(block.lists[h])
    BY <1>1
  <2>1. LowPart(block.counts[h], Len(block.lists[h]))
    BY DEF Counted
  <2> QED BY <2>1, <1>1, CountChanges
<1>3. Given(block.lists) = Taken(block.lists)
  <2> DEFINE n == Taken(block.lists)
  <2>1. n \in Nat /\ n - 3 \in Nat
    BY <1>1, TakenIs
  <2>2. n < SizeMod
    OBVIOUS
  <2>3. Given(block.lists) = (3 + ((n - 3) % SizeMod)) % SizeMod
    BY DEF Given
  <2> HIDE DEF n
  <2>4. ASSUME NEW m \in Nat, m < SizeMod PROVE m % SizeMod = m
    <3>1. SizeMod \in Nat \ {0}
      BY TableAssumption
    <3> QED BY <3>1, <2>4
  <2>5. n - 3 < SizeMod
    <3>1. SizeMod \in Nat
      BY TableAssumption
    <3> QED BY <3>1, <2>1, <2>2
  <2>6. (n - 3) % SizeMod = n - 3
    BY <2>1, <2>5, <2>4
  <2>7. Given(block.lists) = n % SizeMod
    <3>1. 3 + (n - 3) = n
      BY <2>1
    <3> QED BY <2>3, <2>6, <3>1
  <2>8. n % SizeMod = n
    BY <2>1, <2>2, <2>4
  <2>9. Given(block.lists) = n
    BY <2>7, <2>8
  <2> QED BY <2>9 DEF n
<1> QED BY <1>2, <1>3 DEF Legible

LEMMA CountsSet ==
    ASSUME NEW lists \in Lists, NEW cnt \in Counts, Counted(lists, cnt),
           NEW h \in 0 .. BucketCount - 1, NEW new \in Lists, NEW c, LowPart(c, Len(new[h])),
           \A g \in 0 .. BucketCount - 1 : g # h => new[g] = lists[g]
    PROVE  /\ [cnt EXCEPT ![h] = c] \in Counts
           /\ Counted(new, [cnt EXCEPT ![h] = c])
<1>1. c \in 0 .. CountMod - 1 /\ DOMAIN cnt = 0 .. BucketCount - 1
  BY DEF LowPart, Counts
<1> DEFINE now == [cnt EXCEPT ![h] = c]
<1>2. now \in Counts
  BY <1>1 DEF Counts
<1>3. \A g \in 0 .. BucketCount - 1 : now[g] = IF g = h THEN c ELSE cnt[g]
  BY <1>1
<1> HIDE DEF now
<1>4. Counted(new, now)
  BY <1>3 DEF Counted
<1> QED BY <1>2, <1>4 DEF now

(* The whole state: adding, removing, writing and reading.                 *)
LEMMA AddKeeps ==
    ASSUME TableIInv, NEW key \in TableKey, NEW type \in TableType, NEW size \in RawSize,
           NEW data \in Datum, Add(key, type, size, data)
    PROVE  TableIInv'
<1> DEFINE h == Hash(key)
           e == [key |-> key, type |-> type, size |-> SizeOf(type, size), data |-> data]
           new == IF Index(buckets[h], key) = 0 THEN <<e>> \o buckets[h]
                  ELSE [buckets[h] EXCEPT ![Index(buckets[h], key)] = e]
<1>1. /\ h \in 0 .. BucketCount - 1 /\ e \in TableEntry /\ e.key = key
      /\ buckets[h] \in Seq(TableEntry) /\ OnePerKey(buckets[h])
      /\ BucketCount \in Nat /\ CountMod \in Nat \ {0}
  <2>1. SizeOf(type, size) \in Nat
    BY TableAssumption DEF SizeOf
  <2> QED BY <2>1, HashTyped, TableAssumption
          DEF TableIInv, TableTypeOK, Lists, EveryBucket, TableEntry
<1>2. /\ buckets' = [buckets EXCEPT ![h] = new]
      /\ counts' = IF Index(buckets[h], key) = 0
                   THEN [counts EXCEPT ![h] = (@ + 1) % CountMod] ELSE counts
      /\ tableDirty' = TRUE
      /\ meant' = [meant EXCEPT ![key] = DataOf(e)]
      /\ unsaved' = unsaved \ {key} /\ UNCHANGED <<written, table>>
  BY DEF Add, htAdd, DataOf
<1> HIDE DEF h, e
<1>3. /\ new \in Seq(TableEntry) /\ OnePerKey(new)
      /\ Len(new) = IF Index(buckets[h], key) = 0 THEN Len(buckets[h]) + 1 ELSE Len(buckets[h])
      /\ Holds(new, key, DataOf(e))
      /\ \A k, r : k # key /\ Holds(buckets[h], k, r) => Holds(new, k, r)
  <2>1. CASE Index(buckets[h], key) = 0
    BY <2>1, <1>1, PutInFront
  <2>2. CASE Index(buckets[h], key) # 0
    BY <2>2, <1>1, PutInPlace
  <2> QED BY <2>1, <2>2
<1> HIDE DEF new
<1>4. /\ buckets \in Lists /\ counts \in Counts /\ EveryBucket(buckets)
      /\ Counted(buckets, counts)
      /\ \A k \in TableKey : LookupIn(buckets, k) = meant[k]
  BY DEF TableIInv, TableTypeOK
<1>5. /\ DOMAIN buckets = 0 .. BucketCount - 1 /\ buckets'[h] = new
      /\ \A g \in 0 .. BucketCount - 1 : g # h => buckets'[g] = buckets[g]
      /\ buckets' \in Lists /\ EveryBucket(buckets')
  BY <1>1, <1>2, <1>3, <1>4 DEF Lists, EveryBucket
<1>6. counts' \in Counts /\ Counted(buckets', counts')
  <2>1. CASE Index(buckets[h], key) = 0
    <3>1. counts' = [counts EXCEPT ![h] = (counts[h] + 1) % CountMod]
      BY <2>1, <1>2
    <3>2. LowPart((counts[h] + 1) % CountMod, Len(new))
      <4>1. LowPart(counts[h], Len(buckets[h])) /\ Len(buckets[h]) \in Nat
            /\ Len(new) = Len(buckets[h]) + 1
        BY <2>1, <1>1, <1>3, <1>4 DEF Counted
      <4> QED BY <4>1, CountChanges
    <3> QED BY <3>1, <3>2, <1>1, <1>4, <1>5, CountsSet
  <2>2. CASE Index(buckets[h], key) # 0
    <3>1. counts' = counts /\ Len(new) = Len(buckets[h])
      BY <2>2, <1>2, <1>3
    <3>2. \A g \in 0 .. BucketCount - 1 : Len(buckets'[g]) = Len(buckets[g])
      BY <3>1, <1>5
    <3> QED BY <3>1, <3>2, <1>4 DEF Counted
  <2> QED BY <2>1, <2>2
<1>7. \A k \in TableKey : LookupIn(buckets', k) = meant'[k]
  <2> SUFFICES ASSUME NEW k \in TableKey PROVE LookupIn(buckets', k) = meant'[k]
    OBVIOUS
  <2>1. Holds(buckets[Hash(k)], k, meant[k])
    BY <1>4, LookupHolds
  <2>2. meant'[k] = IF k = key THEN DataOf(e) ELSE meant[k]
    BY <1>2 DEF TableIInv, TableTypeOK
  <2>3. Holds(buckets'[Hash(k)], k, meant'[k])
    <3>1. CASE k = key
      BY <3>1, <2>2, <1>3, <1>5 DEF h
    <3>2. CASE k # key /\ Hash(k) = h
      BY <3>2, <2>1, <2>2, <1>3, <1>5
    <3>3. CASE k # key /\ Hash(k) # h
      BY <3>3, <2>1, <2>2, <1>5, HashTyped
    <3> QED BY <3>1, <3>2, <3>3
  <2> QED BY <2>3, <1>5, LookupHolds
<1>8. TableTypeOK'
  <2>1. DataOf(e) \in TableData
    BY <1>1 DEF DataOf, TableData, TableEntry
  <2>2. meant' \in [TableKey -> TableData \cup {Nothing}]
    BY <2>1, <1>2 DEF TableIInv, TableTypeOK
  <2>3. tableDirty' \in BOOLEAN
    BY <1>2, Zenon
  <2> QED BY <2>2, <2>3, <1>2, <1>5, <1>6 DEF TableIInv, TableTypeOK
<1>9. tableDirty'
  BY <1>2, Zenon
<1> QED BY <1>2, <1>5, <1>6, <1>7, <1>8, <1>9 DEF TableIInv

LEMMA RemoveKeeps ==
    ASSUME TableIInv, NEW key \in TableKey, htRemove(key)
    PROVE  TableIInv'
<1> DEFINE h == Hash(key)
           i == Index(buckets[h], key)
           new == RemoveAt(buckets[h], i)
<1>1. /\ h \in 0 .. BucketCount - 1
      /\ buckets[h] \in Seq(TableEntry) /\ OnePerKey(buckets[h])
      /\ buckets \in Lists /\ counts \in Counts /\ EveryBucket(buckets)
      /\ Counted(buckets, counts)
      /\ \A k \in TableKey : LookupIn(buckets, k) = meant[k]
  BY HashTyped DEF TableIInv, TableTypeOK, Lists, EveryBucket
<1>2. /\ UNCHANGED <<tableDirty, written>>
      /\ \/ i = 1 /\ table' = "fallen" /\ UNCHANGED <<buckets, counts, meant, unsaved>>
         \/ /\ i > 1
            /\ buckets' = [buckets EXCEPT ![h] = new]
            /\ counts' = [counts EXCEPT ![h] = (counts[h] - 1) % CountMod]
            /\ meant' = [meant EXCEPT ![key] = Nothing]
            /\ unsaved' = unsaved \cup {key}
            /\ UNCHANGED table
  BY DEF htRemove
<1>3. CASE i = 1 /\ table' = "fallen" /\ UNCHANGED <<buckets, counts, meant, unsaved>>
  BY <1>2, <1>3 DEF TableIInv, TableTypeOK
<1>4. CASE /\ i > 1
           /\ buckets' = [buckets EXCEPT ![h] = new]
           /\ counts' = [counts EXCEPT ![h] = (counts[h] - 1) % CountMod]
           /\ meant' = [meant EXCEPT ![key] = Nothing]
           /\ unsaved' = unsaved \cup {key}
           /\ UNCHANGED table
  <2>1. /\ new \in Seq(TableEntry) /\ OnePerKey(new) /\ Len(new) = Len(buckets[h]) - 1
        /\ Holds(new, key, Nothing)
        /\ \A k, r : k # key /\ Holds(buckets[h], k, r) => Holds(new, k, r)
    BY <1>1, <1>4, TakeOut
  <2> HIDE DEF h, i, new
  <2>2. /\ DOMAIN buckets = 0 .. BucketCount - 1 /\ buckets'[h] = new
        /\ \A g \in 0 .. BucketCount - 1 : g # h => buckets'[g] = buckets[g]
        /\ buckets' \in Lists /\ EveryBucket(buckets')
    BY <1>1, <1>4, <2>1 DEF Lists, EveryBucket
  <2>3. LowPart((counts[h] - 1) % CountMod, Len(buckets'[h]))
    <3>1. LowPart(counts[h], Len(buckets[h])) /\ Len(buckets[h]) \in Nat
          /\ Len(new) \in Nat /\ Len(new) = Len(buckets[h]) - 1
      BY <1>1, <2>1 DEF Counted
    <3>2. Len(buckets[h]) > 0
      BY <3>1
    <3>3. LowPart((counts[h] - 1) % CountMod, Len(buckets[h]) - 1)
      BY <3>1, <3>2, CountChanges
    <3> QED BY <3>1, <3>3, <2>2
  <2>4. counts' \in Counts /\ Counted(buckets', counts')
    BY <1>1, <1>4, <2>2, <2>3, CountsSet
  <2>5. \A k \in TableKey : LookupIn(buckets', k) = meant'[k]
                            /\ meant'[k] = IF k = key THEN Nothing ELSE meant[k]
    <3> SUFFICES ASSUME NEW k \in TableKey
                 PROVE  LookupIn(buckets', k) = meant'[k]
                        /\ meant'[k] = IF k = key THEN Nothing ELSE meant[k]
      OBVIOUS
    <3>1. Holds(buckets[Hash(k)], k, meant[k])
      BY <1>1, LookupHolds
    <3>2. meant'[k] = IF k = key THEN Nothing ELSE meant[k]
      BY <1>4 DEF TableIInv, TableTypeOK
    <3>3. Holds(buckets'[Hash(k)], k, meant'[k])
      <4>1. CASE k = key
        BY <4>1, <3>2, <2>1, <2>2 DEF h
      <4>2. CASE k # key /\ Hash(k) = h
        BY <4>2, <3>1, <3>2, <2>1, <2>2
      <4>3. CASE k # key /\ Hash(k) # h
        BY <4>3, <3>1, <3>2, <2>2, HashTyped
      <4> QED BY <4>1, <4>2, <4>3
    <3> QED BY <3>2, <3>3, <2>2, LookupHolds
  <2>6. TableTypeOK'
    <3>1. meant' \in [TableKey -> TableData \cup {Nothing}]
      BY <1>4 DEF TableIInv, TableTypeOK
    <3> QED BY <3>1, <1>2, <1>4, <2>2, <2>4 DEF TableIInv, TableTypeOK
  <2>7. ASSUME ~tableDirty'
        PROVE  /\ written' # <<>>
               /\ \A k \in TableKey \ unsaved' : LookupIn(written'[1].lists, k) = meant'[k]
    <3>1. /\ written # <<>> /\ written' = written
          /\ \A k \in TableKey \ unsaved : LookupIn(written[1].lists, k) = meant[k]
      BY <2>7, <1>2 DEF TableIInv
    <3>2. \A k \in TableKey \ unsaved' : k \in TableKey \ unsaved /\ k # key
      BY <1>4
    <3> QED BY <3>1, <3>2, <2>5
  <2> QED BY <1>2, <2>2, <2>4, <2>5, <2>6, <2>7 DEF TableIInv
<1> QED BY <1>2, <1>3, <1>4

LEMMA WriteTableKeeps ==
    ASSUME TableIInv, WriteTable
    PROVE  TableIInv'
<1> DEFINE now == [lists |-> buckets, counts |-> counts]
<1>1. /\ written' = <<now>> /\ tableDirty' = FALSE /\ unsaved' = {}
      /\ UNCHANGED <<buckets, counts, table, meant>>
  BY Zenon DEF WriteTable
<1>2. now \in TableBlock /\ now.lists = buckets /\ now.counts = counts
  BY DEF TableBlock, TableIInv, TableTypeOK
<1> HIDE DEF now
<1>3. written'[1] = now /\ written' # <<>> /\ \A block : written' = <<block>> => block = now
  BY <1>1
<1>4. TableTypeOK'
  <2>1. tableDirty' \in BOOLEAN
    BY <1>1, Zenon
  <2> QED BY <2>1, <1>1, <1>2 DEF TableIInv, TableTypeOK
<1>5. \A block \in TableBlock : written' = <<block>> =>
          EveryBucket(block.lists) /\ Counted(block.lists, block.counts)
  BY <1>2, <1>3 DEF TableIInv
<1>6. \A k \in TableKey : LookupIn(written'[1].lists, k) = meant'[k]
  BY <1>1, <1>2, <1>3 DEF TableIInv
<1> QED BY <1>1, <1>3, <1>4, <1>5, <1>6 DEF TableIInv

LEMMA ReopenTableKeeps ==
    ASSUME TableIInv, ReopenTable
    PROVE  TableIInv'
<1>1. PICK block \in ToSet(written) :
        /\ buckets' = block.lists /\ counts' = block.counts
        /\ meant' = [key \in TableKey |-> LookupIn(block.lists, key)]
  BY DEF ReopenTable
<1>2. table' = "open" /\ tableDirty' = FALSE /\ unsaved' = {} /\ written' = written
  BY Zenon DEF ReopenTable
<1>3. written = <<block>> /\ block \in TableBlock
  <2>1. written # <<>>
    BY <1>1 DEF ToSet
  <2>2. PICK was \in TableBlock : written = <<was>>
    BY <2>1 DEF TableIInv, TableTypeOK
  <2>3. block = was
    BY <1>1, <2>2 DEF ToSet
  <2> QED BY <2>2, <2>3
<1>4. block.lists \in Lists /\ block.counts \in Counts
  BY <1>3 DEF TableBlock
<1>5. EveryBucket(block.lists) /\ Counted(block.lists, block.counts)
  BY <1>3 DEF TableIInv
<1>6. \A k \in TableKey : LookupIn(block.lists, k) \in TableData \cup {Nothing}
  <2> SUFFICES ASSUME NEW k \in TableKey
               PROVE  LookupIn(block.lists, k) \in TableData \cup {Nothing}
    OBVIOUS
  <2> DEFINE L == block.lists[Hash(k)]
  <2>1. Holds(L, k, LookupIn(block.lists, k)) /\ L \in Seq(TableEntry)
    BY <1>4, <1>5, LookupHolds, HashTyped DEF Lists
  <2>2. \A i \in 1 .. Len(L) : DataOf(L[i]) \in TableData
    <3> SUFFICES ASSUME NEW i \in 1 .. Len(L) PROVE DataOf(L[i]) \in TableData
      OBVIOUS
    <3>1. L[i] \in TableEntry
      BY <2>1
    <3> QED BY <3>1 DEF DataOf, TableEntry, TableData
  <2> QED BY <2>1, <2>2 DEF Holds
<1>7. TableTypeOK'
  <2>1. tableDirty' \in BOOLEAN
    BY <1>2, Zenon
  <2> QED BY <2>1, <1>1, <1>2, <1>4, <1>6 DEF TableIInv, TableTypeOK
<1>8. \A k \in TableKey : meant'[k] = LookupIn(buckets', k)
  BY <1>1
<1>9. written' # <<>> /\ written'[1] = block
  BY <1>2, <1>3
<1> QED BY <1>1, <1>2, <1>5, <1>7, <1>8, <1>9 DEF TableIInv

TableSpec == TableInit /\ [][TableNext]_htvars

(* For every number of buckets and every width of their counts and of the  *)
(* block's size: the table answers as the map its client means it to be,   *)
(* and what is on disk is that map but for removals not yet written        *)
(* (htAdd, htRemove, htWriteBlock, htReadBlock).                           *)
THEOREM TableKeepsAllAlways == TableSpec => []TableKeepsAll
<1>1. TableInit => TableIInv
  <2> SUFFICES ASSUME TableInit PROVE TableIInv
    OBVIOUS
  <2>1. BucketCount \in Nat \ {0} /\ CountMod \in Nat \ {0}
    BY TableAssumption
  <2>2. \A h \in 0 .. BucketCount - 1 : buckets[h] = <<>> /\ counts[h] = 0
    BY DEF TableInit
  <2>3. buckets \in Lists /\ counts \in Counts
    BY <2>1 DEF TableInit, Lists, Counts
  <2>4. EveryBucket(buckets)
    BY <2>2 DEF EveryBucket, OnePerKey
  <2>5. LowPart(0, 0)
    BY <2>1 DEF LowPart
  <2>6. Counted(buckets, counts)
    BY <2>2, <2>5 DEF Counted
  <2>7. \A key \in TableKey : LookupIn(buckets, key) = meant[key]
    <3> SUFFICES ASSUME NEW key \in TableKey PROVE LookupIn(buckets, key) = Nothing
      BY DEF TableInit
    <3>1. buckets[Hash(key)] = <<>>
      BY <2>2, HashTyped
    <3>2. Holds(<<>>, key, Nothing)
      BY DEF Holds
    <3> QED BY <3>1, <3>2, <2>3, <2>4, LookupHolds
  <2>8. tableDirty
    BY Zenon DEF TableInit
  <2>9. TableTypeOK
    BY <2>3, <2>8 DEF TableInit, TableTypeOK
  <2>10. \A block : written # <<block>>
    BY DEF TableInit
  <2> QED BY <2>4, <2>6, <2>7, <2>8, <2>9, <2>10 DEF TableIInv
<1>2. TableIInv /\ [TableNext]_htvars => TableIInv'
  <2> SUFFICES ASSUME TableIInv, [TableNext]_htvars PROVE TableIInv'
    OBVIOUS
  <2>1. CASE UNCHANGED htvars
    BY <2>1 DEF htvars, TableIInv, TableTypeOK
  <2>2. CASE \E key \in TableKey, type \in TableType, size \in RawSize, data \in Datum :
                Add(key, type, size, data)
    BY <2>2, AddKeeps
  <2> QED
    BY <2>1, <2>2, RemoveKeeps, WriteTableKeeps, ReopenTableKeeps DEF TableNext
<1>3. TableIInv => TableKeepsAll
  <2> SUFFICES ASSUME TableIInv PROVE TableIsMap /\ TableOnDisk
    BY DEF TableKeepsAll
  <2>1. TableIsMap
    BY DEF TableIInv, TableIsMap, htGetData, GetTyped
  <2>2. ASSUME table = "open", ~tableDirty
        PROVE  \A key \in TableKey \ unsaved : LookupIn(written[1].lists, key) = meant[key]
    BY <2>2 DEF TableIInv
  <2>3. ASSUME NEW block \in ToSet(written),
               \A h \in DOMAIN buckets : Len(block.lists[h]) < CountMod,
               Taken(block.lists) < SizeMod
        PROVE  Legible(block)
    <3>1. written # <<>>
      BY DEF ToSet
    <3>2. PICK was \in TableBlock : written = <<was>>
      BY <3>1 DEF TableIInv, TableTypeOK
    <3>3. block = was
      BY <3>2 DEF ToSet
    <3>4. block \in TableBlock /\ Counted(block.lists, block.counts)
      BY <3>2, <3>3 DEF TableIInv
    <3>5. DOMAIN buckets = 0 .. BucketCount - 1
      BY DEF TableIInv, TableTypeOK, Lists
    <3> QED BY <3>4, <3>5, <2>3, BlockWhole
  <2>4. TableOnDisk
    <3> HIDE DEF TableOnDisk
    <3> QED BY <2>2, <2>3 DEF TableOnDisk
  <2> QED BY <2>1, <2>4
<1> QED BY <1>1, <1>2, <1>3, PTL DEF TableSpec
=============================================================================
