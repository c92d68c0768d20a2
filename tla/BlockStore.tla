----------------------------- MODULE BlockStore -----------------------------
(***************************************************************************)
(* The block layer of a GDB file (Btree/db_blocks.c, db_blocklist.c and    *)
(* the erase of btree_node.c).                                             *)
(*                                                                         *)
(* A file is cut into units.  Each block type has its own unit size        *)
(* (blockTypeInfo[].multiple); a block owns a chain of units of its type.  *)
(* The first unit holds a header (HeaderSize bytes) and data; every other  *)
(* unit holds the offset of the next one (PtrSize bytes) and data.  Units  *)
(* given back are kept in one list at the front of the file, which is read *)
(* and rewritten as a whole by every operation that reserves or frees.     *)
(*                                                                         *)
(* The list is a set here: gdbReserveBlockChain takes the first entries of *)
(* the right size in list order, and the model lets it take any of them.   *)
(***************************************************************************)
EXTENDS Naturals, Sequences, FiniteSets
LOCAL INSTANCE FiniteSetsExt

CONSTANTS
    Block,          \* in-memory block objects (GdbBlock) a client may hold
    Type,           \* block types
    Multiple,       \* [Type -> Nat]: unit size of each type
    DataSize,       \* [Type -> SUBSET Nat]: sizes a block of the type may serialise to
    HeaderSize,     \* GDB_BLOCK_HEADER_SIZE
    PtrSize,        \* sizeof(offset_t), as the build has it
    AreaStart,      \* first offset behind the file header and the free list
    ListArea,       \* DB_FREE_BLOCK_LIST_SIZE
    CountSize,      \* sizeof(uint32_t), the entry count in front of the list
    EntrySize,      \* sizeof(short) + sizeof(offset_t)
    MaxUnits,       \* bound: units of one chain (an unsigned short in the code)
    MaxEnd,         \* bound: file size
    NoType          \* no block of this name exists

ASSUME TypeAssumption == NoType \notin Type
ASSUME SizeAssumption ==
    /\ HeaderSize \in Nat
    /\ PtrSize \in Nat
    /\ AreaStart \in Nat \ {0}
    /\ MaxUnits \in Nat
    /\ Multiple \in [Type -> Nat]
    /\ \A t \in Type : Multiple[t] > HeaderSize /\ Multiple[t] > PtrSize
    /\ DataSize \in [Type -> SUBSET (Nat \ {0})]

VARIABLES
    end,        \* size of the file
    free,       \* the free list: a set of units
    kind,       \* [Block -> Type \cup {NoType}]
    chain,      \* [Block -> Seq(Nat)]: offsets of the block's units; <<>>: never written
    disk,       \* offset of a unit -> what its first bytes hold on disk
    overrun,    \* the free list was written past the area left for it
    leaked      \* history: bytes of units that no block owns and the list does not have

vars == <<end, free, kind, chain, disk, overrun, leaked>>

Unit(size, offset) == [size |-> size, offset |-> offset]
UnitsOf(b) == {Unit(Multiple[kind[b]], chain[b][i]) : i \in DOMAIN chain[b]}
Overlap(u, v) == u.offset < v.offset + v.size /\ v.offset < u.offset + u.size

Live(b) == kind[b] # NoType /\ chain[b] # <<>>

-----------------------------------------------------------------------------
(* gdbGetNeededBlockCount: the least n whose units hold the data.          *)

Capacity(n, m) == (m - HeaderSize) + (n - 1) * (m - PtrSize)

IsNeededBlockCount(n, dataSize, m) ==
    /\ dataSize <= Capacity(n, m)
    /\ \A k \in 1 .. n - 1 : Capacity(k, m) < dataSize

-----------------------------------------------------------------------------
(* gdbReserveBlockChain: listed units of the size first, the rest at the   *)
(* end of the file, and the result sorted by offset.                       *)

FreeOffsets(m) == {u.offset : u \in {v \in free : v.size = m}}
Fresh(k, m) == {end + j * m : j \in 0 .. k - 1}
Increasing(c) == \A i, j \in DOMAIN c : i < j => c[i] < c[j]

IsReservation(c, fresh, m) ==
    /\ Increasing(c)
    /\ Fresh(fresh, m) \subseteq {c[i] : i \in DOMAIN c}
    /\ fresh > 0 => FreeOffsets(m) \subseteq {c[i] : i \in DOMAIN c}

(* gdbWriteFreeBlockList: the list is written without looking at the room  *)
(* there is for it.                                                        *)
WriteFreeList(list) ==
    /\ free' = list
    /\ overrun' = ~(CountSize + Cardinality(list) * EntrySize <= ListArea)

(* Mutant: the shortened list is not written back.                         *)
ReserveKeepsList(c, fresh, m) ==
    /\ IsReservation(c, fresh, m)
    /\ end + fresh * m <= MaxEnd
    /\ end' = end + fresh * m
    /\ UNCHANGED <<free, overrun>>

(* Mutant: the padding counts units and not bytes.                         *)
ReserveShort(c, fresh, m) ==
    LET taken == {u \in free : u.size = m /\ \E i \in DOMAIN c : c[i] = u.offset}
    IN  /\ IsReservation(c, fresh, m)
        /\ end + fresh <= MaxEnd
        /\ end' = end + fresh
        /\ IF taken = {} THEN UNCHANGED <<free, overrun>>
                         ELSE WriteFreeList(free \ taken)

Reserve(c, fresh, m) ==
    LET taken == {u \in free : u.size = m /\ \E i \in DOMAIN c : c[i] = u.offset}
    IN  /\ IsReservation(c, fresh, m)
        /\ end + fresh * m <= MaxEnd
        /\ end' = end + fresh * m
        /\ IF taken = {} THEN UNCHANGED <<free, overrun>>
                         ELSE WriteFreeList(free \ taken)

-----------------------------------------------------------------------------
(* gdbWriteBlock: header, first unit and overflow units, each with the     *)
(* offset of the unit after it.                                            *)

Next1(c, i) == IF i < Len(c) THEN c[i + 1] ELSE 0

PutOnDisk(c, size) ==
    disk' = [o \in DOMAIN disk \cup {c[i] : i \in DOMAIN c} |->
                IF \E i \in DOMAIN c : c[i] = o
                THEN LET i == CHOOSE i \in DOMAIN c : c[i] = o
                     IN  [size |-> IF i = 1 THEN size ELSE 0, next |-> Next1(c, i)]
                ELSE disk[o]]

(* Mutant: new units in front of the old ones.                             *)
ExtendInFront(b, size, n) ==
    /\ Len(chain[b]) < n
    /\ LET m == Multiple[kind[b]]
           more == n - Len(chain[b])
       IN  \E fresh \in 0 .. more :
              \E c \in [1 .. more -> FreeOffsets(m) \cup Fresh(fresh, m)] :
                 /\ Reserve(c, fresh, m)
                 /\ chain' = [chain EXCEPT ![b] = c \o chain[b]]
                 /\ PutOnDisk(c \o chain[b], size)

(* Mutant: the old units' links are left as they were.                     *)
ExtendUnlinked(b, size, n) ==
    /\ Len(chain[b]) < n
    /\ LET m == Multiple[kind[b]]
           more == n - Len(chain[b])
       IN  \E fresh \in 0 .. more :
              \E c \in [1 .. more -> FreeOffsets(m) \cup Fresh(fresh, m)] :
                 /\ Reserve(c, fresh, m)
                 /\ chain' = [chain EXCEPT ![b] = chain[b] \o c]
                 /\ PutOnDisk(c, size)

(* A block that needs more units than it has: the new ones are appended.   *)
Extend(b, size, n) ==
    /\ Len(chain[b]) < n
    /\ LET m == Multiple[kind[b]]
           more == n - Len(chain[b])
       IN  \E fresh \in 0 .. more :
              \E c \in [1 .. more -> FreeOffsets(m) \cup Fresh(fresh, m)] :
                 /\ Reserve(c, fresh, m)
                 /\ chain' = [chain EXCEPT ![b] = chain[b] \o c]
                 /\ PutOnDisk(chain[b] \o c, size)

(* The block is rewritten in its own units.                                *)
Rewrite(b, size, n) ==
    /\ Len(chain[b]) = n
    /\ PutOnDisk(chain[b], size)
    /\ UNCHANGED <<end, free, chain, overrun>>

(* Mutant: only the unit behind the chain's new end goes to the list.      *)
ShrinkFreesOne(b, size, n) ==
    /\ n < Len(chain[b])
    /\ PutOnDisk(SubSeq(chain[b], 1, n), size)
    /\ chain' = [chain EXCEPT ![b] = SubSeq(chain[b], 1, n)]
    /\ WriteFreeList(free \cup {Unit(Multiple[kind[b]], chain[b][n + 1])})
    /\ UNCHANGED end

(* The block is rewritten in fewer units and the tail goes to the list.    *)
Shrink(b, size, n) ==
    /\ n < Len(chain[b])
    /\ PutOnDisk(SubSeq(chain[b], 1, n), size)
    /\ chain' = [chain EXCEPT ![b] = SubSeq(chain[b], 1, n)]
    /\ WriteFreeList(free \cup {Unit(Multiple[kind[b]], chain[b][i]) :
                                   i \in n + 1 .. Len(chain[b])})
    /\ UNCHANGED end

-----------------------------------------------------------------------------
(* The operations.  Nothing is said of a file whose list was overrun.      *)

(* gdbNewBlock: an object in memory, no room in the file yet.              *)
NewBlock(b, t) ==
    /\ ~overrun
    /\ kind[b] = NoType
    /\ kind' = [kind EXCEPT ![b] = t]
    /\ UNCHANGED <<end, free, chain, disk, overrun, leaked>>

(* gdbWriteBlock: the block is dirty and serialises to size bytes.         *)
WriteBlock(b, size) ==
    /\ ~overrun
    /\ kind[b] # NoType
    /\ size \in DataSize[kind[b]]
    /\ \E n \in 1 .. MaxUnits :
          /\ IsNeededBlockCount(n, size, Multiple[kind[b]])
          /\ Extend(b, size, n) \/ Rewrite(b, size, n) \/ Shrink(b, size, n)
    /\ UNCHANGED <<kind, leaked>>

(* Mutant: the erased object keeps its chain.                              *)
EraseBlockKeepsChain(b) ==
    /\ ~overrun
    /\ Live(b)
    /\ WriteFreeList(free \cup {Unit(Multiple[kind[b]], chain[b][1])})
    /\ kind' = [kind EXCEPT ![b] = NoType]
    /\ UNCHANGED <<end, disk, chain, leaked>>

(* btreeEraseNode and gdbAddTree: gdbFreeBlock gives back the unit at      *)
(* block->offset, which is the first one; any others are lost to the file. *)
(* The object is not used again by a caller that keeps the contract of     *)
(* btreeEraseNode.                                                         *)
EraseBlock(b) ==
    /\ ~overrun
    /\ Live(b)
    /\ WriteFreeList(free \cup {Unit(Multiple[kind[b]], chain[b][1])})
    /\ kind' = [kind EXCEPT ![b] = NoType]
    /\ chain' = [chain EXCEPT ![b] = <<>>]
    /\ leaked' = leaked + (Len(chain[b]) - 1) * Multiple[kind[b]]
    /\ UNCHANGED <<end, disk>>

(* gdbCreate has written the file header and padded the list's area.       *)
Init ==
    /\ end = AreaStart
    /\ free = {}
    /\ kind = [b \in Block |-> NoType]
    /\ chain = [b \in Block |-> <<>>]
    /\ disk = [o \in {} |-> [size |-> 0, next |-> 0]]
    /\ overrun = FALSE
    /\ leaked = 0

Next ==
    \E b \in Block :
       \/ \E t \in Type : NewBlock(b, t)
       \/ \E t \in Type : \E size \in DataSize[t] : WriteBlock(b, size)
       \/ EraseBlock(b)

Spec == Init /\ [][Next]_vars

-----------------------------------------------------------------------------
(* Properties.                                                             *)

(* The variables have their types; a name that stands for no block owns    *)
(* nothing, and a block owns no more units than the bound.                 *)
TypeOK ==
    /\ end \in Nat
    /\ free \subseteq [size : Nat \ {0}, offset : Nat]
    /\ kind \in [Block -> Type \cup {NoType}]
    /\ chain \in [Block -> Seq(Nat)]
    /\ \A b \in Block : Len(chain[b]) <= MaxUnits
    /\ \A b \in Block : kind[b] = NoType => chain[b] = <<>>
    /\ \A o \in DOMAIN disk : disk[o] \in [size : Nat, next : Nat]
    /\ overrun \in BOOLEAN

InFile(u) == AreaStart <= u.offset /\ u.offset + u.size <= end

(* Every unit of a block and every listed unit lies behind the free list   *)
(* and inside the file.                                                    *)
UnitsInFile ==
    /\ AreaStart <= end
    /\ \A b \in Block : \A u \in UnitsOf(b) : InFile(u)
    /\ \A u \in free : InFile(u)

(* No byte of the file has two owners: the units of all blocks and of the  *)
(* free list are apart, whatever chains were reserved, extended, shrunk    *)
(* and freed before (gdbWriteBlock, gdbReserveBlockChain,                  *)
(* gdbFreeBlockChain).  Two blocks that share a unit overwrite each other. *)
UnitsDisjoint ==
    /\ \A b \in Block : \A i, j \in DOMAIN chain[b] :
          i # j => chain[b][i] # chain[b][j]
    /\ \A b \in Block : \A u, v \in UnitsOf(b) \cup free : u # v => ~Overlap(u, v)
    /\ \A b \in Block : UnitsOf(b) \cap free = {}
    /\ \A b, c \in Block : b # c =>
          \A u \in UnitsOf(b), v \in UnitsOf(c) : ~Overlap(u, v)

(* The file itself still tells the chain: gdbReadBlock, which follows the  *)
(* offsets stored in the units, starting at block->offset, finds the units *)
(* gdbWriteBlock left in memory, as many as the stored size asks for.  So  *)
(* an object dropped from the cache can be rebuilt.                        *)
ReadBack ==
    \A b \in Block : Live(b) =>
       /\ \A i \in DOMAIN chain[b] :
             /\ chain[b][i] \in DOMAIN disk
             /\ disk[chain[b][i]].next = Next1(chain[b], i)
       /\ IsNeededBlockCount(Len(chain[b]), disk[chain[b][1]].size, Multiple[kind[b]])

(* Tree nodes, hash tables and traversals refer to a block by the offset   *)
(* of its first unit, so a write never moves it.                           *)
HeadStable ==
    [][\A b \in Block : Live(b) /\ Live(b)' => chain'[b][1] = chain[b][1]]_vars

(* Whatever was reserved, extended, shrunk and freed in whatever order, no *)
(* room of the file is lost: what lies behind the area of the list is the  *)
(* units of the blocks and those of the list, but for the overflow units   *)
(* of erased blocks, of which gdbFreeBlock gives back the first only       *)
(* (btree_node.c:369, db_blocks.c:783).  A tail that is not listed,         *)
(* or a listed unit taken and not used, would never be missed by a test.   *)
RoomAccounted ==
    end = AreaStart + leaked
             + MapThenSumSet(LAMBDA u : u.size, free)
             + MapThenSumSet(LAMBDA b : Cardinality(UnitsOf(b)) * Multiple[kind[b]],
                             {b \in Block : Live(b)})

(* db.c:142 says of the area in front of the first block "Leave enough     *)
(* room for the free block list": the list never outgrows it.              *)
ListFits == ~overrun
=============================================================================
