------------------------------ MODULE BlockCache ------------------------------
(***************************************************************************)
(* The cache of in-memory blocks (Btree/db_cache.c) under the calls that   *)
(* db_blocks.c makes on it: gdbNewBlock, gdbReadBlock, gdbWriteBlock and   *)
(* gdbDestroyBlock.                                                        *)
(*                                                                         *)
(* Cached blocks are found by offset in an open-addressing hash table and  *)
(* are queued, last added first; one that nobody references is dropped     *)
(* when the cache is full.  The queue's links are a sequence here.  A      *)
(* dropped object is never freed by the code: once its last holder is done *)
(* it cannot be reached any more, and the model uses its name again.       *)
(***************************************************************************)
EXTENDS Naturals, Sequences, FiniteSets, SequencesExt

CONSTANTS
    Object,     \* in-memory blocks (GdbBlock)
    Offset,     \* offsets a block may be placed at
    HashSize,   \* CACHE_HASH_SIZE
    MaxCache,   \* MAX_CACHE_SIZE
    MaxHold,    \* bound: callers that hold one object at a time
    NoObject    \* an empty slot

ASSUME CacheAssumption ==
    /\ Offset \subseteq Nat \ {0}
    /\ HashSize \in Nat \ {0}
    /\ MaxCache \in Nat /\ MaxCache >= 2
    /\ MaxHold \in Nat
    /\ NoObject \notin Object

VARIABLES
    live,           \* allocated objects
    offset,         \* [Object -> Offset \cup {0}]; 0: not written yet
    added,          \* objects whose lastAccess is set
    refCount,       \* [Object -> Nat]
    held,           \* [Object -> Nat]: callers that got it and did not destroy it yet
    hash,           \* [0 .. HashSize - 1 -> Object \cup {NoObject}]
    queue,          \* Seq(Object), from lruStart to lruEnd
    openBlockCount,
    placed          \* offsets that have a block in the file

vars == <<live, offset, added, refCount, held, hash, queue, openBlockCount, placed>>

HASH(o) == (o \div 64) % HashSize
HASHWRAP(i) == i % HashSize
Slots == 0 .. HashSize - 1

Cached == {hash[i] : i \in Slots} \ {NoObject}
Unreachable(b) == b \notin live \/ (held[b] = 0 /\ b \notin Cached \cup ToSet(queue))

-----------------------------------------------------------------------------
(* The hash table.  A probe walks up from the natural slot.                *)

Probe(o) == [i \in Slots |-> HASHWRAP(HASH(o) + i)]

(* gdbCacheGetBlock: the first object of the offset before an empty slot.  *)
GetBlock(table, o) ==
    LET hit(i) == /\ table[Probe(o)[i]] # NoObject
                  /\ offset[table[Probe(o)[i]]] = o
                  /\ \A j \in 0 .. i - 1 : table[Probe(o)[j]] # NoObject
                  /\ \A j \in 0 .. i - 1 : offset[table[Probe(o)[j]]] # o
    IN  IF \E i \in Slots : hit(i)
        THEN table[Probe(o)[CHOOSE i \in Slots : hit(i)]]
        ELSE NoObject

(* hashInsert: the first empty slot, if there is one.                      *)
HashInsert(table, b, o) ==
    LET open == {i \in Slots : table[Probe(o)[i]] = NoObject}
    IN  IF open = {} THEN table
        ELSE [table EXCEPT ![Probe(o)[CHOOSE i \in open : \A j \in open : i <= j]] = b]

(* Mutant: an entry whose natural slot is the hole itself stays.           *)
BubblesShort(natural, slot, hole) ==
    /\ natural # slot
    /\ slot > hole
    /\ natural < hole

(* May the entry at slot, which belongs at natural, move into the hole?    *)
(* Past the end of the table the code compares with hole - CACHE_HASH_SIZE,*)
(* which is negative, so no entry moves there.                             *)
Bubbles(natural, slot, hole) ==
    /\ natural # slot
    /\ slot > hole
    /\ natural <= hole

(* One turn of hashDelete's loop, at slot; it is over at an empty slot.    *)
BubbledAt(was, slot) ==
    LET entry == was.table[slot]
    IN  IF was.done \/ entry = NoObject
        THEN [table |-> was.table, hole |-> was.hole, done |-> TRUE]
        ELSE IF Bubbles(HASH(offset[entry]), slot, was.hole)
        THEN [table |-> [was.table EXCEPT ![was.hole] = entry, ![slot] = NoObject],
              hole |-> slot, done |-> FALSE]
        ELSE was

(* Does the probe for b come to it before an empty slot?                   *)
Reached(table, b) ==
    /\ \E i \in Slots : table[i] = b
    /\ \A i \in Slots :
          table[Probe(offset[b])[i]] = NoObject =>
             \E j \in 0 .. i : table[Probe(offset[b])[j]] = b

(* hashDelete: the entry is cleared and the entries after it, up to an     *)
(* empty slot, bubble down.                                                *)
HashDelete(table, b) ==
    LET at == CHOOSE i \in Slots : table[i] = b
        scan[n \in Slots] ==
            IF n = 0
            THEN [table |-> [table EXCEPT ![at] = NoObject], hole |-> at, done |-> FALSE]
            ELSE BubbledAt(scan[n - 1], HASHWRAP(at + n))
    IN  IF Reached(table, b) THEN scan[HashSize - 1].table ELSE table

-----------------------------------------------------------------------------
(* The queue.                                                              *)

(* queDelete: a block without neighbours is taken for one not in the queue.*)
QueDelete(q, b) ==
    IF Len(q) = 1 THEN q ELSE RemoveAt(q, CHOOSE i \in DOMAIN q : q[i] = b)

(* Mutant: only the end of the queue is looked at.                         *)
VictimsLast ==
    IF queue # <<>> /\ refCount[queue[Len(queue)]] = 0
    THEN {queue[Len(queue)]} ELSE {}

(* The block to drop when the cache is full: from lruEnd, the first one    *)
(* that nobody references.                                                 *)
Victims ==
    {queue[i] : i \in {i \in DOMAIN queue :
                          /\ refCount[queue[i]] = 0
                          /\ \A j \in i + 1 .. Len(queue) : refCount[queue[j]] > 0}}

(* Mutant: the dropped block is still counted.                             *)
AddBlockCountsDropped(b, o) ==
    LET full == openBlockCount >= MaxCache
        kept == IF full /\ Victims # {}
                THEN LET v == CHOOSE v \in Victims : TRUE
                     IN  [hash |-> HashDelete(hash, v), queue |-> QueDelete(queue, v)]
                ELSE [hash |-> hash, queue |-> queue]
    IN  /\ hash' = HashInsert(kept.hash, b, o)
        /\ queue' = <<b>> \o kept.queue
        /\ openBlockCount' = openBlockCount + 1
        /\ added' = added \cup {b}

(* gdbCacheAddBlock for a block that was never added, at offset o; its     *)
(* reference count is the caller's to set.                                 *)
AddBlock(b, o) ==
    LET full == openBlockCount >= MaxCache
        drops == full /\ Victims # {}
        v == CHOOSE v \in Victims : TRUE
    IN  /\ hash' = HashInsert(IF drops THEN HashDelete(hash, v) ELSE hash, b, o)
        /\ queue' = <<b>> \o (IF drops THEN QueDelete(queue, v) ELSE queue)
        /\ openBlockCount' = openBlockCount + (IF drops THEN 0 ELSE 1)
        /\ added' = added \cup {b}

-----------------------------------------------------------------------------
(* The operations.                                                         *)

(* Mutant: the new object's memory is not cleared.                         *)
NewBlockUncleared(b) ==
    /\ Unreachable(b)
    /\ live' = live \cup {b}
    /\ added' = added \ {b}
    /\ refCount' = [refCount EXCEPT ![b] = 0]
    /\ held' = [held EXCEPT ![b] = 1]
    /\ UNCHANGED <<offset, hash, queue, openBlockCount, placed>>

(* gdbNewBlock: nowhere in the file and not in the cache.                  *)
NewBlock(b) ==
    /\ Unreachable(b)
    /\ live' = live \cup {b}
    /\ offset' = [offset EXCEPT ![b] = 0]
    /\ added' = added \ {b}
    /\ refCount' = [refCount EXCEPT ![b] = 0]
    /\ held' = [held EXCEPT ![b] = 1]
    /\ UNCHANGED <<hash, queue, openBlockCount, placed>>

(* Mutant: every write counts as a reference.                              *)
WriteBlockCounts(b, o) ==
    /\ held[b] > 0
    /\ b \in added => o = offset[b]
    /\ b \notin added => o \notin placed
    /\ offset' = [offset EXCEPT ![b] = o]
    /\ placed' = placed \cup {o}
    /\ refCount' = [refCount EXCEPT ![b] = @ + 1]
    /\ refCount[b] <= MaxHold
    /\ IF b \in added THEN UNCHANGED <<hash, queue, openBlockCount, added>>
                      ELSE AddBlock(b, o)
    /\ UNCHANGED <<live, held>>

(* gdbWriteBlock: the first write gives the block an offset no other block *)
(* has and adds it to the cache.  Later writes leave the cache alone.      *)
WriteBlock(b, o) ==
    /\ held[b] > 0
    /\ b \notin added
    /\ o \notin placed
    /\ offset' = [offset EXCEPT ![b] = o]
    /\ placed' = placed \cup {o}
    /\ refCount' = [refCount EXCEPT ![b] = @ + 1]
    /\ AddBlock(b, o)
    /\ UNCHANGED <<live, held>>

(* gdbReadBlock of a cached block: the object itself, not referenced again.*)
ReadHit(o) ==
    LET b == GetBlock(hash, o)
    IN  /\ o \in placed
        /\ b # NoObject
        /\ held[b] < MaxHold
        /\ held' = [held EXCEPT ![b] = @ + 1]
        /\ UNCHANGED <<live, offset, added, refCount, hash, queue, openBlockCount, placed>>

(* gdbReadBlock of any other block: a new object, read from the file and   *)
(* added to the cache.                                                     *)
ReadMiss(b, o) ==
    /\ o \in placed
    /\ GetBlock(hash, o) = NoObject
    /\ Unreachable(b)
    /\ live' = live \cup {b}
    /\ offset' = [offset EXCEPT ![b] = o]
    /\ refCount' = [refCount EXCEPT ![b] = 1]
    /\ held' = [held EXCEPT ![b] = 1]
    /\ AddBlock(b, o)
    /\ UNCHANGED placed

(* gdbCacheRemoveBlock answers 0.  It also calls btreeSetError, which ends *)
(* a build that keeps assert(); this is the build that does not.           *)
CacheRefuses(b) == offset[b] = 0 \/ openBlockCount = 0

(* Mutant: the last reference frees the object, as db_cache.h promises,    *)
(* but nothing takes it out of the table.                                  *)
DestroyBlockFrees(b) ==
    /\ held[b] > 0
    /\ held' = [held EXCEPT ![b] = @ - 1]
    /\ refCount' = [refCount EXCEPT ![b] = IF @ > 0 THEN @ - 1 ELSE 0]
    /\ live' = IF refCount[b] <= 1 THEN live \ {b} ELSE live
    /\ UNCHANGED <<offset, added, hash, queue, openBlockCount, placed>>

(* gdbDestroyBlock: a block the file has loses a reference and stays as it *)
(* is; any other is freed, or if it is dirty given up.                     *)
DestroyBlock(b) ==
    /\ held[b] > 0
    /\ held' = [held EXCEPT ![b] = @ - 1]
    /\ IF CacheRefuses(b)
       THEN /\ live' = live \ {b}
            /\ UNCHANGED refCount
       ELSE /\ refCount' = [refCount EXCEPT ![b] = IF @ > 0 THEN @ - 1 ELSE 0]
            /\ UNCHANGED live
    /\ UNCHANGED <<offset, added, hash, queue, openBlockCount, placed>>

(* btreeEraseNode: the room in the file is free again; the cache is not    *)
(* told.                                                                   *)
EraseBlock(b) ==
    /\ held[b] > 0
    /\ offset[b] \in placed
    /\ placed' = placed \ {offset[b]}
    /\ UNCHANGED <<live, offset, added, refCount, held, hash, queue, openBlockCount>>

Init ==
    /\ live = {}
    /\ offset = [b \in Object |-> 0]
    /\ added = {}
    /\ refCount = [b \in Object |-> 0]
    /\ held = [b \in Object |-> 0]
    /\ hash = [i \in Slots |-> NoObject]
    /\ queue = <<>>
    /\ openBlockCount = 0
    /\ placed = {}

Next ==
    \/ \E b \in Object : NewBlock(b) \/ DestroyBlock(b) \/ EraseBlock(b)
    \/ \E b \in Object, o \in Offset : WriteBlock(b, o) \/ ReadMiss(b, o)
    \/ \E o \in Offset : ReadHit(o)

Spec == Init /\ [][Next]_vars

-----------------------------------------------------------------------------
(* Properties.                                                             *)

(* Belongs before the end of the table and lies after its start.           *)
Wrapped(i) == i < HASH(offset[hash[i]])

(* openBlockCount and the queue tell of the same blocks, all of them in    *)
(* the table, after any number of additions and drops.  The table holds    *)
(* none of them twice, and nothing else but what hashDelete could not      *)
(* find, which was in a cluster that runs past the end of the table        *)
(* (gdbCacheAddBlock, hashDelete, queDelete).                              *)
QueueMatchesTable ==
    /\ openBlockCount = Len(queue)
    /\ IsInjective(queue)
    /\ ToSet(queue) \subseteq Cached
    /\ \A i, j \in Slots : hash[i] = hash[j] /\ hash[i] # NoObject => i = j
    /\ \A i \in Slots : hash[i] \in Cached \ ToSet(queue) => Wrapped(i)

(* No slot and no link of the queue leads to freed memory, whatever the    *)
(* callers destroy (gdbDestroyBlock frees only what was never written).    *)
NoDangling == Cached \cup ToSet(queue) \subseteq live

(* Nobody pins a block he has given back: a reference count never exceeds  *)
(* the number of callers that hold the object, so a block all of them      *)
(* destroyed can be dropped.                                               *)
PinsAreHeld == \A b \in live : refCount[b] <= held[b]

(* Table, queue, count and references agree.                               *)
CacheAgrees == QueueMatchesTable /\ NoDangling /\ PinsAreHeld

(* A cluster of the table that does not run past its end stays unbroken:   *)
(* every slot between the natural slot of an entry and its own is taken,   *)
(* so the probe of gdbCacheGetBlock comes to the entry.                    *)
ClustersUnbroken ==
    \A i \in Slots : hash[i] # NoObject =>
        \A j \in HASH(offset[hash[i]]) .. i : hash[j] # NoObject

(* The cache grows past its limit only for blocks that are all referenced. *)
GrowsOverPinned ==
    [][openBlockCount' > openBlockCount /\ openBlockCount >= MaxCache =>
          \A b \in ToSet(queue) : refCount[b] > 0]_vars

(* db_cache.h:62 has gdbCacheGetBlock return "The block at @a offset, or   *)
(* @c NULL if it's not in the cache": a cached block is found.             *)
CachedIsFound ==
    \A b \in Cached : GetBlock(hash, offset[b]) # NoObject

(* db_cache.h:33 says of gdbCacheAddBlock "If the block is already in the  *)
(* cache, the reference count will be incremented", and a block of more    *)
(* than one reference stays: a block a caller holds is not dropped.        *)
HeldStays ==
    \A b \in live : held[b] > 0 /\ b \in added => b \in Cached
=============================================================================
