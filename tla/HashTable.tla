----------------------------- MODULE HashTable -----------------------------
(***************************************************************************)
(* The hash table block of a GDB file (hashtable.c): 16-bit keys to typed  *)
(* data, in buckets that are lists, each with an 8-bit count beside it.    *)
(* One table; its block is written with gdbWriteBlock when it is dirty.    *)
(***************************************************************************)
EXTENDS Integers, Sequences, SequencesExt, FiniteSetsExt

CONSTANTS
    TableKey,       \* keys, from 1 (0 is refused everywhere)
    BucketCount,    \* 11 in the code
    TableType,      \* the types of data the client adds
    Datum,          \* what data is told apart
    RawSize,        \* sizes given for data of the types RAW and STRING
    LongSize,       \* sizeof(long), and so the size of LONG and OFFSET
    CountMod,       \* a count's width, 2^8
    SizeMod         \* the width of the written size, 2^16

ASSUME TableAssumption ==
    /\ TableKey \subseteq Nat \ {0}
    /\ {BucketCount, LongSize, CountMod, SizeMod} \subseteq Nat \ {0}
    /\ RawSize \subseteq Nat \ {0}
    /\ TableType \subseteq {"STRING", "RAW", "BOOLEAN", "LONG", "OFFSET"}

VARIABLES
    buckets,        \* the lists of the table in memory
    counts,         \* counts[], as stored
    tableDirty,
    written,        \* what the block holds on disk: <<>> or <<lists and counts>>
    table,          \* "open", "closed", or "fallen": htRemove read through NULL
    meant,          \* the table as its client means it, a map
    unsaved         \* keys removed since the block was last written

htvars == <<buckets, counts, tableDirty, written, table, meant, unsaved>>

Nothing == [type |-> "RAW", size |-> 0, data |-> "none"]
Hash(key) == key % BucketCount

(* typeSizes[]: -1 says that the size is given and stored.                 *)
SizeOf(type, size) ==
    CASE type \in {"RAW", "STRING"} -> size
      [] type = "BOOLEAN" -> 1
      [] OTHER -> LongSize

Index(list, key) == SelectInSeq(list, LAMBDA b : b.key = key)

(* htGetData.                                                              *)
LookupIn(lists, key) ==
    LET i == Index(lists[Hash(key)], key)
    IN  IF i = 0 THEN Nothing
        ELSE [type |-> lists[Hash(key)][i].type, size |-> lists[Hash(key)][i].size,
              data |-> lists[Hash(key)][i].data]
htGetData(key) == LookupIn(buckets, key)

(* htGetString, htGetLong, htGetOffset: none if the type is another.       *)
GetTyped(key, type) ==
    IF htGetData(key).type = type THEN htGetData(key).data ELSE "none"

(* Mutant: a present key gets a second entry.                              *)
htAddTwice(key, type, size, data) ==
    LET h     == Hash(key)
        entry == [key |-> key, type |-> type, size |-> SizeOf(type, size), data |-> data]
    IN  /\ buckets' = [buckets EXCEPT ![h] = Append(@, entry)]
        /\ counts' = [counts EXCEPT ![h] = (@ + 1) % CountMod]
        /\ tableDirty' = TRUE

(* Mutant: a bucket's count is not kept.                                   *)
htAddUncounted(key, type, size, data) ==
    LET h     == Hash(key)
        i     == Index(buckets[h], key)
        entry == [key |-> key, type |-> type, size |-> SizeOf(type, size), data |-> data]
    IN  /\ buckets' = [buckets EXCEPT ![h] = IF i = 0 THEN <<entry>> \o @
                                              ELSE [@ EXCEPT ![i] = entry]]
        /\ counts' = IF buckets[h] = <<>> THEN [counts EXCEPT ![h] = 1] ELSE counts
        /\ tableDirty' = TRUE

(* htAdd: in place, or in front.                                           *)
htAdd(key, type, size, data) ==
    LET h     == Hash(key)
        i     == Index(buckets[h], key)
        entry == [key |-> key, type |-> type, size |-> SizeOf(type, size), data |-> data]
    IN  /\ buckets' = [buckets EXCEPT ![h] = IF i = 0 THEN <<entry>> \o @
                                              ELSE [@ EXCEPT ![i] = entry]]
        /\ counts' = IF i = 0 THEN [counts EXCEPT ![h] = (@ + 1) % CountMod] ELSE counts
        /\ tableDirty' = TRUE

Add(key, type, size, data) ==
    /\ table = "open"
    /\ htAdd(key, type, size, data)
    /\ meant' = [meant EXCEPT ![key] = [type |-> type, size |-> SizeOf(type, size),
                                        data |-> data]]
    /\ unsaved' = unsaved \ {key}
    /\ UNCHANGED <<written, table>>

(* htRemove.  The block is not marked; the entry in front of the bucket's  *)
(* first has no successor to set.                                          *)
htRemove(key) ==
    LET h == Hash(key)
        i == Index(buckets[h], key)
    IN  /\ table = "open"
        /\ IF i = 1
           THEN table' = "fallen" /\ UNCHANGED <<buckets, counts, meant, unsaved>>
           ELSE /\ i > 1
                /\ buckets' = [buckets EXCEPT ![h] = RemoveAt(@, i)]
                /\ counts' = [counts EXCEPT ![h] = (@ - 1) % CountMod]
                /\ meant' = [meant EXCEPT ![key] = Nothing]
                /\ unsaved' = unsaved \cup {key}
                /\ UNCHANGED table
        /\ UNCHANGED <<tableDirty, written>>

(* __getTableSize: what the block is given against what the table takes.   *)
(* The data's size is summed in an unsigned short, and so is the result    *)
(* with the header's three bytes.                                          *)
EntrySize(b) == 3 + b.size + (IF b.type \in {"RAW", "STRING"} THEN 2 ELSE 0)
Taken(lists) ==
    3 + BucketCount
      + FoldFunction(+, 0, [h \in DOMAIN lists |->
            FoldSeq(LAMBDA b, n : n + EntrySize(b), 0, lists[h])])
Given(lists) == (3 + ((Taken(lists) - 3) % SizeMod)) % SizeMod

(* gdbWriteBlock with htWriteBlock.                                        *)
WriteTable ==
    /\ table = "open" /\ tableDirty
    /\ written' = <<[lists |-> buckets, counts |-> counts]>>
    /\ tableDirty' = FALSE
    /\ unsaved' = {}
    /\ UNCHANGED <<buckets, counts, table, meant>>

(* htReadBlock takes as many entries as the count says and goes on with    *)
(* the next bucket where it stopped: only a block whose counts are right,  *)
(* and that was given what it takes, is read as it was written.            *)
Legible(block) ==
    /\ \A h \in DOMAIN block.lists : block.counts[h] = Len(block.lists[h])
    /\ Given(block.lists) = Taken(block.lists)

(* Another process opens the table.  The client's changes since the last   *)
(* write are gone; removed keys it did not know to be unsaved are back.    *)
ReopenTable ==
    /\ table \in {"open", "fallen"}
    /\ \E block \in ToSet(written) :
          /\ Legible(block)
          /\ buckets' = block.lists /\ counts' = block.counts
          /\ meant' = [key \in TableKey |-> LookupIn(block.lists, key)]
    /\ table' = "open" /\ tableDirty' = FALSE /\ unsaved' = {}
    /\ UNCHANGED written

(* htCreateBlock.                                                          *)
TableInit ==
    /\ buckets = [h \in 0 .. BucketCount - 1 |-> <<>>]
    /\ counts = [h \in 0 .. BucketCount - 1 |-> 0]
    /\ tableDirty = TRUE
    /\ written = <<>>
    /\ table = "open"
    /\ meant = [key \in TableKey |-> Nothing]
    /\ unsaved = {}

TableNext ==
    \/ \E key \in TableKey, type \in TableType, size \in RawSize, data \in Datum :
          Add(key, type, size, data)
    \/ \E key \in TableKey : htRemove(key)
    \/ WriteTable \/ ReopenTable

-----------------------------------------------------------------------------

(* Until it falls the table answers as the map its client means it to be,  *)
(* through updates in place and removals from the middle of a bucket; and  *)
(* a getter of the wrong type answers none.                                *)
TableIsMap ==
    table = "open" => \A key \in TableKey :
        /\ htGetData(key) = meant[key]
        /\ \A type \in TableType : GetTyped(key, type) \in {meant[key].data, "none"}

(* A table that is not dirty is on disk, but for removals, which do not    *)
(* mark it; and while every bucket has fewer entries than its count can    *)
(* say, and the table with its header takes less than an unsigned short    *)
(* can say, what is on disk is legible: the counts are right and the room  *)
(* is the whole of it.                                                     *)
TableOnDisk ==
    /\ table = "open" /\ ~tableDirty =>
          \A key \in TableKey \ unsaved : LookupIn(written[1].lists, key) = meant[key]
    /\ \A block \in ToSet(written) :
          /\ \A h \in DOMAIN buckets : Len(block.lists[h]) < CountMod
          /\ Taken(block.lists) < SizeMod
          => Legible(block)

(* The table answers and is stored as the map its client means it to be.   *)
TableKeepsAll == TableIsMap /\ TableOnDisk
=============================================================================
