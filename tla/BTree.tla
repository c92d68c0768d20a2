------------------------------- MODULE BTree -------------------------------
(***************************************************************************)
(* The B+tree of a GDB file: btreeInsert, btreeDelete and btreeSearch on   *)
(* the tree header (btree_header.c), the nodes (btree_node.c) and the      *)
(* block layer under them (db_blocks.c, db_cache.c).                       *)
(*                                                                         *)
(* Calls run to completion one after the other, so each is one action.     *)
(* Inside a call the file is passed from step to step as a record:         *)
(*   read     what gdbReadBlock returns for an offset: the object in the   *)
(*            cache, or else what is on disk                               *)
(*   disk     the nodes as they are on disk                                *)
(*   dirty    offsets of objects changed since they were written           *)
(*   retired  offsets of erased nodes whose object is still in the cache   *)
(*   free     offsets in the free list                                     *)
(*   end      first offset behind the last node                            *)
(*   hdr      the tree header's 32-bit words on disk: size, root,          *)
(*            leftLeaf and the padding behind them                         *)
(*   log      what has been on disk since the call began, write by write   *)
(*   aborted  an assert has failed                                         *)
(* Offsets count nodes, 1 being the first behind the tree header; every    *)
(* node fits one unit (BlockStore models the ones that do not).  The cache *)
(* is not full (BlockCache models the one that is).                        *)
(***************************************************************************)
EXTENDS BTreeNode, FiniteSetsExt, TLC

CONSTANTS
    Key,            \* keys: integers, in StringCompare order
    Value,          \* values: positive integers
    Mode,           \* access modes the client opens the file in
    LongWords,      \* sizeof(long) in 32-bit words: 1 (Windows) or 2 (Linux, macOS)
    WordBase,       \* what a word counts in a two-word long: 2^32, scaled
    Asserts,        \* the build keeps assert()
    FreedText,      \* keys the memory of a freed key may spell instead
    ReopenFirst,    \* the client reopens the file after nodes were erased and
                    \* before it inserts
    Reinsert,       \* the client also inserts keys that are there
    MaxSize         \* bound: the size the header counts up to

ASSUME BTreeAssumption ==
    /\ Key \subseteq Int
    /\ Value \subseteq Nat \ {0}
    /\ LongWords \in {1, 2}
    /\ WordBase \in Nat \ {0}
    /\ FreedText \subseteq Key
    /\ {Asserts, ReopenFirst, Reinsert} \subseteq BOOLEAN

VARIABLES
    file,       \* the record above
    mode,       \* how the file is open: "rw", "ro" or "test"
    answer      \* the last call, its arguments and its result

vars == <<file, mode, answer>>

SUCCESS   == 0
DUPLICATE == 1
ERROR     == 2

-----------------------------------------------------------------------------
(* btree_header.c: the header's fields are read and written as longs at    *)
(* offsets that leave 4 bytes for each.                                    *)

SIZE == 1
ROOT == 2
LEFTLEAF == 3

GetField(f, field) ==
    IF LongWords = 1 THEN f.hdr[field] ELSE f.hdr[field] + WordBase * f.hdr[field + 1]

(* Every write is flushed: a process that dies between two writes leaves   *)
(* what the first left.  (One that dies within a write: BTreeCursor.)      *)
Logged(f) ==
    [f EXCEPT !.log = Append(@, [disk |-> f.disk, hdr |-> f.hdr,
                                 free |-> f.free, end |-> f.end])]

SetField(f, field, long) ==
    Logged(IF LongWords = 1
           THEN [f EXCEPT !.hdr[field] = long]
           ELSE [f EXCEPT !.hdr[field] = long % WordBase,
                          !.hdr[field + 1] = long \div WordBase])

Root(f) == GetField(f, ROOT)
Size(f) == GetField(f, SIZE)

-----------------------------------------------------------------------------
(* Nodes and their blocks.                                                 *)

(* A node object changed in memory and marked dirty.                       *)
SetNode(f, o, node) == [f EXCEPT !.read[o] = node, !.dirty = @ \cup {o}]

(* A node put at an offset, of the disk or of the cache.                   *)
Put(nodes, o, node) == [p \in DOMAIN nodes \cup {o} |-> IF p = o THEN node ELSE nodes[p]]

(* btreeWriteNode: gdbWriteBlock asserts that the block is dirty.          *)
WriteNode(f, o) ==
    IF o \in f.dirty
    THEN Logged([f EXCEPT !.disk = Put(@, o, f.read[o]), !.dirty = @ \ {o}])
    ELSE [f EXCEPT !.aborted = @ \/ Asserts]

SaveNode(f, o, node) == WriteNode(SetNode(f, o, node), o)

(* gdbReserveBlockChain for one unit: the list is sorted by offset.        *)
NewOffset(f) == IF f.free = {} THEN f.end ELSE Min(f.free)

(* btreeNewNode and btreeWriteNode.  The new object enters the cache       *)
(* behind an old one of the same offset, and reads keep finding the old.   *)
AddNode(f, node) ==
    LET o == NewOffset(f)
    IN  Logged([f EXCEPT !.free = @ \ {o},
                         !.end  = IF o = @ THEN @ + 1 ELSE @,
                         !.disk = Put(@, o, node),
                         !.read = IF o \in f.retired THEN @ ELSE Put(@, o, node)])

(* btreeEraseNode: the unit goes to the list, the object stays in the      *)
(* cache.  What a freed unit holds on disk is forgotten here.              *)
EraseNode(f, o) ==
    [f EXCEPT !.free = @ \cup {o}, !.retired = @ \cup {o},
              !.disk = [p \in DOMAIN @ \ {o} |-> @[p]]]

(* The way down for k, from the root; there it stays at the leaf.  No way  *)
(* is longer than there are nodes.                                         *)
Way(f, k) ==
    LET at[n \in 1 .. Cardinality(DOMAIN f.read)] ==
            IF n = 1 THEN Root(f)
            ELSE LET o == at[n - 1]
                 IN  IF f.read[o].leaf THEN o ELSE f.read[o].kids[Pos(f.read[o].keys, k)]
    IN  at

(* Its nodes and the number of the child taken at each.                    *)
Descend(f, k) ==
    LET at    == Way(f, k)
        depth == CHOOSE n \in DOMAIN at : f.read[at[n]].leaf /\ \A m \in 1 .. n - 1 : ~f.read[at[m]].leaf
    IN  [i \in 1 .. depth |->
            [at |-> at[i], child |-> IF i = depth THEN 0 ELSE Pos(f.read[at[i]].keys, k)]]

LeafFor(f, k) == Last(Descend(f, k)).at

(* btreeSearch.                                                            *)
Search(f, k) ==
    IF Size(f) = 0 \/ Root(f) = 0 THEN 0
    ELSE LET leaf == f.read[LeafFor(f, k)]
         IN  IF Holds(leaf, k) THEN leaf.kids[Pos(leaf.keys, k)] ELSE 0

-----------------------------------------------------------------------------
(* btreeInsert.  A carry goes up the path: key and new right child of a    *)
(* split.                                                                  *)

(* Mutant: the left half is written before the right one it links to.      *)
AddAtLeftFirst(carry, o) ==
    LET f    == carry.file
        node == f.read[o]
        k    == carry.key
        x    == carry.kid
        new  == NewOffset(f)
    IN  IF ~carry.split \/ (Full(node) /\ Holds(node, k))
        THEN [carry EXCEPT !.split = FALSE]
        ELSE IF Full(node)
        THEN [file  |-> AddNode(SaveNode(f, o, SplitLeft(node, k, x, new)),
                                SplitRight(node, k, x)),
              key   |-> SplitKey(node, k), kid |-> new, split |-> TRUE]
        ELSE [carry EXCEPT !.file = SaveNode(f, o, AddKey(node, k, x)), !.split = FALSE]

(* One level of __insertKey: __addKey or __splitNode.                      *)
AddAt(carry, o) ==
    LET f    == carry.file
        node == f.read[o]
        k    == carry.key
        x    == carry.kid
        new  == NewOffset(f)
    IN  IF ~carry.split \/ (Full(node) /\ Holds(node, k))
        THEN [carry EXCEPT !.split = FALSE]
        ELSE IF Full(node)
        THEN [file  |-> SaveNode(AddNode(f, SplitRight(node, k, x)),
                                 o, SplitLeft(node, k, x, new)),
              key   |-> SplitKey(node, k), kid |-> new, split |-> TRUE]
        ELSE [carry EXCEPT !.file = SaveNode(f, o, AddKey(node, k, x)), !.split = FALSE]

(* A first leaf, or a new root above the two halves of the old one.        *)
AddRoot(f, k, x) ==
    LET first == Root(f) = 0
        o     == NewOffset(f)
        g     == AddNode(f, IF first THEN Leaf(<<k>>, <<x, 0>>)
                                     ELSE Internal(<<k>>, <<Root(f), x>>))
    IN  SetField(IF first THEN SetField(g, LEFTLEAF, o) ELSE g, ROOT, o)

(* Up the path, from the leaf.                                             *)
Carried(f, path, k, v) ==
    LET up[n \in 0 .. Len(path)] ==
            IF n = 0 THEN [file |-> f, key |-> k, kid |-> v, split |-> TRUE]
            ELSE AddAt(up[n - 1], path[Len(path) + 1 - n].at)
    IN  up[Len(path)]

InsertInto(f, k, v) ==
    LET Grown(g) == SetField(g, SIZE, Size(f) + 1)
        carry == Carried(f, Descend(f, k), k, v)
    IN  IF Root(f) = 0 THEN AddRoot(Grown(f), k, v)
        ELSE IF carry.split THEN AddRoot(Grown(carry.file), carry.key, carry.kid)
        ELSE Grown(carry.file)

(* The key is in its leaf and the leaf is full: __splitNode gives up.      *)
Rejects(f, k) ==
    /\ Root(f) # 0
    /\ LET leaf == f.read[LeafFor(f, k)] IN Full(leaf) /\ Holds(leaf, k)

-----------------------------------------------------------------------------
(* btreeDelete.                                                            *)

(* Mutant: the parent's new separator is not written.                      *)
BorrowUnwritten(f, o, p, q, trio) ==
    WriteNode(SaveNode(SetNode(SetNode(f, o, trio.node), p, trio.prev), q, trio.sib), o)

(* __borrowRight and __borrowLeft: o is child c of p, q the sibling; the   *)
(* sibling is written at once, the other two at the end of __delete.       *)
Borrow(f, o, p, q, trio) ==
    LET g == SaveNode(SetNode(SetNode(f, o, trio.node), p, trio.prev), q, trio.sib)
    IN  WriteNode(WriteNode(g, o), p)

(* Three writes of __mergeNode and two at the end of __delete.             *)
WriteAgain(f, o, p, q) ==
    WriteNode(WriteNode(WriteNode(WriteNode(WriteNode(f, q), p), o), o), p)

(* Mutant: the emptied node is not given back.                             *)
MergeLeftKeeps(f, o, p, c, q) ==
    LET prev   == f.read[p]
        joined == Joined(f.read[q], prev.keys[c - 1], f.read[o])
        g      == SaveNode(f, q, joined)
        h      == SaveNode(g, p, Closed(prev, c - 1, q))
    IN  WriteAgain(h, o, p, q)

(* __mergeNode into the left sibling q.  The last five writes find nothing *)
(* changed.                                                                *)
MergeLeft(f, o, p, c, q) ==
    LET prev   == f.read[p]
        joined == Joined(f.read[q], prev.keys[c - 1], f.read[o])
        g      == EraseNode(SaveNode(f, q, joined), o)
        h      == SaveNode(g, p, Closed(prev, c - 1, q))
    IN  WriteAgain(h, o, p, q)

(* __mergeNode with the right sibling q: the node itself is still dirty    *)
(* when __mergeNode comes to its last three writes.                        *)
MergeRight(f, o, p, c, q, text) ==
    LET prev   == f.read[p]
        sib    == FreedAhead(f.read[o], f.read[q], text)
        joined == Joined(f.read[o], prev.keys[c], sib)
        g      == EraseNode(SetNode(f, o, joined), q)
        h      == SaveNode(g, p, Closed(prev, c, o))
    IN  WriteAgain(h, o, p, q)

(* The end of __delete for node o, child c of p.                           *)
Rebalance(del, o, p, c, text) ==
    LET f     == del.file
        node  == f.read[o]
        prev  == f.read[p]
        Sib(d) == f.read[prev.kids[d]]
        Lends(d) == d \in 1 .. Len(prev.kids) /\ Len(Sib(d).keys) > MinKeys(Sib(d))
    IN  IF Len(node.keys) >= MinKeys(node)
        THEN del
        ELSE IF Lends(c + 1)
        THEN [file |-> Borrow(f, o, p, prev.kids[c + 1],
                              IF node.leaf THEN BorrowRightLeaf(node, prev, Sib(c + 1), c, text)
                                           ELSE BorrowRightInt(node, prev, Sib(c + 1), c, text)),
              merged |-> FALSE]
        ELSE IF Lends(c - 1)
        THEN [file |-> Borrow(f, o, p, prev.kids[c - 1],
                              IF node.leaf THEN BorrowLeftLeaf(node, prev, Sib(c - 1), c)
                                           ELSE BorrowLeftInt(node, prev, Sib(c - 1), c)),
              merged |-> FALSE]
        ELSE [file |-> IF c > 1 THEN MergeLeft(f, o, p, c, prev.kids[c - 1])
                                ELSE MergeRight(f, o, p, c, prev.kids[c + 1], text),
              merged |-> TRUE]

(* Mutant: a root with one child stays.                                    *)
LowerRootLeafOnly(del) ==
    LET f    == del.file
        node == f.read[Root(f)]
    IN  IF node.leaf /\ node.keys = <<>>
        THEN EraseNode(SetField(f, ROOT, 0), Root(f))
        ELSE f

(* The end of btreeDelete: the last key is gone, or the root has one child *)
(* left.  leftLeaf is left as it is.                                       *)
LowerRoot(del) ==
    LET f    == del.file
        root == Root(f)
        node == f.read[root]
        g    == SetField(f, ROOT, node.kids[1])
    IN  IF node.leaf /\ node.keys = <<>>
        THEN EraseNode(SetField(f, ROOT, 0), root)
        ELSE IF del.merged /\ node.keys = <<>>
        THEN EraseNode(SaveNode(g, Root(g), g.read[Root(g)]), root)
        ELSE f

(* Up the path, from the leaf that has lost its key.                       *)
Rebalanced(f, path, text) ==
    LET up[n \in 0 .. Len(path) - 1] ==
            IF n = 0 THEN [file |-> f, merged |-> FALSE]
            ELSE LET above == path[Len(path) - n]
                 IN  Rebalance(up[n - 1], path[Len(path) + 1 - n].at, above.at, above.child, text)
    IN  up[Len(path) - 1]

DeleteFrom(f, k, text) ==
    LET o    == LeafFor(f, k)
        node == f.read[o]
        cut  == SaveNode(f, o, RemoveKey(node, Pos(node.keys, k)))
        del  == Rebalanced(cut, Descend(f, k), text)
    IN  LowerRoot([del EXCEPT !.file = SetField(@, SIZE, Size(f) - 1)])

-----------------------------------------------------------------------------
(* The calls.                                                              *)

(* The call is over: nothing is half written.                              *)
Done(f) == [f EXCEPT !.log = <<>>]

Insert(k, v) ==
    /\ ~file.aborted
    /\ mode = "rw"
    /\ ReopenFirst => file.retired = {}
    /\ Reinsert \/ Search(file, k) = 0
    /\ IF Rejects(file, k)
       THEN /\ answer' = <<"insert", k, v, DUPLICATE>>
            /\ UNCHANGED file
       ELSE /\ Size(file) % WordBase < MaxSize
            /\ file' = Done(InsertInto(file, k, v))
            /\ answer' = <<"insert", k, v, SUCCESS>>
    /\ UNCHANGED mode

(* t: what freed memory reads as; <<>>: the text is still there.           *)
Delete(k) ==
    /\ ~file.aborted
    /\ mode = "rw"
    /\ IF Root(file) = 0 \/ ~Holds(file.read[LeafFor(file, k)], k)
       THEN /\ answer' = <<"delete", k, 0>>
            /\ UNCHANGED file
       ELSE LET leaf == file.read[LeafFor(file, k)]
            IN  /\ \E t \in {<<>>} \cup {<<x>> : x \in FreedText} :
                      file' = Done(DeleteFrom(file, k,
                                     [key \in Key |-> IF t = <<>> THEN key ELSE t[1]]))
                /\ answer' = <<"delete", k, leaf.kids[Pos(leaf.keys, k)]>>
    /\ UNCHANGED mode

(* btreeInsert and btreeDelete on a file that is open for reading or for a *)
(* test.                                                                   *)
Attempt(k) ==
    /\ ~file.aborted
    /\ \/ /\ mode = "ro"
          /\ answer' \in {<<"insert", k, ERROR>>, <<"delete", k, 0>>}
       \/ /\ mode = "test"
          /\ answer' \in {<<"insert", k, IF Search(file, k) # 0 THEN DUPLICATE ELSE SUCCESS>>,
                          <<"delete", k, Search(file, k)>>}
    /\ UNCHANGED <<file, mode>>

(* gdbClose and gdbOpen: a new, empty cache.                               *)
Reopen(m) ==
    /\ ~file.aborted
    /\ mode' = m
    /\ file' = [file EXCEPT !.read = file.disk, !.dirty = {}, !.retired = {}]
    /\ answer' = <<"open", m>>

(* gdbCreate.                                                              *)
Init ==
    /\ file = [read |-> [o \in {} |-> 0], disk |-> [o \in {} |-> 0],
               dirty |-> {}, retired |-> {}, free |-> {}, end |-> 1,
               hdr |-> <<0, 0, 0, 0>>, log |-> <<>>, aborted |-> FALSE]
    /\ mode = "rw"
    /\ answer = <<"open", "rw">>

Next ==
    \/ \E k \in Key, v \in Value : Insert(k, v)
    \/ \E k \in Key : Delete(k) \/ Attempt(k)
    \/ \E m \in Mode : Reopen(m)

Spec == Init /\ [][Next]_vars

-----------------------------------------------------------------------------
(* The tree as a reader finds it.                                          *)

(* The nodes of each level; the root alone is on level 0.                  *)
Levels(f) ==
    LET at[n \in 0 .. Cardinality(DOMAIN f.read)] ==
            IF n = 0 THEN {Root(f)} \ {0}
            ELSE UNION {ToSet(f.read[o].kids) : o \in {p \in at[n - 1] : ~f.read[p].leaf}}
    IN  at

Nodes(f)  == UNION {Levels(f)[n] : n \in DOMAIN Levels(f)}
Leaves(f) == {o \in Nodes(f) : f.read[o].leaf}
StoredKeys == UNION {ToSet(file.read[o].keys) : o \in Leaves(file)}

Contents == [k \in Key |-> Search(file, k)]

-----------------------------------------------------------------------------
(* Properties.                                                             *)

IsNode(node) ==
    /\ node.leaf \in BOOLEAN
    /\ node.keys \in Seq(Key)
    /\ node.kids \in Seq(Nat)
    /\ Len(node.kids) = Len(node.keys) + 1
    /\ Len(node.keys) <= MaxKeys

(* The variables have their types; what is on disk is a node of its size.  *)
TypeOK ==
    /\ \A o \in DOMAIN file.read : IsNode(file.read[o])
    /\ \A o \in DOMAIN file.disk : IsNode(file.disk[o])
    /\ file.dirty \cup file.retired \subseteq DOMAIN file.read
    /\ file.free \subseteq 1 .. file.end - 1
    /\ file.hdr \in [1 .. 4 -> Nat]
    /\ file.aborted \in BOOLEAN
    /\ mode \in {"rw", "ro", "test"}

(* All leaves are on one level and every node but the root is at least     *)
(* half full, whatever splits, loans and merges went before: a search      *)
(* reads a logarithmic number of nodes.                                    *)
Balanced ==
    \A levels \in {Levels(file)} : \A n \in DOMAIN levels : \A o, p \in levels[n] :
        LET node == file.read[o]
        IN  /\ node.leaf = file.read[p].leaf
            /\ Len(node.keys) >= IF n = 0 THEN 1 ELSE MinKeys(node)

(* A stored key is in exactly the leaf a search for it comes to: the       *)
(* separators of all levels above agree with it, though deletes leave      *)
(* separators that are no key any more.                                    *)
Findable ==
    \A o \in Leaves(file) : \A k \in ToSet(file.read[o].keys) :
        LeafFor(file, k) = o

(* The two together: what a search relies on.                              *)
Searchable == Balanced /\ Findable

(* The chain a traversal follows, from leftLeaf through the last kid of    *)
(* each leaf, is the leaves in key order, none skipped and none twice.     *)
Precedes(a, b) == Last(file.read[a].keys) < file.read[b].keys[1]
LeafChain ==
    \A leaves \in {Leaves(file)} : \A a \in leaves :
        LET keys  == file.read[a].keys
            after == {b \in leaves : Precedes(a, b)}
        IN  /\ \A i \in 1 .. Len(keys) - 1 : keys[i] < keys[i + 1]
            /\ \A b \in leaves \ after : a = b \/ Precedes(b, a)
            /\ after = leaves \ {a} => GetField(file, LEFTLEAF) = a
            /\ IF after = {} THEN Last(file.read[a].kids) = 0
               ELSE \E b \in after :
                        Last(file.read[a].kids) = b /\ \A c \in after \ {b} : Precedes(b, c)

(* Each unit is one node of the tree or in the free list, never both and   *)
(* never neither, and a node has one place in the tree.                    *)
SpaceAccounted ==
    \A nodes \in {Nodes(file)} :
        /\ nodes \cap file.free = {}
        /\ nodes \cup file.free = 1 .. file.end - 1
        /\ \A o, p \in nodes : ~file.read[o].leaf /\ ~file.read[p].leaf =>
              \A c \in DOMAIN file.read[o].kids, d \in DOMAIN file.read[p].kids :
                  /\ file.read[o].kids[c] # Root(file)
                  /\ file.read[o].kids[c] = file.read[p].kids[d] => o = p /\ c = d

(* Between calls the disk holds the tree the reader sees, so a crash       *)
(* between calls loses nothing: no change was left unwritten.              *)
Durable ==
    \A o \in Nodes(file) :
        o \in DOMAIN file.disk /\ file.disk[o] = file.read[o] /\ o \notin file.dirty

(* While the client inserts only keys that are not there, the size is the  *)
(* number of keys: no split, loan or merge loses one or makes a second.    *)
SizeCountsKeys == ~Reinsert => Size(file) = Cardinality(StoredKeys)

(* btreeSearch answers 0 at once when the header's size is 0, so the size  *)
(* must never fall below the number of keys.                               *)
SizeCoversKeys == Cardinality(StoredKeys) <= Size(file)

(* Searches, inserts and deletes answer as a map from keys to values.      *)
Map == INSTANCE OrderedMap WITH map <- Contents
IsOrderedMap == Map!Spec

-----------------------------------------------------------------------------
(* What the repository says of the tree and the code does not do.          *)

(* btree.h:110, btreeInsert: "Inserts an offset to a value with the        *)
(* specified key in a B+Tree": a key reported as inserted is found.        *)
InsertedIsFound ==
    [][\A k \in Key, v \in Value :
          Insert(k, v) /\ answer'[4] = SUCCESS => Search(file', k) = v]_vars

(* btree.h:121, btreeDelete: "Deletes a value from a B+Tree", the one that *)
(* is "associated with" the key: every other key keeps its value.          *)
DeleteSparesOthers ==
    [][\A k \in Key : Delete(k) =>
          \A j \in Key \ {k} : Search(file', j) = Search(file, j)]_vars

(* btree.h:198, btreeGetFirstOffset: "The first offset, or -1 if empty."   *)
(* It starts at the node leftLeaf names: the first leaf of the tree.       *)
FirstOffsetIsFirst ==
    \A a \in Leaves(file) :
        (~ \E b \in Leaves(file) : Precedes(b, a)) => GetField(file, LEFTLEAF) = a

(* db_blocks.c:420: assert(!"Param error") says that only a changed block  *)
(* is written.                                                             *)
NoAssertFails == ~file.aborted

-----------------------------------------------------------------------------
(* The shape of a tree does not depend on what the last call answered: a   *)
(* view for runs of invariants over file and mode alone.                   *)
Tree == <<file, mode>>
=============================================================================
