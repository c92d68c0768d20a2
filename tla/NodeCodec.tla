----------------------------- MODULE NodeCodec -----------------------------
(***************************************************************************)
(* How a node of the B+tree is put into the bytes of its block and taken   *)
(* out again (btree_node.c, with the prefix compression of db_utils.c).    *)
(* A key is its characters and the NUL behind them; every key but a        *)
(* node's first is kept as the length of what it shares with the key       *)
(* before it, in one byte, and the rest.  A number of any width is one     *)
(* element of the buffer: Octets says how many bytes it takes.             *)
(***************************************************************************)
EXTENDS Integers, Sequences, SequencesExt, FiniteSetsExt

CONSTANTS
    NodeOrder,      \* children of a node, tree->order
    NodeKey,        \* the keys, sequences of numbers in front of a 0
    Address,        \* what a child is: where a block is in the file
    PrefixCap       \* the most that one byte can say, 255

ASSUME NodeAssumption ==
    /\ NodeOrder \in Nat \ {0, 1} /\ PrefixCap \in Nat \ {0}
    /\ \A k \in NodeKey : Len(k) >= 1 /\ k[Len(k)] = 0 /\ \A i \in 1 .. Len(k) - 1 : k[i] > 0

VARIABLES
    node,           \* record keys, children; the keys in use only
    buffer,         \* the block's bytes
    again           \* the node that was read from them
nodevars == <<node, buffer, again>>

NoNode == [keys |-> <<>>, children |-> <<>>]
Smaller(a, b) == IF a < b THEN a ELSE b
KeyLess(k, l) == \E i \in 1 .. Smaller(Len(k), Len(l)) :
                     /\ k[i] < l[i]
                     /\ \A j \in 1 .. i - 1 : k[j] = l[j]

(* Mutant: the prefix's length is not held to what a byte can say.         *)
gdbCompressUncapped(base, key) ==
    LET same == {n \in 0 .. Smaller(Len(base), Len(key)) : SubSeq(base, 1, n) = SubSeq(key, 1, n)}
    IN  <<Max(same) % (PrefixCap + 1)>> \o SubSeq(key, Max(same) + 1, Len(key))

gdbCompressString(base, key) ==
    LET minLen == Smaller(PrefixCap, Smaller(Len(base), Len(key)))
        preLen == Max({n \in 0 .. minLen : SubSeq(base, 1, n) = SubSeq(key, 1, n)})
    IN  <<preLen>> \o SubSeq(key, preLen + 1, Len(key))
gdbUncompressString(base, key) == SubSeq(base, 1, key[1]) \o Tail(key)

(* __compressNode goes from the last key to the second, each against the   *)
(* whole key before it; __uncompressNode the other way, against the key    *)
(* that it has just made.  A node of one key is left as it is.             *)
compressNode(keys) ==
    [i \in DOMAIN keys |-> IF i = 1 THEN keys[1] ELSE gdbCompressString(keys[i - 1], keys[i])]
uncompressNode(keys) ==
    LET whole[i \in DOMAIN keys] ==
            IF i = 1 THEN keys[1] ELSE gdbUncompressString(whole[i - 1], keys[i])
    IN  whole

(* The size that the block gets: a byte of keyCount, the children, the     *)
(* keys' sizes, the keys.                                                  *)
FieldOf(i, f) == IF i \in DOMAIN f THEN f[i] ELSE 0
Octets == [count |-> 1, child |-> 4, size |-> 2]
getNodeSize(sizes) ==
    Octets.count + NodeOrder * Octets.child + (NodeOrder - 1) * Octets.size
        + MapThenSumSet(LAMBDA i : sizes[i], DOMAIN sizes)

btreeWriteNodeBlock ==
    LET keys  == IF Len(node.keys) >= 2 THEN compressNode(node.keys) ELSE node.keys
        sizes == [i \in DOMAIN keys |-> Len(keys[i])]
    IN  /\ node # NoNode /\ buffer = <<>>
        /\ buffer' = <<Len(node.keys)>>
                        \o [i \in 1 .. NodeOrder |-> FieldOf(i, node.children)]
                        \o [i \in 1 .. NodeOrder - 1 |-> FieldOf(i, sizes)]
                        \o FlattenSeq(keys)
        /\ UNCHANGED <<node, again>>

(* The reader knows only the order: where a key starts is the sum of the   *)
(* sizes before it.                                                        *)
btreeReadNodeBlock ==
    LET count    == buffer[1]
        size(i)  == buffer[1 + NodeOrder + i]
        start(i) == 2 * NodeOrder + MapThenSumSet(size, 1 .. i - 1)
        keys     == [i \in 1 .. count |-> SubSeq(buffer, start(i) + 1, start(i) + size(i))]
    IN  /\ buffer # <<>> /\ again = NoNode
        /\ again' = [keys     |-> IF count >= 2 THEN uncompressNode(keys) ELSE keys,
                     children |-> SubSeq(buffer, 2, 1 + NodeOrder)]
        /\ UNCHANGED <<node, buffer>>

(* The nodes that occur: keys in order, fewer than children.               *)
Ascending(keys) == \A i \in 1 .. Len(keys) - 1 : KeyLess(keys[i], keys[i + 1])
Nodes == {[keys |-> k, children |-> c] :
             k \in {s \in UNION {[1 .. n -> NodeKey] : n \in 0 .. NodeOrder - 1} : Ascending(s)},
             c \in [1 .. NodeOrder -> Address]}
NodeOff  == node = NoNode /\ buffer = <<>> /\ again = NoNode
NodeInit == node \in Nodes /\ buffer = <<>> /\ again = NoNode
NodeNext == btreeWriteNodeBlock \/ btreeReadNodeBlock

(* The node that is read is the one that was written, keys that share more *)
(* than a byte can say included; and the block is as long as the size that *)
(* was asked for it.                                                       *)
NodeRoundTrip ==
    /\ again # NoNode => again = node
    /\ buffer # <<>> =>
          LET n == 2 * NodeOrder
              written == Octets.count + NodeOrder * Octets.child
                            + (NodeOrder - 1) * Octets.size + Len(buffer) - n
          IN  getNodeSize(SubSeq(buffer, NodeOrder + 2, n)) = written
=============================================================================
