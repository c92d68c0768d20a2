------------------------------ MODULE BTreeNode ------------------------------
(***************************************************************************)
(* What the B+tree does to single nodes: the array shuffling of            *)
(* btree_insert.c and btree_delete.c as functions on sequences.            *)
(*                                                                         *)
(* A node is a record: leaf, keys, kids.  kids has one entry more than     *)
(* keys.  In an internal node they are offsets of children; in a leaf they *)
(* are the values, and the last one is the offset of the next leaf (0: no  *)
(* next).  Keys are integers, compared as StringCompare compares texts.    *)
(* Child numbers are counted from 1: child c has separator c to its right. *)
(***************************************************************************)
EXTENDS Integers, Sequences, SequencesExt

CONSTANT
    Order       \* children of a full node; btreeCreateHeader always says 19

ASSUME OrderAssumption == Order \in Nat /\ Order >= 3

MaxKeys == Order - 1
MinLeaf == Order \div 2
MinInt  == (Order + 1) \div 2 - 1

Leaf(keys, kids) == [leaf |-> TRUE, keys |-> keys, kids |-> kids]
Internal(keys, kids) == [leaf |-> FALSE, keys |-> keys, kids |-> kids]

MinKeys(node) == IF node.leaf THEN MinLeaf ELSE MinInt
(* Mutant: one key too many.                                               *)
FullLate(node) == Len(node.keys) > MaxKeys

Full(node) == Len(node.keys) >= MaxKeys

(* The loop every operation starts with: the first key not below k.        *)
Pos(keys, k) ==
    CHOOSE i \in 1 .. Len(keys) + 1 :
        /\ i <= Len(keys) => keys[i] >= k
        /\ \A j \in 1 .. i - 1 : keys[j] < k

Holds(node, k) ==
    LET i == Pos(node.keys, k) IN i <= Len(node.keys) /\ node.keys[i] = k

-----------------------------------------------------------------------------
(* Insertion.  x is a value in a leaf; in an internal node it is the new   *)
(* child to the right of k.                                                *)

KeysWith(node, k) == InsertAt(node.keys, Pos(node.keys, k), k)
KidsWith(node, k, x) ==
    InsertAt(node.kids, Pos(node.keys, k) + (IF node.leaf THEN 0 ELSE 1), x)

(* Mutant: a key that is there is left alone.                              *)
AddKeyOnce(node, k, x) ==
    IF Holds(node, k)
    THEN node
    ELSE [node EXCEPT !.keys = KeysWith(node, k), !.kids = KidsWith(node, k, x)]

(* __addKey: a key that is there gets the new kid.                         *)
AddKey(node, k, x) ==
    IF Holds(node, k)
    THEN [node EXCEPT !.kids[Pos(node.keys, k)] = x]
    ELSE [node EXCEPT !.keys = KeysWith(node, k), !.kids = KidsWith(node, k, x)]

(* __splitNode: keys kept on the left.  A leaf copies its last left key    *)
(* up, an internal node moves the key behind the left ones up.             *)
LeftCount(node) == IF node.leaf THEN (Order + 1) \div 2 ELSE Order \div 2

(* Mutant: the first key of the right leaf goes up.                        *)
SplitKeyRight(node, k) == KeysWith(node, k)[LeftCount(node) + 1]

SplitKey(node, k) ==
    KeysWith(node, k)[IF node.leaf THEN LeftCount(node) ELSE LeftCount(node) + 1]

SplitRight(node, k, x) ==
    LET n    == LeftCount(node)
        skip == IF node.leaf THEN n ELSE n + 1
    IN  [node EXCEPT !.keys = SubSeq(KeysWith(node, k), skip + 1, Order),
                     !.kids = SubSeq(KidsWith(node, k, x), skip + 1, Order + 1)]

(* Mutant: the left leaf keeps its old link.                               *)
SplitLeftUnlinked(node, k, x, right) ==
    LET n == LeftCount(node)
    IN  [node EXCEPT !.keys = SubSeq(KeysWith(node, k), 1, n),
                     !.kids = IF node.leaf
                              THEN Append(SubSeq(KidsWith(node, k, x), 1, n), Last(node.kids))
                              ELSE SubSeq(KidsWith(node, k, x), 1, n + 1)]

SplitLeft(node, k, x, right) ==
    LET n == LeftCount(node)
    IN  [node EXCEPT !.keys = SubSeq(KeysWith(node, k), 1, n),
                     !.kids = IF node.leaf
                              THEN Append(SubSeq(KidsWith(node, k, x), 1, n), right)
                              ELSE SubSeq(KidsWith(node, k, x), 1, n + 1)]

-----------------------------------------------------------------------------
(* Removal.                                                                *)

(* __removeKey2, and __removeKey once it has found the key.                *)
RemoveKey(node, i) ==
    [node EXCEPT !.keys = RemoveAt(node.keys, i), !.kids = RemoveAt(node.kids, i)]

(* The three nodes a rebalancing step works on.  node is child c of prev,  *)
(* sib the sibling next to it.                                             *)
Trio(node, prev, sib) == [node |-> node, prev |-> prev, sib |-> sib]

(* text[key] is what a key reads as after its memory was freed.            *)

(* __borrowRight.  The text freed to make room for the new separator is    *)
(* rootNode->keys[div] and not prevNode->keys[div], so slot c of node, if  *)
(* it is in use, is left without its text.                                 *)
FreeSlot(keys, c, text) ==
    IF c <= Len(keys) THEN [keys EXCEPT ![c] = text[@]] ELSE keys

BorrowRightLeaf(node, prev, sib, c, text) ==
    LET n    == Len(node.keys)
        keys == FreeSlot(Append(node.keys, sib.keys[1]), c, text)
    IN  Trio([node EXCEPT !.keys = keys, !.kids = InsertAt(@, n + 1, sib.kids[1])],
             [prev EXCEPT !.keys[c] = keys[n + 1]],
             RemoveKey(sib, 1))

BorrowRightInt(node, prev, sib, c, text) ==
    LET keys == FreeSlot(Append(node.keys, prev.keys[c]), c, text)
    IN  Trio([node EXCEPT !.keys = keys, !.kids = Append(@, sib.kids[1])],
             [prev EXCEPT !.keys[c] = sib.keys[1]],
             RemoveKey(sib, 1))

(* Mutant: the key lent becomes the separator.                             *)
BorrowLeftLeafKey(node, prev, sib, c) ==
    LET n == Len(sib.keys)
    IN  Trio([node EXCEPT !.keys = <<sib.keys[n]>> \o @, !.kids = <<sib.kids[n]>> \o @],
             [prev EXCEPT !.keys[c - 1] = sib.keys[n]],
             RemoveKey(sib, n))

(* __borrowLeft.                                                           *)
BorrowLeftLeaf(node, prev, sib, c) ==
    LET n == Len(sib.keys)
    IN  Trio([node EXCEPT !.keys = <<sib.keys[n]>> \o @, !.kids = <<sib.kids[n]>> \o @],
             [prev EXCEPT !.keys[c - 1] = sib.keys[n - 1]],
             RemoveKey(sib, n))

BorrowLeftInt(node, prev, sib, c) ==
    LET n == Len(sib.keys)
    IN  Trio([node EXCEPT !.keys = <<prev.keys[c - 1]>> \o @,
                          !.kids = <<sib.kids[n + 1]>> \o @],
             [prev EXCEPT !.keys[c - 1] = sib.keys[n]],
             [sib EXCEPT !.keys = Front(@), !.kids = Front(@)])

(* Mutant: the last entry of the right node is left out.                   *)
JoinedShort(left, separator, right) ==
    LET kids == RemoveAt(right.kids, Len(right.keys))
    IN  IF left.leaf
        THEN [left EXCEPT !.keys = @ \o Front(right.keys), !.kids = Front(@) \o kids]
        ELSE [left EXCEPT !.keys = Append(@, separator) \o Front(right.keys),
                          !.kids = @ \o kids]

(* __mergeNode: the right node's keys and kids behind the left one's; an   *)
(* internal node takes the separator down in between.                      *)
Joined(left, separator, right) ==
    IF left.leaf
    THEN [left EXCEPT !.keys = @ \o right.keys, !.kids = Front(@) \o right.kids]
    ELSE [left EXCEPT !.keys = Append(@, separator) \o right.keys,
                      !.kids = @ \o right.kids]

(* prev afterwards: its child c is the joined node, the separator is gone. *)
Closed(prev, c, offset) ==
    RemoveKey([prev EXCEPT !.kids[c + 1] = offset], c)

(* Merging with the right sibling frees the sibling's keys, from slot      *)
(* Len(node.keys) on, before it copies them.                               *)
FreedAhead(node, sib, text) ==
    [sib EXCEPT !.keys = [i \in DOMAIN @ |->
                             IF i > Len(node.keys) THEN text[@[i]] ELSE @[i]]]
=============================================================================
