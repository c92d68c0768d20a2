---------------------------- MODULE BTreeCursor ----------------------------
(***************************************************************************)
(* A traversal (btree_traverse.c) beside the client's inserts and deletes, *)
(* and a process that dies inside an insert.                               *)
(*                                                                         *)
(* The traversal holds the object of a leaf and a position in it from one  *)
(* call to the next, and nobody tells it what happens to the leaf.         *)
(***************************************************************************)
EXTENDS BTree

VARIABLES
    walk,       \* the traversal and what it has returned
    interrupted \* of the keys stored before the insert the process died
                \* in, those that are still to be found, as a set in a set;
                \* {}: the process is alive

cvars == <<vars, walk, interrupted>>

(* state: "off" no traversal, "on" under way, "ended" it has said -1,      *)
(* "lost" it reads behind the leaf's array of children, "hung" the call    *)
(* does not return.  at, pos: trav->node and                               *)
(* trav->pos.  The rest records, for the properties: the keys that were    *)
(* stored when it began and are still due (none after a delete), the last  *)
(* key returned (0: the tree has changed since, or no key has been), and   *)
(* whether keys came in ascending order for as long as nothing changed.    *)
NoWalk == [state |-> "off", at |-> 0, pos |-> 0, due |-> {}, last |-> 0,
           calm |-> TRUE, ascending |-> TRUE]

Walking == walk.state = "on"

(* The value at children[i] of leaf o is returned; C counts from 0.        *)
Returned(w, o, i) ==
    LET key == file.read[o].keys[i + 1]
    IN  [w EXCEPT !.at = o, !.pos = i + 1, !.due = @ \ {key},
                  !.last = IF w.calm THEN key ELSE 0,
                  !.ascending = @ /\ (w.calm /\ w.pos # 0 => w.last < key)]

(* btreeInitTraversal and btreeGetFirstOffset.  The leftLeaf of a tree     *)
(* that has lost its last key names an erased leaf; no traversal is begun  *)
(* there.                                                                  *)
GetFirst ==
    /\ walk.state = "off"
    /\ interrupted = {}
    /\ GetField(file, LEFTLEAF) = 0 \/ StoredKeys # {}
    /\ LET w == [NoWalk EXCEPT !.state = "on", !.due = StoredKeys]
       IN  walk' = IF GetField(file, LEFTLEAF) = 0
                   THEN [w EXCEPT !.state = "ended"]
                   ELSE Returned(w, GetField(file, LEFTLEAF), 0)
    /\ UNCHANGED <<vars, interrupted>>

(* Behind the keys of a leaf that has become shorter: children[pos] is     *)
(* handed out, an old offset or 0, as long as the array has it.            *)
Strays(w) == IF w.pos > MaxKeys THEN [w EXCEPT !.state = "lost"] ELSE [w EXCEPT !.pos = @ + 1]

(* Mutant: the first value of the next leaf is passed over.                *)
StepSkips(w) ==
    LET node == file.read[w.at]
        next == Last(node.kids)
        enter == next # 0 /\ Len(file.read[next].keys) > 1
    IN  IF w.pos < Len(node.keys) THEN Returned(w, w.at, w.pos)
        ELSE IF w.pos > Len(node.keys) THEN Strays(w)
        ELSE IF next = 0 THEN [w EXCEPT !.state = "ended", !.at = 0]
        ELSE Returned(w, next, IF enter THEN 1 ELSE 0)

(* Mutant: a leaf that was used up is entered again.                       *)
StepStays(w) ==
    LET node == file.read[w.at]
        next == Last(node.kids)
    IN  IF w.pos < Len(node.keys) THEN Returned(w, w.at, w.pos)
        ELSE IF w.pos > Len(node.keys) THEN Strays(w)
        ELSE IF next = 0 THEN [w EXCEPT !.state = "ended", !.at = 0]
        ELSE Returned(w, IF Len(node.keys) = MaxKeys THEN w.at ELSE next, 0)

Step(w) ==
    LET node == file.read[w.at]
        next == Last(node.kids)
    IN  IF w.pos < Len(node.keys) THEN Returned(w, w.at, w.pos)
        ELSE IF w.pos > Len(node.keys) THEN Strays(w)
        ELSE IF next = 0 THEN [w EXCEPT !.state = "ended", !.at = 0]
        ELSE Returned(w, next, 0)

(* btreeGetNextOffset.  Only pos = keyCount ends a leaf, so one that has   *)
(* become shorter is left only if it grows to pos again.                   *)
GetNext ==
    /\ Walking
    /\ walk' = Step(walk)
    /\ UNCHANGED <<vars, interrupted>>

(* It is called once more after -1: without a node it calls itself, for    *)
(* ever (and so it does when it is called before btreeGetFirstOffset).     *)
CallAgain ==
    /\ walk.state = "ended"
    /\ walk' = [walk EXCEPT !.state = "hung"]
    /\ UNCHANGED <<vars, interrupted>>

(* btreeDestroyTraversal.                                                  *)
EndWalk ==
    /\ walk.state \notin {"off", "hung"}
    /\ walk' = NoWalk
    /\ UNCHANGED <<vars, interrupted>>

(* The client's other calls.                                               *)
Beside(call) ==
    /\ interrupted = {} /\ walk.state # "hung"
    /\ walk' = IF Walking
               THEN [walk EXCEPT !.calm = FALSE, !.last = 0,
                                 !.due = IF call = "insert" THEN @ ELSE {}]
               ELSE walk
    /\ UNCHANGED interrupted

(* A write of a node that the process does not live through: gdbWriteBlock *)
(* flushes the block's header, with the new size of the data and the next  *)
(* unit, before it writes the data.  was and is are the file before and    *)
(* behind the write, o the node; what is left on disk, and which of the    *)
(* keys a reader still has to find.                                        *)

(* Of the node on disk only the texts of the first n keys can be read; the *)
(* others are bytes of something else.  The children stand before them.    *)
CutShort(e, o, n, keys) ==
    [disk |-> [e.disk EXCEPT ![o].keys = SubSeq(e.disk[o].keys, 1, n)], hdr |-> e.hdr,
     keys |-> {k \in keys : \A i \in n + 1 .. Len(e.disk[o].keys) : e.disk[o].keys[i] # k}]

(* The node cannot be read, as its header names a unit that is not there:  *)
(* the chain of leaves ends with the one before it.                        *)
Broken(e, o, keys) ==
    [disk |-> [e.disk EXCEPT ![o] = Leaf(<<>>, <<0>>)], hdr |-> e.hdr,
     keys |-> {k \in keys : Len(e.disk[o].keys) > 0 /\ k < e.disk[o].keys[1]}]

(* Header new, data old: it holds what both have.  Header and first unit   *)
(* new, the other units old: how many keys the first holds is a matter of  *)
(* their lengths.  Header new, further units not yet there.                *)
TornAt(was, is, o, keys) ==
    LET old == was.disk[o].keys
        new == is.disk[o].keys
    IN  {CutShort(was, o, n, keys) : n \in Cardinality({i \in DOMAIN old : old[i] \in ToSet(new)}) .. Len(old)}
            \cup {CutShort(is, o, n, keys) : n \in 0 .. Len(new)}
            \cup {Broken(was, o, keys)}

Torn(was, is, keys) ==
    UNION {TornAt(was, is, o, keys) :
              o \in {o \in DOMAIN was.disk \cap DOMAIN is.disk : was.disk[o] # is.disk[o] /\ is.disk[o].leaf}}

(* The process dies in btreeInsert, between two writes or in one, and      *)
(* another one opens the file.  (A new node that is torn is one nothing    *)
(* leads to yet; of an inner node no key is asked.)                        *)
Crash(k, v) ==
    /\ interrupted = {} /\ walk.state = "off"
    /\ mode = "rw" /\ ~file.aborted /\ Search(file, k) = 0
    /\ ReopenFirst => file.retired = {}
    /\ Size(file) % WordBase < MaxSize
    /\ LET log == InsertInto(file, k, v).log
       IN  \E i \in DOMAIN log :
              \E left \in {[disk |-> log[i].disk, hdr |-> log[i].hdr, keys |-> StoredKeys]}
                             \cup Torn(IF i = 1 THEN file ELSE log[i - 1], log[i], StoredKeys) :
                 /\ file' = [file EXCEPT !.read = left.disk, !.disk = left.disk, !.dirty = {},
                                         !.retired = {}, !.free = log[i].free, !.end = log[i].end,
                                         !.hdr = left.hdr]
                 /\ interrupted' = {left.keys}
    /\ mode' = "ro" /\ answer' = <<"open", "ro">>
    /\ UNCHANGED walk

CursorInit == Init /\ walk = NoWalk /\ interrupted = {}

CursorNext ==
    \/ \E k \in Key, v \in Value :
          \/ Insert(k, v) /\ Beside("insert")
          \/ Crash(k, v)
    \/ \E k \in Key : Delete(k) /\ Beside("delete")
    \/ walk.state = "off" /\ interrupted = {} /\ Reopen("rw") /\ UNCHANGED <<walk, interrupted>>
    \/ GetFirst \/ GetNext \/ CallAgain \/ EndWalk

(* btreeTraverse calls on until it has -1.                                 *)
CursorSpec == CursorInit /\ [][CursorNext]_cvars /\ WF_cvars(GetNext)

-----------------------------------------------------------------------------

(* The leaves on disk along the chain from leftLeaf; where one is not      *)
(* there the chain is broken.                                              *)
ChainOf(disk, first) ==
    LET at[n \in 0 .. Cardinality(DOMAIN disk)] ==
            IF n = 0 THEN first
            ELSE IF at[n - 1] \in DOMAIN disk THEN Last(disk[at[n - 1]].kids) ELSE 0
    IN  at

(* A traversal of that chain finds the keys, and all it finds in order.    *)
InOrder(disk, first, keys) ==
    LET chain  == ChainOf(disk, first)
        leaves == {n \in DOMAIN chain : chain[n] \in DOMAIN disk}
        at(n)  == disk[chain[n]].keys
    IN  /\ keys \subseteq UNION {ToSet(at(n)) : n \in leaves}
        /\ \A n \in leaves : \A i, j \in 1 .. Len(at(n)) : i < j => at(n)[i] < at(n)[j]
        /\ \A m, n \in leaves : m < n => \A i \in ToSet(at(m)), j \in ToSet(at(n)) : i < j

(* A walk that nothing disturbs returns every key once, ascending, and is  *)
(* not lost.  One beside inserts only may repeat keys that were pushed     *)
(* over its position, but if it comes to -1 it has missed none that was    *)
(* there when it began.  (Beside deletes it may miss keys.)                *)
WalkComplete ==
    /\ walk.ascending
    /\ walk.state = "ended" => walk.due = {}
    /\ walk.state = "lost" => ~walk.calm

(* A walk is not under way for ever, whatever is inserted and deleted      *)
(* beside it: no chain of leaves, the erased ones included, leads back,    *)
(* and new leaves run out with the keys.  It comes to -1, or it runs out   *)
(* of the children of a leaf that has become shorter: from there on no     *)
(* call says -1 any more, whatever btree.h:207 promises.                   *)
WalkEnds == Walking ~> walk.state \in {"ended", "off"} \/ (walk.state = "lost" /\ walk.pos > MaxKeys)

(* Wherever in an insert the process dies, the leaf chain on disk holds    *)
(* the keys that were stored before, in order: the right half of a leaf is *)
(* on disk before the left one gives it up.  All of them, if it dies       *)
(* between two writes.  In the write of a leaf those are lost whose text   *)
(* lies behind the size or the unit that is already new, and, if the leaf  *)
(* cannot be read at all, those behind it; no others.  (Not so inside a    *)
(* delete: a lent key leaves the sibling before it is written to its new   *)
(* leaf.)                                                                  *)
CrashKeepsChain ==
    \A keys \in interrupted : InOrder(file.disk, GetField(file, LEFTLEAF), keys)
=============================================================================
