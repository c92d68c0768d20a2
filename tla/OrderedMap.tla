----------------------------- MODULE OrderedMap -----------------------------
(***************************************************************************)
(* What a client of a tree may rely on: a map from keys to values, seen    *)
(* through btreeSearch, and the answers of btreeInsert and btreeDelete.    *)
(* 0 stands for "no value": btreeSearch answers 0 for a key it does not    *)
(* find (btree.h:144), so a stored 0 cannot be told from an absent key.    *)
(***************************************************************************)
EXTENDS Naturals

CONSTANTS
    Key,        \* keys, up to StringCompare
    Value,      \* values a client stores; 0 is not one of them
    Mode        \* access modes the client opens the file in

SUCCESS   == 0
DUPLICATE == 1
ERROR     == 2

VARIABLES
    map,        \* [Key -> Value \cup {0}]
    mode,       \* "rw", "ro" or "test"
    answer      \* the last call, its arguments and its result

(* A new key is added.  A key that is there either takes the new value or  *)
(* keeps the old one, and then the caller is told so.                      *)
Insert(k, v) ==
    /\ mode = "rw"
    /\ \/ /\ answer' = <<"insert", k, v, SUCCESS>>
          /\ map' = [map EXCEPT ![k] = v]
       \/ /\ answer' = <<"insert", k, v, DUPLICATE>>
          /\ map[k] # 0
          /\ UNCHANGED map
    /\ UNCHANGED mode

(* The caller gets the value that was removed, or 0.                       *)
Delete(k) ==
    /\ mode = "rw"
    /\ answer' = <<"delete", k, map[k]>>
    /\ map' = [map EXCEPT ![k] = 0]
    /\ UNCHANGED mode

(* A file opened for a test tells what a call would find and is not        *)
(* changed; one opened for reading refuses the call.                       *)
Attempt(k) ==
    /\ mode # "rw"
    /\ answer' \in
          IF mode = "test"
          THEN {<<"insert", k, IF map[k] # 0 THEN DUPLICATE ELSE SUCCESS>>,
                <<"delete", k, map[k]>>}
          ELSE {<<"insert", k, ERROR>>, <<"delete", k, 0>>}
    /\ UNCHANGED <<map, mode>>

Open(m) ==
    /\ answer' = <<"open", m>>
    /\ mode' = m
    /\ UNCHANGED map

Init ==
    /\ map = [k \in Key |-> 0]
    /\ mode = "rw"
    /\ answer = <<"open", "rw">>

Next ==
    \/ \E k \in Key, v \in Value : Insert(k, v)
    \/ \E k \in Key : Delete(k) \/ Attempt(k)
    \/ \E m \in Mode : Open(m)

Spec == Init /\ [][Next]_<<map, mode, answer>>
=============================================================================
