------------------------------- MODULE MCGdb -------------------------------
(***************************************************************************)
(* The parts of a GDB file beside its trees, one at a time.                *)
(*                                                                         *)
(* BlockCache has three objects, which are interchangeable, and a table of *)
(* four slots.  The offsets belong in slots 0, 0, 3 and 3, so that         *)
(* clusters run past the end of the table; the cache is full with two      *)
(* blocks.                                                                 *)
(***************************************************************************)
EXTENDS BlockCache, HashTable, OffsetList, Database

VARIABLE part

Symmetry == Permutations(Object)

MCInit ==
    /\ part \in {"cache", "hashtable", "offsetlist", "database"}
    /\ Init /\ TableInit /\ ListInit /\ DatabaseInit

MCNext ==
    /\ \/ part = "cache" /\ Next /\ UNCHANGED <<htvars, olvars, dbvars>>
       \/ part = "hashtable" /\ TableNext /\ UNCHANGED <<vars, olvars, dbvars>>
       \/ part = "offsetlist" /\ ListNext /\ UNCHANGED <<vars, htvars, dbvars>>
       \/ part = "database" /\ DatabaseNext /\ UNCHANGED <<vars, htvars, olvars>>
    /\ UNCHANGED part

MCSpec == MCInit /\ [][MCNext]_<<part, vars, htvars, olvars, dbvars>>
=============================================================================
