---------------------------- MODULE MCBlockStore ----------------------------
(* BlockStore on two objects of two types, with the unit sizes, header and *)
(* offset sizes of a 32-bit long build.  A node fills 1 unit exactly, one  *)
(* byte more, or 3 units; a tree header always fits its unit.              *)
EXTENDS BlockStore, TLC

MCType == {"node", "header"}
MCMultiple == [t \in MCType |-> IF t = "node" THEN 256 ELSE 32]
MCDataSize == [t \in MCType |-> IF t = "node" THEN {241, 242, 500} ELSE {13}]
MCMaxEnd == 2064 + 4 * 256 + 32

Symmetry == Permutations(Block)
=============================================================================
