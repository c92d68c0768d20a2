----------------------------- MODULE MCBzStream -----------------------------
(***************************************************************************)
(* Sources for BzStream: with blocks of four and runs of at most six they  *)
(* end before, at and behind a full block, in the middle of a run, behind  *)
(* a count, and with runs that fill a block to its brim.                   *)
(***************************************************************************)
EXTENDS BzStream

Sources == {<<>>, <<0>>, <<0, 0, 0, 0>>, <<1, 0, 0, 0, 1, 1>>, <<0, 1, 2, 0, 1>>,
            <<2, 2, 2, 1, 1, 1, 1, 1, 1, 1>>, <<0, 0, 0, 0, 0, 0, 0, 1, 0>>}
=============================================================================
