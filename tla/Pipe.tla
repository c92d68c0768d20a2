-------------------------------- MODULE Pipe --------------------------------
(***************************************************************************)
(* What a compressor and a decompressor one behind the other promise: what *)
(* comes out is what went in, from its beginning, and the end is reported  *)
(* when all of it is out and not before.                                   *)
(***************************************************************************)
EXTENDS Sequences, SequencesExt

VARIABLES
    source,         \* what goes in
    delivered,      \* what came out so far
    ended           \* the end was reported

PipeInit == delivered = <<>> /\ ended = FALSE

Deliver ==
    /\ ~ended
    /\ delivered' # delivered
    /\ IsPrefix(delivered, delivered') /\ IsPrefix(delivered', source)
    /\ ended' \in BOOLEAN /\ (ended' => delivered' = source)

End ==
    /\ ~ended /\ delivered = source
    /\ ended' = TRUE /\ UNCHANGED delivered

PipeNext == (Deliver \/ End) /\ UNCHANGED source

PipeSpec == PipeInit /\ [][PipeNext]_<<source, delivered, ended>>
=============================================================================
