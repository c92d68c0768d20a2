---------------------------- MODULE BzDecompress ----------------------------
(***************************************************************************)
(* libbzip2's decompressor (bzlib.c, decompress.c), resumable wherever it  *)
(* needs a bit that is not there or room that is not there; with its two   *)
(* ways, fast and small, to undo the runs.  Randomised blocks, which no    *)
(* compressor since 0.9.5 writes, are left out.                            *)
(***************************************************************************)
EXTENDS BzCompress

DecompressInit(small) ==
    [state |-> "MAGIC", small |-> small, level |-> 0, map |-> {}, block |-> <<>>,
     storedBlockCRC |-> 0, calculatedBlockCRC |-> 0, calculatedCombinedCRC |-> 0,
     nblock_used |-> 0, k0 |-> 0, state_out_ch |-> 0, state_out_len |-> 0]

(* A call: the decompressor, next_in, what went to next_out, its room, and *)
(* what the call returns when it does.                                     *)
DCall(d, in, room) == [d |-> d, in |-> in, out |-> <<>>, room |-> room]

(* BZ2_decompress from the state it stopped in, one field at a time.       *)
Header(d, token) ==
    IF token.kind = "BZh" /\ token.value[1] > 0
    THEN <<[d EXCEPT !.level = token.value[1], !.state = "BLKHDR"]>> ELSE <<>>
BlockHeader(d, token) ==
    CASE token.kind = "end"   -> <<[d EXCEPT !.state = "CCRC"]>>
      [] token.kind = "block" -> <<[d EXCEPT !.storedBlockCRC = token.value[1],
                                             !.state = "MAPPING"]>>
      [] OTHER -> <<>>
Mapping(d, token) ==
    IF token.kind = "map" /\ token.value # <<>>
    THEN <<[d EXCEPT !.map = ToSet(token.value), !.state = "MTF"]>> ELSE <<>>
Values(d, token) ==
    IF token.kind = "body" /\ ToSet(token.value) \subseteq d.map /\ Len(token.value) <= d.level
    THEN <<[d EXCEPT !.block = token.value, !.state = "OUTPUT", !.state_out_len = 0,
                     !.state_out_ch = 0, !.calculatedBlockCRC = 0,
                     !.k0 = token.value[1], !.nblock_used = 1]>>
    ELSE <<>>
Field(d, token) ==
    CASE d.state = "MAGIC"   -> Header(d, token)
      [] d.state = "BLKHDR"  -> BlockHeader(d, token)
      [] d.state = "MAPPING" -> Mapping(d, token)
      [] d.state = "MTF"     -> Values(d, token)

(* BZ_GET_FAST, BZ_GET_SMALL: the permutation is followed round and round. *)
ByteAt(d, used) == d.block[(used % Len(d.block)) + 1]
EndOfBlock(d) == Len(d.block) + 1
Emit(c) ==
    [c EXCEPT !.out = Append(@, c.d.state_out_ch), !.room = @ - 1,
              !.d.calculatedBlockCRC = UpdateCrc(@, <<c.d.state_out_ch>>)]

(* A run is read after its first byte k0: the second and third bytes, then *)
(* the count behind the fourth.  "run" is its length so far.               *)
RECURSIVE ReadRun(_, _)
ReadRun(d, run) ==
    LET k1   == ByteAt(d, d.nblock_used)
        next == [d EXCEPT !.nblock_used = @ + 1, !.state_out_len = run]
    IN  CASE next.nblock_used = EndOfBlock(d) -> next
          [] next.nblock_used # EndOfBlock(d) /\ k1 # d.k0 -> [next EXCEPT !.k0 = k1]
          [] OTHER ->
               IF run < 3 THEN ReadRun(next, run + 1)
               ELSE LET count == ByteAt(d, next.nblock_used)
                    IN  [d EXCEPT !.state_out_len = count + 4,
                                  !.k0 = ByteAt(d, next.nblock_used + 1),
                                  !.nblock_used = @ + 3]

(* unRLE_obuf_to_output_SMALL: room is looked at before the end of the     *)
(* block is.                                                               *)
RECURSIVE unRLE_obuf_to_output_SMALL(_)
unRLE_obuf_to_output_SMALL(c) ==
    CASE c.room = 0 -> [call |-> c, corrupt |-> FALSE]
      [] c.room > 0 /\ c.d.state_out_len > 0 ->
           unRLE_obuf_to_output_SMALL([Emit(c) EXCEPT !.d.state_out_len = @ - 1])
      [] OTHER ->
           IF c.d.nblock_used >= EndOfBlock(c.d)
           THEN [call |-> c, corrupt |-> c.d.nblock_used > EndOfBlock(c.d)]
           ELSE unRLE_obuf_to_output_SMALL(
                   [c EXCEPT !.d = ReadRun([c.d EXCEPT !.state_out_ch = c.d.k0], 1)])

(* Mutant: the fast way loses a byte of a run it was stopped in.           *)
RECURSIVE FastForgetsRun(_)
FastForgetsRun(c) ==
    CASE c.d.state_out_len > 0 /\ c.room = 0 ->
           [call |-> [c EXCEPT !.d.state_out_len = @ - 1], corrupt |-> FALSE]
      [] c.d.state_out_len > 0 /\ c.room > 0 ->
           FastForgetsRun([Emit(c) EXCEPT !.d.state_out_len = @ - 1])
      [] OTHER ->
           IF c.d.nblock_used >= EndOfBlock(c.d)
           THEN [call |-> c, corrupt |-> c.d.nblock_used > EndOfBlock(c.d)]
           ELSE FastForgetsRun([c EXCEPT !.d = ReadRun([c.d EXCEPT !.state_out_ch = c.d.k0], 1)])

(* unRLE_obuf_to_output_FAST: a run in hand is finished first; a block     *)
(* that ends is seen to end with no room left too.                         *)
RECURSIVE unRLE_obuf_to_output_FAST(_)
unRLE_obuf_to_output_FAST(c) ==
    CASE c.d.state_out_len > 0 /\ c.room = 0 -> [call |-> c, corrupt |-> FALSE]
      [] c.d.state_out_len > 0 /\ c.room > 0 ->
           unRLE_obuf_to_output_FAST([Emit(c) EXCEPT !.d.state_out_len = @ - 1])
      [] OTHER ->
           IF c.d.nblock_used >= EndOfBlock(c.d)
           THEN [call |-> c, corrupt |-> c.d.nblock_used > EndOfBlock(c.d)]
           ELSE unRLE_obuf_to_output_FAST(
                   [c EXCEPT !.d = ReadRun([c.d EXCEPT !.state_out_ch = c.d.k0], 1)])

(* BZ2_bzDecompress.                                                       *)
BlockDone(d) ==
    [d EXCEPT !.state = "BLKHDR",
              !.calculatedCombinedCRC = Combine(@, d.calculatedBlockCRC)]

(* What undoing the runs leaves behind: a corrupt block, one that has more  *)
(* to give, or one that is done and has the CRC it should have or not.      *)
Undone(c) == IF c.d.small THEN unRLE_obuf_to_output_SMALL(c) ELSE unRLE_obuf_to_output_FAST(c)
HasMore(d) == d.nblock_used # EndOfBlock(d) \/ d.state_out_len # 0

(* The stream's own CRC, the last field.                                   *)
LastField(c) ==
    [call |-> [c EXCEPT !.in = Tail(@), !.d.state = "IDLE"],
     ret  |-> IF Head(c.in) = Token("crc", <<c.d.calculatedCombinedCRC>>)
              THEN "STREAM_END" ELSE "DATA_ERROR"]

RECURSIVE Decompress(_)
Checked(undone, after) ==
    CASE undone.corrupt -> [call |-> after, ret |-> "DATA_ERROR"]
      [] ~undone.corrupt /\ HasMore(after.d) -> [call |-> after, ret |-> "OK"]
      [] OTHER -> IF after.d.calculatedBlockCRC # after.d.storedBlockCRC
                  THEN [call |-> after, ret |-> "DATA_ERROR"]
                  ELSE Decompress([after EXCEPT !.d = BlockDone(after.d)])
Output(undone) == Checked(undone, undone.call)
AfterField(c, read) ==
    IF read = <<>>
    THEN [call |-> c, ret |-> IF c.d.state = "MAGIC" THEN "DATA_ERROR_MAGIC" ELSE "DATA_ERROR"]
    ELSE Decompress([c EXCEPT !.d = read[1]])
Decompress(c) ==
    CASE c.d.state = "IDLE"   -> [call |-> c, ret |-> "SEQUENCE_ERROR"]
      [] c.d.state = "OUTPUT" -> Output(Undone(c))
      [] OTHER ->
           CASE c.in = <<>> -> [call |-> c, ret |-> "OK"]
             [] c.in # <<>> /\ c.d.state = "CCRC" -> LastField(c)
             [] OTHER -> AfterField([c EXCEPT !.in = Tail(@)], Field(c.d, Head(c.in)))

(* BZ2_bzBuffToBuffDecompress.                                             *)
BuffDecompressed(done) ==
    [ret |-> CASE done.ret = "OK" -> IF done.call.room > 0 THEN "UNEXPECTED_EOF" ELSE "OUTBUFF_FULL"
               [] done.ret = "STREAM_END" -> "OK"
               [] OTHER -> done.ret,
     dest |-> done.call.out]
BuffToBuffDecompress(source, room, small) ==
    BuffDecompressed(Decompress(DCall(DecompressInit(small), source, room)))
=============================================================================
