----------------------------- MODULE BzCompress -----------------------------
(***************************************************************************)
(* libbzip2's compressor (bzlib.c, compress.c): the run-length stage in    *)
(* front of the block sort, blocks that end where they are full, and a     *)
(* resumable BZ2_bzCompress that stops where input or room ends.           *)
(*                                                                         *)
(* A byte is a small number.  What a block becomes behind the block sort   *)
(* is module BzBlock's; here a compressed stream is a sequence of tokens,  *)
(* and a token stands for the bits of one field.  Fields do not end on     *)
(* bytes, so that the last one written stays in bsBuff until the next.     *)
(***************************************************************************)
EXTENDS Integers, Sequences, SequencesExt

CONSTANTS
    BlockSize,      \* 100000 * blockSize100k
    MaxRun,         \* the longest run of the first stage, 255
    CrcMod          \* the width of the CRCs

ASSUME CompressAssumption ==
    /\ BlockSize \in Nat /\ BlockSize > 19
    /\ MaxRun \in Nat /\ MaxRun >= 4
    /\ CrcMod \in Nat \ {0}

nblockMAX == BlockSize - 19
NoChar == -1

Token(kind, value) == [kind |-> kind, value |-> value]

(* BZ_UPDATE_CRC over a run, and the rotation that adds a block's CRC to   *)
(* the stream's.                                                           *)
UpdateCrc(crc, bytes) == FoldSeq(LAMBDA b, c : (3 * c + b + 1) % CrcMod, crc, Reverse(bytes))
Combine(combined, crc) == (2 * combined + crc) % CrcMod

init_RL(s) == [s EXCEPT !.ch = NoChar, !.len = 0]
isempty_RL(s) == s.ch = NoChar \/ s.len = 0

(* Mutant: the next block goes on with the CRC of the last.               *)
prepare_keeping_crc(s) ==
    [s EXCEPT !.block = <<>>, !.zbits = <<>>, !.pos = 0, !.inUse = {}, !.blockNo = @ + 1]

prepare_new_block(s) ==
    [s EXCEPT !.block = <<>>, !.zbits = <<>>, !.pos = 0, !.blockCRC = 0,
              !.inUse = {}, !.blockNo = @ + 1]

CompressInit ==
    [mode |-> "RUNNING", state |-> "INPUT", block |-> <<>>, ch |-> NoChar, len |-> 0,
     zbits |-> <<>>, pos |-> 0, buff |-> <<>>, expect |-> 0, blockNo |-> 1,
     blockCRC |-> 0, combinedCRC |-> 0, inUse |-> {}]

Repeat(n, byte) == [i \in 1 .. n |-> byte]

(* Four equal bytes announce a count of the ones that follow them.         *)
Pair(ch, len) == IF len < 4 THEN Repeat(len, ch) ELSE Repeat(4, ch) \o <<len - 4>>

(* Mutant: the count byte is not known to be in use.                       *)
add_pair_unmarked(s) ==
    [s EXCEPT !.blockCRC = UpdateCrc(@, Repeat(s.len, s.ch)),
              !.inUse = @ \cup {s.ch},
              !.block = @ \o Pair(s.ch, s.len)]

add_pair_to_block(s) ==
    [s EXCEPT !.blockCRC = UpdateCrc(@, Repeat(s.len, s.ch)),
              !.inUse = @ \cup {s.ch} \cup (IF s.len < 4 THEN {} ELSE {s.len - 4}),
              !.block = @ \o Pair(s.ch, s.len)]

flush_RL(s) == init_RL(IF s.ch # NoChar THEN add_pair_to_block(s) ELSE s)

(* ADD_CHAR_TO_BLOCK.                                                      *)
AddChar(s, byte) ==
    IF byte # s.ch \/ s.len = MaxRun
    THEN [(IF s.ch # NoChar THEN add_pair_to_block(s) ELSE s)
             EXCEPT !.ch = byte, !.len = 1]
    ELSE [s EXCEPT !.len = @ + 1]

(* bsW and bsFinishWrite: what was in the buffer is written out.           *)
Put(s, token) == [s EXCEPT !.zbits = @ \o s.buff, !.buff = <<token>>]
bsFinishWrite(s) == [s EXCEPT !.zbits = @ \o s.buff, !.buff = <<>>]

(* BZ2_compressBlock, in its three parts.                                  *)
StreamHeader(s) ==
    IF s.blockNo = 1 THEN Put([s EXCEPT !.buff = <<>>], Token("BZh", <<BlockSize>>)) ELSE s
BlockBody(s) ==
    IF s.block = <<>> THEN s
    ELSE Put(Put(Put(s, Token("block", <<s.blockCRC>>)),
                 Token("map", SetToSortSeq(s.inUse, <))),
             Token("body", s.block))
StreamTrailer(s) ==
    bsFinishWrite(Put(Put(s, Token("end", <<>>)), Token("crc", <<s.combinedCRC>>)))

compressBlock(s, last) ==
    LET closed == IF s.block = <<>> THEN s
                  ELSE [s EXCEPT !.combinedCRC = Combine(@, s.blockCRC)]
        sent   == BlockBody(StreamHeader(closed))
    IN  IF last THEN StreamTrailer(sent) ELSE sent

(* A call: the stream, the bytes at next_in, what was written to next_out  *)
(* and the room left there.                                                *)
CallOf(s, in, room) == [s |-> s, in |-> in, out |-> <<>>, room |-> room]

BlockFull(s) == Len(s.block) >= nblockMAX
Expected(s) == s.mode = "RUNNING" \/ s.expect > 0

(* Mutant: a run ends where a call's input does.                           *)
RECURSIVE copy_input_ending_run(_)
copy_input_ending_run(c) ==
    IF BlockFull(c.s) \/ ~Expected(c.s) THEN c
    ELSE IF c.in = <<>> THEN [c EXCEPT !.s = flush_RL(@)]
    ELSE LET s == AddChar(c.s, Head(c.in))
         IN  copy_input_ending_run(
                [c EXCEPT !.in = Tail(@),
                          !.s = IF s.mode = "RUNNING" THEN s ELSE [s EXCEPT !.expect = @ - 1]])

RECURSIVE copy_input_until_stop(_)
copy_input_until_stop(c) ==
    IF BlockFull(c.s) \/ c.in = <<>> \/ ~Expected(c.s) THEN c
    ELSE LET s == AddChar(c.s, Head(c.in))
         IN  copy_input_until_stop(
                [c EXCEPT !.in = Tail(@),
                          !.s = IF s.mode = "RUNNING" THEN s ELSE [s EXCEPT !.expect = @ - 1]])

copy_output_until_stop(c) ==
    LET n == IF c.room < Len(c.s.zbits) - c.s.pos THEN c.room ELSE Len(c.s.zbits) - c.s.pos
    IN  [c EXCEPT !.out = @ \o SubSeq(c.s.zbits, c.s.pos + 1, c.s.pos + n),
                  !.room = @ - n, !.s.pos = @ + n]

AtEnd(s, mode) == s.mode = mode /\ s.expect = 0 /\ isempty_RL(s)

(* Mutant: the pending run is forgotten where the flush ends.              *)
FilledWithoutRun(s) ==
    IF s.mode # "RUNNING" /\ s.expect = 0
    THEN <<compressBlock(init_RL(s), s.mode = "FINISHING")>>
    ELSE IF BlockFull(s) THEN <<compressBlock(s, FALSE)>> ELSE <<>>

(* The block that is complete after the input was copied, if one is.       *)
Filled(s) ==
    IF s.mode # "RUNNING" /\ s.expect = 0
    THEN <<compressBlock(flush_RL(s), s.mode = "FINISHING")>>
    ELSE IF BlockFull(s) THEN <<compressBlock(s, FALSE)>> ELSE <<>>

RECURSIVE handle_compress(_)
GoOn(c, filled) ==
    IF filled = <<>> THEN c
    ELSE handle_compress([c EXCEPT !.s = [filled[1] EXCEPT !.state = "OUTPUT"]])
AfterInput(c) == GoOn(c, Filled(c.s))
NextBlock(c) == [c EXCEPT !.s = [prepare_new_block(c.s) EXCEPT !.state = "INPUT"]]
AfterOutput(c) ==
    IF c.s.pos < Len(c.s.zbits) \/ AtEnd(c.s, "FINISHING") THEN c
    ELSE IF AtEnd(c.s, "FLUSHING") THEN NextBlock(c)
    ELSE AfterInput(copy_input_until_stop(NextBlock(c)))
handle_compress(c) ==
    IF c.s.state = "OUTPUT" THEN AfterOutput(copy_output_until_stop(c))
    ELSE AfterInput(copy_input_until_stop(c))

Progress(before, after) == after.in # before.in \/ after.out # before.out

(* Mutant: compressed bytes that found no room are not pending.            *)
PendingInput(s) == s.expect > 0 \/ ~isempty_RL(s)
Pending(s) == s.expect > 0 \/ ~isempty_RL(s) \/ s.pos < Len(s.zbits)

(* BZ2_bzCompress: the call after it, and what it returns.                 *)
Ended(c, next, ret) == [call |-> [c EXCEPT !.s.mode = next], ret |-> ret]
Answer(before, after) ==
    CASE before.s.mode = "RUNNING" ->
           Ended(after, "RUNNING", IF Progress(before, after) THEN "RUN_OK" ELSE "PARAM_ERROR")
      [] before.s.mode = "FLUSHING" ->
           IF Pending(after.s) THEN Ended(after, "FLUSHING", "FLUSH_OK")
           ELSE Ended(after, "RUNNING", "RUN_OK")
      [] before.s.mode = "FINISHING" ->
           IF ~Progress(before, after) THEN Ended(after, "FINISHING", "SEQUENCE_ERROR")
           ELSE IF Pending(after.s) THEN Ended(after, "FINISHING", "FINISH_OK")
           ELSE Ended(after, "IDLE", "STREAM_END")

Begun(s, action, n) ==
    IF s.mode # "RUNNING" \/ action = "RUN" THEN s
    ELSE [s EXCEPT !.mode = IF action = "FLUSH" THEN "FLUSHING" ELSE "FINISHING", !.expect = n]
Illegal(s, action, n) ==
    \/ s.mode = "IDLE"
    \/ s.mode = "FLUSHING" /\ (action # "FLUSH" \/ s.expect # n)
    \/ s.mode = "FINISHING" /\ (action # "FINISH" \/ s.expect # n)
CompressFrom(before, action) ==
    IF Illegal(before.s, action, Len(before.in))
    THEN [call |-> before, ret |-> "SEQUENCE_ERROR"]
    ELSE Answer(before, handle_compress(before))
Compress(s, in, room, action) ==
    CompressFrom(CallOf(Begun(s, action, Len(in)), in, room), action)

(* BZ2_bzBuffToBuffCompress.                                               *)
BuffCompressed(done) ==
    [ret |-> CASE done.ret = "FINISH_OK"  -> "OUTBUFF_FULL"
               [] done.ret = "STREAM_END" -> "OK"
               [] OTHER -> done.ret,
     dest |-> done.call.out]
BuffToBuffCompress(source, room) ==
    BuffCompressed(Compress(CompressInit, source, room, "FINISH"))
=============================================================================
