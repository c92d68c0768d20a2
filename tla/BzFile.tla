-------------------------------- MODULE BzFile --------------------------------
(***************************************************************************)
(* The file layer of libbzip2 (bzlib.c, BZ2_bzWriteOpen to                 *)
(* BZ2_bzReadGetUnused), over stdio: a file of compressed data is a        *)
(* sequence of tokens of BzCompress; a FILE that is written has what came  *)
(* to the disk, what its buffer still holds, the space the disk has left   *)
(* and its error flag.                                                     *)
(***************************************************************************)
EXTENDS BzDecompress

CONSTANTS
    MaxUnused,          \* BZ_MAX_UNUSED, 5000
    StdioBuffer         \* the buffer of a FILE, BUFSIZ

ASSUME FileAssumption == MaxUnused \in Nat \ {0} /\ StdioBuffer \in Nat \ {0}

LeastOf(m, n) == IF m < n THEN m ELSE n

(* What there is space for comes to the disk, and the rest is an error.    *)
ToDisk(h, tokens, held) ==
    LET n == LeastOf(Len(tokens), h.space)
    IN  [tokens |-> h.tokens \o SubSeq(tokens, 1, n), held |-> held, space |-> h.space - n,
         ferr |-> h.ferr \/ n < Len(tokens)]

(* fwrite writes full buffers; the rest waits for the next call or fflush. *)
fwrite(h, tokens) ==
    LET all  == h.held \o tokens
        full == (Len(all) \div StdioBuffer) * StdioBuffer
    IN  ToDisk(h, SubSeq(all, 1, full), SubSeq(all, full + 1, Len(all)))
fflush(h) == ToDisk(h, h.held, <<>>)

bzWriteOpen == [s |-> CompressInit, lastErr |-> "OK"]

(* The loops of BZ2_bzWrite and BZ2_bzWriteClose: compress into the        *)
(* buffer, write the buffer.                                               *)
RECURSIVE WriteOut(_, _, _, _)
Flushed(done, action, h) ==
    IF h.ferr THEN [b |-> [s |-> done.call.s, lastErr |-> "IO_ERROR"], h |-> h]
    ELSE IF done.ret = "STREAM_END" \/ (action = "RUN" /\ done.call.in = <<>>)
    THEN [b |-> [s |-> done.call.s, lastErr |-> "OK"], h |-> h]
    ELSE WriteOut(done.call.s, done.call.in, action, h)
Buffered(done, action, h) ==
    IF done.ret \in {"RUN_OK", "FINISH_OK", "STREAM_END"}
    THEN Flushed(done, action, fwrite(h, done.call.out))
    ELSE [b |-> [s |-> done.call.s, lastErr |-> done.ret], h |-> h]
WriteOut(s, in, action, h) == Buffered(Compress(s, in, MaxUnused, action), action, h)

bzWrite(b, buf, h) ==
    IF h.ferr THEN [b |-> [b EXCEPT !.lastErr = "IO_ERROR"], h |-> h]
    ELSE IF buf = <<>> THEN [b |-> [b EXCEPT !.lastErr = "OK"], h |-> h]
    ELSE WriteOut(b.s, buf, "RUN", h)

(* Mutant: closing writes what one buffer takes.                           *)
bzWriteCloseOnce(b, abandon, h) ==
    [b |-> [b EXCEPT !.lastErr = "OK"],
     h |-> fflush(fwrite(h, Compress(b.s, <<>>, MaxUnused, "FINISH").call.out))]

(* An error leaves b as it is, closed or not.                              *)
FlushedOut(w) ==
    IF w.b.lastErr # "OK" THEN w
    ELSE [b |-> [w.b EXCEPT !.lastErr = IF fflush(w.h).ferr THEN "IO_ERROR" ELSE "OK"],
          h |-> fflush(w.h)]
bzWriteClose(b, abandon, h) ==
    IF h.ferr THEN [b |-> [b EXCEPT !.lastErr = "IO_ERROR"], h |-> h]
    ELSE IF abandon THEN [b |-> [b EXCEPT !.lastErr = "OK"], h |-> h]
    ELSE IF b.lastErr # "OK" THEN FlushedOut([b |-> [b EXCEPT !.lastErr = "OK"], h |-> h])
    ELSE FlushedOut(WriteOut(b.s, <<>>, "FINISH", h))

(* A reader: the decompressor, what is left in its buffer, the last error. *)
bzReadOpen(small, unused) == [d |-> DecompressInit(small), in |-> unused, lastErr |-> "OK"]

(* The loop of BZ2_bzRead: the buffer is filled when it is empty.  r has   *)
(* the reader, the place in the file, and the bytes of this call.  An end  *)
(* of file in the middle of the stream is an error of its own, and the     *)
(* bytes of the call are lost with any error.                              *)
RECURSIVE ReadIn(_, _, _)
Fill(r, file) ==
    IF r.b.in # <<>> THEN r
    ELSE [r EXCEPT !.b.in = SubSeq(file, r.pos + 1, LeastOf(r.pos + MaxUnused, Len(file))),
                   !.pos = LeastOf(r.pos + MaxUnused, Len(file))]
Returned(r, ret) == [r EXCEPT !.b.lastErr = ret]
Failed(r, ret) == [r EXCEPT !.b.lastErr = ret, !.bytes = <<>>]
Taken(r, done) ==
    [r EXCEPT !.b.d = done.call.d, !.b.in = done.call.in, !.bytes = @ \o done.call.out]
Judged(r, ret, file, room) ==
    CASE ret \notin {"OK", "STREAM_END"} -> Failed(r, ret)
      [] ret = "STREAM_END" -> Returned(r, ret)
      [] OTHER ->
           CASE r.pos = Len(file) /\ r.b.in = <<>> /\ room > 0 -> Failed(r, "UNEXPECTED_EOF")
             [] room = 0 -> Returned(r, "OK")
             [] OTHER -> ReadIn(r, file, room)
ReadOn(r, done, file) == Judged(Taken(r, done), done.ret, file, done.call.room)
ReadFilled(r, file, room) == ReadOn(r, Decompress(DCall(r.b.d, r.b.in, room)), file)
ReadIn(r, file, room) == ReadFilled(Fill(r, file), file, room)
bzRead(b, file, pos, len) == ReadIn([b |-> b, pos |-> pos, bytes |-> <<>>], file, len)

(* Mutant: what the reader had buffered is not handed to the next one.     *)
bzReadGetUnusedNone(b) == <<>>

(* What was read from the file and belongs to what follows the stream.     *)
bzReadGetUnused(b) == b.in

-----------------------------------------------------------------------------

(* The reference: streams one after the other, and what may trail them.    *)
RECURSIVE Decode(_, _)
And(text, rest) == [ok |-> rest.ok, text |-> text \o rest.text]
DecodeOn(one, first) ==
    CASE one.ret = "STREAM_END" ->
           IF one.call.in = <<>> THEN [ok |-> TRUE, text |-> one.call.out]
           ELSE And(one.call.out, Decode(one.call.in, FALSE))
      [] one.ret = "DATA_ERROR_MAGIC" -> [ok |-> ~first, text |-> <<>>]
      [] OTHER -> [ok |-> FALSE, text |-> <<>>]
Decode(z, first) == DecodeOn(Decompress(DCall(DecompressInit(FALSE), z, 100)), first)
DecodeFile(z) == Decode(z, TRUE)

(* What stands for a text's bytes when they are taken for compressed data. *)
NoToken == Token("junk", <<>>)
=============================================================================
