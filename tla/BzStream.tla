------------------------------ MODULE BzStream ------------------------------
(***************************************************************************)
(* A client that compresses a source with BZ2_bzCompress, in calls of any  *)
(* size and with flushes, and one that decompresses what comes out with    *)
(* BZ2_bzDecompress while it is still being written.  Both stop in the     *)
(* middle of whatever they are doing when a call's input or room ends.     *)
(***************************************************************************)
EXTENDS BzDecompress, FiniteSetsExt

CONSTANTS
    Source,         \* the sources that are tried
    MaxGiven,       \* bound: bytes given to one call
    MaxRoom,        \* bound: room of one call
    MaxFlush        \* bound: flushes begun

VARIABLES
    source,
    given,          \* bytes of the source taken by the compressor
    s,              \* the compressor's EState
    cret,           \* what BZ2_bzCompress returned last
    flushes,
    left,           \* what was left of the source when finishing began
    wire,           \* compressed tokens the decompressor has not taken
    carried,        \* all tokens ever written
    d,              \* the decompressor's DState
    dret,           \* what BZ2_bzDecompress returned last
    delivered

svars == <<source, given, s, cret, flushes, left, wire, carried, d, dret, delivered>>

Rest == SubSeq(source, given + 1, Len(source))

(* A call with n bytes and some room.  A client that is finishing offers   *)
(* all that is left; in the middle of a flush or finish any other number   *)
(* or action is refused.                                                   *)
Compressed(done, n) ==
    /\ s' = done.call.s
    /\ cret' = done.ret
    /\ given' = given + (n - Len(done.call.in))
    /\ wire' = wire \o done.call.out
    /\ carried' = carried \o done.call.out
    /\ UNCHANGED <<source, d, dret, delivered>>
CompressCall(action, n, room) ==
    /\ n <= Len(Rest)
    /\ Compressed(Compress(s, SubSeq(Rest, 1, n), room, action), n)

Run(n, room) == CompressCall("RUN", n, room) /\ UNCHANGED <<flushes, left>>

Flush(n, room) ==
    /\ s.mode = "RUNNING" => flushes < MaxFlush
    /\ CompressCall("FLUSH", n, room)
    /\ flushes' = IF s.mode = "RUNNING" THEN flushes + 1 ELSE flushes
    /\ UNCHANGED left

Finish(n, room) ==
    /\ s.mode = "RUNNING" => n = Len(Rest)
    /\ left' = IF s.mode = "RUNNING" THEN n ELSE left
    /\ CompressCall("FINISH", n, room) /\ UNCHANGED flushes

Decompressed(done, n) ==
    /\ d' = done.call.d
    /\ dret' = done.ret
    /\ wire' = SubSeq(wire, n - Len(done.call.in) + 1, Len(wire))
    /\ delivered' = delivered \o done.call.out
    /\ UNCHANGED <<source, given, s, cret, flushes, left, carried>>
DecompressCall(n, room) ==
    /\ n <= Len(wire)
    /\ dret \in {"none", "OK"}
    /\ Decompressed(Decompress(DCall(d, SubSeq(wire, 1, n), room)), n)

Init ==
    /\ source \in Source
    /\ given = 0 /\ s = CompressInit /\ cret = "none" /\ flushes = 0 /\ left = 0
    /\ wire = <<>> /\ carried = <<>>
    /\ \E small \in BOOLEAN : d = DecompressInit(small)
    /\ dret = "none" /\ delivered = <<>>

Given == 0 .. MaxGiven
Room == 0 .. MaxRoom

Next ==
    \/ \E n \in Given, room \in Room : Run(n, room) \/ Flush(n, room)
    \/ \E n \in 0 .. Len(source), room \in Room : Finish(n, room)
    \/ \E n \in 0 .. Len(wire), room \in Room : DecompressCall(n, room)

(* The clients' loops: one goes on with the flush or finish it is in until *)
(* it is complete, and finishes; the other calls while there is input or   *)
(* output to come.  Each gives its call what is there and some room.       *)
Drive ==
    \/ s.mode = "FLUSHING" /\ Flush(s.expect, 1)
    \/ s.mode # "FLUSHING" /\ Finish(Len(Rest), 1)
Draw == DecompressCall(Len(wire), 1)

(* Weak fairness of the two, with the states they can step in written out. *)
Going == s.mode # "IDLE"
Coming == dret \in {"none", "OK"} /\ (wire # <<>> \/ d.state = "OUTPUT")
Fairness ==
    /\ []<>~Going \/ []<><<Drive>>_svars
    /\ []<>~Coming \/ []<><<Draw>>_svars

Spec == Init /\ [][Next]_svars /\ Fairness

-----------------------------------------------------------------------------

(* Wherever the calls stop, what comes out is what went in and the end is  *)
(* reported when all of it is out: the promise of module Pipe.             *)
Delivery == INSTANCE Pipe WITH ended <- dret = "STREAM_END"
IsPipe == Delivery!PipeSpec

(* A good stream is never called corrupt, whichever way it is cut up.      *)
NeverCorrupt == dret \in {"none", "OK", "STREAM_END"}

(* How the calls cut the source up is invisible in the compressed stream:  *)
(* without a flush it depends on the source and on how much of it was left *)
(* to the call that began to finish (a block that is full there takes the  *)
(* pending run with it), and is, token for token, what two calls with room *)
(* for everything write.  A complete stream is undone by one call too; one *)
(* that lacks its end is an unexpected end and not data.                   *)
InTwoCalls ==
    LET run == Compress(CompressInit, SubSeq(source, 1, Len(source) - left), 100, "RUN").call
        end == Compress(run.s, SubSeq(source, Len(source) - left + 1, Len(source)), 100, "FINISH")
    IN  run.out \o end.call.out
ChunkingInvisible ==
    /\ flushes = 0 => IsPrefix(carried, InTwoCalls)
    /\ cret = "STREAM_END" =>
          /\ flushes = 0 => carried = InTwoCalls
          /\ left = Len(source) => carried = BuffToBuffCompress(source, 100).dest
          /\ \A small \in BOOLEAN : \A n \in 0 .. Len(carried) :
                BuffToBuffDecompress(SubSeq(carried, 1, n), 100, small).ret
                   = IF n = Len(carried) THEN "OK" ELSE "UNEXPECTED_EOF"

(* Both ends get to the end, with one byte of room a call.                 *)
EndReached == <>(dret = "STREAM_END" /\ delivered = source)
=============================================================================
