------------------------------- MODULE Prezip -------------------------------
(***************************************************************************)
(* The two delta compressors word lists are shipped with: prog/prezip.c    *)
(* (any text) and its older sister prog/compress.c (words only), whose     *)
(* format prezip reads too.  A line is written as the number of bytes it   *)
(* shares with the one before and the rest; small bytes are the numbers,   *)
(* so a line ends where the next number begins.                            *)
(***************************************************************************)
EXTENDS Integers, Sequences, SequencesExt

CONSTANTS
    LongCode,   \* 30: the number that is continued in the bytes after it
    Blank,      \* 32: smaller bytes are escaped, by adding this to them
    LastByte,   \* 255
    Newline,    \* 10
    BufSize,    \* 256: compress.c's buffer
    Texts       \* the texts that are packed

ASSUME PrezipAssumption ==
    /\ {LongCode, Blank, LastByte, Newline, BufSize} \subseteq Nat
    /\ 2 < LongCode /\ Blank = LongCode + 2 /\ 2 * Blank <= LastByte
    /\ Newline < LongCode /\ 1 < BufSize /\ BufSize <= LastByte + 1

VARIABLES
    prose,      \* what is packed
    packed,     \* what the packer wrote
    unpacked    \* what the reader made of that

zipvars == <<prose, packed, unpacked>>

Escape == LongCode + 1      \* 31
NotPacked == [by |-> "none", bytes |-> <<>>]
NotRead == [how |-> "none"]

-----------------------------------------------------------------------------
\* prezip -z

EscapeByte(c) == IF c < Blank THEN <<Escape, c + Blank>> ELSE <<c>>

NewlinesOf(t) == SelectSeq([i \in DOMAIN t |-> i], LAMBDA i : t[i] = Newline)
LinesOf(t) ==
    LET ends == <<0>> \o NewlinesOf(t) \o <<Len(t) + 1>>
    IN  [i \in 1 .. Len(ends) - 1 |-> SubSeq(t, ends[i] + 1, ends[i + 1] - 1)]

Shared(p, w) == Len(LongestCommonPrefix({p, w}))

\* The number of shared bytes.
PrefixCode(n) ==
    IF n < LongCode THEN <<n>>
    ELSE <<LongCode>> \o [i \in 1 .. (n - LongCode) \div LastByte |-> LastByte]
                      \o <<(n - LongCode) % LastByte>>

DeltaCode(words, Code(_)) ==
    LET shared(i) == IF i = 1 THEN 0 ELSE Shared(words[i - 1], words[i])
    IN  FlattenSeq([i \in DOMAIN words |->
            Code(shared(i)) \o SubSeq(words[i], shared(i) + 1, Len(words[i]))])

prezip_compress(t) ==
    LET Escaped(line) == FlattenSeq([i \in DOMAIN line |-> EscapeByte(line[i])])
        lines == LinesOf(t)
    IN  <<2>> \o DeltaCode([i \in DOMAIN lines |-> Escaped(lines[i])], PrefixCode)
              \o <<Escape, LastByte>>

-----------------------------------------------------------------------------
(* prezip -d.  ret: -1 while it reads, 0, 2 unknown format, 3 corrupt, 4   *)
(* unexpected end; Undefined where the count of bytes to go forward is   *)
(* EOF and the loop runs through the memory behind the word.               *)

EndOfFile == -1
Undefined == 99
Reading == [mode |-> "stream", word |-> <<>>, keep |-> 0, out |-> <<>>, ret |-> -1]

Fails(s, ret) == [s EXCEPT !.ret = ret, !.mode = "stop"]

\* A packed text starts with a 2; another may follow it.
Begin(s, c) == IF c = 2 THEN [s EXCEPT !.mode = "code", !.ret = -1] ELSE Fails(s, 3)

\* ADV: to go past the end of the last word is an error, and the new bytes
\* come behind the end, where they do not show.
Advance(s, n) == [s EXCEPT !.keep = @ + n]

TakeCode(s, c) == Advance([s EXCEPT !.mode = IF c = LongCode THEN "long" ELSE "word",
                                    !.word = [known |-> @, rest |-> <<>>]], c)

\* The word that the bytes read make, and what printing it does.
Finished(s) == IF s.keep > Len(s.word.known) THEN s.word.known
               ELSE SubSeq(s.word.known, 1, s.keep) \o s.word.rest

PrintByte(p, c) ==
    CASE p.esc /\ c \in Blank .. 2 * Blank - 1 ->
                [p EXCEPT !.esc = FALSE, !.out = Append(@, c - Blank)]
      [] p.esc /\ c = LastByte -> [p EXCEPT !.esc = FALSE, !.ended = TRUE, !.ret = 0]
      [] p.esc                 -> [p EXCEPT !.esc = FALSE, !.ret = 3]
      [] ~p.esc /\ c = Escape  -> [p EXCEPT !.esc = TRUE]
      [] OTHER                 -> [p EXCEPT !.out = Append(@, c),
                                            !.ret = IF p.ended THEN 3 ELSE @]

\* A word ends at the byte c, which is the next number, or at the end.
PrintOf(s) ==
    FoldLeft(PrintByte, [out |-> s.out, esc |-> FALSE, ended |-> FALSE,
                         ret |-> IF s.keep > Len(s.word.known) THEN 3 ELSE -1], Finished(s))
Printed(s, p, c) ==
    LET ret0 == IF p.esc THEN 3 ELSE p.ret
        ret  == IF ret0 < 0 /\ c = EndOfFile THEN 4 ELSE ret0
    IN  [mode |-> "stream", word |-> Finished(s), keep |-> 0, ret |-> ret,
         out  |-> IF ret # 0 THEN Append(p.out, Newline) ELSE p.out]
GoOn(next, c) ==
    CASE next.ret > 0 -> Fails(next, next.ret)
      [] next.ret = 0 -> IF c = EndOfFile THEN next ELSE Begin(next, c)
      [] OTHER        -> TakeCode(next, c)
EndWord(s, c) == GoOn(Printed(s, PrintOf(s), c), c)

Unzip(s, c) ==
    CASE s.mode = "stream" -> Begin(s, c)
      [] s.mode = "code"   -> TakeCode(s, c)
      [] s.mode = "long"   -> [Advance(s, c) EXCEPT !.mode = IF c = LastByte THEN "long" ELSE "word"]
      [] s.mode = "word"   -> IF c > LongCode THEN [s EXCEPT !.word.rest = Append(@, c)]
                              ELSE EndWord(s, c)
      [] s.mode = "stop"   -> s

UnzipEnd(s) ==
    CASE s.mode = "word" -> EndWord(s, EndOfFile)
      [] s.mode \in {"code", "long"} -> [s EXCEPT !.ret = Undefined]
      [] OTHER -> s

\* The older format (first byte 1): no escapes, a word ends at its newline.
OldStart == [mode |-> "code", word |-> <<>>, out |-> <<>>, ret |-> 0]
OldCode(s, c) ==
    CASE c = 0 /\ s.mode = "code"  -> [s EXCEPT !.mode = "long"]
      [] c < 1 \/ c - 1 > Len(s.word) -> Fails(s, 3)
      [] OTHER -> [s EXCEPT !.mode = "word", !.word = SubSeq(@, 1, c - 1)]
OldLine(s) == [s EXCEPT !.out = @ \o s.word \o <<Newline>>, !.mode = "code"]
UnzipOld(s, c) ==
    CASE s.mode \in {"code", "long"} -> OldCode(s, c)
      [] s.mode = "word" -> IF c > Blank THEN [s EXCEPT !.word = Append(@, c)]
                            ELSE OldCode(OldLine(s), c)
      [] s.mode = "stop" -> s
UnzipOldEnd(s) ==
    CASE s.mode = "word" -> OldLine(s) [] s.mode = "long" -> Fails(s, 3) [] OTHER -> s

Outcome(s) == [out |-> s.out, ret |-> s.ret]
prezip_decompress(b) ==
    Outcome(CASE b # <<>> /\ b[1] = 2 -> UnzipEnd(FoldLeft(Unzip, Reading, b))
              [] b # <<>> /\ b[1] = 1 -> UnzipOldEnd(FoldLeft(UnzipOld, OldStart, b))
              [] OTHER                -> Fails(Reading, 2))

-----------------------------------------------------------------------------
\* word-list-compress

\* get_word: a word that the end of the file ends is not returned, one that
\* is too long is an error and ends the work.
ReadWord(s, c) ==
    CASE s.bad -> s
      [] c <= Blank /\ s.word = <<>> -> s
      [] c <= Blank -> [s EXCEPT !.words = Append(@, s.word), !.word = <<>>]
      [] Len(s.word) = BufSize - 1 -> [s EXCEPT !.bad = TRUE]
      [] OTHER -> [s EXCEPT !.word = Append(@, c)]
get_words(t) == FoldLeft(ReadWord, [word |-> <<>>, words |-> <<>>, bad |-> FALSE], t)

\* putc writes the low byte: what n + 1 comes to in one.
ByteOf(n) == n % (LastByte + 1)
WordCode(n) == IF n > Blank - 1 THEN <<0, ByteOf(n + 1)>> ELSE <<ByteOf(n + 1)>>

compress(t) == DeltaCode(get_words(t).words, WordCode)

\* Its own reader, as the older branch of prezip's, in a buffer that can be full.
UnzipWord(s, c) ==
    IF s.mode = "word" /\ c > Blank /\ Len(s.word) >= BufSize - 1
    THEN Fails(s, 3) ELSE UnzipOld(s, c)
decompress(b) ==
    Outcome(IF b = <<>> \/ b[1] # 1 THEN Fails(OldStart, 3)
            ELSE UnzipOldEnd(FoldLeft(UnzipWord, OldStart, b)))

-----------------------------------------------------------------------------

Pack ==
    /\ packed = NotPacked
    /\ \/ packed' = [by |-> "prezip", bytes |-> prezip_compress(prose)]
       \/ packed' = [by |-> "compress", bytes |-> compress(prose)]
    /\ UNCHANGED <<prose, unpacked>>

\* What is read is what was written, or two such files in one, or the part
\* of it that arrived.
UnzipWhole ==
    /\ packed.by \in {"prezip", "compress"} /\ unpacked = NotRead
    /\ unpacked' = [how |-> "whole", prezip |-> prezip_decompress(packed.bytes),
                    own |-> IF packed.by = "compress" THEN decompress(packed.bytes)
                            ELSE prezip_decompress(packed.bytes)]
    /\ UNCHANGED <<prose, packed>>
UnzipTwice ==
    /\ unpacked = NotRead /\ packed.by = "prezip"
    /\ unpacked' = [how |-> "twice", prezip |-> prezip_decompress(packed.bytes \o packed.bytes)]
    /\ UNCHANGED <<prose, packed>>
UnzipPart ==
    /\ unpacked = NotRead /\ packed.by = "prezip"
    /\ \E n \in 0 .. Len(packed.bytes) - 1 :
          unpacked' = [how |-> "part", prezip |-> prezip_decompress(SubSeq(packed.bytes, 1, n))]
    /\ UNCHANGED <<prose, packed>>

ZipOff  == prose = <<>> /\ packed = [NotPacked EXCEPT !.by = "off"] /\ unpacked = NotRead
ZipInit == prose \in Texts /\ packed = NotPacked /\ unpacked = NotRead
ZipNext == Pack \/ UnzipWhole \/ UnzipTwice \/ UnzipPart
ZipSpec == ZipInit /\ [][ZipNext]_zipvars

(* A packed text, whatever bytes it has and however much its lines share,  *)
(* is read back as it was; two packed texts in one file are read as one    *)
(* text; and a file that was cut off is never taken for a whole one.       *)
TextComesBack ==
    unpacked # NotRead /\ packed.by = "prezip" =>
        CASE unpacked.how = "whole" -> unpacked.prezip = [out |-> prose, ret |-> 0]
          [] unpacked.how = "twice" -> unpacked.prezip = [out |-> prose \o prose, ret |-> 0]
          [] unpacked.how = "part"  -> unpacked.prezip.ret # 0

(* The words of the older format come back, a line each, from its own      *)
(* reader and from prezip's, up to the one that is too long.  The longest  *)
(* word there can be, twice in a row, shares more letters than its byte    *)
(* can say: both readers then stop there and call the file corrupt.        *)
WordsComeBack ==
    unpacked # NotRead /\ packed.by = "compress" /\ packed.bytes # <<>> =>
        LET words  == get_words(prose).words
            unsaid == {i \in 2 .. Len(words) : Shared(words[i - 1], words[i]) >= LastByte}
            sound  == IF unsaid = {} THEN words ELSE SubSeq(words, 1, Min(unsaid) - 1)
            lines  == FlattenSeq([i \in DOMAIN sound |-> Append(sound[i], Newline)])
        IN  /\ unpacked.own = [out |-> lines, ret |-> IF unsaid = {} THEN 0 ELSE 3]
            /\ unpacked.prezip = unpacked.own

PrezipRoundTrip == TextComesBack /\ WordsComeBack
=============================================================================
