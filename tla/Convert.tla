------------------------------ MODULE Convert ------------------------------
(***************************************************************************)
(* Character sets (common/convert.cpp): bytes are decoded to characters,   *)
(* each with the number of bytes it came from, and those encoded to bytes, *)
(* by a table of a character set, by the tree of tables that puts Unicode  *)
(* sequences in a normal form, as UTF-8, or unit by unit.                  *)
(***************************************************************************)
EXTENDS Integers, Sequences, FiniteSets, SequencesExt, FiniteSetsExt

CONSTANTS
    CharSets,       \* the .cset files: the characters of the bytes, by name
    NormFiles,      \* the .cmap files: [internal, strict, toUni], by name
    Spelling,       \* names of encodings as they are also written
    Conversions     \* what is converted

ASSUME ConvertAssumption ==
    \A n \in DOMAIN CharSets : \A b \in DOMAIN CharSets[n] : b \in 0 .. 255 /\ CharSets[n][b] \in Nat

VARIABLES
    conversion,     \* what is converted, how
    converter,      \* the Convert that was set up for it
    converted       \* what it made of the text

convertvars == <<conversion, converter, converted>>

Unmapped == -1          \* (Uni32)(-1)
Question == 63          \* '?'
FilterChar(c, w) == [chr |-> c, width |-> w]

-----------------------------------------------------------------------------
\* The tables of a character set

\* A byte that is not in an override is its own character.
InCharSet(cs, b) == IF b \in DOMAIN cs THEN cs[b] ELSE b

\* The bytes FromUniLookup.insert puts in the row of c: the first four whose
\* characters end in the same eight bits.  The rest go one over the other to
\* an overflow whose end never moves, so that they are not found.
RowOf(cs, c) ==
    LET same == SelectSeq([i \in 1 .. 256 |-> i - 1], LAMBDA b : InCharSet(cs, b) % 256 = c % 256)
        kept == SelectSeq(same, LAMBDA b : \A a \in 0 .. b - 1 : InCharSet(cs, a) # InCharSet(cs, b))
    IN  SubSeq(kept, 1, Min({4, Len(kept)}))

FromUni(cs, c, unknown) ==
    LET found == SelectSeq(RowOf(cs, c), LAMBDA b : InCharSet(cs, b) = c)
    IN  IF found = <<>> THEN unknown ELSE found[1]

-----------------------------------------------------------------------------
(* The trees of tables.  A line of the file is [from, to, sub]: to is <<>>  *)
(* for a sequence that means nothing by itself ("-"), sub the lines of the *)
(* table for what follows, <<>> if nothing may.                            *)

NonChar == 16           \* to_non_char
FromSide == [maxTo |-> 4, nonFrom |-> Unmapped]     \* FromUniNormEntry
ToSide   == [maxTo |-> 3, nonFrom |-> 16]           \* ToUniNormEntry

PowerBelow(n) == Max({2 ^ k : k \in 0 .. 10} \cap 1 .. Max({1, n - 1}))
Crowd(rows, sz) ==
    Max({Cardinality({i \in DOMAIN rows : rows[i].from % sz = p}) : p \in 0 .. sz - 1})
\* The smallest of three heights, unless a larger one makes the table narrower.
HeightOf(rows) ==
    LET sz == PowerBelow(Len(rows))
        first == IF Crowd(rows, sz) > Crowd(rows, 2 * sz) THEN 2 * sz ELSE sz
    IN  IF Crowd(rows, first) > Crowd(rows, 4 * sz) THEN 4 * sz ELSE first

EmptyCell(side) == [from |-> 0, to |-> [i \in 1 .. side.maxTo |-> 0], sub |-> <<>>]
CellOf(side, l) ==
    [from |-> IF l.from = 0 THEN side.nonFrom ELSE l.from, sub |-> l.sub,
     to   |-> IF l.to = <<>> THEN [i \in 1 .. side.maxTo |-> IF i = 2 THEN NonChar ELSE 0]
              ELSE [i \in 1 .. side.maxTo |-> IF i <= Len(l.to) THEN l.to[i] ELSE 0]]

\* Lines of one column are a height apart, in their order.
Placed(side, rows, h, w) ==
    LET inColumn(c) == SelectSeq(rows, LAMBDA l : l.from % h = c)
    IN  [p \in 0 .. h * w - 1 |->
            IF p \div h < Len(inColumn(p % h)) THEN CellOf(side, inColumn(p % h)[p \div h + 1])
            ELSE EmptyCell(side)]

(* Mutant: only the first of the column's cells is made unlike a NUL.      *)
NulProofFirst(side, cells, h) ==
    [p \in DOMAIN cells |->
        IF p = 0 /\ (cells[p].from = 0 \/ (cells[p].from = side.nonFrom /\ cells[p].to[1] = 0))
        THEN [cells[p] EXCEPT !.from = side.nonFrom, !.to[1] = NonChar] ELSE cells[p]]

\* The cells NUL is looked for in, the first column, are made unlike it.
NulProof(side, cells, h) ==
    [p \in DOMAIN cells |->
        IF p % h = 0 /\ (cells[p].from = 0 \/ (cells[p].from = side.nonFrom /\ cells[p].to[1] = 0))
        THEN [cells[p] EXCEPT !.from = side.nonFrom, !.to[1] = NonChar] ELSE cells[p]]

TableOf(side, rows, h) ==
    [height |-> h, cells |-> NulProof(side, Placed(side, rows, h, Crowd(rows, h)), h)]
create_norm_table(side, rows) == TableOf(side, rows, HeightOf(rows))

\* The cells from the one the mask gives, a height apart, that hold c.
HitsIn(t, c) ==
    LET column == IF c = Unmapped THEN t.height - 1 ELSE c % t.height
    IN  {p \in DOMAIN t.cells : p % t.height = column /\ t.cells[p].from = c}

(* Mutant: what a sequence means by itself is forgotten when more may follow. *)
DescendForgetful(side, st, cell, s) ==
    IF cell.sub = <<>> THEN [st EXCEPT !.to = cell.to, !.last = s, !.done = TRUE]
    ELSE [st EXCEPT !.rows = cell.sub]

Descend(side, st, cell, s) ==
    IF cell.sub = <<>> THEN [st EXCEPT !.to = cell.to, !.last = s, !.done = TRUE]
    ELSE IF cell.to[2] # NonChar THEN [st EXCEPT !.to = cell.to, !.last = s, !.rows = cell.sub]
    ELSE [st EXCEPT !.rows = cell.sub]

\* norm_lookup: as far down the tree as the text goes; the last sequence on
\* the way that means something is what was found, or def and one character.
LookOn(side, st, s, t, c) ==
    IF HitsIn(t, c) = {} THEN [st EXCEPT !.done = TRUE]
    ELSE Descend(side, st, t.cells[Min(HitsIn(t, c))], s)
norm_lookup(side, rows, text, i, stop, def) ==
    FoldLeft(LAMBDA st, s : IF st.done THEN st
                            ELSE LookOn(side, st, s, create_norm_table(side, st.rows), text[s]),
             [rows |-> rows, to |-> def, last |-> i, done |-> FALSE],
             [k \in 1 .. stop - i |-> i + k - 1])

Meaning(to) == LET zeros == {i \in DOMAIN to : to[i] = 0}
               IN  IF zeros = {} THEN to ELSE SubSeq(to, 1, Min(zeros) - 1)

-----------------------------------------------------------------------------
(* Decoders.  A text in memory ends with a NUL; size is the number of its  *)
(* units, or -1 if the NUL is what tells its end.  past: the decoder went  *)
(* on behind the NUL; sound: FALSE where it uses a null pointer.           *)

Memory(text) == Append(text, 0)
StopOf(m, size) == IF size = -1 THEN Len(m) + 1 ELSE size + 1
UpToNul(text) == IF \E i \in DOMAIN text : text[i] = 0
                 THEN SubSeq(text, 1, Min({i \in DOMAIN text : text[i] = 0}) - 1) ELSE text
Taken(text, size) == IF size = -1 THEN UpToNul(text) ELSE SubSeq(text, 1, size)

Decoded(out) == [out |-> out, past |-> FALSE, sound |-> TRUE, error |-> FALSE]

\* DecodeDirect and DecodeLookup: unit by unit.
DecodeDirect(text, size) ==
    LET units == Taken(text, size) IN Decoded([i \in DOMAIN units |-> FilterChar(units[i], 1)])
DecodeLookup(cs, text, size) ==
    LET bytes == Taken(text, size)
    IN  Decoded([i \in DOMAIN bytes |-> FilterChar(InCharSet(cs, bytes[i]), 1)])

\* DecodeNormLookup: a NUL ends the text only where size does not.
DecodeNormStep(rows, m, size, st, found) ==
    IF m[st.i] = 0
    THEN IF size = -1 THEN [st EXCEPT !.ended = TRUE]
         ELSE [st EXCEPT !.out = Append(@, FilterChar(0, 1)), !.i = @ + 1]
    ELSE IF found.to = <<>> THEN [st EXCEPT !.ended = TRUE, !.sound = FALSE]
    ELSE [st EXCEPT !.i = found.last + 1,
                    !.out = @ \o [k \in 1 .. Len(Meaning(found.to)) |-> FilterChar(Meaning(found.to)[k], 1)]]
DecodeNormFrom(rows, m, size) ==
    FoldLeft(LAMBDA st, n : IF st.ended \/ st.i >= StopOf(m, size) \/ st.i > Len(m) THEN st
                            ELSE DecodeNormStep(rows, m, size, st,
                                     norm_lookup(ToSide, rows, m, st.i, StopOf(m, size), <<>>)),
             [i |-> 1, out |-> <<>>, ended |-> FALSE, sound |-> TRUE], [n \in 1 .. Len(m) |-> n])
DecodeNorm(rows, text, size) ==
    LET end == DecodeNormFrom(rows, Memory(text), size)
    IN  [out |-> end.out, sound |-> end.sound, error |-> FALSE,
         past |-> size = -1 /\ ~end.ended /\ end.i > Len(text) + 1]

Continues(b) == b \div 64 = 2
\* How many more bytes a first byte asks for, and the bits it brings itself.
MoreBytes(b) == CASE b < 128 -> 0 [] b \div 32 = 6 -> 1 [] b \div 16 = 14 -> 2 [] b \div 8 = 30 -> 3
                  [] OTHER -> -1
OwnBits(b) == CASE b < 128 -> b [] b \div 32 = 6 -> b % 32 [] b \div 16 = 14 -> b % 16 [] OTHER -> b % 8

\* from_utf8 skips bytes that can only go on, all but the last of the text,
\* to the first of a character at q; of those it needs, t are there.
Utf8From(m, i, stop, q, need, t) ==
    [chr  |-> IF need = -1 \/ t < need THEN Unmapped
              ELSE FoldLeft(LAMBDA u, k : u * 64 + (m[q + k] % 64), OwnBits(m[q]), [k \in 1 .. need |-> k]),
     width |-> q + t - i + 1, next |-> q + t + 1]
Following(m, q, stop, need) ==
    Max({n \in 0 .. Max({0, need}) : \A k \in 1 .. n : q + k < stop /\ q + k <= Len(m) /\ Continues(m[q + k])})
FirstOf(m, i, stop) ==
    Min({q \in i .. Min({stop - 1, Len(m)}) : ~Continues(m[q])} \cup {Min({stop - 1, Len(m)})})
Utf8At(m, i, stop, q) == Utf8From(m, i, stop, q, MoreBytes(m[q]), Following(m, q, stop, MoreBytes(m[q])))
from_utf8(m, i, stop) == Utf8At(m, i, stop, FirstOf(m, i, stop))

DecodeUtf8Step(st, c, strict) ==
    IF strict /\ c.chr = Unmapped THEN [st EXCEPT !.error = TRUE, !.i = c.next]
    ELSE [st EXCEPT !.i = c.next,
                    !.out = Append(@, FilterChar(IF c.chr = Unmapped THEN Question ELSE c.chr, c.width))]
DecodeUtf8From(m, stop, strict) ==
    FoldLeft(LAMBDA st, n : IF st.error \/ st.i > Len(m) \/ st.i >= stop THEN st
                            ELSE IF m[st.i] = 0 THEN st
                            ELSE DecodeUtf8Step(st, from_utf8(m, st.i, stop), strict),
             [i |-> 1, out |-> <<>>, error |-> FALSE], [n \in 1 .. Len(m) |-> n])
DecodeUtf8(text, size, strict) ==
    LET end == DecodeUtf8From(Memory(text), StopOf(Memory(text), size), strict)
    IN  [out |-> end.out, sound |-> TRUE, error |-> end.error, past |-> end.i > Len(text) + 1 /\ size = -1]

-----------------------------------------------------------------------------
(* Encoders.  strict: the encode_ec of an encoder, which gives up where    *)
(* encode puts a question mark.                                            *)

Encoded(out, error) == [out |-> out, error |-> error]
UpToError(pieces) ==
    LET bad == {i \in DOMAIN pieces : pieces[i] = Unmapped}
    IN  IF bad = {} THEN pieces ELSE SubSeq(pieces, 1, Min(bad) - 1)

\* EncodeDirect: a unit that is too narrow for the character is a question mark.
EncodeDirect(room, chars, strict) ==
    LET units == [i \in DOMAIN chars |-> IF chars[i].chr < room THEN chars[i].chr
                                         ELSE IF strict THEN Unmapped ELSE Question]
    IN  Encoded(UpToError(units), UpToError(units) # units)

EncodeLookup(cs, chars, strict) ==
    LET bytes == [i \in DOMAIN chars |->
                    IF ~strict THEN FromUni(cs, chars[i].chr, Question)
                    ELSE IF FromUni(cs, chars[i].chr, 0) = 0 /\ chars[i].chr # 0 THEN Unmapped
                    ELSE FromUni(cs, chars[i].chr, 0)]
    IN  Encoded(UpToError(bytes), UpToError(bytes) # bytes)
\* In place: a byte is a signed char, which becomes 2^32 less what it lacks.
EncodeLookupInPlace(cs, chars) ==
    [i \in DOMAIN chars |->
        LET b == FromUni(cs, chars[i].chr, Question)
        IN  [chars[i] EXCEPT !.chr = IF b > 127 THEN b - 256 ELSE b]]

\* The pieces EncodeNormLookup cuts a text into, a NUL one by itself.
NormStep(rows, text, st, found) ==
    IF text[st.i] = 0 THEN [i |-> st.i + 1, pieces |-> Append(st.pieces, [from |-> st.i, to |-> <<0>>, nul |-> TRUE])]
    ELSE [i |-> found.last + 1, pieces |-> Append(st.pieces, [from |-> st.i, to |-> found.to, nul |-> FALSE])]
NormPieces(rows, text, def) ==
    FoldLeft(LAMBDA st, n : IF st.i > Len(text) THEN st
                            ELSE NormStep(rows, text, st,
                                     norm_lookup(FromSide, rows, text, st.i, Len(text) + 1, def)),
             [i |-> 1, pieces |-> <<>>], text).pieces
Chars(chars) == [i \in DOMAIN chars |-> chars[i].chr]

NormBytes(p) == IF p.nul THEN <<0>> ELSE Meaning(p.to)
NormOut(pieces) ==
    LET bad == {i \in DOMAIN pieces : pieces[i].to = <<>>}
        good == IF bad = {} THEN pieces ELSE SubSeq(pieces, 1, Min(bad) - 1)
    IN  Encoded(FlattenSeq([i \in DOMAIN good |-> NormBytes(good[i])]), bad # {})
EncodeNorm(rows, chars, strict) ==
    NormOut(NormPieces(rows, Chars(chars), IF strict THEN <<>> ELSE <<Question>>))

WidthOf(chars, from, to) == FoldLeft(LAMBDA w, i : w + chars[i].width, 0, [k \in 1 .. to - from |-> from + k - 1])
\* In place: the first byte of a piece has the width of all it came from,
\* and a NUL that is part of the text ends it.
InPlacePiece(chars, p, next) ==
    IF p.nul THEN <<FilterChar(0, 1)>>
    ELSE <<FilterChar(p.to[1], WidthOf(chars, p.from, next))>>
         \o [k \in 1 .. Max({0, Len(Meaning(p.to)) - 1}) |-> FilterChar(p.to[k + 1], 0)]
InPlace(chars, pieces) ==
    FlattenSeq([i \in DOMAIN pieces |->
        InPlacePiece(chars, pieces[i], IF i = Len(pieces) THEN Len(chars) + 1 ELSE pieces[i + 1].from)])
    \o <<FilterChar(0, 1)>>
EncodeNormInPlace(rows, chars) == InPlace(chars, NormPieces(rows, Chars(chars), <<Question>>))

\* Larger numbers are left out without a word.
to_utf8(c) ==
    CASE c \in 0 .. 127       -> <<c>>
      [] c \in 128 .. 2047    -> <<192 + c \div 64, 128 + (c % 64)>>
      [] c \in 2048 .. 65535  -> <<224 + c \div 4096, 128 + ((c \div 64) % 64), 128 + (c % 64)>>
      [] c \in 65536 .. 2097151 ->
            <<240 + c \div 262144, 128 + ((c \div 4096) % 64), 128 + ((c \div 64) % 64), 128 + (c % 64)>>
      [] OTHER -> <<>>
EncodeUtf8(chars) == Encoded(FlattenSeq([i \in DOMAIN chars |-> to_utf8(chars[i].chr)]), FALSE)

-----------------------------------------------------------------------------
(* Which decoder and which encoder (Convert::init, init_norm_from and      *)
(* init_norm_to).                                                          *)

fix_encoding_str(enc) ==
    LET lower == IF enc \in DOMAIN Spelling THEN Spelling[enc] ELSE enc
    IN  CASE lower \in {"ascii", "ansi_x3.4-1968"}          -> "iso-8859-1"
          [] lower \in {"machine unsigned 16", "utf-16"}    -> "ucs-2"
          [] lower \in {"machine unsigned 32", "utf-32"}    -> "ucs-4"
          [] OTHER -> lower

UnitByUnit(room) == [by |-> "direct", room |-> room, set |-> <<>>, rows |-> <<>>]
Rooms == ("iso-8859-1" :> 256) @@ ("ucs-2" :> 65536) @@ ("ucs-4" :> 2147483647)
\* Decode::get_new and Encode::get_new.
CoderFor(key) ==
    CASE key \in DOMAIN Rooms    -> UnitByUnit(Rooms[key])
      [] key = "utf-8"           -> [UnitByUnit(0) EXCEPT !.by = "utf8"]
      [] key \in DOMAIN CharSets -> [UnitByUnit(0) EXCEPT !.by = "lookup", !.set = CharSets[key]]
      [] OTHER                   -> [UnitByUnit(0) EXCEPT !.by = "unknown"]
NormCoder(rows) == [UnitByUnit(0) EXCEPT !.by = "norm", !.rows = rows]

\* NormTables::get_new: a table may be another one by its name.
StrictLines(file) == IF file.strict = <<>> THEN file.internal ELSE file.strict
FormLines(file, i) ==
    IF file.toUni[i].is = "" THEN file.toUni[i].rows
    ELSE file.toUni[Min({j \in 1 .. i - 1 : file.toUni[j].name = file.toUni[i].is})].rows

NoConvert == [kind |-> "none"]
Broken(why) == [kind |-> why]
Made(in, out, direct) ==
    IF "unknown" \in {in.by, out.by} THEN Broken("error")
    ELSE [kind |-> "convert", decode |-> in, encode |-> out, direct |-> direct]

init(in, out) == Made(CoderFor(in), CoderFor(out), in = out)
init_norm_from(config, in, out) ==
    IF ~config.normalize /\ ~config.required THEN init(in, out)
    ELSE IF out \notin DOMAIN NormFiles THEN Broken("error")
    ELSE Made(CoderFor(in), NormCoder(IF config.strict THEN StrictLines(NormFiles[out])
                                     ELSE NormFiles[out].internal), FALSE)
NormTo(file, out, form) ==
    LET named == {i \in DOMAIN file.toUni : file.toUni[i].name = form}
    IN  IF CoderFor(out).by = "unknown" THEN Broken("error")
        ELSE IF named = {} THEN Broken("assert")
        ELSE Made(NormCoder(FormLines(file, Min(named))), CoderFor(out), FALSE)
init_norm_to(config, in, out) ==
    IF (~config.normalize \/ config.form = "none") /\ ~config.required THEN init(in, out)
    ELSE IF in \notin DOMAIN NormFiles THEN Broken("error")
    ELSE NormTo(NormFiles[in], out, IF config.form = "none" THEN "nfc" ELSE config.form)

internal_new_convert(c, in, out) ==
    IF c.ifNeeded /\ in = out THEN NoConvert
    ELSE CASE c.norm = "none" -> init(in, out)
           [] c.norm = "from" -> init_norm_from(c.config, in, out)
           [] c.norm = "to"   -> init_norm_to(c.config, in, out)

-----------------------------------------------------------------------------
\* Convert::convert and convert_ec

DecodeBy(d, text, size, strict) ==
    CASE d.by = "direct" -> DecodeDirect(text, size)
      [] d.by = "lookup" -> DecodeLookup(d.set, text, size)
      [] d.by = "norm"   -> DecodeNorm(d.rows, text, size)
      [] d.by = "utf8"   -> DecodeUtf8(text, size, strict)
EncodeBy(e, chars, strict) ==
    CASE e.by = "direct" -> EncodeDirect(e.room, chars, strict)
      [] e.by = "lookup" -> EncodeLookup(e.set, chars, strict)
      [] e.by = "norm"   -> EncodeNorm(e.rows, chars, strict)
      [] e.by = "utf8"   -> EncodeUtf8(chars)
\* UTF-8 is not encoded in place, and a direct encoder has nothing to do.
EncodeInPlace(e, chars) ==
    CASE e.by = "lookup" -> EncodeLookupInPlace(e.set, chars)
      [] e.by = "norm"   -> EncodeNormInPlace(e.rows, chars)
      [] OTHER           -> chars

Through(c, decoded, strict) ==
    [chars |-> decoded.out, past |-> decoded.past, sound |-> decoded.sound,
     error |-> decoded.error \/ EncodeBy(c.encode, decoded.out, strict).error,
     out   |-> IF decoded.error THEN <<>> ELSE EncodeBy(c.encode, decoded.out, strict).out,
     place |-> IF decoded.error THEN <<>> ELSE EncodeInPlace(c.encode, decoded.out)]
convert(c, text, size, strict) ==
    IF c.direct THEN [chars |-> <<>>, past |-> FALSE, sound |-> TRUE, error |-> FALSE,
                      out |-> Taken(text, size), place |-> <<>>]
    ELSE Through(c, DecodeBy(c.decode, text, size, strict), strict)
\* ConvP: without a converter a text is what it was.
ConvP(c, text, size, strict) ==
    IF c.kind = "none" THEN [chars |-> <<>>, past |-> FALSE, sound |-> TRUE, error |-> FALSE,
                             out |-> Taken(text, size), place |-> <<>>]
    ELSE convert(c, text, size, strict)

\* MBLen: the characters of a text.
MBLen(enc, text) ==
    IF enc = "utf-8" THEN Len(SelectSeq(text, LAMBDA b : ~Continues(b))) ELSE Len(text)

NotSetUp == [kind |-> "not yet"]
NotConverted == [of |-> "nothing"]

SetUp ==
    /\ converter = NotSetUp /\ conversion # <<>>
    /\ converter' = internal_new_convert(conversion, fix_encoding_str(conversion.in),
                                         fix_encoding_str(conversion.out))
    /\ UNCHANGED <<conversion, converted>>
Run ==
    /\ converter.kind \in {"none", "convert"} /\ converted = NotConverted
    /\ converted' = [of |-> "text", plain |-> ConvP(converter, conversion.text, conversion.size, FALSE),
                     strict |-> ConvP(converter, conversion.text, conversion.size, TRUE),
                     length |-> MBLen(fix_encoding_str(conversion.in), conversion.text)]
    /\ UNCHANGED <<conversion, converter>>

ConvertOff  == conversion = <<>> /\ converter = NotSetUp /\ converted = NotConverted
ConvertInit == conversion \in Conversions /\ converter = NotSetUp /\ converted = NotConverted
ConvertNext == SetUp \/ Run

-----------------------------------------------------------------------------

Was == conversion.text
Loose == converted.plain
HasConverted(d, e) ==
    /\ converted # NotConverted /\ converter.kind = "convert"
    /\ converter.decode.by \in d /\ converter.encode.by \in e
NoNul(t) == \A i \in DOMAIN t : t[i] # 0

(* What a character set's bytes say in UTF-8 comes back as those bytes,    *)
(* if no five of its characters end in the same eight bits and no two are  *)
(* the same: the rows of the table have room for four.                     *)
CharSetComesBack ==
    HasConverted({"lookup"}, {"utf8"}) /\ ~converter.direct /\ NoNul(Was) =>
        LET cs == converter.decode.set
            char(b) == InCharSet(cs, b)
            roomy == \A b \in 0 .. 255 : \E n \in 1 .. 4 : n <= Len(RowOf(cs, char(b))) /\ RowOf(cs, char(b))[n] = b
        IN  roomy => EncodeLookup(cs, DecodeUtf8(Loose.out, Len(Loose.out), TRUE).out, TRUE) = Encoded(Was, FALSE)

(* UTF-8 with anything wrong in it: each byte is accounted for by one      *)
(* character's width; what is whole at the end is read, whatever came      *)
(* before; the strict conversion refuses what the other one puts question  *)
(* marks for and accepts as many characters as MBLen counts; and the       *)
(* decoder leaves the text only behind bytes that go on with nothing.      *)
Utf8Read ==
    HasConverted({"utf8"}, {"utf8", "lookup", "norm", "direct"}) /\ ~converter.direct =>
        /\ conversion.size >= 0 /\ NoNul(Was) =>
               WidthOf(Loose.chars, 1, Len(Loose.chars) + 1) = Len(Was)
        /\ \A n \in 1 .. 4 : n <= Len(Was) /\ NoNul(Was) =>
               LET tail == SubSeq(Was, Len(Was) - n + 1, Len(Was))
                   c == from_utf8(tail, 1, n + 1).chr
               IN  c # Unmapped /\ tail = to_utf8(c) => Loose.chars # <<>> /\ Last(Loose.chars).chr = c
        /\ Loose.past => conversion.size = -1 /\ Was # <<>> /\ Continues(Last(UpToNul(Was)))
        /\ converted.strict.error \/ converted.strict.out = Loose.out
        /\ converter.encode.by # "direct" /\ converted.strict.error =>
               \E i \in DOMAIN Loose.out : Loose.out[i] = Question
        /\ conversion.size >= 0 /\ NoNul(Was) /\ converter.encode.by = "utf8" /\ ~converted.strict.error =>
               Len(Loose.chars) = converted.length

\* The lines a sequence leads to in a file: the last of them, if all are there.
LedTo(rows, seq) ==
    FoldLeft(LAMBDA l, c : IF c # 0 /\ \E i \in DOMAIN l.sub : l.sub[i].from = c
                           THEN CHOOSE m \in {l.sub[i] : i \in DOMAIN l.sub} : m.from = c
                           ELSE [from |-> -2, to |-> <<>>, sub |-> <<>>],
             [from |-> 0, to |-> <<>>, sub |-> rows], seq)
Means(rows, seq) == LedTo(rows, seq).from # -2 /\ LedTo(rows, seq).to # <<>>
Longest(rows, t, i) == Max({0} \cup {n \in 1 .. Len(t) - i + 1 : Means(rows, SubSeq(t, i, i + n - 1))})

(* The tree of tables means what the file says: each piece of a text is    *)
(* the longest sequence of the file that is there, a NUL is never part of  *)
(* one, and what no sequence covers is one question mark for one character. *)
NormIsLongest ==
    HasConverted({"lookup", "direct", "utf8"}, {"norm"}) =>
        LET rows == converter.encode.rows
            t == Chars(Loose.chars)
            pieces == NormPieces(rows, t, <<Question>>)
        IN  \A p \in DOMAIN pieces :
                LET from == pieces[p].from
                    len == (IF p = Len(pieces) THEN Len(t) + 1 ELSE pieces[p + 1].from) - from
                    n == Longest(rows, t, from)
                IN  IF t[from] = 0 THEN len = 1 /\ NormBytes(pieces[p]) = <<0>>
                    ELSE IF n = 0 THEN len = 1 /\ NormBytes(pieces[p]) = <<Question>>
                    ELSE len = n /\ NormBytes(pieces[p]) = LedTo(rows, SubSeq(t, from, from + n - 1)).to

(* Encoded in place, a text has the same bytes and widths that add up to   *)
(* all of what it came from, and one more for the NUL at its end.          *)
InPlaceAgrees ==
    HasConverted({"lookup", "direct", "utf8"}, {"norm", "lookup"}) /\ ~converter.direct =>
        LET low == [i \in DOMAIN Loose.place |-> Loose.place[i].chr % 256]
            norm == IF converter.encode.by = "norm" THEN 1 ELSE 0
        IN  /\ low = Loose.out \o [i \in 1 .. norm |-> 0]
            /\ WidthOf(Loose.place, 1, Len(low) + 1) = WidthOf(Loose.chars, 1, Len(Loose.chars) + 1) + norm

(* Bytes are put in a normal form without running past their NUL, and      *)
(* every one of them has a meaning in a table that has them all.           *)
FormIsSafe ==
    HasConverted({"norm"}, {"utf8", "lookup", "direct"}) =>
        ~Loose.past /\ (Loose.sound \/ \E i \in DOMAIN Was : ~Means(converter.decode.rows, <<Was[i]>>))

ConversionsSound == CharSetComesBack /\ Utf8Read /\ NormIsLongest /\ InPlaceAgrees /\ FormIsSafe
=============================================================================
