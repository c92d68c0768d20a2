------------------------------ MODULE Detector ------------------------------
(***************************************************************************)
(* libchardet.  The probers are each fed with pieces of a text and say how *)
(* sure they are that it is of their character set: a confidence is in     *)
(* ten-thousandths, and of the tables of a language, thousands of numbers, *)
(* the few entries that a bounded text can meet are constants.  Over them  *)
(* stands the detector (nsUniversalDetector.cpp) behind its C interface    *)
(* (chardet.cpp): a text comes in buffers, each call answers with the      *)
(* character set of what has come so far, and a reset starts a new text.   *)
(* Beside the detector that is used again and again stands a new one that  *)
(* has seen the buffers since the last reset only.                         *)
(***************************************************************************)
EXTENDS Integers, Sequences, FiniteSetsExt, SequencesExt

-----------------------------------------------------------------------------
(* The coding state machines: one for each multi-byte character set        *)
(* (nsMBCSSM.cpp) and for each that escape sequences announce (nsEscSM.cpp)*)
(* and the step that all of them share (nsCodingStateMachine.h).  The      *)
(* packed tables of four-bit numbers are here as runs of bytes of one      *)
(* class, <<last byte, class>>, and as rows of next states, one for each   *)
(* state, one entry for each class.                                        *)

eStart == 0
eError == 1
eItsMe == 2

Big5SMModel == [
    name |-> "Big5",
    cls |-> <<<<\h0D, 1>>, <<\h0F, 0>>, <<\h1A, 1>>, <<\h1B, 0>>, <<\h3F, 1>>, <<\h7E, 2>>,
              <<\h7F, 1>>, <<\hA0, 4>>, <<\hFE, 3>>, <<\hFF, 0>>>>,
    st |-> <<<<1, 0, 0, 3, 1>>, <<1, 1, 1, 1, 1>>, <<2, 2, 2, 2, 2>>, <<1, 1, 0, 0, 0>>>>,
    charLen |-> <<0, 1, 1, 2, 0>>]
EUCJPSMModel == [
    name |-> "EUC-JP",
    cls |-> <<<<\h0D, 4>>, <<\h0F, 5>>, <<\h1A, 4>>, <<\h1B, 5>>, <<\h7F, 4>>, <<\h8D, 5>>,
              <<\h8E, 1>>, <<\h8F, 3>>, <<\hA0, 5>>, <<\hDF, 2>>, <<\hFE, 0>>, <<\hFF, 5>>>>,
    st |-> <<<<3, 4, 3, 5, 0, 1>>, <<1, 1, 1, 1, 1, 1>>, <<2, 2, 2, 2, 2, 2>>,
             <<0, 1, 0, 1, 1, 1>>, <<1, 1, 0, 1, 1, 1>>, <<3, 1, 3, 1, 1, 1>>>>,
    charLen |-> <<2, 2, 2, 3, 1, 0>>]
EUCKRSMModel == [
    name |-> "EUC-KR",
    cls |-> <<<<\h0D, 1>>, <<\h0F, 0>>, <<\h1A, 1>>, <<\h1B, 0>>, <<\h7F, 1>>, <<\hA0, 0>>,
              <<\hAC, 2>>, <<\hAF, 3>>, <<\hC8, 2>>, <<\hC9, 3>>, <<\hFE, 2>>, <<\hFF, 0>>>>,
    st |-> <<<<1, 0, 3, 1>>, <<1, 1, 1, 1>>, <<2, 2, 2, 2>>, <<1, 1, 0, 0>>>>,
    charLen |-> <<0, 1, 2, 0>>]
EUCTWSMModel == [
    name |-> "EUC-TW",
    cls |-> <<<<\h0D, 2>>, <<\h0F, 0>>, <<\h1A, 2>>, <<\h1B, 0>>, <<\h7F, 2>>, <<\h8D, 0>>,
              <<\h8E, 6>>, <<\hA0, 0>>, <<\hA1, 3>>, <<\hA7, 4>>, <<\hA9, 5>>, <<\hC1, 1>>,
              <<\hC2, 3>>, <<\hC3, 1>>, <<\hFE, 3>>, <<\hFF, 0>>>>,
    st |-> <<<<1, 1, 0, 3, 3, 3, 4>>, <<1, 1, 1, 1, 1, 1, 1>>, <<2, 2, 2, 2, 2, 2, 2>>,
             <<1, 0, 1, 0, 0, 0, 1>>, <<1, 1, 1, 1, 5, 1, 1>>, <<1, 0, 1, 0, 0, 0, 1>>>>,
    charLen |-> <<0, 0, 1, 2, 2, 2, 3>>]
GB18030SMModel == [
    name |-> "GB18030",
    cls |-> <<<<\h0D, 1>>, <<\h0F, 0>>, <<\h1A, 1>>, <<\h1B, 0>>, <<\h2F, 1>>, <<\h39, 3>>,
              <<\h3F, 1>>, <<\h7E, 2>>, <<\h7F, 4>>, <<\h80, 5>>, <<\hFE, 6>>, <<\hFF, 0>>>>,
    st |-> <<<<1, 0, 0, 0, 0, 0, 3>>, <<1, 1, 1, 1, 1, 1, 1>>, <<2, 2, 2, 2, 2, 2, 2>>,
             <<1, 1, 0, 4, 1, 0, 0>>, <<1, 1, 1, 1, 1, 1, 5>>, <<1, 1, 1, 2, 1, 1, 1>>>>,
    charLen |-> <<0, 1, 1, 1, 1, 1, 2>>]
SJISSMModel == [
    name |-> "Shift_JIS",
    cls |-> <<<<\h0D, 1>>, <<\h0F, 0>>, <<\h1A, 1>>, <<\h1B, 0>>, <<\h3F, 1>>, <<\h7E, 2>>,
              <<\h7F, 1>>, <<\h9F, 3>>, <<\hDF, 2>>, <<\hEC, 3>>, <<\hFC, 4>>, <<\hFF, 0>>>>,
    st |-> <<<<1, 0, 0, 3, 1, 1>>, <<1, 1, 1, 1, 1, 1>>, <<2, 2, 2, 2, 2, 2>>,
             <<1, 1, 0, 0, 0, 0>>>>,
    charLen |-> <<0, 1, 1, 2, 0, 0>>]
UTF8SMModel ==
    LET row(first, last, next) ==
            [c \in 1 .. 16 |-> IF c - 1 \in first .. last THEN next ELSE eError]
    IN  [name |-> "UTF-8",
         cls |-> <<<<\h0D, 1>>, <<\h0F, 0>>, <<\h1A, 1>>, <<\h1B, 0>>, <<\h7F, 1>>, <<\h83, 2>>,
                   <<\h87, 3>>, <<\h9F, 4>>, <<\hBF, 5>>, <<\hC1, 0>>, <<\hDF, 6>>, <<\hE0, 7>>,
                   <<\hEC, 8>>, <<\hED, 9>>, <<\hEF, 8>>, <<\hF0, 10>>, <<\hF7, 11>>,
                   <<\hF8, 12>>, <<\hFB, 13>>, <<\hFC, 14>>, <<\hFD, 15>>, <<\hFF, 0>>>>,
         st |-> <<<<1, 0, 1, 1, 1, 1, 12, 10, 9, 11, 8, 7, 6, 5, 4, 3>>,
                  row(1, 0, 0), row(0, 15, eItsMe), row(2, 5, 5), row(3, 5, 5), row(2, 5, 7),
                  row(4, 5, 7), row(2, 5, 9), row(5, 5, 9), row(2, 5, 12), row(5, 5, 12),
                  row(2, 4, 12), row(2, 5, eStart)>>,
         charLen |-> <<0, 1, 0, 0, 0, 0, 2, 3, 3, 3, 4, 4, 5, 5, 6, 6>>]

NoLen == [c \in 1 .. 10 |-> 0]
HZSMModel == [
    name |-> "HZ-GB-2312",
    cls |-> <<<<\h00, 1>>, <<\h1A, 0>>, <<\h1B, 1>>, <<\h7A, 0>>, <<\h7B, 4>>, <<\h7C, 0>>,
              <<\h7D, 5>>, <<\h7E, 2>>, <<\h7F, 0>>, <<\hFF, 1>>>>,
    st |-> <<<<0, 1, 3, 0, 0, 0>>, <<1, 1, 1, 1, 1, 1>>, <<2, 2, 2, 2, 2, 2>>,
             <<1, 1, 0, 0, 4, 1>>, <<5, 1, 6, 1, 5, 5>>, <<4, 1, 4, 1, 4, 4>>,
             <<4, 1, 4, 1, 4, 2>>>>,
    charLen |-> NoLen]
ISO2022CNSMModel == [
    name |-> "ISO-2022-CN",
    cls |-> <<<<\h00, 2>>, <<\h1A, 0>>, <<\h1B, 1>>, <<\h28, 0>>, <<\h29, 3>>, <<\h42, 0>>,
              <<\h43, 4>>, <<\h7F, 0>>, <<\hFF, 2>>>>,
    st |-> <<<<0, 3, 1, 0, 0, 0, 0, 0, 0>>, <<1, 1, 1, 1, 1, 1, 1, 1, 1>>,
             <<2, 2, 2, 2, 2, 2, 2, 2, 2>>, <<1, 1, 1, 4, 1, 1, 1, 1, 2>>,
             <<1, 1, 1, 1, 5, 6, 1, 1, 1>>, <<1, 1, 1, 1, 1, 1, 2, 1, 1>>,
             <<1, 1, 1, 1, 1, 1, 1, 2, 1>>>>,
    charLen |-> NoLen]
ISO2022JPSMModel == [
    name |-> "ISO-2022-JP",
    cls |-> <<<<\h00, 2>>, <<\h0D, 0>>, <<\h0F, 2>>, <<\h1A, 0>>, <<\h1B, 1>>, <<\h23, 0>>,
              <<\h24, 7>>, <<\h27, 0>>, <<\h28, 3>>, <<\h3F, 0>>, <<\h40, 6>>, <<\h41, 0>>,
              <<\h42, 4>>, <<\h43, 0>>, <<\h44, 8>>, <<\h48, 0>>, <<\h49, 9>>, <<\h4A, 5>>,
              <<\h7F, 0>>, <<\hFF, 2>>>>,
    st |-> <<<<0, 3, 1, 0, 0, 0, 0, 0, 0, 0>>, <<1, 1, 1, 1, 1, 1, 1, 1, 1, 1>>,
             <<2, 2, 2, 2, 2, 2, 2, 2, 2, 2>>, <<1, 1, 1, 5, 1, 1, 1, 4, 1, 1>>,
             <<1, 1, 1, 6, 2, 1, 2, 1, 1, 1>>, <<1, 1, 1, 1, 2, 2, 1, 1, 1, 2>>,
             <<1, 1, 1, 1, 1, 1, 1, 1, 2, 1>>>>,
    charLen |-> NoLen]
ISO2022KRSMModel == [
    name |-> "ISO-2022-KR",
    cls |-> <<<<\h00, 2>>, <<\h1A, 0>>, <<\h1B, 1>>, <<\h23, 0>>, <<\h24, 3>>, <<\h28, 0>>,
              <<\h29, 4>>, <<\h42, 0>>, <<\h43, 5>>, <<\h7F, 0>>, <<\hFF, 2>>>>,
    st |-> <<<<0, 3, 1, 0, 0, 0>>, <<1, 1, 1, 1, 1, 1>>, <<2, 2, 2, 2, 2, 2>>,
             <<1, 1, 1, 4, 1, 1>>, <<1, 1, 1, 1, 5, 1>>, <<1, 1, 1, 1, 1, 2>>>>,
    charLen |-> NoLen]

(* Mutant: the two halves of a byte of the packed table are swapped.       *)
GetClassSwapped(model, b) ==
    LET c == IF b % 2 = 0 THEN b + 1 ELSE b - 1
    IN  model.cls[CHOOSE i \in DOMAIN model.cls :
                     c <= model.cls[i][1] /\ (i = 1 \/ c > model.cls[i - 1][1])][2]

(* The byte's class and, of the class and the state, the next state; at    *)
(* the first byte of a character also how long it will be.                 *)
GetClass(model, b) ==
    model.cls[CHOOSE i \in DOMAIN model.cls :
                 b <= model.cls[i][1] /\ (i = 1 \/ b > model.cls[i - 1][1])][2]
NextState(model, sm, b) ==
    [state |-> model.st[sm.state + 1][GetClass(model, b) + 1],
     len   |-> IF sm.state = eStart THEN model.charLen[GetClass(model, b) + 1] ELSE sm.len]
FreshSM == [state |-> eStart, len |-> 0]

Escapes == {HZSMModel, ISO2022CNSMModel, ISO2022JPSMModel, ISO2022KRSMModel}
Coders  == {Big5SMModel, EUCJPSMModel, EUCKRSMModel, EUCTWSMModel, GB18030SMModel, SJISSMModel,
            UTF8SMModel}

-----------------------------------------------------------------------------
(***************************************************************************)
(* A coding state machine fed with a text a byte at a time, and what the   *)
(* character sets themselves say of that text.                             *)
(***************************************************************************)
CONSTANT MaxText        \* the longest text that is tried, but for one byte more of a character

VARIABLES
    model,              \* the machine's name, or "none"
    text,               \* the bytes it has seen
    sm                  \* its state
textvars == <<model, text, sm>>

(* The bytes on both sides of every border between classes; a machine that *)
(* has found an error or itself keeps to that.                             *)
Model(name) == CHOOSE m \in Coders \cup Escapes : m.name = name
Bytes(m) == UNION {{m.cls[i][1], (m.cls[i][1] + 1) % 256} : i \in DOMAIN m.cls}
Feed ==
    /\ model # "none" /\ sm.state \notin {eError, eItsMe}
    /\ Len(text) < MaxText \/ (Len(text) = MaxText /\ sm.state # eStart)
    /\ \E b \in Bytes(Model(model)) :
          /\ text' = Append(text, b)
          /\ sm' = NextState(Model(model), sm, b)
    /\ UNCHANGED model

TextOff  == model = "none" /\ text = <<>> /\ sm = FreshSM
TextInit == model \in {m.name : m \in Coders \cup Escapes} /\ text = <<>> /\ sm = FreshSM
TextNext == Feed

-----------------------------------------------------------------------------

(* What a character of each set is, as sets of bytes one after the other;  *)
(* the controls that switch between sets are none of any.                  *)
Plain    == (0 .. 127) \ {\h0E, \h0F, \h1B}
High     == \hA1 .. \hFE
Trail    == (\h40 .. \h7E) \cup (\h80 .. \hFC)
Shapes(name) ==
    CASE name = "Big5" -> {<<Plain>>, <<High, (\h40 .. \h7E) \cup High>>}
      [] name = "EUC-JP" -> {<<Plain>>, <<High, High>>, <<{\h8E}, \hA1 .. \hDF>>,
                             <<{\h8F}, High, High>>}
      [] name = "EUC-KR" -> {<<Plain>>, <<High, High>>}
      [] name = "EUC-TW" -> {<<Plain>>, <<High, High>>, <<{\h8E}, \hA1 .. \hB0, High, High>>}
      [] name = "GB18030" -> {<<Plain>>, <<\h81 .. \hFE, (\h40 .. \hFE) \ {\h7F}>>,
                              <<\h81 .. \hFE, \h30 .. \h39, \h81 .. \hFE, \h30 .. \h39>>}
      [] name = "Shift_JIS" -> {<<Plain>>, <<\hA1 .. \hDF>>,
                                <<(\h81 .. \h9F) \cup (\hE0 .. \hFC), Trail>>}
      [] OTHER -> {}

(* Where the machines differ from the sets.  What they take besides: a     *)
(* second byte of Big5 below A1 and a first one of Shift_JIS of 80, which  *)
(* the comments of CharDistribution.h:187-190 and 206-208 say they rule    *)
(* out, the A0 that nsMBCSSM.cpp:405 forgives, the 80 of Windows in        *)
(* GB18030, and a character of EUC-TW on another plane that lacks its      *)
(* last byte.  And what they refuse: first bytes that stand for no         *)
(* characters of EUC-KR and EUC-TW or for those users define, the planes   *)
(* of EUC-TW, and F0 90 to F0 9F of UTF-8, where emoji are.                *)
TakenToo(name) ==
    CASE name = "Big5" -> {<<High, \h80 .. \hA0>>}
      [] name = "EUC-TW" -> {<<{\h8E}, \hA2 .. \hA7, High>>}
      [] name = "GB18030" -> {<<{\h80}>>}
      [] name = "Shift_JIS" -> {<<{\hA0}>>, <<{\h80}, Trail>>}
      [] OTHER -> {}
Refused(name) ==
    CASE name = "EUC-KR" -> {<<(\hAD .. \hAF) \cup {\hC9}>>}
      [] name = "EUC-TW" -> {<<(\hAA .. \hC1) \cup {\hC3}>>, <<{\h8E}>>}
      [] name = "Shift_JIS" -> {<<\hED .. \hFC>>}
      [] name = "UTF-8" -> {<<{\hF0}, \h90 .. \h9F>>}
      [] OTHER -> {}

(* UTF-8 by the numbers it stands for: how many bytes, the bits of the     *)
(* first, and the numbers that need that many bytes and are no surrogates, *)
(* up to the six bytes of RFC 2279.                                        *)
Lead == <<<<0, 127>>, <<\hC0, \hDF>>, <<\hE0, \hEF>>, <<\hF0, \hF7>>, <<\hF8, \hFB>>,
          <<\hFC, \hFD>>>>
Numbers == <<{<<0, \h0D>>, <<\h10, \h1A>>, <<\h1C, \h7F>>}, {<<\h80, \h7FF>>},
             {<<\h800, \hD7FF>>, <<\hE000, \hFFFF>>}, {<<\h10000, \h1FFFFF>>},
             {<<\h200000, \h3FFFFFF>>}, {<<\h4000000, \h7FFFFFFF>>}>>
Number(s, n) ==
    (s[1] - Lead[n][1]) * 64 ^ (Len(s) - 1)
        + MapThenSumSet(LAMBDA i : (s[i] - 128) * 64 ^ (Len(s) - i), 2 .. Len(s))
Utf8Prefix(s, n) ==
    /\ Len(s) <= n /\ s[1] \in Lead[n][1] .. Lead[n][2]
    /\ \A i \in 2 .. Len(s) : s[i] \in 128 .. 191
    /\ LET unit == 64 ^ (n - Len(s))
           low  == Number(s, n) * unit
       IN  \E r \in Numbers[n] : low <= r[2] /\ low + (unit - 1) >= r[1]

(* The bytes are the start of a character, or a whole one.                 *)
FitsShape(s, q) == Len(s) <= Len(q) /\ \A i \in DOMAIN s : s[i] \in q[i]
OfSet(s)   == ~\E r \in Refused(model) : Len(r) <= Len(s) /\ FitsShape(SubSeq(s, 1, Len(r)), r)
Starts(s) ==
    \/ OfSet(s) /\ model = "UTF-8" /\ \E n \in 1 .. 6 : Utf8Prefix(s, n)
    \/ OfSet(s) /\ \E q \in Shapes(model) : FitsShape(s, q)
    \/ \E q \in TakenToo(model) : FitsShape(s, q)
IsChar(s) ==
    \/ OfSet(s) /\ model = "UTF-8" /\ \E n \in 1 .. 6 : Len(s) = n /\ Utf8Prefix(s, n)
    \/ OfSet(s) /\ \E q \in Shapes(model) : Len(s) = Len(q) /\ FitsShape(s, q)
    \/ \E q \in TakenToo(model) : Len(s) = Len(q) /\ FitsShape(s, q)
WholeTo ==
    LET whole[n \in 0 .. Len(text)] ==
            n = 0 \/ \E k \in 0 .. n - 1 : whole[k] /\ IsChar(SubSeq(text, k + 1, n))
    IN  whole
Legal == \E k \in 0 .. Len(text) :
            WholeTo[k] /\ (k = Len(text) \/ Starts(SubSeq(text, k + 1, Len(text))))

(* The sequences that announce a character set, and what may be in front.  *)
Designators(name) ==
    CASE name = "ISO-2022-JP" -> {<<\h1B, \h24, \h40>>, <<\h1B, \h24, \h42>>, <<\h1B, \h28, \h42>>,
                                  <<\h1B, \h28, \h4A>>, <<\h1B, \h28, \h49>>,
                                  <<\h1B, \h24, \h28, \h44>>}
      [] name = "ISO-2022-KR" -> {<<\h1B, \h24, \h29, \h43>>}
      [] OTHER -> {}
InFront(name) == (1 .. 127) \ (IF name = "ISO-2022-JP" THEN {\h0E, \h0F, \h1B} ELSE {\h1B})
Announced == \E k \in 0 .. Len(text) :
                /\ \A i \in 1 .. k : text[i] \in InFront(model)
                /\ SubSeq(text, k + 1, Len(text)) \in Designators(model)

(* The machine of a multi-byte set is in its start state exactly behind    *)
(* whole characters, and in error exactly when the text cannot go on to be *)
(* one of the set, but for the characters named above; it finds itself     *)
(* only at a character of four bytes of GB18030.  The machine of an escape *)
(* sequence finds itself exactly at the end of the first one: that of      *)
(* ISO-2022-CN never does.                                                 *)
MachinesRight ==
    /\ model \in {m.name : m \in Coders} =>
          /\ (sm.state \in {eStart, eItsMe}) = WholeTo[Len(text)]
          /\ (sm.state = eError) = ~Legal
          /\ (sm.state = eItsMe) = (model = "GB18030" /\ \E k \in {Len(text) - 4} \cap Nat :
                                       WholeTo[k] /\ IsChar(SubSeq(text, k + 1, Len(text))))
    /\ model \in {m.name : m \in Escapes \ {HZSMModel}} => (sm.state = eItsMe) = Announced

-----------------------------------------------------------------------------
(* The probers and the detector.                                           *)

CONSTANTS
    Frequent,       \* <<table, two bytes>> of the 512 most frequent characters
    NeverFollows,   \* pairs of hiragana of category 0 in jp2CharContext
    EnoughChars,    \* ENOUGH_DATA_THRESHOLD, 1024
    EnoughPairs,    \* ENOUGH_REL_THRESHOLD, 100
    MaxPairs,       \* MAX_REL_THRESHOLD, 1000
    RelNeeded,      \* MINIMUM_DATA_THRESHOLD, 4
    EnoughSeqs,     \* SB_ENOUGH_REL_THRESHOLD, 1024
    SbModels        \* the models of the single-byte probers

ASSUME ProbersAssumption ==
    /\ {EnoughChars, EnoughPairs, MaxPairs, RelNeeded, EnoughSeqs} \subseteq Nat
    /\ SbModels \in Seq({SbModels[i] : i \in DOMAIN SbModels})
    /\ \A i \in DOMAIN SbModels :
          /\ SbModels[i].kind \in {"plain", "hebrew", "logical", "visual"}
          /\ SbModels[i].name \notin {"none", "ASCII", "UTF-8"} \cup {m.name : m \in Escapes}

Sure      == 9900
SureNot   == 100
Shortcut  == 9500
Bigger(a, b) == IF a > b THEN a ELSE b

-----------------------------------------------------------------------------
(* Multi-byte character sets.                                              *)

MbNames == <<"UTF-8", "Shift_JIS", "EUC-JP", "GB18030", "EUC-KR", "Big5", "EUC-TW">>
CoderOf(name) == CHOOSE m \in Coders : m.name = name
MbFresh == [sm |-> FreshSM, found |-> FALSE, last |-> 0, chars |-> 0, total |-> 0, freq |-> 0,
            rel |-> 0, never |-> 0, lastOrder |-> -1, enough |-> FALSE]

(* Mutant: what was counted in the text before is kept.                    *)
MbResetHalf(p) == [MbFresh EXCEPT !.chars = p.chars, !.last = p.last]
MbReset(p)     == [MbFresh EXCEPT !.last = p.last]

(* The table a set's characters are looked up in, the ratio that is        *)
(* typical for it in hundredths, and the characters that are counted: two  *)
(* sets of Japan share one table.                                          *)
Ratio(name) == CASE name = "EUC-KR" -> 600 [] name = "GB18030" -> 90
                 [] name \in {"Shift_JIS", "EUC-JP"} -> 300 [] OTHER -> 75
HasOrder(name, lead, trail) ==
    CASE name = "EUC-TW" -> lead >= \hC4
      [] name = "EUC-KR" -> lead >= \hB0
      [] name = "GB18030" -> lead >= \hB0 /\ trail >= \hA1
      [] name = "Big5" -> lead >= \hA4
      [] name = "Shift_JIS" -> lead \in (\h81 .. \h9F) \cup (\hE0 .. \hEF)
      [] name = "EUC-JP" -> lead >= \hA0
      [] OTHER -> FALSE
Distribution(name, p, lead, trail, len) ==
    IF len = 2 /\ HasOrder(name, lead, trail)
    THEN [p EXCEPT !.total = @ + 1,
                   !.freq = IF <<name, lead, trail>> \in Frequent THEN @ + 1 ELSE @]
    ELSE p

(* Which hiragana a character is, and the pairs that are counted.          *)
Hiragana(name, lead, trail) ==
    CASE name = "Shift_JIS" /\ lead = \h82 /\ trail \in \h9F .. \hF1 -> trail - \h9F
      [] name = "EUC-JP" /\ lead = \hA4 /\ trail \in \hA1 .. \hF3 -> trail - \hA1
      [] OTHER -> -1
Counted(p, order) ==
    LET pair == order # -1 /\ p.lastOrder # -1
    IN  [p EXCEPT !.rel = IF pair THEN @ + 1 ELSE @,
                  !.never = IF pair /\ <<p.lastOrder, order>> \in NeverFollows THEN @ + 1 ELSE @,
                  !.lastOrder = order]
Context(name, p, lead, trail, len) ==
    IF name \notin {"Shift_JIS", "EUC-JP"} THEN p
    ELSE IF p.enough \/ p.rel > MaxPairs THEN [p EXCEPT !.enough = TRUE]
    ELSE Counted(p, IF len = 2 THEN Hiragana(name, lead, trail) ELSE -1)

Whole(name, p, b) ==
    IF name = "UTF-8" THEN IF p.sm.len >= 2 THEN [p EXCEPT !.chars = @ + 1] ELSE p
    ELSE Distribution(name, Context(name, p, p.last, b, p.sm.len), p.last, b, p.sm.len)
Stepped(name, p, b) ==
    IF p.sm.state = eItsMe THEN [p EXCEPT !.found = TRUE]
    ELSE IF p.sm.state = eStart THEN Whole(name, p, b) ELSE p
MbByte(name, p, b) ==
    IF p.found THEN p
    ELSE [Stepped(name, [p EXCEPT !.sm = NextState(CoderOf(name), @, b)], b) EXCEPT !.last = b]

DistributionConfidence(name, p) ==
    IF p.total = 0 THEN SureNot
    ELSE IF p.total = p.freq THEN Sure
    ELSE LET r == (p.freq * 1000000) \div ((p.total - p.freq) * Ratio(name))
         IN  IF r < Sure THEN r ELSE Sure
ContextConfidence(p) ==
    IF p.rel > RelNeeded THEN ((p.rel - p.never) * 10000) \div p.rel ELSE -10000
MbConfidence(name, p) ==
    IF name = "UTF-8"
    THEN IF p.chars < 6 THEN 10000 - Sure \div <<1, 2, 4, 8, 16, 32>>[p.chars + 1] ELSE Sure
    ELSE IF name \in {"Shift_JIS", "EUC-JP"}
    THEN Bigger(ContextConfidence(p), DistributionConfidence(name, p))
    ELSE DistributionConfidence(name, p)
GotEnough(name, p) ==
    CASE name = "UTF-8" -> TRUE
      [] name \in {"Shift_JIS", "EUC-JP"} -> p.rel > EnoughPairs
      [] OTHER -> p.total > EnoughChars
Decided(name, p) ==
    [p EXCEPT !.found = @ \/ (GotEnough(name, p) /\ MbConfidence(name, p) > Shortcut)]
MbHandleData(name, p, buf) ==
    Decided(name, FoldLeft(LAMBDA q, b : MbByte(name, q, b), p, buf))

(* The group feeds the pieces around bytes that are not ASCII: from the    *)
(* first of them to the second ASCII byte behind the last.  At the end of  *)
(* the buffer the piece is one byte too long: it has the one behind, which *)
(* is a NUL if the buffer is a string, and else whatever lies there.       *)
MbGroupFresh == [probers |-> [i \in DOMAIN MbNames |-> MbFresh], best |-> 0, keepNext |-> 0]
MbGroupReset(g) ==
    [probers |-> [i \in DOMAIN MbNames |-> MbReset(g.probers[i])], best |-> 0, keepNext |-> 0]
Cut(acc, b) ==
    IF b >= 128 THEN [acc EXCEPT !.piece = Append(IF acc.keep = 0 THEN <<>> ELSE @, b), !.keep = 2]
    ELSE IF acc.keep = 0 THEN acc
    ELSE IF acc.keep = 1
    THEN [acc EXCEPT !.pieces = Append(@, Append(acc.piece, b)), !.piece = <<>>, !.keep = 0]
    ELSE [acc EXCEPT !.piece = Append(@, b), !.keep = 1]
Pieces(keepNext, buf, behind) ==
    LET cut == FoldLeft(Cut, [pieces |-> <<>>, piece |-> <<>>, keep |-> keepNext], buf)
    IN  [keep |-> cut.keep,
         pieces |-> IF cut.keep > 0 THEN Append(cut.pieces, Append(cut.piece, behind))
                    ELSE cut.pieces]
MbFeed(g, i, piece) ==
    IF g.best # 0 THEN g
    ELSE LET p == MbHandleData(MbNames[i], g.probers[i], piece)
         IN  [g EXCEPT !.probers[i] = p, !.best = IF p.found THEN i ELSE 0]
MbFeedAll(g, piece) ==
    FoldLeft(LAMBDA h, i : MbFeed(h, i, piece), g, [i \in DOMAIN MbNames |-> i])
MbKept(g, keep) == IF g.best # 0 THEN g ELSE [g EXCEPT !.keepNext = keep]
MbGroupHandleData(g, buf, behind) ==
    LET p == Pieces(g.keepNext, buf, behind) IN MbKept(FoldLeft(MbFeedAll, g, p.pieces), p.keep)

(* The first of those with the greatest confidence, or 0.                  *)
BestOf(n, conf(_)) ==
    FoldLeft(LAMBDA m, i : IF conf(i) > m[2] THEN <<i, conf(i)>> ELSE m, <<0, 0>>,
             [i \in 1 .. n |-> i])
MbGuess(g) ==
    IF g.best # 0 THEN <<g.best, Sure>>
    ELSE BestOf(Len(MbNames), LAMBDA i : MbConfidence(MbNames[i], g.probers[i]))

-----------------------------------------------------------------------------
(* Single-byte character sets.                                             *)

Letter(b) == b \in (65 .. 90) \cup (97 .. 122)
IsSymbol(b) == b < 128 /\ ~Letter(b)

(* Words with a byte that is not ASCII, with one blank behind each but a   *)
(* last one that the buffer cuts off; or, with English letters, all words  *)
(* that do not end inside of a tag.                                        *)
Word(acc, b, keep, tag) ==
    IF ~IsSymbol(b) THEN [acc EXCEPT !.word = Append(@, b)]
    ELSE [out |-> IF keep THEN acc.out \o Append(acc.word, 32) ELSE acc.out,
          word |-> <<>>, tag |-> tag]
InTag(acc, b) == b = 60 \/ (acc.tag /\ b # 62)
Upper(word) == \E i \in DOMAIN word : word[i] >= 128
NoWord == [out |-> <<>>, word |-> <<>>, tag |-> FALSE]
FilterWithoutEnglishLetters(buf) ==
    LET f == FoldLeft(LAMBDA acc, b : Word(acc, b, Upper(acc.word), FALSE), NoWord, buf)
    IN  IF Upper(f.word) THEN f.out \o f.word ELSE f.out
FilterWithEnglishLetters(buf) ==
    LET f == FoldLeft(LAMBDA acc, b : Word(acc, b, acc.word # <<>> /\ ~InTag(acc, b), InTag(acc, b)),
                      NoWord, buf)
    IN  IF f.tag THEN f.out ELSE f.out \o f.word

Illegal == 255
Control == 254
SymbolOrder == 250
SbFresh == [state |-> "detecting", last |-> 255, seqs |-> 0, positive |-> 0, probable |-> 0,
            chars |-> 0, ctrl |-> 0, freq |-> 0,
            logical |-> 0, visual |-> 0, prev |-> 32, beforePrev |-> 32]

Pair(m, p, order) ==
    IF p.last >= m.freqCount THEN p
    ELSE LET cat == IF m.kind = "visual" THEN m.matrix[<<order, p.last>>]
                    ELSE m.matrix[<<p.last, order>>]
         IN  [p EXCEPT !.seqs = @ + 1, !.positive = IF cat = 3 THEN @ + 1 ELSE @,
                       !.probable = IF cat = 2 THEN @ + 1 ELSE @]
OrderSeen(m, p, order) ==
    [(IF order < m.freqCount THEN Pair(m, [p EXCEPT !.freq = @ + 1], order) ELSE p)
        EXCEPT !.chars = IF order < SymbolOrder THEN @ + 1 ELSE @,
               !.ctrl = IF order = Control THEN @ + 1 ELSE @, !.last = order]
SbByte(m, p, b) ==
    IF p.state = "not me" THEN p
    ELSE IF m.order[b] = Illegal THEN [p EXCEPT !.state = "not me"]
    ELSE OrderSeen(m, p, m.order[b])
SbConfidence(m, p) ==
    IF m.kind = "hebrew" THEN 0
    ELSE IF p.seqs = 0 THEN SureNot
    ELSE LET r1 == (p.positive * 100000000) \div (p.seqs * m.ratio)
             r2 == (r1 * (4 * p.positive + p.probable)) \div (4 * p.chars)
             r3 == (((r2 * (p.chars - p.ctrl)) \div p.chars) * p.freq) \div p.chars
         IN  IF r3 >= 10000 THEN Sure ELSE r3
SbDecided(m, p) ==
    IF p.state # "detecting" \/ p.seqs <= EnoughSeqs THEN p
    ELSE [p EXCEPT !.state = IF SbConfidence(m, p) > Shortcut THEN "found"
                             ELSE IF SbConfidence(m, p) < 500 THEN "not me" ELSE @]

(* Hebrew: what is at the ends of words tells text that is stored as it is *)
(* read from text that is stored as it is seen.  The prober of that counts *)
(* beside the two of the model, and names the set for them.                *)
IsFinal(b)    == b \in {\hEA, \hED, \hEF, \hF3, \hF5}
IsNonFinal(b) == b \in {\hEB, \hEE, \hF0, \hF4}
HebrewByte(p, b) ==
    [p EXCEPT !.logical = IF b = 32 /\ p.beforePrev # 32 /\ IsFinal(p.prev) THEN @ + 1 ELSE @,
              !.visual = IF \/ b = 32 /\ p.beforePrev # 32 /\ IsNonFinal(p.prev)
                            \/ b # 32 /\ p.beforePrev = 32 /\ IsFinal(p.prev)
                         THEN @ + 1 ELSE @,
              !.beforePrev = p.prev, !.prev = b]
OfKind(kind) == CHOOSE i \in DOMAIN SbModels : SbModels[i].kind = kind
HebrewName(ps) ==
    LET final == ps[OfKind("hebrew")].logical - ps[OfKind("hebrew")].visual
        lead  == SbConfidence(SbModels[OfKind("logical")], ps[OfKind("logical")])
                    - SbConfidence(SbModels[OfKind("visual")], ps[OfKind("visual")])
    IN  CASE final >= 5 -> "windows-1255" [] final <= -5 -> "ISO-8859-8"
          [] lead > 100 -> "windows-1255" [] lead < -100 -> "ISO-8859-8"
          [] OTHER -> IF final < 0 THEN "ISO-8859-8" ELSE "windows-1255"
HebrewHandleData(ps, buf) ==
    LET p == ps[OfKind("hebrew")]
    IN  IF \A k \in {"logical", "visual"} : ps[OfKind(k)].state = "not me"
        THEN [p EXCEPT !.state = "not me"] ELSE FoldLeft(HebrewByte, p, buf)
SbHandleData(ps, i, buf) ==
    IF SbModels[i].kind = "hebrew" THEN HebrewHandleData(ps, buf)
    ELSE SbDecided(SbModels[i], FoldLeft(LAMBDA p, b : SbByte(SbModels[i], p, b), ps[i], buf))

(* A prober that says it is not the one is asked no more; when none is     *)
(* left the group says so too.                                             *)
SbGroupFresh == [probers |-> [i \in DOMAIN SbModels |-> SbFresh], active |-> DOMAIN SbModels,
                 best |-> 0]
SbFeed(g, i, buf) ==
    IF g.best # 0 \/ i \notin g.active THEN g
    ELSE LET p == SbHandleData(g.probers, i, buf)
         IN  [probers |-> [g.probers EXCEPT ![i] = p],
              active |-> IF p.state = "not me" THEN g.active \ {i} ELSE g.active,
              best |-> IF p.state = "found" THEN i ELSE 0]
SbGroupHandleData(g, buf) ==
    LET letters == FilterWithoutEnglishLetters(buf)
    IN  IF letters = <<>> THEN g
        ELSE FoldLeft(LAMBDA h, i : SbFeed(h, i, letters), g, [i \in DOMAIN SbModels |-> i])
SbName(g, i) ==
    IF SbModels[i].kind \in {"logical", "visual"} THEN HebrewName(g.probers) ELSE SbModels[i].name
SbGuess(g) ==
    IF g.best # 0 THEN <<g.best, Sure>>
    ELSE IF g.active = {} THEN <<0, SureNot>>
    ELSE BestOf(Len(SbModels), LAMBDA i : IF i \in g.active
                                          THEN SbConfidence(SbModels[i], g.probers[i]) ELSE 0)

-----------------------------------------------------------------------------
(* Latin 1: how likely a letter is behind the one before it.               *)

InRuns(b, runs) == \E i \in DOMAIN runs : b \in runs[i][1] .. runs[i][2]
Latin1Class(b) ==
    CASE b \in {\h81, \h8D, \h8F, \h90, \h9D} -> 0
      [] b \in 65 .. 90 -> 2
      [] b \in 97 .. 122 -> 3
      [] InRuns(b, <<<<\hC0, \hC5>>, <<\hC8, \hCF>>, <<\hD2, \hD6>>, <<\hD8, \hDC>>>>) -> 4
      [] InRuns(b, <<<<\h8A, \h8A>>, <<\h8C, \h8C>>, <<\h8E, \h8E>>, <<\h9F, \h9F>>, <<\hC6, \hC7>>,
                      <<\hD0, \hD1>>, <<\hDD, \hDF>>>>) -> 5
      [] InRuns(b, <<<<\hE0, \hE5>>, <<\hE8, \hEF>>, <<\hF2, \hF6>>, <<\hF8, \hFC>>>>) -> 6
      [] InRuns(b, <<<<\h83, \h83>>, <<\h9A, \h9A>>, <<\h9C, \h9C>>, <<\h9E, \h9E>>, <<\hE6, \hE7>>,
                      <<\hF0, \hF1>>, <<\hFD, \hFF>>>>) -> 7
      [] OTHER -> 1
Latin1ClassModel == <<
    <<0, 0, 0, 0, 0, 0, 0, 0>>, <<0, 3, 3, 3, 3, 3, 3, 3>>, <<0, 3, 3, 3, 3, 3, 3, 3>>,
    <<0, 3, 3, 3, 1, 1, 3, 3>>, <<0, 3, 3, 3, 1, 2, 1, 2>>, <<0, 3, 3, 3, 3, 3, 3, 3>>,
    <<0, 3, 1, 3, 1, 1, 1, 3>>, <<0, 3, 1, 3, 1, 1, 3, 3>>>>
Latin1Fresh == [notMe |-> FALSE, last |-> 1, freq |-> <<0, 0, 0>>]

(* A byte that cannot be there ends this buffer, and the prober says for   *)
(* good that it is not the one, although it counts on in the next buffer.  *)
Latin1Byte(acc, b) ==
    LET freq == Latin1ClassModel[acc[2].last + 1][Latin1Class(b) + 1]
    IN  IF ~acc[1] THEN acc
        ELSE IF freq = 0 THEN <<FALSE, [acc[2] EXCEPT !.notMe = TRUE]>>
        ELSE <<TRUE, [acc[2] EXCEPT !.freq[freq] = @ + 1, !.last = Latin1Class(b)]>>
Latin1HandleData(p, buf) == FoldLeft(Latin1Byte, <<TRUE, p>>, FilterWithEnglishLetters(buf))[2]
Latin1Confidence(p) ==
    LET total == p.freq[1] + p.freq[2] + p.freq[3]
        c     == IF total = 0 THEN 0
                 ELSE (p.freq[3] * 10000 - p.freq[1] * 200000) \div total
    IN  IF p.notMe THEN SureNot ELSE Bigger(c, 0) \div 2

-----------------------------------------------------------------------------
(* The detector.                                                           *)

CONSTANTS
    Buffers,            \* the buffers a client may hand over, and the byte behind each
    MaxBuffers          \* how many of them between two resets

ASSUME BuffersAssumption == Buffers \subseteq [bytes : Seq(0 .. 255), behind : 0 .. 255]

VARIABLES
    det,                \* the detector of detect_init
    ref,                \* a new detector, given the same text
    seen                \* the buffers since the last reset
detectvars == <<det, ref, seen>>

MinimumThreshold == 2000
None == "none"

-----------------------------------------------------------------------------
(* Escape sequences: all machines see each byte, the last one first, until *)
(* one of them finds itself.                                               *)

EscModels == <<HZSMModel, ISO2022CNSMModel, ISO2022JPSMModel, ISO2022KRSMModel>>
EscFresh  == [sms |-> [i \in DOMAIN EscModels |-> FreshSM], name |-> None]
EscStep(e, i, b) ==
    LET m == NextState(EscModels[i], e.sms[i], b)
    IN  IF e.name # None THEN e
        ELSE [sms |-> [e.sms EXCEPT ![i] = m],
              name |-> IF m.state = eItsMe THEN EscModels[i].name ELSE None]
EscHandleData(e, buf) ==
    FoldLeft(LAMBDA f, b : FoldLeft(LAMBDA g, i : EscStep(g, i, b), f, <<4, 3, 2, 1>>), e, buf)

-----------------------------------------------------------------------------

Fresh == [done |-> FALSE, start |-> TRUE, gotData |-> FALSE, input |-> "pure", nbsp |-> FALSE,
          lastChar |-> 0, charset |-> None, confidence |-> 0, bom |-> FALSE,
          esc |-> EscFresh, mb |-> MbGroupFresh, sb |-> SbGroupFresh, latin |-> Latin1Fresh]
Reset(d) == [Fresh EXCEPT !.mb = MbGroupReset(d.mb)]

(* The marks a text may begin with; a buffer of three bytes is too short.  *)
Marks == <<<<<<\hEF, \hBB, \hBF>>, "UTF-8">>, <<<<\hFE, \hFF, 0, 0>>, "X-ISO-10646-UCS-4-3412">>,
           <<<<\hFE, \hFF>>, "UTF-16BE">>, <<<<0, 0, \hFE, \hFF>>, "UTF-32BE">>,
           <<<<0, 0, \hFF, \hFE>>, "X-ISO-10646-UCS-4-2143">>,
           <<<<\hFF, \hFE, 0, 0>>, "UTF-32LE">>, <<<<\hFF, \hFE>>, "UTF-16LE">>,
           <<<<\h2B, \h2F, \h76, \h38>>, "UTF-7">>, <<<<\h2B, \h2F, \h76, \h39>>, "UTF-7">>,
           <<<<\h2B, \h2F, \h76, \h2B>>, "UTF-7">>, <<<<\h2B, \h2F, \h76, \h2F>>, "UTF-7">>,
           <<<<\hE7, \h64, \h4C>>, "UTF-1">>, <<<<\hDD, \h73, \h66, \h73>>, "UTF-EBCDIC">>,
           <<<<\h0E, \hFE, \hFF>>, "SCSU">>, <<<<\hFB, \hEE, \h28>>, "BOCU-1">>,
           <<<<\h84, \h31, \h95, \h33>>, "GB18030">>>>
MarkOf(buf) ==
    LET fit == {i \in DOMAIN Marks : IsPrefix(Marks[i][1], buf)}
    IN  IF Len(buf) <= 3 \/ fit = {} THEN None
        ELSE Marks[CHOOSE i \in fit : \A j \in fit : i <= j][2]

(* What kind of text it is, byte by byte.  The first byte that cannot be   *)
(* ASCII nor a blank of ISO-8859-1 ends the search for escape sequences.   *)
HighByte(b) == b >= 128 /\ b # \hA0
Looked(d, b) ==
    IF HighByte(b) THEN [d EXCEPT !.input = "high", !.esc = EscFresh]
    ELSE IF b = \hA0 THEN [d EXCEPT !.nbsp = TRUE, !.lastChar = b]
    ELSE [d EXCEPT !.input = IF @ = "pure" /\ (b = 27 \/ (b = 123 /\ d.lastChar = 126))
                             THEN "esc" ELSE @,
                   !.lastChar = b]

Found(d, name, confidence) ==
    [d EXCEPT !.done = TRUE, !.charset = name, !.confidence = confidence]
Plainly(d) == Found(d, IF d.nbsp THEN "ISO-8859-1" ELSE "ASCII", 10000)
Escaped(d, e) ==
    IF e.name # None THEN Found([d EXCEPT !.esc = e], e.name, Sure)
    ELSE Plainly([d EXCEPT !.esc = e])

(* The groups in turn; one that is certain leaves the rest unasked.        *)
WithSb(d, sb, buf) ==
    IF sb.best # 0 THEN Found([d EXCEPT !.sb = sb], SbName(sb, sb.best), Sure)
    ELSE [d EXCEPT !.sb = sb, !.latin = Latin1HandleData(@, buf)]
WithMb(d, mb, buf) ==
    IF mb.best # 0 THEN Found([d EXCEPT !.mb = mb], MbNames[mb.best], Sure)
    ELSE WithSb([d EXCEPT !.mb = mb], SbGroupHandleData(d.sb, buf), buf)

Judged(d, buf, behind) ==
    CASE d.input = "esc"  -> Escaped(d, EscHandleData(d.esc, buf))
      [] d.input = "high" -> WithMb(d, MbGroupHandleData(d.mb, buf, behind), buf)
      [] OTHER            -> Plainly(d)
Unmarked(d, buf, behind) ==
    LET e == [d EXCEPT !.start = FALSE, !.gotData = @ \/ buf # <<>>]
    IN  Judged(FoldLeft(Looked, e, buf), buf, behind)
HandleData(d, buf, behind) ==
    IF d.done THEN d
    ELSE IF d.start /\ MarkOf(buf) # None
    THEN [Found(d, MarkOf(buf), 10000) EXCEPT !.start = FALSE, !.gotData = TRUE, !.bom = TRUE]
    ELSE Unmarked(d, buf, behind)

(* The best of the three groups, the first of equals, if it is good enough; *)
(* the text may go on.                                                     *)
BestName(d, mb, sb, best) ==
    IF mb[2] = best THEN MbNames[mb[1]]
    ELSE IF sb[2] = best THEN SbName(d.sb, sb[1]) ELSE "windows-1252"
BestGuess(d, mb, sb, latin) ==
    LET best == Bigger(Bigger(mb[2], sb[2]), latin)
    IN  [d EXCEPT !.confidence = best,
                  !.charset = IF best > MinimumThreshold THEN BestName(d, mb, sb, best) ELSE @]
DataEndOf(d) ==
    IF ~d.gotData THEN d
    ELSE IF d.charset # None THEN [d EXCEPT !.done = TRUE]
    ELSE IF d.input = "high" THEN BestGuess(d, MbGuess(d.mb), SbGuess(d.sb), Latin1Confidence(d.latin))
    ELSE d

-----------------------------------------------------------------------------
(* The calls of the C interface.                                           *)

Answer(d) == [charset |-> d.charset, confidence |-> d.confidence, bom |-> d.bom]
detect_handledata ==
    /\ Len(seen) < MaxBuffers
    /\ \E buf \in Buffers :
          /\ det' = DataEndOf(HandleData(det, buf.bytes, buf.behind))
          /\ ref' = DataEndOf(HandleData(ref, buf.bytes, buf.behind))
          /\ seen' = Append(seen, buf)
detect_dataend ==
    /\ det' = DataEndOf(det) /\ ref' = DataEndOf(ref) /\ UNCHANGED seen
detect_reset ==
    /\ det' = Reset(det) /\ ref' = Fresh /\ seen' = <<>>

DetectInit == det = Fresh /\ ref = Fresh /\ seen = <<>>
DetectNext == detect_handledata \/ detect_dataend \/ detect_reset
DetectSpec == DetectInit /\ [][DetectNext]_detectvars

-----------------------------------------------------------------------------

(* A detector that has been reset answers whatever comes as a new one:     *)
(* Reset goes over thirty objects by hand, each with its counters, and     *)
(* forgets one (the character before), which must not matter.              *)
ResetForgets == Answer(det) = Answer(ref)

(* What an answer rests on, in the buffers since the reset.  A plain text  *)
(* is one without a high byte; ISO-8859-1 is also the name of a model.     *)
(* For UTF-8 something of a character must have been read, its first byte  *)
(* and one that goes on with it: in a buffer or, as the group reads one    *)
(* byte too many (nsMBCSGroupProber.cpp:160), behind one.                  *)
BytesOf(i) == seen[i].bytes
ReadOf(i) == Append(seen[i].bytes, seen[i].behind)
AnyByte(P(_)) == \E i \in DOMAIN seen : \E j \in DOMAIN BytesOf(i) : P(BytesOf(i)[j])
AnyRead(B) == \E i \in DOMAIN seen : \E j \in DOMAIN ReadOf(i) : ReadOf(i)[j] \in B
Settled(names) == det.charset \in names
Plainness == Settled({"ASCII", "ISO-8859-1"}) /\ det.confidence = 10000 /\ ~det.bom
Escapable == \E i \in DOMAIN seen : \E j \in DOMAIN BytesOf(i) :
                \/ BytesOf(i)[j] = 27
                \/ j > 1 /\ BytesOf(i)[j] = 123 /\ BytesOf(i)[j - 1] = 126
AnswersGrounded ==
    /\ Settled({"ASCII"}) => Plainness
    /\ Plainness => /\ ~\E j \in DOMAIN BytesOf(1) : HighByte(BytesOf(1)[j])
                    /\ det.charset = "ISO-8859-1" <=> \E j \in DOMAIN BytesOf(1) : BytesOf(1)[j] = \hA0
    /\ Settled({m.name : m \in Escapes}) => Escapable
    /\ det.bom => MarkOf(BytesOf(1)) = det.charset
    /\ det.charset # None /\ ~det.bom /\ ~Plainness /\ ~Escapable => AnyByte(HighByte)
    /\ Settled({"UTF-8"}) /\ ~det.bom => AnyRead(\hC2 .. \hFD) /\ AnyRead(128 .. 191)
    /\ det.charset # None => det.confidence > MinimumThreshold

(* What a detection says is about its own text: nothing is left of the one *)
(* before, and every answer has its grounds in the bytes read since.       *)
DetectionSound == ResetForgets /\ AnswersGrounded

(* An answer once given is taken back by a reset only, or when a prober is *)
(* certain of another.                                                     *)
AnswersSettle ==
    [][det.charset # None /\ seen' # <<>> /\ det'.charset # det.charset
         => ~det.done /\ det'.done /\ det'.confidence = Sure]_detectvars
=============================================================================
