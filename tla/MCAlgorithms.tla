---------------------------- MODULE MCAlgorithms ----------------------------
(* The algorithms that stand alone, each by itself: one of them starts and *)
(* the others are off.                                                     *)
EXTENDS BzBlock, BzRecover, NodeCodec, Detector, MCWords

VARIABLE chosen     \* the algorithm that runs

(* BzBlock: every block of up to five of three bytes, and longer ones with *)
(* repeats, for which several tables are chosen, codes reach the longest   *)
(* length and the sorts nest.                                              *)
Short == UNION {[0 .. n - 1 -> 0 .. 2] : n \in 1 .. 5}
Long == {[i \in 0 .. 11 |-> (i * i) % 4], [i \in 0 .. 15 |-> IF i < 9 THEN 1 ELSE i % 4],
         [i \in 0 .. 17 |-> (i \div 3) % 4], [i \in 0 .. 20 |-> (i * i * i + i \div 2) % 4],
         [i \in 0 .. 11 |-> 3], [i \in 0 .. 23 |-> IF i % 7 = 0 THEN 2 ELSE i % 2]}
Blocks == Short \cup Long

(* BzRecover: every file of thirteen bits, which has room for two blocks.  *)
Files     == [1 .. 13 -> {0, 1}]
Header    == <<1, 0, 1>>
Endmark   == <<1, 1, 0>>
FileStart == <<0, 0>>

(* NodeCodec: every node of three keys; the longest share more than the    *)
(* two bytes a prefix may have.                                            *)
Keys == {Append(s, 0) : s \in UNION {[1 .. n -> {1, 2}] : n \in 0 .. 4}}

(* Detector: the single-byte models of two languages that are written from *)
(* the left and the two of Hebrew, with a few letters.                     *)
Order(letters) ==
    [b \in 0 .. 255 |-> IF b \in DOMAIN letters THEN letters[b]
                        ELSE IF b \in {0, 10, 13} THEN 254 ELSE IF b < 65 THEN 253
                        ELSE IF b \in {\h81, \hFF} THEN 255 ELSE 251]
Matrix(n, good, fair) ==
    [p \in (0 .. n - 1) \X (0 .. n - 1) |-> IF p \in good THEN 3 ELSE IF p \in fair THEN 2 ELSE 0]
LetterModel(kind, name, letters, good) ==
    [kind |-> kind, name |-> name, order |-> Order(letters), matrix |-> Matrix(3, good, {<<0, 0>>}),
     freqCount |-> 3, ratio |-> 9700]
Cyrillic == (\hE0 :> 0) @@ (\hE1 :> 1) @@ (\hC3 :> 2)
Hebrew   == (\hEC :> 0) @@ (\hED :> 1) @@ (\hEE :> 2)
French   == (99 :> 0) @@ (\hE9 :> 1) @@ (\hEA :> 2)

MCSbModels == <<LetterModel("plain", "windows-1251", Cyrillic, {<<0, 1>>, <<1, 0>>}),
                LetterModel("hebrew", "hebrew", Hebrew, {}),
                LetterModel("logical", "windows-1255", Hebrew, {<<0, 1>>, <<2, 0>>}),
                LetterModel("visual", "windows-1255", Hebrew, {<<0, 1>>, <<2, 0>>}),
                LetterModel("plain", "ISO-8859-1", French, {<<0, 1>>})>>
MCFrequent     == {<<"EUC-KR", \hB0, \hA1>>, <<"EUC-JP", \hA4, \hA2>>, <<"Big5", \hA4, \h40>>,
                   <<"GB18030", \hB0, \hA1>>, <<"Shift_JIS", \h82, \hA0>>}
MCNeverFollows == {<<1, 3>>}

Strings == {
    <<>>, <<65>>, <<\hA0, 65>>,                         \* nothing, ASCII, a hard blank
    <<\hEF, \hBB, \hBF>>, <<\hFF, \hFE, 65, 0>>,        \* a mark too short and one that is not
    <<126, 123, \h56, \h50, 126, 125>>,                 \* HZ
    <<27, 36, 66>>, <<27, 65, \hE9>>,                   \* ISO-2022-JP, and an escape to nowhere
    <<\hC3, \hA9>>, <<\hC3>>, <<\hA9, 32>>,             \* UTF-8, whole and cut
    <<\hA4, \hA2, \hA4, \hA4, \hA4, \hA2>>,             \* hiragana in EUC-JP
    <<\h82, \hA0, \h82, \hA2>>,                         \* and in Shift_JIS
    <<\hB0, \hA1, \h20, \hB0, \hA1>>,                   \* Korean and Chinese
    <<\hE0, \hE1, \hE0, \h20>>,                         \* Cyrillic
    <<\hEE, \hEC, \hED, \h20, \hEE, \hEC, \hED, \h20>>, \* Hebrew
    <<99, \hE9, 32>>, <<\h81, \hFF, 32>>}

(* They are strings with a NUL behind them, but for two that are pieces of *)
(* something longer: a character of UTF-8 goes on behind the first, and    *)
(* one begins behind the second.                                           *)
MCBuffers == [bytes : Strings, behind : {0}]
                \cup {[bytes |-> <<\hC3>>, behind |-> \hA9], [bytes |-> <<\hE9, 65>>, behind |-> \hC3]}

NothingElse == CodecOff /\ RecoverOff /\ NodeOff /\ TextOff /\ DetectInit
AlgorithmsInit ==
    \/ chosen = "codec" /\ CodecInit /\ RecoverOff /\ NodeOff /\ TextOff /\ DetectInit /\ WordsOff
    \/ chosen = "recover" /\ CodecOff /\ RecoverInit /\ NodeOff /\ TextOff /\ DetectInit /\ WordsOff
    \/ chosen = "node" /\ CodecOff /\ RecoverOff /\ NodeInit /\ TextOff /\ DetectInit /\ WordsOff
    \/ chosen = "text" /\ CodecOff /\ RecoverOff /\ NodeOff /\ TextInit /\ DetectInit /\ WordsOff
    \/ chosen = "detector" /\ NothingElse /\ WordsOff
    \/ chosen = "words" /\ NothingElse /\ WordsInit
AlgorithmsNext ==
    /\ UNCHANGED chosen
    /\ \/ CodecNext /\ UNCHANGED <<recovervars, nodevars, textvars, detectvars, wordsvars>>
       \/ RecoverNext /\ UNCHANGED <<codecvars, nodevars, textvars, detectvars, wordsvars>>
       \/ NodeNext /\ UNCHANGED <<codecvars, recovervars, textvars, detectvars, wordsvars>>
       \/ TextNext /\ UNCHANGED <<codecvars, recovervars, nodevars, detectvars, wordsvars>>
       \/ /\ chosen = "detector" /\ DetectNext
          /\ UNCHANGED <<codecvars, recovervars, nodevars, textvars, wordsvars>>
       \/ WordsNext /\ UNCHANGED <<codecvars, recovervars, nodevars, textvars, detectvars>>

(* What is put away comes back: the blocks that bzip2 sorts and codes, the *)
(* ones salvaged from a damaged file, the keys of a B+tree node and the    *)
(* words of a list, which store what each shares with the one before.      *)
RoundTrips == CodecSound /\ RecoversBlocks /\ NodeRoundTrip /\ PrezipRoundTrip

AlgorithmsSpec ==
    /\ AlgorithmsInit
    /\ [][AlgorithmsNext]_<<chosen, codecvars, recovervars, nodevars, textvars, detectvars, wordsvars>>
=============================================================================
