------------------------------ MODULE MCWords ------------------------------
(* What stands alone in aspell's word lists: their packing, the affixes    *)
(* and the commands that put words and affixes together.  One of them      *)
(* starts and the others are off.                                          *)
EXTENDS Prezip, ReadOnlyWs, Convert, Cache

(* Prezip: texts of up to five bytes of four kinds, and lines so much alike *)
(* that the prefix needs the long code, or more of them.                   *)
Many(n) == [i \in 1 .. n |-> 12]
MCTexts == UNION {[1 .. n -> {0, 1, 8, 12}] : n \in 0 .. 5}
           \cup {Many(n) \o <<1>> \o Many(n) \o s : n \in 1 .. 30, s \in {<<>>, <<1>>, <<8>>, <<8, 1>>}}

(* Affix: well-formed affix files with two groups of suffixes and one of   *)
(* prefixes, files with something wrong in them, and small dictionaries.   *)
Heading(k, f, x, n) == [key |-> k, flag |-> f, cross |-> x, num |-> n,
                        strip |-> <<>>, appnd |-> <<>>, cond |-> <<>>]
Rule(k, f, s, a, c) == [key |-> k, flag |-> f, cross |-> "", num |-> 0, strip |-> s, appnd |-> a, cond |-> c]
Group(k, f, x, rules) == <<Heading(k, f, x, Len(rules))>> \o rules
Remark == <<Heading("TRY", 0, "", 0)>>
SufA == {<<Rule("SFX", 1, <<>>, <<1>>, <<46>>), Rule("SFX", 1, <<>>, <<2, 1>>, <<91, 94, 1, 93>>)>>,
         <<Rule("SFX", 1, <<2>>, <<1, 1>>, <<91, 2, 1, 93, 2>>), Rule("SFX", 1, <<>>, <<1, 2, 1>>, <<1>>)>>,
         <<Rule("SFX", 1, <<1>>, <<>>, <<91, 1, 93>>), Rule("SFX", 1, <<>>, <<2>>, <<1>>)>>}
SufB == {<<Rule("SFX", 2, <<>>, <<1, 1>>, <<46>>)>>, <<Rule("SFX", 2, <<1>>, <<2, 2>>, <<1>>)>>,
         <<Rule("SFX", 2, <<>>, <<2, 1>>, <<46>>), Rule("SFX", 2, <<>>, <<1, 1, 2>>, <<46>>)>>}
PreC == {<<Rule("PFX", 3, <<>>, <<1>>, <<46>>), Rule("PFX", 3, <<>>, <<1, 2>>, <<91, 94, 2, 93>>)>>,
         <<Rule("PFX", 3, <<1>>, <<2, 1>>, <<1>>), Rule("PFX", 3, <<>>, <<2>>, <<2>>)>>,
         <<Rule("PFX", 3, <<1>>, <<>>, <<1>>)>>}
GoodFiles == {Remark \o Group("SFX", 1, x, a) \o Group("SFX", 2, "Y", b) \o Group("PFX", 3, y, c) :
                 x \in {"Y", "N"}, y \in {"Y", "N"}, a \in SufA, b \in SufB, c \in PreC}
BadConds == {<<2>>, <<>>, <<2, 1>>, <<1, 2>>, <<91>>, <<91, 93>>, <<91, 1, 91, 93>>,
             <<91, 1, 93, 91, 1, 93>>, <<91, 99, 91, 98, 93, 1>>}
BadFiles == {<<Heading("SFX", 1, "Y", n)>> \o a \o Remark \o Group("PFX", 3, "N", c) :
                n \in {0, 1, 3}, a \in SufA, c \in PreC}
            \cup {Group("SFX", 1, "Y", <<Rule("SFX", 1, <<1>>, <<1>>, c)>>) : c \in BadConds}
MCAffixFiles == GoodFiles \cup BadFiles
LowerWords == UNION {[1 .. n -> 1 .. 2] : n \in 1 .. 4}
MCTyped == LowerWords \cup {<<w[1] + 10>> \o Tail(w) : w \in LowerWords}
           \cup {[i \in DOMAIN w |-> w[i] + 10] : w \in LowerWords}
With(w, flags) == [word |-> w, aff |-> flags]
MCDictionaries == {
    <<>>, <<With(<<1, 2, 2>>, <<1, 2, 3>>), With(<<2, 2>>, <<2>>)>>, <<With(<<1, 1, 1>>, <<1, 2, 3>>)>>,
    <<With(<<11, 2, 1>>, <<1, 2, 3>>), With(<<2, 1>>, <<2, 3>>)>>,
    <<With(<<1, 2, 1>>, <<1, 2, 3>>), With(<<12, 11, 11>>, <<2, 3>>)>>}

(* Munching: three tables, the last with a flag whose entries do not agree *)
(* on crossing, every list of three to six of eight words that derive from *)
(* each other, and lists with a word twice, with other flags.              *)
Entry(k, f, x, s, a, c) == [kind |-> k, flag |-> f, cross |-> x, strip |-> s, appnd |-> a, conds |-> c]
MCAffixTables ==
    {<<Entry("SFX", 1, "Y", <<>>, <<1>>, <<>>), Entry("SFX", 2, "Y", <<2>>, <<1, 1>>, <<{2}>>),
       Entry("PFX", 3, "Y", <<>>, <<1>>, <<{2}>>)>>,
     <<Entry("SFX", 1, "Y", <<>>, <<1>>, <<{1, 2}>>), Entry("SFX", 2, "N", <<>>, <<2>>, <<>>),
       Entry("PFX", 3, "Y", <<>>, <<1>>, <<>>), Entry("PFX", 4, "N", <<>>, <<1, 1>>, <<>>)>>,
     <<Entry("SFX", 1, "Y", <<>>, <<1>>, <<{1, 2}>>), Entry("SFX", 1, "N", <<>>, <<2>>, <<>>),
       Entry("PFX", 3, "Y", <<>>, <<1>>, <<>>), Entry("PFX", 4, "N", <<>>, <<1, 1>>, <<>>)>>}
Universe == {<<2, 2, 2>>, <<2, 2, 2, 1>>, <<2, 2, 1, 1>>, <<1, 2, 2, 2>>, <<1, 2, 2, 2, 1>>,
             <<1, 2, 2, 1, 1>>, <<2, 2, 2, 2>>, <<1, 1, 2, 2, 2>>}
MCWordLists ==
    {SetToSeq({With(w, <<>>) : w \in s}) : s \in UNION {kSubset(n, Universe) : n \in 3 .. 6}}
    \cup {<<With(u, a), With(v, b), With(x, c)>> :
             u \in {<<2, 2, 2>>, <<12, 2, 2>>}, v \in {<<2, 2, 2>>, <<12, 2, 2>>, <<2, 2>>},
             x \in {<<2, 2, 2>>, <<12, 2, 2>>}, a \in {<<>>, <<1>>, <<2, 1>>}, b \in {<<>>, <<2>>, <<1>>},
             c \in {<<1>>, <<2>>}}

(* ReadOnlyWs: words that share soundslikes, clean forms and beginnings of *)
(* every length, few or almost all of them, compiled in each way; flags    *)
(* on several lines of a word; and lists with something wrong in them.     *)
Raw(t, a) == [text |-> t, aff |-> a]
MakingOf(sound, inv, aff, comp, part) ==
    [soundslike |-> sound, invisible |-> inv, affixes |-> aff, compress |-> comp, partial |-> part,
     validate |-> TRUE, clean |-> TRUE, skip |-> FALSE, cleanAffixes |-> TRUE]
AffixedAs == CHOOSE a \in MCAffixTables : Len(a) = 3
PlainMakings == {MakingOf(sound, "unset", <<>>, FALSE, FALSE) : sound \in {"simple", "own"}}
           \cup {MakingOf("none", inv, <<>>, FALSE, FALSE) : inv \in {"on", "off"}}
WithFlags == {MakingOf(sound, "unset", AffixedAs, c, p) :
                 sound \in {"none", "own"}, c \in BOOLEAN, p \in BOOLEAN}
Reading_ == {[MakingOf("none", "unset", a, TRUE, FALSE)
                 EXCEPT !.validate = v, !.clean = c, !.skip = s, !.cleanAffixes = x] :
                a \in {<<>>, AffixedAs}, v \in BOOLEAN, c \in BOOLEAN, s \in BOOLEAN, x \in BOOLEAN}
RawWords == {<<1>>, <<11>>, <<2>>, <<1, 2>>, <<11, 2>>, <<11, 12>>, <<2, 2>>, <<2, 2, 1>>, <<1, 2, 1, 1>>,
             <<1, 2, 1, 2>>, <<1, 2, 1, 2, 1, 2>>, <<1, 2, 1, 2, 1, 1>>, <<1, 2, 1, 1, 2>>,
             <<1, 2, 1, 2, 2>>, <<1, 9, 2>>, <<8, 1, 2>>, <<1, 2, 1, 2, 1>>}
MCLookups == RawWords \cup {<<12>>, <<8, 11, 2, 9>>, <<11, 2, 9>>, <<12, 2>>}
PlainLists == {FoldSet(LAMBDA w, list : Append(list, Raw(w, <<>>)), <<>>, s) :
                  s \in UNION {kSubset(n, RawWords) : n \in {0, 1, 2, 16}}}
FlaggedLists == {<<Raw(<<1, 2>>, <<1>>), Raw(<<1, 2>>, a), Raw(<<2, 2, 2>>, <<3, 2>>), Raw(<<1, 2, 1, 2>>, b)>> :
                    a \in {<<>>, <<2>>, <<2, 1>>}, b \in {<<>>, <<1, 2, 3>>}}
MessyLists == {<<Raw(<<1, 2>>, a), Raw(<<>>, <<>>), Raw(t, <<>>)>> :
                  a \in {<<>>, <<4, 1>>},
                  t \in {<<7, 1, 32, 9, 2, 9, 45, 8, 7>>, <<99, 1>>, <<1, 7, 2>>, [i \in 1 .. 10 |-> 1 + (i % 2)]}}
MCCompilations == (PlainLists \X PlainMakings) \cup (FlaggedLists \X WithFlags) \cup (MessyLists \X Reading_)
MCFirstSound == <<1, 2>>
MCRestSound == <<0, 2>>

(* Convert: character sets with four and with five characters that end in  *)
(* the same bits, tables with sequences that begin like others, in columns *)
(* of every kind, damaged UTF-8, and the settings that choose among them.  *)
Line(f, to, sub) == [from |-> f, to |-> to, sub |-> sub]
MCCharSets == ("koi" :> (200 :> 321 @@ 201 :> 577 @@ 202 :> 833 @@ 203 :> 8217))
              @@ ("crowd" :> (200 :> 321 @@ 201 :> 577 @@ 202 :> 833 @@ 203 :> 1089))
Accents == <<Line(768, <<193>>, <<>>), Line(769, <<194>>, <<Line(769, <<195, 196>>, <<>>)>>), Line(1025, <<197>>, <<>>)>>
KoiInternal == <<Line(0, <<0>>, <<>>), Line(65, <<65>>, Accents), Line(66, <<>>, <<Line(769, <<66, 39>>, <<>>)>>),
                 Line(769, <<39>>, <<>>), Line(8217, <<39>>, <<>>)>>
KoiStrict == <<Line(0, <<0>>, <<>>), Line(65, <<65>>, Accents)>>
Nfc == <<Line(0, <<0>>, <<>>), Line(65, <<65>>, <<Line(200, <<193>>, <<>>), Line(202, <<8217>>, <<>>)>>),
         Line(66, <<66>>, <<>>), Line(200, <<768>>, <<>>), Line(202, <<769>>, <<>>)>>
Nfd == <<Line(0, <<0>>, <<>>), Line(65, <<65>>, <<>>), Line(66, <<66, 769>>, <<>>), Line(200, <<65, 768>>, <<>>)>>
Form(n, is, rows) == [name |-> n, is |-> is, rows |-> rows]
Forms == <<Form("nfd", "", Nfd), Form("nfc", "", Nfc), Form("comp", "nfc", <<>>)>>
MCNormFiles == ("koi" :> [internal |-> KoiInternal, strict |-> <<>>, toUni |-> Forms])
               @@ ("crowd" :> [internal |-> KoiInternal, strict |-> KoiStrict, toUni |-> Forms])
MCSpelling == ("UTF-8" :> "utf-8") @@ ("iso8859-1" :> "iso-8859-1") @@ ("KOI" :> "koi") @@ ("UTF-32" :> "utf-32")
Job(in, out, text) == [in |-> in, out |-> out, text |-> text, size |-> Len(text), ifNeeded |-> FALSE, norm |-> "none",
                       config |-> [normalize |-> TRUE, required |-> FALSE, strict |-> FALSE, form |-> "nfc"]]
TextsUpTo(n, S) == UNION {[1 .. k -> S] : k \in 0 .. n}
OfCharSets == {Job(s, out, t) : s \in {"KOI", "crowd"}, out \in {"utf-8", "iso8859-1"},
                                t \in TextsUpTo(2, {0, 65, 200, 202, 203})}
OfUtf8 == {Job("UTF-8", "utf-8", t) : t \in TextsUpTo(2, {65, 169})}
          \cup {Job("UTF-8", out, t) : out \in {"koi", "UTF-32"},
                  t \in TextsUpTo(3, {0, 169, 195, 226, 248}) \cup [1 .. 4 -> {160, 197, 240}]}
OfNorm == {[Job("UTF-32", out, t) EXCEPT !.norm = "from", !.config.strict = s] :
              out \in {"koi", "crowd", "greek"}, s \in BOOLEAN, t \in TextsUpTo(3, {0, 65, 66, 769})
                                                   \cup TextsUpTo(2, {0, 65, 66, 768, 1025})}
          \cup {[Job(in, "utf-8", t) EXCEPT !.norm = "to", !.config.form = f, !.config.required = r, !.config.normalize = n] :
                    in \in {"koi", "greek"}, f \in {"none", "nfc", "nfd", "comp", "nfx"},
                    r \in BOOLEAN, n \in BOOLEAN, t \in TextsUpTo(2, {0, 65, 66, 200, 202})}
OfNames == {[Job(in, out, <<65, 0, 200>>) EXCEPT !.ifNeeded = b, !.norm = n] :
               in \in {"ascii", "ucs-2", "UTF-32", "koi", "greek"}, out \in {"iso8859-1", "ucs-2", "ucs-4", "koi"},
               b \in BOOLEAN, n \in {"none", "from", "to"}}
MCConversions == LET all == OfCharSets \cup OfUtf8 \cup OfNorm \cup OfNames
                 IN  all \cup {[j EXCEPT !.size = -1] : j \in all}

(* Cache: two holders of two things; it runs where the files have versions. *)
CacheRuns == \A k \in CacheKeys : disk[k] >= 0

wordsvars == <<rovars, zipvars, affixvars, munchvars, convertvars, cachevars>>
WordsOff == ZipOff /\ AffixOff /\ MunchOff /\ ReadOnlyOff /\ ConvertOff /\ CacheOff
WordsInit ==
    \/ ZipInit /\ AffixOff /\ MunchOff /\ ReadOnlyOff /\ ConvertOff /\ CacheOff
    \/ ZipOff /\ AffixInit /\ MunchOff /\ ReadOnlyOff /\ ConvertOff /\ CacheOff
    \/ ZipOff /\ AffixOff /\ MunchInit /\ ReadOnlyOff /\ ConvertOff /\ CacheOff
    \/ ZipOff /\ AffixOff /\ MunchOff /\ ReadOnlyInit /\ ConvertOff /\ CacheOff
    \/ ZipOff /\ AffixOff /\ MunchOff /\ ReadOnlyOff /\ ConvertInit /\ CacheOff
    \/ ZipOff /\ AffixOff /\ MunchOff /\ ReadOnlyOff /\ ConvertOff /\ CacheInit
WordsNext ==
    \/ ZipNext /\ UNCHANGED <<affixvars, munchvars, rovars, convertvars, cachevars>>
    \/ AffixNext /\ UNCHANGED <<zipvars, munchvars, rovars, convertvars, cachevars>>
    \/ MunchNext /\ UNCHANGED <<zipvars, affixvars, rovars, convertvars, cachevars>>
    \/ ReadOnlyNext /\ UNCHANGED <<zipvars, affixvars, munchvars, convertvars, cachevars>>
    \/ ConvertNext /\ UNCHANGED <<zipvars, affixvars, munchvars, rovars, cachevars>>
    \/ CacheRuns /\ CacheNext /\ UNCHANGED <<zipvars, affixvars, munchvars, rovars, convertvars>>
WordsSpec == WordsInit /\ [][WordsNext]_wordsvars

(* Affixes as the speller, the dictionaries and munch know them.           *)
AffixesSound == AffixesAgree /\ ListPreserved
(* A compiled dictionary has its words, and a scan returns those wanted.   *)
DictionarySound == DictionaryFaithful /\ ScanFindsWanted
=============================================================================
