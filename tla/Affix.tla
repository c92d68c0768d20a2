------------------------------- MODULE Affix -------------------------------
(***************************************************************************)
(* Affix compression: modules/speller/default/affix.cpp with the rules on  *)
(* case of language.cpp. An affix file is parsed into entries; a word of   *)
(* the dictionary carries flags, and expand says which words they stand    *)
(* for, check whether a word is one of them, munch which roots and flags   *)
(* a word may come from.                                                   *)
(***************************************************************************)
EXTENDS Integers, Sequences, FiniteSets, SequencesExt

CONSTANTS
    AffixFiles,   \* files: sequences of lines (see Line)
    Dictionaries, \* sequences of [word, aff]: words and their flags
    Typed,        \* the words that are looked up
    Letters       \* the lower case letters, 1 .. Letters; c + CaseStep is a capital

VARIABLES
    lines,        \* the affix file
    words,        \* the dictionary
    said          \* what the affix manager says of them

affixvars == <<lines, words, said>>

(* A line has a key (the first word), a flag, and, on a header, the cross  *)
(* product mark and the number of entries; on an entry, what to strip, to  *)
(* add and the condition, written with the letters and these signs.        *)
CaseStep == 10
Open == 91
Close == 93
Caret == 94
Dot == 46
Alphabet == 1 .. Letters \cup (CaseStep + 1) .. (CaseStep + Letters)

---------------------------------------------------------------------------
(* Conditions *)

Tail2(s, n) == SubSeq(s, n + 1, Len(s))
ClosedAt(s) == SelectInSeq(s, LAMBDA c : c = Close)
Bad == [ok |-> FALSE, str |-> <<>>]

(* A group is sorted by taking the least that is left; it is refused if an *)
(* opening bracket is come to before it was taken as the least.            *)
TakeLeast(r, i) ==
    LET least == CHOOSE j \in i .. Len(r.str) :
                    /\ \A k \in i .. Len(r.str) : r.str[j] <= r.str[k]
                    /\ \A k \in i .. j - 1 : r.str[j] < r.str[k]
    IN  IF ~r.ok \/ r.str[i] = Open THEN Bad
        ELSE [r EXCEPT !.str[i] = r.str[least], !.str[least] = r.str[i]]
SortedGroup(members) ==
    FoldLeft(TakeLeast, [ok |-> TRUE, str |-> members], [i \in DOMAIN members |-> i])

\* normalize_cond_str: groups of one lose their brackets, others are sorted.
\* A group that is not closed is read past its end: such files are left out.
RECURSIVE normalize_cond_str(_)
normalize_cond_str(s) ==
    LET after(head, rest) ==
            LET r == normalize_cond_str(rest)
            IN  IF r.ok THEN [ok |-> TRUE, str |-> head \o r.str] ELSE Bad
        end == ClosedAt(s)
        neg == IF s[2] = Caret THEN 1 ELSE 0
        group == SortedGroup(SubSeq(s, 2 + neg, end - 1))
    IN  IF s = <<>> THEN [ok |-> TRUE, str |-> <<>>]
        ELSE IF s[1] # Open THEN after(<<s[1]>>, Tail(s))
        ELSE IF Len(s) = 1 \/ s[2] = Close THEN Bad
        ELSE IF Len(s) > 2 /\ s[3] = Close THEN after(<<s[2]>>, Tail2(s, 3))
        ELSE IF ~group.ok THEN Bad
        ELSE after(SubSeq(s, 1, 1 + neg) \o group.str \o <<Close>>, Tail2(s, end))

(* encodeit: the letters each place of the condition admits. The table has *)
(* a byte of places for each letter: the ninth place is lost.              *)
RECURSIVE Places(_)
Places(cs) ==
    LET end == ClosedAt(cs)
        neg == cs[2] = Caret
        members == Range(SubSeq(cs, IF neg THEN 3 ELSE 2, end - 1))
    IN  IF cs = <<>> THEN <<>>
        ELSE IF cs[1] = Open
        THEN <<IF neg THEN Alphabet \ members ELSE members>> \o Places(Tail2(cs, end))
        ELSE <<IF cs[1] = Dot THEN Alphabet ELSE {cs[1]}>> \o Places(Tail(cs))
encodeit(cs) == IF cs = <<Dot>> THEN <<>> ELSE Places(cs)

Fits(conds, word) == \A i \in DOMAIN conds : word[i] \in conds[i]
FitsEnd(conds, word) ==
    \A i \in DOMAIN conds : word[Len(word) - Len(conds) + i] \in conds[i]

---------------------------------------------------------------------------
(* AffixMgr::parse_file *)

Failed == [ok |-> FALSE, entries |-> <<>>]

\* One entry: its flag must be the header's, and what is stripped must be
\* the letters the condition ends (or, for a prefix, begins) with.
StripFits(kind, strip, str) ==
    /\ Len(strip) <= Len(str)
    /\ strip = IF kind = "SFX" THEN SubSeq(str, Len(str) - Len(strip) + 1, Len(str))
                               ELSE SubSeq(str, 1, Len(strip))
EntryOf(header, line) ==
    [kind |-> header.key, flag |-> header.flag, cross |-> header.cross,
     strip |-> line.strip, appnd |-> line.appnd,
     conds |-> encodeit(normalize_cond_str(line.cond).str)]
EntryRight(header, line) ==
    /\ line.cond # <<>>
    /\ line.flag = header.flag
    /\ normalize_cond_str(line.cond).ok
    /\ line.strip # <<>> => StripFits(header.key, line.strip, normalize_cond_str(line.cond).str)

(* The lines of a header are read whatever they are; other lines between   *)
(* the groups are passed over. Two groups of one flag in a row are taken   *)
(* for a wrong count. prev_aff is that flag.                               *)
HeaderRight(header, prev_aff) == header.flag # prev_aff /\ header.cross \in {"Y", "N"}
RECURSIVE ParseFrom(_, _)
ParseFrom(file, prev_aff) ==
    IF file = <<>> THEN [ok |-> TRUE, entries |-> <<>>]
    ELSE LET header == file[1]
             group == SubSeq(file, 2, 1 + header.num)
             rest == ParseFrom(Tail2(file, 1 + header.num), header.flag)
         IN  IF header.key \notin {"PFX", "SFX"} THEN ParseFrom(Tail(file), prev_aff)
             ELSE IF /\ HeaderRight(header, prev_aff)
                     /\ Len(file) > header.num
                     /\ \A i \in DOMAIN group : EntryRight(header, group[i])
                     /\ rest.ok
             THEN [ok |-> TRUE,
                   entries |-> [i \in DOMAIN group |-> EntryOf(header, group[i])] \o rest.entries]
             ELSE Failed
parse_file(file) == ParseFrom(file, 0)

---------------------------------------------------------------------------
(* The lists the search follows *)

key(e) == IF e.kind = "PFX" THEN e.appnd ELSE Reverse(e.appnd)
isSubset(s1, s2) == IsPrefix(s1, s2)

\* strcmp; a shorter string comes before those it begins.
RECURSIVE strless(_, _)
strless(a, b) ==
    /\ b # <<>>
    /\ \/ a = <<>>
       \/ a[1] < b[1]
       \/ a[1] = b[1] /\ strless(Tail(a), Tail(b))

(* build_pfxlist, build_sfxlist: new entries go in front. process_pfx_order*)
(* and process_sfx_order sort all lists but the one of empty affixes.      *)
Before(a, i, j) == strless(key(a[i]), key(a[j])) \/ (key(a[i]) = key(a[j]) /\ i > j)
Start(a, kind, c) ==
    SetToSortSeq({i \in DOMAIN a : a[i].kind = kind /\ key(a[i]) # <<>> /\ key(a[i])[1] = c},
                 LAMBDA i, j : Before(a, i, j))
EmptyAffixes(a, kind) == {i \in DOMAIN a : a[i].kind = kind /\ key(a[i]) = <<>>}
WithFlag(a, kind, flag) == {i \in DOMAIN a : a[i].kind = kind /\ a[i].flag = flag}

\* The first entry from n on that keys[i] does not begin; 0 if none.
BeyondRun(keys, i, n) ==
    LET beyond == {m \in n .. Len(keys) : ~isSubset(keys[i], keys[m])}
    IN  IF beyond = {} THEN 0 ELSE CHOOSE m \in beyond : \A o \in beyond : m <= o
LastOfRun(keys, i) == IF BeyondRun(keys, i, i) = 0 THEN Len(keys) ELSE BeyondRun(keys, i, i) - 1
next_eq(keys, i) == IF i < Len(keys) /\ isSubset(keys[i], keys[i + 1]) THEN i + 1 ELSE 0

(* Mutant: the search ends where any run of entries ends, not only with    *)
(* the last of a longer run.                                               *)
EndsRunOrAlone(keys, i) == \E j \in 1 .. i : LastOfRun(keys, j) = i
EndsRun(keys, i) == \E j \in 1 .. i - 1 : LastOfRun(keys, j) = i
next_ne(keys, i) == IF EndsRun(keys, i) THEN 0 ELSE BeyondRun(keys, i, i)

\* The entries of the list that prefix_check or suffix_check comes to and
\* that the word has; `word` is reversed for suffixes.
RECURSIVE Walk(_, _, _)
Walk(keys, word, i) ==
    IF i = 0 THEN {}
    ELSE IF isSubset(keys[i], word)
    THEN {i} \cup Walk(keys, word, next_eq(keys, i))
    ELSE Walk(keys, word, next_ne(keys, i))
Reached(list, keys, word) ==
    {list[i] : i \in Walk(keys, word, IF list = <<>> THEN 0 ELSE 1)}
Matching(a, kind, word) ==
    LET towards == IF kind = "PFX" THEN word ELSE Reverse(word)
        list == Start(a, kind, towards[1])
    IN  EmptyAffixes(a, kind) \cup Reached(list, [i \in DOMAIN list |-> key(a[list[i]])], towards)

---------------------------------------------------------------------------
(* Case *)

IsLower(c) == c <= CaseStep
to_lower(c) == IF c > CaseStep THEN c - CaseStep ELSE c
to_upper(c) == IF c > CaseStep THEN c ELSE c + CaseStep
LowerWord(w) == [i \in DOMAIN w |-> to_lower(w[i])]
UpperWord(w) == [i \in DOMAIN w |-> to_upper(w[i])]
LowerFirst(w) == <<to_lower(w[1])>> \o Tail(w)
TitleWord(w) == <<to_upper(w[1])>> \o Tail(w)

case_pattern(w) ==
    CASE \A i \in DOMAIN w : IsLower(w[i]) -> "AllLower"
      [] \A i \in DOMAIN w : ~IsLower(w[i]) -> "AllUpper"
      [] ~IsLower(w[1]) /\ \E i \in DOMAIN w : IsLower(w[i]) -> "FirstUpper"
      [] OTHER -> "Other"

\* SensitiveCompare: as in the list (perhaps with its first letter as a
\* title has it, when the word begins here), or all in upper case.
SameSensitive(word, inlist, begin) ==
    \/ word = inlist
    \/ begin /\ word = TitleWord(inlist)
    \/ word = UpperWord(inlist)

---------------------------------------------------------------------------
(* Looking a root up *)

(* LookupInfo::lookup in Word mode: the first entry that has the flag. In  *)
(* AlwaysTrue mode every root is a guess. None is 0.                       *)
RootFound(dict, root, begin, flag) ==
    LET with == {i \in DOMAIN dict :
                    SameSensitive(root, dict[i].word, begin) /\ flag \in Range(dict[i].aff)}
    IN  IF with = {} THEN 0 ELSE CHOOSE i \in with : \A j \in with : i <= j

\* What is left of a word without an affix, with what it stripped put back.
WithoutPrefix(e, word) == e.strip \o Tail2(word, Len(e.appnd))
WithoutSuffix(e, word) == SubSeq(word, 1, Len(word) - Len(e.appnd)) \o e.strip
LeavesRoot(e, word) ==
    /\ Len(word) > Len(e.appnd)
    /\ Len(word) - Len(e.appnd) + Len(e.strip) >= Len(e.conds)
PrefixFits(e, word) == LeavesRoot(e, word) /\ Fits(e.conds, WithoutPrefix(e, word))
SuffixFits(e, word) == LeavesRoot(e, word) /\ FitsEnd(e.conds, WithoutSuffix(e, word))

\* suffix_check; pre is the flag of the prefix it is crossed with, or 0.
SuffixCheck(a, dict, word, pre) ==
    \E i \in Matching(a, "SFX", word) :
        LET e == a[i]
            root == WithoutSuffix(e, word)
            at == RootFound(dict, root, pre = 0, e.flag)
        IN  /\ pre # 0 => e.cross = "Y"
            /\ SuffixFits(e, word)
            /\ at # 0
            /\ pre # 0 => pre \in Range(dict[at].aff)

PrefixCheck(a, dict, word) ==
    \E i \in Matching(a, "PFX", word) :
        LET e == a[i]
            root == WithoutPrefix(e, word)
        IN  /\ PrefixFits(e, word)
            /\ \/ RootFound(dict, root, FALSE, e.flag) # 0
               \/ e.cross = "Y" /\ SuffixCheck(a, dict, root, e.flag)

affix_check(a, dict, word) ==
    LET case == case_pattern(word)
        pword == CASE case = "FirstUpper" -> LowerFirst(word)
                   [] case = "AllUpper" -> LowerWord(word)
                   [] OTHER -> word
        sword == IF case = "AllUpper" THEN pword ELSE word
    IN  \/ PrefixCheck(a, dict, pword)
        \/ SuffixCheck(a, dict, sword, 0)
        \/ case = "FirstUpper" /\ SuffixCheck(a, dict, pword, 0)

---------------------------------------------------------------------------
(* munch: the roots and flags a word may come from; 0 is no flag. Empty    *)
(* prefixes are crossed whatever the caller says.                          *)
Guess(root, pre, suf) == [root |-> root, pre |-> pre, suf |-> suf]
SuffixGuesses(a, word, pre) ==
    {Guess(WithoutSuffix(a[i], word), pre, a[i].flag) : i \in
        {j \in Matching(a, "SFX", word) :
            SuffixFits(a[j], word) /\ (pre # 0 => a[j].cross = "Y")}}
PrefixGuesses(a, word, cross) ==
    UNION {LET root == WithoutPrefix(a[i], word)
           IN  {Guess(root, a[i].flag, 0)}
               \cup IF a[i].cross = "Y" /\ (cross \/ key(a[i]) = <<>>)
                    THEN SuffixGuesses(a, root, a[i].flag) ELSE {}
           : i \in {j \in Matching(a, "PFX", word) : PrefixFits(a[j], word)}}
munch(a, word, cross) ==
    LET case == case_pattern(word)
    IN  IF case = "AllUpper" THEN {}
        ELSE SuffixGuesses(a, word, 0)
             \cup IF case = "FirstUpper" THEN {} ELSE PrefixGuesses(a, word, cross)

---------------------------------------------------------------------------
(* expand: a word with its flags, then the words its prefixes make with    *)
(* the suffixes they may be crossed with, then all with their suffixes.    *)

CanAdd(e, word) ==
    /\ Len(word) > Len(e.strip)
    /\ Len(word) >= Len(e.conds)
    /\ IF e.kind = "PFX" THEN Fits(e.conds, word) ELSE FitsEnd(e.conds, word)
AddPrefix(e, word) == e.appnd \o Tail2(word, Len(e.strip))
AddSuffix(e, word) == SubSeq(word, 1, Len(word) - Len(e.strip)) \o e.appnd

Entries(a, kind, flags) == {i \in DOMAIN a : a[i].kind = kind /\ a[i].flag \in flags}
\* Whether a flag crosses is asked of the entry at the head of its list, the
\* last one read (build_sfxlist).
HeadEntry(a, flag) == CHOOSE i \in WithFlag(a, "SFX", flag) : \A j \in WithFlag(a, "SFX", flag) : j <= i
CrossedSuffixes(a, flags) ==
    {i \in Entries(a, "SFX", flags) : a[HeadEntry(a, a[i].flag)].cross = "Y"}

\* The members of the list: the prefix and the suffix, or 0, each is made
\* with. The suffix's condition is put to the word without the prefix.
Expansions(a, word, flags) ==
    LET pre == {i \in Entries(a, "PFX", flags) : CanAdd(a[i], word)}
        suf == {i \in Entries(a, "SFX", flags) : CanAdd(a[i], word)}
    IN  ({0} \X (suf \cup {0})) \cup (pre \X {0})
        \cup {i \in pre : a[i].cross = "Y"} \X (suf \cap CrossedSuffixes(a, flags))
Expanded(a, word, x) ==
    LET prefixed == IF x[1] = 0 THEN word ELSE AddPrefix(a[x[1]], word)
    IN  IF x[2] = 0 THEN prefixed ELSE AddSuffix(a[x[2]], prefixed)
expand(a, word, flags) == {Expanded(a, word, x) : x \in Expansions(a, word, flags)}

(* expand with a limit: only what an affix changes before that letter is   *)
(* made; the flags that are left go with the words. Once a flag has been   *)
(* used up, those after it stay only if some entry had to be left.         *)
StripOf(S) == IF S = {} THEN 0 ELSE CHOOSE n \in S : \A m \in S : m <= n
max_strip(a) == StripOf({Len(e.strip) : e \in Range(a)})
max_strip_f(a, flag) == StripOf({Len(e.strip) : e \in {x \in Range(a) : x.flag = flag}})
Tried(a, word, flag, limit) ==
    IF Len(word) - max_strip_f(a, flag) < limit THEN Entries(a, "SFX", {flag}) ELSE {}
Early(e, word, limit) == Len(word) - Len(e.strip) < limit
expand_suffix(a, word, aff, limit, orig_word) ==
    FoldLeft(LAMBDA r, flag :
                LET can == {i \in Tried(a, word, flag, limit) : CanAdd(a[i], orig_word)}
                    made == {i \in can : Early(a[i], word, limit)}
                    expanded == r.expanded \/ made # {}
                    not_expanded == r.not_expanded \/ can # made
                IN  [words |-> r.words \cup {[word |-> AddSuffix(a[i], word), aff |-> <<>>] : i \in made},
                     new_aff |-> IF ~expanded \/ not_expanded THEN Append(r.new_aff, flag)
                                 ELSE r.new_aff,
                     expanded |-> expanded, not_expanded |-> not_expanded],
             [words |-> {}, new_aff |-> <<>>, expanded |-> FALSE, not_expanded |-> FALSE], aff)
Prefixed(a, word, aff) ==
    {[word |-> word, aff |-> SelectSeq(aff, LAMBDA f : WithFlag(a, "SFX", f) # {})]}
    \cup {[word |-> AddPrefix(a[i], word),
           aff |-> IF a[i].cross = "Y"
                   THEN SelectSeq(aff, LAMBDA f : CrossedSuffixes(a, {f}) # {}) ELSE <<>>]
          : i \in {j \in Entries(a, "PFX", Range(aff)) : CanAdd(a[j], word)}}
partially_expand(a, word, aff, limit) ==
    UNION {IF Len(p.word) - max_strip(a) >= limit THEN {p}
           ELSE LET r == expand_suffix(a, p.word, p.aff, limit, word)
                IN  {[word |-> p.word, aff |-> r.new_aff]} \cup r.words
           : p \in Prefixed(a, word, aff)}

check_affix(a, word, flag) ==
    LET with == Entries(a, "PFX", {flag}) \cup Entries(a, "SFX", {flag})
    IN  CASE with = {} -> "InvalidAffix"
          [] \E i \in with : CanAdd(a[i], word) -> "ValidAffix"
          [] OTHER -> "InapplicableAffix"

---------------------------------------------------------------------------
\* new_affix_mgr: without its affix file there is no language.
Nothing == [parsed |-> FALSE, ok |-> FALSE, entries |-> <<>>, accepted |-> {}, expanded |-> <<>>,
            partly |-> <<>>, guesses |-> <<>>]
PlainWords == UNION {[1 .. n -> 1 .. Letters] : n \in 3 .. 5}
Munched == {w \in Typed : Len(w) <= 3}

AffixInit == lines \in AffixFiles /\ words \in Dictionaries /\ said = Nothing
AffixOff == lines = <<>> /\ words = <<>> /\ said = Nothing
AffixNext ==
    /\ lines # <<>> /\ ~said.parsed
    /\ LET f == parse_file(lines)
           a == f.entries
       IN  said' =
              IF ~f.ok THEN [Nothing EXCEPT !.parsed = TRUE]
              ELSE [parsed |-> TRUE, ok |-> TRUE, entries |-> a,
                    accepted |-> {w \in Typed : affix_check(a, words, w)},
                    expanded |-> [i \in DOMAIN words |-> expand(a, words[i].word, Range(words[i].aff))],
                    partly |-> [i \in DOMAIN words |->
                                    partially_expand(a, words[i].word, words[i].aff, 3)],
                    guesses |-> IF words = <<>> THEN [w \in Munched |-> munch(a, w, TRUE)]
                                ELSE <<>>]
    /\ UNCHANGED <<lines, words>>
AffixSpec == AffixInit /\ [][AffixNext]_affixvars

---------------------------------------------------------------------------
(* An affix file that is taken has all its entries taken, each with the    *)
(* flag and the kind of its group: a count that is wrong is noticed.       *)
EntriesComplete ==
    said.ok =>
        LET given == SelectSeq(lines, LAMBDA l : l.cond # <<>>)
        IN  /\ Len(said.entries) = Len(given)
            /\ \A i \in DOMAIN given :
                  /\ said.entries[i].kind = given[i].key
                  /\ said.entries[i].flag = given[i].flag
                  /\ said.entries[i].appnd = given[i].appnd

(* A word is accepted exactly if it is one of those a word of the          *)
(* dictionary stands for, written as it is, as a title or, if the word has *)
(* no capitals, in upper case: what the search through the ordered lists   *)
(* finds from the end is what adding affixes makes from the root.          *)
AllExpanded == UNION Range(said.expanded)
ExpansionsAreAccepted ==
    \A w \in AllExpanded \cap Typed :
        \/ \E i \in DOMAIN words : w = words[i].word
        \/ w \in said.accepted
AcceptedAreExpansions ==
    \A w \in said.accepted : \E x \in AllExpanded : SameSensitive(w, x, TRUE)
CapitalsAreAccepted ==
    \A i \in DOMAIN said.expanded : case_pattern(words[i].word) = "AllLower" =>
        \A x \in said.expanded[i] \ {words[i].word} :
            {TitleWord(x), UpperWord(x)} \cap Typed \subseteq said.accepted

(* Partly expanded, a dictionary stands for the same words (aspell.texi    *)
(* 3041: the results are those of a dictionary without compression).       *)
PartlyExpandedIsSame ==
    \A i \in DOMAIN said.partly :
        UNION {expand(said.entries, p.word, Range(p.aff)) : p \in said.partly[i]} = said.expanded[i]

(* What munch guesses of a word is what expand takes back to it. (Roots    *)
(* that prefix and suffix may strip or look at as a whole are left out: a  *)
(* check puts the prefix's condition to the root with its suffix, expand   *)
(* to the root alone.)                                                     *)
MadeOf(a, root) ==
    {<<Guess(root, IF x[1] = 0 THEN 0 ELSE a[x[1]].flag, IF x[2] = 0 THEN 0 ELSE a[x[2]].flag),
       Expanded(a, root, x)>> : x \in Expansions(a, root, {e.flag : e \in Range(a)})}
MunchInvertsExpand ==
    LET small == {w \in DOMAIN said.guesses : case_pattern(w) = "AllLower"}
        made == UNION {MadeOf(said.entries, root) : root \in PlainWords}
    IN  small # {} =>
            UNION {{<<g, w>> : g \in {h \in said.guesses[w] : Len(h.root) > 2}} : w \in small}
            = {m \in made : m[2] \in small /\ <<m[1].pre, m[1].suf>> # <<0, 0>>}

AffixesAgree ==
    EntriesComplete /\ ExpansionsAreAccepted /\ AcceptedAreExpansions /\ CapitalsAreAccepted
    /\ MunchInvertsExpand

-----------------------------------------------------------------------------
(***************************************************************************)
(* The commands of prog/aspell.cpp that turn word lists with affix flags   *)
(* into one another: expand, combine and munch-list, the latter in its     *)
(* simple and its complete version. The words of a table come in the order *)
(* of a hash table, which is any order.                                    *)
(***************************************************************************)

CONSTANTS
    AffixTables,    \* sequences of affix entries, as parse_file returns them
    WordLists       \* sequences of lines [word, aff], as Dictionaries

VARIABLES
    munching        \* the command: see NotMunching

munchvars == <<munching>>

\* table: the words with their prefix and suffix flags, in the order they
\* were added, and whether they are kept; left: those not yet munched; sets:
\* the words that go together, by word.
NotMunching == [command |-> "none", entries |-> <<>>, input |-> <<>>, table |-> <<>>,
                left |-> {}, sets |-> <<>>, output |-> <<>>, done |-> FALSE]
NoAffixes == [pre |-> <<>>, suf |-> <<>>, keep |-> FALSE]

Flags(p) == p.pre \o p.suf
ExpandedList(a, list) == UNION {expand(a, l.word, Range(l.aff)) : l \in Range(list)}
add_affix(aff, flag) == IF flag = 0 \/ Contains(aff, flag) THEN aff ELSE Append(aff, flag)

---------------------------------------------------------------------------
(* combine: lines of one word that differ in flags or in the case of the   *)
(* first letter, one after the other, become one.                          *)
lower_equal(a, b) ==
    Len(a) = Len(b) /\ to_lower(a[1]) = to_lower(b[1]) /\ Tail(a) = Tail(b)
combine_aff(aff, more) == FoldLeft(add_affix, aff, more)
CombineTwo(last, line) ==
    [word |-> IF case_pattern(last.word) = "AllLower" THEN last.word ELSE line.word,
     aff |-> combine_aff(last.aff, line.aff)]
combine(list) ==
    FoldLeft(LAMBDA out, line :
                IF out # <<>> /\ lower_equal(Last(out).word, line.word)
                THEN Append(Front(out), CombineTwo(Last(out), line))
                ELSE Append(out, line),
             <<>>, list)

---------------------------------------------------------------------------
(* munch_list_simple: each word is given to the shortest base that, with   *)
(* the flags it has by then, stands for words of the list only.            *)
(* Mutant: only the new flags are tried, not those the base has already.   *)
InTableAlone(table, g, a) ==
    /\ g.root \in DOMAIN table
    /\ expand(a, g.root, {g.pre, g.suf} \ {0}) \subseteq DOMAIN table
InTable(table, g, a) ==
    /\ g.root \in DOMAIN table
    /\ expand(a, g.root, Range(Flags(table[g.root])) \cup ({g.pre, g.suf} \ {0}))
           \subseteq DOMAIN table
Bases(m, w) == {g \in munch(m.entries, w, TRUE) : InTable(m.table, g, m.entries)}
BestBases(m, w) ==
    {g \in Bases(m, w) : \A h \in Bases(m, w) : Len(g.root) <= Len(h.root)}
TableKept(table, g) ==
    [table EXCEPT ![g.root] = [pre |-> add_affix(@.pre, g.pre), suf |-> add_affix(@.suf, g.suf),
                               keep |-> TRUE]]
MunchSimply(w) ==
    /\ munching.command = "simple"
    /\ w \in munching.left
    /\ \/ /\ Bases(munching, w) = {}
          /\ munching' = [munching EXCEPT !.left = @ \ {w}, !.table[w].keep = TRUE]
       \/ \E g \in BestBases(munching, w) :
              munching' = [munching EXCEPT !.left = @ \ {w}, !.table = TableKept(@, g)]

---------------------------------------------------------------------------
(* munch_list_complete, first part: every flag that makes only words of    *)
(* the list goes to its base, and the words it makes go into one set.      *)
AddFlag(table, g) ==
    [table EXCEPT ![g.root] = [@ EXCEPT !.pre = add_affix(@, g.pre), !.suf = add_affix(@, g.suf)]]
Join(sets, members) ==
    LET all == UNION {sets[w] : w \in members}
    IN  [w \in DOMAIN sets |-> IF w \in all THEN all ELSE sets[w]]
GoodGuesses(m, w) ==
    {g \in munch(m.entries, w, FALSE) :
        /\ g.root \in DOMAIN m.table
        /\ expand(m.entries, g.root, {g.pre, g.suf} \ {0}) \subseteq DOMAIN m.table}
MunchFully(w) ==
    /\ munching.command \in {"single", "multi"}
    /\ w \in munching.left
    /\ LET gs == SetToSeq(GoodGuesses(munching, w))
       IN  munching' =
             [munching EXCEPT
                !.left = @ \ {w},
                !.table = FoldLeft(AddFlag, @, gs),
                !.sets = FoldLeft(LAMBDA s, g : Join(s, {g.root} \cup
                                      expand(munching.entries, g.root, {g.pre, g.suf} \ {0})), @, gs)]

---------------------------------------------------------------------------
(* Second part: which prefixes and suffixes of a base may stand together.  *)

PairOf(pre, suf) == [pre |-> pre, suf |-> suf]

\* combine(in, res, which): pairs with the same prefixes (suffixes) become
\* one; the results are put in front of each other.
CombinePre(list) ==
    FoldLeft(LAMBDA res, i :
                IF \E j \in 1 .. i - 1 : list[j].pre = list[i].pre THEN res
                ELSE <<PairOf(list[i].pre,
                            FoldLeft(LAMBDA b, j : IF list[j].pre = list[i].pre
                                                   THEN combine_aff(b, list[j].suf) ELSE b,
                                     list[i].suf, [n \in 1 .. Len(list) - i |-> i + n]))>> \o res,
             <<>>, [n \in 1 .. Len(list) |-> n])
Turned(list) == [i \in DOMAIN list |-> PairOf(list[i].suf, list[i].pre)]
CombineSuf(list) == Turned(CombinePre(Turned(list)))

CrossPairs(a, table, w) ==
    LET p == table[w]
        pairs == [n \in 1 .. Len(p.pre) * Len(p.suf) |->
                    PairOf(<<p.pre[((n - 1) \div Len(p.suf)) + 1]>>, <<p.suf[((n - 1) % Len(p.suf)) + 1]>>)]
    IN  Reverse(SelectSeq(pairs, LAMBDA x : expand(a, w, {x.pre[1], x.suf[1]}) \subseteq DOMAIN table))
Combos(a, table, w) ==
    LET cross == CrossPairs(a, table, w)
        tmp2 == CombinePre(CombineSuf(cross)) \o CombineSuf(CombinePre(cross))
    IN  CombineSuf(CombinePre(<<PairOf(<<>>, table[w].suf), PairOf(table[w].pre, <<>>)>> \o tmp2))

\* The flags a base goes on with: one entry for each pair (multi) or the
\* pair that has most expansions.
MostExpanded(a, w, list) ==
    LET size(i) == Cardinality(Expansions(a, w, Range(Flags(list[i]))))
    IN  list[CHOOSE i \in DOMAIN list :
                \A j \in DOMAIN list : size(j) < size(i) \/ (size(j) = size(i) /\ i <= j)]
EntriesOf(m, w) ==
    LET p == m.table[w]
        combos == Combos(m.entries, m.table, w)
    IN  CASE Flags(p) = <<>> -> {}
          [] Flags(p) # <<>> /\ (p.pre = <<>> \/ p.suf = <<>>) -> {[word |-> w, aff |-> Flags(p)]}
          [] OTHER -> {[word |-> w, aff |-> Flags(c)] :
                         c \in IF m.command = "multi" THEN Range(combos)
                               ELSE {MostExpanded(m.entries, w, combos)}}

---------------------------------------------------------------------------
(* Third part: the bases that are needed, one set of words at a time.      *)

Working(a, e) == [word |-> e.word, aff |-> e.aff, exp |-> expand(a, e.word, Range(e.aff))]
\* WorkingLt
WorkingLt(x, y) ==
    LET first == <<Cardinality(y.exp), Len(x.word), Len(y.aff)>>
        second == <<Cardinality(x.exp), Len(y.word), Len(x.aff)>>
    IN  IF first # second THEN strless(first, second)
        ELSE IF x.word # y.word THEN strless(x.word, y.word) ELSE strless(x.aff, y.aff)
WorkingOrder(set) == SetToSortSeq(set, WorkingLt)

\* (1) and (3): what others have as well goes.
NotSubsets(w) ==
    FoldLeft(LAMBDA kept, x : IF \E y \in Range(kept) : x.exp \subseteq y.exp THEN kept
                              ELSE Append(kept, x),
             <<>>, w)
\* (2): what alone has some word is needed.
Needed(w) == SelectSeq(w, LAMBDA x : \E v \in x.exp : \A y \in Range(w) : v \in y.exp => y = x)
Covered(keep) == UNION {x.exp : x \in keep}
RECURSIVE Prune(_, _)
Prune(working, to_keep) ==
    LET sorted == WorkingOrder(working)
        needed == Needed(NotSubsets(sorted))
        covered == to_keep.exp \cup Covered(Range(needed))
        rest == SelectSeq(NotSubsets(sorted), LAMBDA x : x \notin Range(needed) /\ ~(x.exp \subseteq covered))
        stuck == rest # <<>> /\ Len(rest) = Cardinality(working)        \* (4)
        kept == IF stuck THEN <<rest[1]>> ELSE needed
        covers == IF stuck THEN covered \cup rest[1].exp ELSE covered
        next == {[x EXCEPT !.exp = @ \ covers] : x \in Range(IF stuck THEN Tail(rest) ELSE rest)}
        so_far == [list |-> to_keep.list \o [i \in DOMAIN kept |-> [word |-> kept[i].word, aff |-> kept[i].aff]],
                   exp |-> covers]
    IN  IF rest = <<>> \/ next = {} THEN so_far ELSE Prune(next, so_far)

\* simplify: flags that make no word the earlier bases do not make go.
RECURSIVE FewerFlags(_, _, _, _)
FewerFlags(a, w, aff, before) ==
    LET tally == before \cup expand(a, w, Range(aff))
        same == {j \in DOMAIN aff : before \cup expand(a, w, Range(RemoveAt(aff, j))) = tally}
    IN  IF same = {} THEN aff
        ELSE FewerFlags(a, w, RemoveAt(aff, CHOOSE j \in same : \A k \in same : j <= k), before)
Simplified(a, list) ==
    FoldLeft(LAMBDA r, x :
                [list |-> Append(r.list, [word |-> x.word, aff |-> FewerFlags(a, x.word, x.aff, r.tally)]),
                 tally |-> r.tally \cup x.exp],
             [list |-> <<>>, tally |-> {}],
             WorkingOrder({Working(a, x) : x \in Range(list)})).list

PrunedOutput(m, set, pruned) ==
    Simplified(m.entries, pruned.list) \o SetToSeq({[word |-> w, aff |-> <<>>] : w \in set \ pruned.exp})
SetOutput(m, set) ==
    LET all == UNION {EntriesOf(m, w) : w \in set}
    IN  PrunedOutput(m, set, Prune({Working(m.entries, e) : e \in all}, [list |-> <<>>, exp |-> {}]))
CompleteOutput(m) == FlattenSeq(SetToSeq({SetOutput(m, s) : s \in Range(m.sets)}))
SimpleOutput(m) ==
    SetToSeq({[word |-> w, aff |-> Flags(m.table[w])] : w \in {v \in DOMAIN m.table : m.table[v].keep}})

FinishMunch ==
    /\ munching.command \in {"simple", "single", "multi"}
    /\ munching.left = {} /\ ~munching.done
    /\ munching' = [munching EXCEPT !.done = TRUE,
                                    !.output = IF munching.command = "simple" THEN SimpleOutput(munching)
                                               ELSE CompleteOutput(munching)]
Combine ==
    /\ munching.command = "combine" /\ ~munching.done
    /\ munching' = [munching EXCEPT !.done = TRUE, !.output = combine(munching.input)]

---------------------------------------------------------------------------
Started(a, list, command, words_) ==
    [NotMunching EXCEPT !.command = command, !.entries = a, !.input = list,
        !.table = [w \in words_ |-> NoAffixes], !.left = words_, !.sets = [w \in words_ |-> {w}]]
MunchInit ==
    \E a \in AffixTables, list \in WordLists :
        \/ munching = Started(a, list, "combine", {})
        \/ \E command \in {"simple", "single", "multi"} :
              munching = Started(a, list, command, ExpandedList(a, list))
MunchOff == munching = NotMunching
MunchNext ==
    \/ \E w \in munching.left : MunchSimply(w) \/ MunchFully(w)
    \/ FinishMunch
    \/ Combine
MunchSpec == MunchInit /\ [][MunchNext]_munchvars

---------------------------------------------------------------------------
(* What munch-list prints stands for the words that were read: none is     *)
(* lost and none is added, in whatever order the words come, and the       *)
(* choices made for a base never cost another base its words. combine may  *)
(* add the lower case forms of what it joins, and loses nothing.  All this *)
(* where the entries of a flag agree on crossing prefixes: a file may have *)
(* two groups of one flag that do not, and then munch, which asks each     *)
(* entry, joins words that expand, which asks the head, does not make.     *)
CrossAgrees(a) == \A i, j \in DOMAIN a : a[i].kind = "SFX" /\ a[j].kind = "SFX" /\ a[i].flag = a[j].flag
                                            => a[i].cross = a[j].cross
Says(a, list, w) == \E x \in ExpandedList(a, list) : SameSensitive(w, x, TRUE)
ListPreserved ==
    munching.done =>
        IF munching.command = "combine"
        THEN \A w \in ExpandedList(munching.entries, munching.input) :
                Says(munching.entries, munching.output, w)
        ELSE CrossAgrees(munching.entries) =>
                ExpandedList(munching.entries, munching.output) = DOMAIN munching.table
=============================================================================
