----------------------------- MODULE ReadOnlyWs -----------------------------
(***************************************************************************)
(* The compiled word list: modules/speller/default/readonly_ws.cpp with    *)
(* the hash table of vector_hash and, from language.cpp and phonetic.cpp,  *)
(* the reading of the list, the soundslikes and the comparisons of words.  *)
(*                                                                         *)
(* A list is read, sorted and laid out in one block of bytes, in which a   *)
(* word or soundslike is known by the position of its first letter: before *)
(* that stand its flags, the distance to the next one, and its size. Bytes *)
(* are integers, letters as in Affix; position p is element p + 1.         *)
(***************************************************************************)
EXTENDS Affix

CONSTANTS
    Compilations,   \* pairs: a sequence of lines [text, aff], as they are in
                    \* the file, and what is asked of create
    Begins, Middles, Ends,  \* the marks (no letters) that may stand there
    FirstSound, RestSound,  \* the letters' sounds, 0 where there is none
    WordLimit,      \* 240
    GroupLimit,     \* 255
    ByteMod,        \* 256
    MinBuckets,     \* 19
    Lookups         \* the words looked up

VARIABLES
    rawlist, making,
    compiled        \* see NotCompiled

rovars == <<rawlist, making, compiled>>

\* stage: what was done last; items: what the list's reader returned;
\* entries: sorted and without repetitions; block: see Layout.
NotCompiled == [stage |-> "off", items |-> <<>>, entries |-> <<>>, block |-> <<>>, reserved |-> 0]

SpecialMarks == Begins \cup Middles \cup Ends
Space == 32
Dash == 45
Slash == 47
Unconvertible == 99
is_alpha(c) == c \in Alphabet
ToUpper(c) == IF c \in 1 .. Letters THEN c + CaseStep ELSE c
ToClean(w) == [i \in DOMAIN SelectSeq(w, is_alpha) |-> to_lower(SelectSeq(w, is_alpha)[i])]
Front3(s) == SubSeq(s, 1, IF Len(s) < 3 THEN Len(s) ELSE 3)
Front2(s) == SubSeq(s, 1, IF Len(s) < 2 THEN Len(s) ELSE 2)

---------------------------------------------------------------------------
(* WordListIterator: what of the file are words.                           *)

check_if_valid(w) ==
    /\ w # <<>>
    /\ ~is_alpha(w[1]) => w[1] \in Begins /\ Len(w) > 1 /\ is_alpha(w[2])
    /\ \A i \in 1 .. Len(w) - 1 : ~is_alpha(w[i]) => w[i] \in Middles /\ is_alpha(w[i + 1])
    /\ ~is_alpha(Last(w)) => Last(w) \in Ends

\* What does not belong to a word is cut off the ends of what lies between
\* blanks and dashes.
PiecesOf(text) ==
    FoldLeft(LAMBDA pieces, c : IF c \in {Space} \cup ({Dash} \ SpecialMarks) THEN Append(pieces, <<>>)
                                ELSE Append(Front(pieces), Append(Last(pieces), c)),
             <<<<>>>>, text)
Trimmed(piece) ==
    LET from == SelectInSeq(piece, LAMBDA c : is_alpha(c) \/ c \in Begins)
        kept == SubSeq(piece, from, SelectLastInSeq(piece, LAMBDA c : is_alpha(c) \/ c \in Ends))
    IN  IF from = 0 THEN <<>> ELSE kept
(* Mutant: all that is not a letter is cut off.                            *)
CleanedOfMarks(text) ==
    SelectSeq([i \in DOMAIN PiecesOf(text) |-> ToClean(PiecesOf(text)[i])], LAMBDA p : p # <<>>)
Cleaned(text) ==
    SelectSeq([i \in DOMAIN PiecesOf(text) |-> Trimmed(PiecesOf(text)[i])], LAMBDA p : p # <<>>)

Acceptable(m, word, aff) ==
    /\ m.validate => check_if_valid(word)
    /\ Len(word) + (IF aff = <<>> THEN 0 ELSE Len(aff) + 1) <= WordLimit

\* One line: the words before the first that is not acceptable, if those are
\* not skipped, and whether there was one.
ItemsOf(m, line) ==
    LET have_affix == m.affixes # <<>>
        text == IF have_affix \/ line.aff = <<>> THEN line.text
                ELSE line.text \o <<Slash>> \o line.aff
        valid == SelectSeq(line.aff, LAMBDA f : check_affix(m.affixes, text, f) = "ValidAffix")
        aff == IF ~have_affix THEN <<>> ELSE IF m.cleanAffixes THEN valid ELSE line.aff
        pieces == IF aff = <<>> /\ m.validate /\ m.clean THEN Cleaned(text)
                  ELSE SelectSeq(<<text>>, LAMBDA p : p # <<>>)
        fine == SelectSeq(pieces, LAMBDA p : Acceptable(m, p, aff))
        unreadable == Contains(text, Unconvertible)
    IN  [ok |-> /\ m.skip \/ (~unreadable /\ fine = pieces)
                /\ unreadable \/ ~have_affix \/ m.cleanAffixes \/ valid = line.aff,
         items |-> IF unreadable THEN <<>>
                   ELSE [i \in DOMAIN fine |-> [word |-> fine[i], aff |-> aff]]]

---------------------------------------------------------------------------
(* Soundslikes: "none", the clean word; "simple", by tables; and the       *)
(* language's own rules, here the same tables.                             *)

SoundOf(w) ==
    LET start == SelectInSeq(w, LAMBDA c : is_alpha(c) /\ FirstSound[to_lower(c)] # 0)
        sound(c) == IF is_alpha(c) THEN RestSound[to_lower(c)] ELSE 0
        next(r, c) == [prev |-> sound(c),
                       out |-> IF sound(c) \in {0, r.prev} THEN r.out ELSE Append(r.out, sound(c))]
        first == FirstSound[to_lower(w[start])]
    IN  IF start = 0 THEN <<>>
        ELSE FoldLeft(next, [prev |-> first, out |-> <<first>>], SubSeq(w, start + 1, Len(w))).out
to_soundslike(m, w) == IF m.soundslike = "none" THEN ToClean(w) ELSE SoundOf(w)

affix_compress(m) == m.affixes # <<>> /\ m.compress
partially_expanded(m) == affix_compress(m) /\ m.soundslike # "own" /\ m.partial
invisible_soundslike(m) ==
    \/ partially_expanded(m)
    \/ m.invisible = "on"
    \/ m.invisible = "unset" /\ m.soundslike # "own"

---------------------------------------------------------------------------
(* create: the words, expanded where they are to be, sorted and merged.    *)

DataSize(word, aff) == Len(word) + 1 + IF aff = <<>> THEN 0 ELSE Len(aff) + 1
EntryOfWord(m, word, aff) ==
    [word |-> word, aff |-> aff, sl |-> to_soundslike(m, word), duplicate |-> FALSE,
     size |-> DataSize(word, aff)]
EntriesOfItem(m, item) ==
    CASE item.aff # <<>> /\ ~affix_compress(m) ->
            {EntryOfWord(m, w, <<>>) : w \in expand(m.affixes, item.word, Range(item.aff))}
      [] item.aff # <<>> /\ partially_expanded(m) ->
            {EntryOfWord(m, p.word, p.aff) : p \in partially_expand(m.affixes, item.word, item.aff, 3)}
      [] OTHER -> {EntryOfWord(m, item.word, item.aff)}
TooLong(e) == e.size + (IF e.sl = e.word THEN 0 ELSE Len(e.sl) + 1) > WordLimit

SoundslikeLess(x, y) ==
    LET same(a, b) == ~strless(a, b) /\ ~strless(b, a)
    IN  \/ strless(x.sl, y.sl)
        \/ x.sl = y.sl /\ strless(ToClean(x.word), ToClean(y.word))
        \/ x.sl = y.sl /\ ToClean(x.word) = ToClean(y.word) /\ strless(x.word, y.word)

\* The same word again adds its flags; one of the same clean form, not the
\* same word, marks the one before.
MergedFlags(p, q) == p \o SelectSeq(q, LAMBDA f : ~Contains(p, f))
(* Mutant: the flags of the word that is dropped are lost.                 *)
MergedLosing(out, e) ==
    LET prev == Last(out)
        marked == [prev EXCEPT !.duplicate = ToClean(prev.word) = ToClean(e.word)]
    IN  IF out = <<>> THEN <<e>> ELSE IF prev.word = e.word THEN out ELSE Append(Front(out), marked) \o <<e>>
Merged(out, e) ==
    LET prev == Last(out)
        flags == MergedFlags(prev.aff, e.aff)
        merged == [prev EXCEPT !.aff = flags, !.size = DataSize(prev.word, flags) % ByteMod]
        marked == [prev EXCEPT !.duplicate = ToClean(prev.word) = ToClean(e.word)]
    IN  IF out = <<>> THEN <<e>>
        ELSE IF prev.word = e.word THEN Append(Front(out), merged)
        ELSE Append(Front(out), marked) \o <<e>>

\* Words of one soundslike go together as long as their group's length has
\* room in a byte.
GroupLength(g) == 3 + Len(g[1].sl) + FoldLeft(LAMBDA n, e : n + 3 + e.size, 0, g)
Grouped(groups, e) ==
    IF groups # <<>> /\ Last(groups)[1].sl = e.sl /\ GroupLength(Last(groups)) + 3 + e.size < GroupLimit
    THEN Append(Front(groups), Append(Last(groups), e))
    ELSE Append(groups, <<e>>)
GroupsOf(m, entries) ==
    IF invisible_soundslike(m) THEN [i \in DOMAIN entries |-> <<entries[i]>>]
    ELSE FoldLeft(Grouped, <<>>, entries)
(* Mutant: no room for what follows the last word.                         *)
ReservedTightly(m, entries) ==
    FoldLeft(LAMBDA n, g : n + (IF invisible_soundslike(m) THEN 3 + g[1].size ELSE GroupLength(g)),
             8, GroupsOf(m, entries))
Reserved(m, entries) ==
    FoldLeft(LAMBDA n, g : n + (IF invisible_soundslike(m) THEN 3 + g[1].size ELSE GroupLength(g)),
             16, GroupsOf(m, entries))

---------------------------------------------------------------------------
(* The layout. Each item is made known to the one before it by its NEXT.   *)

HAVE_AFFIX_FLAG == 128
DUPLICATE_FLAG == 16
FlagsOf(e) == (IF e.aff = <<>> THEN 0 ELSE HAVE_AFFIX_FLAG) + IF e.duplicate THEN DUPLICATE_FLAG ELSE 0
WordBytes(e) == Append(e.word, 0) \o IF e.aff = <<>> THEN <<>> ELSE Append(e.aff, 0)
SetNext(bytes, p, distance) == [bytes EXCEPT ![p - 1] = distance % ByteMod]

\* Where the first three letters change, the last NEXT points one byte short
\* of the following item, whose NEXT then reads as the zero behind the last
\* word: the end of the group.
GroupEnd(m, size, prev_pos) == size - prev_pos - (IF invisible_soundslike(m) THEN 3 ELSE 2) + 1

(* Mutant: the groups are told by two letters, as the first table's are.   *)
JumpsCoarse(s, sl, size) ==
    IF Front2(s.prev_sl) = Front2(sl) THEN s
    ELSE LET two == [s EXCEPT !.jump2 = Append(@, [sl |-> Front3(sl), loc |-> size])]
         IN  [two EXCEPT !.jump1 = Append(@, [sl |-> Front2(sl), loc |-> Len(two.jump2)])]
Jumps(s, sl, size) ==
    IF Front3(s.prev_sl) = Front3(sl) THEN s
    ELSE LET two == [s EXCEPT !.jump2 = Append(@, [sl |-> Front3(sl), loc |-> size])]
         IN  IF Front2(s.prev_sl) = Front2(sl) THEN two
             ELSE [two EXCEPT !.jump1 = Append(@, [sl |-> Front2(sl), loc |-> Len(two.jump2)])]

\* A word of a visible group; the words are chained through all groups.
AddWord(s, e) ==
    LET pos == Len(s.bytes) + 3
        bytes == s.bytes \o <<FlagsOf(e), (e.size + 3) % ByteMod, Len(e.word)>> \o WordBytes(e)
    IN  [s EXCEPT !.bytes = SetNext(bytes, s.prev_w_pos, pos - s.prev_w_pos),
                  !.prev_w_pos = pos, !.at = Append(@, pos)]
AddGroup(m, s, g) ==
    LET sl == g[1].sl
        head == IF invisible_soundslike(m) THEN <<FlagsOf(g[1]), 0, Len(g[1].word)>> ELSE <<0, Len(sl)>>
        opened == s.bytes \o head
        size == Len(opened)
        next == IF Front3(s.prev_sl) = Front3(sl) THEN size - s.prev_pos ELSE GroupEnd(m, size, s.prev_pos)
        told == [Jumps(s, sl, size) EXCEPT !.bytes = SetNext(opened, s.prev_pos, next),
                                           !.prev_pos = size, !.prev_sl = sl]
    IN  IF invisible_soundslike(m)
        THEN [told EXCEPT !.bytes = @ \o WordBytes(g[1]), !.at = Append(@, size)]
        ELSE FoldLeft(AddWord, [told EXCEPT !.bytes = @ \o Append(sl, 0)], g)

Zeros(n) == [i \in 1 .. n |-> 0]
NoJump == [sl |-> <<>>, loc |-> 1]
EndLayout(m, full) ==
    LET padded == full.bytes \o Zeros(4 + (Len(full.bytes) % 2))
        ended == SetNext(padded, full.prev_pos, Len(padded) - full.prev_pos) \o Zeros(3)
    IN  [bytes |-> Zeros(8) \o SubSeq(ended, 9, Len(ended)),
         first |-> IF invisible_soundslike(m) THEN ended[3] + 4 ELSE ended[7] + 8,
         jump1 |-> Append(full.jump1, NoJump), jump2 |-> Append(full.jump2, NoJump), at |-> full.at]
Layout(m, entries) ==
    LET start == [bytes |-> Zeros(8), prev_pos |-> 4, prev_w_pos |-> 8, prev_sl |-> <<>>,
                  jump1 |-> <<>>, jump2 |-> <<>>, at |-> <<>>]
    IN  EndLayout(m, FoldLeft(LAMBDA s, g : AddGroup(m, s, g), start, GroupsOf(m, entries)))

---------------------------------------------------------------------------
(* VectorHashTable: the positions of the words, one of each clean form.    *)

Prime(n) == n > 1 /\ \A d \in 2 .. n - 1 : n % d # 0
RECURSIVE BucketsFrom(_)
BucketsFrom(n) == IF n % 4 = 3 /\ Prime(n) /\ Prime(n - 2) THEN n ELSE BucketsFrom(n + 1)
Buckets(n) == IF n <= MinBuckets THEN MinBuckets ELSE BucketsFrom(n)
InsensitiveHash(w) == FoldLeft(LAMBDA h, c : 5 * h + c, 0, ToClean(w))

StringAt(b, p) == SubSeq(b, p + 1, p + SelectInSeq(SubSeq(b, p + 1, Len(b)), LAMBDA c : c = 0) - 1)

\* FindIterator: the bucket of the word, or the empty one where it would be.
StepOf(h, n) == 1 + (h % (n - 2))
RECURSIVE Probed(_, _, _, _, _)
Probed(b, table, w0, i, step) ==
    IF table[i] = -1 \/ ToClean(StringAt(b, table[i])) = ToClean(w0) THEN i
    ELSE Probed(b, table, w0, (i + step) % Cardinality(DOMAIN table), step)
FindBucket(b, table, w0) ==
    LET n == Cardinality(DOMAIN table)
        h == InsensitiveHash(w0)
    IN  Probed(b, table, w0, h % n, StepOf(h, n))
\* The table is made large enough for all: it never grows.
Inserted(b, table, pos) ==
    LET i == FindBucket(b, table, StringAt(b, pos))
    IN  IF table[i] = -1 THEN [table EXCEPT ![i] = pos] ELSE table
HashOf(m, entries, layout) ==
    LET unique == Cardinality({ToClean(e.word) : e \in Range(entries)}) - 1
        n == Buckets(IF affix_compress(m) THEN (unique * 3) \div 2 ELSE (unique * 5) \div 4)
    IN  FoldLeft(LAMBDA t, pos : Inserted(layout.bytes, t, pos), [i \in 0 .. n - 1 |-> -1], layout.at)

---------------------------------------------------------------------------
(* The loaded dictionary: its words, in order and by form.                 *)

get_offset(b, p) == b[p - 1]
get_next(b, p) == p + get_offset(b, p)
duplicate_flag(b, p) == b[p - 2] % HAVE_AFFIX_FLAG >= DUPLICATE_FLAG
Converted(b, p) ==
    [word |-> StringAt(b, p),
     aff |-> IF b[p - 2] >= HAVE_AFFIX_FLAG THEN StringAt(b, p + b[p] + 1) ELSE <<>>]

\* Elements: at the end of a group the next word is two bytes further.
RECURSIVE ElementsFrom(_, _)
ElementsFrom(b, p) ==
    LET at == IF get_offset(b, p) = 0 THEN p + 2 ELSE p
    IN  IF get_offset(b, at) = 0 THEN <<>> ELSE <<Converted(b, at)>> \o ElementsFrom(b, get_next(b, at))

RECURSIVE SameForm(_, _)
SameForm(b, p) == IF duplicate_flag(b, p) THEN <<p>> \o SameForm(b, get_next(b, p)) ELSE <<p>>
clean_lookup(d, w0) ==
    LET i == FindBucket(d.bytes, d.table, w0)
    IN  IF d.table[i] = -1 THEN <<>> ELSE SameForm(d.bytes, d.table[i])

\* SensitiveCompare: case counts unless c.insensitive; a mark the word begins
\* or ends with may be passed over, and if it may begin a sentence (c.begin)
\* its first letter may be a capital.
Compared(word, inlist, c) ==
    LET like(a, b) == \A i \in DOMAIN inlist : a[i] = b[i]
        upper(w) == [i \in DOMAIN w |-> ToUpper(w[i])]
        title(w) == <<ToUpper(w[1])>> \o Tail(w)
    IN  /\ \/ Len(word) = Len(inlist)
           \/ c.end /\ Len(word) = Len(inlist) + 1 /\ Last(word) \in Ends
        /\ \/ c.insensitive /\ like(upper(word), upper(inlist))
           \/ ~c.insensitive /\ (like(word, inlist) \/ like(word, upper(inlist)))
           \/ ~c.insensitive /\ c.begin /\ like(word, title(inlist))
SensitiveCompare(word, inlist, c) ==
    \E k \in 0 .. Len(word) - 1 :
        /\ k > 0 => c.begin /\ \A j \in 1 .. k : word[j] \in Begins
        /\ Compared(Tail2(word, k), inlist, c)
(* Mutant: only the first word of the form is looked at.                   *)
lookup_first(d, w0, c) ==
    SelectSeq(clean_lookup(d, w0), LAMBDA p : p = clean_lookup(d, w0)[1]
                                              /\ SensitiveCompare(w0, StringAt(d.bytes, p), c))
lookup(d, w0, c) ==
    SelectSeq(clean_lookup(d, w0), LAMBDA p : SensitiveCompare(w0, StringAt(d.bytes, p), c))

---------------------------------------------------------------------------
(* SoundslikeElements: all soundslikes, or words where those are not kept, *)
(* by way of two tables of their first two and three letters. The caller   *)
(* says of the one it was given up to which letter it looked to reject it. *)

LARGE_NUM == 1000
SecondLetter(sl) == IF Len(sl) > 1 THEN sl[2] ELSE 0
NoElement == [what |-> "none", word |-> <<>>, aff |-> <<>>, pos |-> 0]
ScanStart == [level |-> 1, jump1 |-> 1, jump2 |-> 1, cur |-> 0, prev |-> 0]

AtJump(d, s, sl) ==
    [s |-> [s EXCEPT !.prev = 0],
     out |-> IF sl = <<>> THEN NoElement ELSE [what |-> "Part", word |-> sl, aff |-> <<>>, pos |-> 0]]
NextJump2(d, s) ==
    IF SecondLetter(d.jump2[s.jump2].sl) # SecondLetter(d.jump2[s.jump2 + 1].sl)
    THEN AtJump(d, [s EXCEPT !.level = 1, !.jump1 = @ + 1, !.jump2 = @ + 1], d.jump1[s.jump1 + 1].sl)
    ELSE AtJump(d, [s EXCEPT !.level = 2, !.jump2 = @ + 1], d.jump2[s.jump2 + 1].sl)

\* What begins as the one before, as far as that was looked at, is skipped.
(* Mutant: one letter less is compared.                                    *)
SkippedSoon(b, prev, cur, stopped_at) ==
    LET same(k) == b[prev + k + 1] = b[cur + k + 1]
    IN  prev # 0 /\ stopped_at \in 3 .. 5 /\ \A k \in 3 .. stopped_at - 1 : same(k) /\ b[cur + k + 1] # 0
Skipped(b, prev, cur, stopped_at) ==
    LET same(k) == b[prev + k + 1] = b[cur + k + 1]
    IN  /\ prev # 0 /\ stopped_at \in 3 .. 5
        /\ \A k \in 3 .. stopped_at - 1 : same(k) /\ b[cur + k + 1] # 0
        /\ same(stopped_at)
ElementAt(m, d, p) ==
    IF invisible_soundslike(m) THEN [what |-> "Word", pos |-> p] @@ Converted(d.bytes, p)
    ELSE [what |-> "Soundslike", word |-> StringAt(d.bytes, p), aff |-> <<>>, pos |-> p]

RECURSIVE ScanNext(_, _, _, _)
ScanNext(m, d, s, stopped_at) ==
    LET cur == IF s.level = 2 THEN d.jump2[s.jump2].loc ELSE s.cur
        passed == [s EXCEPT !.level = 3, !.cur = get_next(d.bytes, cur), !.prev = cur]
        j == d.jump1[s.jump1].loc
    IN  CASE s.level = 1 /\ stopped_at < 2 ->
                AtJump(d, [s EXCEPT !.jump1 = @ + 1], d.jump1[s.jump1 + 1].sl)
          [] s.level = 2 /\ stopped_at < 3 -> NextJump2(d, s)
          [] s.level = 1 /\ stopped_at >= 2 ->
                AtJump(d, [s EXCEPT !.level = 2, !.jump2 = j], d.jump2[j].sl)
          [] s.level = 3 /\ get_offset(d.bytes, s.cur) = 0 -> NextJump2(d, s)
          [] OTHER -> IF Skipped(d.bytes, s.prev, cur, stopped_at) THEN ScanNext(m, d, passed, stopped_at)
                      ELSE [s |-> passed, out |-> ElementAt(m, d, cur)]

\* soundslike_lookup of what the scan returned.
RECURSIVE WordsUntil(_, _, _)
WordsUntil(b, p, end) ==
    {Converted(b, p)} \cup IF get_next(b, p) >= end THEN {} ELSE WordsUntil(b, get_next(b, p), end)
soundslike_lookup(m, d, e) ==
    IF e.pos = 0 THEN {}
    ELSE IF invisible_soundslike(m) THEN {Converted(d.bytes, e.pos)}
    ELSE WordsUntil(d.bytes, e.pos + d.bytes[e.pos] + 4, get_next(d.bytes, e.pos) - 3)

\* A caller that wants the words of some soundslikes, as Working::try_scan.
SoundOfElement(m, e) == IF e.what = "Word" THEN to_soundslike(m, e.word) ELSE e.word
StoppedAt(m, e, wanted) ==
    LET sl == SoundOfElement(m, e)
        alike == {Len(LongestCommonPrefix({sl, t})) : t \in wanted}
    IN  IF sl \in wanted THEN LARGE_NUM
        ELSE (CHOOSE n \in alike : \A k \in alike : k <= n)
             + (IF e.aff = <<>> THEN 0 ELSE Len(e.word) - Len(sl))
RECURSIVE ScanFor(_, _, _, _, _)
ScanFor(m, d, s, stopped_at, wanted) ==
    LET r == ScanNext(m, d, s, stopped_at)
    IN  IF r.out.what = "none" THEN {}
        ELSE (IF SoundOfElement(m, r.out) \in wanted THEN soundslike_lookup(m, d, r.out) ELSE {})
             \cup ScanFor(m, d, r.s, StoppedAt(m, r.out, wanted), wanted)
Scanned(m, d, wanted) == ScanFor(m, d, ScanStart, LARGE_NUM, wanted)

---------------------------------------------------------------------------

ReadList ==
    LET read == [i \in DOMAIN rawlist |-> ItemsOf(making, rawlist[i])]
        ok == \A i \in DOMAIN read : read[i].ok
    IN  /\ compiled.stage = "start"
        /\ compiled' = [compiled EXCEPT !.stage = IF ok THEN "read" ELSE "invalid word",
                            !.items = IF ok THEN FlattenSeq([i \in DOMAIN read |-> read[i].items]) ELSE <<>>]
        /\ UNCHANGED <<rawlist, making>>

WordsToStore(m, items) ==
    FlattenSeq([i \in DOMAIN items |->
                   FoldSet(LAMBDA e, s : Append(s, e), <<>>, EntriesOfItem(m, items[i]))])
WithTable(m, entries, layout) == [table |-> HashOf(m, entries, layout)] @@ layout
Written(m, entries) ==
    [compiled EXCEPT !.stage = "created", !.entries = entries, !.reserved = Reserved(m, entries),
                     !.block = WithTable(m, entries, Layout(m, entries))]
Created(m, all) ==
    IF \E i \in DOMAIN all : TooLong(all[i]) THEN [compiled EXCEPT !.stage = "invalid word"]
    ELSE Written(m, FoldLeft(Merged, <<>>, SortSeq(all, SoundslikeLess)))
Create ==
    /\ compiled.stage = "read"
    /\ compiled' = Created(making, WordsToStore(making, compiled.items))
    /\ UNCHANGED <<rawlist, making>>

\* A speller of the same language and soundslike takes the file, any other
\* refuses it.
Load ==
    /\ compiled.stage = "created"
    /\ \E same \in BOOLEAN :
          compiled' = [compiled EXCEPT !.stage = IF same THEN "loaded" ELSE "bad file format"]
    /\ UNCHANGED <<rawlist, making>>

ReadOnlyInit ==
    \E x \in Compilations : rawlist = x[1] /\ making = x[2] /\ compiled = [NotCompiled EXCEPT !.stage = "start"]
ReadOnlyOff == rawlist = <<>> /\ making = <<>> /\ compiled = NotCompiled
ReadOnlyNext == ReadList \/ Create \/ Load
ReadOnlySpec == ReadOnlyInit /\ [][ReadOnlyNext]_rovars

---------------------------------------------------------------------------
(* Properties.                                                             *)

Dict == compiled.block
\* The words meant, before any order: what the items stand for.
Meant == Range(WordsToStore(making, compiled.items))
Listed(p) == Converted(Dict.bytes, p)
FlagsMeant(w) == UNION {Range(e.aff) : e \in {x \in Meant : x.word = w}}
IsMeant(x) == \E e \in Meant : e.word = x.word /\ Range(x.aff) = FlagsMeant(x.word)
Contrasts == [insensitive : BOOLEAN, begin : BOOLEAN, end : BOOLEAN]

\* The words of the list that are words reach the dictionary as they are,
\* and nothing else does, however the list is cleaned.
ListIsRead ==
    compiled.stage = "read" =>
        /\ making.validate => \A x \in Range(compiled.items) : check_if_valid(x.word)
        /\ \A line \in Range(rawlist) :
              check_if_valid(line.text) /\ ~Contains(line.text, Dash) /\ Len(line.text) < 5
              /\ (line.aff = <<>> \/ making.affixes # <<>>)
                 => \E x \in Range(compiled.items) : x.word = line.text

\* Each word is listed once, with the flags of all its lines, in a block
\* that is not larger than what was reserved (the table points into it).
AllWordsListed ==
    compiled.stage = "loaded" =>
        LET listed == ElementsFrom(Dict.bytes, Dict.first)
        IN  /\ {x.word : x \in Range(listed)} = {e.word : e \in Meant}
            /\ Len(listed) = Cardinality({e.word : e \in Meant})
            /\ \A x \in Range(listed) : IsMeant(x)
            /\ Len(Dict.bytes) <= compiled.reserved

\* A word is found in each of the cases and with the marks the comparison
\* lets pass, and in no other; and all words of its clean form are found.
LookupsExact ==
    compiled.stage = "loaded" =>
        LET meant == {e.word : e \in Meant}
        IN  \A w0 \in Lookups :
                LET form == clean_lookup(Dict, w0)
                IN  /\ {Listed(p).word : p \in Range(form)} = {w \in meant : ToClean(w) = ToClean(w0)}
                    /\ \A p \in Range(form) : IsMeant(Listed(p))
                    /\ \A c \in Contrasts : {Listed(p).word : p \in Range(lookup(Dict, w0, c))}
                                               = {w \in meant : SensitiveCompare(w0, w, c)}

\* Whatever is skipped at the word of a caller who wants certain
\* soundslikes, he gets all their words, and no others. (Single letters and
\* words that are longer than their soundslikes are lost: see the README.)
ScanFindsWanted ==
    compiled.stage = "loaded" =>
        LET meant == Meant
            sounds == {e.sl : e \in meant}
        IN  (invisible_soundslike(making) => \A e \in meant : Len(e.word) = Len(e.sl)) =>
            \A wanted \in kSubset(1, sounds) \cup kSubset(2, sounds) :
                LET found == {x.word : x \in Scanned(making, Dict, wanted)}
                    right == {e.word : e \in {x \in meant : x.sl \in wanted}}
                IN  found \subseteq right /\ \A w \in right : Len(w) > 1 => w \in found

DictionaryFaithful == ListIsRead /\ AllWordsListed /\ LookupsExact

\* data.hpp:142-145, soundslike_elements: "guaranteed to return all
\* soundslike and all words".
ScanReturnsAll ==
    compiled.stage = "loaded" =>
        {x.word : x \in Scanned(making, Dict, {e.sl : e \in Meant})} = {e.word : e \in Meant}
=============================================================================
