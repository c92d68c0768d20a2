------------------------------ MODULE Suggest ------------------------------
(***************************************************************************)
(* The suggestions for a misspelled word (modules/speller/default/         *)
(* suggest.cpp): near misses are gathered by splitting the word, from the  *)
(* replacement table, one edit away in letters, one or two edits away in   *)
(* sound, and by the n-grams of the sound; score_list gives them a score,  *)
(* looking no further than it must; the typo analysis ranks the best of    *)
(* them anew; and transfer hands over what stays under the threshold.      *)
(* Each step of get_suggestions is an action.  Words have no capitals here *)
(* and languages no affixes; a dictionary's entry is a word, or a          *)
(* misspelling with what replaces it.                                      *)
(***************************************************************************)
EXTENDS WordCheck, SequencesExt, Folds

-----------------------------------------------------------------------------
(* How far two strings are apart: the functions of leditdist.cpp (look no  *)
(* further than so many edits), editdist.cpp (dynamic programming) and     *)
(* editdist2.hpp (which of them to use) in modules/speller/default.        *)
(* A limited search also says how far it looked into its first string, so  *)
(* that the caller can pass over the words that begin the same way.        *)

CONSTANTS
    Strings,    \* what is compared: sequences of letters 1, 2, ...
    EditLimit   \* the numbers of edits limit_edit_distance is asked for

VARIABLES
    pair,       \* the two strings
    dist        \* what each function says of them

distvars == <<pair, dist>>

\* SuggestParms::set
W == [del1 |-> 95, del2 |-> 95, swap |-> 90, sub |-> 100, min |-> 90, max |-> 100]
LARGE_NUM == 1048575

Char(s, i) == IF i <= Len(s) THEN s[i] ELSE 0     \* 0 ends a string
Ended(s, i) == i > Len(s)

\* Where the strings, read from i and j on, differ or both end.
Same(a, i, b, j) ==
    LET alike(n) == \A k \in 0 .. n - 1 : Char(a, i + k) = Char(b, j + k) /\ ~Ended(a, i + k)
    IN  Max({n \in 0 .. Len(a) : alike(n)})

\* The edits that are tried where a and b differ at i and j; a substitution
\* is not when the two letters could be swapped.
Swappable(a, i, b, j) == Char(a, i) = Char(b, j + 1) /\ Char(b, j) = Char(a, i + 1)
Edits(a, i, b, j) ==
    {<<i + 1, j, W.del1>>, <<i, j + 1, W.del2>>,
     IF Swappable(a, i, b, j) THEN <<i + 2, j + 2, W.swap>> ELSE <<i + 1, j + 1, W.sub>>}

\* check_rest: nothing but equal letters may follow.
check_rest(a, i, b, j, score) ==
    LET n == Same(a, i, b, j)
    IN  [score |-> IF Ended(a, i + n) /\ Ended(b, j + n) THEN score ELSE LARGE_NUM,
         stopped_at |-> i + n]

(* Mutant: the search says where it stopped first, not where it stopped    *)
(* last.                                                                   *)
BestFirst(results) ==
    [score |-> Min({r.score : r \in results}), stopped_at |-> Min({r.stopped_at : r \in results})]
Best(results) ==
    [score |-> Min({r.score : r \in results}), stopped_at |-> Max({r.stopped_at : r \in results})]

limit1_edit_distance(a, b) ==
    LET n == Same(a, 1, b, 1) + 1
        found(score, at) == [score |-> score, stopped_at |-> at]
    IN  CASE Ended(a, n) /\ Ended(b, n) -> found(0, n)
          [] Ended(a, n) /\ ~Ended(b, n) ->
                found(IF Ended(b, n + 1) THEN W.del2 ELSE LARGE_NUM, n)
          [] ~Ended(a, n) /\ Ended(b, n) ->
                found(IF Ended(a, n + 1) THEN W.del1 ELSE LARGE_NUM, n + 1)
          [] OTHER -> Best({check_rest(a, e[1], b, e[2], e[3]) : e \in Edits(a, n, b, n)})

\* check2: at most one more edit.
check2(a, i0, b, j0, score) ==
    LET i == i0 + Same(a, i0, b, j0)
        j == j0 + Same(a, i0, b, j0)
        found(s, at) == [score |-> s, stopped_at |-> at]
    IN  CASE Ended(a, i) /\ Ended(b, j) -> found(score, i)
          [] Ended(a, i) /\ ~Ended(b, j) ->
                found(IF Ended(b, j + 1) THEN score + W.del2 ELSE LARGE_NUM, i)
          [] ~Ended(a, i) /\ Ended(b, j) ->
                found(IF Ended(a, i + 1) THEN score + W.del1 ELSE LARGE_NUM, i + 1)
          [] OTHER -> Best({check_rest(a, e[1], b, e[2], score + e[3]) : e \in Edits(a, i, b, j)})

limit2_edit_distance(a, b) ==
    LET n == Same(a, 1, b, 1) + 1
        found(score, at) == [score |-> score, stopped_at |-> at]
    IN  CASE Ended(a, n) /\ Ended(b, n) -> found(0, n)
          [] Ended(a, n) /\ ~Ended(b, n) ->
                found(IF Len(b) - n < 2 THEN (Len(b) - n + 1) * W.del2 ELSE LARGE_NUM, n)
          [] ~Ended(a, n) /\ Ended(b, n) ->
                found(IF Len(a) - n < 2 THEN (Len(a) - n + 1) * W.del1 ELSE LARGE_NUM,
                      IF Ended(a, n + 1) THEN n + 1 ELSE n + 2)
          [] OTHER -> Best({check2(a, e[1], b, e[2], e[3]) : e \in Edits(a, n, b, n)})

\* limit_edit_distance's loop, from a point on: the stack holds the edits that
\* are left to try; what is left of one string is always cut off, whatever it costs.
RECURSIVE Search(_, _, _, _, _, _)
Search(a, i0, b, j0, score, limit) ==
    LET i == i0 + Same(a, i0, b, j0)
        j == j0 + Same(a, i0, b, j0)
    IN  CASE Ended(a, i) -> score + (Len(b) - j + 1) * W.del2
          [] ~Ended(a, i) /\ Ended(b, j) -> score + (Len(a) - i + 1) * W.del1
          [] ~Ended(a, i) /\ ~Ended(b, j) /\ score + W.max > limit * W.max -> LARGE_NUM
          [] OTHER ->
                IF limit * W.max * W.min <= W.max * (W.min + score)
                THEN Min({check_rest(a, e[1], b, e[2], score + e[3]).score : e \in Edits(a, i, b, j)})
                ELSE Min({Search(a, e[1], b, e[2], score + e[3], limit) : e \in Edits(a, i, b, j)})
limit_edit_distance(a, b, limit) == Search(a, 1, b, 1, 0, limit)

\* editdist.cpp: e[i, j] is the distance of the first i and j letters.
edit_distance(a, b) ==
    LET e[i \in 0 .. Len(a), j \in 0 .. Len(b)] ==
            CASE i = 0 -> j * W.del1
              [] j = 0 /\ i > 0 -> i * W.del2
              [] i > 0 /\ j > 0 /\ a[i] = b[j] -> e[i - 1, j - 1]
              [] OTHER -> Min({W.sub + e[i - 1, j - 1], W.del1 + e[i - 1, j], W.del2 + e[i, j - 1]}
                           \cup IF i > 1 /\ j > 1 /\ a[i] = b[j - 1] /\ a[i - 1] = b[j]
                                THEN {W.swap + e[i - 2, j - 2]} ELSE {})
    IN  e[Len(a), Len(b)]

\* editdist2.hpp: one level after the other until one finds something.
at_level(a, b, level) ==
    CASE level = 2 -> limit2_edit_distance(a, b).score
      [] level \in {1, 3, 4} -> limit_edit_distance(a, b, level)
      [] level >= 5 -> edit_distance(a, b)
RECURSIVE leveled_edit_distance(_, _, _, _)
leveled_edit_distance(a, b, level, limit) ==
    LET score == at_level(a, b, level)
    IN  IF score >= LARGE_NUM /\ level < limit
        THEN leveled_edit_distance(a, b, level + 1, limit) ELSE score

-----------------------------------------------------------------------------

NotYet == [level |-> 0]
DistOff  == pair = <<<<>>, <<>>>> /\ dist = [level |-> -1]
DistInit == pair \in Strings \X Strings /\ dist = NotYet
Compare(a, b) ==
    [level   |-> 1,
     limit1  |-> limit1_edit_distance(a, b),
     limit2  |-> limit2_edit_distance(a, b),
     limited |-> [n \in EditLimit |-> limit_edit_distance(a, b, n)],
     full    |-> edit_distance(a, b),
     leveled |-> leveled_edit_distance(a, b, 1, 5)]
DistNext == dist = NotYet /\ dist' = Compare(pair[1], pair[2]) /\ UNCHANGED pair

(* The reference: the cheapest way from a to b with at most k edits, each  *)
(* of them at any place.                                                   *)
Cheapest(a, b, k) ==
    LET least[i \in 1 .. Len(a) + 1, j \in 1 .. Len(b) + 1, n \in 0 .. k] ==
            Min(IF Ended(a, i) /\ Ended(b, j) THEN {0} ELSE
                {LARGE_NUM}
                \cup (IF Char(a, i) = Char(b, j) THEN {least[i + 1, j + 1, n]} ELSE {})
                \cup (IF n = 0 THEN {} ELSE
                        (IF ~Ended(a, i) THEN {W.del1 + least[i + 1, j, n - 1]} ELSE {})
                        \cup (IF ~Ended(b, j) THEN {W.del2 + least[i, j + 1, n - 1]} ELSE {})
                        \cup (IF ~Ended(a, i) /\ ~Ended(b, j)
                              THEN {W.sub + least[i + 1, j + 1, n - 1]} ELSE {})
                        \cup (IF i < Len(a) /\ j < Len(b) /\ Swappable(a, i, b, j)
                              THEN {W.swap + least[i + 2, j + 2, n - 1]} ELSE {})))
        cost == least[1, 1, k]
    IN  IF cost > LARGE_NUM THEN LARGE_NUM ELSE cost

(* The short cuts find what an exhaustive search finds: within one and two *)
(* edits exactly; a limited search never misses what is within its limit   *)
(* and never says less than the distance; and the levels end in it.        *)
DistancesRight ==
    dist.level = 1 =>
        LET a == pair[1]  b == pair[2]
            least == Cheapest(a, b, Len(a) + Len(b))
        IN  /\ dist.limit1.score = Cheapest(a, b, 1)
            /\ dist.limit2.score = Cheapest(a, b, 2)
            /\ \A n \in EditLimit : least <= dist.limited[n]
                                      /\ dist.limited[n] <= Cheapest(a, b, n)
            /\ dist.full = least
            /\ dist.leveled >= least /\ dist.leveled < LARGE_NUM

(* A word that is too far stays so, however it goes on behind the letter   *)
(* the search stopped at: the scan of a dictionary may pass over it.       *)
SkipIsSafe ==
    dist.level = 1 =>
        \A other \in Strings :
            LET alike(n) == \A k \in 1 .. n : Char(other, k) = Char(pair[1], k)
            IN  /\ dist.limit1.score = LARGE_NUM /\ alike(dist.limit1.stopped_at)
                      => limit1_edit_distance(other, pair[2]).score = LARGE_NUM
                /\ dist.limit2.score = LARGE_NUM /\ alike(dist.limit2.stopped_at)
                      => limit2_edit_distance(other, pair[2]).score = LARGE_NUM
(* Both: a scan that skips words by the limited distances misses none that *)
(* is near enough.                                                         *)
DistancesAndSkips == DistancesRight /\ SkipIsSafe

-----------------------------------------------------------------------------
(* The search for suggestions.                                             *)

CONSTANTS
    Asked,          \* the queries: the word, the dictionaries, the options
    LastLetter,     \* the language's letters are 1 .. LastLetter
    ReplTable,      \* its replacement table: <<part of a word, instead>>
    SlFirst, SlRest,\* its simple soundslike; 0 drops a letter
    KeyPairs,       \* letters side by side on the keyboard
    SplitChars,     \* sug-split-char
    NgramKeep       \* ngram_keep: how many n-grams are kept

VARIABLES
    query,          \* the query that is answered
    work            \* Working
suggvars == <<query, work>>

-----------------------------------------------------------------------------
(* Language and SuggestParms.                                              *)

Clean(w) == SelectSeq(w, IsLetter)
\* SimpileSoundslike::to_soundslike: a letter that sounds as the one before is dropped.
SimpleSound(w) ==
    LET heard == {i \in DOMAIN w : w[i] \in DOMAIN SlFirst /\ SlFirst[w[i]] # 0}
        next(acc, c) == LET cur == IF c \in DOMAIN SlRest THEN SlRest[c] ELSE 0
                        IN  [prev |-> cur, out |-> IF cur # 0 /\ cur # acc.prev
                                                   THEN Append(acc.out, cur) ELSE acc.out]
    IN  IF heard = {} THEN <<>>
        ELSE FoldLeft(next, [prev |-> SlFirst[w[Min(heard)]], out |-> <<SlFirst[w[Min(heard)]]>>],
                      SubSeq(w, Min(heard) + 1, Len(w))).out
Sound(q, w) == IF q.soundslike THEN SimpleSound(w) ELSE Clean(w)

\* SuggestParms::set and set_original_word_size.
Parms(q) ==
    LET bad == q.mode = "bad-spellers"
        sw  == IF bad THEN 55 ELSE IF Len(q.word) <= 4 THEN 15 ELSE 50
        scan1 == q.mode \in {"ultra", "fast", "normal"}
    IN  [sound |-> sw, word |-> 100 - sw, skip |-> 2, span |-> IF bad THEN 125 ELSE 50,
         limit |-> IF bad THEN 1000 ELSE 100, typo |-> q.typo /\ ~bad,
         early |-> scan1 /\ ~q.soundslike, scan1 |-> scan1 /\ q.soundslike,
         scan2 |-> q.mode \in {"normal", "slow", "bad-spellers"},
         ngram |-> q.mode \in {"slow", "bad-spellers"},
         harder |-> IF bad \/ (q.mode = "slow" /\ q.soundslike) THEN 1 ELSE 2]

WordsOf(list) == {list[i].word : i \in {j \in DOMAIN list : list[j].repl = <<>>}}
Words(q) == UNION {WordsOf(q.lists[n]) : n \in DOMAIN q.lists}
\* SpellerImpl::check of a suggestion or of its parts.
Spelled(q, w) == check[Words(q), 0, w, FALSE, q.run].ok

-----------------------------------------------------------------------------
(* Near misses.                                                            *)

\* add_nearmiss: without soundslikes the two scores are one.
NearMiss(q, word, ws, ss, count, repl) ==
    [word |-> word, clean |-> Clean(word), sound |-> Sound(q, word), score |-> LARGE_NUM,
     ws |-> IF ~q.soundslike /\ ws >= LARGE_NUM THEN ss ELSE ws,
     ss |-> IF ~q.soundslike /\ ss >= LARGE_NUM THEN ws ELSE ss,
     count |-> count, repl |-> repl]
\* Those of some entries; the last one ends up in front.
Misses(q, entries, ws, ss) ==
    Reverse([i \in DOMAIN entries |->
                NearMiss(q, entries[i].word, ws, ss, TRUE, entries[i].repl)])
CleanLookup(q, w) ==
    FlattenSeq([n \in DOMAIN q.lists |-> SelectSeq(q.lists[n], LAMBDA e : Clean(e.word) = w)])
SoundLookup(q, list, sound) == SelectSeq(list, LAMBDA e : Sound(q, e.word) = sound)
\* The sounds of a dictionary, each of them once.
Sounds(q, list) ==
    FoldLeft(LAMBDA acc, e : IF Sound(q, e.word) \in Range(acc) THEN acc ELSE Append(acc, Sound(q, e.word)),
             <<>>, list)

RECURSIVE Before(_, _)
Before(v, w) ==
    CASE w = <<>> -> FALSE
      [] v = <<>> /\ w # <<>> -> TRUE
      [] OTHER -> v[1] < w[1] \/ (v[1] = w[1] /\ Before(Tail(v), Tail(w)))

\* check_word: words run together, at most run-together-limit - 1 of them.  It
\* asks the dictionaries of misspellings as well; `over` is how far its caller
\* has put the end behind the word's.
RECURSIVE check_word(_, _, _, _)
check_word(q, w, pos, over) ==
    LET found(v) == CleanLookup(q, v)
        cuts == {i \in RunMin .. Len(w) + over - RunMin : i <= Len(w) /\ found(SubSeq(w, 1, i)) # <<>>}
        rest(i) == check_word(q, SubSeq(w, i + 1, Len(w)), pos + 1, over)
        good == {i \in cuts : rest(i) # <<>>}
    IN  IF found(w) # <<>> THEN <<found(w)[1].word>>
        ELSE IF pos + 1 >= q.run \/ good = {} THEN <<>>
        ELSE <<found(SubSeq(w, 1, Min(good)))[1].word>> \o rest(Min(good))

\* try_word: of a word that may be right, all that the dictionaries have.
TryWord(q, w, score, over) ==
    IF q.run = 0 THEN Misses(q, CleanLookup(q, w), score, LARGE_NUM)
    ELSE LET parts == check_word(q, w, 1, over)
         IN  IF parts = <<>> THEN <<>>
             ELSE <<NearMiss(q, FlattenSeq(parts), score, LARGE_NUM, TRUE, <<>>)>>

\* try_split: in two parts of at least two letters.
Splits(q) ==
    LET w == q.word
        halves(i) == <<SubSeq(w, 1, i), SubSeq(w, i + 1, Len(w))>>
        joined(i, c) == NearMiss(q, halves(i)[1] \o <<c>> \o halves(i)[2], (W.del2 * 3) \div 2,
                                 LARGE_NUM, FALSE, <<>>)
        places == {i \in 2 .. Len(w) - 2 : \A h \in {1, 2} : Spelled(q, halves(i)[h])}
    IN  FlattenSeq([n \in 1 .. Cardinality(places) |->
            LET i == SetToSortSeq(places, <)[n]
            IN  Reverse([k \in DOMAIN SplitChars |-> joined(i, SplitChars[k])])])

\* try_one_edit_word: the words and their scores, in the order they are tried.
EditsOf(w) ==
    LET n == Len(w)
        changed(i, c) == [w EXCEPT ![i] = c]
        swapped(i)    == [w EXCEPT ![i] = w[i + 1], ![i + 1] = w[i]]
        added(i, c)   == InsertAt(w, i, c)
        letters(F(_)) == [c \in 1 .. LastLetter |-> F(c)]
    IN  <<<<w, 0>>>>
        \o FlattenSeq([i \in 1 .. n |-> SelectSeq(letters(LAMBDA c : <<changed(i, c), W.sub>>),
                                                  LAMBDA e : e[1] # w)])
        \o [i \in 1 .. n - 1 |-> <<swapped(i), W.swap>>]
        \o FlattenSeq([i \in 1 .. n + 1 |-> letters(LAMBDA c : <<added(n + 2 - i, c), W.del1>>)])
        \o IF n > 1 THEN [i \in 1 .. n |-> <<RemoveAt(w, n + 1 - i), W.del2>>] ELSE <<>>
\* Everything that is tried, the last of it in front.
TryAll(q, tried, over) ==
    FoldLeft(LAMBDA acc, e : TryWord(q, e[1], e[2], over) \o acc, <<>>, tried)
OneEdits(q) == TryAll(q, EditsOf(Clean(q.word)), 0)

\* try_repl: one word for each place a part is found at, from left to right.
RECURSIVE Places(_, _, _)
Places(w, part, from) ==
    LET at == {i \in from .. Len(w) + 1 - Len(part) : SubSeq(w, i, i + Len(part) - 1) = part}
    IN  IF at = {} THEN <<>> ELSE <<Min(at)>> \o Places(w, part, Min(at) + Len(part))
ReplsOf(w) ==
    FlattenSeq([r \in DOMAIN ReplTable |->
        LET part == ReplTable[r][1]
            at == Places(w, part, 1)
        IN  [k \in DOMAIN at |-> <<SubSeq(w, 1, at[k] - 1) \o ReplTable[r][2]
                                   \o SubSeq(w, at[k] + Len(part), Len(w)), (W.sub * 3) \div 2>>]])
Repls(q) == TryAll(q, ReplsOf(Clean(q.word)), 1)

\* SoundslikeElements::next.  A list of one's own gives its sounds as they come;
\* a compiled one in their order, grouped by their first two letters and within
\* those by their first three, what a group has in common in front of it (level
\* 1 and 2).  The scan begins as if that of the first group had been seen.
Upto(n, s) == SubSeq(s, 1, Min({n, Len(s)}))
Element(level, sound) == [level |-> level, sound |-> sound]
\* What stands in front of the sound at place i, and the sound.
Grouped(sorted, i) ==
    LET opens(k) == i = 1 \/ Upto(k, sorted[i]) # Upto(k, sorted[i - 1])
        shown == {3} \union {k \in {1, 2} : (i > 1 \/ k = 2) /\ opens(k + 1)}
    IN  [k \in 1 .. Cardinality(shown) |->
            LET level == 3 - Cardinality(shown) + k
            IN  Element(level, IF level = 3 THEN sorted[i] ELSE Upto(level + 1, sorted[i]))]
InGroups(sorted) == FlattenSeq([i \in DOMAIN sorted |-> Grouped(sorted, i)])
AsListed(sounds) == [i \in DOMAIN sounds |-> Element(3, sounds[i])]
Elements(q, n) ==
    LET own == Sounds(q, q.lists[n])
    IN  IF n \in q.compiled THEN InGroups(SortSeq(own, Before)) ELSE AsListed(own)
Beginning(q, n) ==
    IF n \in q.compiled /\ q.lists[n] # <<>>
    THEN Element(1, Upto(2, SortSeq(Sounds(q, q.lists[n]), Before)[1])) ELSE Element(3, <<>>)
\* A group is passed over if the search of what it has in common stopped there.
\* (The words that are passed over by the letters of the one before are not
\* left out here: SkipIsSafe says that they are too far as well.)
PassedOver(seen, el) ==
    /\ seen.at.level < 3 /\ seen.stopped_at <= seen.at.level + 1
    /\ Upto(seen.at.level + 1, el.sound) = seen.at.sound

\* try_scan: the words whose sound is so many edits away at most.  What is known
\* of the last sound of a list is kept for the first call of the next one.
ScanDistance(edits, sound, own) ==
    IF edits = 1 THEN limit1_edit_distance(sound, own) ELSE limit2_edit_distance(sound, own)
Visit(q, list, seen, el, d) ==
    LET far == d.score >= LARGE_NUM
    IN  [at |-> el, stopped_at |-> IF far THEN d.stopped_at ELSE LARGE_NUM,
         misses |-> (IF far \/ el.level < 3 THEN <<>>
                     ELSE Misses(q, SoundLookup(q, list, el.sound), LARGE_NUM, d.score)) \o seen.misses]
Scan(q, edits) ==
    LET through(seen, n) ==
            FoldLeft(LAMBDA acc, el :
                         IF PassedOver(acc, el) THEN acc
                         ELSE Visit(q, q.lists[n], acc, el, ScanDistance(edits, el.sound, Sound(q, q.word))),
                     [seen EXCEPT !.at = Beginning(q, n)], Elements(q, n))
    IN  FoldLeft(through, [at |-> Element(3, <<>>), stopped_at |-> LARGE_NUM, misses |-> <<>>],
                 [n \in DOMAIN q.lists |-> n]).misses

\* ngram: the parts of a of up to three letters that are in b.
ngram(a, b) ==
    LET held(j) == Cardinality({i \in 1 .. Len(a) + 1 - j :
                        \E k \in 1 .. Len(b) + 1 - j : SubSeq(a, i, i + j - 1) = SubSeq(b, k, k + j - 1)})
        upto == IF held(1) < 2 THEN 1 ELSE IF held(2) < 2 THEN 2 ELSE 3
        longer == Len(b) - Len(a) - 2
    IN  MapThenSumSet(held, 1 .. upto) - (IF longer > 0 THEN longer ELSE 0)

\* try_ngram keeps the sounds with the best n-grams; when there are enough that
\* are better than the worst, the worst go.
Better(acc, min) == Cardinality({i \in DOMAIN acc.cands : acc.cands[i].ng # min})
Keep(acc, cand) ==
    LET more == [acc EXCEPT !.cands = Append(@, cand), !.count = IF cand.ng > acc.min THEN @ + 1 ELSE @]
        left == SelectSeq(more.cands, LAMBDA c : c.ng # acc.min)
        least == Min({left[i].ng : i \in DOMAIN left})
        kept == [cands |-> left, min |-> least, count |-> 0]
    IN  IF cand.ng <= 0 \/ cand.ng < acc.min THEN acc
        ELSE IF more.count < NgramKeep THEN more
        ELSE [kept EXCEPT !.count = Better(kept, least)]
NGrams(q, have) ==
    LET sounds == FlattenSeq([n \in DOMAIN q.lists |->
                      LET s == Sounds(q, q.lists[n]) IN [i \in DOMAIN s |-> <<n, s[i]>>]])
        cand(s) == [list |-> s[1], sound |-> s[2], ng |-> ngram(Sound(q, q.word), s[2])]
        kept == FoldLeft(LAMBDA acc, s : IF s[2] \in have THEN acc ELSE Keep(acc, cand(s)),
                         [cands |-> <<>>, min |-> 0, count |-> 0], sounds).cands
    IN  FoldLeft(LAMBDA acc, c : Misses(q, SoundLookup(q, q.lists[c.list], c.sound), LARGE_NUM, LARGE_NUM)
                                 \o acc, <<>>, kept)

-----------------------------------------------------------------------------
(* score_list.                                                             *)

weighted_average(p, ss, ws) == (p.word * ws + p.sound * ss) \div 100
(* Mutant: as if the letters had the whole weight.                         *)
needed_level_unweighted(p, want, ss) ==
    LET left == 100 * want - p.sound * ss
    IN  IF left > 0 THEN left \div (100 * W.min) ELSE 0
needed_level(p, want, ss) ==
    LET left == 100 * want - p.sound * ss
    IN  IF left > 0 THEN left \div (p.word * W.min) ELSE 0

\* How far the letters are apart is found out to the level that may matter,
\* in the first pass if the letters need not be nearer than the sounds.
Spelling(q, p, c, want) ==
    LET s == IF c.ss < LARGE_NUM THEN c.ss ELSE 0
        level == needed_level(p, want, s)
    IN  IF c.ws >= LARGE_NUM /\ level >= s \div W.min
        THEN [c EXCEPT !.ws = leveled_edit_distance(Clean(q.word), c.clean, level, level)] ELSE c
SpellingUpTo(q, p, c, want, most) ==
    LET s == IF c.ss < LARGE_NUM THEN c.ss ELSE 0
        first == needed_level(p, want, s)
        last  == needed_level(p, most, s)
    IN  IF c.ws >= LARGE_NUM /\ first < last
        THEN [c EXCEPT !.ws = leveled_edit_distance(Clean(q.word), c.clean, first + 1, last)] ELSE c
\* The sounds are compared if the letters alone are near enough.
Sounding(q, p, c, want) ==
    IF c.ws < LARGE_NUM /\ c.ss >= LARGE_NUM /\ weighted_average(p, 0, c.ws) <= want
    THEN [c EXCEPT !.ss = edit_distance(Sound(q, q.word), c.sound)] ELSE c
Rated(p, c) ==
    IF c.ws < LARGE_NUM /\ c.ss < LARGE_NUM THEN [c EXCEPT !.score = weighted_average(p, c.ss, c.ws)] ELSE c

Ranked(s) == SortSeq(s, LAMBDA a, b : a.score < b.score \/ (a.score = b.score /\ Before(a.word, b.word)))

\* skip_first_couple: the place behind the first few words that count, or the last.
Counted(s, i, prev) == s[i].count /\ s[i].clean # prev
RECURSIVE SkipFrom(_, _, _, _, _)
SkipFrom(s, skip, i, prev, k) ==
    IF i = Len(s) \/ (Counted(s, i, prev) /\ k = skip) THEN [at |-> i, k |-> k]
    ELSE IF Counted(s, i, prev) THEN SkipFrom(s, skip, i + 1, s[i].clean, k + 1)
    ELSE SkipFrom(s, skip, i + 1, prev, k)
skip_first_couple(p, s) == SkipFrom(s, p.skip, 1, <<>>, 0)

\* What is near enough goes over to the scored list, the rest stays.
Moved(judged, scored, most) ==
    [near |-> SelectSeq(judged, LAMBDA c : c.score > most),
     scored |-> Ranked(Reverse(SelectSeq(judged, LAMBDA c : c.score <= most)) \o scored)]
FirstPass(q, p, w, want) ==
    Moved([i \in DOMAIN w.near |->
              Rated(p, Sounding(q, p, Spelling(q, p, w.near[i], want), want))], w.scored, want + p.span)
SecondPass(q, p, w, want, most) ==
    Moved([i \in DOMAIN w.near |->
              Rated(p, Sounding(q, p, SpellingUpTo(q, p, w.near[i], want, most), most))],
          w.scored, most + p.span)

\* The first pass is made for higher and higher scores until the words that
\* are to be skipped, and one more, are within what was tried for.
Step(p) == (p.word * W.max) \div 100
RECURSIVE TryFor(_, _, _, _)
EnoughOrDone(q, p, w, want, skipped) ==
    IF (skipped.k = p.skip /\ w.scored[skipped.at].score <= want) \/ w.near = <<>>
    THEN [lists |-> w, want |-> want, last |-> w.scored[skipped.at].score]
    ELSE TryFor(q, p, w, want + Step(p))
AfterPass(q, p, w, want) ==
    IF w.scored = <<>> THEN TryFor(q, p, w, want + Step(p))
    ELSE EnoughOrDone(q, p, w, want, skip_first_couple(p, w.scored))
TryFor(q, p, w, want) == AfterPass(q, p, FirstPass(q, p, w, want), want)

TryHarder(p, w) ==
    IF w.near = <<>> THEN 1 ELSE IF skip_first_couple(p, w.scored).at = Len(w.scored) THEN 2 ELSE 0
AllScored(p, w, threshold) ==
    [near |-> w.near, scored |-> w.scored, threshold |-> threshold, harder |-> TryHarder(p, w)]
WithThreshold(q, p, found, threshold) ==
    AllScored(p, SecondPass(q, p, found.lists, found.want, threshold), threshold)
ScoredFrom(q, p, found) ==
    WithThreshold(q, p, found, IF found.last + p.span < W.max THEN W.max ELSE found.last + p.span)
score_list(q, p, w) ==
    IF w.near = <<>> THEN [near |-> <<>>, scored |-> w.scored, threshold |-> w.threshold, harder |-> 3]
    ELSE ScoredFrom(q, p, TryFor(q, p, [near |-> w.near, scored |-> w.scored], 2 * Step(p)))

-----------------------------------------------------------------------------
(* fine_tune_score: typing errors.                                         *)

Typo == [missing |-> 85, swap |-> 60, repl1 |-> 70, repl2 |-> 110, extra1 |-> 70, extra2 |-> 100]
to_normalized(w) == [i \in DOMAIN w |-> IF w[i] \in 1 .. LastLetter THEN w[i] ELSE LastLetter + 1]
Neighbours(a, b) == <<a, b>> \in KeyPairs \/ <<b, a>> \in KeyPairs
ReplCost(a, b)  == IF a = b THEN 0 ELSE IF Neighbours(a, b) THEN Typo.repl1 ELSE Typo.repl2
ExtraCost(a, b) == IF a = b \/ Neighbours(a, b) THEN Typo.extra1 ELSE Typo.extra2
typo_edit_distance(w, target) ==
    LET e[i \in 0 .. Len(w), j \in 0 .. Len(target)] ==
            CASE i = 0 -> j * Typo.missing
              [] j = 0 /\ i > 0 -> i * Typo.extra2
              [] i > 0 /\ j > 0 /\ w[i] = target[j] -> e[i - 1, j - 1]
              [] OTHER -> Min({e[i - 1, j - 1] + ReplCost(w[i], target[j]), e[i, j - 1] + Typo.missing}
                    \cup (IF i = 1 THEN {e[0, j] + Typo.extra2}
                          ELSE {e[i - 1, j] + ExtraCost(w[i - 1], target[j]),
                                e[i - 2, j - 1] + ExtraCost(w[i - 1], target[j]) + ReplCost(w[i], target[j])})
                    \cup (IF i = 1 \/ j = 1 THEN {}
                          ELSE {e[i - 2, j - 2] + Typo.swap + ReplCost(w[i], target[j - 1])
                                + ReplCost(w[i - 1], target[j])}))
    IN  e[Len(w), Len(target)]

\* The words under the threshold are scored anew, and stay in front of the others.
Retyped(q, p, c) ==
    [c EXCEPT !.score = weighted_average(p, c.ss, typo_edit_distance(to_normalized(c.word), to_normalized(q.word)))]
(* Mutant: the words that were over the threshold keep their scores.       *)
TunedOnly(scored, tuned, most) == Ranked(tuned \o SubSeq(scored, Len(tuned) + 1, Len(scored)))
Tuned(scored, tuned, most) ==
    Ranked(tuned \o [i \in 1 .. Len(scored) - Len(tuned) |->
                        LET c == scored[Len(tuned) + i]
                        IN  IF c.score <= most THEN [c EXCEPT !.score = most + 1] ELSE c])
TunedTo(w, tuned, most) == [w EXCEPT !.threshold = most, !.scored = Tuned(w.scored, tuned, most)]
Highest(s) == IF s = <<>> THEN 0 ELSE Max({s[i].score : i \in DOMAIN s})
TuneWith(w, tuned) == TunedTo(w, tuned, Highest(tuned))
fine_tune_score(q, p, w) ==
    IF ~p.typo THEN w
    ELSE TuneWith(w, [i \in 1 .. Cardinality({j \in DOMAIN w.scored : w.scored[j].score <= w.threshold}) |->
                         Retyped(q, p, w.scored[i])])

-----------------------------------------------------------------------------
(* transfer: each word once, and of the replacements those that are right. *)

Space == 21
AllRight(q, repl) ==
    IF Space \notin Range(repl) THEN Spelled(q, repl)
    ELSE LET at == Min({i \in DOMAIN repl : repl[i] = Space})
         IN  Spelled(q, SubSeq(repl, 1, at - 1)) /\ Spelled(q, SubSeq(repl, at + 1, Len(repl)))
Transferred(q, p, w) ==
    LET most == Cardinality({i \in DOMAIN w.scored :
                    i <= p.limit /\ \A j \in 1 .. i : w.scored[j].score <= w.threshold \/ j <= 3})
        offer(acc, v, right) ==
            [seen |-> acc.seen \cup {v},
             out |-> IF v \notin acc.seen /\ right THEN Append(acc.out, v) ELSE acc.out]
        next(acc, c) == IF c.repl = <<>> THEN offer(acc, c.word, TRUE)
                        ELSE FoldLeft(LAMBDA a, v : offer(a, v, AllRight(q, v)), acc, c.repl)
    IN  FoldLeft(next, [seen |-> {}, out |-> <<>>], SubSeq(w.scored, 1, most)).out

-----------------------------------------------------------------------------
(* get_suggestions.                                                        *)

\* The stages a mode goes through, unless one of them has found enough.
Stages(p) ==
    <<"split", "repl", "edit">>
    \o (IF p.scan1 THEN <<"scan1">> ELSE <<>>) \o (IF p.scan2 THEN <<"scan2">> ELSE <<>>)
    \o (IF p.ngram THEN <<"ngram">> ELSE <<>>) \o <<"tune", "transfer", "done">>
After(p, stage) == LET s == Stages(p) IN s[1 + CHOOSE i \in DOMAIN s : s[i] = stage]

Start == [stage |-> "split", near |-> <<>>, scored |-> <<>>, threshold |-> 1, harder |-> 3,
          untuned |-> [scored |-> <<>>, threshold |-> 1], final |-> <<>>]
SuggestOff  == query = [word |-> <<>>] /\ work = [Start EXCEPT !.stage = "off"]
SuggestInit == query \in Asked /\ work = Start

P == Parms(query)
Gather(misses) == work' = [work EXCEPT !.stage = After(P, work.stage), !.near = misses \o @]
\* After score_list: on with the next stage, unless enough has been found.
Goes(to, w) ==
    work' = [work EXCEPT !.stage = to, !.near = w.near, !.scored = w.scored,
                         !.threshold = w.threshold, !.harder = w.harder]
Scored(misses) == score_list(query, P, [work EXCEPT !.near = misses \o @])
Unless(enough(_), w) == Goes(IF enough(w.harder) THEN "tune" ELSE After(P, work.stage), w)

try_split == work.stage = "split" /\ Gather(Splits(query))
try_repl  == work.stage = "repl" /\ Gather(Repls(query))
try_one_edit_word ==
    /\ work.stage = "edit"
    /\ IF P.early THEN Unless(LAMBDA h : h <= 0, Scored(OneEdits(query))) ELSE Gather(OneEdits(query))
try_scan_1 == work.stage = "scan1" /\ Unless(LAMBDA h : h <= 0, Scored(Scan(query, 1)))
try_scan_2 == work.stage = "scan2" /\ Unless(LAMBDA h : h < P.harder, Scored(Scan(query, 2)))
try_ngram  ==
    /\ work.stage = "ngram"
    /\ Unless(LAMBDA h : FALSE,
              Scored(NGrams(query, {work.scored[i].sound : i \in DOMAIN work.scored})))
FineTune ==
    /\ work.stage = "tune"
    /\ LET w == fine_tune_score(query, P, work)
       IN  work' = [w EXCEPT !.stage = "transfer",
                             !.untuned = [scored |-> work.scored, threshold |-> work.threshold]]
Transfer ==
    /\ work.stage = "transfer"
    /\ work' = [work EXCEPT !.stage = "done", !.final = Transferred(query, P, work)]

SuggestNext ==
    /\ UNCHANGED query
    /\ \/ try_split \/ try_repl \/ try_one_edit_word \/ try_scan_1 \/ try_scan_2 \/ try_ngram
       \/ FineTune \/ Transfer
SuggestSpec == SuggestInit /\ [][SuggestNext]_suggvars

-----------------------------------------------------------------------------

Done == work.stage = "done"
Offers == Range(work.final)
Under(w) == {w.scored[i].word : i \in {j \in DOMAIN w.scored : w.scored[j].score <= w.threshold}}

(* Nothing is suggested that is not a word, two words, or a replacement    *)
(* that is right.  Where words are run together the parts come from the    *)
(* lists of misspellings as well, and more may be suggested than is right. *)
OnlyWords ==
    query.run = 0 =>
        \A v \in Offers : \/ Spelled(query, v)
                          \/ AllRight(query, v)
                          \/ \E i \in DOMAIN v : /\ v[i] \in Range(SplitChars)
                                                 /\ Spelled(query, SubSeq(v, 1, i - 1))
                                                 /\ Spelled(query, SubSeq(v, i + 1, Len(v)))

(* The score a word would have if nothing was cut short.                   *)
FullScore(v) ==
    LET ws == edit_distance(Clean(query.word), Clean(v))
        ss == IF query.soundslike THEN edit_distance(Sound(query, query.word), Sound(query, v)) ELSE ws
    IN  weighted_average(P, ss, ws)
(* A word that is one edit away is suggested if its score is within the    *)
(* threshold, whatever the passes left out.                                *)
NearIsOffered ==
    \A v \in Words(query) :
        v \in {EditsOf(Clean(query.word))[i][1] : i \in DOMAIN EditsOf(Clean(query.word))}
        /\ FullScore(v) <= work.untuned.threshold => v \in Offers
(* A word whose letters were never compared to the end would not have come *)
(* under the threshold.                                                    *)
LeftIsFar ==
    \A i \in DOMAIN work.near :
        work.near[i].ws >= LARGE_NUM => FullScore(work.near[i].word) > work.untuned.threshold

(* A scan finds every entry whose sound is near enough, in whichever list  *)
(* it stands and whatever was passed over before (data.hpp:142).  Only the *)
(* first group of a compiled list behind another can be missed: what       *)
(* try_scan still holds of the last sound of the list before, or of the    *)
(* one before that, lets it be passed over (suggest.cpp:695, 707).         *)
ScanFindsNear ==
    \A edits \in {1, 2} :
        LET found == {<<c.word, c.repl>> : c \in Range(Scan(query, edits))}
        IN  \A n \in DOMAIN query.lists :
                \A i \in DOMAIN query.lists[n] :
                    LET e == query.lists[n][i]
                        near == ScanDistance(edits, Sound(query, e.word), Sound(query, query.word)).score
                                    < LARGE_NUM
                        first == n > 1 /\ n \in query.compiled
                                 /\ Upto(2, Sound(query, e.word)) = Beginning(query, n).sound
                    IN  near /\ ~first => <<e.word, e.repl>> \in found

(* The analysis of typing errors changes the order and nothing else.       *)
TuningKeeps == Under(work) = Under(work.untuned)

SuggestionsSound == Done => OnlyWords /\ NearIsOffered /\ LeftIsFar /\ ScanFindsNear /\ TuningKeeps
=============================================================================
