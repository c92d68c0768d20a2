------------------------------ MODULE Speller ------------------------------
(* A speller with its word lists (modules/speller/default/                 *)
(* speller_impl.cpp) under the commands of "aspell pipe" (prog/aspell.cpp),*)
(* which another program sends line by line.  The personal lists are on    *)
(* disk and are read again when the next pipe is started; how they are     *)
(* shared with other processes is Writable's part.                         *)
EXTENDS WordCheck, SequencesExt

CONSTANTS
    MainWords,      \* the main dictionary
    Suggested,      \* function: a misspelling to the words suggested for it
    Commands,       \* the lines that are sent: see Command
    Settings,       \* function: an option to the values it is set to with "$$cs"
    MaxCommands     \* bound: commands in all

ASSUME SpellerAssumption ==
    \A c \in Commands : c.do = "check" => c.a \in Seq(Nat)

VARIABLES
    options,    \* [ignore, ignoreRepl, run, limit, saveRepl, suggest, guess, verbose]
    personal, session,      \* words
    repl,       \* pairs of a misspelling and what it was meant for
    memory,     \* [mis, cor]: prev_mis_repl_, prev_cor_repl_
    disk,       \* [personal, repl]: the files
    answers,    \* to the last line that was checked: [kind, word, offset]
    lineSent,   \* that line
    stores,     \* history: the replacements stored since the start: [mis, cor, right]
    sent        \* how many commands

spellervars == <<options, personal, session, repl, memory, disk, answers, lineSent, stores, sent>>

Blank == 20
IsText(c) == IsLetter(c)
Known == MainWords \cup personal \cup session

CheckedAs(w) == check[Known, options.ignore, w, FALSE, IF options.run THEN options.limit ELSE 0]
IsAccepted(w) == CheckedAs(w).ok
check_affix(w) == check_simple(Known, options.ignore, w) # Nil

-----------------------------------------------------------------------------
(* store_replacement                                                       *)

\* A correction of two words is cut at its first spaces.
FirstPart(cor) == SelectInSeq(cor, LAMBDA c : c = Blank) - 1
CutAt(cor, n) ==
    IF n < 0 THEN <<cor>>
    ELSE LET rest == SubSeq(cor, n + 1, Len(cor))
             from == SelectInSeq(rest, LAMBDA c : c # Blank)
         IN  <<SubSeq(cor, 1, n), IF from = 0 THEN <<>> ELSE SubSeq(rest, from, Len(rest))>>
PartsOf(cor) == CutAt(cor, FirstPart(cor))
Joined(parts) == IF Len(parts) = 1 \/ parts[2] = <<>> THEN parts[1] ELSE parts[1] \o <<Blank>> \o parts[2]
IsRight(cor) == \A i \in DOMAIN PartsOf(cor) : check_affix(PartsOf(cor)[i])
FirstSuggested(mis) == IF mis \in DOMAIN Suggested /\ Suggested[mis] # <<>> THEN Suggested[mis][1] ELSE Nil

\* The pair a right correction leaves behind: none where it is the first
\* suggestion anyway.
PairFor(mis, cor) ==
    IF Joined(PartsOf(cor)) = <<>> \/ cor = FirstSuggested(mis) THEN {}
    ELSE {<<LowerOf(mis), Joined(PartsOf(cor))>>}

(* Mutant: the misspelling that started a chain is forgotten.              *)
MemoryAfterLast(m, mis, cor) == [mis |-> mis, cor |-> cor]
MemoryAfter(m, mis, cor) == [mis |-> IF m.cor = mis THEN m.mis ELSE mis, cor |-> cor]

store_replacement(mis, cor) ==
    /\ stores' = IF options.ignoreRepl THEN stores
                 ELSE Append(stores, [mis |-> mis, cor |-> cor, right |-> IsRight(cor)])
    /\ IF options.ignoreRepl THEN UNCHANGED <<repl, memory>>
       ELSE IF IsRight(cor)
       THEN /\ repl' = repl \cup PairFor(mis, cor)
                            \cup (IF memory.cor = mis /\ Joined(PartsOf(cor)) # <<>>
                                  THEN PairFor(memory.mis, cor) ELSE {})
            /\ UNCHANGED memory
       ELSE memory' = MemoryAfter(memory, mis, cor) /\ UNCHANGED repl

-----------------------------------------------------------------------------
(* The lists                                                               *)
Lists == <<personal, session, repl, memory, stores>>
add_to_personal(w) == personal' = personal \cup {w} /\ UNCHANGED <<options, session, repl, memory, disk, stores>>
add_to_session(w)  == session' = session \cup {w} /\ UNCHANGED <<options, personal, repl, memory, disk, stores>>
save_all_word_lists ==
    /\ disk' = [personal |-> personal, repl |-> IF options.saveRepl THEN repl ELSE disk.repl]
    /\ UNCHANGED <<options, Lists>>

-----------------------------------------------------------------------------
(* The pipe                                                                *)
Command(do, a, b) == [do |-> do, a |-> a, b |-> b]

\* What a line is checked as: '^', or a '$' that starts no command, is left
\* out.
Caret == 31
Dollar == 32
Ignored(line) == IF line # <<>> /\ line[1] \in {Caret, Dollar} THEN 1 ELSE 0
WordStarts(text, i) == IsText(text[i]) /\ (i = 1 \/ ~IsText(text[i - 1]))
WordEnd(text, i) == Min({j \in i .. Len(text) + 1 : j > Len(text) \/ ~IsText(text[j])}) - 1
\* The members of S among 1 .. n, from the least (SelectSeq over 1 .. n, as a
\* function that can be reasoned about).
InOrder(S, n) ==
    LET upTo[i \in 0 .. n] ==
            IF i = 0 THEN <<>> ELSE IF i \in S THEN Append(upTo[i - 1], i) ELSE upTo[i - 1]
    IN  upTo[n]
TokensOf(text) ==
    LET starts == InOrder({i \in DOMAIN text : WordStarts(text, i)}, Len(text))
    IN  [k \in DOMAIN starts |->
            [offset |-> starts[k] - 1, word |-> SubSeq(text, starts[k], WordEnd(text, starts[k]))]]

\* status_fun says what a right word was found as; a wrong one gets its
\* suggestions, or the guess that the check has left behind.
AnswerTo(t, ignored) ==
    LET r == CheckedAs(t.word)
        sugs == t.word \in DOMAIN Suggested /\ Suggested[t.word] # <<>>
        kind == IF r.ok THEN (IF Len(r.parts) > 1 THEN "-" ELSE "*")
                ELSE IF options.suggest /\ sugs THEN "&"
                ELSE IF r.parts # <<>> THEN "?" ELSE "#"
    IN  [kind |-> kind, word |-> t.word, offset |-> t.offset + ignored]
IsSpoken(answer) == options.verbose \/ answer.kind \notin {"*", "-"}

AnswersTo(line) ==
    LET tokens == TokensOf(SubSeq(line, Ignored(line) + 1, Len(line)))
        answer(k) == AnswerTo(tokens[k], Ignored(line))
        spoken == InOrder({k \in DOMAIN tokens : IsSpoken(answer(k))}, Len(tokens))
    IN  [k \in DOMAIN spoken |-> answer(spoken[k])]

CheckLine(line) ==
    /\ answers' = AnswersTo(line) /\ lineSent' = line
    /\ UNCHANGED <<options, Lists, disk>>

\* "$$cs": of the options that are told to the speller; a limit over eight
\* is set to eight.
SetOption(name, value) ==
    /\ options' = [options EXCEPT ![name] = IF name = "limit" THEN Min({value, 8}) ELSE value]
    /\ UNCHANGED <<Lists, disk>>

Quiet == UNCHANGED <<answers, lineSent>>
Obey(c) ==
    \/ c.do = "*" /\ add_to_personal(c.a) /\ Quiet
    \/ c.do = "&" /\ add_to_personal(LowerOf(c.a)) /\ Quiet
    \/ c.do = "@" /\ add_to_session(c.a) /\ Quiet
    \/ c.do = "#" /\ save_all_word_lists /\ Quiet
    \/ c.do = "$$ra" /\ store_replacement(c.a, c.b) /\ UNCHANGED <<options, personal, session, disk>> /\ Quiet
    \/ c.do = "!" /\ SetOption("verbose", FALSE) /\ answers' = <<>> /\ lineSent' = <<>>
    \/ c.do = "%" /\ SetOption("verbose", TRUE) /\ answers' = <<>> /\ lineSent' = <<>>
    \/ c.do = "check" /\ CheckLine(c.a)

SpellerObeys ==
    /\ sent < MaxCommands /\ sent' = sent + 1
    /\ \/ \E c \in Commands : Obey(c)
       \/ \E name \in DOMAIN Settings : \E value \in Settings[name] :
             SetOption(name, value) /\ answers' = <<>> /\ lineSent' = <<>>

\* The pipe ends without saving; the next one reads the files.
Defaults == [ignore |-> 1, ignoreRepl |-> FALSE, run |-> FALSE, limit |-> 8, saveRepl |-> TRUE,
             suggest |-> TRUE, guess |-> FALSE, verbose |-> TRUE]
StartAgain ==
    /\ sent < MaxCommands /\ sent' = sent + 1
    /\ options' = Defaults /\ personal' = disk.personal /\ repl' = disk.repl /\ session' = {}
    /\ memory' = [mis |-> <<>>, cor |-> <<>>] /\ stores' = <<>>
    /\ answers' = <<>> /\ lineSent' = <<>>
    /\ UNCHANGED disk

SpellerInit ==
    /\ options = Defaults /\ personal = {} /\ session = {} /\ repl = {}
    /\ memory = [mis |-> <<>>, cor |-> <<>>] /\ disk = [personal |-> {}, repl |-> {}]
    /\ answers = <<>> /\ lineSent = <<>> /\ stores = <<>> /\ sent = 0
SpellerNext == SpellerObeys \/ StartAgain
SpellerOff ==
    /\ options = Defaults /\ personal = {} /\ session = {} /\ repl = {}
    /\ memory = [mis |-> <<>>, cor |-> <<>>] /\ disk = [personal |-> {}, repl |-> {}]
    /\ answers = <<>> /\ lineSent = <<>> /\ stores = <<>> /\ sent = MaxCommands

-----------------------------------------------------------------------------
\* The memory of replacements (manual/aspell.texi, "Notes on Storing
\* Replacement Pairs"): where a misspelling was replaced by another, that
\* one perhaps by a third, and the last by a right word, the first and the
\* last misspelling are both stored with that word, whatever other commands
\* and right replacements came in between - unless it is what is suggested
\* for them first.
LastWrong(n) == Max({0} \cup {j \in 1 .. n - 1 : ~stores[j].right})
Follows(n) == LastWrong(n) # 0 /\ stores[LastWrong(n)].cor = stores[n].mis
MemoryKept ==
    \A i, k \in DOMAIN stores :
        (/\ i < k /\ ~stores[i].right /\ stores[k].right
         /\ ~Follows(i) /\ \A j \in i + 1 .. k : (stores[j].right /\ j # k) \/ Follows(j))
        => PairFor(stores[i].mis, stores[k].cor) \cup PairFor(stores[k].mis, stores[k].cor) \subseteq repl

\* The program at the other end finds every word that is answered at the
\* place it is told in the line it has sent, gets the answers in the order
\* of the words, one for each wrong word, and in verbose mode one for each
\* word at all.
AnswersInPlace ==
    LET places == {i \in DOMAIN lineSent : IsText(lineSent[i]) /\ (i = 1 \/ ~IsText(lineSent[i - 1]))}
    IN  /\ \A k \in DOMAIN answers :
               /\ answers[k].word = SubSeq(lineSent, answers[k].offset + 1, answers[k].offset + Len(answers[k].word))
               /\ k = 1 \/ answers[k - 1].offset < answers[k].offset
        /\ options.verbose => Len(answers) = Cardinality(places)

PipeKeepsFaith == MemoryKept /\ AnswersInPlace
=============================================================================
