------------------------------ MODULE MCAspell ------------------------------
(* The speller's parts that keep state: a personal dictionary shared by    *)
(* processes, the configuration, the search for suggestions, the filters   *)
(* of a document, the pipe and the interactive check; and the edit         *)
(* distances the search rests on.  One starts, the others are off.         *)
EXTENDS Writable, Config, Suggest, Filters, Checker

(* Writable: words that differ in their capitals only, and replacements,   *)
(* one of them with two words for a misspelling of two words.  A build     *)
(* without locks is checked for word lists only.                           *)
MCEntry   == {<<<<"foo">>, <<>>>>, <<<<"Foo">>, <<>>>>, <<<<"a", "lot">>, <<"alot">>>>,
              <<<<"teh">>, <<"to", "he">>>>}
MCAccepts == {<<<<"Foo">>, <<"foo">>>>}
MCInvalid == {<<"b4d">>}
Users     == Permutations(Proc)

(* Config: every kind of key set, reset and edited, in every source.       *)
Op(k, a, v) == [key |-> k, action |-> a, value |-> v]
MCOps == {Op("mode", "Set", <<>>), Op("mode", "Set", <<"maybe">>), Op("mode", "Reset", <<>>),
          Op("limit", "Set", <<"9">>), Op("lang", "Set", <<"fr">>), Op("lang", "Set", <<"xx">>), Op("lang", "ListAdd", <<"it">>),
          Op("dicts", "ListAdd", <<"x">>), Op("dicts", "ListRemove", <<"main">>),
          Op("dicts", "ListSet", <<"y", "x">>), Op("dicts", "Set", <<"z">>),
          Op("dicts", "Reset", <<>>), Op("dicts", "ListClear", <<>>),
          Op("filter", "ListClear", <<>>)}
FileA == <<Op("lang", "Set", <<"de">>), Op("dicts", "ListAdd", <<"w">>)>>
FileB == <<Op("mode", "Disable", <<>>), Op("dicts", "ListClear", <<>>)>>
FileC == <<Op("mode", "Enable", <<>>), Op("lang", "Reset", <<>>), Op("dicts", "ListRemove", <<"w">>)>>
MCSources == {[env |-> FileA, per |-> FileB, conf |-> FileC], [env |-> FileC, per |-> FileA, conf |-> FileB],
              [env |-> FileB, per |-> FileC, conf |-> FileA], [env |-> <<>>, per |-> <<>>, conf |-> <<>>]}
MCLangOps == <<Op("mode", "Set", <<"false">>), Op("dicts", "ListAdd", <<"v">>)>>

(* Suggest: three letters, words of one to six of them, so many that not   *)
(* all come within the threshold, and a list of misspellings.              *)
Word(w)      == [word |-> w, repl |-> <<>>]
Missp(w, r)  == [word |-> w, repl |-> r]
Short == <<Word(<<1, 2>>), Word(<<1, 2, 3>>), Word(<<3, 2, 1>>), Word(<<2, 2, 3, 1>>), Word(<<3, 3>>),
           Word(<<1, 1, 2, 2>>), Word(<<2, 3, 2, 3, 1>>), Word(<<1, 3>>)>>
Wrong == <<Missp(<<1, 2, 1>>, <<<<1, 2, 3>>, <<3, 1, 1>>, <<1, 2, 21, 3, 3>>>>)>>
Far   == <<Word(<<1, 2, 1, 2>>), Word(<<3, 1, 3, 1>>), Word(<<2, 2, 2, 2>>), Word(<<1, 3, 3, 1>>),
           Word(<<2, 1, 2, 3>>), Word(<<3, 2, 2, 1, 1>>)>>
Full  == Short \o Far \o [i \in 1 .. 4 |-> Word(<<1 + (i % 3), 2, 1 + (i \div 2), 3, 1>>)]
         \o [i \in 1 .. 4 |-> Word(<<3, 1, 1 + (i \div 2), 1 + (i % 2), 2, 3>>)]
Ask(w, l, m, s, t, r) == [word |-> w, lists |-> l, compiled |-> {n \in DOMAIN l : l[n] # Wrong}, mode |-> m, soundslike |-> s, typo |-> t, run |-> r]
MCAsked ==
    {Ask(w, l, m, s, t, 0) :
        w \in {<<1, 3, 2>>, <<2>>, <<1, 2, 2, 1, 3>>, <<2, 2, 1, 3, 1, 3>>, <<1, 1, 3, 1>>, <<1, 1, 1, 1, 1>>},
        l \in {<<Short, Wrong>>, <<Far>>, <<Full, Wrong>>, <<Far, Short, Wrong>>},
        m \in {"ultra", "normal", "slow", "bad-spellers"}, s \in BOOLEAN, t \in BOOLEAN}
    \cup {Ask(w, <<Short, Wrong>>, m, s, FALSE, r) :
        w \in {v \in [1 .. 4 -> 1 .. 3] : v[1] = 1 /\ v[4] # 3},
        m \in {"normal", "bad-spellers"}, s \in BOOLEAN, r \in {0, 3}}
MCReplTable  == <<<<<<2>>, <<3, 1>>>>, <<<<1, 1>>, <<2>>>>>>
MCSlFirst    == <<1, 2, 3>>
MCSlRest     == <<0, 2, 2>>
MCKeyPairs   == {<<1, 2>>}
MCSplitChars == <<21, 22>>

(* Distances: every two words of two letters, and of three letters with    *)
(* three.                                                                  *)
MCStrings == UNION {[1 .. n -> 1 .. 2] : n \in 0 .. 4} \cup [1 .. 3 -> 1 .. 3]

(* Filters: for each mode complete constructs of its kind of document,     *)
(* with the words each shows.                                              *)
MCModes == [url |-> {"url"}, email |-> {"url", "email"}, nroff |-> {"url", "nroff"},
            tex |-> {"url", "tex"}, sgml |-> {"url", "sgml", "decoder"},
            texinfo |-> {"url", "texinfo"}, ccpp |-> {"url", "context"}]
MCNumbered(digits) == IF digits = <<"1">> THEN "x" ELSE "?"
Shows(text, words) == [text |-> text, words |-> words]
Hides(text) == Shows(text, <<>>)
PlainText == Shows(<<"a", "b", "\n">>, <<<<"a", "b">>>>)
MCConstructs == [
    url |-> {PlainText, Shows(<<"~", "a", "'", "b", "-", "x", "y", " ">>, <<<<"a", "'", "b">>, <<"x", "y">>>>),
             Shows(<<"a", "b", ".", "a", "b", " ">>, <<<<"a", "b">>, <<"a", "b">>>>),
             Shows(<<"a", "b", ".", ".", ".", "x", "y", "\n">>, <<<<"a", "b">>, <<"x", "y">>>>),
             Hides(<<"x", ":", "/", "/", "a", " ">>), Hides(<<"a", "@", "b", "\n">>),
             Hides(<<"x", ".", "y", ".", "a", " ">>), Hides(<<"x", "y", ".", "a", "/", "b", " ">>)},
    email |-> {PlainText, Hides(<<">", " ", "a", "b", "\n">>), Hides(<<" ", ">", "a", "b", "\n">>),
               Shows(<<"a", "b", " ", ">", "x", "\n">>, <<<<"a", "b">>, <<"x">>>>),
               Shows(<<" ", " ", " ", ">", "x", "y", "\n">>, <<<<"x", "y">>>>),
               Hides(<<">", "x", "@", "y", "\n">>), Shows(<<"\n">>, <<>>)},
    nroff |-> {PlainText, Shows(<<".", "S", "H", " ", "a", "b", "\n">>, <<<<"a", "b">>>>),
               Hides(<<".", "d", "s", " ", "a", "b", "\n">>),
               Shows(<<".", "i", "f", " ", "t", " ", ".", "S", "H", " ", "x", "\n">>, <<<<"x">>>>),
               Shows(<<"a", "\\", "f", "S", "b", "b", "\\", "f", "(", "S", "H", "a", "\n">>,
                     <<<<"a">>, <<"b", "b">>, <<"a">>>>),
               Shows(<<"\\", "s", "+", "1", "a", "\\", "(", "d", "e", "b", " ", "x", ".", "y", "\n">>,
                     <<<<"a">>, <<"b">>, <<"x">>, <<"y">>>>),
               Shows(<<"\\", "[", "d", "]", "a", "\\", "*", "[", "d", "]", "b", "\\", "n", "(", "d", "s", "\n">>,
                     <<<<"a">>, <<"b">>>>),
               Shows(<<"\\", "$", "1", "a", "\\", "\"", "b", "\n">>, <<<<"a">>, <<"b">>>>)},
    tex |-> {PlainText, Hides(<<"%", "a", "b", "\n">>), Shows(<<"{", "a", "b", "}", " ">>, <<<<"a", "b">>>>),
             Hides(<<"\\", "c", "{", "a", "b", "}", "\n">>),
             Shows(<<"\\", "e", "{", "a", "b", "}", "x", "\n">>, <<<<"a", "b">>, <<"x">>>>),
             Shows(<<"\\", "o", "[", "a", "]", "{", "a", "\\", "e", "{", "b", "}", "}", "\n">>, <<<<"b">>>>),
             Hides(<<"\\", "o", "{", "b", "}", "\n">>),
             Shows(<<"\\", "v", "*", "[", "a", "]", "{", "b", "}", "x", "\n">>, <<<<"a">>, <<"x">>>>),
             Shows(<<"\\", "u", " ", "a", "b", "\n">>, <<<<"a", "b">>>>),
             Shows(<<"\\", "%", "a", "b", "\n">>, <<<<"a", "b">>>>)},
    sgml |-> {PlainText, Shows(<<"<", "b", ">", "a", "b", "<", "/", "b", ">", " ">>, <<<<"a", "b">>>>),
              Hides(<<"<", "s", " ", "x", "=", "1", ">", "a", "<", "b", ">", "<", "s", ">", "b", "<", "/", "s",
                      ">", "x", "<", "/", "s", ">", " ">>),
              Shows(<<"<", "s", "/", ">", "x", "\n">>, <<<<"x">>>>),
              Shows(<<"<", "b", " ", "a", "=", "\"", "x", "&", "#", "1", ";", "y", "\"", " ", "c", "=", "b", ">">>,
                    <<<<"x", "x", "y">>>>),
              Shows(<<"<", "b", " ", "c", " ", "a", " ", "=", " ", "x", "y", ">">>, <<<<"x", "y">>>>),
              Hides(<<"<", "!", "-", "-", "a", "<", "b", ">", "-", "-", ">">>),
              Hides(<<"<", "!", "a", " ", "'", "x", "'", " ", "b", ">">>),
              Shows(<<"a", "&", "b", ";", "x", "&", "#", "1", ";", " ">>, <<<<"a">>, <<"x">>>>)},
    texinfo |-> {PlainText, Shows(<<"@", "b", "{", "a", "b", "}", "\n">>, <<<<"a", "b">>>>),
                 Shows(<<"@", "c", "{", "@", "b", "{", "a", "}", "}", "x", "\n">>, <<<<"x">>>>),
                 Shows(<<"@", "c", " ", "a", "b", "\n", "x", "\n">>, <<<<"x">>>>),
                 Shows(<<"@", "@", "a", "b", "{", "x", "}", "\n">>, <<<<"a", "b">>, <<"x">>>>),
                 Shows(<<"@", "ign", "\n", "a", "\n", "@", "b", "{", "x", "}", "\n", "@", "end", " ", "b", "\n", "a", "\n",
                         "@", "end", " ", "ign", "\n", "x", "\n">>, <<<<"x">>>>),
                 Shows(<<"@", "table", " ", "@", "c", "\n", "@", "item", " ", "a", "\n", "b", "\n",
                         "@", "end", " ", "table", "\n", "@", "item", " ", "x", "\n">>, <<<<"b">>, <<"x">>>>),
                 Hides(<<"@", "c", " ", "a", "{", "b", "\n">>),
                 Hides(InputCommand \o <<" ", "a", "b", "\n">>), Hides(Append(InputCommand, "\n")),
                 Hides(InputCommand)},
    ccpp |-> {Hides(<<"a", "b", "\n">>), Shows(<<"a", "\"", "x", "y", "\"", "b", "\n">>, <<<<"x", "y">>>>),
              Shows(<<"/", "*", "a", "b", "*", "/", "x", "\n">>, <<<<"a", "b">>>>),
              Shows(<<"/", "*", "a", "\n", "\"", "b", "*", "/", "\n">>, <<<<"a">>, <<"b">>>>),
              Shows(<<"\"", "a", "\\", "\"", "b", "\"", "x", "\n">>, <<<<"a">>, <<"b">>>>),
              Shows(<<"/", "/", "a", " ", "x", "y", "\n">>, <<<<"a">>, <<"x", "y">>>>)}]
MCTexCommands == (<<"c">> :> <<"p">>) @@ (<<"e">> :> <<"P">>) @@ (<<"o">> :> <<"o", "p">>)
                 @@ (<<"v">> :> <<"O", "p">>) @@ (<<"u">> :> <<>>)
MCDelimiters == <<[open |-> <<"\"">>, close |-> <<"\"">>],
                  [open |-> <<"/", "*">>, close |-> <<"*", "/">>], [open |-> <<"/", "/">>, close |-> <<>>]>>
MCSkipTags == {<<"s">>}
MCChecked  == {<<"a">>}
MCIgnored  == {<<"c">>}
MCIgnoredEnv == {<<"ign">>}

(* Speller and Checker: two words that are wrong, one of them with a       *)
(* suggestion, the capitals of one, corrections of two words, and files of *)
(* up to four lines, twice the ring.                                       *)
MCMainWords == {<<2, 2>>, <<1, 2, 2>>, <<2, 1, 1>>}
MCSuggested == (<<1, 1>> :> <<<<2, 2>>>>) @@ (<<1, 3>> :> <<>>)
MCTextFiles ==
    {<<<<1, 1, Blank, 1, 3, Newline>>, <<2, 2, Newline>>, <<Newline>>, <<11, 1>>>>,
     <<<<1, 1, Newline>>, <<2, 2, Blank, 1, 1>>>>, <<<<1, 1, Newline>>, <<2, 2, Newline>>>>, <<>>}
MCTyped == {<<3, 3, 3>>, <<2, 2, Blank, 1, 1>>}
MCSettings == [ignoreRepl |-> {TRUE}, run |-> {TRUE}, limit |-> {9}, suggest |-> {FALSE}]
MCCommands ==
    {Command("*", <<1, 3>>, <<>>), Command("&", <<13, 1>>, <<>>), Command("@", <<1, 1>>, <<>>),
     Command("#", <<>>, <<>>), Command("!", <<>>, <<>>), Command("%", <<>>, <<>>)}
    \cup {Command("$$ra", m, c) : m \in {<<11, 1>>, <<1, 3>>, <<3, 1>>},
                                  c \in {<<1, 3>>, <<3, 1>>, <<2, 2>>, <<2, 1, 1, Blank, Blank, 2, 2>>, <<Blank>>}}
    \cup {Command("check", l, <<>>) : l \in {<<Caret, 1, 1, Blank, 2, 2>>, <<Dollar, 1, 3, Blank, 3, 1>>,
                                           <<2, 2, 1, 2, 2, Blank, 12, 2>>, <<Blank, 2, 2, 3, 3, Blank, 3>>}}

AspellInit ==
    \/ DictInit /\ (locks \/ (kind = "words" /\ compat = NoFile)) /\ ConfigOff /\ SuggestOff /\ DistOff /\ FiltersOff /\ SpellerOff /\ CheckOff
    \/ DictOff /\ ConfigInit /\ SuggestOff /\ DistOff /\ FiltersOff /\ SpellerOff /\ CheckOff
    \/ DictOff /\ ConfigOff /\ SuggestInit /\ DistOff /\ FiltersOff /\ SpellerOff /\ CheckOff
    \/ DictOff /\ ConfigOff /\ SuggestOff /\ DistInit /\ FiltersOff /\ SpellerOff /\ CheckOff
    \/ DictOff /\ ConfigOff /\ SuggestOff /\ DistOff /\ FilterInit /\ SpellerOff /\ CheckOff
    \/ DictOff /\ ConfigOff /\ SuggestOff /\ DistOff /\ FiltersOff /\ SpellerInit /\ CheckOff
    \/ DictOff /\ ConfigOff /\ SuggestOff /\ DistOff /\ FiltersOff /\ SpellerOff /\ CheckInit
AspellNext ==
    \/ kind # "off" /\ DictNext /\ UNCHANGED <<configvars, suggvars, distvars, filtervars, spellervars, checkvars>>
    \/ ConfigNext /\ UNCHANGED <<dictvars, suggvars, distvars, filtervars, spellervars, checkvars>>
    \/ SuggestNext /\ UNCHANGED <<dictvars, configvars, distvars, filtervars, spellervars, checkvars>>
    \/ DistNext /\ UNCHANGED <<dictvars, configvars, suggvars, filtervars, spellervars, checkvars>>
    \/ FilterNext /\ UNCHANGED <<dictvars, configvars, suggvars, distvars, spellervars, checkvars>>
    \/ SpellerNext /\ UNCHANGED <<dictvars, configvars, suggvars, distvars, filtervars, checkvars>>
    \/ CheckNext /\ UNCHANGED <<dictvars, configvars, suggvars, distvars, filtervars>>
AspellSpec ==
    AspellInit /\ [][AspellNext]_<<dictvars, configvars, suggvars, distvars, filtervars, spellervars, checkvars>>
=============================================================================
