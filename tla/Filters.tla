------------------------------ MODULE Filters ------------------------------
(* What aspell reads a document through: a chain of filters that blanks    *)
(* what is not text (common/filter.cpp, modules/filter), and the tokenizer *)
(* that finds the words in what is left (modules/tokenizer/basic.cpp,      *)
(* common/document_checker.cpp).  A filter keeps a state from one piece of *)
(* the document to the next, until it is reset for a new document.  A      *)
(* symbol stands for a character, or for a name whose letters are not told *)
(* apart.                                                                  *)
EXTENDS Naturals, Sequences, FiniteSets, SequencesExt, TLC

CONSTANTS
    TextLetters,        \* symbols that are letters
    Digits,
    BeginChars, MiddleChars, EndChars,  \* the language's special characters
    Modes,          \* function: a mode to the filters it adds, in any order
    Constructs,     \* function: a mode to complete constructs [text, words]
    Margin,         \* f-email-margin
    QuoteMarks,     \* f-email-quote
    Delimiters,     \* f-context-delimiters: sequence of [open, close]
    VisibleFirst,   \* f-context-visible-first
    TexCommands,    \* f-tex-command: function from names to check strings
    CheckComments,  \* f-tex-check-comments
    SkipTags, CheckAttribs,     \* f-sgml-skip, f-sgml-check
    TexinfoIgnore, TexinfoIgnoreEnv,
    NumberedChar(_),    \* the character of a number
    MaxConstructs,      \* bound: constructs of a document
    MaxPieces           \* bound: pieces it is given in

VARIABLES
    filtering,  \* the mode, or "off"
    chain,      \* the filters, in the order they are applied
    states,     \* function from the filters of the chain to their states
    document,   \* the constructs fed since the last reset, the last one perhaps in part
    ends,       \* the places in the document where a piece has ended
    endBefore,  \* history: the last document ended behind "@end"
    found,      \* the words handed to the speller since then
    chunk       \* the last piece: [text, tokens]

filtervars == <<filtering, chain, states, document, ends, endBefore, found, chunk>>

IsAlpha(c) == c \in TextLetters
IsAlnum(c) == c \in TextLetters \cup Digits
IsSpace(c) == c \in {" ", "\n"}

\* A character and how many characters of the document it stands for.
Cells(text) == [i \in DOMAIN text |-> [c |-> text[i], width |-> 1]]
BlankAt(cells, places) == [i \in DOMAIN cells |-> IF i \in places THEN [cells[i] EXCEPT !.c = " "] ELSE cells[i]]

\* The filters that go one character at a time: Step gives the state after
\* a character and whether it is hidden.
Passed(Step(_, _), s0, cells) ==
    LET Put(acc, cell) ==
            LET r == Step(acc.state, cell.c)
            IN  [cells |-> Append(acc.cells, IF r.hide THEN [cell EXCEPT !.c = " "] ELSE cell),
                 state |-> r.state]
    IN  FoldLeft(Put, [state |-> s0, cells |-> <<>>], cells)
Hide(s) == [state |-> s, hide |-> TRUE]
Show(s) == [state |-> s, hide |-> FALSE]
HideIf(b, s) == [state |-> s, hide |-> b]

-----------------------------------------------------------------------------
(* url.cpp *)
UrlChar(c) == c \notin {"\"", " ", "\n"}

\* The last place of the word that begins at i; a word of one character
\* takes the next character, and what follows that, along.
UrlLast(cells, i) ==
    CHOOSE p \in i + 1 .. Len(cells) + 1 :
        /\ p >= Len(cells) \/ ~UrlChar(cells[p + 1].c)
        /\ \A q \in i + 1 .. p - 1 : q < Len(cells) /\ UrlChar(cells[q + 1].c)

LooksLikeUrl(cells, i, last) ==
    LET At(k) == cells[k].c
        Point(k) == At(k) = "." /\ At(k + 1) # "."
        PointBefore(k) == \E j \in i + 1 .. k - 1 : Point(j)
    IN  \E k \in i + 1 .. last - 1 :
            \/ At(k) = "@"
            \/ At(k) = "/" /\ (At(k + 1) = "/" \/ PointBefore(k))
            \/ Point(k) /\ PointBefore(k)

RECURSIVE UrlPlaces(_, _)
UrlPlaces(cells, i) ==
    IF i > Len(cells) THEN {}
    ELSE IF ~UrlChar(cells[i].c) THEN UrlPlaces(cells, i + 1)
    ELSE LET last == UrlLast(cells, i)
         IN  (IF LooksLikeUrl(cells, i, last) THEN i .. last ELSE {}) \cup UrlPlaces(cells, last + 2)

UrlProcess(s, cells) == [state |-> s, cells |-> BlankAt(cells, UrlPlaces(cells, 1))]

-----------------------------------------------------------------------------
(* email.cpp *)
EmailReset == [newline |-> TRUE, quote |-> FALSE, n |-> 0]

\* acc.begin: where the line begins; the newline before it counts as its
\* first character once a line has ended in this piece.
EmailChar(acc, c) ==
    LET s == acc.state
        quote == s.quote \/ (s.newline /\ c \in QuoteMarks)
        place == acc.place + 1
    IN  IF c = "\n"
        THEN [state |-> EmailReset, place |-> place, begin |-> place,
              blank |-> acc.blank \cup (IF quote THEN acc.begin .. place - 1 ELSE {})]
        ELSE [acc EXCEPT !.place = place,
                         !.state = IF s.n < Margin THEN [s EXCEPT !.n = @ + 1, !.quote = quote]
                                   ELSE [s EXCEPT !.newline = FALSE, !.quote = quote]]
EmailProcess(s, cells) ==
    LET Put(acc, cell) == EmailChar(acc, cell.c)
        done == FoldLeft(Put, [state |-> s, place |-> 0, begin |-> 1, blank |-> {}], cells)
        rest == IF done.state.quote THEN done.begin .. Len(cells) ELSE {}
    IN  [state |-> done.state, cells |-> BlankAt(cells, done.blank \cup rest)]

-----------------------------------------------------------------------------
(* context.cpp *)
\* correspond: which pair is open, 0 for none.  With visible-first the
\* delimiters change places.
ContextSetup ==
    LET swapped == [i \in DOMAIN Delimiters |-> [open |-> Delimiters[i].close, close |-> Delimiters[i].open]]
    IN  [pairs |-> IF VisibleFirst THEN swapped ELSE Delimiters, visible |-> VisibleFirst, correspond |-> 0]
ContextReset(s) == [s EXCEPT !.pairs = <<>>, !.visible = FALSE]

\* A delimiter has to be followed by a character of the same piece.
DelimiterAt(cells, i, d) ==
    d # <<>> /\ i + Len(d) <= Len(cells) /\ \A k \in DOMAIN d : cells[i + k - 1].c = d[k]

ClosingAt(s, cells, i) ==
    LET fits == {k \in DOMAIN s.pairs : DelimiterAt(cells, i, s.pairs[k].close)}
    IN  IF s.correspond # 0 THEN fits \cap {s.correspond} ELSE fits
OpeningAt(s, cells, i) ==
    LET fits == {k \in DOMAIN s.pairs : DelimiterAt(cells, i, s.pairs[k].open)}
    IN  IF fits = {} THEN 0 ELSE CHOOSE k \in fits : \A l \in fits : k <= l

\* begin: from where the text is blind, beyond the end when it is visible;
\* masked: an odd number of backslashes has just been seen.
RECURSIVE ContextFrom(_, _, _, _, _)
ContextFrom(s, cells, i, begin, masked) ==
    LET blind == {k \in begin .. Len(cells) : ~IsSpace(cells[k].c)}
        line == s.correspond # 0 /\ s.pairs # <<>> /\ s.pairs[s.correspond].close = <<>> /\ ~masked
        Go(t, j, b) == ContextFrom(t, cells, j, b, FALSE)
    IN  IF i > Len(cells)
        THEN [state |-> IF s.visible /\ line THEN [s EXCEPT !.visible = FALSE, !.correspond = 0] ELSE s,
              blank |-> blind]
        ELSE IF cells[i].c = "\\" THEN ContextFrom(s, cells, i + 1, begin, ~masked)
        ELSE IF masked THEN Go(s, i + 1, begin)
        ELSE IF s.visible
        THEN IF ClosingAt(s, cells, i) # {}
             THEN Go([s EXCEPT !.visible = FALSE, !.correspond = 0], i + 1, i)
             ELSE Go(s, i + 1, begin)
        ELSE LET k == OpeningAt(s, cells, i)
             IN  IF k = 0 THEN Go(s, i + 1, begin)
                 ELSE LET after == i + Len(s.pairs[k].open)
                          rest == Go([s EXCEPT !.visible = TRUE, !.correspond = k], after, Len(cells) + 1)
                      IN  [rest EXCEPT !.blank = @ \cup {j \in blind : j < after}]
ContextProcess(s, cells) ==
    LET r == ContextFrom(s, cells, 1, IF s.visible THEN Len(cells) + 1 ELSE 1, FALSE)
    IN  [state |-> r.state, cells |-> BlankAt(cells, r.blank)]

-----------------------------------------------------------------------------
(* nroff.cpp *)
NroffReset == [in |-> "initial", newline |-> TRUE, skip |-> 0, name |-> <<>>, request |-> FALSE]
NroffIgnored == {<<"d", "s">>, <<"d", "e">>, <<"n", "r">>, <<"d", "o">>, <<"s", "o">>}
NroffEscapes ==
    [c \in {"f"} |-> "font_switch"] @@ [c \in {"*", "n"} |-> "register_reference"]
    @@ [c \in {"s"} |-> "size_switch"] @@ [c \in {"["} |-> "gnu_register_name"]
    @@ [c \in {"\""} |-> "initial"] @@ [c \in {"\\"} |-> "escape"] @@ [c \in {"$"} |-> "argument"]

RECURSIVE NroffIn(_, _)
NroffIn(s, c) ==
    LET Goto(w) == [s EXCEPT !.in = w]
        name == Append(s.name, c)
        SkipTwo == [Goto("initial") EXCEPT !.skip = 2]
        RequestChar(t) ==
            Hide(IF c \in {"\n", "."} THEN [t EXCEPT !.in = "initial"]
                 ELSE LET n == Append(t.name, c)
                      IN  [t EXCEPT !.name = n,
                                    !.in = IF Len(n) < 2 THEN "request"
                                           ELSE IF n \in NroffIgnored THEN "skip_space_before_ident"
                                           ELSE IF n = <<"i", "f">> THEN "skip_cond" ELSE "skip_ident"])
    IN  CASE s.skip > 0 -> Hide([s EXCEPT !.skip = @ - 1])
        []   s.in = "initial" ->
                 (IF c = "\\" THEN Hide(Goto("escape"))
                  ELSE IF c \in {"'", "."} /\ s.newline THEN Hide(Goto("skip_leading_ws"))
                  ELSE IF c \in {"'", "."} /\ s.request THEN Hide([Goto("request") EXCEPT !.name = <<>>])
                  ELSE Show(s))
        []   s.in = "escape" ->
                 (IF c = "(" THEN Hide(SkipTwo)
                  ELSE IF c \in DOMAIN NroffEscapes THEN Hide(Goto(NroffEscapes[c])) ELSE Show(Goto("initial")))
        []   s.in = "register_reference" ->
                 (IF c = "(" THEN Hide(SkipTwo)
                  ELSE IF c = "[" THEN Hide(Goto("gnu_register_name")) ELSE Show(Goto("initial")))
        []   s.in = "gnu_register_name" -> Hide(IF c \in {"]", "\n"} THEN Goto("initial") ELSE s)
        []   s.in = "font_switch" -> Hide(IF c = "(" THEN SkipTwo ELSE Goto("initial"))
        []   s.in = "size_switch" -> Hide(Goto(IF c \in {"+", "-"} THEN "skip_char" ELSE "skip_digit"))
        []   s.in = "skip_char" -> Hide(Goto("skip_digit"))
        []   s.in = "skip_digit" -> HideIf(c \in Digits, Goto("initial"))
        []   s.in = "skip_leading_ws" ->
                 (IF IsSpace(c) THEN Show(s) ELSE RequestChar([Goto("request") EXCEPT !.name = <<>>]))
        []   s.in = "request" -> RequestChar(s)
        []   s.in = "skip_cond" ->
                 (IF IsSpace(c) THEN Hide(s)
                  ELSE IF c \in {"t", "n"} THEN Hide([Goto("initial") EXCEPT !.request = TRUE])
                  ELSE NroffIn([Goto("initial") EXCEPT !.request = TRUE], c))
        []   s.in = "skip_space_before_ident" -> Hide(IF IsSpace(c) THEN s ELSE Goto("skip_ident"))
        []   s.in = "skip_ident" ->
                 Hide(IF IsSpace(c) THEN [Goto("initial") EXCEPT !.request = TRUE] ELSE s)
        []   s.in = "argument" -> IF c \in Digits THEN Hide(s) ELSE NroffIn(Goto("initial"), c)

(* Mutant: the end of a line does not end a request.                       *)
NroffStepKeepsRequest(s, c) ==
    LET r == NroffIn(s, c)
        newline == c = "\n"
    IN  HideIf(r.hide /\ ~newline, [r.state EXCEPT !.newline = newline])
NroffStep(s, c) ==
    LET r == NroffIn(s, c)
        newline == c = "\n"
    IN  HideIf(r.hide /\ ~newline, [r.state EXCEPT !.newline = newline, !.request = @ /\ ~newline])
NroffProcess(s, cells) == Passed(NroffStep, s, cells)

-----------------------------------------------------------------------------
(* tex.cpp *)
\* what: what is being read of the command, or of the text at the bottom;
\* check: the kinds of its parameters still to come.
TexPush(stack, w) == Append(stack, [what |-> w, name |-> <<>>, check |-> <<"P">>])
TexPop(stack) == IF Len(stack) = 1 THEN TexPush(<<>>, "Parm") ELSE Front(stack)
TexTop(stack, x) == Append(Front(stack), x)
TexReset == [comment |-> FALSE, backslash |-> FALSE, stack |-> TexPush(<<>>, "Parm")]
TexLookup(name) == IF name \in DOMAIN TexCommands THEN TexCommands[name] ELSE <<>>
NextIs(x, kinds) == x.check # <<>> /\ Head(x.check) \in kinds

\* While a name is read, and the white space after it: the stack, whether
\* the character is dealt with, and whether it is hidden.
TexName(stack, c) ==
    LET top == Last(stack)
        Done(x, hide) == [stack |-> TexTop(stack, x), done |-> TRUE, hide |-> hide]
        On(x) == [stack |-> TexTop(stack, x), done |-> FALSE, hide |-> FALSE]
        known == [top EXCEPT !.what = "Other", !.check = TexLookup(top.name)]
    IN  CASE top.what = "Name" /\ (IsAlpha(c) \/ (top.name = <<>> /\ c = "@")) ->
                 Done([top EXCEPT !.name = Append(@, c)], TRUE)
        []   top.what = "Name" /\ top.name = <<>> /\ ~IsAlpha(c) /\ c # "@" ->
                 Done([top EXCEPT !.what = "Other", !.name = <<c>>, !.check = TexLookup(<<c>>)], ~IsSpace(c))
        []   top.what = "Name" /\ top.name # <<>> /\ ~IsAlpha(c) ->
                 (IF IsSpace(c) THEN Done([known EXCEPT !.what = "Swallow"], TRUE)
                  ELSE IF c = "*" THEN Done(known, TRUE) ELSE On(known))
        []   top.what = "Swallow" ->
                 (IF IsSpace(c) THEN Done(top, TRUE) ELSE On([top EXCEPT !.what = "Other"]))
        []   OTHER -> On(top)

RECURSIVE WithoutOptions(_)
WithoutOptions(x) == IF NextIs(x, {"O", "o"}) THEN WithoutOptions([x EXCEPT !.check = Tail(@)]) ELSE x

\* A command without parameters left is over.
TexSettled(stack, c) ==
    LET s == IF c = "{" THEN TexTop(stack, WithoutOptions(Last(stack))) ELSE stack
    IN  IF Last(s).check = <<>> THEN TexPop(s) ELSE s

TexEnd(top, kinds) ==
    [top EXCEPT !.what = "Other", !.check = IF NextIs(top, kinds) THEN Tail(@) ELSE @]

TexText(s, stack, top, c) ==
    LET With(x) == [s EXCEPT !.stack = x]
    IN  CASE c = "\\" -> Hide([With(TexPush(stack, "Name")) EXCEPT !.backslash = TRUE])
        []   c # "\\" /\ top.what = "Parm" ->
                 (IF c = "}" THEN Hide(With(TexTop(stack, TexEnd(top, {"P", "p"}))))
                  ELSE HideIf(NextIs(top, {"p"}), With(stack)))
        []   c = "]" /\ top.what = "Opt" -> Hide(With(TexTop(stack, TexEnd(top, {"O", "o"}))))
        []   OTHER -> HideIf(top.what = "Opt" /\ NextIs(top, {"o"}), With(stack))
TexRest(s, settled, top, c) ==
    LET With(stack) == [s EXCEPT !.stack = stack]
        popped == TexPop(settled)
    IN  CASE c = "{" ->
                 Hide(With(IF top.what \in {"Parm", "Opt"} \/ top.check = <<>> THEN TexPush(settled, "Parm")
                           ELSE TexTop(settled, [top EXCEPT !.what = "Parm"])))
        []   c = "[" /\ top.what = "Other" -> Hide(With(TexTop(settled, [top EXCEPT !.what = "Opt"])))
        []   IsSpace(c) /\ top.what = "Other" -> Hide(With(settled))
        []   OTHER -> (IF top.what = "Other" THEN TexText(s, popped, Last(popped), c)
                       ELSE TexText(s, settled, top, c))

TexNamed(t, n, c) ==
    LET settled == TexSettled(n.stack, c)
    IN  IF n.done THEN HideIf(n.hide, [t EXCEPT !.stack = n.stack])
        ELSE TexRest(t, settled, Last(settled), c)
TexStep(s, c) ==
    LET comment == (s.comment \/ (c = "%" /\ ~s.backslash)) /\ c # "\n"
        t == [s EXCEPT !.comment = comment, !.backslash = FALSE]
    IN  IF comment THEN HideIf(~CheckComments, t) ELSE TexNamed(t, TexName(t.stack, c), c)
TexProcess(s, cells) == Passed(TexStep, s, cells)

-----------------------------------------------------------------------------
(* sgml.cpp *)
SgmlReset(s) == [s EXCEPT !.in = "text", !.quote = "", !.behind = "", !.skip = 0, !.include = FALSE]
SgmlSetup == [in |-> "text", quote |-> "", behind |-> "", skip |-> 0, include |-> FALSE,
              tag |-> <<>>, attrib |-> <<>>, endskip |-> <<>>]

\* A '>' ends a tag; text is skipped up to the end of a tag that says so.
SgmlTagEnd(s) ==
    LET tag == IF s.behind = "/" THEN <<>> ELSE s.tag
        t == [s EXCEPT !.in = "text", !.tag = tag]
    IN  IF s.skip > 0 THEN (IF tag = s.endskip THEN [t EXCEPT !.skip = @ + 1] ELSE t)
        ELSE IF tag \in SkipTags THEN [t EXCEPT !.skip = 1, !.endskip = tag] ELSE t

SgmlText(s, c) ==
    CASE c = "&" -> Hide([s EXCEPT !.in = "ero"])
    []   c = "<" -> Hide([s EXCEPT !.in = "tag", !.tag = <<>>])
    []   OTHER   -> HideIf(s.skip > 0, s)

SgmlGap(s, c) ==
    CASE c = ">" -> SgmlTagEnd(s)
    []   c = "=" -> [s EXCEPT !.in = "attr_gap"]
    []   IsSpace(c) -> [s EXCEPT !.in = "tag_gap"]
    []   OTHER -> [s EXCEPT !.in = "attr", !.attrib = <<c>>]

SgmlValue(s, c) ==
    CASE c = ">"    -> Hide(SgmlTagEnd(s))
    []   IsSpace(c) -> Hide([s EXCEPT !.in = "tag_gap"])
    []   OTHER      -> HideIf(~s.include, s)

\* A declaration: "<!" up to its '>', and "<!--" up to "-->".
SgmlDeclaration(s, c) ==
    CASE s.in = "md" /\ c = "-" /\ s.behind = "!" -> [s EXCEPT !.in = "com_1"]
    []   s.in = "md" /\ c \in {"\"", "'"} -> [s EXCEPT !.in = "mdq", !.quote = c]
    []   s.in \in {"md", "mdq", "com_1", "com_e"} /\ c = ">" -> [s EXCEPT !.in = "text"]
    []   s.in = "mdq" /\ c = s.quote -> [s EXCEPT !.in = "md"]
    []   s.in = "com_1" /\ c # ">" -> [s EXCEPT !.in = IF c = "-" THEN "com" ELSE "md"]
    []   s.in = "com" /\ c = "-" /\ s.behind = "-" -> [s EXCEPT !.in = "com_e"]
    []   s.in = "com_e" /\ c \notin {"-", ">"} -> [s EXCEPT !.in = "com"]
    []   OTHER -> s

SgmlIn(s, c) ==
    LET Goto(w) == [s EXCEPT !.in = w]
        NewName == [s EXCEPT !.in = "attr", !.attrib = <<c>>]
        value == [s EXCEPT !.include = s.attrib \in CheckAttribs]
    IN  CASE s.in = "text" -> SgmlText(s, c)
        []   s.in = "tag" ->
                 (IF c = ">" THEN Hide(SgmlTagEnd(s))
                  ELSE IF c = "/" THEN Hide([Goto("end") EXCEPT !.tag = <<>>])
                  ELSE IF c = "!" THEN Hide(Goto("md"))
                  ELSE IF IsAlnum(c) THEN Hide([s EXCEPT !.tag = Append(@, c)])
                  ELSE Hide(SgmlGap(Goto("tag_gap"), c)))
        []   s.in = "tag_gap" -> Hide(SgmlGap(s, c))
        []   s.in = "end" ->
                 (IF IsAlnum(c) THEN Hide([s EXCEPT !.tag = Append(@, c)])
                  ELSE Hide([s EXCEPT !.skip = IF @ > 0 /\ s.tag = s.endskip THEN @ - 1 ELSE @,
                                      !.in = IF c = ">" THEN "text" ELSE "ignore_junk"]))
        []   s.in = "ignore_junk" -> Hide(IF c = ">" THEN Goto("text") ELSE s)
        []   s.in = "attr" ->
                 Hide(IF IsSpace(c) THEN Goto("attr_gap") ELSE IF c = "=" THEN Goto("equals")
                      ELSE IF c = ">" THEN SgmlTagEnd(s) ELSE [s EXCEPT !.attrib = Append(@, c)])
        []   s.in = "attr_gap" ->
                 Hide(IF IsSpace(c) THEN s ELSE IF c = "=" THEN Goto("equals")
                      ELSE IF c = ">" THEN SgmlTagEnd(s) ELSE [s EXCEPT !.attrib = <<c>>])
        []   s.in = "equals" ->
                 (IF IsSpace(c) THEN Hide(s)
                  ELSE IF c = ">" THEN Hide(SgmlTagEnd(s))
                  ELSE IF c \in {"'", "\""} THEN Hide([value EXCEPT !.in = "quoted", !.quote = c])
                  ELSE SgmlValue([value EXCEPT !.in = "value"], c))
        []   s.in = "value" -> SgmlValue(s, c)
        []   s.in = "quoted" ->
                 (IF c = s.quote /\ s.behind # "\\" THEN Hide(Goto("tag_gap")) ELSE HideIf(~s.include, s))
        []   s.in \in {"ero", "cro"} ->
                 (IF s.in = "ero" /\ c = "#" THEN Hide(Goto("cro"))
                  ELSE IF IsAlnum(c) THEN Hide(s)
                  ELSE IF c = ";" THEN Hide(Goto("text")) ELSE SgmlText(Goto("text"), c))
        []   OTHER -> Hide(SgmlDeclaration(s, c))

\* An escaped backslash escapes nothing.
SgmlStep(s, c) ==
    LET r == SgmlIn(s, c)
        again == s.in = "quoted" /\ c = "\\" /\ s.behind = "\\"
    IN  HideIf(r.hide, [r.state EXCEPT !.behind = IF again THEN "" ELSE c])
SgmlProcess(s, cells) == Passed(SgmlStep, s, cells)

\* The decoder makes one character of "&...;" and lets it stand for all of
\* them.
RECURSIVE DecodedFrom(_, _)
DecodedFrom(cells, i) ==
    LET RunEnd(from, kind) ==
            CHOOSE j \in from .. Len(cells) + 1 :
                /\ \A k \in from .. j - 1 : cells[k].c \in kind
                /\ j > Len(cells) \/ cells[j].c \notin kind
        number == i < Len(cells) /\ cells[i + 1].c = "#"
        from == IF number THEN i + 2 ELSE i + 1
        j == IF number THEN RunEnd(from, Digits) ELSE RunEnd(from, TextLetters \cup Digits)
        next == IF j <= Len(cells) /\ cells[j].c = ";" THEN j + 1 ELSE j
        digits == [k \in 1 .. j - from |-> cells[from + k - 1].c]
        width == FoldLeft(LAMBDA n, x : n + x.width, 0, SubSeq(cells, i, next - 1))
    IN  IF i > Len(cells) THEN <<>>
        ELSE IF cells[i].c # "&" THEN <<cells[i]>> \o DecodedFrom(cells, i + 1)
        ELSE <<[c |-> IF number THEN NumberedChar(digits) ELSE "?", width |-> width]>>
             \o DecodedFrom(cells, next)
DecoderProcess(s, cells) == [state |-> s, cells |-> DecodedFrom(cells, 1)]

-----------------------------------------------------------------------------
(* texinfo.cpp *)
\* stack: whether each open command hides its text, of which ignore counts
\* those that do; tables: the open tables, and whether their items are
\* hidden; lost: it has gone past the end of a piece and read on there.
TexinfoReset(s) ==
    [s EXCEPT !.env = <<>>, !.envIgnore = 0, !.ignore = 0, !.inline = FALSE, !.seen = FALSE,
              !.stack = <<FALSE>>, !.tables = <<[name |-> <<>>, items |-> FALSE]>>]
TexinfoSetup ==
    TexinfoReset([last |-> <<>>, env |-> <<>>, envIgnore |-> 0, ignore |-> 0, inline |-> FALSE,
                  seen |-> FALSE, stack |-> <<>>, tables |-> <<>>, lost |-> FALSE])
ResetStack(s) == [s EXCEPT !.stack = <<FALSE>>, !.inline = FALSE, !.ignore = 0]
PushCommand(s, hides) == [s EXCEPT !.stack = Append(@, hides), !.ignore = IF hides THEN @ + 1 ELSE @]

NameEnd(cells, i) ==
    CHOOSE j \in i .. Len(cells) + 1 :
        /\ \A k \in i .. j - 1 : IsAlpha(cells[k].c)
        /\ j > Len(cells) \/ ~IsAlpha(cells[j].c)
NameAt(cells, i) == [k \in 1 .. NameEnd(cells, i) - i |-> cells[i + k - 1].c]

\* "@name": braced says whether a '{' follows.
TexinfoCommand(s, name, braced) ==
    LET table == Last(s.tables)
        t == [s EXCEPT !.last = name]
        hides == name \in TexinfoIgnore \/ (table.items /\ name \in {<<"item">>, <<"itemx">>})
        pushed == PushCommand([t EXCEPT !.inline = @ \/ ~braced], hides)
        wasTable == s.last = table.name /\ s.last \in {<<"table">>, <<"f", "table">>, <<"v", "table">>}
    IN  CASE s.envIgnore > 0 -> t
        []   s.envIgnore = 0 /\ wasTable ->
                 (IF name \in TexinfoIgnore
                  THEN [t EXCEPT !.tables = Append(Front(@), [table EXCEPT !.items = TRUE])] ELSE t)
        []   s.envIgnore = 0 /\ ~wasTable ->
                 (IF name = <<"end">> THEN pushed
                  ELSE IF s.env = <<>> /\ name \in TexinfoIgnoreEnv
                  THEN [pushed EXCEPT !.env = name, !.envIgnore = 1]
                  ELSE IF s.env = name THEN [pushed EXCEPT !.envIgnore = @ + 1]
                  ELSE IF IsSuffix(<<"table">>, name)
                  THEN [pushed EXCEPT !.tables = Append(@, [name |-> name, items |-> FALSE])]
                  ELSE pushed)

\* What follows "@end".
TexinfoEnd(s, name) ==
    LET t == [s EXCEPT !.last = <<>>]
    IN  CASE name = s.env ->
                 (IF s.envIgnore <= 1 THEN [t EXCEPT !.envIgnore = 0, !.env = <<>>]
                  ELSE [t EXCEPT !.envIgnore = @ - 1])
        []   name # s.env /\ name = Last(s.tables).name ->
                 [t EXCEPT !.tables = IF Len(@) = 1 THEN <<[name |-> <<>>, items |-> FALSE]>> ELSE Front(@)]
        []   OTHER -> t

TexinfoClose(s) ==
    [s EXCEPT !.ignore = IF Last(s.stack) /\ @ > 0 THEN @ - 1 ELSE @,
              !.stack = IF Len(@) = 1 THEN <<FALSE>> ELSE Front(@)]

\* "\input" takes the character behind it along, also the end of its line, and
\* also when the piece ends before it.
InputCommand == <<"\\", "i", "n", "p", "u", "t">>
RECURSIVE TexinfoFrom(_, _, _, _)
TexinfoFrom(s, cells, i, blank) ==
    LET c == cells[i].c
        other == [s EXCEPT !.last = <<>>]
        Go(t, j, b) == TexinfoFrom(t, cells, j, blank \cup b)
        inputHere == ~s.seen /\ i + 5 <= Len(cells) /\ \A k \in 1 .. 6 : cells[i + k - 1].c = InputCommand[k]
    IN  IF i > Len(cells)
        THEN [state |-> [s EXCEPT !.lost = i > Len(cells) + 1], cells |-> BlankAt(cells, blank)]
        ELSE IF c = " " THEN Go(s, i + 1, {})
        ELSE IF c = "@"
        THEN IF i = Len(cells) THEN Go(s, i + 1, {i})
             ELSE IF ~IsAlpha(cells[i + 1].c) THEN Go(s, i + 2, {i, i + 1})
             ELSE LET j == NameEnd(cells, i + 1)
                      braced == j <= Len(cells) /\ cells[j].c = "{"
                      was == s.envIgnore > 0 \/ (s.last = Last(s.tables).name /\ s.last \in
                                                 {<<"table">>, <<"f", "table">>, <<"v", "table">>})
                  IN  Go(TexinfoCommand(s, NameAt(cells, i + 1), braced),
                         IF braced /\ ~was THEN j + 1 ELSE j, i .. j - 1)
        ELSE IF inputHere
        THEN Go([PushCommand(other, TRUE) EXCEPT !.inline = TRUE, !.seen = TRUE], i + 7, i .. i + 5)
        ELSE IF s.last = <<"end">>
        THEN Go(TexinfoEnd(s, NameAt(cells, i)), NameEnd(cells, i), i .. NameEnd(cells, i) - 1)
        ELSE IF c = "{" THEN Go(PushCommand(other, FALSE), i + 1, {})
        ELSE IF c = "}" THEN Go(TexinfoClose(other), i + 1, {})
        ELSE IF s.inline /\ c = "\n" THEN Go(ResetStack(other), i + 1, {})
        ELSE Go(other, i + 1, IF s.ignore > 0 \/ s.envIgnore > 0 THEN {i} ELSE {})
TexinfoProcess(s, cells) == TexinfoFrom(s, cells, 1, {})

-----------------------------------------------------------------------------
(* The chain (filter.cpp), the tokenizer (basic.cpp) and the checker of a  *)
(* document (document_checker.cpp)                                         *)
OrderNum == [nroff |-> 20, tex |-> 35, texinfo |-> 35, sgml |-> 35, context |-> 50,
             decoder |-> 65, email |-> 85, url |-> 95]
AddFilter(fs, f) ==
    LET place == CHOOSE i \in 1 .. Len(fs) + 1 :
            /\ i > Len(fs) \/ OrderNum[f] <= OrderNum[fs[i]]
            /\ \A j \in 1 .. i - 1 : OrderNum[f] > OrderNum[fs[j]]
    IN  InsertAt(fs, place, f)

FilterSetup(f) ==
    CASE f = "nroff" -> NroffReset    []   f = "tex" -> TexReset
    []   f = "texinfo" -> TexinfoSetup []  f = "sgml" -> SgmlSetup
    []   f = "context" -> ContextSetup []  f = "email" -> EmailReset
    []   OTHER -> [none |-> TRUE]
FilterReset(f, s) ==
    CASE f = "nroff" -> NroffReset     []  f = "tex" -> TexReset
    []   f = "texinfo" -> TexinfoReset(s) []  f = "sgml" -> SgmlReset(s)
    []   f = "context" -> ContextReset(s) []  f = "email" -> EmailReset
    []   OTHER -> s
FilterProcess(f, s, cells) ==
    CASE f = "nroff" -> NroffProcess(s, cells)     []  f = "tex" -> TexProcess(s, cells)
    []   f = "texinfo" -> TexinfoProcess(s, cells) []  f = "sgml" -> SgmlProcess(s, cells)
    []   f = "context" -> ContextProcess(s, cells) []  f = "email" -> EmailProcess(s, cells)
    []   f = "decoder" -> DecoderProcess(s, cells) []  f = "url" -> UrlProcess(s, cells)

ChainProcess(cells) ==
    LET Put(acc, f) ==
            LET r == FilterProcess(f, states[f], acc.cells)
            IN  [states |-> (f :> r.state) @@ acc.states, cells |-> r.cells]
    IN  FoldLeft(Put, [states |-> states, cells |-> cells], chain)

CharAt(cells, i) == IF i \in DOMAIN cells THEN cells[i].c ELSE ""
IsBegin(cells, i) == CharAt(cells, i) \in BeginChars /\ IsAlpha(CharAt(cells, i + 1))
WordGoesOn(cells, i, first) ==
    \/ IsAlpha(CharAt(cells, i))
    \/ /\ CharAt(cells, i) \in MiddleChars /\ i > first
       /\ IsAlpha(CharAt(cells, i - 1)) /\ IsAlpha(CharAt(cells, i + 1))

\* The next token from place i, which stands pos characters into the text.
RECURSIVE TokensFrom(_, _, _)
TokensFrom(cells, i, pos) ==
    LET Width(a, b) == FoldLeft(LAMBDA n, x : n + x.width, 0, SubSeq(cells, a, b))
        first == CHOOSE j \in i .. Len(cells) + 1 :
                    /\ j > Len(cells) \/ IsAlpha(CharAt(cells, j)) \/ IsBegin(cells, j)
                    /\ \A k \in i .. j - 1 : ~IsAlpha(CharAt(cells, k)) /\ ~IsBegin(cells, k)
        start == IF IsBegin(cells, first) THEN first + 1 ELSE first
        body == CHOOSE j \in start .. Len(cells) + 1 :
                    ~WordGoesOn(cells, j, first) /\ \A k \in start .. j - 1 : WordGoesOn(cells, k, first)
        after == IF CharAt(cells, body) \in EndChars THEN body + 1 ELSE body
        offset == pos + Width(i, first - 1)
        len == Width(first, after - 1)
    IN  IF first > Len(cells) THEN <<>>
        ELSE <<[offset |-> offset, len |-> len,
                word |-> [k \in 1 .. after - start |-> cells[start + k - 1].c]]>>
             \o TokensFrom(cells, after, offset + len)
Tokens(cells) == TokensFrom(cells, 1, 0)

FilterInit ==
    /\ filtering \in DOMAIN Modes
    /\ chain \in {FoldLeft(AddFilter, <<>>, order) : order \in SetToSeqs(Modes[filtering])}
    /\ states = [f \in Modes[filtering] |-> FilterSetup(f)]
    /\ document = <<>> /\ ends = {0} /\ endBefore = FALSE /\ found = <<>> /\ chunk = [text |-> <<>>, tokens |-> <<>>]

TextOf(doc) == FlattenSeq([i \in DOMAIN doc |-> doc[i].text])
Ahead == SubSeq(TextOf(document), Max(ends) + 1, Len(TextOf(document)))
Lost == "texinfo" \in DOMAIN states /\ states["texinfo"].lost

\* DocumentChecker::process, and next_misspelling to the end of the piece.  A
\* piece ends behind white space (aspell.h:454) or a whole construct.
ProcessPiece ==
    \E begun \in UNION {[1 .. n -> Constructs[filtering]] : n \in 0 .. 2} :
        LET doc == document \o begun
            text == Ahead \o TextOf(begun)
            last == IF begun = <<>> THEN 0 ELSE Len(text) - Len(Last(begun).text)
        IN  /\ Len(doc) <= MaxConstructs /\ Cardinality(ends) <= MaxPieces /\ ~Lost
            /\ \E n \in {i \in last + 1 .. Len(text) : i = Len(text) \/ IsSpace(text[i])} :
                   LET piece == SubSeq(text, 1, n)
                       r == ChainProcess(Cells(piece))
                       tokens == Tokens(r.cells)
                   IN  /\ states' = r.states
                       /\ chunk' = [text |-> piece, tokens |-> tokens]
                       /\ found' = found \o [i \in DOMAIN tokens |-> tokens[i].word]
                       /\ ends' = ends \cup {Max(ends) + n}
            /\ document' = doc
            /\ UNCHANGED <<filtering, chain, endBefore>>

\* Filter::reset, before the next document.
NextDocument ==
    /\ document # <<>> /\ ~Lost
    /\ states' = [f \in DOMAIN states |-> FilterReset(f, states[f])]
    /\ endBefore' = ("texinfo" \in DOMAIN states /\ states["texinfo"].last = <<"end">>)
    /\ document' = <<>> /\ ends' = {0} /\ found' = <<>> /\ chunk' = [text |-> <<>>, tokens |-> <<>>]
    /\ UNCHANGED <<filtering, chain>>

FilterNext == filtering # "off" /\ (ProcessPiece \/ NextDocument)
FiltersOff ==
    /\ filtering = "off" /\ chain = <<>> /\ states = <<>> /\ document = <<>> /\ ends = {0} /\ endBefore = FALSE
    /\ found = <<>> /\ chunk = [text |-> <<>>, tokens |-> <<>>]

-----------------------------------------------------------------------------
\* What the filters do not do: the context filter loses its delimiters when it
\* is reset, and the texinfo filter keeps the name of its last command; a line comment, a delimiter that nothing closes, ends for it
\* where the piece ends and nowhere else; and for texinfo "\input" is no command
\* when it comes again, and hides the next line when it ends its own.
KeepsDelimiters == "context" \in DOMAIN states => states["context"].pairs # <<>>
ForgetsEnd == ~endBefore
LineComments ==
    "context" \in DOMAIN states =>
        \A i \in DOMAIN document :
            LET end == Len(TextOf(SubSeq(document, 1, i)))
            IN  (\E d \in Range(Delimiters) : d.close = <<>> /\ IsPrefix(d.open, document[i].text))
                => ends \cap (end - Len(document[i].text) + 1 .. end) = {end}
InputOnce ==
    LET inputs == {i \in DOMAIN document : IsPrefix(InputCommand, document[i].text)}
    IN  /\ Cardinality(inputs) <= 1
        /\ \A i \in inputs : document[i].text \notin {InputCommand, Append(InputCommand, "\n")}

\* Whatever constructs a document is made of, and wherever between or within
\* them the pieces end behind white space, the speller is handed the words of
\* each as if it stood alone: no filter carries anything over from a complete
\* construct, nor from one document to the next, but for the cases above.
EachConstructAlone ==
    Ahead = <<>> /\ KeepsDelimiters /\ ForgetsEnd /\ LineComments /\ InputOnce =>
        found = FlattenSeq([i \in DOMAIN document |-> document[i].words])

\* A token says where its word stands in the text that was given, before
\* any filter changed it, and tokens follow one another: what the caller
\* replaces or marks is the word that was looked up (token.hpp).
TokensInPlace ==
    /\ \A k \in DOMAIN chunk.tokens :
           LET t == chunk.tokens[k]
               there == DecodedFrom(Cells(SubSeq(chunk.text, t.offset + 1, t.offset + t.len)), 1)
               chars == [i \in DOMAIN there |-> there[i].c]
           IN  t.word = IF chars[1] \in BeginChars THEN Tail(chars) ELSE chars
    /\ \A k \in 2 .. Len(chunk.tokens) :
           chunk.tokens[k].offset >= chunk.tokens[k - 1].offset + chunk.tokens[k - 1].len

ReadsTheWords == EachConstructAlone /\ TokensInPlace
=============================================================================
