------------------------------ MODULE Checker ------------------------------
(* "aspell check" (prog/aspell.cpp, prog/checker_string.cpp): a file is    *)
(* read through a ring of lines, the user is asked about each wrong word,  *)
(* the lines go out to a new file as the ring turns, and at the end the    *)
(* new file takes the place of the old one.                                *)
EXTENDS Speller, TLC

CONSTANTS
    TextFiles,      \* files: sequences of lines, which end in Newline but perhaps the last
    RingLines,      \* 64: the lines that are read at first
    AheadLines,     \* the most lines the display reads ahead
    Typed,          \* what the user may type for a word
    MaxReplaced     \* bound: replacements in all

VARIABLES
    original,   \* the file as it was
    buffer,     \* CheckerString's lines: see Opened
    place,      \* where in the line it stands: see AtLine
    turn,       \* what check() does next
    replaceAll, \* function: words to what replaces them from now on
    changed, backup,
    files,      \* the text in "file", "new" and "bak", or Absent
    decided,    \* history: <<line, word>> to what it was last replaced by
    passed      \* history: the <<line, word>>s the user let pass

checkvars == <<original, buffer, place, turn, replaceAll, changed, backup, files, decided, passed>>

Newline == 21
Absent == <<0 - 1>>

-----------------------------------------------------------------------------
(* The ring of lines.  endp is the line after the last one read, cur the   *)
(* one that is checked, nth its number.                                    *)
Inc(b, i) == (i + 1) % Len(b.ring)
RingLine(b, i) == b.ring[i + 1]
FirstLine(b) == Inc(b, b.endp)
EndsFile(b) == b.input = <<>>

Opened(text) ==
    LET n == Min({Len(text), RingLines})
    IN  [ring |-> SubSeq(text, 1, n) \o <<<<>>>>, endp |-> n, cur |-> 0, nth |-> 1, out |-> <<>>,
         input |-> SubSeq(text, n + 1, Len(text)),
         eof |-> n < RingLines \/ (n = Len(text) /\ Last(text[n]) # Newline)]

\* The next line is read where the ring ends, and the oldest line, which
\* makes place for it, goes out; not while that is the line being checked.
(* Mutant: the oldest line is dropped.                                     *)
ReadNextUnwritten(b) ==
    LET next == Inc(b, b.endp)
    IN  IF b.eof \/ next = b.cur THEN b
        ELSE IF EndsFile(b) THEN [b EXCEPT !.eof = TRUE]
        ELSE [b EXCEPT !.ring = [@ EXCEPT ![b.endp + 1] = Head(b.input), ![next + 1] = <<>>],
                       !.input = Tail(@), !.eof = Len(b.input) = 1 /\ Last(Head(b.input)) # Newline,
                       !.endp = next]
read_next_line(b) ==
    LET next == Inc(b, b.endp)
    IN  IF b.eof \/ next = b.cur THEN b
        ELSE IF EndsFile(b) THEN [b EXCEPT !.eof = TRUE]
        ELSE [b EXCEPT !.ring = [@ EXCEPT ![b.endp + 1] = Head(b.input), ![next + 1] = <<>>],
                       !.input = Tail(@), !.eof = Len(b.input) = 1 /\ Last(Head(b.input)) # Newline,
                       !.endp = next, !.out = @ \o RingLine(b, next)]
next_line(b) ==
    LET moved == [b EXCEPT !.cur = Inc(b, b.cur), !.nth = @ + 1]
    IN  IF moved.cur = moved.endp THEN read_next_line(moved) ELSE moved
off_end(b) == b.cur = b.endp

\* The display goes some lines on from the one that is checked.
RECURSIVE ReadAhead(_, _)
ReadAhead(b, n) == IF n = 0 THEN b ELSE ReadAhead(read_next_line(b), n - 1)

\* What is not yet out, in its order; at the end all of it is written.
InRing(b) == FlattenSeq([i \in DOMAIN b.ring |-> RingLine(b, (b.endp + i) % Len(b.ring))])
WrittenOut(b) == b.out \o InRing(b) \o FlattenSeq(b.input)

-----------------------------------------------------------------------------
(* The next misspelling.  The line is tokenized once; what has been        *)
(* replaced in it moves the tokens that follow by diff.                    *)
AtLine(b) == [tokens |-> TokensOf(RingLine(b, b.cur)), k |-> 0, len |-> 0, diff |-> 0,
              begin |-> 0, size |-> 0, hasRepl |-> FALSE]
WordAt(b, p) == SubSeq(RingLine(b, b.cur), p.begin + 1, p.begin + p.size)
Recheck(w) == Blank \in {w[i] : i \in DOMAIN w} \/ IsAccepted(w)

RECURSIVE FromTokens(_, _)
FromTokens(b, p) ==
    IF p.tokens = <<>>
    THEN LET n == next_line(b)
         IN  IF off_end(n) THEN [b |-> n, p |-> p, found |-> FALSE] ELSE FromTokens(n, AtLine(n))
    ELSE LET t == Head(p.tokens)
             on == [p EXCEPT !.tokens = Tail(@), !.k = @ + 1, !.len = Len(t.word),
                             !.begin = t.offset + p.diff, !.size = Len(t.word)]
         IN  IF IsAccepted(t.word) THEN FromTokens(b, on) ELSE [b |-> b, p |-> on, found |-> TRUE]

(* Mutant: the later words of the line are looked for where they were.     *)
NextMisspellingUnmoved(b, p) ==
    IF off_end(b) THEN [b |-> b, p |-> p, found |-> FALSE]
    ELSE IF p.hasRepl
    THEN LET q == [p EXCEPT !.hasRepl = FALSE, !.len = p.size]
         IN  IF Recheck(WordAt(b, p)) THEN FromTokens(b, q) ELSE [b |-> b, p |-> q, found |-> TRUE]
    ELSE FromTokens(b, p)
next_misspelling(b, p) ==
    IF off_end(b) THEN [b |-> b, p |-> p, found |-> FALSE]
    ELSE IF p.hasRepl
    THEN LET q == [p EXCEPT !.hasRepl = FALSE, !.diff = @ + p.size - p.len, !.len = p.size]
         IN  IF Recheck(WordAt(b, p)) THEN FromTokens(b, q) ELSE [b |-> b, p |-> q, found |-> TRUE]
    ELSE FromTokens(b, p)

\* CheckerString::replace
Spliced(line, begin, size, new) == SubSeq(line, 1, begin) \o new \o SubSeq(line, begin + size + 1, Len(line))
(* Mutant: what has been put in is not checked.                            *)
PlaceUnchecked(p, new) == [p EXCEPT !.size = Len(new), !.diff = @ + Len(new) - p.len]
PlaceAfter(p, new) == [p EXCEPT !.size = Len(new), !.hasRepl = TRUE]
Replaced(b, p, new) ==
    /\ Len(stores) < MaxReplaced
    /\ store_replacement(WordAt(b, p), new)
    /\ buffer' = [b EXCEPT !.ring[b.cur + 1] = Spliced(@, p.begin, p.size, new)]
    /\ place' = PlaceAfter(p, new)
    /\ decided' = (<<b.nth, p.k>> :> new) @@ decided

-----------------------------------------------------------------------------
(* check()                                                                 *)
PipeQuiet == UNCHANGED <<options, answers, lineSent, sent>>
ListsKept == UNCHANGED <<personal, session, repl, memory, disk, stores>>

CheckInit ==
    /\ original \in TextFiles /\ backup \in BOOLEAN
    /\ buffer = Opened(original) /\ place = AtLine(buffer)
    /\ turn = "next" /\ replaceAll = <<>> /\ changed = FALSE
    /\ files = [file |-> FlattenSeq(original), new |-> <<>>, bak |-> Absent]
    /\ decided = <<>> /\ passed = {}

\* The loop: a word on the list of what is to be replaced is, without a
\* question; the user is asked about another.
Advance ==
    /\ turn = "next" /\ PipeQuiet /\ UNCHANGED <<original, replaceAll, changed, backup, files, passed>>
    /\ LET r == next_misspelling(buffer, place)
           w == WordAt(r.b, r.p)
       IN  CASE ~r.found -> /\ turn' = "exit" /\ buffer' = r.b /\ place' = r.p
                            /\ ListsKept /\ UNCHANGED decided
             [] r.found /\ w \in DOMAIN replaceAll ->
                   /\ Replaced(r.b, r.p, replaceAll[w]) /\ UNCHANGED <<turn, personal, session, disk>>
             [] r.found /\ w \notin DOMAIN replaceAll ->
                   /\ turn' = "ask" /\ place' = r.p
                   /\ \E n \in 0 .. AheadLines : buffer' = ReadAhead(r.b, n)
                   /\ ListsKept /\ UNCHANGED decided

TheWord == WordAt(buffer, place)
Choose(Do) == turn = "ask" /\ turn' = "next" /\ Do /\ PipeQuiet /\ UNCHANGED <<original, backup, files>>
Unedited == UNCHANGED <<buffer, place, replaceAll, changed, decided>>

Ignore    == Choose(passed' = passed \cup {<<buffer.nth, place.k>>} /\ Unedited /\ ListsKept)
IgnoreAll == Choose(session' = session \cup {TheWord} /\ Unedited /\ UNCHANGED <<passed, personal, repl, memory, disk, stores>>)
AddAsIs == Choose(personal' = personal \cup {TheWord} /\ Unedited /\ UNCHANGED <<passed, session, repl, memory, disk, stores>>)
AddLower  == Choose(/\ personal' = personal \cup {LowerOf(TheWord)} /\ Unedited
                    /\ UNCHANGED <<passed, session, repl, memory, disk, stores>>)

\* What the user types, or one of the first ten suggestions.
Offered == LET s == IF TheWord \in DOMAIN Suggested THEN Suggested[TheWord] ELSE <<>>
           IN  {s[i] : i \in 1 .. Min({10, Len(s)})}
Replace(all) ==
    turn = "ask" /\ \E new \in Typed \cup Offered :
        Choose(/\ Replaced(buffer, place, new) /\ changed' = TRUE
               /\ replaceAll' = IF all /\ new # TheWord THEN (TheWord :> new) @@ replaceAll ELSE replaceAll
               /\ UNCHANGED <<passed, personal, session, disk>>)

Leave(to) == /\ turn = "ask" /\ turn' = to /\ PipeQuiet /\ ListsKept /\ Unedited
             /\ UNCHANGED <<original, backup, files, passed>>
Exit  == Leave("exit early")
Abort == Leave("abort")

\* The end: the lists are saved and the lines written, then the files are
\* put in their places one after the other.
Ending(Do) == Do /\ PipeQuiet /\ Unedited /\ UNCHANGED <<original, backup, passed, personal, session, repl, memory, stores>>
SaveLists ==
    /\ turn \in {"exit", "exit early"}
    /\ Ending(/\ disk' = [personal |-> personal, repl |-> repl]
              /\ files' = [files EXCEPT !.new = WrittenOut(buffer)]
              /\ turn' = IF ~changed THEN "remove" ELSE IF backup THEN "back up" ELSE "rename")
CloseAborted ==
    /\ turn = "abort"
    /\ Ending(turn' = "discard" /\ files' = [files EXCEPT !.new = WrittenOut(buffer)] /\ UNCHANGED disk)
\* rename_file(from, to): what is at the new name is removed, then the file is
\* renamed.  Neither result is looked at: each of the two may do nothing.
Removed(n) == files' \in {files, [files EXCEPT ![n] = Absent]}
Renamed(from, to) == files' \in {files, [files EXCEPT ![to] = files[from], ![from] = Absent]}
FileStep(at, Do, next) == turn = at /\ Ending(turn' = next /\ Do /\ UNCHANGED disk)
BackUp ==
    \/ FileStep("back up", Removed("bak"), "move file")
    \/ FileStep("move file", Renamed("file", "bak"), "rename")
Rename ==
    \/ FileStep("rename", Removed("file"), "move new")
    \/ FileStep("move new", Renamed("new", "file"), "done")
RemoveNew ==
    /\ turn \in {"remove", "discard"}
    /\ Ending(turn' = (IF turn = "remove" THEN "done" ELSE "aborted") /\ files' = [files EXCEPT !.new = Absent] /\ UNCHANGED disk)

\* The process dies; part of what was written has reached the new file.
Killed ==
    /\ turn \notin {"done", "aborted", "dead", "off"}
    /\ Ending(turn' = "dead" /\ UNCHANGED <<files, disk>>)

CheckNext ==
    \/ Advance \/ Ignore \/ IgnoreAll \/ AddAsIs \/ AddLower \/ \E all \in BOOLEAN : Replace(all)
    \/ Exit \/ Abort \/ SaveLists \/ CloseAborted \/ BackUp \/ Rename \/ RemoveNew \/ Killed
CheckOff ==
    /\ original = <<>> /\ backup = FALSE /\ buffer = [endp |-> 0] /\ place = [k |-> 0] /\ turn = "off"
    /\ replaceAll = <<>> /\ changed = FALSE /\ files = [file |-> <<>>, new |-> <<>>, bak |-> <<>>]
    /\ decided = <<>> /\ passed = {}

-----------------------------------------------------------------------------
TokenWords(line) == LET t == TokensOf(line) IN [k \in DOMAIN t |-> t[k].word]
\* A line with its words replaced as decided, from the last to the first.
RECURSIVE EditedLine(_, _, _)
EditedLine(n, line, k) ==
    LET t == TokensOf(original[n])[k]
    IN  IF k = 0 THEN line
        ELSE EditedLine(n, IF <<n, k>> \in DOMAIN decided
                           THEN Spliced(line, t.offset, Len(t.word), decided[<<n, k>>]) ELSE line, k - 1)
EditedText == FlattenSeq([n \in DOMAIN original |->
                             EditedLine(n, original[n], Len(TokensOf(original[n])))])

\* Whatever is replaced by longer or shorter words, however far the display
\* has read ahead and the ring has turned, what has gone out, what the ring
\* holds and what is still to be read are the file with the words the user
\* replaced, and nothing else, changed; and that is what the file is at the
\* end, unless the user aborts or the new file could not be renamed.
StillNew == changed /\ turn \in {"move new", "done", "dead"} /\ files.new = EditedText
FileIsEdited ==
    /\ turn \in {"next", "ask", "exit", "exit early", "abort"} => WrittenOut(buffer) = EditedText
    /\ turn = "done" => files.file = EditedText \/ StillNew
    /\ turn = "aborted" => files.file = FlattenSeq(original)
    /\ turn \in {"back up", "move file", "rename", "move new"} => files.new = EditedText

\* Whenever the process dies, and whichever of the calls that move the files
\* fails, the user is left with the whole file, as it was or as edited, under
\* its own name or as the backup; but between the removal of the file and the
\* renaming of the new one, when there is no backup, and after a renaming
\* that failed, only the new file has the text.
NeverLost ==
    turn # "off" => \/ \E n \in {"file", "bak"} : files[n] \in {EditedText, FlattenSeq(original)}
                    \/ StillNew /\ files.file = Absent
\* No wrong word gets past the user: when the end of the file is reached,
\* each word is right, was let pass, or was replaced by several words.
NoneMissed ==
    turn = "exit" =>
        \A n \in DOMAIN original : \A k \in DOMAIN TokenWords(original[n]) :
            LET w == IF <<n, k>> \in DOMAIN decided THEN decided[<<n, k>>] ELSE TokenWords(original[n])[k]
            IN  <<n, k>> \in passed \/ Recheck(w)

\* The session does to the text what the user said, and all of it.
EditKept == FileIsEdited /\ NeverLost /\ NoneMissed
=============================================================================
