------------------------------ MODULE Writable ------------------------------
(***************************************************************************)
(* aspell's personal dictionaries: modules/speller/default/writable.cpp    *)
(* with the file helpers of common/file_util.cpp.  Several processes, each *)
(* with its own copy in memory, share one file (.pws or .prepl): a save    *)
(* opens it, locks it, merges what others wrote since, and writes it anew. *)
(* The lock is there only where USE_FILE_LOCKS is defined; configure can    *)
(* define it, the settings.h beside the sources do not.                    *)
(*                                                                         *)
(* A token stands for a word without spaces.  An entry is a pair of token  *)
(* sequences: <<word, <<>>>> in a word list, <<misspelling, correction>>   *)
(* in a replacement list.  Escaping and encoding of a line are left out.   *)
(***************************************************************************)
EXTENDS Integers, Sequences, FiniteSets, SequencesExt

CONSTANTS
    Proc,       \* the processes that use the dictionary
    Entry,      \* what their users may add
    Accepts,    \* <<w, e>>: SensitiveCompare lets the entry e stand for w
    Invalid,    \* words check_if_valid refuses; only an editor writes them
    MaxTime,    \* bound: seconds of the clock st_mtime is read from
    MaxAdds,    \* bound: additions of all processes
    MaxFaults   \* bound: crashes and edits by hand

\* One line of the file: the tokens between spaces.
Line(e) == e[1] \o e[2]

Nobody == "nobody"

Token ==
    UNION ({ToSet(e[1]) \cup ToSet(e[2]) : e \in Entry} \cup {ToSet(line) : line \in Invalid})

\* What stands for another is compared with it letter by letter, spaces too.
ASSUME DictAssumption ==
    /\ Nobody \notin Proc
    /\ \A e \in Entry : e \in Seq(Token) \X Seq(Token) /\ e[1] # <<>> /\ Line(e) \notin Invalid
    /\ Invalid \subseteq Seq(Token)
    /\ \A a \in Accepts : Len(a[1]) = Len(a[2])

VARIABLES
    locks,      \* the build defines USE_FILE_LOCKS
    overlapped, \* history: without locks, the processes whose save another's ran into
    kind,       \* "words" (WritableDict) or "repls" (WritableReplDict)
    file,       \* the dictionary file
    compat,     \* the file of an older release (.per, .rpl)
    lock,       \* who holds the write lock; Nobody
    now,        \* the clock, in seconds
    proc,       \* what each process holds
    adds, faults

dictvars == <<locks, overlapped, kind, file, compat, lock, now, proc, adds, faults>>

Unset  == -1                \* cur_file_date as the constructor leaves it

-----------------------------------------------------------------------------
\* The dictionary in memory: a set of entries.

Covers(w, e) == w = e \/ <<w, e>> \in Accepts

AddWord(dict, w) ==
    IF \E e \in dict : Covers(w, e[1]) THEN dict ELSE dict \cup {<<w, <<>>>>}

\* add_repl: the corrections of a misspelling hang on the first entry of its
\* bucket that stands for it.
AddRepl(dict, mis, cor) ==
    LET known == {e[1] : e \in {x \in dict : Covers(mis, x[1])}}
        m     == IF known = {} THEN mis ELSE CHOOSE k \in known : TRUE
    IN  IF \E e \in dict : e[1] = m /\ Covers(cor, e[2])
        THEN dict ELSE dict \cup {<<m, cor>>}

AddTo(dict, e) ==
    IF kind = "words" THEN AddWord(dict, e[1]) ELSE AddRepl(dict, e[1], e[2])

\* A line that merge has read; in a replacement list it breaks at its first
\* space, and one without a correction is passed over.
AddLine(dict, line) ==
    IF kind = "words" THEN AddWord(dict, line)
    ELSE IF Len(line) < 2 THEN dict
    ELSE AddRepl(dict, <<Head(line)>>, Tail(line))

\* merge: an invalid line of a word list empties the whole dictionary.
Merge(dict, lines) ==
    IF kind = "words" /\ \E i \in DOMAIN lines : lines[i] \in Invalid
    THEN [dict |-> {}, ok |-> FALSE]
    ELSE [dict |-> FoldLeft(AddLine, dict, lines), ok |-> TRUE]

-----------------------------------------------------------------------------
\* Files: whole says that there is more than zero bytes in it.

NoFile        == [there |-> FALSE, whole |-> FALSE, lines |-> <<>>, date |-> 0]
EmptyFile(t)  == [there |-> TRUE,  whole |-> FALSE, lines |-> <<>>, date |-> t]
FileOf(ls, t) == [there |-> TRUE,  whole |-> TRUE,  lines |-> ls,   date |-> t]

Away == [pc |-> "away", dict |-> {}, date |-> Unset, old |-> FALSE, exists |-> FALSE]

DictInit ==
    /\ locks \in BOOLEAN /\ overlapped = {}
    /\ kind \in {"words", "repls"}
    /\ \E e \in Entry :
         \/ file = NoFile              /\ compat = NoFile
         \/ file = FileOf(<<Line(e)>>, 0) /\ compat = NoFile
         \/ file = NoFile              /\ compat = FileOf(<<Line(e)>>, 0)
    /\ lock = Nobody
    /\ now = 0
    /\ proc = [p \in Proc |-> Away]
    /\ adds = 0
    /\ faults = 0

\* Nothing of this runs: a suite checks another machine.
DictOff ==
    /\ locks = FALSE /\ overlapped = {}
    /\ kind = "off" /\ file = NoFile /\ compat = NoFile /\ lock = Nobody
    /\ now = 0 /\ proc = [p \in Proc |-> Away] /\ adds = 0 /\ faults = 0

At(p, pc) == proc[p].pc = pc

Become(p, s) == proc' = [proc EXCEPT ![p] = s]

\* SpellerImpl::setup's load: a file that is missing or empty is the
\* cant_read_file a new dictionary starts from; any other failure leaves the
\* process without a speller.  The read lock waits for the writer.
LoadFrom(p, f, old) ==
    LET m == Merge({}, f.lines)
    IN  IF m.ok
        THEN Become(p, [Away EXCEPT !.pc = "idle", !.dict = m.dict, !.date = f.date, !.old = old])
        ELSE Become(p, Away)

LoadNothing(p) == Become(p, [Away EXCEPT !.pc = "idle"])

Load(p) ==
    /\ At(p, "away")
    /\ \/ file.there /\ file.whole /\ lock = Nobody /\ LoadFrom(p, file, FALSE)
       \/ file.there /\ ~file.whole /\ lock = Nobody /\ LoadNothing(p)
       \/ ~file.there /\ compat.there /\ LoadFrom(p, compat, TRUE)
       \/ ~file.there /\ ~compat.there /\ LoadNothing(p)
    /\ UNCHANGED <<overlapped, kind, file, compat, lock, now, adds, faults>>

Add(p, e) ==
    /\ At(p, "idle")
    /\ adds < MaxAdds
    /\ (kind = "words") = (e[2] = <<>>)
    /\ proc' = [proc EXCEPT ![p].dict = AddTo(@, e)]
    /\ adds' = adds + 1
    /\ UNCHANGED <<overlapped, kind, file, compat, lock, now, faults>>

\* Who is in a save; without locks, whose saves the one that begins runs into.
Saving == {q \in Proc : proc[q].pc \notin {"away", "idle"}}
Overlap(p) ==
    overlapped' = IF locks \/ Saving = {} THEN overlapped ELSE overlapped \cup Saving \cup {p}

\* open_file_writelock: without locks, whether the file exists is asked before
\* it is opened; "r+", and where that fails "w+", which truncates whatever has
\* come into being meanwhile; then the lock, and by the size under it whether
\* there was a file.
Look(p) ==
    /\ ~locks /\ At(p, "idle")
    /\ proc' = [proc EXCEPT ![p].pc = "looked", ![p].exists = file.there]
    /\ Overlap(p)
    /\ UNCHANGED <<kind, file, compat, lock, now, adds, faults>>

OpenForUpdate(p) ==
    /\ At(p, IF locks THEN "idle" ELSE "looked")
    /\ proc' = [proc EXCEPT ![p].pc = IF file.there THEN "opened" ELSE "create"]
    /\ UNCHANGED <<overlapped, kind, file, compat, lock, now, adds, faults>>

Create(p) ==
    /\ At(p, "create")
    /\ file' = EmptyFile(now)
    /\ proc' = [proc EXCEPT ![p].pc = "opened"]
    /\ UNCHANGED <<overlapped, kind, compat, lock, now, adds, faults>>

\* Mutant: fcntl with F_SETLK, whose refusal is ignored.
Locked(p) ==
    /\ lock' = IF locks THEN p ELSE lock
    /\ proc' = [proc EXCEPT ![p].pc = "locked", ![p].exists = IF locks THEN file.whole ELSE @]
    /\ UNCHANGED <<overlapped, kind, file, compat, now, adds, faults>>
TakeLockAnyway(p) ==
    /\ At(p, "opened")
    /\ Locked(p)
TakeLock(p) ==
    /\ At(p, "opened")
    /\ lock = Nobody
    /\ Locked(p)

\* get_modification_time(inout) > cur_file_date, which nothing has set in a
\* process that found no file: either outcome.
\* Mutant: the dates compared the wrong way round.
OutdatedByOlder(p) == {file.date < proc[p].date}
Outdated(p) == IF proc[p].date = Unset THEN {TRUE, FALSE}
               ELSE {file.date > proc[p].date}

\* update, and the return of save on its error; a process that came from the
\* older file goes on with the dictionary merge has emptied, or, when there
\* was no first line to read, left alone.
Update(p) ==
    /\ At(p, "locked")
    /\ \E stale \in Outdated(p) :
         LET m == Merge(proc[p].dict, file.lines)
         IN  \/ /\ ~(proc[p].exists /\ stale)
                /\ Become(p, [proc[p] EXCEPT !.pc = "skipped"])
                /\ UNCHANGED <<lock, overlapped>>
             \/ /\ proc[p].exists /\ stale /\ ~file.whole /\ proc[p].old
                /\ Become(p, [proc[p] EXCEPT !.pc = "skipped", !.date = file.date])
                /\ UNCHANGED <<lock, overlapped>>
             \/ /\ proc[p].exists /\ stale /\ file.whole /\ (m.ok \/ proc[p].old)
                /\ Become(p, [proc[p] EXCEPT !.pc = IF m.ok THEN "merged" ELSE "emptied",
                                             !.dict = m.dict, !.date = file.date])
                /\ UNCHANGED <<lock, overlapped>>
             \/ /\ proc[p].exists /\ stale /\ ~(file.whole /\ m.ok) /\ ~proc[p].old
                /\ Become(p, [proc[p] EXCEPT !.pc = "idle", !.dict = IF file.whole THEN m.dict ELSE @,
                                             !.exists = FALSE])
                /\ lock' = Nobody /\ overlapped' = overlapped \ {p}
    /\ UNCHANGED <<kind, file, compat, now, adds, faults>>

\* truncate_file, or where there are no locks the file is closed and opened
\* with "w+".
Truncate(p) ==
    /\ proc[p].pc \in {"skipped", "merged", "emptied"}
    /\ file' = EmptyFile(now)
    /\ proc' = [proc EXCEPT ![p].pc = "cut"]
    /\ UNCHANGED <<overlapped, kind, compat, lock, now, adds, faults>>

\* save's printf of the header and of every entry in the table's order, and
\* the flush that brings it to the file.
Write(p) ==
    /\ At(p, "cut")
    /\ \E order \in SetToSeqs(proc[p].dict) :
         file' = FileOf([i \in DOMAIN order |-> Line(order[i])], now)
    /\ proc' = [proc EXCEPT ![p].pc = "written"]
    /\ UNCHANGED <<overlapped, kind, compat, lock, now, adds, faults>>

\* update_file_date_info, the removal of the older file, and the end of
\* inout, which gives the lock back.
Finish(p) ==
    /\ At(p, "written")
    /\ proc' = [proc EXCEPT ![p].pc = "idle", ![p].date = file.date, ![p].old = FALSE, ![p].exists = FALSE]
    /\ compat' = IF proc[p].old THEN NoFile ELSE compat
    /\ lock' = Nobody /\ overlapped' = overlapped \ {p}
    /\ UNCHANGED <<kind, file, now, adds, faults>>

\* A process ends wherever it is; what was not flushed is gone.
Crash(p) ==
    /\ ~At(p, "away")
    /\ faults < MaxFaults
    /\ faults' = faults + 1
    /\ lock' = IF lock = p THEN Nobody ELSE lock
    /\ Become(p, Away)
    /\ overlapped' = overlapped \ {p}
    /\ UNCHANGED <<kind, file, compat, now, adds>>

\* The file is plain text, and users add lines to it; an editor takes no lock,
\* and what it does while a process saves is left out.
EditByHand ==
    /\ file.whole
    /\ IF locks THEN lock = Nobody ELSE Saving = {}
    /\ faults < MaxFaults
    /\ faults' = faults + 1
    /\ \E line \in Invalid : file' = FileOf(Append(file.lines, line), now)
    /\ UNCHANGED <<overlapped, kind, compat, lock, now, proc, adds>>

Tick ==
    /\ now < MaxTime
    /\ now' = now + 1
    /\ UNCHANGED <<overlapped, kind, file, compat, lock, proc, adds, faults>>

SaveStep(p) ==
    \/ Look(p) \/ OpenForUpdate(p) \/ Create(p) \/ TakeLock(p) \/ Update(p)
    \/ Truncate(p) \/ Write(p) \/ Finish(p)

DictNext ==
    /\ UNCHANGED locks
    /\ \/ \E p \in Proc : Load(p) \/ SaveStep(p) \/ Crash(p)
       \/ \E p \in Proc, e \in Entry : Add(p, e)
       \/ EditByHand
       \/ Tick

\* What the lock is for is promised only where there is one.
LockedSpec == DictInit /\ locks /\ [][DictNext]_dictvars
DictSpec == DictInit /\ [][DictNext]_dictvars

-----------------------------------------------------------------------------
\* The entries on disk: the lines of the files, and the writer's own list while
\* it is between the truncation and the flush.
Listed(lines) ==
    IF kind = "words" THEN {<<line, <<>>>> : line \in ToSet(lines) \ Invalid}
    ELSE {<<<<Head(line)>>, Tail(line)>> : line \in {l \in ToSet(lines) : Len(l) > 1}}
Kept ==
    Listed(file.lines) \cup Listed(compat.lines)
        \cup UNION {proc[p].dict : p \in {q \in Proc : At(q, "cut")}}

StandsIn(e, dict) == \E k \in dict : Covers(e[1], k[1]) /\ Covers(e[2], k[2])

\* The ways in which this code is known to lose a saved entry: "w+" cuts a
\* file another process has just made, whose older file may then be removed as
\* well; a process dies between the truncation and the flush; a process that
\* found no file never set its date; the file was written twice in the second
\* the process last looked at it; and a process that came from the older file
\* ignores the error of a merge that has emptied its dictionary.
Trampled ==
    \E p \in Proc : \/ At(p, "create") /\ proc'[p].pc = "opened"
                    \/ At(p, "written") /\ proc'[p].pc # "written" /\ ~file.whole
Died     == faults' # faults
Blind(p) ==
    \/ At(p, "skipped") /\ proc[p].date \in {Unset, file.date} /\ proc'[p].pc = "cut"
    \/ At(p, "emptied") /\ proc'[p].pc = "cut"
    \/ At(p, "written") /\ proc'[p].pc # "written" /\ proc[p].old /\ proc[p].dict = {}

\* Without locks, whatever a process does whose save has run into another's.
Collided(p) == ~locks /\ p \in overlapped /\ proc'[p] # proc[p]

\* An entry that is on disk stays there, whoever saves and in whatever order
\* their steps come, but for the ways named above: no save leaves out what
\* another process wrote in an earlier second (the lock, the date and the
\* merge of WritableBase::save).  A build without locks promises that only of
\* saves that do not overlap: one that begins after another has ended.  A
\* misspelling of two words is no entry: its line breaks at the first space
\* when it is read back.
NoSaveLosesAnother ==
    [][ \/ Trampled \/ Died
        \/ \E p \in Proc : Blind(p) \/ Collided(p)
        \/ \A e \in Kept : Len(e[1]) = 1 => StandsIn(e, Kept') ]_dictvars
=============================================================================
