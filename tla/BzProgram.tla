------------------------------ MODULE BzProgram ------------------------------
(***************************************************************************)
(* The bzip2 program (bzip2.c): command lines that compress, decompress    *)
(* and test files, a buffer at a time, over the library's file layer; on a *)
(* disk that can fill, killed or interrupted anywhere, with others who     *)
(* create files beside it and files that were damaged before.              *)
(*                                                                         *)
(* A name is a sequence, its stem and its suffixes.  A file has a type, a  *)
(* number of other links and its content: text, and the compressed tokens  *)
(* it is read as when it is decompressed.  Of the library the program      *)
(* knows its calls only: they are parameters here, and module BzFile has   *)
(* what they do.                                                           *)
(***************************************************************************)
EXTENDS Integers, Sequences, SequencesExt, FiniteSetsExt

CONSTANTS
    BZ2_bzWriteOpen, BZ2_bzWrite(_, _, _), BZ2_bzWriteClose(_, _, _),
    BZ2_bzReadOpen(_, _), BZ2_bzRead(_, _, _, _), BZ2_bzReadGetUnused(_),
    WriteTo(_, _), Flush(_),    \* fwrite and fflush, as the library's
    Meaning(_),     \* [ok, text]: what a compressed file is to be read as
    Junk            \* what a text is when it is taken for compressed data
CONSTANTS
    Names,          \* names that occur
    Disks,          \* the files there may be at first
    Commands,       \* command lines: records op, src, force, keep, noisy, small, args
    Spaces,         \* what the disk has space for when a file is opened
    Piece,          \* bytes of one fread or BZ2_bzRead, 5000
    MaxCommands,    \* bound: command lines
    MaxAccidents    \* bound: kills, interrupts and files others create

ASSUME ProgramAssumption ==
    /\ Commands # {}
    /\ \A disk \in Disks : DOMAIN disk = Names
    /\ \A c \in Commands : c.op \in {"Z", "UNZ", "TEST"} /\ c.noisy \in BOOLEAN
    /\ \A disk \in Disks : \A n \in Names :
          disk[n].text \in Seq(Nat) /\ Meaning(disk[n].z).text \in Seq(Nat)

VARIABLES
    fs,
    cmd,            \* the command line at work
    queue,          \* its operands still to come
    pc,
    job,            \* the operand at work
    exitValue,
    fails,          \* unzFailsExist, testFailsExist
    undone,         \* operands that were not done
    status,         \* how the last command line ended
    commands,
    accidents,
    failed,         \* an error handler ran
    cut,            \* history: command and operand whose output lost its end, unseen
    theirs,         \* files that are not to be touched: all, until a command
                    \*   line asks for it
    texts           \* what must not get lost

bvars == <<fs, cmd, queue, pc, job, exitValue, fails, undone, status, commands, accidents,
           failed, cut, theirs, texts>>

NoFile == [type |-> "none", links |-> 0, text |-> <<>>, z |-> <<>>]
Text(bytes) == [type |-> "file", links |-> 0, text |-> bytes, z |-> <<Junk>>]
Compressed(tokens) == [type |-> "file", links |-> 0, text |-> <<>>, z |-> tokens]
Exists(name) == fs[name].type # "none"

(* A compressed file's bytes as they are, which no text has.               *)
RawByte == 3
Raw(file) == IF file.text # <<>> THEN file.text ELSE [i \in DOMAIN file.z |-> RawByte]

(* mapSuffix over zSuffix and unzSuffix; hasSuffix.                        *)
hasSuffix(name) == Len(name) > 1 /\ Last(name) \in {"bz2", "bz", "tbz2", "tbz"}
unzName(name) ==
    IF ~hasSuffix(name) THEN Append(name, "out")
    ELSE Front(name) \o (IF Last(name) \in {"tbz2", "tbz"} THEN <<"tar">> ELSE <<>>)
ASSUME NamesAssumption ==
    /\ Names \subseteq Seq(STRING)
    /\ \A c \in Commands :
          /\ c.args \in Seq(Names)
          /\ \A i \in 1 .. Len(c.args) :
                /\ c.op = "Z" => hasSuffix(c.args[i]) \/ Append(c.args[i], "bz2") \in Names
                /\ c.op = "UNZ" => unzName(c.args[i]) \in Names
outName(name) == CASE cmd.op = "Z"   -> Append(name, "bz2")
                   [] cmd.op = "UNZ" -> unzName(name)
                   [] OTHER          -> name
ToFile == cmd.src = "F2F" /\ cmd.op # "TEST"

(* The checks of compress(), uncompress() and testf(): the operand is      *)
(* refused, or goes on.                                                    *)
Refused(name) ==
    \/ ~Exists(name)
    \/ cmd.op = "Z" /\ hasSuffix(name)
    \/ fs[name].type = "dir"
    \/ /\ ToFile /\ ~cmd.force
       /\ fs[name].type # "file" \/ Exists(outName(name)) \/ fs[name].links > 0

Idle == [name |-> <<>>, out |-> <<>>, del |-> FALSE, open |-> FALSE, lost |-> FALSE,
         b |-> <<>>, h |-> <<>>, pos |-> 0, unused |-> <<>>, streamNo |-> 0]
setExit(v) == exitValue' = IF v > exitValue THEN v ELSE exitValue

-----------------------------------------------------------------------------

(* main: the modes are set, the operands are done one after the other.     *)
Start(c) ==
    /\ pc = "idle" /\ commands < MaxCommands
    /\ commands' = commands + 1
    /\ cmd' = c /\ queue' = c.args /\ pc' = "next" /\ job' = Idle /\ status' = "none"
    /\ exitValue' = 0 /\ fails' = FALSE /\ undone' = {}
    /\ UNCHANGED <<fs, accidents, failed, cut, theirs, texts>>

Skip == setExit(1) /\ undone' = undone \cup {Head(queue)} /\ queue' = Tail(queue)
Same == UNCHANGED <<cmd, fails, status, commands, accidents>>

(* With -f an old output goes, and with it what only it holds.             *)
Without(f, name) == [n \in DOMAIN f \ {name} |-> f[n]]
Decoded(file, read) == IF file.text = <<>> /\ read.ok THEN read.text ELSE file.text
Is(t, text) == /\ t \in Seq(Nat) /\ text \in Seq(Nat) /\ IsPrefix(t, text)
               /\ \A i \in (Len(t) + 1) .. Len(text) : text[i] = RawByte
HeldBy(file, t) == file.type # "none" /\ Is(t, Decoded(file, Meaning(file.z)))

Check ==
    /\ pc = "next" /\ queue # <<>>
    /\ LET name == Head(queue)
           out  == outName(name)
           goes == ToFile /\ Exists(out)
       IN  IF Refused(name)
           THEN Skip /\ UNCHANGED <<fs, pc, job, theirs, texts>>
           ELSE /\ fs' = IF goes THEN [fs EXCEPT ![out] = NoFile] ELSE fs
                /\ theirs' = IF goes THEN Without(theirs, out) ELSE theirs
                /\ texts' = IF goes THEN {t \in texts : \E n \in Names \ {out} : HeldBy(fs[n], t)}
                            ELSE texts
                /\ job' = [Idle EXCEPT !.name = name, !.out = out]
                /\ pc' = "open"
                /\ UNCHANGED <<queue, exitValue, undone>>
    /\ Same /\ UNCHANGED <<failed, cut>>

Opened(space) ==
    [job EXCEPT !.open = ToFile, !.del = TRUE,
                !.b = IF cmd.op = "Z" THEN <<BZ2_bzWriteOpen>> ELSE <<>>,
                !.h = [tokens |-> <<>>, held |-> <<>>,
                       space |-> IF ToFile THEN space ELSE 100, ferr |-> FALSE]]

(* Mutant: the output is opened as any file is, over one that is there.    *)
OpenOver(space) ==
    /\ pc = "open"
    /\ fs' = IF ToFile THEN [fs EXCEPT ![job.out] = Compressed(<<>>)] ELSE fs
    /\ job' = Opened(space)
    /\ pc' = IF cmd.op = "Z" THEN "compress" ELSE "stream"
    /\ Same /\ UNCHANGED <<queue, exitValue, undone, failed, cut, theirs, texts>>

(* fopen_output_safely makes the file or, if there is one, fails.          *)
Open(space) ==
    /\ pc = "open"
    /\ IF ToFile /\ Exists(job.out)
       THEN Skip /\ pc' = "next" /\ UNCHANGED <<fs, job>>
       ELSE /\ fs' = IF ToFile THEN [fs EXCEPT ![job.out] = Compressed(<<>>)] ELSE fs
            /\ job' = Opened(space)
            /\ pc' = IF cmd.op = "Z" THEN "compress" ELSE "stream"
            /\ UNCHANGED <<queue, exitValue, undone>>
    /\ Same /\ UNCHANGED <<failed, cut, theirs, texts>>

(* What cleanUpAndFail leaves, which every error handler ends in: it does  *)
(* not exit, so that its callers go on, most of them to another handler.   *)
(* The output is closed once more then; that is undefined, and may end the *)
(* program.                                                                *)
Cleaned == IF ToFile /\ job.del /\ Exists(job.name) THEN [fs EXCEPT ![job.out] = NoFile] ELSE fs
Handlers(v, next) ==
    /\ fs' = Cleaned /\ setExit(v) /\ failed' = TRUE
    /\ undone' = undone \cup {job.name} /\ cut' = cut
    /\ job' = [job EXCEPT !.open = FALSE]
    /\ pc' \in IF ToFile THEN {next, "aborted"} ELSE {next}

(* The output is complete and closed.                                      *)
Content(h) == IF cmd.op = "Z" THEN Compressed(h.tokens)
              ELSE [Text(h.tokens) EXCEPT !.z = IF h.tokens = <<>> THEN <<>> ELSE @]
Closed(h) ==
    /\ fs' = IF ToFile THEN [fs EXCEPT ![job.out] = Content(h)] ELSE fs
    /\ job' = [job EXCEPT !.h = h, !.open = FALSE]
    /\ pc' = "finish"
    /\ UNCHANGED <<exitValue, undone, failed, cut>>
(* closeok: the input is closed, and the output flushed and closed.        *)
CloseOk(h) == IF Flush(h).ferr THEN Handlers(3, "finish") ELSE Closed(Flush(h))

Going(b, h, pos) ==
    /\ job' = [job EXCEPT !.b = b, !.h = h, !.pos = pos]
    /\ UNCHANGED <<fs, pc, exitValue, undone, failed, cut>>
Rest == UNCHANGED <<queue, theirs, texts>> /\ Same

(* compressStream.                                                         *)
Written(r, upto) ==
    IF r.b.lastErr = "OK" THEN Going(<<r.b>>, r.h, upto) ELSE Handlers(3, "finish")
CompressPiece ==
    /\ pc = "compress" /\ ~job.lost
    /\ LET text == fs[job.name].text
           upto == Min({job.pos + Piece, Len(text)})
       IN  /\ job.pos < Len(text)
           /\ Written(BZ2_bzWrite(job.b[1], SubSeq(text, job.pos + 1, upto), job.h), upto)
    /\ Rest
WriteClosed(r) == IF r.b.lastErr = "OK" THEN Closed(r.h) ELSE Handlers(3, "finish")
CompressEnd ==
    /\ pc = "compress" /\ ~job.lost
    /\ job.pos = Len(fs[job.name].text)
    /\ WriteClosed(BZ2_bzWriteClose(job.b[1], FALSE, job.h))
    /\ Rest

(* uncompressStream and testStream: stream after stream, with what the     *)
(* last one's buffer still has.                                            *)
NextStream ==
    /\ pc = "stream" /\ ~job.lost /\ job.b = <<>>
    /\ job' = [job EXCEPT !.b = <<BZ2_bzReadOpen(cmd.small, job.unused)>>, !.streamNo = @ + 1]
    /\ Rest /\ UNCHANGED <<fs, pc, exitValue, undone, failed, cut>>

StreamEnd(r, h) ==
    IF BZ2_bzReadGetUnused(r.b) = <<>> /\ r.pos = Len(fs[job.name].z) THEN CloseOk(h)
    ELSE /\ job' = [job EXCEPT !.b = <<>>, !.h = h, !.pos = r.pos,
                               !.unused = BZ2_bzReadGetUnused(r.b)]
         /\ UNCHANGED <<fs, pc, exitValue, undone, failed, cut>>

(* A file that is not one of bzip2's: passed through with -f, refused, or, *)
(* behind a stream, ignored; the close then flushes, which may fail, and   *)
(* nobody looks.                                                           *)
PassedThrough(h) == IF h.ferr THEN Handlers(3, "finish") ELSE CloseOk(h)
CloseBlind(h) ==
    IF Flush(h).ferr
    THEN /\ fs' = IF ToFile THEN [fs EXCEPT ![job.out] = Content(Flush(h))] ELSE fs
         /\ job' = [job EXCEPT !.h = Flush(h), !.open = FALSE]
         /\ pc' = "finish"
         /\ undone' = undone \cup {job.name} /\ cut' = cut \cup {<<commands, job.name>>}
         /\ UNCHANGED <<exitValue, failed>>
    ELSE Closed(Flush(h))
NoMagic(h) ==
    IF cmd.force /\ cmd.op = "UNZ" THEN PassedThrough(WriteTo(h, Raw(fs[job.name])))
    ELSE IF job.streamNo > 1 THEN CloseBlind(h)
    ELSE /\ pc' = "bad" /\ job' = [job EXCEPT !.open = FALSE]
         /\ UNCHANGED <<fs, exitValue, undone, failed, cut>>

(* Damaged data.  A test says so; to decompress it calls handlers, and     *)
(* behind the first stream takes the file for done.                        *)
Damaged ==
    IF cmd.op = "TEST" THEN pc' = "bad" /\ UNCHANGED <<fs, job, exitValue, undone, failed, cut>>
    ELSE Handlers(2, IF job.streamNo = 1 THEN "bad" ELSE "finish")

Took(r, h) ==
    CASE h.ferr -> Handlers(3, "finish")
      [] ~h.ferr /\ r.b.lastErr = "OK" -> Going(<<r.b>>, h, r.pos)
      [] ~h.ferr /\ r.b.lastErr = "STREAM_END" -> StreamEnd(r, h)
      [] ~h.ferr /\ r.b.lastErr = "DATA_ERROR_MAGIC" -> NoMagic(h)
      [] OTHER -> Damaged
Read(r) == Took(r, IF cmd.op = "TEST" THEN job.h ELSE WriteTo(job.h, r.bytes))
ReadPiece ==
    /\ pc = "stream" /\ ~job.lost /\ job.b # <<>>
    /\ Read(BZ2_bzRead(job.b[1], fs[job.name].z, job.pos, Piece))
    /\ Rest

(* An interrupt's handler closed the output: what is still written to it   *)
(* goes nowhere, which is undefined again.                                 *)
WriteNowhere ==
    /\ pc \in {"compress", "stream"} /\ job.lost
    /\ pc' \in {"finish", "aborted"}
    /\ Rest /\ UNCHANGED <<fs, job, exitValue, undone, failed, cut>>

NextOperand == pc' = "next" /\ queue' = Tail(queue) /\ job' = Idle

(* compress() and uncompress() behind the stream: the input goes.          *)
Finish ==
    /\ pc = "finish"
    /\ fs' = IF ToFile /\ ~cmd.keep THEN [fs EXCEPT ![job.name] = NoFile] ELSE fs
    /\ theirs' = IF ToFile /\ ~cmd.keep THEN Without(theirs, job.name) ELSE theirs
    /\ NextOperand /\ Same /\ UNCHANGED <<exitValue, undone, failed, cut, texts>>

(* The output of what is no compressed file goes.                          *)
FinishBad ==
    /\ pc = "bad"
    /\ fs' = IF ToFile THEN [fs EXCEPT ![job.out] = NoFile] ELSE fs
    /\ fails' = TRUE /\ undone' = undone \cup {job.name}
    /\ IF cmd.op = "UNZ" THEN setExit(2) ELSE UNCHANGED exitValue
    /\ NextOperand
    /\ UNCHANGED <<cmd, status, commands, accidents, failed, cut, theirs, texts>>

EndOfCommand ==
    /\ pc = "next" /\ queue = <<>>
    /\ IF fails /\ (cmd.op = "UNZ" \/ cmd.noisy) THEN setExit(2) ELSE UNCHANGED exitValue
    /\ pc' = "idle" /\ status' = "exit"
    /\ UNCHANGED <<fs, cmd, queue, job, fails, undone, commands, accidents, failed, cut, theirs, texts>>

-----------------------------------------------------------------------------

(* The program ends at once; of an open output there is what was written   *)
(* and, if stdio's buffer is smaller, some of what it would have held.     *)
EndsAtOnce ==
    /\ IF job.open
       THEN \E n \in 0 .. Min({Len(job.h.held), job.h.space}) :
               fs' = [fs EXCEPT ![job.out] =
                         Content([job.h EXCEPT !.tokens = @ \o SubSeq(job.h.held, 1, n)])]
       ELSE fs' = fs
    /\ pc' = "idle" /\ status' = "killed" /\ job' = Idle
    /\ UNCHANGED <<cmd, queue, exitValue, fails, undone, commands, failed, cut, theirs, texts>>
Abort == pc = "aborted" /\ EndsAtOnce /\ UNCHANGED accidents
Kill ==
    /\ pc \notin {"idle", "aborted"} /\ accidents < MaxAccidents
    /\ EndsAtOnce /\ accidents' = accidents + 1

(* mySignalCatcher, which is there when files become files, runs its       *)
(* handler and returns.                                                    *)
Interrupt ==
    /\ cmd.src = "F2F" /\ pc \notin {"idle", "aborted"} /\ accidents < MaxAccidents
    /\ accidents' = accidents + 1
    /\ fs' = Cleaned /\ setExit(1) /\ failed' = TRUE
    /\ job' = [job EXCEPT !.lost = job.open, !.open = FALSE]
    /\ undone' = IF pc = "next" THEN undone ELSE undone \cup {job.name}
    /\ UNCHANGED <<cmd, queue, pc, fails, status, commands, cut, theirs, texts>>

(* Another program makes the file that was not there when it was checked.  *)
Other ==
    /\ pc = "open" /\ ToFile /\ accidents < MaxAccidents
    /\ job.out \in Names /\ ~Exists(job.out)
    /\ accidents' = accidents + 1
    /\ fs' = [fs EXCEPT ![job.out] = Text(<<2>>)]
    /\ theirs' = [n \in DOMAIN theirs \cup {job.out} |-> fs'[n]]
    /\ texts' = texts \cup {<<2>>}
    /\ UNCHANGED <<cmd, queue, pc, job, exitValue, fails, undone, status, commands, failed, cut>>

ProgramInit ==
    /\ fs \in Disks
    /\ cmd = CHOOSE c \in Commands : TRUE
    /\ queue = <<>> /\ pc = "idle" /\ job = Idle
    /\ exitValue = 0 /\ fails = FALSE /\ undone = {} /\ status = "none" /\ commands = 0
    /\ accidents = 0 /\ failed = FALSE /\ cut = {}
    /\ theirs = [n \in {m \in Names : Exists(m)} |-> fs[n]]
    /\ texts = {Decoded(fs[n], Meaning(fs[n].z)) :
                   n \in {m \in Names : Exists(m) /\ (fs[m].text # <<>> \/ Meaning(fs[m].z).ok)}}

ProgramNext ==
    \/ \E c \in Commands : Start(c)
    \/ \E space \in Spaces : Open(space)
    \/ Check \/ CompressPiece \/ CompressEnd \/ NextStream \/ ReadPiece
    \/ Finish \/ FinishBad \/ EndOfCommand
    \/ WriteNowhere \/ Abort \/ Kill \/ Interrupt \/ Other

ProgramSpec == ProgramInit /\ [][ProgramNext]_bvars

-----------------------------------------------------------------------------

(* Files the command line does not name as its operands or, with -f, as    *)
(* its outputs stay as they are, whatever happens: also the file that      *)
(* another program makes between the check and the open.                   *)
Untouched == \A n \in DOMAIN theirs : fs[n] = theirs[n]

(* No text gets lost unless an error handler ran: a kill at any time       *)
(* leaves it in the input or in a complete output, and so does a command   *)
(* line that undoes another.  (The handlers return, so that an error or an *)
(* interrupt ends with the input removed: HandlersEnd.)  The one exception *)
(* besides: behind trailing garbage the close of the output is not looked  *)
(* at (bzip2.c:534), so that a disk that is full just then loses the end   *)
(* of the output, and the input is removed.                                *)
NothingLost == ~failed /\ cut = {} => \A t \in texts : \E n \in Names : HeldBy(fs[n], t)

(* The exit value tells what happened: 0 only if every operand was done,   *)
(* but for those whose output was cut at that same close, and not 0 only   *)
(* if one was not or a handler ran; just a quiet test is silent about      *)
(* damage.                                                                 *)
Cut(n) == <<commands, n>> \in cut
ExitIsTrue ==
    status = "exit" /\ (cmd.op = "TEST" => cmd.noisy) =>
        /\ exitValue = 0 => \A n \in undone : Cut(n)
        /\ exitValue # 0 => undone # {} \/ failed

(* What is taken for done was: the output holds the input's content, and a *)
(* file that passes a test can be decompressed; but for those cut.         *)
DoneIsDone ==
    pc = "finish" /\ ~failed /\ ~Cut(job.name) =>
        LET file == fs[job.name]
            read == Meaning(file.z)
        IN  /\ cmd.op # "Z" /\ ~cmd.force => read.ok
            /\ ToFile => /\ HeldBy(fs[job.out], Decoded(file, read))
                         /\ cmd.op # "Z" /\ ~read.ok => fs[job.out].text = Raw(file)

(* bzip2 never claims more than it did, in its exit value or by removing   *)
(* the input.                                                              *)
SuccessIsTrue == ExitIsTrue /\ DoneIsDone

(* What the comments say behind the calls of compressStream and            *)
(* uncompressStream: with an error one does not get there.                 *)
HandlersEnd == pc = "finish" => job.name \notin undone
=============================================================================
