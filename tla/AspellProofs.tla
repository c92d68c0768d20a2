---------------------------- MODULE AspellProofs ----------------------------
(***************************************************************************)
(* Theorems about the parts of aspell that keep what a user told them: a   *)
(* personal dictionary that processes share, and the pipe.                 *)
(***************************************************************************)
EXTENDS Writable, Speller, Recursion

-----------------------------------------------------------------------------
(* Processes that share a personal dictionary, for any number of them, any *)
(* entries and any order of their steps, in a build with file locks        *)
(* (LockedSpec).                                                           *)

Lines == Seq(Token)
Dicts == SUBSET (Lines \X Lines)
ShortFile == [there : BOOLEAN, whole : BOOLEAN, lines : Seq(Lines), date : Nat]
Holding == {"locked", "skipped", "merged", "emptied", "cut", "written"}
Whereabouts == Holding \cup {"away", "idle", "looked", "create", "opened"}
ProcState == [pc : Whereabouts, dict : Dicts, date : Nat \cup {Unset}, old : BOOLEAN, exists : BOOLEAN]

(* What a dictionary in memory holds: valid words, or pairs.  k is the     *)
(* kind of the dictionary.                                                 *)
GoodEntry(k, e) ==
    IF k = "words" THEN e[2] = <<>> /\ e[1] \notin Invalid ELSE e[1] # <<>> /\ e[2] # <<>>
GoodDict(k, dict) == dict \in Dicts /\ IsFiniteSet(dict) /\ \A e \in dict : GoodEntry(k, e)

DictTypeOK ==
    /\ kind \in {"words", "repls"}
    /\ file \in ShortFile /\ compat \in ShortFile
    /\ lock \in Proc \cup {Nobody}
    /\ now \in Nat /\ adds \in Nat /\ faults \in Nat
    /\ proc \in [Proc -> ProcState]

(* Who is between taking the lock and giving it back holds it.             *)
LockHeld == \A p \in Proc : proc[p].pc \in Holding => lock = p

(* No process has seen a later date than the file has.                     *)
DatesPast ==
    /\ file.date <= now /\ compat.date = 0
    /\ \A p \in Proc : proc[p].date <= file.date

EmptyFiles == ~file.whole => file.lines = <<>>
GoodDicts == \A p \in Proc : GoodDict(kind, proc[p].dict)

ListedIn(k, lines) ==
    IF k = "words" THEN {<<line, <<>>>> : line \in ToSet(lines) \ Invalid}
    ELSE {<<<<Head(line)>>, Tail(line)>> : line \in {l \in ToSet(lines) : Len(l) > 1}}
Covered(k, lines, dict) == \A e \in ListedIn(k, lines) : StandsIn(e, dict)
Single(dict) == {e \in dict : Len(e[1]) = 1}

(* What a process that is saving, in state s, knows of the file it is      *)
(* about to cut, has cut, or has written.                                  *)
SaverKnows(k, s, f) ==
    /\ s.pc = "locked" => s.exists \/ ~f.whole
    /\ s.pc = "skipped" => ~f.whole \/ s.date = Unset \/ f.date <= s.date
    /\ s.pc = "merged" => Covered(k, f.lines, s.dict)
    /\ s.pc = "cut" => f.lines = <<>>
    /\ s.pc = "written" /\ f.whole => Single(s.dict) \subseteq ListedIn(k, f.lines)

(* What came from the older file is still there, or a merge has emptied it.*)
OldCovered(k, s, older) ==
    s.old => \/ Covered(k, older.lines, s.dict)
             \/ s.dict = {} /\ s.pc \in {"emptied", "cut", "written"}

DictIInv ==
    /\ locks
    /\ DictTypeOK /\ LockHeld /\ DatesPast /\ EmptyFiles /\ GoodDicts
    /\ \A p \in Proc : SaverKnows(kind, proc[p], file) /\ OldCovered(kind, proc[p], compat)

-----------------------------------------------------------------------------
(* Entries and lines.                                                      *)

LEMMA CoversItself ==
    /\ \A w : Covers(w, w)
    /\ \A e, dict : e \in dict => StandsIn(e, dict)
BY DEF Covers, StandsIn

LEMMA StandsInMore ==
    ASSUME NEW e, NEW dict, NEW more, dict \subseteq more, StandsIn(e, dict)
    PROVE  StandsIn(e, more)
BY DEF StandsIn

LEMMA AddedEntry ==
    ASSUME NEW dict, GoodDict(kind, dict), NEW e \in Lines \X Lines, GoodEntry(kind, e)
    PROVE  GoodDict(kind, dict \cup {e})
BY FS_AddElement DEF GoodDict, Dicts

LEMMA AddWordKeeps ==
    ASSUME kind = "words", NEW dict, GoodDict(kind, dict), NEW w \in Lines, w \notin Invalid
    PROVE  /\ GoodDict(kind, AddWord(dict, w)) /\ dict \subseteq AddWord(dict, w)
           /\ StandsIn(<<w, <<>>>>, AddWord(dict, w))
<1> DEFINE e == <<w, <<>>>>
<1>1. e \in Lines \X Lines /\ GoodEntry(kind, e) /\ e[1] = w /\ e[2] = <<>>
  <2>1. e \in Lines \X Lines /\ e[1] = w /\ e[2] = <<>>
    <3>1. <<>> \in Lines
      BY DEF Lines
    <3> QED BY <3>1
  <2>2. GoodEntry(kind, e)
    <3> HIDE DEF e
    <3> QED BY <2>1 DEF GoodEntry
  <2> QED BY <2>1, <2>2
<1>2. CASE \E k \in dict : Covers(w, k[1])
  <2>1. AddWord(dict, w) = dict
    BY <1>2 DEF AddWord
  <2>2. PICK k \in dict : Covers(w, k[1])
    BY <1>2
  <2>3. k[2] = <<>>
    BY DEF GoodDict, GoodEntry
  <2>4. StandsIn(e, dict)
    BY <1>1, <2>2, <2>3, CoversItself DEF StandsIn
  <2> QED BY <2>1, <2>4
<1>3. CASE ~ \E k \in dict : Covers(w, k[1])
  <2>1. AddWord(dict, w) = dict \cup {e}
    BY <1>3 DEF AddWord
  <2>2. GoodDict(kind, dict \cup {e})
    BY <1>1, AddedEntry
  <2>3. StandsIn(e, dict \cup {e})
    BY CoversItself
  <2> QED BY <2>1, <2>2, <2>3
<1> QED BY <1>2, <1>3

LEMMA AddReplKeeps ==
    ASSUME kind # "words", NEW dict, GoodDict(kind, dict),
           NEW mis \in Lines, NEW cor \in Lines, mis # <<>>, cor # <<>>
    PROVE  /\ GoodDict(kind, AddRepl(dict, mis, cor)) /\ dict \subseteq AddRepl(dict, mis, cor)
           /\ StandsIn(<<mis, cor>>, AddRepl(dict, mis, cor))
<1> DEFINE known == {e[1] : e \in {x \in dict : Covers(mis, x[1])}}
           m == IF known = {} THEN mis ELSE CHOOSE k \in known : TRUE
           e == <<m, cor>>
<1>1. \A k \in known : k \in Lines /\ k # <<>> /\ Covers(mis, k)
  BY DEF GoodDict, GoodEntry, Dicts
<1>2. m \in Lines /\ m # <<>> /\ Covers(mis, m)
  <2>1. CASE known = {}
    BY <2>1, CoversItself
  <2>2. CASE known # {}
    <3>1. m \in known
      BY <2>2
    <3> HIDE DEF m, known
    <3> QED BY <3>1, <1>1
  <2> QED BY <2>1, <2>2
<1>3. AddRepl(dict, mis, cor)
        = IF \E x \in dict : x[1] = m /\ Covers(cor, x[2]) THEN dict ELSE dict \cup {e}
  BY DEF AddRepl
<1> HIDE DEF m
<1>4. CASE \E x \in dict : x[1] = m /\ Covers(cor, x[2])
  <2>1. PICK x \in dict : x[1] = m /\ Covers(cor, x[2])
    BY <1>4
  <2>2. StandsIn(<<mis, cor>>, dict)
    BY <2>1, <1>2 DEF StandsIn
  <2> QED BY <2>2, <1>3, <1>4
<1>5. CASE ~ \E x \in dict : x[1] = m /\ Covers(cor, x[2])
  <2>1. AddRepl(dict, mis, cor) = dict \cup {e}
    BY <1>3, <1>5
  <2>2. e \in Lines \X Lines /\ GoodEntry(kind, e)
    BY <1>2 DEF GoodEntry
  <2>3. GoodDict(kind, dict \cup {e})
    BY <2>2, AddedEntry
  <2>4. StandsIn(<<mis, cor>>, dict \cup {e})
    <3>1. e[1] = m /\ e[2] = cor /\ e \in dict \cup {e} /\ Covers(cor, cor)
      BY CoversItself
    <3> DEFINE s == <<mis, cor>>
    <3>2. s[1] = mis /\ s[2] = cor
      OBVIOUS
    <3> HIDE DEF s, e
    <3>3. StandsIn(s, dict \cup {e})
      BY <3>1, <3>2, <1>2 DEF StandsIn
    <3> QED BY <3>3 DEF s
  <2> QED BY <2>1, <2>3, <2>4
<1> QED BY <1>4, <1>5

(* What one line says.                                                     *)
Said(line) ==
    IF kind = "words" THEN {<<line, <<>>>>}
    ELSE IF Len(line) > 1 THEN {<<<<Head(line)>>, Tail(line)>>} ELSE {}
Fit(line) == line \in Lines /\ (kind = "words" => line \notin Invalid)

LEMMA LongerThanNone ==
    ASSUME NEW q \in Seq(Token), Len(q) > 0
    PROVE  q # <<>>
<1> SUFFICES ASSUME q = <<>> PROVE FALSE
  OBVIOUS
<1>1. Len(q) = 0
  OBVIOUS
<1> QED BY <1>1

LEMMA AddLineKeeps ==
    ASSUME NEW dict, GoodDict(kind, dict), NEW line, Fit(line)
    PROVE  /\ GoodDict(kind, AddLine(dict, line)) /\ dict \subseteq AddLine(dict, line)
           /\ \A e \in Said(line) : StandsIn(e, AddLine(dict, line))
<1>1. line \in Lines /\ (kind = "words" => line \notin Invalid)
  BY DEF Fit
<1>2. CASE kind = "words"
  <2>1. AddLine(dict, line) = AddWord(dict, line) /\ Said(line) = {<<line, <<>>>>}
    BY <1>2 DEF AddLine, Said
  <2> QED BY <2>1, <1>1, <1>2, AddWordKeeps
<1>3. CASE kind # "words" /\ Len(line) > 1
  <2>1. /\ AddLine(dict, line) = AddRepl(dict, <<Head(line)>>, Tail(line))
        /\ Said(line) = {<<<<Head(line)>>, Tail(line)>>}
    BY <1>1, <1>3 DEF AddLine, Said, Lines
  <2>2. /\ <<Head(line)>> \in Lines /\ Tail(line) \in Lines
        /\ <<Head(line)>> # <<>> /\ Tail(line) # <<>>
    <3>1. line \in Seq(Token) /\ Len(line) > 1
      BY <1>1, <1>3 DEF Lines
    <3>2. Head(line) \in Token /\ Tail(line) \in Seq(Token) /\ Len(Tail(line)) = Len(line) - 1
      BY <3>1
    <3>3. Tail(line) # <<>>
      <4>1. Len(Tail(line)) > 0
        BY <3>1, <3>2
      <4>2. Tail(line) \in Seq(Token)
        BY <3>2
      <4> QED BY <4>1, <4>2, LongerThanNone, Zenon
    <3> QED BY <3>2, <3>3 DEF Lines
  <2> DEFINE mis == <<Head(line)>>
             cor == Tail(line)
  <2>3. mis \in Lines /\ cor \in Lines /\ mis # <<>> /\ cor # <<>> /\ kind # "words"
    BY <2>2, <1>3
  <2>4. AddLine(dict, line) = AddRepl(dict, mis, cor) /\ Said(line) = {<<mis, cor>>}
    BY <2>1
  <2> HIDE DEF mis, cor
  <2>5. /\ GoodDict(kind, AddRepl(dict, mis, cor)) /\ dict \subseteq AddRepl(dict, mis, cor)
        /\ StandsIn(<<mis, cor>>, AddRepl(dict, mis, cor))
    BY <2>3, AddReplKeeps
  <2> QED BY <2>4, <2>5
<1>4. CASE kind # "words" /\ ~(Len(line) > 1)
  <2>1. AddLine(dict, line) = dict /\ Said(line) = {}
    BY <1>1, <1>4 DEF AddLine, Said, Lines
  <2> QED BY <2>1
<1> QED BY <1>2, <1>3, <1>4

(* A whole file: every line that fits is added to what was there.          *)
LEMMA FoldAddsLines ==
    ASSUME NEW dict, GoodDict(kind, dict), NEW lines \in Seq(Lines),
           \A i \in DOMAIN lines : Fit(lines[i])
    PROVE  LET new == FoldLeft(AddLine, dict, lines)
           IN  /\ GoodDict(kind, new) /\ dict \subseteq new
               /\ \A i \in DOMAIN lines : \A e \in Said(lines[i]) : StandsIn(e, new)
<1> DEFINE S == DOMAIN lines
           V == {d \in Dicts : GoodDict(kind, d)}
           pick == [T \in SUBSET S |-> Max(T)]
           step == [p \in S \X V |-> AddLine(p[2], lines[p[1]])]
           Body(g) == [T \in SUBSET S |->
                    IF T = {} THEN dict ELSE AddLine(g[T \ {Max(T)}], lines[Max(T)])]
           it == CHOOSE it : it = [T \in SUBSET S |->
                    IF T = {} THEN dict ELSE AddLine(it[T \ {Max(T)}], lines[Max(T)])]
<1>1. FoldLeft(AddLine, dict, lines) = it[S]
  BY Zenon DEF FoldLeft, MapThenFoldSet
<1>2. S = 1 .. Len(lines) /\ Len(lines) \in Nat
  OBVIOUS
<1> HIDE DEF S
<1>3. IsFiniteSet(S) /\ Picks(pick, S)
  <2>1. IsFiniteSet(S)
    BY <1>2, FS_Interval
  <2>2. \A T \in SUBSET S : T # {} => Max(T) \in T
    BY <1>2, MaxPicked
  <2> QED BY <2>1, <2>2, Zenon DEF Picks
<1>4. \A x \in S : Fit(lines[x])
  BY DEF S
<1>5. dict \in V /\ \A d \in V : GoodDict(kind, d)
  BY DEF GoodDict
<1>6. \A d : GoodDict(kind, d) => d \in V
  BY DEF GoodDict
<1> HIDE DEF V
<1>7. \A x \in S, d \in V : /\ AddLine(d, lines[x]) \in V /\ d \subseteq AddLine(d, lines[x])
                            /\ \A e \in Said(lines[x]) : StandsIn(e, AddLine(d, lines[x]))
  BY <1>4, <1>5, <1>6, AddLineKeeps
<1>8. step \in [S \X V -> V] /\ \A x \in S, d \in V : step[<<x, d>>] = AddLine(d, lines[x])
  <2>1. \A p \in S \X V : AddLine(p[2], lines[p[1]]) \in V
    BY <1>7
  <2> QED BY <2>1
<1>9. ASSUME NEW g \in [SUBSET S -> V] PROVE FoldBody(g, S, dict, pick, step) = Body(g)
  <2>1. ASSUME NEW T \in SUBSET S, T # {}
        PROVE  step[<<pick[T], g[T \ {pick[T]}]>>] = AddLine(g[T \ {Max(T)}], lines[Max(T)])
    <3>1. pick[T] = Max(T)
      OBVIOUS
    <3>2. pick[T] \in S /\ g[T \ {pick[T]}] \in V
      BY <2>1, <1>3 DEF Picks
    <3> HIDE DEF step, pick
    <3>3. step[<<pick[T], g[T \ {pick[T]}]>>] = AddLine(g[T \ {pick[T]}], lines[pick[T]])
      BY <3>2, <1>8
    <3> QED BY <3>1, <3>3
  <2> HIDE DEF pick, step
  <2> QED BY <2>1 DEF FoldBody
<1>10. it = Body(it)
  <2>1. it = CHOOSE g : g = Body(g)
    BY Zenon
  <2> HIDE DEF it, Body, pick, step
  <2>2. HasFold(V, S, dict, pick, step)
    BY <1>3, <1>5, <1>8, FoldExists
  <2>3. PICK g \in [SUBSET S -> V] : g = Body(g)
    BY <2>2, <1>9 DEF HasFold
  <2> QED BY <2>1, <2>3
<1> DEFINE Right(T) == /\ it[T] \in V /\ dict \subseteq it[T]
                       /\ \A x \in T : \A e \in Said(lines[x]) : StandsIn(e, it[T])
           G == {T \in SUBSET S : Right(T)}
<1> HIDE DEF it
<1>11. {} \in G
  <2>1. it[{}] = dict
    BY <1>10
  <2> QED BY <2>1, <1>5
<1>12. \A T \in SUBSET S : T # {} /\ T \ {pick[T]} \in G => T \in G
  <2> SUFFICES ASSUME NEW T \in SUBSET S, T # {}, T \ {pick[T]} \in G PROVE T \in G
    OBVIOUS
  <2> DEFINE x == pick[T]
             R == T \ {x}
  <2>1. x = Max(T)
    OBVIOUS
  <2>2. x \in S /\ x \in T
    BY <1>3 DEF Picks
  <2>3. it[T] = AddLine(it[R], lines[x])
    BY <1>10, <2>1
  <2>4. Right(R)
    OBVIOUS
  <2> HIDE DEF x, R, pick, Right
  <2>5. it[R] \in V
    BY <2>4 DEF Right
  <2>6. /\ it[T] \in V /\ it[R] \subseteq it[T]
        /\ \A e \in Said(lines[x]) : StandsIn(e, it[T])
    <3>1. /\ AddLine(it[R], lines[x]) \in V /\ it[R] \subseteq AddLine(it[R], lines[x])
          /\ \A e \in Said(lines[x]) : StandsIn(e, AddLine(it[R], lines[x]))
      BY <2>2, <2>5, <1>7
    <3> QED BY <2>3, <3>1
  <2>7. \A y \in R : \A e \in Said(lines[y]) : StandsIn(e, it[T])
    BY <2>4, <2>6, StandsInMore DEF Right
  <2>8. dict \subseteq it[T]
    BY <2>4, <2>6 DEF Right
  <2>9. \A y \in T : y = x \/ y \in R
    BY DEF R
  <2>10. Right(T)
    BY <2>6, <2>7, <2>8, <2>9 DEF Right
  <2> QED BY <2>10
<1>13. S \in G
  <2> HIDE DEF G, pick
  <2>1. SUBSET S \subseteq G
    BY <1>3, <1>11, <1>12, PickInduction
  <2> QED BY <2>1
<1>14. Right(S)
  BY <1>13
<1>15. GoodDict(kind, it[S])
  BY <1>14, <1>5
<1> QED BY <1>1, <1>14, <1>15 DEF S

LEMMA ListedIsSaid ==
    ASSUME NEW lines \in Seq(Lines), NEW e \in ListedIn(kind, lines)
    PROVE  \E i \in DOMAIN lines : e \in Said(lines[i]) /\ (kind = "words" => lines[i] \notin Invalid)
<1>1. CASE kind = "words"
  <2>1. PICK line \in ToSet(lines) \ Invalid : e = <<line, <<>>>>
    BY <1>1 DEF ListedIn
  <2>2. PICK i \in DOMAIN lines : lines[i] = line
    BY <2>1 DEF ToSet
  <2> QED BY <2>1, <2>2, <1>1 DEF Said
<1>2. CASE kind # "words"
  <2>1. PICK line \in ToSet(lines) : Len(line) > 1 /\ e = <<<<Head(line)>>, Tail(line)>>
    BY <1>2 DEF ListedIn
  <2>2. PICK i \in DOMAIN lines : lines[i] = line
    BY <2>1 DEF ToSet
  <2> QED BY <2>1, <2>2, <1>2 DEF Said
<1> QED BY <1>1, <1>2

LEMMA MergeKeeps ==
    ASSUME NEW dict, GoodDict(kind, dict), NEW lines \in Seq(Lines), Merge(dict, lines).ok
    PROVE  /\ GoodDict(kind, Merge(dict, lines).dict) /\ dict \subseteq Merge(dict, lines).dict
           /\ Covered(kind, lines, Merge(dict, lines).dict)
<1> DEFINE new == FoldLeft(AddLine, dict, lines)
<1>1. ~(kind = "words" /\ \E i \in DOMAIN lines : lines[i] \in Invalid)
  BY Zenon DEF Merge
<1>2. Merge(dict, lines).dict = new
  BY <1>1, Zenon DEF Merge
<1>3. \A i \in DOMAIN lines : Fit(lines[i])
  BY <1>1 DEF Fit
<1>4. /\ GoodDict(kind, new) /\ dict \subseteq new
      /\ \A i \in DOMAIN lines : \A e \in Said(lines[i]) : StandsIn(e, new)
  BY <1>3, FoldAddsLines
<1> HIDE DEF new
<1>5. Covered(kind, lines, new)
  BY <1>4, ListedIsSaid DEF Covered
<1> QED BY <1>2, <1>4, <1>5

LEMMA MergeFails ==
    ASSUME NEW dict, NEW lines, ~Merge(dict, lines).ok
    PROVE  Merge(dict, lines).dict = {}
BY Zenon DEF Merge

LEMMA NothingListed == \A k : ListedIn(k, <<>>) = {} /\ \A dict : Covered(k, <<>>, dict)
<1>1. ToSet(<<>>) = {}
  BY DEF ToSet
<1> QED BY <1>1 DEF ListedIn, Covered

LEMMA EmptyIsGood == \A k : GoodDict(k, {})
BY FS_EmptySet DEF GoodDict, Dicts

LEMMA CoveredMore ==
    ASSUME NEW lines, NEW dict, NEW more, dict \subseteq more, Covered(kind, lines, dict)
    PROVE  Covered(kind, lines, more)
BY StandsInMore DEF Covered

-----------------------------------------------------------------------------
(* One step.  Who = 's other processes keep what they had; what they know  *)
(* of the files stays true when the files stay as they are.                *)

LEMMA InitHolds == DictInit /\ locks => DictIInv
<1> SUFFICES ASSUME DictInit, locks PROVE DictIInv
  OBVIOUS
<1>1. /\ kind \in {"words", "repls"} /\ lock = Nobody /\ now = 0 /\ adds = 0 /\ faults = 0
      /\ proc = [p \in Proc |-> Away]
  BY DEF DictInit
<1>2. Away \in ProcState /\ Away.pc = "away" /\ Away.dict = {} /\ Away.date = Unset /\ ~Away.old
  <2>1. {} \in Dicts /\ "away" \in Whereabouts /\ Unset \in Nat \cup {Unset}
    BY DEF Dicts, Whereabouts
  <2>2. Away \in ProcState /\ Away.pc = "away" /\ Away.dict = {} /\ Away.date = Unset
    BY <2>1 DEF Away, ProcState
  <2>3. ~Away.old
    BY Zenon DEF Away
  <2> QED BY <2>2, <2>3
<1>3. NoFile \in ShortFile /\ NoFile.date = 0 /\ NoFile.lines = <<>>
  BY DEF NoFile, ShortFile, Lines
<1>4. ASSUME NEW e \in Entry
      PROVE  LET f == FileOf(<<Line(e)>>, 0)
             IN  f \in ShortFile /\ f.date = 0 /\ (~f.whole => f.lines = <<>>)
  <2>1. Line(e) \in Lines
    BY DictAssumption DEF Line, Lines
  <2>2. <<Line(e)>> \in Seq(Lines)
    BY <2>1
  <2>3. FileOf(<<Line(e)>>, 0).whole
    BY Zenon DEF FileOf
  <2> QED BY <2>2, <2>3 DEF FileOf, ShortFile
<1>5. PICK e \in Entry : \/ file = NoFile /\ compat = NoFile
                         \/ file = FileOf(<<Line(e)>>, 0) /\ compat = NoFile
                         \/ file = NoFile /\ compat = FileOf(<<Line(e)>>, 0)
  BY DEF DictInit
<1>6. /\ file \in ShortFile /\ compat \in ShortFile /\ file.date = 0 /\ compat.date = 0
      /\ (~file.whole => file.lines = <<>>)
  BY <1>3, <1>4, <1>5
<1>7. \A p \in Proc : proc[p] = Away
  BY <1>1
<1>8. DictTypeOK
  BY <1>1, <1>2, <1>6 DEF DictTypeOK
<1>9. LockHeld
  BY <1>2, <1>7 DEF LockHeld, Holding
<1>10. DatesPast
  BY <1>1, <1>2, <1>6, <1>7 DEF DatesPast, Unset
<1>11. EmptyFiles /\ GoodDicts
  BY <1>2, <1>6, <1>7, EmptyIsGood DEF EmptyFiles, GoodDicts
<1>12. \A p \in Proc : SaverKnows(kind, proc[p], file) /\ OldCovered(kind, proc[p], compat)
  BY <1>2, <1>7 DEF SaverKnows, OldCovered
<1> QED BY <1>8, <1>9, <1>10, <1>11, <1>12 DEF DictIInv

(* A step of one process, as the others see it: the files are as they      *)
(* were, or are empty now, or the process holds the lock.                  *)
LockMoves(p, s) ==
    /\ lock' = lock \/ (lock = Nobody /\ lock' = p) \/ (lock = p /\ lock' = Nobody)
    /\ s.pc \in Holding => lock' = p
FilesMove(p) ==
    /\ file' \in ShortFile /\ file.date <= file'.date /\ file'.date <= now
    /\ ~file'.whole => file'.lines = <<>>
    /\ file' = file \/ ~file'.whole \/ lock = p
    /\ compat' \in ShortFile /\ compat'.date = 0
    /\ compat' = compat \/ compat'.lines = <<>>
CountsMove == locks' = locks /\ kind' = kind /\ now' = now /\ adds' \in Nat /\ faults' \in Nat
StateFits(k, s, f, older) ==
    /\ s \in ProcState /\ s.date <= f.date /\ GoodDict(k, s.dict)
    /\ SaverKnows(k, s, f) /\ OldCovered(k, s, older)

LEMMA OneMoves ==
    ASSUME DictIInv, NEW p \in Proc, NEW s, Become(p, s), LockMoves(p, s), FilesMove(p),
           CountsMove, StateFits(kind, s, file', compat')
    PROVE  DictIInv'
<1> USE DEF Become, LockMoves, FilesMove, CountsMove, StateFits
<1>1. /\ locks /\ DictTypeOK /\ LockHeld /\ DatesPast /\ EmptyFiles /\ GoodDicts
      /\ \A q \in Proc : SaverKnows(kind, proc[q], file) /\ OldCovered(kind, proc[q], compat)
  BY DEF DictIInv
<1>2. proc' \in [Proc -> ProcState] /\ \A q \in Proc : proc'[q] = IF q = p THEN s ELSE proc[q]
  BY <1>1 DEF DictTypeOK
<1>3. DictTypeOK'
  BY <1>1, <1>2 DEF DictTypeOK
<1>4. LockHeld'
  BY <1>1, <1>2, DictAssumption DEF LockHeld
<1>5. DatesPast'
  <2>1. file.date \in Nat /\ file'.date \in Nat /\ now \in Nat
    BY <1>1 DEF DictTypeOK, ShortFile
  <2>2. ASSUME NEW q \in Proc PROVE proc'[q].date <= file'.date
    <3>1. proc[q].date \in Nat \cup {Unset} /\ proc[q].date <= file.date
      BY <1>1 DEF DictTypeOK, ProcState, DatesPast
    <3> QED BY <2>1, <3>1, <1>2 DEF Unset
  <2> QED BY <2>2 DEF DatesPast
<1>6. EmptyFiles' /\ GoodDicts'
  BY <1>1, <1>2 DEF EmptyFiles, GoodDicts
<1>7. ASSUME NEW q \in Proc, q # p
      PROVE  SaverKnows(kind', proc'[q], file') /\ OldCovered(kind', proc'[q], compat')
  <2>1. proc'[q] = proc[q] /\ SaverKnows(kind, proc[q], file) /\ OldCovered(kind, proc[q], compat)
    BY <1>1, <1>2, <1>7
  <2>2. SaverKnows(kind, proc[q], file')
    <3>1. CASE file' = file
      BY <3>1, <2>1
    <3>2. CASE ~file'.whole
      BY <3>2, NothingListed DEF SaverKnows
    <3>3. CASE lock = p
      <4>1. proc[q].pc \notin Holding
        BY <3>3, <1>1, <1>7 DEF LockHeld
      <4> QED BY <4>1 DEF SaverKnows, Holding
    <3> QED BY <3>1, <3>2, <3>3
  <2>3. OldCovered(kind, proc[q], compat')
    <3>1. CASE compat' = compat
      BY <3>1, <2>1
    <3>2. CASE compat'.lines = <<>>
      BY <3>2, NothingListed DEF OldCovered
    <3> QED BY <3>1, <3>2
  <2> QED BY <2>1, <2>2, <2>3
<1>8. \A q \in Proc : SaverKnows(kind', proc'[q], file') /\ OldCovered(kind', proc'[q], compat')
  BY <1>2, <1>7
<1> QED BY <1>3, <1>4, <1>5, <1>6, <1>8 DEF DictIInv

(* What every step may use.                                                *)
LEMMA Facts ==
    ASSUME DictIInv, NEW p \in Proc
    PROVE  /\ locks /\ kind \in {"words", "repls"} /\ now \in Nat /\ adds \in Nat /\ faults \in Nat
           /\ file \in ShortFile /\ compat \in ShortFile
           /\ file.date \in Nat /\ file.date <= now /\ compat.date = 0
           /\ file.lines \in Seq(Lines) /\ compat.lines \in Seq(Lines)
           /\ file.whole \in BOOLEAN /\ (~file.whole => file.lines = <<>>)
           /\ proc[p] \in ProcState /\ proc[p].date <= file.date
           /\ GoodDict(kind, proc[p].dict)
           /\ SaverKnows(kind, proc[p], file) /\ OldCovered(kind, proc[p], compat)
           /\ (proc[p].pc \in Holding => lock = p)
<1>1. /\ locks /\ DictTypeOK /\ LockHeld /\ DatesPast /\ EmptyFiles /\ GoodDicts
      /\ SaverKnows(kind, proc[p], file) /\ OldCovered(kind, proc[p], compat)
  BY DEF DictIInv
<1>2. file \in ShortFile /\ compat \in ShortFile /\ proc[p] \in ProcState
  BY <1>1 DEF DictTypeOK
<1>3. /\ file.date \in Nat /\ file.lines \in Seq(Lines) /\ compat.lines \in Seq(Lines)
      /\ file.whole \in BOOLEAN
  BY <1>2 DEF ShortFile
<1> QED BY <1>1, <1>2, <1>3 DEF DictTypeOK, LockHeld, DatesPast, EmptyFiles, GoodDicts

LEMMA FilesStay ==
    ASSUME DictIInv, NEW p \in Proc, file' = file, compat' = compat
    PROVE  FilesMove(p)
BY Facts DEF FilesMove

LEMMA AwayState ==
    /\ Away \in ProcState /\ Away.pc = "away" /\ Away.dict = {} /\ Away.date = Unset /\ ~Away.old
    /\ \A k, f : SaverKnows(k, Away, f) /\ OldCovered(k, Away, f)
<1>1. {} \in Dicts /\ "away" \in Whereabouts /\ Unset \in Nat \cup {Unset}
  BY DEF Dicts, Whereabouts
<1>2. Away \in ProcState /\ Away.pc = "away" /\ Away.dict = {} /\ Away.date = Unset
  BY <1>1 DEF Away, ProcState
<1>3. ~Away.old
  BY Zenon DEF Away
<1> QED BY <1>2, <1>3 DEF SaverKnows, OldCovered

(* A process that is in none of the places of a saving one.                *)
LEMMA NotSaving ==
    ASSUME NEW s, s.pc \notin Holding
    PROVE  \A k, f : SaverKnows(k, s, f)
BY DEF SaverKnows, Holding

LEMMA LoadFromKeeps ==
    ASSUME DictIInv, NEW p \in Proc, NEW f, f \in ShortFile, NEW old \in BOOLEAN,
           LoadFrom(p, f, old), f.date <= file.date, old => f = compat,
           file' = file, compat' = compat, lock' = lock, CountsMove
    PROVE  DictIInv'
<1> DEFINE m == Merge({}, f.lines)
           s == [Away EXCEPT !.pc = "idle", !.dict = m.dict, !.date = f.date, !.old = old]
<1>1. f.lines \in Seq(Lines) /\ f.date \in Nat
  BY DEF ShortFile
<1>2. CASE m.ok
  <2>1. /\ GoodDict(kind, m.dict) /\ Covered(kind, f.lines, m.dict)
    BY <1>1, <1>2, EmptyIsGood, MergeKeeps
  <2>2. m.dict \in Dicts
    BY <2>1 DEF GoodDict
  <2>3. Become(p, s)
    BY <1>2, Zenon DEF LoadFrom
  <2> HIDE DEF m
  <2>4. s \in ProcState /\ s.pc = "idle" /\ s.dict = m.dict /\ s.date = f.date
    BY <1>1, <2>2, AwayState DEF ProcState, Whereabouts, Holding
  <2>5. s.pc = "idle" /\ s.dict = m.dict /\ s.date = f.date
    BY <2>4
  <2>6. s.old = old
    BY AwayState DEF ProcState
  <2> HIDE DEF s
  <2>7. s.pc \notin Holding
    BY <2>5 DEF Holding
  <2>8. OldCovered(kind, s, compat)
    BY <2>1, <2>5, <2>6 DEF OldCovered
  <2>9. StateFits(kind, s, file', compat')
    BY <2>1, <2>4, <2>5, <2>7, <2>8, NotSaving DEF StateFits
  <2>10. LockMoves(p, s)
    BY <2>7 DEF LockMoves
  <2> QED BY <2>3, <2>9, <2>10, FilesStay, OneMoves
<1>3. CASE ~m.ok
  <2>1. Become(p, Away)
    BY <1>3, Zenon DEF LoadFrom
  <2>2. Away.date <= file.date /\ GoodDict(kind, Away.dict) /\ Away.pc \notin Holding
    BY AwayState, EmptyIsGood, Facts DEF Unset, Holding
  <2>3. StateFits(kind, Away, file', compat') /\ LockMoves(p, Away)
    BY <2>2, AwayState DEF StateFits, LockMoves
  <2> QED BY <2>1, <2>3, FilesStay, OneMoves
<1> QED BY <1>2, <1>3

LEMMA LoadKeeps ==
    ASSUME DictIInv, locks' = locks, NEW p \in Proc, Load(p)
    PROVE  DictIInv'
<1>1. file' = file /\ compat' = compat /\ lock' = lock /\ CountsMove
  BY Facts DEF Load, CountsMove
<1>2. CASE LoadFrom(p, file, FALSE)
  <2>1. file \in ShortFile /\ file.date <= file.date
    BY Facts
  <2> QED BY <1>1, <1>2, <2>1, LoadFromKeeps
<1>3. CASE LoadFrom(p, compat, TRUE)
  <2>1. compat \in ShortFile /\ compat.date <= file.date
    BY Facts
  <2> QED BY <1>1, <1>3, <2>1, LoadFromKeeps
<1>4. CASE LoadNothing(p)
  <2> DEFINE s == [Away EXCEPT !.pc = "idle"]
  <2>1. Become(p, s)
    BY <1>4 DEF LoadNothing
  <2>2. /\ s \in ProcState /\ s.pc = "idle" /\ s.dict = {} /\ s.date = Unset /\ ~s.old
    BY AwayState DEF ProcState, Whereabouts
  <2> HIDE DEF s
  <2>3. s.pc \notin Holding /\ s.date <= file.date /\ GoodDict(kind, s.dict)
    BY <2>2, EmptyIsGood, Facts DEF Holding, Unset
  <2>4. OldCovered(kind, s, compat)
    BY <2>2 DEF OldCovered
  <2>5. StateFits(kind, s, file', compat') /\ LockMoves(p, s)
    BY <1>1, <2>2, <2>3, <2>4, NotSaving DEF StateFits, LockMoves
  <2> QED BY <1>1, <2>1, <2>5, FilesStay, OneMoves
<1> QED BY <1>2, <1>3, <1>4 DEF Load

(* What a step does to the process that takes it, when no file changes.    *)
LEMMA AddToKeeps ==
    ASSUME DictIInv, NEW p \in Proc, NEW e \in Entry, (kind = "words") = (e[2] = <<>>)
    PROVE  /\ GoodDict(kind, AddTo(proc[p].dict, e))
           /\ proc[p].dict \subseteq AddTo(proc[p].dict, e)
<1>1. /\ e[1] \in Lines /\ e[2] \in Lines /\ e[1] # <<>>
      /\ e[1] \o e[2] \notin Invalid
  BY DictAssumption DEF Lines, Line
<1>2. GoodDict(kind, proc[p].dict)
  BY Facts
<1>3. CASE kind = "words"
  <2>1. e[1] \o e[2] = e[1]
    <3>1. e[2] = <<>> /\ e[1] \in Seq(Token)
      BY <1>1, <1>3 DEF Lines
    <3> QED BY <3>1
  <2>2. AddTo(proc[p].dict, e) = AddWord(proc[p].dict, e[1])
    BY <1>3 DEF AddTo
  <2>3. e[1] \notin Invalid
    BY <1>1, <2>1
  <2> QED BY <1>1, <1>2, <1>3, <2>2, <2>3, AddWordKeeps
<1>4. CASE kind # "words"
  <2>1. AddTo(proc[p].dict, e) = AddRepl(proc[p].dict, e[1], e[2])
    BY <1>4 DEF AddTo
  <2> QED BY <1>1, <1>2, <1>4, <2>1, AddReplKeeps
<1> QED BY <1>3, <1>4

LEMMA AddKeeps ==
    ASSUME DictIInv, locks' = locks, NEW p \in Proc, NEW e \in Entry, Add(p, e)
    PROVE  DictIInv'
<1> DEFINE new == AddTo(proc[p].dict, e)
           s == [proc[p] EXCEPT !.dict = new]
<1>1. /\ proc[p].pc = "idle" /\ file' = file /\ compat' = compat /\ lock' = lock /\ CountsMove
      /\ (kind = "words") = (e[2] = <<>>)
  BY Facts DEF Add, At, CountsMove
<1>2. proc[p] \in ProcState /\ DictTypeOK
  BY Facts DEF DictIInv
<1>3. Become(p, s)
  BY DEF Add, Become
<1>4. GoodDict(kind, new) /\ proc[p].dict \subseteq new
  BY <1>1, AddToKeeps
<1>5. new \in Dicts
  BY <1>4 DEF GoodDict
<1> HIDE DEF new
<1>6. /\ s \in ProcState /\ s.pc = "idle" /\ s.dict = new /\ s.date = proc[p].date
      /\ s.old = proc[p].old
  BY <1>1, <1>2, <1>5 DEF ProcState
<1> HIDE DEF s
<1>7. s.pc \notin Holding
  BY <1>6 DEF Holding
<1>8. OldCovered(kind, s, compat)
  <2>1. s.old => Covered(kind, compat.lines, proc[p].dict)
    <3>1. OldCovered(kind, proc[p], compat)
      BY Facts
    <3> QED BY <3>1, <1>1, <1>6 DEF OldCovered
  <2> QED BY <2>1, <1>4, <1>6, CoveredMore DEF OldCovered
<1>9. StateFits(kind, s, file', compat')
  BY <1>1, <1>4, <1>6, <1>7, <1>8, NotSaving, Facts DEF StateFits
<1>10. LockMoves(p, s)
  BY <1>1, <1>7 DEF LockMoves
<1> QED BY <1>1, <1>3, <1>9, <1>10, FilesStay, OneMoves

(* A process that only goes from one place to another.                     *)
LEMMA GoesTo ==
    ASSUME DictIInv, NEW p \in Proc, NEW pc \in Whereabouts, NEW s,
           s = [proc[p] EXCEPT !.pc = pc], proc[p].pc \notin {"emptied", "cut", "written"}
    PROVE  /\ s \in ProcState /\ s.pc = pc /\ s.dict = proc[p].dict
           /\ s.date = proc[p].date /\ s.old = proc[p].old
           /\ s.date <= file.date /\ GoodDict(kind, s.dict)
           /\ OldCovered(kind, s, compat)
<1>1. /\ proc[p] \in ProcState /\ proc[p].date <= file.date /\ GoodDict(kind, proc[p].dict)
      /\ OldCovered(kind, proc[p], compat)
  BY Facts
<1>2. s \in ProcState /\ s.pc = pc /\ s.dict = proc[p].dict
  BY <1>1 DEF ProcState
<1>3. s.date = proc[p].date /\ s.old = proc[p].old
  BY <1>1 DEF ProcState
<1> HIDE DEF Whereabouts
<1> QED BY <1>1, <1>2, <1>3 DEF OldCovered

LEMMA OpenForUpdateKeeps ==
    ASSUME DictIInv, locks' = locks, NEW p \in Proc, OpenForUpdate(p)
    PROVE  DictIInv'
<1> DEFINE to == IF file.there THEN "opened" ELSE "create"
           s == [proc[p] EXCEPT !.pc = to]
<1>1. /\ proc[p].pc = "idle" /\ file' = file /\ compat' = compat /\ lock' = lock /\ CountsMove
  <2>1. locks
    BY Facts
  <2> QED BY <2>1, Facts DEF OpenForUpdate, At, CountsMove
<1>2. Become(p, s)
  BY DEF OpenForUpdate, Become
<1>3. to \in Whereabouts /\ to \notin Holding
  BY DEF Whereabouts, Holding
<1> HIDE DEF to
<1>4. /\ s \in ProcState /\ s.pc = to /\ s.date <= file.date /\ GoodDict(kind, s.dict)
      /\ OldCovered(kind, s, compat)
  BY <1>1, <1>3, GoesTo
<1> HIDE DEF s
<1>5. StateFits(kind, s, file', compat') /\ LockMoves(p, s)
  BY <1>1, <1>3, <1>4, NotSaving DEF StateFits, LockMoves
<1> QED BY <1>1, <1>2, <1>5, FilesStay, OneMoves

(* A file that has just been cut.                                          *)
LEMMA FileCut ==
    ASSUME DictIInv, NEW p \in Proc, file' = EmptyFile(now), compat' = compat
    PROVE  /\ FilesMove(p) /\ file.date <= file'.date /\ ~file'.whole /\ file'.lines = <<>>
<1>1. /\ now \in Nat /\ file.date <= now /\ compat \in ShortFile /\ compat.date = 0
  BY Facts
<1>2. file' \in ShortFile /\ file'.date = now /\ file'.lines = <<>>
  BY <1>1 DEF EmptyFile, ShortFile, Lines
<1>3. ~file'.whole
  BY Zenon DEF EmptyFile
<1> QED BY <1>1, <1>2, <1>3 DEF FilesMove

LEMMA CreateKeeps ==
    ASSUME DictIInv, locks' = locks, NEW p \in Proc, Create(p)
    PROVE  DictIInv'
<1> DEFINE s == [proc[p] EXCEPT !.pc = "opened"]
<1>1. /\ proc[p].pc = "create" /\ file' = EmptyFile(now) /\ compat' = compat /\ lock' = lock
      /\ CountsMove
  BY Facts DEF Create, At, CountsMove
<1>2. Become(p, s)
  BY DEF Create, Become
<1>3. "opened" \in Whereabouts /\ "opened" \notin Holding
  BY DEF Whereabouts, Holding
<1>4. /\ s \in ProcState /\ s.pc = "opened" /\ s.date <= file.date /\ GoodDict(kind, s.dict)
      /\ OldCovered(kind, s, compat)
  BY <1>1, <1>3, GoesTo
<1>5. FilesMove(p) /\ file.date <= file'.date /\ file'.date \in Nat /\ file.date \in Nat
  BY <1>1, FileCut, Facts DEF FilesMove, ShortFile
<1> HIDE DEF s
<1>6. s.date <= file'.date
  BY <1>4, <1>5 DEF ProcState, Unset
<1>7. StateFits(kind, s, file', compat') /\ LockMoves(p, s)
  BY <1>1, <1>3, <1>4, <1>6, NotSaving DEF StateFits, LockMoves
<1> QED BY <1>1, <1>2, <1>5, <1>7, OneMoves

LEMMA TakeLockKeeps ==
    ASSUME DictIInv, locks' = locks, NEW p \in Proc, TakeLock(p)
    PROVE  DictIInv'
<1> DEFINE s == [proc[p] EXCEPT !.pc = "locked", !.exists = file.whole]
<1>1. /\ proc[p].pc = "opened" /\ file' = file /\ compat' = compat /\ CountsMove
      /\ lock = Nobody /\ lock' = p
  <2>1. locks
    BY Facts
  <2> QED BY <2>1, Facts DEF TakeLock, Locked, At, CountsMove
<1>2. Become(p, s)
  <2>1. locks
    BY Facts
  <2>2. (IF locks THEN file.whole ELSE proc[p].exists) = file.whole
    BY <2>1, Zenon
  <2> QED BY <2>2 DEF TakeLock, Locked, Become
<1>3. "locked" \in Whereabouts
  BY DEF Whereabouts, Holding
<1>4. proc[p] \in ProcState /\ file.whole \in BOOLEAN
  BY Facts
<1>5. s \in ProcState /\ s.pc = "locked" /\ s.dict = proc[p].dict /\ s.date = proc[p].date
  BY <1>3, <1>4 DEF ProcState
<1>6. s.old = proc[p].old
  BY <1>4 DEF ProcState
<1>7. s.exists = file.whole
  BY <1>4 DEF ProcState
<1> HIDE DEF s
<1>8. s.date <= file.date /\ GoodDict(kind, s.dict) /\ OldCovered(kind, s, compat)
  BY <1>1, <1>5, <1>6, Facts DEF OldCovered
<1>9. SaverKnows(kind, s, file)
  BY <1>5, <1>7 DEF SaverKnows
<1>10. StateFits(kind, s, file', compat') /\ LockMoves(p, s)
  BY <1>1, <1>5, <1>8, <1>9 DEF StateFits, LockMoves
<1> QED BY <1>1, <1>2, <1>10, FilesStay, OneMoves

(* update: what the file says and the process does not is taken in, or it  *)
(* is known to have been taken in before.                                  *)
LEMMA UpdateKeeps ==
    ASSUME DictIInv, locks' = locks, NEW p \in Proc, Update(p)
    PROVE  DictIInv'
<1> DEFINE m == Merge(proc[p].dict, file.lines)
<1>1. /\ proc[p].pc = "locked" /\ file' = file /\ compat' = compat /\ CountsMove
  BY Facts DEF Update, At, CountsMove
<1>2. /\ proc[p] \in ProcState /\ lock = p /\ GoodDict(kind, proc[p].dict)
      /\ file.lines \in Seq(Lines) /\ OldCovered(kind, proc[p], compat)
      /\ file.date \in Nat /\ proc[p].date <= file.date
  BY <1>1, Facts DEF Holding
<1> DEFINE Skips(stale) ==
              /\ ~(proc[p].exists /\ stale)
              /\ Become(p, [proc[p] EXCEPT !.pc = "skipped"]) /\ lock' = lock
           Unread(stale) ==
              /\ proc[p].exists /\ stale /\ ~file.whole /\ proc[p].old
              /\ Become(p, [proc[p] EXCEPT !.pc = "skipped", !.date = file.date]) /\ lock' = lock
           Merges(stale) ==
              /\ proc[p].exists /\ stale /\ file.whole /\ (m.ok \/ proc[p].old)
              /\ Become(p, [proc[p] EXCEPT !.pc = IF m.ok THEN "merged" ELSE "emptied",
                                           !.dict = m.dict, !.date = file.date])
              /\ lock' = lock
           Fails(stale) ==
              /\ proc[p].exists /\ stale /\ ~(file.whole /\ m.ok) /\ ~proc[p].old
              /\ Become(p, [proc[p] EXCEPT !.pc = "idle", !.exists = FALSE,
                                           !.dict = IF file.whole THEN m.dict ELSE proc[p].dict])
              /\ lock' = Nobody
<1>3. PICK stale \in Outdated(p) : Skips(stale) \/ Unread(stale) \/ Merges(stale) \/ Fails(stale)
  <2>1. PICK stale \in Outdated(p) :
             \/ Skips(stale) \/ Unread(stale) \/ Merges(stale)
             \/ /\ proc[p].exists /\ stale /\ ~(file.whole /\ m.ok) /\ ~proc[p].old
                /\ Become(p, [proc[p] EXCEPT !.pc = "idle", !.dict = IF file.whole THEN m.dict ELSE @,
                                             !.exists = FALSE])
                /\ lock' = Nobody
    BY Zenon DEF Update
  <2>2. [proc[p] EXCEPT !.pc = "idle", !.dict = IF file.whole THEN m.dict ELSE @, !.exists = FALSE]
        = [proc[p] EXCEPT !.pc = "idle", !.exists = FALSE,
                          !.dict = IF file.whole THEN m.dict ELSE proc[p].dict]
    <3> HIDE DEF m
    <3> QED BY <1>2 DEF ProcState
  <2> QED BY <2>1, <2>2
<1>4. m.ok => /\ GoodDict(kind, m.dict) /\ proc[p].dict \subseteq m.dict
              /\ Covered(kind, file.lines, m.dict)
  BY <1>2, MergeKeeps
<1>5. ~m.ok => m.dict = {}
  BY MergeFails
<1>6. GoodDict(kind, m.dict)
  BY <1>4, <1>5, EmptyIsGood
<1>7. m.dict \in Dicts
  BY <1>6 DEF GoodDict
<1> HIDE DEF m, Skips, Unread, Merges, Fails
<1>8. CASE Skips(stale)
  <2> DEFINE s == [proc[p] EXCEPT !.pc = "skipped"]
  <2>1. Become(p, s) /\ lock' = lock
    BY <1>8 DEF Skips
  <2>2. "skipped" \in Whereabouts
    BY DEF Whereabouts, Holding
  <2>3. /\ s \in ProcState /\ s.pc = "skipped" /\ s.date <= file.date /\ GoodDict(kind, s.dict)
        /\ s.date = proc[p].date /\ OldCovered(kind, s, compat)
    BY <1>1, <2>2, GoesTo
  <2> HIDE DEF s
  <2>4. ~file.whole \/ s.date = Unset \/ file.date <= s.date
    <3>1. proc[p].date \in Int
      BY <1>2 DEF ProcState, Unset
    <3>2. CASE proc[p].date = Unset
      BY <3>2, <2>3
    <3>3. CASE proc[p].date # Unset
      <4>1. stale = (file.date > proc[p].date)
        BY <3>3 DEF Outdated
      <4>2. file.date > proc[p].date => ~file.whole
        <5>1. proc[p].exists \/ ~file.whole
          BY <1>1, Facts DEF SaverKnows
        <5> QED BY <4>1, <1>8, <5>1, Zenon DEF Skips
      <4>3. file.date > proc[p].date \/ file.date <= proc[p].date
        BY <3>1, <1>2
      <4> QED BY <4>2, <4>3, <2>3
    <3> QED BY <3>2, <3>3
  <2>5. SaverKnows(kind, s, file)
    BY <2>3, <2>4 DEF SaverKnows
  <2>6. StateFits(kind, s, file', compat') /\ LockMoves(p, s)
    BY <1>1, <1>2, <2>1, <2>3, <2>5 DEF StateFits, LockMoves
  <2> QED BY <1>1, <2>1, <2>6, FilesStay, OneMoves
<1>11. CASE Unread(stale)
  <2> DEFINE s == [proc[p] EXCEPT !.pc = "skipped", !.date = file.date]
  <2>1. Become(p, s) /\ lock' = lock /\ ~file.whole
    BY <1>11 DEF Unread
  <2>2. "skipped" \in Whereabouts
    BY DEF Whereabouts, Holding
  <2>3. s \in ProcState /\ s.pc = "skipped" /\ s.dict = proc[p].dict /\ s.date = file.date
    BY <1>2, <2>2 DEF ProcState
  <2>4. s.old = proc[p].old
    BY <1>2 DEF ProcState
  <2> HIDE DEF s
  <2>5. s.date <= file.date /\ SaverKnows(kind, s, file) /\ OldCovered(kind, s, compat)
    BY <1>1, <1>2, <2>1, <2>3, <2>4 DEF SaverKnows, OldCovered
  <2>6. StateFits(kind, s, file', compat') /\ LockMoves(p, s)
    BY <1>1, <1>2, <2>1, <2>3, <2>5 DEF StateFits, LockMoves
  <2> QED BY <1>1, <2>1, <2>6, FilesStay, OneMoves
<1>9. CASE Merges(stale)
  <2> DEFINE to == IF m.ok THEN "merged" ELSE "emptied"
             s == [proc[p] EXCEPT !.pc = to, !.dict = m.dict, !.date = file.date]
  <2>1. Become(p, s) /\ lock' = lock
    BY <1>9 DEF Merges
  <2>2. to \in Whereabouts
    BY DEF Whereabouts, Holding
  <2>3. (m.ok => to = "merged") /\ (~m.ok => to = "emptied")
    OBVIOUS
  <2> HIDE DEF to
  <2>4. /\ s \in ProcState /\ s.pc = to /\ s.dict = m.dict /\ s.date = file.date
    BY <1>2, <1>7, <2>2 DEF ProcState
  <2>5. s.old = proc[p].old
    BY <1>2 DEF ProcState
  <2> HIDE DEF s
  <2>6. SaverKnows(kind, s, file)
    BY <1>4, <2>3, <2>4 DEF SaverKnows
  <2>7. OldCovered(kind, s, compat)
    <3>1. proc[p].old => Covered(kind, compat.lines, proc[p].dict)
      BY <1>1, <1>2 DEF OldCovered
    <3>2. CASE m.ok
      BY <3>1, <3>2, <1>4, <2>4, <2>5, CoveredMore DEF OldCovered
    <3>3. CASE ~m.ok
      BY <3>3, <1>5, <2>3, <2>4 DEF OldCovered
    <3> QED BY <3>2, <3>3
  <2>8. s.date <= file.date
    BY <1>2, <2>4
  <2>9. StateFits(kind, s, file', compat') /\ LockMoves(p, s)
    BY <1>1, <1>2, <1>6, <2>1, <2>4, <2>6, <2>7, <2>8 DEF StateFits, LockMoves
  <2> QED BY <1>1, <2>1, <2>9, FilesStay, OneMoves
<1>10. CASE Fails(stale)
  <2> DEFINE dict == IF file.whole THEN m.dict ELSE proc[p].dict
             s == [proc[p] EXCEPT !.pc = "idle", !.exists = FALSE, !.dict = dict]
  <2>1. Become(p, s) /\ lock' = Nobody
    BY <1>10 DEF Fails
  <2>7. GoodDict(kind, dict) /\ dict \in Dicts
    BY <1>2, <1>6, <1>7 DEF GoodDict
  <2> HIDE DEF dict
  <2>2. "idle" \in Whereabouts /\ "idle" \notin Holding
    BY DEF Whereabouts, Holding
  <2>3. s \in ProcState /\ s.pc = "idle" /\ s.dict = dict /\ s.date = proc[p].date
    BY <1>2, <2>7, <2>2 DEF ProcState
  <2>4. s.old = proc[p].old
    BY <1>2 DEF ProcState
  <2>5. ~s.old
    BY <2>4, <1>10 DEF Fails
  <2> HIDE DEF s
  <2>6. StateFits(kind, s, file', compat') /\ LockMoves(p, s)
    BY <1>1, <1>2, <2>1, <2>7, <2>2, <2>3, <2>5, NotSaving DEF StateFits, LockMoves, OldCovered
  <2> QED BY <1>1, <2>1, <2>6, FilesStay, OneMoves
<1> QED BY <1>3, <1>8, <1>11, <1>9, <1>10

LEMMA TruncateKeeps ==
    ASSUME DictIInv, locks' = locks, NEW p \in Proc, Truncate(p)
    PROVE  DictIInv'
<1> DEFINE s == [proc[p] EXCEPT !.pc = "cut"]
<1>1. /\ proc[p].pc \in {"skipped", "merged", "emptied"} /\ file' = EmptyFile(now)
      /\ compat' = compat /\ lock' = lock /\ CountsMove
  BY Facts DEF Truncate, CountsMove
<1>2. Become(p, s)
  BY DEF Truncate, Become
<1>3. proc[p] \in ProcState /\ "cut" \in Whereabouts /\ lock = p
  BY <1>1, Facts DEF Whereabouts, Holding
<1>4. s \in ProcState /\ s.pc = "cut" /\ s.dict = proc[p].dict
  BY <1>3 DEF ProcState
<1>5. s.date = proc[p].date /\ s.old = proc[p].old
  BY <1>3 DEF ProcState
<1> HIDE DEF s
<1>6. /\ FilesMove(p) /\ file.date <= file'.date /\ file'.lines = <<>>
      /\ file'.date \in Nat /\ file.date \in Nat
  BY <1>1, FileCut, Facts DEF FilesMove, ShortFile
<1>7. s.date <= file'.date
  <2>1. proc[p].date <= file.date /\ proc[p].date \in Int
    BY <1>3, Facts DEF ProcState, Unset
  <2> QED BY <2>1, <1>5, <1>6
<1>8. SaverKnows(kind, s, file')
  BY <1>4, <1>6 DEF SaverKnows
<1>9. OldCovered(kind, s, compat)
  <2>1. OldCovered(kind, proc[p], compat)
    BY Facts
  <2> QED BY <2>1, <1>1, <1>4, <1>5 DEF OldCovered
<1>10. StateFits(kind, s, file', compat') /\ LockMoves(p, s)
  BY <1>1, <1>3, <1>4, <1>7, <1>8, <1>9, Facts DEF StateFits, LockMoves
<1> QED BY <1>1, <1>2, <1>6, <1>10, OneMoves

(* The table's order goes through every entry.                             *)
LEMMA OrderHasAll ==
    ASSUME NEW dict, IsFiniteSet(dict), NEW order \in SetToSeqs(dict)
    PROVE  /\ DOMAIN order = 1 .. Cardinality(dict) /\ Cardinality(dict) \in Nat
           /\ \A i \in DOMAIN order : order[i] \in dict
           /\ \A e \in dict : \E i \in DOMAIN order : order[i] = e
<1> DEFINE D == 1 .. Cardinality(dict)
<1>1. Cardinality(dict) \in Nat
  BY FS_CardinalityType
<1>2. IsFiniteSet(D) /\ Cardinality(D) = Cardinality(dict)
  BY <1>1, FS_Interval
<1>3. order \in [D -> dict] /\ \A i, j \in D : i # j => order[i] # order[j]
  BY DEF SetToSeqs
<1> HIDE DEF D
<1>4. order \in Injection(D, dict)
  BY <1>3 DEF Injection, IsInjective
<1>5. order \in Surjection(D, dict)
  BY <1>2, <1>4, FS_Injection
<1>6. \A e \in dict : \E i \in D : order[i] = e
  BY <1>5 DEF Surjection
<1> QED BY <1>1, <1>3, <1>6 DEF D

(* What is read back from the line of an entry is the entry.               *)
LEMMA LineReadBack ==
    ASSUME NEW dict, GoodDict(kind, dict), NEW e \in dict
    PROVE  /\ Line(e) \in Lines
           /\ kind = "words" => e = <<Line(e), <<>>>> /\ Line(e) \notin Invalid
           /\ kind # "words" /\ Len(e[1]) = 1
                => Len(Line(e)) > 1 /\ e = <<<<Head(Line(e))>>, Tail(Line(e))>>
<1>1. /\ e \in Lines \X Lines /\ GoodEntry(kind, e) /\ Line(e) = e[1] \o e[2]
  BY DEF GoodDict, Dicts, Line
<1>2. e[1] \in Seq(Token) /\ e[2] \in Seq(Token) /\ e = <<e[1], e[2]>>
  BY <1>1 DEF Lines
<1>3. Line(e) \in Lines
  BY <1>1, <1>2 DEF Lines
<1>4. ASSUME kind = "words" PROVE e = <<Line(e), <<>>>> /\ Line(e) \notin Invalid
  <2>1. e[2] = <<>> /\ e[1] \notin Invalid
    BY <1>1, <1>4 DEF GoodEntry
  <2>2. e[1] \o <<>> = e[1]
    BY <1>2
  <2> QED BY <1>1, <1>2, <2>1, <2>2
<1>5. ASSUME kind # "words", Len(e[1]) = 1
      PROVE  Len(Line(e)) > 1 /\ e = <<<<Head(Line(e))>>, Tail(Line(e))>>
  <2> DEFINE x == e[1][1]
             c == e[2]
  <2>1. e[2] # <<>>
    BY <1>1, <1>5 DEF GoodEntry
  <2>2. e[1] = <<x>> /\ x \in Token
    BY <1>2, <1>5
  <2>3. c \in Seq(Token) /\ Len(c) > 0
    BY <1>2, <2>1
  <2>4. Line(e) = <<x>> \o c
    BY <1>1, <2>2
  <2> HIDE DEF x, c
  <2>5. Len(<<x>> \o c) = 1 + Len(c) /\ Head(<<x>> \o c) = x /\ Tail(<<x>> \o c) = c
    BY <2>2, <2>3
  <2>6. e = <<<<x>>, c>>
    BY <1>2, <2>2 DEF c
  <2> QED BY <2>3, <2>4, <2>5, <2>6
<1> QED BY <1>3, <1>4, <1>5

LEMMA WriteKeeps ==
    ASSUME DictIInv, locks' = locks, NEW p \in Proc, Write(p)
    PROVE  DictIInv' /\ Single(proc[p].dict) \subseteq ListedIn(kind, file'.lines)
<1> DEFINE s == [proc[p] EXCEPT !.pc = "written"]
           dict == proc[p].dict
<1>1. /\ proc[p].pc = "cut" /\ compat' = compat /\ lock' = lock /\ CountsMove
  BY Facts DEF Write, At, CountsMove
<1>2. Become(p, s)
  BY DEF Write, Become
<1>3. /\ proc[p] \in ProcState /\ "written" \in Whereabouts /\ lock = p /\ GoodDict(kind, dict)
      /\ IsFiniteSet(dict) /\ now \in Nat /\ file.date <= now
  BY <1>1, Facts DEF Whereabouts, Holding, GoodDict
<1>4. s \in ProcState /\ s.pc = "written" /\ s.dict = dict
  BY <1>3 DEF ProcState
<1>5. s.date = proc[p].date /\ s.old = proc[p].old
  BY <1>3 DEF ProcState
<1>6. PICK order \in SetToSeqs(dict) : file' = FileOf([i \in DOMAIN order |-> Line(order[i])], now)
  BY DEF Write
<1> DEFINE lines == [i \in DOMAIN order |-> Line(order[i])]
<1> HIDE DEF s, dict
<1>7. /\ DOMAIN order = 1 .. Cardinality(dict) /\ Cardinality(dict) \in Nat
      /\ \A i \in DOMAIN order : order[i] \in dict
      /\ \A e \in dict : \E i \in DOMAIN order : order[i] = e
  BY <1>3, OrderHasAll
<1>8. lines \in Seq(Lines)
  <2>1. \A i \in DOMAIN order : Line(order[i]) \in Lines
    BY <1>3, <1>7, LineReadBack
  <2> QED BY <1>7, <2>1
<1>9. Single(dict) \subseteq ListedIn(kind, lines)
  <2> SUFFICES ASSUME NEW e \in dict, Len(e[1]) = 1 PROVE e \in ListedIn(kind, lines)
    BY DEF Single
  <2>1. Line(e) \in ToSet(lines)
    <3>1. PICK i \in DOMAIN order : order[i] = e
      BY <1>7
    <3>2. i \in DOMAIN lines /\ lines[i] = Line(e)
      BY <3>1
    <3> QED BY <3>2 DEF ToSet
  <2> HIDE DEF lines
  <2>2. CASE kind = "words"
    BY <1>3, <2>1, <2>2, LineReadBack DEF ListedIn
  <2>3. CASE kind # "words"
    BY <1>3, <2>1, <2>3, LineReadBack DEF ListedIn
  <2> QED BY <2>2, <2>3
<1> HIDE DEF lines
<1>10. file' = FileOf(lines, now)
  BY <1>6 DEF lines
<1>11. file' \in ShortFile /\ file'.date = now /\ file'.lines = lines
  BY <1>3, <1>8, <1>10 DEF FileOf, ShortFile
<1>12. file'.whole
  BY <1>10, Zenon DEF FileOf
<1>13. FilesMove(p)
  BY <1>1, <1>3, <1>11, <1>12, Facts DEF FilesMove
<1>14. s.date <= file'.date
  <2>1. proc[p].date <= file.date /\ proc[p].date \in Int /\ file.date \in Nat
    BY <1>3, Facts DEF ProcState, Unset
  <2> QED BY <2>1, <1>3, <1>5, <1>11
<1>15. SaverKnows(kind, s, file')
  BY <1>4, <1>9, <1>11 DEF SaverKnows
<1>16. OldCovered(kind, s, compat)
  <2>1. OldCovered(kind, proc[p], compat)
    BY Facts
  <2> QED BY <2>1, <1>1, <1>4, <1>5 DEF OldCovered, dict
<1>17. StateFits(kind, s, file', compat') /\ LockMoves(p, s)
  BY <1>1, <1>3, <1>4, <1>14, <1>15, <1>16 DEF StateFits, LockMoves
<1>18. DictIInv'
  BY <1>1, <1>2, <1>13, <1>17, OneMoves
<1> QED BY <1>9, <1>11, <1>18 DEF dict

LEMMA FinishKeeps ==
    ASSUME DictIInv, locks' = locks, NEW p \in Proc, Finish(p)
    PROVE  DictIInv'
<1> DEFINE s == [proc[p] EXCEPT !.pc = "idle", !.date = file.date, !.old = FALSE, !.exists = FALSE]
<1>1. /\ proc[p].pc = "written" /\ file' = file /\ lock' = Nobody /\ CountsMove
      /\ compat' = IF proc[p].old THEN NoFile ELSE compat
  BY Facts DEF Finish, At, CountsMove
<1>2. /\ proc[p] \in ProcState /\ lock = p /\ "idle" \in Whereabouts /\ "idle" \notin Holding
      /\ file.date \in Nat /\ DictTypeOK /\ GoodDict(kind, proc[p].dict)
  BY <1>1, Facts DEF DictIInv, Whereabouts, Holding
<1>3. Become(p, s)
  BY <1>2 DEF Finish, Become, DictTypeOK
<1>4. s \in ProcState /\ s.pc = "idle" /\ s.dict = proc[p].dict /\ s.date = file.date
  BY <1>2 DEF ProcState
<1>5. ~s.old
  BY <1>2, Zenon DEF ProcState
<1> HIDE DEF s
<1>6. FilesMove(p)
  <2>1. compat' \in ShortFile /\ compat'.date = 0 /\ (compat' = compat \/ compat'.lines = <<>>)
    <3>1. NoFile \in ShortFile /\ NoFile.date = 0 /\ NoFile.lines = <<>>
      BY DEF NoFile, ShortFile, Lines
    <3> HIDE DEF NoFile
    <3> QED BY <3>1, <1>1, Facts
  <2> QED BY <1>1, <2>1, Facts DEF FilesMove
<1>7. s.date <= file'.date
  BY <1>1, <1>2, <1>4
<1>8. StateFits(kind, s, file', compat') /\ LockMoves(p, s)
  BY <1>1, <1>2, <1>4, <1>5, <1>7, NotSaving DEF StateFits, LockMoves, OldCovered
<1> QED BY <1>1, <1>3, <1>6, <1>8, OneMoves

LEMMA CrashKeeps ==
    ASSUME DictIInv, locks' = locks, NEW p \in Proc, Crash(p)
    PROVE  DictIInv'
<1>1. /\ file' = file /\ compat' = compat /\ CountsMove /\ Become(p, Away)
      /\ lock' = IF lock = p THEN Nobody ELSE lock
  BY Facts DEF Crash, CountsMove
<1>2. Away.date <= file.date /\ GoodDict(kind, Away.dict) /\ Away.pc \notin Holding
  BY AwayState, EmptyIsGood, Facts DEF Unset, Holding
<1>3. StateFits(kind, Away, file', compat') /\ LockMoves(p, Away)
  BY <1>1, <1>2, AwayState DEF StateFits, LockMoves
<1> QED BY <1>1, <1>3, FilesStay, OneMoves

LEMMA EditByHandKeeps ==
    ASSUME DictIInv, locks' = locks, EditByHand
    PROVE  DictIInv'
<1>1. /\ locks /\ DictTypeOK /\ LockHeld /\ DatesPast /\ EmptyFiles /\ GoodDicts
      /\ \A p \in Proc : SaverKnows(kind, proc[p], file) /\ OldCovered(kind, proc[p], compat)
  BY DEF DictIInv
<1>2. /\ lock = Nobody /\ faults' = faults + 1
      /\ kind' = kind /\ compat' = compat /\ lock' = lock /\ now' = now /\ proc' = proc /\ adds' = adds
  BY <1>1 DEF EditByHand
<1>3. PICK line \in Invalid : file' = FileOf(Append(file.lines, line), now)
  BY DEF EditByHand
<1>4. Append(file.lines, line) \in Seq(Lines)
  <2>1. line \in Lines /\ file.lines \in Seq(Lines)
    BY <1>1, DictAssumption DEF DictTypeOK, ShortFile, Lines
  <2> QED BY <2>1
<1>5. file' \in ShortFile /\ file'.date = now
  BY <1>1, <1>3, <1>4 DEF FileOf, ShortFile, DictTypeOK
<1>6. file'.whole
  BY <1>3, Zenon DEF FileOf
<1>7. \A p \in Proc : proc[p].pc \notin Holding
  BY <1>1, <1>2, DictAssumption DEF LockHeld
<1>8. DictTypeOK' /\ EmptyFiles' /\ GoodDicts' /\ LockHeld'
  BY <1>1, <1>2, <1>5, <1>6 DEF DictTypeOK, EmptyFiles, GoodDicts, LockHeld
<1>9. DatesPast'
  <2>1. file.date \in Nat /\ now \in Nat /\ file.date <= now
    BY <1>1 DEF DictTypeOK, ShortFile, DatesPast
  <2>2. \A p \in Proc : proc[p].date \in Nat \cup {Unset}
    BY <1>1 DEF DictTypeOK, ProcState
  <2> QED BY <1>1, <1>2, <1>5, <2>1, <2>2 DEF DatesPast, Unset
<1>10. \A p \in Proc : SaverKnows(kind', proc'[p], file') /\ OldCovered(kind', proc'[p], compat')
  BY <1>1, <1>2, <1>7, NotSaving
<1> QED BY <1>8, <1>9, <1>10 DEF DictIInv

LEMMA TickKeeps ==
    ASSUME DictIInv, locks' = locks,
           \/ now' = now + 1 /\ UNCHANGED <<kind, file, compat, lock, proc, adds, faults>>
           \/ UNCHANGED dictvars
    PROVE  DictIInv'
<1>1. /\ locks /\ DictTypeOK /\ LockHeld /\ DatesPast /\ EmptyFiles /\ GoodDicts
      /\ \A p \in Proc : SaverKnows(kind, proc[p], file) /\ OldCovered(kind, proc[p], compat)
  BY DEF DictIInv
<1>2. /\ now' = now \/ now' = now + 1
      /\ kind' = kind /\ file' = file /\ compat' = compat /\ lock' = lock /\ proc' = proc
      /\ adds' = adds /\ faults' = faults
  BY DEF dictvars
<1>3. DictTypeOK' /\ EmptyFiles' /\ GoodDicts' /\ LockHeld'
  BY <1>1, <1>2 DEF DictTypeOK, EmptyFiles, GoodDicts, LockHeld
<1>4. DatesPast'
  <2>1. file.date \in Nat /\ now \in Nat /\ file.date <= now
    BY <1>1 DEF DictTypeOK, ShortFile, DatesPast
  <2> QED BY <1>1, <1>2, <2>1 DEF DatesPast
<1>5. \A p \in Proc : SaverKnows(kind', proc'[p], file') /\ OldCovered(kind', proc'[p], compat')
  BY <1>1, <1>2
<1> QED BY <1>3, <1>4, <1>5 DEF DictIInv

LEMMA NextKeeps == DictIInv /\ [DictNext]_dictvars => DictIInv'
<1> SUFFICES ASSUME DictIInv, [DictNext]_dictvars PROVE DictIInv'
  OBVIOUS
<1>0. locks /\ locks' = locks
  BY DEF DictIInv, DictNext, dictvars
<1>1. ASSUME NEW p \in Proc, SaveStep(p) PROVE DictIInv'
  BY <1>0, <1>1, OpenForUpdateKeeps, CreateKeeps, TakeLockKeeps, UpdateKeeps, TruncateKeeps,
     WriteKeeps, FinishKeeps DEF SaveStep, Look
<1>2. ASSUME NEW p \in Proc, Load(p) \/ Crash(p) PROVE DictIInv'
  BY <1>0, <1>2, LoadKeeps, CrashKeeps
<1>3. ASSUME NEW p \in Proc, NEW e \in Entry, Add(p, e) PROVE DictIInv'
  BY <1>0, <1>3, AddKeeps
<1>4. CASE EditByHand
  BY <1>0, <1>4, EditByHandKeeps
<1>5. CASE Tick \/ UNCHANGED dictvars
  BY <1>0, <1>5, TickKeeps DEF Tick
<1> QED BY <1>1, <1>2, <1>3, <1>4, <1>5 DEF DictNext

THEOREM DictIInvAlways == LockedSpec => []DictIInv
BY InitHolds, NextKeeps, PTL DEF LockedSpec

(* In a build with USE_FILE_LOCKS: of all the processes that have the      *)
(* dictionary open, only one is between taking the lock and giving it      *)
(* back: no two of them cut, write or merge the file at the same time      *)
(* (open_file_writelock's fcntl, and that save keeps inout open until the  *)
(* end).                                                                   *)
OneSaver ==
    \A p, q \in Proc : proc[p].pc \in Holding /\ proc[q].pc \in Holding => p = q
THEOREM OneSaverAlways == LockedSpec => []OneSaver
<1>1. DictIInv => OneSaver
  BY DEF DictIInv, LockHeld, OneSaver
<1> QED BY <1>1, DictIInvAlways, PTL

-----------------------------------------------------------------------------
(* What is on disk stays there.                                            *)

StaysKept == \A e \in Kept : Len(e[1]) = 1 => StandsIn(e, Kept')
Lost == Trampled \/ Died \/ \E p \in Proc : Blind(p) \/ Collided(p)

LEMMA KeptWhere ==
    ASSUME NEW e \in Kept
    PROVE  \/ e \in ListedIn(kind, file.lines) \/ e \in ListedIn(kind, compat.lines)
           \/ \E q \in Proc : proc[q].pc = "cut" /\ e \in proc[q].dict
BY DEF Kept, Listed, ListedIn, At

LEMMA KeptNext ==
    ASSUME kind' = kind
    PROVE  /\ ListedIn(kind, file'.lines) \subseteq Kept'
           /\ ListedIn(kind, compat'.lines) \subseteq Kept'
           /\ \A q \in Proc : proc'[q].pc = "cut" => proc'[q].dict \subseteq Kept'
BY DEF Kept, Listed, ListedIn, At

(* A step that leaves the files alone, and every list that is waiting to   *)
(* be written.                                                             *)
LEMMA NothingWritten ==
    ASSUME kind' = kind, file' = file, compat' = compat,
           \A q \in Proc : proc[q].pc = "cut" => proc'[q] = proc[q]
    PROVE  StaysKept
<1>1. \A e \in Kept : e \in Kept'
  BY KeptWhere, KeptNext
<1> QED BY <1>1, CoversItself DEF StaysKept

LEMMA OthersRest ==
    ASSUME DictIInv, NEW p \in Proc, NEW s, proc' = [proc EXCEPT ![p] = s]
    PROVE  /\ proc'[p] = s /\ \A q \in Proc : q # p => proc'[q] = proc[q]
           /\ proc[p].pc \in Holding => \A q \in Proc : proc[q].pc = "cut" => q = p
<1>1. DictTypeOK /\ LockHeld
  BY DEF DictIInv
<1>2. proc \in [Proc -> ProcState] /\ \A q \in Proc : proc[q].pc = "cut" => lock = q
  BY <1>1 DEF DictTypeOK, LockHeld, Holding
<1>3. proc[p].pc \in Holding => lock = p
  BY <1>1 DEF LockHeld
<1> QED BY <1>2, <1>3

LEMMA TruncateLosesNothing ==
    ASSUME DictIInv, NEW p \in Proc, Truncate(p), ~Lost
    PROVE  StaysKept
<1> DEFINE s == [proc[p] EXCEPT !.pc = "cut"]
<1>1. /\ proc[p].pc \in {"skipped", "merged", "emptied"} /\ kind' = kind /\ compat' = compat
      /\ proc' = [proc EXCEPT ![p] = s]
  BY DEF Truncate
<1>2. proc[p] \in ProcState /\ proc[p].pc \in Holding
  BY <1>1, Facts DEF Holding
<1>3. s.pc = "cut" /\ s.dict = proc[p].dict
  BY <1>2 DEF ProcState
<1>4. proc'[p] = s /\ \A q \in Proc : proc[q].pc # "cut"
  BY <1>1, <1>2, OthersRest
<1>5. proc'[p].pc = "cut" /\ proc'[p].dict = proc[p].dict
  BY <1>3, <1>4
<1>6. proc[p].dict \subseteq Kept' /\ ListedIn(kind, compat.lines) \subseteq Kept'
  BY <1>1, <1>5, KeptNext
<1>7. ~Blind(p)
  BY DEF Lost
<1>8. \A e \in ListedIn(kind, file.lines) : StandsIn(e, Kept')
  <2>1. CASE proc[p].pc = "skipped"
    <3>1. proc[p].date # Unset /\ proc[p].date # file.date
      BY <1>5, <1>7, <2>1 DEF Blind, At
    <3>2. /\ ~file.whole \/ proc[p].date = Unset \/ file.date <= proc[p].date
          /\ proc[p].date <= file.date /\ file.date \in Nat /\ proc[p].date \in Int
          /\ ~file.whole => file.lines = <<>>
      BY <1>2, <2>1, Facts DEF SaverKnows, ProcState, Unset
    <3>3. file.lines = <<>>
      BY <3>1, <3>2
    <3> QED BY <3>3, NothingListed
  <2>2. CASE proc[p].pc = "merged"
    <3>1. Covered(kind, file.lines, proc[p].dict)
      BY <2>2, Facts DEF SaverKnows
    <3> QED BY <3>1, <1>6, StandsInMore DEF Covered
  <2>3. CASE proc[p].pc = "emptied"
    BY <1>5, <1>7, <2>3 DEF Blind, At
  <2> QED BY <1>1, <2>1, <2>2, <2>3
<1> QED BY <1>4, <1>6, <1>8, KeptWhere, CoversItself DEF StaysKept

LEMMA WriteLosesNothing ==
    ASSUME DictIInv, locks' = locks, NEW p \in Proc, Write(p)
    PROVE  StaysKept
<1> DEFINE s == [proc[p] EXCEPT !.pc = "written"]
<1>1. /\ proc[p].pc = "cut" /\ kind' = kind /\ compat' = compat /\ proc' = [proc EXCEPT ![p] = s]
  BY DEF Write, At
<1>2. \A q \in Proc : proc[q].pc = "cut" => q = p
  BY <1>1, OthersRest DEF Holding
<1>3. Single(proc[p].dict) \subseteq Kept' /\ ListedIn(kind, compat.lines) \subseteq Kept'
  BY <1>1, WriteKeeps, KeptNext
<1>4. ListedIn(kind, file.lines) = {}
  <2>1. file.lines = <<>>
    BY <1>1, Facts DEF SaverKnows
  <2> QED BY <2>1, NothingListed
<1>5. \A e \in Kept : Len(e[1]) = 1 => e \in Kept'
  BY <1>2, <1>3, <1>4, KeptWhere DEF Single
<1> QED BY <1>5, CoversItself DEF StaysKept

LEMMA FinishLosesNothing ==
    ASSUME DictIInv, NEW p \in Proc, Finish(p), ~Lost
    PROVE  StaysKept
<1> DEFINE s == [proc[p] EXCEPT !.pc = "idle", !.date = file.date, !.old = FALSE, !.exists = FALSE]
<1>1. /\ proc[p].pc = "written" /\ kind' = kind /\ file' = file
      /\ compat' = IF proc[p].old THEN NoFile ELSE compat
      /\ proc \in [Proc -> ProcState]
  BY DEF Finish, At, DictIInv, DictTypeOK
<1>2. proc' = [proc EXCEPT ![p] = s] /\ proc[p] \in ProcState
  BY <1>1 DEF Finish
<1>3. s.pc = "idle"
  BY <1>2 DEF ProcState
<1>4. proc'[p] = s /\ \A q \in Proc : proc[q].pc # "cut"
  BY <1>1, <1>2, OthersRest DEF Holding
<1>5. proc'[p].pc # "written"
  BY <1>3, <1>4
<1>6. file.whole /\ ~(proc[p].old /\ proc[p].dict = {})
  <2>1. ~Trampled /\ ~Blind(p)
    BY DEF Lost
  <2> HIDE DEF s
  <2> QED BY <2>1, <1>1, <1>5 DEF Trampled, Blind, At
<1>7. ListedIn(kind, file.lines) \subseteq Kept'
  BY <1>1, KeptNext
<1>8. \A e \in ListedIn(kind, compat.lines) : Len(e[1]) = 1 => StandsIn(e, Kept')
  <2>1. CASE ~proc[p].old
    BY <2>1, <1>1, KeptNext, CoversItself
  <2>2. CASE proc[p].old
    <3>1. Covered(kind, compat.lines, proc[p].dict)
      BY <2>2, <1>6, Facts DEF OldCovered
    <3>2. Single(proc[p].dict) \subseteq Kept'
      BY <1>1, <1>6, <1>7, Facts DEF SaverKnows
    <3> SUFFICES ASSUME NEW e \in ListedIn(kind, compat.lines), Len(e[1]) = 1
                 PROVE  StandsIn(e, Kept')
      OBVIOUS
    <3>3. PICK k \in proc[p].dict : Covers(e[1], k[1]) /\ Covers(e[2], k[2])
      BY <3>1 DEF Covered, StandsIn
    <3>4. Len(k[1]) = Len(e[1])
      <4>1. CASE e[1] = k[1]
        BY <4>1
      <4>2. CASE <<e[1], k[1]>> \in Accepts
        <5> DEFINE a == <<e[1], k[1]>>
        <5>1. a[1] = e[1] /\ a[2] = k[1] /\ Len(a[1]) = Len(a[2])
          BY <4>2, DictAssumption
        <5> HIDE DEF a
        <5> QED BY <5>1
      <4> QED BY <3>3, <4>1, <4>2 DEF Covers
    <3>5. k \in Kept'
      BY <3>2, <3>4 DEF Single
    <3> QED BY <3>3, <3>5 DEF StandsIn
  <2> QED BY <2>1, <2>2
<1> QED BY <1>4, <1>7, <1>8, KeptWhere, CoversItself DEF StaysKept

(* In a build with USE_FILE_LOCKS no save loses what another process has   *)
(* saved: an entry that is on disk stays there in every step, for any      *)
(* number of processes, entries and seconds, but for the ways Trampled,    *)
(* Died and Blind name (the case Collided is that of a build without).     *)
THEOREM NoSaveLosesAnotherAlways == LockedSpec => NoSaveLosesAnother
<1>1. DictIInv /\ [DictNext]_dictvars => [Lost \/ StaysKept]_dictvars
  <2> SUFFICES ASSUME DictIInv, [DictNext]_dictvars, ~Lost PROVE StaysKept \/ UNCHANGED dictvars
    OBVIOUS
  <2>1. ASSUME NEW p \in Proc, NEW s, proc' = [proc EXCEPT ![p] = s], proc[p].pc # "cut",
               kind' = kind, file' = file, compat' = compat
        PROVE  StaysKept
    <3>1. \A q \in Proc : proc[q].pc = "cut" => proc'[q] = proc[q]
      BY <2>1, OthersRest
    <3> QED BY <2>1, <3>1, NothingWritten
  <2>2. ASSUME NEW p \in Proc, Load(p) PROVE StaysKept
    <3>1. \E s : Become(p, s)
      BY <2>2, Zenon DEF Load, LoadFrom, LoadNothing
    <3> QED BY <2>1, <2>2, <3>1 DEF Load, At, Become
  <2>3. ASSUME NEW p \in Proc, NEW e \in Entry, Add(p, e) PROVE StaysKept
    BY <2>1, <2>3 DEF Add, At
  <2>0. locks /\ locks' = locks /\ \A p \in Proc : ~Look(p)
    BY DEF DictIInv, Look, DictNext, dictvars
  <2>4. ASSUME NEW p \in Proc, OpenForUpdate(p) \/ TakeLock(p) PROVE StaysKept
    <3>1. CASE OpenForUpdate(p)
      BY <2>0, <2>1, <3>1 DEF OpenForUpdate, At
    <3>2. CASE TakeLock(p)
      <4>1. (IF locks THEN file.whole ELSE proc[p].exists) = file.whole
        BY <2>0, Zenon
      <4> QED BY <2>1, <4>1, <3>2 DEF TakeLock, Locked, At
    <3> QED BY <2>4, <3>1, <3>2
  <2>5. ASSUME NEW p \in Proc, Create(p) PROVE FALSE
    <3>1. proc' = [proc EXCEPT ![p] = [proc[p] EXCEPT !.pc = "opened"]] /\ proc[p] \in ProcState
      BY <2>5, Facts DEF Create
    <3>2. [proc[p] EXCEPT !.pc = "opened"].pc = "opened"
      BY <3>1 DEF ProcState
    <3>3. proc'[p] = [proc[p] EXCEPT !.pc = "opened"]
      BY <3>1, OthersRest
    <3>4. proc'[p].pc = "opened"
      BY <3>2, <3>3, Zenon
    <3> QED BY <2>5, <3>4 DEF Create, Trampled, Lost, At
  <2>6. ASSUME NEW p \in Proc, Update(p) PROVE StaysKept
    <3>1. \E s : Become(p, s)
      BY <2>6, Zenon DEF Update
    <3> QED BY <2>1, <2>6, <3>1 DEF Update, At, Become
  <2>7. ASSUME NEW p \in Proc, Crash(p) PROVE FALSE
    BY <2>7, Facts DEF Crash, Died, Lost
  <2>8. CASE EditByHand
    BY <2>8 DEF EditByHand, Died, Lost, DictIInv, DictTypeOK
  <2>9. CASE Tick
    BY <2>9, NothingWritten DEF Tick
  <2>10. ASSUME NEW p \in Proc, SaveStep(p) PROVE StaysKept
    BY <2>0, <2>4, <2>5, <2>6, <2>10, TruncateLosesNothing, WriteLosesNothing, FinishLosesNothing
       DEF SaveStep
  <2> QED BY <2>2, <2>3, <2>7, <2>8, <2>9, <2>10 DEF DictNext
<1>2. DictIInv /\ [DictNext]_dictvars
        => [ \/ Trampled \/ Died
             \/ \E p \in Proc : Blind(p) \/ Collided(p)
             \/ \A e \in Kept : Len(e[1]) = 1 => StandsIn(e, Kept') ]_dictvars
  <2>1. Lost => Trampled \/ Died \/ \E p \in Proc : Blind(p) \/ Collided(p)
    BY DEF Lost
  <2>2. StaysKept => \A e \in Kept : Len(e[1]) = 1 => StandsIn(e, Kept')
    BY DEF StaysKept
  <2> HIDE DEF Lost, StaysKept
  <2> QED BY <1>1, <2>1, <2>2, Zenon
<1> QED BY <1>2, DictIInvAlways, PTL DEF LockedSpec, NoSaveLosesAnother

-----------------------------------------------------------------------------
(* What a client of "aspell pipe" may rely on, whatever lines it sends.    *)

SpellerSpec == SpellerInit /\ [][SpellerNext]_spellervars

IsSeq(s) == \E V : s \in Seq(V)

LEMMA AppendIs ==
    ASSUME NEW s, IsSeq(s), NEW e
    PROVE  /\ IsSeq(Append(s, e)) /\ Len(s) \in Nat /\ Len(Append(s, e)) = Len(s) + 1
           /\ Append(s, e)[Len(s) + 1] = e
           /\ \A i \in 1 .. Len(s) : Append(s, e)[i] = s[i]
<1>1. PICK V : s \in Seq(V)
  BY DEF IsSeq
<1>2. s \in Seq(V \cup {e})
  BY <1>1
<1>3. Append(s, e) \in Seq(V \cup {e})
  BY <1>2
<1>4. IsSeq(Append(s, e))
  BY <1>3, Zenon DEF IsSeq
<1> QED BY <1>2, <1>4

LEMMA MaxIs ==
    ASSUME NEW n \in Nat, NEW T \in SUBSET (0 .. n), T # {}
    PROVE  Max(T) \in T /\ \A x \in T : x <= Max(T)
<1> DEFINE A == {n - x : x \in T}
<1>1. A \subseteq Nat /\ A # {}
  <2>1. \A x \in T : n - x \in Nat
    OBVIOUS
  <2>2. PICK x \in T : TRUE
    OBVIOUS
  <2>3. n - x \in A
    BY Zenon
  <2> QED BY <2>1, <2>3
<1>2. PICK a \in A : \A b \in A : a <= b
  <2> HIDE DEF A
  <2> QED BY <1>1, LeastIn
<1>3. PICK m \in T : a = n - m
  BY <1>2
<1>4. ASSUME NEW x \in T PROVE x <= m
  <2>1. n - x \in A
    BY Zenon
  <2>2. n - m <= n - x /\ x \in Nat /\ m \in Nat
    BY <2>1, <1>2, <1>3
  <2> QED BY <2>2
<1>5. \E k \in T : \A x \in T : k >= x
  BY <1>3, <1>4
<1>6. Max(T) \in T /\ \A x \in T : Max(T) >= x
  BY <1>5 DEF Max
<1> QED BY <1>6

-----------------------------------------------------------------------------
(* The memory of replacements.                                             *)

(* LastWrong and Follows of any history.                                   *)
WrongBefore(s, n) == {0} \cup {j \in 1 .. n - 1 : ~s[j].right}
LastWrongOf(s, n) == Max(WrongBefore(s, n))
FollowsIn(s, n) == LastWrongOf(s, n) # 0 /\ s[LastWrongOf(s, n)].cor = s[n].mis

(* A chain of wrong corrections that begins with i and is not broken until *)
(* behind k.                                                               *)
Chain(s, i, k) ==
    /\ ~s[i].right /\ ~FollowsIn(s, i)
    /\ \A j \in i + 1 .. k : s[j].right \/ FollowsIn(s, j)

(* What is remembered is the end and the beginning of the last chain.      *)
Remembers(m, s) ==
    LET last == LastWrongOf(s, Len(s) + 1)
    IN  /\ last = 0 => m.mis = <<>> /\ m.cor = <<>>
        /\ last # 0 => m.cor = s[last].cor
        /\ \A i \in 1 .. Len(s) : Chain(s, i, Len(s)) => m.mis = s[i].mis

PairsKept(s, r) ==
    \A i, k \in 1 .. Len(s) :
        i < k /\ Chain(s, i, k - 1) /\ s[k].right /\ FollowsIn(s, k)
        => PairFor(s[i].mis, s[k].cor) \cup PairFor(s[k].mis, s[k].cor) \subseteq r

MemoryInv == IsSeq(stores) /\ Remembers(memory, stores) /\ PairsKept(stores, repl)

LEMMA LastWrongIs ==
    ASSUME NEW s, NEW n \in Nat \ {0}
    PROVE  /\ LastWrongOf(s, n) \in 0 .. n - 1
           /\ \A j \in 1 .. n - 1 : ~s[j].right => j <= LastWrongOf(s, n)
<1>1. WrongBefore(s, n) \in SUBSET (0 .. n - 1) /\ WrongBefore(s, n) # {} /\ n - 1 \in Nat
  BY DEF WrongBefore
<1>2. LastWrongOf(s, n) \in WrongBefore(s, n) /\ \A x \in WrongBefore(s, n) : x <= LastWrongOf(s, n)
  BY <1>1, MaxIs DEF LastWrongOf
<1>3. \A j \in 1 .. n - 1 : ~s[j].right => j \in WrongBefore(s, n)
  BY DEF WrongBefore
<1> QED BY <1>1, <1>2, <1>3

(* A further replacement changes nothing of what was said of the earlier.  *)
Longer(s, e, t) == IsSeq(s) /\ t = Append(s, e)
Grown(s, e, t, N) ==
    /\ IsSeq(t) /\ N \in Nat /\ Len(s) = N /\ Len(t) = N + 1 /\ t[N + 1] = e
    /\ \A i \in 1 .. N : t[i] = s[i]
    /\ LastWrongOf(s, N + 1) \in 0 .. N
    /\ \A n \in 1 .. N : FollowsIn(t, n) <=> FollowsIn(s, n)
    /\ FollowsIn(t, N + 1) <=> /\ LastWrongOf(s, N + 1) # 0
                               /\ s[LastWrongOf(s, N + 1)].cor = e.mis
    /\ e.right => LastWrongOf(t, N + 2) = LastWrongOf(s, N + 1)
    /\ ~e.right => LastWrongOf(t, N + 2) = N + 1
ChainsGrown(s, e, t, N) ==
    \A i \in 1 .. N : /\ \A k \in 0 .. N : Chain(t, i, k) <=> Chain(s, i, k)
                      /\ Chain(t, i, N + 1) <=> Chain(s, i, N) /\ (e.right \/ FollowsIn(t, N + 1))

LEMMA HistoryGrows ==
    ASSUME NEW s, NEW e, NEW t, Longer(s, e, t)
    PROVE  Grown(s, e, t, Len(s))
<1> DEFINE N == Len(s)
<1>1. IsSeq(t) /\ N \in Nat /\ Len(t) = N + 1 /\ t[N + 1] = e /\ \A i \in 1 .. N : t[i] = s[i]
  BY AppendIs DEF Longer
<1>8. Len(s) = N
  OBVIOUS
<1> HIDE DEF N
<1>2. \A n \in 1 .. N + 1 : LastWrongOf(t, n) = LastWrongOf(s, n)
  <2> SUFFICES ASSUME NEW n \in 1 .. N + 1 PROVE LastWrongOf(t, n) = LastWrongOf(s, n)
    OBVIOUS
  <2>1. \A j \in 1 .. n - 1 : t[j] = s[j]
    BY <1>1
  <2>2. WrongBefore(t, n) = WrongBefore(s, n)
    BY <2>1 DEF WrongBefore
  <2> QED BY <2>2 DEF LastWrongOf
<1>3. \A n \in 1 .. N + 1 : LastWrongOf(s, n) \in 0 .. n - 1
  BY <1>1, LastWrongIs
<1>4. ASSUME NEW n \in 1 .. N PROVE FollowsIn(t, n) <=> FollowsIn(s, n)
  <2>1. LastWrongOf(s, n) # 0 => LastWrongOf(s, n) \in 1 .. N
    BY <1>1, <1>3
  <2>2. n \in 1 .. N + 1 /\ t[n] = s[n]
    BY <1>1
  <2> QED BY <2>1, <2>2, <1>1, <1>2 DEF FollowsIn
<1>5. FollowsIn(t, N + 1) <=> /\ LastWrongOf(s, N + 1) # 0
                              /\ s[LastWrongOf(s, N + 1)].cor = e.mis
  <2>1. LastWrongOf(s, N + 1) # 0 => LastWrongOf(s, N + 1) \in 1 .. N
    BY <1>1, <1>3
  <2>2. N + 1 \in 1 .. N + 1
    BY <1>1
  <2> QED BY <2>1, <2>2, <1>1, <1>2 DEF FollowsIn
<1>6. ASSUME e.right PROVE LastWrongOf(t, N + 2) = LastWrongOf(s, N + 1)
  <2>1. \A j \in 1 .. N + 2 - 1 : ~t[j].right <=> j \in 1 .. N /\ ~s[j].right
    BY <1>1, <1>6
  <2>2. WrongBefore(t, N + 2) = WrongBefore(s, N + 1)
    BY <1>1, <2>1 DEF WrongBefore
  <2> QED BY <2>2 DEF LastWrongOf
<1>7. ASSUME ~e.right PROVE LastWrongOf(t, N + 2) = N + 1
  <2>1. LastWrongOf(t, N + 2) \in 0 .. N + 1 /\ N + 1 <= LastWrongOf(t, N + 2)
    <3>1. N + 2 \in Nat \ {0} /\ N + 1 \in 1 .. (N + 2) - 1 /\ ~t[N + 1].right
      BY <1>1, <1>7
    <3>2. /\ LastWrongOf(t, N + 2) \in 0 .. (N + 2) - 1
          /\ \A j \in 1 .. (N + 2) - 1 : ~t[j].right => j <= LastWrongOf(t, N + 2)
      BY <3>1, LastWrongIs
    <3> QED BY <3>1, <3>2, <1>1
  <2> QED BY <2>1, <1>1
<1> QED
  <2>1. LastWrongOf(s, N + 1) \in 0 .. N
    BY <1>1, <1>3
  <2>2. Grown(s, e, t, N)
    BY <1>1, <1>4, <1>5, <1>6, <1>7, <1>8, <2>1 DEF Grown
  <2> QED BY <2>2 DEF N

(* Chains of the longer history.                                           *)
LEMMA ChainsGrow ==
    ASSUME NEW s, NEW e, NEW t, Longer(s, e, t)
    PROVE  ChainsGrown(s, e, t, Len(s))
<1> DEFINE N == Len(s)
<1>5. Grown(s, e, t, N)
  BY HistoryGrows
<1> HIDE DEF N
<1>6. SUFFICES ASSUME NEW i \in 1 .. N
      PROVE  /\ \A k \in 0 .. N : Chain(t, i, k) <=> Chain(s, i, k)
             /\ Chain(t, i, N + 1) <=> Chain(s, i, N) /\ (e.right \/ FollowsIn(t, N + 1))
  BY DEF ChainsGrown, N
<1>1. /\ N \in Nat /\ t[N + 1] = e /\ \A j \in 1 .. N : t[j] = s[j]
      /\ \A j \in 1 .. N : FollowsIn(t, j) <=> FollowsIn(s, j)
  BY <1>5 DEF Grown
<1>2. ASSUME NEW k \in 0 .. N PROVE Chain(t, i, k) <=> Chain(s, i, k)
  <2>1. \A j \in i + 1 .. k : j \in 1 .. N
    BY <1>1
  <2> QED BY <2>1, <1>1 DEF Chain
<1>3. Chain(t, i, N + 1) <=> Chain(t, i, N) /\ (t[N + 1].right \/ FollowsIn(t, N + 1))
  <2>1. \A j : j \in i + 1 .. N + 1 <=> j \in i + 1 .. N \/ j = N + 1
    BY <1>1
  <2> QED BY <2>1 DEF Chain
<1>4. N \in 0 .. N
  BY <1>1
<1> QED BY <1>1, <1>2, <1>3, <1>4

Stores(e, m, r, q) ==
    /\ r \subseteq q /\ PairFor(e.mis, e.cor) \subseteq q
    /\ m.cor = e.mis => PairFor(m.mis, e.cor) \subseteq q
Told(s, m, r) == Remembers(m, s) /\ PairsKept(s, r)

LEMMA RightStored ==
    ASSUME NEW s, NEW m, NEW r, Told(s, m, r), NEW e, e.right, NEW t, Longer(s, e, t),
           NEW q, Stores(e, m, r, q)
    PROVE  Told(t, m, q)
<1> DEFINE N == Len(s)
           last == LastWrongOf(s, N + 1)
<1>6. Grown(s, e, t, N) /\ ChainsGrown(s, e, t, N)
  BY HistoryGrows, ChainsGrow
<1>2. /\ last = 0 => m.mis = <<>> /\ m.cor = <<>>
      /\ last # 0 => m.cor = s[last].cor
      /\ \A i \in 1 .. N : Chain(s, i, N) => m.mis = s[i].mis
  BY DEF Remembers, Told
<1>7. N = Len(s)
  OBVIOUS
<1> HIDE DEF N
<1>1. /\ N \in Nat /\ Len(t) = N + 1 /\ t[N + 1] = e /\ (\A i \in 1 .. N : t[i] = s[i])
      /\ last \in 0 .. N
      /\ (\A n \in 1 .. N : FollowsIn(t, n) <=> FollowsIn(s, n))
      /\ (FollowsIn(t, N + 1) <=> last # 0 /\ s[last].cor = e.mis)
      /\ LastWrongOf(t, N + 2) = last
  BY <1>6 DEF Grown
<1>3. \A i \in 1 .. N : /\ \A k \in 0 .. N : Chain(t, i, k) <=> Chain(s, i, k)
                        /\ Chain(t, i, N + 1) <=> Chain(s, i, N) /\ (e.right \/ FollowsIn(t, N + 1))
  BY <1>6 DEF ChainsGrown
<1> HIDE DEF last
<1>4. Remembers(m, t)
  <2>1. Len(t) + 1 = N + 2
    BY <1>1
  <2>2. ASSUME NEW i \in 1 .. Len(t), Chain(t, i, Len(t)) PROVE m.mis = t[i].mis
    <3>1. i # N + 1
      BY <2>2, <1>1 DEF Chain
    <3>2. i \in 1 .. N
      BY <3>1, <1>1
    <3> QED BY <2>2, <3>2, <1>1, <1>2, <1>3
  <2>3. last # 0 => m.cor = t[last].cor
    BY <1>1, <1>2
  <2> QED BY <2>1, <2>2, <2>3, <1>1, <1>2, <1>7 DEF Remembers
<1>5. PairsKept(t, q)
  <2> SUFFICES ASSUME NEW i \in 1 .. Len(t), NEW k \in 1 .. Len(t),
                      i < k, Chain(t, i, k - 1), t[k].right, FollowsIn(t, k)
               PROVE  PairFor(t[i].mis, t[k].cor) \cup PairFor(t[k].mis, t[k].cor) \subseteq q
    BY DEF PairsKept
  <2>1. i \in 1 .. N /\ k - 1 \in 0 .. N /\ (k \in 1 .. N \/ k = N + 1)
    BY <1>1
  <2>2. Chain(s, i, k - 1)
    BY <2>1, <1>3
  <2>3. CASE k \in 1 .. N
    <3>1. s[k].right /\ FollowsIn(s, k) /\ t[k] = s[k] /\ t[i] = s[i]
      BY <2>1, <2>3, <1>1
    <3>2. PairFor(s[i].mis, s[k].cor) \cup PairFor(s[k].mis, s[k].cor) \subseteq r
      BY <2>1, <2>2, <2>3, <3>1, <1>7 DEF PairsKept, Told
    <3> QED BY <3>1, <3>2 DEF Stores
  <2>4. CASE k = N + 1
    <3>1. Chain(s, i, N) /\ t[i] = s[i] /\ t[k] = e
      BY <2>1, <2>2, <2>4, <1>1
    <3>2. m.mis = s[i].mis /\ m.cor = e.mis
      BY <3>1, <2>1, <2>4, <1>1, <1>2
    <3> QED BY <3>1, <3>2 DEF Stores
  <2> QED BY <2>1, <2>3, <2>4
<1> QED BY <1>4, <1>5 DEF Told

LEMMA WrongStored ==
    ASSUME NEW s, NEW m, NEW r, Told(s, m, r), NEW e, ~e.right, NEW t, Longer(s, e, t)
    PROVE  Told(t, MemoryAfter(m, e.mis, e.cor), r)
<1> DEFINE N == Len(s)
           last == LastWrongOf(s, N + 1)
           after == MemoryAfter(m, e.mis, e.cor)
<1>7. Grown(s, e, t, N) /\ ChainsGrown(s, e, t, N)
  BY HistoryGrows, ChainsGrow
<1>2. /\ last = 0 => m.mis = <<>> /\ m.cor = <<>>
      /\ last # 0 => m.cor = s[last].cor
      /\ \A i \in 1 .. N : Chain(s, i, N) => m.mis = s[i].mis
  BY DEF Remembers, Told
<1>8. N = Len(s)
  OBVIOUS
<1> HIDE DEF N
<1>1. /\ N \in Nat /\ Len(t) = N + 1 /\ t[N + 1] = e /\ (\A i \in 1 .. N : t[i] = s[i])
      /\ last \in 0 .. N
      /\ (\A n \in 1 .. N : FollowsIn(t, n) <=> FollowsIn(s, n))
      /\ (FollowsIn(t, N + 1) <=> last # 0 /\ s[last].cor = e.mis)
      /\ LastWrongOf(t, N + 2) = N + 1
  BY <1>7 DEF Grown
<1>3. \A i \in 1 .. N : /\ \A k \in 0 .. N : Chain(t, i, k) <=> Chain(s, i, k)
                        /\ Chain(t, i, N + 1) <=> Chain(s, i, N) /\ (e.right \/ FollowsIn(t, N + 1))
  BY <1>7 DEF ChainsGrown
<1>4. after.cor = e.cor /\ after.mis = IF m.cor = e.mis THEN m.mis ELSE e.mis
  BY DEF MemoryAfter
<1> HIDE DEF last, after
<1>5. Remembers(after, t)
  <2>1. Len(t) + 1 = N + 2 /\ N + 1 # 0
    BY <1>1
  <2>2. ASSUME NEW i \in 1 .. Len(t), Chain(t, i, Len(t)) PROVE after.mis = t[i].mis
    <3>1. CASE i = N + 1
      <4>1. ~FollowsIn(t, N + 1)
        BY <2>2, <3>1 DEF Chain
      <4>2. m.cor = e.mis => m.mis = e.mis
        BY <4>1, <1>1, <1>2
      <4> QED BY <4>2, <3>1, <1>1, <1>4
    <3>2. CASE i \in 1 .. N
      <4>1. Chain(s, i, N) /\ FollowsIn(t, N + 1)
        BY <2>2, <3>2, <1>1, <1>3
      <4>2. m.mis = s[i].mis /\ m.cor = e.mis
        BY <4>1, <3>2, <1>1, <1>2
      <4> QED BY <4>2, <3>2, <1>1, <1>4
    <3> QED BY <3>1, <3>2, <1>1
  <2> QED BY <2>1, <2>2, <1>1, <1>4 DEF Remembers
<1>6. PairsKept(t, r)
  <2> SUFFICES ASSUME NEW i \in 1 .. Len(t), NEW k \in 1 .. Len(t),
                      i < k, Chain(t, i, k - 1), t[k].right, FollowsIn(t, k)
               PROVE  PairFor(t[i].mis, t[k].cor) \cup PairFor(t[k].mis, t[k].cor) \subseteq r
    BY DEF PairsKept
  <2>1. i \in 1 .. N /\ k - 1 \in 0 .. N /\ k \in 1 .. N
    BY <1>1
  <2>2. Chain(s, i, k - 1)
    BY <2>1, <1>3
  <2>3. s[k].right /\ FollowsIn(s, k) /\ t[k] = s[k] /\ t[i] = s[i]
    BY <2>1, <1>1
  <2> QED BY <2>1, <2>2, <2>3, <1>8 DEF PairsKept, Told
<1> QED BY <1>5, <1>6 DEF after, Told

LEMMA StoreKeeps ==
    ASSUME MemoryInv, NEW mis, NEW cor, store_replacement(mis, cor)
    PROVE  MemoryInv'
<1> DEFINE e == [mis |-> mis, cor |-> cor, right |-> IsRight(cor)]
<1>1. CASE options.ignoreRepl
  BY <1>1 DEF store_replacement, MemoryInv
<1>2. CASE ~options.ignoreRepl
  <2>1. stores' = Append(stores, e)
    BY <1>2 DEF store_replacement
  <2>2. IsSeq(stores')
    BY <2>1, AppendIs DEF MemoryInv
  <2>3. e.mis = mis /\ e.cor = cor
    OBVIOUS
  <2>4. e.right <=> IsRight(cor)
    BY Zenon
  <2>7. Longer(stores, e, stores')
    BY <2>1 DEF Longer, MemoryInv
  <2>8. Told(stores, memory, repl)
    BY DEF Told, MemoryInv
  <2> HIDE DEF e
  <2>5. CASE IsRight(cor)
    <3>1. /\ memory' = memory
          /\ repl' = repl \cup PairFor(mis, cor)
                          \cup (IF memory.cor = mis /\ Joined(PartsOf(cor)) # <<>>
                                THEN PairFor(memory.mis, cor) ELSE {})
      BY <1>2, <2>5 DEF store_replacement
    <3>2. Joined(PartsOf(cor)) = <<>> => PairFor(memory.mis, cor) = {}
      BY DEF PairFor
    <3>3. memory.cor = mis => PairFor(memory.mis, cor) \subseteq repl'
      BY <3>1, <3>2
    <3>4. repl \subseteq repl' /\ PairFor(mis, cor) \subseteq repl'
      BY <3>1
    <3> DEFINE q == repl'
    <3>5. /\ memory.cor = mis => PairFor(memory.mis, cor) \subseteq q
          /\ repl \subseteq q /\ PairFor(mis, cor) \subseteq q
      BY <3>3, <3>4
    <3> HIDE DEF q
    <3>6. Stores(e, memory, repl, q)
      BY <3>5, <2>3 DEF Stores
    <3>7. Told(stores', memory, q)
      BY <2>7, <2>8, <2>4, <2>5, <3>6, RightStored
    <3> QED BY <2>2, <3>1, <3>7 DEF MemoryInv, Told, q
  <2>6. CASE ~IsRight(cor)
    <3>1. memory' = MemoryAfter(memory, mis, cor) /\ repl' = repl
      BY <1>2, <2>6 DEF store_replacement
    <3>2. Told(stores', MemoryAfter(memory, e.mis, e.cor), repl)
      BY <2>4, <2>6, <2>7, <2>8, WrongStored
    <3> QED BY <2>2, <2>3, <3>1, <3>2 DEF MemoryInv, Told
  <2> QED BY <2>5, <2>6
<1> QED BY <1>1, <1>2

LEMMA EmptyRemembers ==
    ASSUME NEW s, IsSeq(s), Len(s) = 0, NEW m, m.mis = <<>>, m.cor = <<>>, NEW r
    PROVE  Remembers(m, s) /\ PairsKept(s, r)
<1>1. LastWrongOf(s, 1) = 0
  BY LastWrongIs
<1> QED BY <1>1 DEF Remembers, PairsKept

LEMMA MemoryFromStart ==
    SpellerInit => MemoryInv
<1> SUFFICES ASSUME SpellerInit PROVE MemoryInv
  OBVIOUS
<1>1. stores = <<>> /\ memory.mis = <<>> /\ memory.cor = <<>>
  BY DEF SpellerInit
<1>2. IsSeq(stores) /\ Len(stores) = 0
  <2>1. <<>> \in Seq({})
    OBVIOUS
  <2> QED BY <1>1, <2>1, Zenon DEF IsSeq
<1> QED BY <1>1, <1>2, EmptyRemembers DEF MemoryInv

LEMMA MemoryStep ==
    ASSUME MemoryInv, SpellerNext
    PROVE  MemoryInv'
<1> DEFINE Idle == UNCHANGED <<stores, memory, repl>>
<1>1. ASSUME Idle PROVE MemoryInv'
  BY <1>1 DEF MemoryInv
<1>2. ASSUME NEW c \in Commands, Obey(c) PROVE MemoryInv'
  <2>1. CASE store_replacement(c.a, c.b)
    BY <2>1, StoreKeeps
  <2>2. CASE ~store_replacement(c.a, c.b)
    <3>1. Idle
      BY <1>2, <2>2, Zenon DEF Obey, add_to_personal, add_to_session, save_all_word_lists, SetOption,
                              CheckLine, Lists
    <3> QED BY <3>1, <1>1
  <2> QED BY <2>1, <2>2
<1>3. ASSUME NEW name, NEW value, SetOption(name, value) PROVE MemoryInv'
  <2>1. Idle
    BY <1>3, Zenon DEF SetOption, Lists
  <2> QED BY <2>1, <1>1
<1>4. CASE StartAgain
  <2>1. stores' = <<>> /\ memory'.mis = <<>> /\ memory'.cor = <<>>
    BY <1>4 DEF StartAgain
  <2>2. IsSeq(stores') /\ Len(stores') = 0
    <3>1. <<>> \in Seq({})
      OBVIOUS
    <3> QED BY <2>1, <3>1, Zenon DEF IsSeq
  <2> QED BY <2>1, <2>2, EmptyRemembers DEF MemoryInv
<1>5. CASE SpellerObeys
  <2>1. \/ \E c \in Commands : Obey(c)
        \/ \E name \in DOMAIN Settings : \E value \in Settings[name] : SetOption(name, value)
    BY <1>5, Zenon DEF SpellerObeys
  <2> QED BY <2>1, <1>2, <1>3
<1> QED BY <1>4, <1>5 DEF SpellerNext

LEMMA MemoryHolds ==
    MemoryInv => MemoryKept
<1> SUFFICES ASSUME MemoryInv, NEW i \in DOMAIN stores, NEW k \in DOMAIN stores,
                    i < k, ~stores[i].right, stores[k].right, ~Follows(i),
                    \A j \in i + 1 .. k : (stores[j].right /\ j # k) \/ Follows(j)
             PROVE  PairFor(stores[i].mis, stores[k].cor) \cup PairFor(stores[k].mis, stores[k].cor)
                        \subseteq repl
  BY Zenon DEF MemoryKept
<1>1. DOMAIN stores = 1 .. Len(stores) /\ Len(stores) \in Nat
  BY DEF MemoryInv, IsSeq
<1>2. \A n : Follows(n) <=> FollowsIn(stores, n)
  BY Zenon DEF Follows, FollowsIn, LastWrong, LastWrongOf, WrongBefore
<1>3. k \in i + 1 .. k /\ i \in 1 .. Len(stores) /\ k \in 1 .. Len(stores)
  BY <1>1
<1>4. FollowsIn(stores, k)
  BY <1>2, <1>3
<1>5. Chain(stores, i, k - 1)
  <2>1. \A j \in i + 1 .. k - 1 : j \in i + 1 .. k
    BY <1>3
  <2> QED BY <2>1, <1>2 DEF Chain
<1> QED BY <1>3, <1>4, <1>5 DEF MemoryInv, PairsKept

-----------------------------------------------------------------------------
(* The answers to a line.                                                  *)

(* AnswersInPlace of any line and its answers.                             *)
Places(line) == {i \in DOMAIN line : IsText(line[i]) /\ (i = 1 \/ ~IsText(line[i - 1]))}
FoundIn(line, a) == a.word = SubSeq(line, a.offset + 1, a.offset + Len(a.word))
InPlace(answered, line, all) ==
    /\ \A k \in DOMAIN answered :
           /\ FoundIn(line, answered[k])
           /\ k = 1 \/ answered[k - 1].offset < answered[k].offset
    /\ all => Len(answered) = Cardinality(Places(line))

Ordered(r, S, n) ==
    /\ r \in [1 .. Len(r) -> S] /\ Len(r) \in Nat
    /\ \A j, k \in 1 .. Len(r) : j < k => r[j] < r[k]
    /\ \A i \in S : \E k \in 1 .. Len(r) : r[k] = i

LEMMA InOrderIs ==
    ASSUME NEW n \in Nat, NEW S, S \subseteq 1 .. n
    PROVE  Ordered(InOrder(S, n), S, n)
<1> DEFINE s == [i \in 1 .. n |-> i]
           Body(f) == [i \in 0 .. n |-> IF i = 0 THEN <<>>
                                        ELSE IF i \in S THEN Append(f[i - 1], i) ELSE f[i - 1]]
           g == CHOOSE f : f = Body(f)
<1>1. InOrder(S, n) = g[n]
  BY Zenon DEF InOrder
<1>2. s \in Seq(1 .. n) /\ Len(s) = n
  OBVIOUS
<1>3. ASSUME NEW f PROVE SelectBody(f, s, S) = Body(f)
  <2>1. \A i \in 0 .. n : i # 0 => s[i] = i
    OBVIOUS
  <2> HIDE DEF s
  <2> QED BY <2>1, <1>2 DEF SelectBody
<1> HIDE DEF s, g
<1>4. \E f : f = Body(f)
  <2>1. PICK f : f = SelectBody(f, s, S)
    BY <1>2, SelectExists
  <2> QED BY <2>1, <1>3
<1>5. g = Body(g)
  BY <1>4, Zenon DEF g
<1>6. g = SelectBody(g, s, S)
  BY <1>3, <1>5, Zenon
<1>7. g[Len(s)] \in Seq(1 .. n) /\ Selects(g[Len(s)], s, S, Len(s))
  <2> HIDE DEF Body
  <2> QED BY <1>2, <1>6, SelectionIs
<1>8. g[n] \in Seq(1 .. n) /\ Selects(g[n], s, S, n)
  BY <1>2, <1>7
<1> DEFINE r == g[n]
<1> HIDE DEF r
<1>9. PICK h : SelectsBy(h, r, s, S, n)
  BY <1>8 DEF Selects, r
<1>10. \A i \in 1 .. n : s[i] = i
  BY DEF s
<1>11. r \in Seq(1 .. n) /\ Len(r) \in Nat
  BY <1>8 DEF r
<1>12. \A k \in 1 .. Len(r) : r[k] = h[k] /\ h[k] \in S
  <2> SUFFICES ASSUME NEW k \in 1 .. Len(r) PROVE r[k] = h[k] /\ h[k] \in S
    OBVIOUS
  <2>1. h[k] \in 1 .. n
    BY <1>9 DEF SelectsBy
  <2>2. s[h[k]] = h[k]
    BY <2>1, <1>10
  <2> QED BY <2>1, <2>2, <1>9 DEF SelectsBy
<1>13. \A j, k \in 1 .. Len(r) : j < k => r[j] < r[k]
  BY <1>9, <1>12 DEF SelectsBy
<1>14. \A i \in S : \E k \in 1 .. Len(r) : r[k] = i
  BY <1>9, <1>10, <1>12 DEF SelectsBy
<1>15. r \in [1 .. Len(r) -> S]
  BY <1>11, <1>12
<1> QED BY <1>1, <1>11, <1>13, <1>14, <1>15 DEF Ordered, r

LEMMA WordEndIs ==
    ASSUME NEW text \in Seq(Nat), NEW i \in 1 .. Len(text)
    PROVE  WordEnd(text, i) \in i - 1 .. Len(text)
<1> DEFINE A == {j \in i .. Len(text) + 1 : j > Len(text) \/ ~IsText(text[j])}
<1>1. A \subseteq Nat /\ Len(text) + 1 \in A
  OBVIOUS
<1>2. A \subseteq i .. Len(text) + 1
  OBVIOUS
<1>3. WordEnd(text, i) = Min(A) - 1
  BY DEF WordEnd
<1> HIDE DEF A
<1>4. \E a \in A : \A b \in A : a <= b
  BY <1>1, LeastIn
<1>5. Min(A) \in A
  BY <1>4 DEF Min
<1> DEFINE m == Min(A)
<1>6. m \in i .. Len(text) + 1
  <2> HIDE DEF m
  <2>1. ASSUME NEW x \in A PROVE x \in i .. Len(text) + 1
    BY <1>2, Zenon
  <2> QED BY <1>5, <2>1, Zenon DEF m
<1> HIDE DEF m
<1>7. m - 1 \in i - 1 .. Len(text)
  BY <1>6
<1> QED BY <1>3, <1>7 DEF m

LEMMA SubSeqIs ==
    ASSUME NEW s \in Seq(Nat), NEW b \in Nat \ {0}, NEW e \in b - 1 .. Len(s)
    PROVE  /\ SubSeq(s, b, e) \in Seq(Nat) /\ Len(SubSeq(s, b, e)) = e - b + 1
           /\ \A j \in 1 .. e - b + 1 : SubSeq(s, b, e)[j] = s[j + b - 1]
<1>1. CASE e = b - 1
  BY <1>1
<1>2. CASE e \in b .. Len(s)
  BY <1>2
<1> QED BY <1>1, <1>2

LEMMA SameFunction ==
    \A D, R, f, h : f \in [D -> R] /\ h \in [D -> R] /\ (\A j \in D : f[j] = h[j]) => f = h
OBVIOUS

(* What is read from a text is found in the line it is the end of.         *)
LEMMA TokenFound ==
    ASSUME NEW line \in Seq(Nat), NEW g \in 0 .. 1, g <= Len(line),
           NEW b \in 1 .. Len(line) - g, NEW e \in b - 1 .. Len(line) - g
    PROVE  LET word == SubSeq(SubSeq(line, g + 1, Len(line)), b, e)
           IN  word = SubSeq(line, (b - 1 + g) + 1, (b - 1 + g) + Len(word))
<1> DEFINE N == Len(line)
           text == SubSeq(line, g + 1, N)
           o == b - 1 + g
<1>1. N \in Nat /\ g + 1 \in Nat \ {0} /\ N \in (g + 1) - 1 .. N /\ b \in Nat \ {0}
      /\ N - (g + 1) + 1 = N - g /\ g \in Nat
  OBVIOUS
<1>2. /\ text \in Seq(Nat) /\ Len(text) = N - g
      /\ \A j \in 1 .. N - g : text[j] = line[j + (g + 1) - 1]
  BY <1>1, SubSeqIs
<1>3. N = Len(line)
  OBVIOUS
<1> HIDE DEF text, N
<1> DEFINE word == SubSeq(text, b, e)
<1>4. e \in b - 1 .. Len(text) /\ e \in b - 1 .. N - g /\ b \in 1 .. N - g
  BY <1>2, <1>3
<1>5. /\ word \in Seq(Nat) /\ Len(word) = e - b + 1
      /\ \A j \in 1 .. e - b + 1 : word[j] = text[j + b - 1]
  BY <1>1, <1>2, <1>4, SubSeqIs
<1> DEFINE L == Len(word)
<1>6. L = e - b + 1 /\ L = Len(word)
  BY <1>5
<1> HIDE DEF word, L
<1>7. /\ o + 1 \in Nat \ {0} /\ o + L \in (o + 1) - 1 .. N
      /\ (o + L) - (o + 1) + 1 = e - b + 1 /\ o \in Nat
  BY <1>1, <1>4, <1>6
<1> DEFINE v == SubSeq(line, o + 1, o + L)
<1>8. /\ v \in Seq(Nat) /\ Len(v) = e - b + 1
      /\ \A j \in 1 .. e - b + 1 : v[j] = line[j + (o + 1) - 1]
  <2> HIDE DEF o
  <2> QED BY <1>3, <1>7, SubSeqIs
<1> HIDE DEF v
<1>9. ASSUME NEW j \in 1 .. e - b + 1 PROVE word[j] = v[j]
  <2>1. j + b - 1 \in 1 .. N - g /\ j + (o + 1) - 1 = (j + b - 1) + (g + 1) - 1
    BY <1>1, <1>4
  <2>2. text[j + b - 1] = line[(j + b - 1) + (g + 1) - 1]
    <3> DEFINE n == j + b - 1
    <3> HIDE DEF n
    <3> QED BY <2>1, <1>2 DEF n
  <2> QED BY <2>1, <2>2, <1>5, <1>8
<1>10. word = v
  <2> DEFINE D == 1 .. e - b + 1
  <2>1. word \in [D -> Nat]
    BY <1>5
  <2>2. v \in [D -> Nat]
    BY <1>8
  <2>3. \A j \in D : word[j] = v[j]
    BY <1>9
  <2> HIDE DEF D
  <2> QED BY <2>1, <2>2, <2>3, SameFunction
<1> QED BY <1>10 DEF word, v, text, o, N, L

(* What the starts of the words of a text are in the line.                 *)
LEMMA PlacesIs ==
    ASSUME NEW line \in Seq(Nat)
    PROVE  LET g == Ignored(line)
               text == SubSeq(line, g + 1, Len(line))
           IN  /\ g \in 0 .. 1 /\ g <= Len(line) /\ text \in Seq(Nat) /\ Len(text) = Len(line) - g
               /\ \A b \in 1 .. Len(text) : WordStarts(text, b) <=> b + g \in Places(line)
               /\ \A i \in Places(line) : i - g \in 1 .. Len(text)
<1> DEFINE N == Len(line)
           g == Ignored(line)
           text == SubSeq(line, g + 1, N)
<1>1. g \in 0 .. 1 /\ g <= N /\ N \in Nat /\ (g = 1 => N >= 1 /\ ~IsText(line[1]))
  <2>1. CASE line = <<>>
    BY <2>1 DEF Ignored
  <2>2. CASE line # <<>>
    <3>1. N >= 1 /\ N \in Nat
      BY <2>2
    <3>2. g = (IF line[1] \in {Caret, Dollar} THEN 1 ELSE 0)
      BY <2>2 DEF Ignored
    <3>3. \A c \in {31, 32} : ~IsText(c)
      BY DEF IsText, IsLetter, IsLower, IsUpper
    <3> HIDE DEF g, N
    <3> QED BY <3>1, <3>2, <3>3 DEF Caret, Dollar
  <2> QED BY <2>1, <2>2
<1>2. N = Len(line) /\ g = Ignored(line)
  OBVIOUS
<1> HIDE DEF N, g
<1>3. /\ text \in Seq(Nat) /\ Len(text) = N - g
      /\ \A j \in 1 .. N - g : text[j] = line[j + (g + 1) - 1]
  <2>1. g + 1 \in Nat \ {0} /\ N \in (g + 1) - 1 .. N /\ N - (g + 1) + 1 = N - g
    BY <1>1
  <2> DEFINE m == g + 1
  <2> HIDE DEF m
  <2>2. m \in Nat \ {0} /\ N \in m - 1 .. Len(line) /\ N - m + 1 = N - g
    BY <2>1, <1>2 DEF m
  <2>3. /\ SubSeq(line, m, N) \in Seq(Nat) /\ Len(SubSeq(line, m, N)) = N - m + 1
        /\ \A j \in 1 .. N - m + 1 : SubSeq(line, m, N)[j] = line[j + m - 1]
    BY <2>2, SubSeqIs
  <2>4. /\ SubSeq(line, m, N) \in Seq(Nat) /\ Len(SubSeq(line, m, N)) = N - g
        /\ \A j \in 1 .. N - g : SubSeq(line, m, N)[j] = line[j + m - 1]
    BY <2>2, <2>3, Zenon
  <2> QED BY <2>4, Zenon DEF m
<1> HIDE DEF text
<1>4. \A j \in 1 .. N - g : text[j] = line[j + g]
  <2>1. \A j \in 1 .. N - g : j + (g + 1) - 1 = j + g
    BY <1>1
  <2> QED BY <2>1, <1>3
<1>5. ASSUME NEW b \in 1 .. N - g PROVE WordStarts(text, b) <=> b + g \in Places(line)
  <2>1. b + g \in 1 .. N /\ DOMAIN line = 1 .. N
    BY <1>1, <1>2
  <2>2. b + g \in Places(line) <=> IsText(line[b + g]) /\ (b + g = 1 \/ ~IsText(line[(b + g) - 1]))
    <3> DEFINE x == b + g
    <3>1. x \in DOMAIN line
      BY <2>1
    <3> HIDE DEF x
    <3>2. x \in Places(line) <=> IsText(line[x]) /\ (x = 1 \/ ~IsText(line[x - 1]))
      BY <3>1, Zenon DEF Places
    <3> QED BY <3>2, Zenon DEF x
  <2>3. text[b] = line[b + g]
    BY <1>4
  <2>4. CASE b = 1
    <3>1. b + g = 1 \/ ~IsText(line[(b + g) - 1])
      <4>1. g = 0 => b + g = 1
        BY <2>4
      <4>2. g = 1 => (b + g) - 1 = 1
        BY <2>4
      <4> QED BY <4>1, <4>2, <1>1
    <3> QED BY <3>1, <2>2, <2>3, <2>4 DEF WordStarts
  <2>5. CASE b # 1
    <3>1. b - 1 \in 1 .. N - g /\ (b - 1) + g = (b + g) - 1 /\ b + g # 1
      BY <2>5, <1>1
    <3>2. text[b - 1] = line[(b + g) - 1]
      BY <3>1, <1>4
    <3> QED BY <3>1, <3>2, <2>2, <2>3, <2>5 DEF WordStarts
  <2> QED BY <2>4, <2>5
<1>6. ASSUME NEW i \in Places(line) PROVE i - g \in 1 .. N - g
  <2>1. i \in 1 .. N /\ IsText(line[i])
    BY <1>2 DEF Places
  <2>2. g = 1 => i # 1
    BY <2>1, <1>1
  <2> QED BY <2>1, <2>2, <1>1
<1> QED BY <1>1, <1>2, <1>3, <1>5, <1>6 DEF text

Composed(s, p, S, K) ==
    /\ \A k \in 1 .. Len(p) : p[k] \in 1 .. Len(s) /\ s[p[k]] \in S
    /\ \A j, k \in 1 .. Len(p) : j < k => s[p[j]] < s[p[k]]
    /\ K = 1 .. Len(s) => \A i \in S : \E k \in 1 .. Len(p) : s[p[k]] = i

LEMMA SpokenOf ==
    ASSUME NEW S, NEW L \in Nat, S \subseteq 1 .. L, NEW s, Ordered(s, S, L),
           NEW K, K \subseteq 1 .. Len(s), NEW p, Ordered(p, K, Len(s))
    PROVE  Composed(s, p, S, K)
<1>1. \A k \in 1 .. Len(p) : p[k] \in K /\ p[k] \in 1 .. Len(s)
  BY DEF Ordered
<1>2. \A k \in 1 .. Len(s) : s[k] \in S
  BY DEF Ordered
<1>3. ASSUME NEW j \in 1 .. Len(p), NEW k \in 1 .. Len(p), j < k PROVE s[p[j]] < s[p[k]]
  <2>1. p[j] < p[k]
    BY <1>3 DEF Ordered
  <2> QED BY <2>1, <1>1 DEF Ordered
<1>4. ASSUME K = 1 .. Len(s), NEW i \in S PROVE \E k \in 1 .. Len(p) : s[p[k]] = i
  <2>1. PICK a \in 1 .. Len(s) : s[a] = i
    BY DEF Ordered
  <2>2. PICK k \in 1 .. Len(p) : p[k] = a
    BY <1>4 DEF Ordered
  <2> QED BY <2>1, <2>2
<1> QED BY <1>1, <1>2, <1>3, <1>4 DEF Composed

LEMMA Counted ==
    ASSUME NEW n \in Nat, NEW S, NEW f \in [1 .. n -> S],
           \A j, k \in 1 .. n : j < k => f[j] < f[k], S \subseteq Nat,
           \A i \in S : \E k \in 1 .. n : f[k] = i
    PROVE  Cardinality(S) = n
<1>1. \A j, k \in 1 .. n : f[j] = f[k] => j = k
  <2> SUFFICES ASSUME NEW j \in 1 .. n, NEW k \in 1 .. n, j # k PROVE f[j] # f[k]
    OBVIOUS
  <2>1. f[j] \in Nat /\ f[k] \in Nat
    OBVIOUS
  <2>2. j < k \/ k < j
    OBVIOUS
  <2>3. f[j] < f[k] \/ f[k] < f[j]
    BY <2>2
  <2> QED BY <2>1, <2>3
<1>2. f \in Bijection(1 .. n, S)
  BY <1>1 DEF Bijection, Injection, Surjection, IsInjective
<1>3. ExistsBijection(1 .. n, S)
  BY <1>2 DEF ExistsBijection
<1>4. IsFiniteSet(1 .. n) /\ Cardinality(1 .. n) = n
  BY FS_Interval
<1> QED BY <1>3, <1>4, FS_Bijection

LEMMA AnswerKeeps ==
    ASSUME NEW token, NEW g
    PROVE  AnswerTo(token, g).offset = token.offset + g /\ AnswerTo(token, g).word = token.word
BY DEF AnswerTo

LEMMA AnswersRight ==
    ASSUME NEW line \in Seq(Nat)
    PROVE  InPlace(AnswersTo(line), line, options.verbose)
<1> DEFINE g == Ignored(line)
           text == SubSeq(line, g + 1, Len(line))
           L == Len(text)
           S == {i \in DOMAIN text : WordStarts(text, i)}
           starts == InOrder(S, L)
           tokens == [k \in DOMAIN starts |->
                         [offset |-> starts[k] - 1, word |-> SubSeq(text, starts[k], WordEnd(text, starts[k]))]]
           K == {k \in DOMAIN tokens : IsSpoken(AnswerTo(tokens[k], g))}
           spoken == InOrder(K, Len(tokens))
           answered == [k \in DOMAIN spoken |-> AnswerTo(tokens[spoken[k]], g)]
<1>1. AnswersTo(line) = answered
  BY Zenon DEF AnswersTo, TokensOf
<1>2. /\ g \in 0 .. 1 /\ g <= Len(line) /\ text \in Seq(Nat) /\ L = Len(line) - g
      /\ \A b \in 1 .. L : WordStarts(text, b) <=> b + g \in Places(line)
      /\ \A i \in Places(line) : i - g \in 1 .. L
  BY PlacesIs
<1>3. L \in Nat /\ Len(line) \in Nat
  BY <1>2
<1>4. S \subseteq 1 .. L /\ \A b \in 1 .. L : b \in S <=> b + g \in Places(line)
  BY <1>2
<1>5. \A b \in 1 .. L : /\ WordEnd(text, b) \in b - 1 .. L
  BY <1>2, WordEndIs
<1>6. ASSUME NEW b \in 1 .. L, NEW w, w = SubSeq(text, b, WordEnd(text, b))
      PROVE  w = SubSeq(line, (b - 1 + g) + 1, (b - 1 + g) + Len(w))
  <2>1. WordEnd(text, b) \in b - 1 .. Len(line) - g /\ b \in 1 .. Len(line) - g
    BY <1>2, <1>5
  <2> QED BY <2>1, <1>2, <1>6, TokenFound
<1> HIDE DEF text, L, S, g
<1>7. Ordered(starts, S, L)
  BY <1>3, <1>4, InOrderIs
<1>8. DOMAIN starts = 1 .. Len(starts) /\ Len(starts) \in Nat
  BY <1>7 DEF Ordered
<1> HIDE DEF starts
<1>9. Len(tokens) = Len(starts) /\ DOMAIN tokens = 1 .. Len(starts)
  BY <1>8
<1>10. K \subseteq 1 .. Len(starts)
  BY <1>9
<1>11. Ordered(spoken, K, Len(starts))
  <2> HIDE DEF K, tokens
  <2> QED BY <1>8, <1>9, <1>10, InOrderIs
<1>12. /\ \A k \in 1 .. Len(spoken) : spoken[k] \in 1 .. Len(starts) /\ starts[spoken[k]] \in S
       /\ \A j, k \in 1 .. Len(spoken) : j < k => starts[spoken[j]] < starts[spoken[k]]
       /\ K = 1 .. Len(starts) => \A i \in S : \E k \in 1 .. Len(spoken) : starts[spoken[k]] = i
  <2> HIDE DEF K, spoken
  <2>1. Composed(starts, spoken, S, K)
    BY <1>3, <1>4, <1>7, <1>10, <1>11, SpokenOf
  <2> QED BY <2>1 DEF Composed
<1>13. options.verbose => K = 1 .. Len(starts)
  BY <1>9 DEF IsSpoken
<1>14. DOMAIN spoken = 1 .. Len(spoken) /\ Len(spoken) \in Nat
  BY <1>11 DEF Ordered
<1> HIDE DEF K, spoken
<1>15. \A k \in 1 .. Len(spoken) : answered[k] = AnswerTo(tokens[spoken[k]], g)
  BY <1>14, Zenon
<1>16. Len(answered) = Len(spoken) /\ DOMAIN answered = 1 .. Len(spoken)
  BY <1>14
<1>17. ASSUME NEW k \in 1 .. Len(spoken)
       PROVE  /\ answered[k].offset = starts[spoken[k]] - 1 + g
              /\ answered[k].word = SubSeq(text, starts[spoken[k]], WordEnd(text, starts[spoken[k]]))
  <2>1. tokens[spoken[k]] = [offset |-> starts[spoken[k]] - 1,
                             word |-> SubSeq(text, starts[spoken[k]], WordEnd(text, starts[spoken[k]]))]
    BY <1>12, <1>8, Zenon
  <2> DEFINE token == tokens[spoken[k]]
  <2>2. /\ token.offset = starts[spoken[k]] - 1
        /\ token.word = SubSeq(text, starts[spoken[k]], WordEnd(text, starts[spoken[k]]))
    <3> HIDE DEF tokens
    <3> DEFINE o == starts[spoken[k]] - 1
               w == SubSeq(text, starts[spoken[k]], WordEnd(text, starts[spoken[k]]))
    <3>1. token = [offset |-> o, word |-> w]
      BY <2>1, Zenon
    <3> HIDE DEF o, w, token
    <3>2. token.offset = o /\ token.word = w
      BY <3>1
    <3> QED BY <3>2 DEF o, w, token
  <2> HIDE DEF tokens, answered, token
  <2>3. answered[k] = AnswerTo(token, g)
    BY <1>15, Zenon DEF token
  <2> QED BY <2>2, <2>3, AnswerKeeps
<1> HIDE DEF tokens, answered
<1>18. \A k \in 1 .. Len(spoken) : starts[spoken[k]] \in 1 .. L
  BY <1>4, <1>12
<1>19. ASSUME NEW k \in 1 .. Len(spoken) PROVE FoundIn(line, answered[k])
  BY <1>6, <1>17, <1>18 DEF FoundIn
<1>20. ASSUME NEW k \in 1 .. Len(spoken), k # 1 PROVE answered[k - 1].offset < answered[k].offset
  <2>1. k - 1 \in 1 .. Len(spoken) /\ k - 1 < k
    BY <1>20, <1>14
  <2>2. starts[spoken[k - 1]] < starts[spoken[k]]
    BY <2>1, <1>12
  <2>3. starts[spoken[k]] \in Nat /\ starts[spoken[k - 1]] \in Nat /\ g \in Nat
    BY <2>1, <1>2, <1>18
  <2>4. /\ answered[k - 1].offset = starts[spoken[k - 1]] - 1 + g
        /\ answered[k].offset = starts[spoken[k]] - 1 + g
    BY <2>1, <1>17
  <2> QED BY <2>2, <2>3, <2>4
<1>21. ASSUME options.verbose PROVE Len(answered) = Cardinality(Places(line))
  <2> DEFINE f == [k \in 1 .. Len(spoken) |-> starts[spoken[k]] + g]
  <2>1. \A k \in 1 .. Len(spoken) : starts[spoken[k]] + g \in Places(line)
    BY <1>4, <1>12
  <2>2. f \in [1 .. Len(spoken) -> Places(line)]
    BY <2>1
  <2>3. ASSUME NEW j \in 1 .. Len(spoken), NEW k \in 1 .. Len(spoken), j < k PROVE f[j] < f[k]
    <3>1. starts[spoken[j]] < starts[spoken[k]]
      BY <1>12, <2>3
    <3>2. starts[spoken[j]] \in Nat /\ starts[spoken[k]] \in Nat /\ g \in Nat
      BY <1>2, <1>18
    <3>3. starts[spoken[j]] + g < starts[spoken[k]] + g
      BY <3>1, <3>2
    <3> QED BY <3>3, Zenon
  <2>4. Places(line) \subseteq Nat
    BY <1>3 DEF Places
  <2>5. ASSUME NEW i \in Places(line) PROVE \E k \in 1 .. Len(spoken) : f[k] = i
    <3>1. i - g \in 1 .. L /\ (i - g) + g = i
      BY <1>2, <2>4
    <3>2. i - g \in S
      BY <3>1, <1>4
    <3>3. PICK k \in 1 .. Len(spoken) : starts[spoken[k]] = i - g
      BY <3>2, <1>12, <1>13, <1>21
    <3> QED BY <3>1, <3>3
  <2> HIDE DEF f
  <2>6. Cardinality(Places(line)) = Len(spoken)
    BY <2>2, <2>3, <2>4, <2>5, <1>14, Counted
  <2> QED BY <2>6, <1>16
<1>22. InPlace(answered, line, options.verbose)
  BY <1>16, <1>19, <1>20, <1>21 DEF InPlace
<1> QED BY <1>1, <1>22

LEMMA NothingInPlace ==
    ASSUME NEW all
    PROVE  InPlace(<<>>, <<>>, all)
<1>1. Places(<<>>) = {} /\ Len(<<>>) = 0
  BY DEF Places
<1> QED BY <1>1, FS_EmptySet DEF InPlace

AnswersInv == InPlace(answers, lineSent, options.verbose)

LEMMA AnswersStep ==
    ASSUME AnswersInv, SpellerNext
    PROVE  AnswersInv'
<1> DEFINE Same == UNCHANGED <<answers, lineSent, options>>
           Cleared == answers' = <<>> /\ lineSent' = <<>>
<1>1. ASSUME Same PROVE AnswersInv'
  BY <1>1 DEF AnswersInv
<1>2. ASSUME Cleared PROVE AnswersInv'
  BY <1>2, NothingInPlace DEF AnswersInv
<1>3. ASSUME NEW c \in Commands, Obey(c) PROVE AnswersInv'
  <2>1. CASE c.do = "check" /\ CheckLine(c.a)
    <3>1. c.a \in Seq(Nat)
      BY <2>1, SpellerAssumption
    <3>2. answers' = AnswersTo(c.a) /\ lineSent' = c.a /\ options' = options
      BY <2>1 DEF CheckLine
    <3>3. InPlace(AnswersTo(c.a), c.a, options.verbose)
      BY <3>1, AnswersRight
    <3> QED BY <3>2, <3>3 DEF AnswersInv
  <2>2. CASE ~(c.do = "check" /\ CheckLine(c.a))
    <3>1. Same \/ Cleared
      BY <1>3, <2>2, Zenon DEF Obey, Quiet, add_to_personal, add_to_session, save_all_word_lists
    <3> QED BY <3>1, <1>1, <1>2
  <2> QED BY <2>1, <2>2
<1>4. CASE StartAgain
  <2>1. Cleared
    BY <1>4 DEF StartAgain
  <2> QED BY <2>1, <1>2
<1>5. CASE SpellerObeys
  <2>1. (\E c \in Commands : Obey(c)) \/ Cleared
    BY <1>5, Zenon DEF SpellerObeys
  <2> QED BY <2>1, <1>2, <1>3
<1> QED BY <1>4, <1>5 DEF SpellerNext

LEMMA AnswersHold ==
    AnswersInv => AnswersInPlace
BY Zenon DEF AnswersInv, InPlace, FoundIn, Places, AnswersInPlace

(***************************************************************************)
(* Whatever lines are sent to a pipe: a misspelling that was replaced by   *)
(* another and that in the end by a right word is stored with that word,   *)
(* by MemoryInv (what is remembered is the beginning and the end of the    *)
(* last chain); and every answer names a word of the line where the line   *)
(* has it, in the order of the words, and in verbose mode all of them      *)
(* (aspell_speller_store_replacement and check of aspell.cpp, pipe).       *)
(***************************************************************************)
THEOREM PipeKeepsFaithAlways == SpellerSpec => []PipeKeepsFaith
<1>1. SpellerInit => MemoryInv /\ AnswersInv
  <2>1. SpellerInit => answers = <<>> /\ lineSent = <<>>
    BY DEF SpellerInit
  <2>2. SpellerInit => AnswersInv
    BY <2>1, NothingInPlace DEF AnswersInv
  <2> QED BY <2>2, MemoryFromStart
<1>2. MemoryInv /\ AnswersInv /\ [SpellerNext]_spellervars => (MemoryInv /\ AnswersInv)'
  <2>1. MemoryInv /\ AnswersInv /\ SpellerNext => (MemoryInv /\ AnswersInv)'
    BY MemoryStep, AnswersStep
  <2>2. MemoryInv /\ AnswersInv /\ UNCHANGED spellervars => (MemoryInv /\ AnswersInv)'
    BY DEF spellervars, MemoryInv, AnswersInv
  <2> QED BY <2>1, <2>2
<1>3. MemoryInv /\ AnswersInv => PipeKeepsFaith
  BY MemoryHolds, AnswersHold DEF PipeKeepsFaith
<1> QED BY <1>1, <1>2, <1>3, PTL DEF SpellerSpec
=============================================================================
