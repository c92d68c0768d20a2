------------------------------- MODULE Config -------------------------------
(***************************************************************************)
(* aspell's configuration (common/config.cpp): one list of entries, each a *)
(* change to a key, in which the last one that counts gives the value.     *)
(* The command line is parsed before the files that come before it, so     *)
(* entries are put in uncommitted and at a moving insertion point, and are *)
(* checked (commit) once all are there.  A program using the library has   *)
(* its own configuration, committed entry by entry, merged into that of    *)
(* the speller.                                                            *)
(*                                                                         *)
(* Values are sequences of words; the text of a file is the sequence of    *)
(* the changes its lines ask for, with an unescaped value.                 *)
(***************************************************************************)
EXTENDS Integers, Sequences, SequencesExt

CONSTANTS
    Ops,            \* what users may write: [key, action, value]
    Sources,        \* what the environment and the two files may hold
    LangOps,        \* the language's own defaults
    MaxArgs,        \* bound: changes on the command line or by the client
    MaxLater        \* bound: changes after the settings were read

VARIABLES
    cfg,            \* [entries, ip, committed]
    stage,          \* "off", "args", "read", "run", "failed"
    library,        \* a client's configuration, or the command line's
    sources,        \* env, per and conf: what they held
    asked,          \* every change in the order it is meant to count
    told,           \* what the attached notifier last heard of each key
    later           \* changes made at run time

configvars == <<cfg, stage, library, sources, asked, told, later>>

-----------------------------------------------------------------------------
\* Keys, as config_keys has them: one of each type, one whose default is
\* another's value, one whose notifier corrects what it hears, and a second
\* list.

Key == {"mode", "limit", "lang", "pws", "dicts", "filter"}
TypeOf(k) == CASE k = "mode" -> "bool" [] k = "limit" -> "int"
               [] k \in {"dicts", "filter"} -> "list" [] OTHER -> "string"
Default(k) == CASE k = "mode" -> <<"true">> [] k = "limit" -> <<"8">>
                [] k = "lang" -> <<"en">>   [] k = "dicts" -> <<"main">>
                [] k = "filter" -> <<"url">> [] OTHER -> <<>>
IsNumber(v) == v \in {<<"8">>, <<"9">>}
OverLimit   == <<"9">>

NoTold == [k \in Key |-> <<>>]

-----------------------------------------------------------------------------
\* Retrieval.

LastIn(hits) == IF hits = {} THEN 0 ELSE CHOOSE i \in hits : \A j \in hits : j <= i

(* Mutant: the first entry of a key is taken.                              *)
lookup_first(es, k) ==
    LET hits == {i \in DOMAIN es : es[i].key = k /\ es[i].action # "NoOp"}
        i    == IF hits = {} THEN 0 ELSE CHOOSE h \in hits : \A j \in hits : h <= j
    IN  IF i = 0 \/ es[i].action = "Reset" THEN 0 ELSE i
lookup(es, k) ==
    LET i == LastIn({j \in DOMAIN es : es[j].key = k /\ es[j].action # "NoOp"})
    IN  IF i = 0 \/ es[i].action = "Reset" THEN 0 ELSE i

Value(es, k, default) == LET i == lookup(es, k) IN IF i = 0 THEN default ELSE es[i].value

get_default(es, k) ==
    IF k = "pws" THEN Value(es, "lang", Default("lang")) \o <<".pws">> ELSE Default(k)

AddOnce(list, v) == IF \E i \in DOMAIN list : list[i] = v THEN list ELSE Append(list, v)

\* lookup_list: the last entry that starts the list anew, or the first of
\* the key, and what it tells the list from there.  Behind a reset an entry
\* that sets, and behind either one that clears, is taken for one of the
\* list, whatever its key.
FirstToUse(es, k) ==
    LET i == LastIn({j \in DOMAIN es : es[j].key = k
                                       /\ es[j].action \in {"Reset", "Set", "ListClear"}})
    IN  IF i # 0 THEN i ELSE SelectInSeq(es, LAMBDA e : e.key = k)
Does(es, i, a) == i \in DOMAIN es /\ es[i].action = a
SetAt(es, from) == IF Does(es, from, "Reset") THEN from + 1 ELSE from
ClearAt(es, from) ==
    IF Does(es, SetAt(es, from), "Set") THEN SetAt(es, from) + 1 ELSE SetAt(es, from)
Anew(es, from) == Does(es, from, "Set") \/ Does(es, from, "ListClear")

Change(e, k) == e.key = k /\ e.action \in {"ListAdd", "ListRemove"}
FirstCall(es, k, from) ==
    IF Does(es, SetAt(es, from), "Set")
    THEN <<[key |-> k, action |-> "ListAdd", value |-> es[SetAt(es, from)].value]>> ELSE <<>>
Changes(es, k, from) ==
    IF from = 0 THEN <<>>
    ELSE FoldLeft(LAMBDA found, e : IF Change(e, k) THEN Append(found, e) ELSE found,
                  <<>>, SubSeq(es, from, Len(es)))

ListStep(list, e) ==
    IF e.action = "ListAdd" THEN AddOnce(list, e.value)
    ELSE SelectSeq(list, LAMBDA v : v # e.value)
lookup_list(es, k) ==
    LET from == FirstToUse(es, k)
    IN  FoldLeft(ListStep, IF Anew(es, from) THEN <<>> ELSE <<get_default(es, k)>>,
                 FirstCall(es, k, from) \o Changes(es, k, from))

retrieve_any(es, k) ==
    IF TypeOf(k) = "list" THEN lookup_list(es, k) ELSE Value(es, k, get_default(es, k))

-----------------------------------------------------------------------------
\* Commitment of one entry: what is wrong with it makes it NoOp.

ListAction(a) == a \in {"ListAdd", "ListRemove", "ListClear"}

Acceptable(es, e) ==
    LET value == IF e.action = "Reset" THEN get_default(es, e.key) ELSE e.value
    IN  /\ e.key \in Key
        /\ TypeOf(e.key) # "list" => ~ListAction(e.action)
        /\ TypeOf(e.key) = "bool" => value \in {<<>>, <<"true">>, <<"false">>}
        /\ TypeOf(e.key) = "int"  => IsNumber(value)

Checked(es, e) ==
    IF ~Acceptable(es, e) THEN [e EXCEPT !.action = "NoOp"]
    ELSE IF TypeOf(e.key) = "bool" /\ e.value = <<>> /\ e.action # "Reset"
         THEN [e EXCEPT !.value = <<"true">>] ELSE e

\* set's insertion, with commit when nothing is left uncommitted.
(* Mutant: the insertion point stays before what was put in.               *)
InsertBefore(c, e) == [c EXCEPT !.entries = InsertAt(@, c.ip + 1, e)]
Insert(c, e) == [c EXCEPT !.entries = InsertAt(@, c.ip + 1, e), !.ip = @ + 1]

Put(c, e) == Insert(c, IF c.committed THEN Checked(c.entries, e) ELSE e)

\* set: prefixes become actions; a reset, enable, disable or clear with a
\* value is refused before anything is put in; lset is a clear and additions.
HasNoParm(a) == a \in {"Reset", "Enable", "Disable", "ListClear"}
Plain(e) ==
    CASE e.action = "Enable"  -> [e EXCEPT !.action = "Set", !.value = <<"true">>]
      [] e.action = "Disable" -> [e EXCEPT !.action = "Set", !.value = <<"false">>]
      [] OTHER -> e
Steps(e) ==
    IF HasNoParm(e.action) /\ e.value # <<>> THEN <<>>
    ELSE IF e.action = "ListSet"
    THEN <<[e EXCEPT !.action = "ListClear", !.value = <<>>]>>
         \o [i \in DOMAIN e.value |-> [e EXCEPT !.action = "ListAdd", !.value = <<e.value[i]>>]]
    ELSE <<Plain(e)>>
AllSteps(ops) == FoldLeft(LAMBDA steps, e : steps \o Steps(e), <<>>, ops)
Refused(e) == Steps(e) = <<>>
set(c, e) == FoldLeft(Put, c, Steps(e))

Uncommitted == [entries |-> <<>>, ip |-> 0, committed |-> FALSE]

\* read_in of one source: at the very front of the list.
(* Mutant: a source is read in behind the one read before it.              *)
read_in_after(c, ops) == FoldLeft(set, c, ops)
read_in(c, ops) == FoldLeft(set, [c EXCEPT !.ip = 0], ops)

\* commit_all, which empties the list and fills it again one by one; the
\* first entry that is refused ends it.
commit_all(c) ==
    [entries |-> FoldLeft(LAMBDA done, e : Append(done, Checked(done, e)), <<>>, c.entries),
     ip |-> Len(c.entries), committed |-> TRUE]
AllAcceptable(c) ==
    \A i \in DOMAIN c.entries : Acceptable(SubSeq(c.entries, 1, i - 1), c.entries[i])

\* What users may write, and what a language file's configuration, which is
\* committed as it is read, has to merge.
Written == [key : STRING, value : Seq(STRING),
            action : {"Set", "Reset", "Enable", "Disable",
                      "ListSet", "ListAdd", "ListRemove", "ListClear"}]
Committed(e) ==
    /\ e \in Written /\ e.action \notin {"Enable", "Disable", "ListSet"}
    /\ Acceptable(<<>>, e) /\ Checked(<<>>, e) = e
ASSUME ConfigAssumption ==
    /\ Ops \subseteq Written
    /\ \A held \in Sources : held \in [{"env", "per", "conf"} -> Seq(Written)]
    /\ LangOps \in Seq(Written) /\ \A i \in DOMAIN LangOps : Committed(LangOps[i])
    /\ Key \cup {"actual-lang", "de", "true", "false", "8"} \subseteq STRING

-----------------------------------------------------------------------------
\* Stages.

ConfigInit ==
    /\ library \in BOOLEAN
    /\ cfg = [Uncommitted EXCEPT !.committed = library]
    /\ stage = "args"
    /\ sources \in Sources
    /\ asked = <<>>
    /\ told = NoTold
    /\ later = 0

ConfigOff ==
    /\ library = FALSE /\ cfg = Uncommitted /\ stage = "off" /\ asked = <<>>
    /\ sources = [s \in {"env", "per", "conf"} |-> <<>>] /\ told = NoTold /\ later = 0

\* main's loop over argv, or the client's aspell_config_replace.
SetArg(e) ==
    /\ stage = "args"
    /\ Len(asked) < MaxArgs
    /\ ~Refused(e)
    /\ cfg' = set(cfg, e)
    /\ asked' = asked \o Steps(e)
    /\ UNCHANGED <<stage, library, sources, told, later>>

\* read_in_settings: into the program's own list, or after a merge of the
\* client's into the new one of the speller.
ReadInSettings ==
    LET env  == read_in([cfg EXCEPT !.committed = FALSE], sources["env"])
        per  == read_in(env, sources["per"])
        conf == read_in(per, sources["conf"])
    IN  /\ stage = "args"
        /\ stage' = IF \E s \in DOMAIN sources : \E i \in DOMAIN sources[s] :
                          Refused(sources[s][i])
                    THEN "failed" ELSE "read"
        /\ cfg' = conf
        /\ asked' = AllSteps(sources["conf"]) \o AllSteps(sources["per"])
                       \o AllSteps(sources["env"]) \o asked
        /\ UNCHANGED <<library, sources, told, later>>

CommitAll ==
    /\ stage = "read"
    /\ stage' = IF AllAcceptable(cfg) THEN "run" ELSE "failed"
    /\ cfg' = commit_all(cfg)
    /\ UNCHANGED <<library, sources, asked, told, later>>

\* Language::set_lang_defaults: the key the language itself answers to is put
\* in unchecked, and its own settings come before everything.
set_lang_defaults ==
    LET named == Insert(cfg, [key |-> "actual-lang", action |-> "Set", value |-> <<"de">>])
    IN  /\ stage = "run"
        /\ told = NoTold
        /\ SelectInSeq(cfg.entries, LAMBDA e : e.key = "actual-lang") = 0
        /\ cfg' = [named EXCEPT !.entries = LangOps \o @,
                                !.ip = IF named.ip = 0 THEN 0 ELSE @ + Len(LangOps)]
        /\ asked' = LangOps \o asked
        /\ UNCHANGED <<stage, library, sources, told, later>>

\* A value of a string key that no notifier takes, as sug_mode takes no mode
\* there is none of; key "lang" stands for such a one here.
Unwelcome(k, v) == k = "lang" /\ v = <<"xx">>

\* SpellerImpl::setup reads what it needs, fails on a value it cannot use,
\* lowers too large a limit and attaches its notifier.
Limited == [key |-> "limit", action |-> "Set", value |-> <<"8">>]
Attach ==
    LET c == IF retrieve_any(cfg.entries, "limit") = OverLimit THEN Put(cfg, Limited) ELSE cfg
    IN  /\ stage = "run"
        /\ told = NoTold
        /\ \A k \in Key : ~Unwelcome(k, retrieve_any(cfg.entries, k))
        /\ cfg' = c
        /\ told' = [k \in Key |-> retrieve_any(c.entries, k)]
        /\ UNCHANGED <<stage, library, sources, asked, later>>

\* What commit tells the notifier of one new entry.
(* Mutant: a reset announces what the entry holds, which is nothing.       *)
HeardAsPut(es, e) == IF TypeOf(e.key) = "list" THEN lookup_list(es, e.key) ELSE e.value
Heard(es, e) ==
    IF TypeOf(e.key) = "list" THEN lookup_list(es, e.key)
    ELSE IF e.action = "Reset" THEN get_default(es, e.key) ELSE e.value

\* One step of set at run time, and the notifier, which answers too large a
\* limit by a replace of its own before the first one returns.  Where it
\* answers with an error, commit returns that (RET_ON_ERR) and the entry
\* stays.
Notify(s, e) ==
    LET c == Put(s.cfg, e)
        put == c.entries[c.ip]
        heard == Heard(c.entries, put)
        again == put.key = "limit" /\ put.action = "Set" /\ put.value = OverLimit
    IN  IF put.action = "NoOp" \/ Unwelcome(put.key, heard) THEN [s EXCEPT !.cfg = c]
        ELSE IF again
        THEN [cfg |-> Put(c, Limited), told |-> [s.told EXCEPT !["limit"] = <<"8">>]]
        ELSE [cfg |-> c, told |-> [s.told EXCEPT ![put.key] = heard]]

SetLater(e) ==
    LET s == FoldLeft(Notify, [cfg |-> cfg, told |-> told], Steps(e))
    IN  /\ stage = "run"
        /\ told # NoTold
        /\ later < MaxLater
        /\ cfg' = s.cfg
        /\ told' = s.told
        /\ asked' = asked \o Steps(e)
        /\ later' = later + 1
        /\ UNCHANGED <<stage, library, sources>>

ConfigNext ==
    \/ \E e \in Ops : SetArg(e) \/ SetLater(e)
    \/ ReadInSettings \/ CommitAll \/ set_lang_defaults \/ Attach

-----------------------------------------------------------------------------
\* write_to_stream, line by line: a key's value where it has one, and what
\* lookup_list tells a list.
(* Mutant: that the list starts anew is not written.                       *)
ListLinesOn(es, k, from) == FirstCall(es, k, from) \o Changes(es, k, from)
ListLines(es, k, from) ==
    LET clear == <<[key |-> k, action |-> "ListClear", value |-> <<>>]>>
    IN  (IF Does(es, SetAt(es, from), "Set") THEN clear ELSE <<>>) \o FirstCall(es, k, from)
        \o (IF Does(es, ClearAt(es, from), "ListClear") THEN clear ELSE <<>>)
        \o Changes(es, k, from)
DumpLines(es, k) ==
    LET i == lookup(es, k)
    IN  IF TypeOf(k) = "list" THEN ListLines(es, k, FirstToUse(es, k))
        ELSE IF i = 0 THEN <<>> ELSE <<[key |-> k, action |-> "Set", value |-> es[i].value]>>
Dump(es) ==
    DumpLines(es, "mode") \o DumpLines(es, "limit") \o DumpLines(es, "lang")
        \o DumpLines(es, "pws") \o DumpLines(es, "dicts") \o DumpLines(es, "filter")

\* The value the changes come to, taken one after another: what the prefixes
\* are said to do, with nothing of entries and insertion points.  While no
\* value is set there is none.
ScalarMeant(k, capped, v, e) ==
    IF e.key # k \/ ~Acceptable(<<>>, e) THEN v
    ELSE IF e.action = "Reset" THEN <<>>
    ELSE IF TypeOf(k) = "bool" /\ e.value = <<>> THEN <<<<"true">>>>
    ELSE IF k = "limit" /\ e.value = OverLimit /\ capped THEN <<<<"8">>>> ELSE <<e.value>>
ListMeant(k, list, e) ==
    IF e.key # k THEN list
    ELSE CASE e.action = "Reset"     -> <<Default(k)>>
           [] e.action = "Set"       -> <<e.value>>
           [] e.action = "ListClear" -> <<>>
           [] OTHER                  -> ListStep(list, e)
Meaning(ops, k, default) ==
    LET v == FoldLeft(LAMBDA w, e : ScalarMeant(k, told # NoTold, w, e), <<>>, ops)
    IN  IF TypeOf(k) = "list"
        THEN FoldLeft(LAMBDA list, e : ListMeant(k, list, e), <<Default(k)>>, ops)
        ELSE IF v = <<>> THEN default ELSE v[1]

\* What the code makes of a list that was reset last, if a setting of another
\* key follows: that key's value is one of the list.  And of a list that was
\* set or reset last, if another list is cleared next: this one is dumped as
\* cleared (Config::lookup_list).
ListStart(k) == FirstToUse(cfg.entries, k)
Mistaken(k) ==
    /\ TypeOf(k) = "list" /\ Does(cfg.entries, ListStart(k), "Reset")
    /\ Does(cfg.entries, ListStart(k) + 1, "Set")
Trusted == {k \in Key : ~Mistaken(k)}
ClearedByNext(k) ==
    /\ TypeOf(k) = "list" /\ ListStart(k) # 0 /\ ~Does(cfg.entries, ListStart(k), "ListClear")
    /\ Does(cfg.entries, ClearAt(cfg.entries, ListStart(k)), "ListClear")

\* Whatever order the command line, the environment and the files were read
\* in, a key has the value its changes come to when the language's settings
\* are taken first, then the system's file, the user's, the environment, the
\* command line and the changes since (the insertion point of Config::set,
\* read_in_settings, commit_all and lang_config_merge).
LayersDecide ==
    stage = "run" =>
        \A k \in Trusted :
            retrieve_any(cfg.entries, k) = Meaning(asked, k, get_default(cfg.entries, k))

\* The manual's statement, that a reset gives a list its default back
\* (manual/aspell.texi:686), is false: see Mistaken.
ResetGivesDefault ==
    stage = "run" =>
        \A k \in {l \in Key : TypeOf(l) = "list"} :
            LET default == <<Default(k)>>
            IN  Meaning(asked, k, default) = default => retrieve_any(cfg.entries, k) = default

\* What a notifier last heard of a key is what the configuration answers,
\* also when the notifier changes the key while it is told, unless that is a
\* value it answered with an error, which stays the key's value; a default
\* that is another key's value is never announced (Config::commit's
\* NOTIFY_ALL).
NotifierUpToDate ==
    stage = "run" /\ told # NoTold =>
        \A k \in Trusted \ {"pws"} :
            LET v == retrieve_any(cfg.entries, k) IN told[k] = v \/ Unwelcome(k, v)

\* What `aspell dump config` writes, read in again by read_in_file into a
\* configuration of nothing else, gives every key the same value.
Restored(k) ==
    LET back == commit_all(read_in(Uncommitted, Dump(cfg.entries)))
    IN  retrieve_any(back.entries, k) = retrieve_any(cfg.entries, k)
DumpRestores == stage = "run" => \A k \in Trusted : ~ClearedByNext(k) => Restored(k)

\* The manual's statement, that the dump is the current configuration
\* (manual/aspell.texi:1237), is false: see ClearedByNext.
DumpIsCurrent == stage = "run" => \A k \in Key : Restored(k)
\* The three together: what was set is what is answered, announced and dumped.
SettingsHold == LayersDecide /\ NotifierUpToDate /\ DumpRestores
=============================================================================
