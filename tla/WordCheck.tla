----------------------------- MODULE WordCheck -----------------------------
(***************************************************************************)
(* Whether a word is spelled right: check_simple, check2 and check of      *)
(* modules/speller/default/speller_impl.cpp, with the comparison of        *)
(* language.cpp.  A word is taken as it is, as a title where the compound  *)
(* it stands in begins like one, or as several words run together.  check  *)
(* also leaves behind what it has found, which the client may ask for.     *)
(* The languages are those without affixes.                                *)
(***************************************************************************)
EXTENDS Integers, Sequences, FiniteSets, FiniteSetsExt

CONSTANTS
    RunMin      \* run-together-min: the shortest part of a compound

\* Letters are 1 .. 9, their capitals 11 .. 19; what is above parts words.
IsLower(c)  == c \in 1 .. 9
IsUpper(c)  == c \in 11 .. 19
IsLetter(c) == IsLower(c) \/ IsUpper(c)
ToUpper(c)  == IF IsLower(c) THEN c + 10 ELSE c
ToLower(c)  == IF IsUpper(c) THEN c - 10 ELSE c
UpperOf(w)  == [i \in DOMAIN w |-> ToUpper(w[i])]
LowerOf(w)  == [i \in DOMAIN w |-> ToLower(w[i])]
TitleOf(w)  == IF w = <<>> THEN w ELSE <<ToUpper(w[1])>> \o Tail(w)
AllLower(w) == \A i \in DOMAIN w : IsLower(w[i])
AllUpper(w) == \A i \in DOMAIN w : IsUpper(w[i])

case_pattern(w) ==
    CASE AllLower(w) -> "AllLower"
      [] ~AllLower(w) /\ AllUpper(w) -> "AllUpper"
      [] ~AllLower(w) /\ ~AllUpper(w) /\ IsUpper(w[1]) -> "FirstUpper"
      [] OTHER -> "Other"

\* SensitiveCompare: a dictionary's word may be met capitalised.
Matches(w, inlist) == w \in {inlist, TitleOf(inlist), UpperOf(inlist)}

Nil == <<0>>        \* no word
NoFind == [ok |-> FALSE, parts |-> <<>>]

\* What a word is found as: itself if it is short enough to be ignored, an
\* entry of a dictionary otherwise.
check_simple(words, ignore, w) ==
    IF Len(w) <= ignore THEN w
    ELSE IF \E e \in words : Matches(w, e) THEN CHOOSE e \in words : Matches(w, e)
    ELSE Nil
check_case(words, ignore, w, title) ==
    LET plain == check_simple(words, ignore, w)
    IN  IF plain # Nil \/ ~title THEN plain ELSE check_simple(words, ignore, TitleOf(w))

\* Where a word may be cut in two, and the places where its first part is one.
CutsOf(w) == RunMin .. Len(w) - RunMin
(* Mutant: every part may be a title, whatever the first one is.           *)
TitledLoosely(w, i, title) == TRUE
Titled(w, i, title) == title \/ case_pattern(SubSeq(w, 1, i)) = "FirstUpper"

check[words \in SUBSET Seq(Nat), ignore \in Nat, w \in Seq(Nat), title \in BOOLEAN, limit \in Int] ==
    LET whole == check_case(words, ignore, w, title)
        first(i) == check_case(words, ignore, SubSeq(w, 1, i), title)
        cuts == {i \in CutsOf(w) : first(i) # Nil}
        rest(i) == check[words, ignore, SubSeq(w, i + 1, Len(w)), Titled(w, Min(cuts), title), limit - 1]
        good == {i \in cuts : rest(i).ok}
    IN  CASE whole # Nil -> [ok |-> TRUE, parts |-> <<whole>>]
          [] whole = Nil /\ (limit <= 1 \/ cuts = {}) -> NoFind
          [] whole = Nil /\ limit > 1 /\ cuts # {} /\ good # {} ->
                [ok |-> TRUE, parts |-> <<first(Min(good))>> \o rest(Min(good)).parts]
          [] OTHER -> [ok |-> FALSE, parts |-> <<first(Max(cuts))>>]    \* left over

=============================================================================
