---------------------------- MODULE ConfigProofs ----------------------------
(***************************************************************************)
(* What was set is what is answered, announced and dumped, whatever the    *)
(* changes and wherever they come from.                                    *)
(*                                                                         *)
(* The code goes through lists of entries, and so do the definitions: with *)
(* folds.  A fold obeys two laws, for nothing and for one element more, and *)
(* every fact about a list is shown of its prefixes one after another.     *)
(***************************************************************************)
EXTENDS Config, Recursion

-----------------------------------------------------------------------------
(* Folds.  A step is named by its kind; a run goes through a sequence.     *)

Step(k, v, x) ==
    CASE k[1] = "put" -> Put(v, x)
      [] k[1] = "set" -> set(v, x)
      [] k[1] = "list" -> ListStep(v, x)
      [] k[1] = "steps" -> v \o Steps(x)
      [] k[1] = "again" -> Append(v, Checked(v, x))
      [] k[1] = "notify" -> Notify(v, x)
      [] k[1] = "scalar" -> ScalarMeant(k[2], k[3], v, x)
      [] k[1] = "found" -> IF Change(x, k[2]) THEN Append(v, x) ELSE v
      [] k[1] = "meant" -> ListMeant(k[2], v, x)
      [] OTHER -> v

StepBody(k, z, s, g) ==
    [T \in SUBSET DOMAIN s |->
        IF T = {} THEN z ELSE Step(k, g[T \ {Max(T)}], s[Max(T)])]
StepsTo(k, z, s, h) == h[0] = z /\ \A n \in 1 .. Len(s) : h[n] = Step(k, h[n - 1], s[n])
Ends(k, z, s, e) == \E h : StepsTo(k, z, s, h) /\ h[Len(s)] = e

LEMMA LastOf == \A n \in Nat : n # 0 => Max(1 .. n) = n /\ (1 .. n) \ {n} = 1 .. n - 1
<1> SUFFICES ASSUME NEW n \in Nat, n # 0 PROVE Max(1 .. n) = n /\ (1 .. n) \ {n} = 1 .. n - 1
    OBVIOUS
<1>1. n \in 1 .. n /\ \A x \in 1 .. n : x <= n
    OBVIOUS
<1>2. \A y \in 1 .. n : (\A x \in 1 .. n : x <= y) => y = n
    OBVIOUS
<1>3. Max(1 .. n) \in 1 .. n /\ \A x \in 1 .. n : x <= Max(1 .. n)
    BY <1>1 DEF Max
<1> QED BY <1>2, <1>3

LEMMA StepFold ==
    ASSUME NEW V, NEW s \in Seq(V), NEW k, NEW z
    PROVE  \E g : g = StepBody(k, z, s, g)
<1> DEFINE S == 1 .. Len(s)
           Upto(g, n) == \A T \in Small(S, n) :
                             g[T] = IF T = {} THEN z ELSE Step(k, g[T \ {Max(T)}], s[Max(T)])
           A == {n \in Nat : ~\E g : Upto(g, n)}
<1>0. DOMAIN s = S /\ Len(s) \in Nat /\ IsFiniteSet(S)
    BY FS_Interval
<1>1. ASSUME NEW n \in Nat, NEW T \in Small(S, n + 1), T # {}
      PROVE  T \ {Max(T)} \in Small(S, n)
    <2>1. Max(T) \in T /\ T \in SUBSET S /\ Cardinality(T) <= n + 1
        BY <1>0, <1>1, MaxPicked DEF Small
    <2> HIDE DEF S
    <2>2. /\ T \ {Max(T)} \in SUBSET S /\ Cardinality(T) \in Nat
          /\ Cardinality(T \ {Max(T)}) = Cardinality(T) - 1
        BY <1>0, <2>1, SmallerRest
    <2> QED BY <2>1, <2>2 DEF Small
<1>2. 0 \notin A
    <2> DEFINE g == [T \in Small(S, 0) |-> z]
    <2>1. \A T \in Small(S, 0) : T = {}
        <3> SUFFICES ASSUME NEW T \in Small(S, 0), T # {} PROVE FALSE
            OBVIOUS
        <3>1. PICK x \in T : TRUE
            OBVIOUS
        <3>2. T \in SUBSET S /\ Cardinality(T) <= 0
            BY DEF Small
        <3> HIDE DEF S
        <3>3. Cardinality(T) \in Nat /\ Cardinality(T) > 0
            BY <1>0, <3>1, <3>2, SmallerRest
        <3> QED BY <3>2, <3>3
    <2>2. Upto(g, 0)
        BY <2>1
    <2> QED BY <2>2
<1>3. ASSUME NEW n \in Nat, n \notin A PROVE n + 1 \notin A
    <2>1. PICK g : Upto(g, n)
        BY <1>3
    <2> DEFINE f == [T \in Small(S, n + 1) |->
                        IF T = {} THEN z ELSE Step(k, g[T \ {Max(T)}], s[Max(T)])]
    <2>2. ASSUME NEW T \in Small(S, n) PROVE f[T] = g[T] /\ T \in Small(S, n + 1)
        <3>1. T \in Small(S, n + 1)
            <4>1. Cardinality(T) \in Nat
                BY <1>0, FS_Subset, FS_CardinalityType DEF Small
            <4> QED BY <4>1 DEF Small
        <3> QED BY <2>1, <3>1
    <2>3. ASSUME NEW T \in Small(S, n + 1), T # {}
          PROVE  f[T] = Step(k, f[T \ {Max(T)}], s[Max(T)])
        <3>1. T \ {Max(T)} \in Small(S, n)
            BY <1>1, <2>3
        <3>2. f[T \ {Max(T)}] = g[T \ {Max(T)}]
            BY <2>2, <3>1
        <3>3. f[T] = Step(k, g[T \ {Max(T)}], s[Max(T)])
            BY <2>3
        <3> QED BY <3>2, <3>3
    <2>4. {} \in Small(S, n + 1) => f[{}] = z
        OBVIOUS
    <2> HIDE DEF f
    <2>5. Upto(f, n + 1)
        BY <2>3, <2>4
    <2> QED BY <2>5
<1> HIDE DEF Upto
<1>4. A = {}
    <2> SUFFICES ASSUME A # {} PROVE FALSE
        OBVIOUS
    <2>1. PICK a \in A : \A b \in A : a <= b
        BY LeastIn
    <2>2. a # 0 /\ a \in Nat
        BY <1>2
    <2>3. a - 1 \in Nat /\ a - 1 \notin A /\ (a - 1) + 1 = a
        <3> HIDE DEF A
        <3> QED BY <2>1, <2>2
    <2> HIDE DEF A
    <2> QED BY <1>3, <2>1, <2>3
<1>5. PICK g : Upto(g, Len(s))
    BY <1>0, <1>4
<1>6. Small(S, Len(s)) = SUBSET S
    <2>1. Cardinality(S) = Len(s)
        BY <1>0, FS_Interval
    <2>2. \A T \in SUBSET S : Cardinality(T) <= Cardinality(S)
        BY <1>0, FS_Subset
    <2> QED BY <2>1, <2>2 DEF Small
<1> DEFINE f == [T \in SUBSET S |-> g[T]]
<1>7. ASSUME NEW T \in SUBSET S PROVE f[T] = StepBody(k, z, s, f)[T]
    <2>1. CASE T = {}
        BY <1>0, <1>5, <1>6, <2>1 DEF Upto, StepBody
    <2>2. CASE T # {}
        <3>1. T \ {Max(T)} \in SUBSET S
            OBVIOUS
        <3>2. g[T] = Step(k, g[T \ {Max(T)}], s[Max(T)])
            BY <1>5, <1>6, <2>2 DEF Upto
        <3>3. f[T \ {Max(T)}] = g[T \ {Max(T)}] /\ f[T] = g[T]
            BY <3>1
        <3> HIDE DEF f, S
        <3>4. StepBody(k, z, s, f)[T] = Step(k, f[T \ {Max(T)}], s[Max(T)])
            BY <1>0, <2>2 DEF StepBody
        <3> QED BY <3>2, <3>3, <3>4
    <2> QED BY <2>1, <2>2
<1>8. DOMAIN f = SUBSET S /\ f = [T \in SUBSET S |-> f[T]]
    OBVIOUS
<1> HIDE DEF f
<1>9. StepBody(k, z, s, f) = [T \in SUBSET S |-> StepBody(k, z, s, f)[T]]
    BY <1>0 DEF StepBody
<1>10. f = StepBody(k, z, s, f)
    BY <1>7, <1>8, <1>9
<1> QED BY <1>10

LEMMA FoldEnds ==
    ASSUME NEW V, NEW s \in Seq(V), NEW k, NEW z, NEW g, g = StepBody(k, z, s, g)
    PROVE  Ends(k, z, s, g[DOMAIN s])
<1> DEFINE h == [n \in 0 .. Len(s) |-> g[1 .. n]]
<1>1. DOMAIN s = 1 .. Len(s) /\ Len(s) \in Nat
    OBVIOUS
<1>2. ASSUME NEW T \in SUBSET (1 .. Len(s))
      PROVE  g[T] = IF T = {} THEN z ELSE Step(k, g[T \ {Max(T)}], s[Max(T)])
    BY <1>1 DEF StepBody
<1>3. h[0] = z
    <2>1. 1 .. 0 = {} /\ 0 \in 0 .. Len(s)
        BY <1>1
    <2> QED BY <1>2, <2>1
<1>4. ASSUME NEW n \in 1 .. Len(s) PROVE h[n] = Step(k, h[n - 1], s[n])
    <2>1. 1 .. n # {} /\ 1 .. n \in SUBSET (1 .. Len(s)) /\ Max(1 .. n) = n /\ (1 .. n) \ {n} = 1 .. n - 1
        BY <1>1, LastOf
    <2>2. g[1 .. n] = Step(k, g[1 .. n - 1], s[n])
        BY <1>2, <2>1
    <2>3. h[n] = g[1 .. n] /\ h[n - 1] = g[1 .. n - 1]
        BY <1>1
    <2> HIDE DEF h
    <2> QED BY <2>2, <2>3
<1>5. h[Len(s)] = g[DOMAIN s]
    BY <1>1
<1> HIDE DEF h
<1> QED BY <1>3, <1>4, <1>5 DEF Ends, StepsTo

(* What holds at the start of a run and goes on with every step.           *)
LEMMA GoesOn ==
    ASSUME NEW n \in Nat, NEW G, 0 \in G, \A i \in 1 .. n : i - 1 \in G => i \in G
    PROVE  \A i \in 0 .. n : i \in G
<1> DEFINE A == {i \in 0 .. n : i \notin G}
<1> SUFFICES ASSUME A # {} PROVE FALSE
    OBVIOUS
<1>1. PICK a \in A : \A b \in A : a <= b
    <2>1. A \subseteq Nat /\ A # {}
        OBVIOUS
    <2> HIDE DEF A
    <2> QED BY <2>1, LeastIn
<1>2. a # 0 /\ a \in 1 .. n
    OBVIOUS
<1>3. a - 1 \in 0 .. n /\ a - 1 \notin A
    <2> HIDE DEF A
    <2> QED BY <1>1, <1>2
<1> QED BY <1>2, <1>3


(* Folds end where runs do: with nothing they stay, and with one element   *)
(* more they take one step more.                                           *)
LEMMA RunLaw ==
    ASSUME NEW V, NEW s \in Seq(V), NEW x \in V, NEW k, NEW z, NEW e, NEW f,
           Ends(k, z, s, e), Ends(k, z, Append(s, x), f)
    PROVE  f = Step(k, e, x)
<1>1. PICK h : StepsTo(k, z, s, h) /\ h[Len(s)] = e
    BY DEF Ends
<1>2. PICK g : StepsTo(k, z, Append(s, x), g) /\ g[Len(s) + 1] = f
    BY DEF Ends
<1> DEFINE G == {i \in 0 .. Len(s) : g[i] = h[i]}
<1>3. Len(s) \in Nat /\ Len(Append(s, x)) = Len(s) + 1 /\ Append(s, x)[Len(s) + 1] = x
      /\ \A i \in 1 .. Len(s) : Append(s, x)[i] = s[i]
    OBVIOUS
<1>4. 0 \in G
    BY <1>1, <1>2, <1>3 DEF StepsTo
<1>5. ASSUME NEW i \in 1 .. Len(s), i - 1 \in G PROVE i \in G
    <2>1. h[i] = Step(k, h[i - 1], s[i]) /\ i \in 1 .. Len(s) + 1
        BY <1>1, <1>3 DEF StepsTo
    <2>2. g[i] = Step(k, g[i - 1], s[i])
        BY <1>2, <1>3, <2>1 DEF StepsTo
    <2> QED BY <1>5, <2>1, <2>2
<1> HIDE DEF G
<1>6. \A i \in 0 .. Len(s) : i \in G
    BY <1>3, <1>4, <1>5, GoesOn
<1>7. g[Len(s)] = e
    BY <1>1, <1>3, <1>6 DEF G
<1>8. Len(s) + 1 \in 1 .. Len(Append(s, x)) /\ (Len(s) + 1) - 1 = Len(s)
    BY <1>3
<1>9. g[Len(s) + 1] = Step(k, g[(Len(s) + 1) - 1], Append(s, x)[Len(s) + 1])
    BY <1>2, <1>8 DEF StepsTo
<1> QED BY <1>2, <1>3, <1>7, <1>8, <1>9

LEMMA NoRun ==
    ASSUME NEW k, NEW z, NEW e, Ends(k, z, <<>>, e)
    PROVE  e = z
BY DEF Ends, StepsTo

PutAll(z, s) == FoldLeft(Put, z, s)

LEMMA PutFold ==
    ASSUME NEW V, NEW s \in Seq(V), NEW z
    PROVE  Ends(<<"put">>, z, s, PutAll(z, s))
<1> DEFINE k == <<"put">>
           it == CHOOSE g : g = [T \in SUBSET DOMAIN s |->
                    IF T = {} THEN z ELSE Put(g[T \ {Max(T)}], s[Max(T)])]
<1>1. PutAll(z, s) = it[DOMAIN s]
    BY Zenon DEF PutAll, FoldLeft, MapThenFoldSet
<1>2. \A v, x : Step(k, v, x) = Put(v, x)
    BY DEF Step
<1>3. ASSUME NEW g
      PROVE  StepBody(k, z, s, g) = [T \in SUBSET DOMAIN s |->
                IF T = {} THEN z ELSE Put(g[T \ {Max(T)}], s[Max(T)])]
    BY <1>2 DEF StepBody
<1>4. it = StepBody(k, z, s, it)
    <2>1. \E g : g = StepBody(k, z, s, g)
        BY StepFold
    <2> QED BY <1>3, <2>1
<1> HIDE DEF it, k
<1> QED BY <1>1, <1>4, FoldEnds DEF k

LEMMA PutLaw ==
    ASSUME NEW V, NEW s \in Seq(V), NEW x \in V, NEW z
    PROVE  /\ PutAll(z, <<>>) = z
           /\ PutAll(z, Append(s, x)) = Put(PutAll(z, s), x)
<1>1. <<>> \in Seq(V) /\ Append(s, x) \in Seq(V)
    OBVIOUS
<1>2. PutAll(z, <<>>) = z
    BY <1>1, PutFold, NoRun
<1>3. PutAll(z, Append(s, x)) = Step(<<"put">>, PutAll(z, s), x)
    BY <1>1, PutFold, RunLaw
<1> QED BY <1>2, <1>3 DEF Step

SetAll(z, s) == FoldLeft(set, z, s)

LEMMA SetFold ==
    ASSUME NEW V, NEW s \in Seq(V), NEW z
    PROVE  Ends(<<"set">>, z, s, SetAll(z, s))
<1> DEFINE k == <<"set">>
           it == CHOOSE g : g = [T \in SUBSET DOMAIN s |->
                    IF T = {} THEN z ELSE set(g[T \ {Max(T)}], s[Max(T)])]
<1>1. SetAll(z, s) = it[DOMAIN s]
    BY Zenon DEF SetAll, FoldLeft, MapThenFoldSet
<1>2. \A v, x : Step(k, v, x) = set(v, x)
    BY DEF Step
<1>3. ASSUME NEW g
      PROVE  StepBody(k, z, s, g) = [T \in SUBSET DOMAIN s |->
                IF T = {} THEN z ELSE set(g[T \ {Max(T)}], s[Max(T)])]
    BY <1>2 DEF StepBody
<1>4. it = StepBody(k, z, s, it)
    <2>1. \E g : g = StepBody(k, z, s, g)
        BY StepFold
    <2> QED BY <1>3, <2>1
<1> HIDE DEF it, k
<1> QED BY <1>1, <1>4, FoldEnds DEF k

LEMMA SetLaw ==
    ASSUME NEW V, NEW s \in Seq(V), NEW x \in V, NEW z
    PROVE  /\ SetAll(z, <<>>) = z
           /\ SetAll(z, Append(s, x)) = set(SetAll(z, s), x)
<1>1. <<>> \in Seq(V) /\ Append(s, x) \in Seq(V)
    OBVIOUS
<1>2. SetAll(z, <<>>) = z
    BY <1>1, SetFold, NoRun
<1>3. SetAll(z, Append(s, x)) = Step(<<"set">>, SetAll(z, s), x)
    BY <1>1, SetFold, RunLaw
<1> QED BY <1>2, <1>3 DEF Step

ListAll(z, s) == FoldLeft(ListStep, z, s)

LEMMA ListFold ==
    ASSUME NEW V, NEW s \in Seq(V), NEW z
    PROVE  Ends(<<"list">>, z, s, ListAll(z, s))
<1> DEFINE k == <<"list">>
           it == CHOOSE g : g = [T \in SUBSET DOMAIN s |->
                    IF T = {} THEN z ELSE ListStep(g[T \ {Max(T)}], s[Max(T)])]
<1>1. ListAll(z, s) = it[DOMAIN s]
    BY Zenon DEF ListAll, FoldLeft, MapThenFoldSet
<1>2. \A v, x : Step(k, v, x) = ListStep(v, x)
    BY DEF Step
<1>3. ASSUME NEW g
      PROVE  StepBody(k, z, s, g) = [T \in SUBSET DOMAIN s |->
                IF T = {} THEN z ELSE ListStep(g[T \ {Max(T)}], s[Max(T)])]
    BY <1>2 DEF StepBody
<1>4. it = StepBody(k, z, s, it)
    <2>1. \E g : g = StepBody(k, z, s, g)
        BY StepFold
    <2> QED BY <1>3, <2>1
<1> HIDE DEF it, k
<1> QED BY <1>1, <1>4, FoldEnds DEF k

LEMMA ListLaw ==
    ASSUME NEW V, NEW s \in Seq(V), NEW x \in V, NEW z
    PROVE  /\ ListAll(z, <<>>) = z
           /\ ListAll(z, Append(s, x)) = ListStep(ListAll(z, s), x)
<1>1. <<>> \in Seq(V) /\ Append(s, x) \in Seq(V)
    OBVIOUS
<1>2. ListAll(z, <<>>) = z
    BY <1>1, ListFold, NoRun
<1>3. ListAll(z, Append(s, x)) = Step(<<"list">>, ListAll(z, s), x)
    BY <1>1, ListFold, RunLaw
<1> QED BY <1>2, <1>3 DEF Step

StepsAll(z, s) == FoldLeft(LAMBDA steps, e : steps \o Steps(e), z, s)

LEMMA StepsFold ==
    ASSUME NEW V, NEW s \in Seq(V), NEW z
    PROVE  Ends(<<"steps">>, z, s, StepsAll(z, s))
<1> DEFINE k == <<"steps">>
           it == CHOOSE g : g = [T \in SUBSET DOMAIN s |->
                    IF T = {} THEN z ELSE g[T \ {Max(T)}] \o Steps(s[Max(T)])]
<1>1. StepsAll(z, s) = it[DOMAIN s]
    BY Zenon DEF StepsAll, FoldLeft, MapThenFoldSet
<1>2. \A v, x : Step(k, v, x) = v \o Steps(x)
    BY DEF Step
<1>3. ASSUME NEW g
      PROVE  StepBody(k, z, s, g) = [T \in SUBSET DOMAIN s |->
                IF T = {} THEN z ELSE g[T \ {Max(T)}] \o Steps(s[Max(T)])]
    BY <1>2 DEF StepBody
<1>4. it = StepBody(k, z, s, it)
    <2>1. \E g : g = StepBody(k, z, s, g)
        BY StepFold
    <2> QED BY <1>3, <2>1
<1> HIDE DEF it, k
<1> QED BY <1>1, <1>4, FoldEnds DEF k

LEMMA StepsLaw ==
    ASSUME NEW V, NEW s \in Seq(V), NEW x \in V, NEW z
    PROVE  /\ StepsAll(z, <<>>) = z
           /\ StepsAll(z, Append(s, x)) = StepsAll(z, s) \o Steps(x)
<1>1. <<>> \in Seq(V) /\ Append(s, x) \in Seq(V)
    OBVIOUS
<1>2. StepsAll(z, <<>>) = z
    BY <1>1, StepsFold, NoRun
<1>3. StepsAll(z, Append(s, x)) = Step(<<"steps">>, StepsAll(z, s), x)
    BY <1>1, StepsFold, RunLaw
<1> QED BY <1>2, <1>3 DEF Step

AgainAll(z, s) == FoldLeft(LAMBDA done, e : Append(done, Checked(done, e)), z, s)

LEMMA AgainFold ==
    ASSUME NEW V, NEW s \in Seq(V), NEW z
    PROVE  Ends(<<"again">>, z, s, AgainAll(z, s))
<1> DEFINE k == <<"again">>
           it == CHOOSE g : g = [T \in SUBSET DOMAIN s |->
                    IF T = {} THEN z ELSE Append(g[T \ {Max(T)}], Checked(g[T \ {Max(T)}], s[Max(T)]))]
<1>1. AgainAll(z, s) = it[DOMAIN s]
    BY Zenon DEF AgainAll, FoldLeft, MapThenFoldSet
<1>2. \A v, x : Step(k, v, x) = Append(v, Checked(v, x))
    BY DEF Step
<1>3. ASSUME NEW g
      PROVE  StepBody(k, z, s, g) = [T \in SUBSET DOMAIN s |->
                IF T = {} THEN z ELSE Append(g[T \ {Max(T)}], Checked(g[T \ {Max(T)}], s[Max(T)]))]
    BY <1>2 DEF StepBody
<1>4. it = StepBody(k, z, s, it)
    <2>1. \E g : g = StepBody(k, z, s, g)
        BY StepFold
    <2> QED BY <1>3, <2>1
<1> HIDE DEF it, k
<1> QED BY <1>1, <1>4, FoldEnds DEF k

LEMMA AgainLaw ==
    ASSUME NEW V, NEW s \in Seq(V), NEW x \in V, NEW z
    PROVE  /\ AgainAll(z, <<>>) = z
           /\ AgainAll(z, Append(s, x)) = Append(AgainAll(z, s), Checked(AgainAll(z, s), x))
<1>1. <<>> \in Seq(V) /\ Append(s, x) \in Seq(V)
    OBVIOUS
<1>2. AgainAll(z, <<>>) = z
    BY <1>1, AgainFold, NoRun
<1>3. AgainAll(z, Append(s, x)) = Step(<<"again">>, AgainAll(z, s), x)
    BY <1>1, AgainFold, RunLaw
<1> QED BY <1>2, <1>3 DEF Step

NotifyAll(z, s) == FoldLeft(Notify, z, s)

LEMMA NotifyFold ==
    ASSUME NEW V, NEW s \in Seq(V), NEW z
    PROVE  Ends(<<"notify">>, z, s, NotifyAll(z, s))
<1> DEFINE k == <<"notify">>
           it == CHOOSE g : g = [T \in SUBSET DOMAIN s |->
                    IF T = {} THEN z ELSE Notify(g[T \ {Max(T)}], s[Max(T)])]
<1>1. NotifyAll(z, s) = it[DOMAIN s]
    BY Zenon DEF NotifyAll, FoldLeft, MapThenFoldSet
<1>2. \A v, x : Step(k, v, x) = Notify(v, x)
    BY DEF Step
<1>3. ASSUME NEW g
      PROVE  StepBody(k, z, s, g) = [T \in SUBSET DOMAIN s |->
                IF T = {} THEN z ELSE Notify(g[T \ {Max(T)}], s[Max(T)])]
    BY <1>2 DEF StepBody
<1>4. it = StepBody(k, z, s, it)
    <2>1. \E g : g = StepBody(k, z, s, g)
        BY StepFold
    <2> QED BY <1>3, <2>1
<1> HIDE DEF it, k
<1> QED BY <1>1, <1>4, FoldEnds DEF k

LEMMA NotifyLaw ==
    ASSUME NEW V, NEW s \in Seq(V), NEW x \in V, NEW z
    PROVE  /\ NotifyAll(z, <<>>) = z
           /\ NotifyAll(z, Append(s, x)) = Notify(NotifyAll(z, s), x)
<1>1. <<>> \in Seq(V) /\ Append(s, x) \in Seq(V)
    OBVIOUS
<1>2. NotifyAll(z, <<>>) = z
    BY <1>1, NotifyFold, NoRun
<1>3. NotifyAll(z, Append(s, x)) = Step(<<"notify">>, NotifyAll(z, s), x)
    BY <1>1, NotifyFold, RunLaw
<1> QED BY <1>2, <1>3 DEF Step

ScalarAll(key, capped, z, s) == FoldLeft(LAMBDA w, e : ScalarMeant(key, capped, w, e), z, s)

LEMMA ScalarFold ==
    ASSUME NEW V, NEW s \in Seq(V), NEW z, NEW key, NEW capped
    PROVE  Ends(<<"scalar", key, capped>>, z, s, ScalarAll(key, capped, z, s))
<1> DEFINE k == <<"scalar", key, capped>>
           it == CHOOSE g : g = [T \in SUBSET DOMAIN s |->
                    IF T = {} THEN z ELSE ScalarMeant(key, capped, g[T \ {Max(T)}], s[Max(T)])]
<1>1. ScalarAll(key, capped, z, s) = it[DOMAIN s]
    BY Zenon DEF ScalarAll, FoldLeft, MapThenFoldSet
<1>2. \A v, x : Step(k, v, x) = ScalarMeant(key, capped, v, x)
    BY DEF Step
<1>3. ASSUME NEW g
      PROVE  StepBody(k, z, s, g) = [T \in SUBSET DOMAIN s |->
                IF T = {} THEN z ELSE ScalarMeant(key, capped, g[T \ {Max(T)}], s[Max(T)])]
    BY <1>2 DEF StepBody
<1>4. it = StepBody(k, z, s, it)
    <2>1. \E g : g = StepBody(k, z, s, g)
        BY StepFold
    <2> QED BY <1>3, <2>1
<1> HIDE DEF it, k
<1> QED BY <1>1, <1>4, FoldEnds DEF k

LEMMA ScalarLaw ==
    ASSUME NEW V, NEW s \in Seq(V), NEW x \in V, NEW z, NEW key, NEW capped
    PROVE  /\ ScalarAll(key, capped, z, <<>>) = z
           /\ ScalarAll(key, capped, z, Append(s, x)) = ScalarMeant(key, capped, ScalarAll(key, capped, z, s), x)
<1>1. <<>> \in Seq(V) /\ Append(s, x) \in Seq(V)
    OBVIOUS
<1>2. ScalarAll(key, capped, z, <<>>) = z
    BY <1>1, ScalarFold, NoRun
<1>3. ScalarAll(key, capped, z, Append(s, x)) = Step(<<"scalar", key, capped>>, ScalarAll(key, capped, z, s), x)
    <2>1. Ends(<<"scalar", key, capped>>, z, s, ScalarAll(key, capped, z, s))
        BY ScalarFold
    <2>2. Ends(<<"scalar", key, capped>>, z, Append(s, x), ScalarAll(key, capped, z, Append(s, x)))
        BY <1>1, ScalarFold
    <2> QED BY <2>1, <2>2, RunLaw
<1> QED BY <1>2, <1>3 DEF Step

MeantAll(key, z, s) == FoldLeft(LAMBDA list, e : ListMeant(key, list, e), z, s)

LEMMA MeantFold ==
    ASSUME NEW V, NEW s \in Seq(V), NEW z, NEW key
    PROVE  Ends(<<"meant", key>>, z, s, MeantAll(key, z, s))
<1> DEFINE k == <<"meant", key>>
           it == CHOOSE g : g = [T \in SUBSET DOMAIN s |->
                    IF T = {} THEN z ELSE ListMeant(key, g[T \ {Max(T)}], s[Max(T)])]
<1>1. MeantAll(key, z, s) = it[DOMAIN s]
    BY Zenon DEF MeantAll, FoldLeft, MapThenFoldSet
<1>2. \A v, x : Step(k, v, x) = ListMeant(key, v, x)
    BY DEF Step
<1>3. ASSUME NEW g
      PROVE  StepBody(k, z, s, g) = [T \in SUBSET DOMAIN s |->
                IF T = {} THEN z ELSE ListMeant(key, g[T \ {Max(T)}], s[Max(T)])]
    BY <1>2 DEF StepBody
<1>4. it = StepBody(k, z, s, it)
    <2>1. \E g : g = StepBody(k, z, s, g)
        BY StepFold
    <2> QED BY <1>3, <2>1
<1> HIDE DEF it, k
<1> QED BY <1>1, <1>4, FoldEnds DEF k

LEMMA MeantLaw ==
    ASSUME NEW V, NEW s \in Seq(V), NEW x \in V, NEW z, NEW key
    PROVE  /\ MeantAll(key, z, <<>>) = z
           /\ MeantAll(key, z, Append(s, x)) = ListMeant(key, MeantAll(key, z, s), x)
<1>1. <<>> \in Seq(V) /\ Append(s, x) \in Seq(V)
    OBVIOUS
<1>2. MeantAll(key, z, <<>>) = z
    BY <1>1, MeantFold, NoRun
<1>3. MeantAll(key, z, Append(s, x)) = Step(<<"meant", key>>, MeantAll(key, z, s), x)
    <2>1. Ends(<<"meant", key>>, z, s, MeantAll(key, z, s))
        BY MeantFold
    <2>2. Ends(<<"meant", key>>, z, Append(s, x), MeantAll(key, z, Append(s, x)))
        BY <1>1, MeantFold
    <2> QED BY <2>1, <2>2, RunLaw
<1> QED BY <1>2, <1>3 DEF Step

FoundAll(key, z, s) == FoldLeft(LAMBDA found, e : IF Change(e, key) THEN Append(found, e) ELSE found, z, s)

LEMMA FoundFold ==
    ASSUME NEW V, NEW s \in Seq(V), NEW z, NEW key
    PROVE  Ends(<<"found", key>>, z, s, FoundAll(key, z, s))
<1> DEFINE k == <<"found", key>>
           it == CHOOSE g : g = [T \in SUBSET DOMAIN s |->
                    IF T = {} THEN z ELSE IF Change(s[Max(T)], key) THEN Append(g[T \ {Max(T)}], s[Max(T)]) ELSE g[T \ {Max(T)}]]
<1>1. FoundAll(key, z, s) = it[DOMAIN s]
    BY Zenon DEF FoundAll, FoldLeft, MapThenFoldSet
<1>2. \A v, x : Step(k, v, x) = IF Change(x, key) THEN Append(v, x) ELSE v
    BY DEF Step
<1>3. ASSUME NEW g
      PROVE  StepBody(k, z, s, g) = [T \in SUBSET DOMAIN s |->
                IF T = {} THEN z ELSE IF Change(s[Max(T)], key) THEN Append(g[T \ {Max(T)}], s[Max(T)]) ELSE g[T \ {Max(T)}]]
    BY <1>2 DEF StepBody
<1>4. it = StepBody(k, z, s, it)
    <2>1. \E g : g = StepBody(k, z, s, g)
        BY StepFold
    <2> QED BY <1>3, <2>1
<1> HIDE DEF it, k
<1> QED BY <1>1, <1>4, FoldEnds DEF k

LEMMA FoundLaw ==
    ASSUME NEW V, NEW s \in Seq(V), NEW x \in V, NEW z, NEW key
    PROVE  /\ FoundAll(key, z, <<>>) = z
           /\ FoundAll(key, z, Append(s, x)) = IF Change(x, key) THEN Append(FoundAll(key, z, s), x) ELSE FoundAll(key, z, s)
<1>1. <<>> \in Seq(V) /\ Append(s, x) \in Seq(V)
    OBVIOUS
<1>2. FoundAll(key, z, <<>>) = z
    BY <1>1, FoundFold, NoRun
<1>3. FoundAll(key, z, Append(s, x)) = Step(<<"found", key>>, FoundAll(key, z, s), x)
    <2>1. Ends(<<"found", key>>, z, s, FoundAll(key, z, s))
        BY FoundFold
    <2>2. Ends(<<"found", key>>, z, Append(s, x), FoundAll(key, z, Append(s, x)))
        BY <1>1, FoundFold
    <2> QED BY <2>1, <2>2, RunLaw
<1> QED BY <1>2, <1>3 DEF Step
-----------------------------------------------------------------------------
(* Settings.  An entry is what was asked for, or what commit made of it.   *)

Basic == {"Set", "Reset", "ListAdd", "ListRemove", "ListClear"}
Ask == [key : STRING, value : Seq(STRING), action : Basic]
Entry == [key : STRING, value : Seq(STRING), action : Basic \cup {"NoOp"}]
Ch(e) == Checked(<<>>, e)
Stands(f, a) ==
    f.key = a.key /\ IF Acceptable(<<>>, a) THEN f = Ch(a) ELSE f.action = "NoOp"
Sane(f) == f \in Entry /\ (f.key \in Key /\ f.action # "NoOp" => Acceptable(<<>>, f) /\ Ch(f) = f)

LEMMA OneIsSeq ==
    ASSUME NEW S, NEW x \in S PROVE <<x>> \in Seq(S)
OBVIOUS

LEMMA FunIsSeq ==
    ASSUME NEW S, NEW n \in Nat, NEW f, f = [i \in 1 .. n |-> f[i]], \A i \in 1 .. n : f[i] \in S
    PROVE  f \in Seq(S)
<1>1. f \in [1 .. n -> S]
    OBVIOUS
<1> QED BY <1>1

LEMMA AcceptedAnywhere ==
    ASSUME NEW es, NEW e \in Entry
    PROVE  Acceptable(es, e) = Acceptable(<<>>, e) /\ Checked(es, e) = Ch(e)
<1>1. ASSUME e.key \in Key, TypeOf(e.key) \in {"bool", "int"}
      PROVE  get_default(es, e.key) = get_default(<<>>, e.key)
    BY <1>1 DEF get_default, Key, TypeOf
<1>2. Acceptable(es, e) = Acceptable(<<>>, e)
    <2>1. Acceptable(es, e) <=> Acceptable(<<>>, e)
        BY <1>1 DEF Acceptable
    <2>2. Acceptable(es, e) \in BOOLEAN /\ Acceptable(<<>>, e) \in BOOLEAN
        BY DEF Acceptable
    <2> QED BY <2>1, <2>2
<1> QED BY <1>2 DEF Checked, Ch

LEMMA CheckedIs ==
    ASSUME NEW e \in Entry
    PROVE  /\ Ch(e) \in Entry /\ Ch(e).key = e.key
           /\ Ch(e).action \in {e.action, "NoOp"}
           /\ Acceptable(<<>>, e) => Ch(e).action = e.action /\ Ch(Ch(e)) = Ch(e) /\ Acceptable(<<>>, Ch(e))
           /\ ~Acceptable(<<>>, e) => Ch(e).action = "NoOp"
<1>1. /\ [e EXCEPT !.action = "NoOp"] \in Entry /\ [e EXCEPT !.action = "NoOp"].key = e.key
      /\ [e EXCEPT !.action = "NoOp"].action = "NoOp"
    BY DEF Entry
<1> DEFINE t == [e EXCEPT !.value = <<"true">>]
<1>2. t \in Entry /\ t.key = e.key /\ t.action = e.action /\ t.value = <<"true">>
    <2>1. "true" \in STRING
        BY ConfigAssumption
    <2>2. <<"true">> \in Seq(STRING)
        BY <2>1, OneIsSeq
    <2> QED BY <2>2 DEF Entry
<1>3. <<"true">> # <<>>
    OBVIOUS
<1>4. Acceptable(<<>>, e) /\ TypeOf(e.key) = "bool" => Acceptable(<<>>, t)
    BY <1>2 DEF Acceptable
<1> HIDE DEF t
<1>5. Acceptable(<<>>, e) => Ch(e) = IF TypeOf(e.key) = "bool" /\ e.value = <<>> /\ e.action # "Reset"
                                     THEN t ELSE e
    BY DEF Ch, Checked, t
<1>6. ~Acceptable(<<>>, e) => Ch(e) = [e EXCEPT !.action = "NoOp"]
    BY DEF Ch, Checked
<1>7. Acceptable(<<>>, t) => Ch(t) = t
    BY <1>2, <1>3 DEF Ch, Checked
<1> QED BY <1>1, <1>2, <1>4, <1>5, <1>6, <1>7

LEMMA StandsAfter ==
    ASSUME NEW a \in Ask, NEW f, f = a \/ f = Ch(a)
    PROVE  a \in Entry /\ f \in Entry /\ Stands(Ch(f), a) /\ Sane(Ch(f))
<1>1. a \in Entry
    BY DEF Ask, Entry
<1>2. f \in Entry /\ f.key = a.key /\ Ch(f).key = a.key /\ Ch(f) \in Entry
    BY <1>1, CheckedIs
<1>3. Acceptable(<<>>, a) => Ch(f) = Ch(a)
    BY <1>1, CheckedIs
<1>4. ~Acceptable(<<>>, a) => Ch(f).action = "NoOp"
    <2>1. CASE f = a
        BY <2>1, <1>1, CheckedIs
    <2>2. CASE f # a
        <3>1. ~Acceptable(<<>>, a) => f.action = "NoOp"
            BY <2>2, <1>1, CheckedIs
        <3> QED BY <3>1, <1>2, CheckedIs
    <2> QED BY <2>1, <2>2
<1>5. Acceptable(<<>>, Ch(f)) => Ch(Ch(f)) = Ch(f) \/ Ch(f).action = "NoOp"
    <2>1. Acceptable(<<>>, f) \/ Ch(f).action = "NoOp"
        BY <1>2, CheckedIs
    <2> QED BY <2>1, <1>2, CheckedIs
<1>6. Ch(f).action # "NoOp" => Acceptable(<<>>, Ch(f)) /\ Ch(Ch(f)) = Ch(f)
    BY <1>2, CheckedIs
<1> QED BY <1>1, <1>2, <1>3, <1>4, <1>6 DEF Stands, Sane

LEMMA StepsAre ==
    ASSUME NEW e \in Written
    PROVE  Steps(e) \in Seq(Ask)
<1>1. CASE HasNoParm(e.action) /\ e.value # <<>>
    BY <1>1 DEF Steps
<1>2. CASE ~(HasNoParm(e.action) /\ e.value # <<>>) /\ e.action = "ListSet"
    <2> DEFINE first == [e EXCEPT !.action = "ListClear", !.value = <<>>]
               rest == [i \in DOMAIN e.value |-> [e EXCEPT !.action = "ListAdd", !.value = <<e.value[i]>>]]
    <2>0. ASSUME NEW v \in Seq(STRING), NEW act \in Basic
          PROVE  [e EXCEPT !.action = act, !.value = v] \in Ask
        BY DEF Ask, Written
    <2>1. first \in Ask
        <3>1. <<>> \in Seq(STRING) /\ "ListClear" \in Basic
            BY DEF Basic
        <3> QED BY <2>0, <3>1
    <2>2. rest \in Seq(Ask)
        <3>1. e.value \in Seq(STRING) /\ DOMAIN e.value = 1 .. Len(e.value) /\ Len(e.value) \in Nat
            BY DEF Written
        <3>2. ASSUME NEW i \in DOMAIN e.value PROVE rest[i] \in Ask
            <4>1. e.value[i] \in STRING
                BY <3>1
            <4>2. <<e.value[i]>> \in Seq(STRING) /\ "ListAdd" \in Basic
                BY <4>1 DEF Basic
            <4> QED BY <2>0, <4>2
        <3>3. rest = [i \in 1 .. Len(e.value) |-> rest[i]]
            BY <3>1
        <3> HIDE DEF rest
        <3> QED BY <3>1, <3>2, <3>3, FunIsSeq
    <2>3. Steps(e) = <<first>> \o rest
        BY <1>2 DEF Steps
    <2> HIDE DEF first, rest
    <2> QED BY <2>1, <2>2, <2>3
<1>3. CASE ~(HasNoParm(e.action) /\ e.value # <<>>) /\ e.action # "ListSet"
    <2>1. Plain(e) \in Ask
        <3>0. "true" \in STRING /\ "false" \in STRING
            BY ConfigAssumption
        <3>1. <<"true">> \in Seq(STRING) /\ <<"false">> \in Seq(STRING)
            BY <3>0, OneIsSeq
        <3>2. ASSUME NEW v \in Seq(STRING), NEW act \in Basic
              PROVE  [e EXCEPT !.action = act, !.value = v] \in Ask
            BY DEF Ask, Written
        <3>3. "Set" \in Basic
            BY DEF Basic
        <3>4. e.action \notin {"Enable", "Disable"} => e \in Ask
            BY <1>3 DEF Ask, Written, Basic
        <3> QED BY <3>1, <3>2, <3>3, <3>4 DEF Plain
    <2> QED BY <1>3, <2>1 DEF Steps
<1> QED BY <1>1, <1>2, <1>3

-----------------------------------------------------------------------------
(* Retrieval, one entry after another.                                     *)

LEMMA PrefixIs ==
    ASSUME NEW V, NEW s \in Seq(V)
    PROVE  /\ SubSeq(s, 1, 0) = <<>> /\ SubSeq(s, 1, Len(s)) = s /\ Len(s) \in Nat
           /\ \A n \in 1 .. Len(s) :
                 /\ SubSeq(s, 1, n - 1) \in Seq(V) /\ s[n] \in V
                 /\ SubSeq(s, 1, n) = Append(SubSeq(s, 1, n - 1), s[n])
<1>1. Len(s) \in Nat /\ SubSeq(s, 1, 0) = <<>> /\ SubSeq(s, 1, Len(s)) = s
    OBVIOUS
<1> SUFFICES ASSUME NEW n \in 1 .. Len(s)
             PROVE  /\ SubSeq(s, 1, n - 1) \in Seq(V) /\ s[n] \in V
                    /\ SubSeq(s, 1, n) = Append(SubSeq(s, 1, n - 1), s[n])
    BY <1>1
<1>2. n \in Nat /\ n - 1 \in Nat /\ n <= Len(s)
    BY <1>1
<1>3. SubSeq(s, 1, n - 1) \in Seq(V) /\ SubSeq(s, 1, n) \in Seq(V)
    BY <1>1, <1>2
<1>4. Len(SubSeq(s, 1, n - 1)) = n - 1 /\ Len(SubSeq(s, 1, n)) = n
    BY <1>1, <1>2
<1>5. /\ \A i \in 1 .. n - 1 : SubSeq(s, 1, n - 1)[i] = s[i]
      /\ \A i \in 1 .. n : SubSeq(s, 1, n)[i] = s[i]
    BY <1>1, <1>2
<1>6. SubSeq(s, 1, n) = Append(SubSeq(s, 1, n - 1), s[n])
    BY <1>1, <1>2, <1>3, <1>4, <1>5
<1> QED BY <1>1, <1>3, <1>6

LEMMA LastInIs ==
    ASSUME NEW n \in Nat, NEW H, H \subseteq 1 .. n
    PROVE  /\ H = {} => LastIn(H) = 0
           /\ H # {} => LastIn(H) \in H /\ \A j \in H : j <= LastIn(H)
           /\ \A m \in H : (\A j \in H : j <= m) => LastIn(H) = m
<1>1. H # {} => \E m \in H : \A j \in H : j <= m
    <2> SUFFICES ASSUME H # {} PROVE \E m \in H : \A j \in H : j <= m
        OBVIOUS
    <2> DEFINE A == {n - x : x \in H}
    <2>0. \A x \in H : x \in 1 .. n /\ n - x \in Nat
        OBVIOUS
    <2>1. A \subseteq Nat /\ A # {}
        BY <2>0
    <2>2. PICK a \in A : \A b \in A : a <= b
        <3> HIDE DEF A
        <3> QED BY <2>1, LeastIn
    <2>3. PICK m \in H : a = n - m
        BY <2>2
    <2>4. ASSUME NEW x \in H PROVE x <= m
        <3>1. n - x \in A
            OBVIOUS
        <3>2. a <= n - x
            BY <2>2, <3>1
        <3> QED BY <2>0, <2>3, <3>2
    <2> QED BY <2>4
<1>2. H # {} => LastIn(H) \in H /\ \A j \in H : j <= LastIn(H)
    BY <1>1 DEF LastIn
<1>3. \A x, y \in H : x <= y /\ y <= x => x = y
    OBVIOUS
<1> QED BY <1>2, <1>3 DEF LastIn

(* An entry more: the last of a kind is this one or the one before.        *)
LEMMA LastInMore ==
    ASSUME NEW n \in Nat, NEW H, H \subseteq 1 .. n
    PROVE  LastIn(H \cup {n + 1}) = n + 1
<1>1. H \cup {n + 1} \subseteq 1 .. n + 1 /\ n + 1 \in Nat
    OBVIOUS
<1>2. \A j \in H \cup {n + 1} : j <= n + 1
    OBVIOUS
<1> QED BY <1>1, <1>2, LastInIs

Marked(es, k, A) == {j \in DOMAIN es : es[j].key = k /\ es[j].action \in A}

LEMMA MarkedMore ==
    ASSUME NEW V, NEW es \in Seq(V), NEW f \in V, NEW k, NEW A
    PROVE  /\ Marked(es, k, A) \subseteq 1 .. Len(es) /\ Len(es) \in Nat
           /\ Marked(Append(es, f), k, A) =
                 IF f.key = k /\ f.action \in A THEN Marked(es, k, A) \cup {Len(es) + 1}
                 ELSE Marked(es, k, A)
<1>1. Len(es) \in Nat /\ DOMAIN es = 1 .. Len(es)
    OBVIOUS
<1>2. /\ DOMAIN Append(es, f) = 1 .. Len(es) + 1 /\ Append(es, f)[Len(es) + 1] = f
      /\ \A i \in 1 .. Len(es) : Append(es, f)[i] = es[i]
    BY <1>1
<1>3. ASSUME NEW j
      PROVE  j \in Marked(Append(es, f), k, A) <=>
                j \in Marked(es, k, A) \/ (j = Len(es) + 1 /\ f.key = k /\ f.action \in A)
    <2>1. j \in 1 .. Len(es) + 1 <=> j \in 1 .. Len(es) \/ j = Len(es) + 1
        BY <1>1
    <2>2. Len(es) + 1 \notin 1 .. Len(es)
        BY <1>1
    <2> QED BY <1>1, <1>2, <2>1, <2>2 DEF Marked
<1> QED BY <1>1, <1>3 DEF Marked

Have(es, k) == LET i == lookup(es, k) IN IF i = 0 THEN <<>> ELSE <<es[i].value>>

LEMMA LookupIs ==
    ASSUME NEW es \in Seq(Entry), NEW k
    PROVE  LET i == LastIn(Marked(es, k, Basic))
           IN  lookup(es, k) = IF i = 0 \/ es[i].action = "Reset" THEN 0 ELSE i
<1>0. \A e \in Entry : e.action # "NoOp" <=> e.action \in Basic
    BY DEF Entry, Basic
<1>1. \A j \in DOMAIN es : es[j].action # "NoOp" <=> es[j].action \in Basic
    BY <1>0
<1>2. {j \in DOMAIN es : es[j].key = k /\ es[j].action # "NoOp"} = Marked(es, k, Basic)
    BY <1>1 DEF Marked
<1> QED BY <1>2 DEF lookup

LEMMA LookedUp ==
    ASSUME NEW es \in Seq(Entry), NEW k
    PROVE  /\ lookup(es, k) # 0 =>
                 /\ lookup(es, k) \in 1 .. Len(es) /\ es[lookup(es, k)] \in Entry
                 /\ es[lookup(es, k)].key = k /\ es[lookup(es, k)].action \notin {"NoOp", "Reset"}
           /\ Have(es, k) = <<>> <=> lookup(es, k) = 0
           /\ \A d : Value(es, k, d) = IF Have(es, k) = <<>> THEN d ELSE Have(es, k)[1]
<1> DEFINE i == LastIn(Marked(es, k, Basic))
<1>1. Marked(es, k, Basic) \subseteq 1 .. Len(es) /\ Len(es) \in Nat
    BY DEF Marked
<1>2. i # 0 => i \in Marked(es, k, Basic)
    BY <1>1, LastInIs
<1>3. lookup(es, k) = IF i = 0 \/ es[i].action = "Reset" THEN 0 ELSE i
    BY LookupIs
<1>4. \A j \in Marked(es, k, Basic) : j \in 1 .. Len(es) /\ es[j] \in Entry /\ es[j].key = k
                                        /\ es[j].action # "NoOp"
    <2>1. "NoOp" \notin Basic
        BY DEF Basic
    <2> QED BY <2>1 DEF Marked
<1> HIDE DEF i
<1>5. lookup(es, k) # 0 =>
                 /\ lookup(es, k) \in 1 .. Len(es) /\ es[lookup(es, k)] \in Entry
                 /\ es[lookup(es, k)].key = k /\ es[lookup(es, k)].action \notin {"NoOp", "Reset"}
    BY <1>2, <1>3, <1>4
<1>6. \A x : <<x>> # <<>> /\ <<x>>[1] = x
    OBVIOUS
<1> QED BY <1>5, <1>6 DEF Have, Value

LEMMA HaveMore ==
    ASSUME NEW es \in Seq(Entry), NEW f \in Entry, NEW k
    PROVE  Have(Append(es, f), k) =
              IF f.key # k \/ f.action = "NoOp" THEN Have(es, k)
              ELSE IF f.action = "Reset" THEN <<>> ELSE <<f.value>>
<1> DEFINE M == Marked(es, k, Basic)
           t == Append(es, f)
           n == Len(es)
<1>1. /\ n \in Nat /\ t[n + 1] = f /\ \A i \in 1 .. n : t[i] = es[i]
      /\ t \in Seq(Entry) /\ n + 1 # 0
    OBVIOUS
<1>2. /\ M \subseteq 1 .. n
      /\ Marked(t, k, Basic) = IF f.key = k /\ f.action \in Basic THEN M \cup {n + 1} ELSE M
    BY MarkedMore
<1>3. f.action \in Basic <=> f.action # "NoOp"
    BY DEF Entry, Basic
<1>4. /\ lookup(es, k) = IF LastIn(M) = 0 \/ es[LastIn(M)].action = "Reset" THEN 0 ELSE LastIn(M)
      /\ lookup(t, k) = IF LastIn(Marked(t, k, Basic)) = 0 \/ t[LastIn(Marked(t, k, Basic))].action = "Reset"
                        THEN 0 ELSE LastIn(Marked(t, k, Basic))
    BY <1>1, LookupIs
<1>5. CASE f.key # k \/ f.action = "NoOp"
    <2>1. Marked(t, k, Basic) = M
        BY <1>2, <1>3, <1>5
    <2>2. LastIn(M) # 0 => LastIn(M) \in 1 .. n
        BY <1>1, <1>2, LastInIs
    <2>3. lookup(t, k) = lookup(es, k) /\ (lookup(es, k) # 0 => t[lookup(es, k)] = es[lookup(es, k)])
        BY <1>1, <1>4, <2>1, <2>2
    <2> QED BY <1>5, <2>3 DEF Have
<1>6. CASE f.key = k /\ f.action # "NoOp"
    <2>1. LastIn(Marked(t, k, Basic)) = n + 1
        BY <1>1, <1>2, <1>3, <1>6, LastInMore
    <2>2. lookup(t, k) = IF f.action = "Reset" THEN 0 ELSE n + 1
        BY <1>1, <1>4, <2>1
    <2> HIDE DEF t, n
    <2>3. Have(t, k) = IF f.action = "Reset" THEN <<>> ELSE <<t[n + 1].value>>
        BY <1>1, <2>2 DEF Have
    <2> QED BY <1>1, <1>6, <2>3 DEF t
<1> QED BY <1>5, <1>6

Starts == {"Reset", "Set", "ListClear"}
Keyed(es, k) == {i \in 1 .. Len(es) : es[i].key = k}
FirstKeyed(es, k) == SelectInSeq(es, LAMBDA e : e.key = k)
From(es, k) == FirstToUse(es, k)
Mis(es, k) == Does(es, From(es, k), "Reset") /\ Does(es, From(es, k) + 1, "Set")
Base(es, k) == IF Anew(es, From(es, k)) THEN <<>> ELSE <<get_default(es, k)>>
Calls(es, k) == FirstCall(es, k, From(es, k)) \o Changes(es, k, From(es, k))
ListOf(es, k) == ListAll(Base(es, k), Calls(es, k))

LEMMA ListIs == \A es, k : lookup_list(es, k) = ListOf(es, k)
BY DEF lookup_list, ListOf, ListAll, Base, Calls, From

LEMMA FirstKeyedMore ==
    ASSUME NEW V, NEW es \in Seq(V), NEW f \in V, NEW k
    PROVE  /\ FirstKeyed(es, k) = 0 <=> Keyed(es, k) = {}
           /\ FirstKeyed(es, k) # 0 => FirstKeyed(es, k) \in 1 .. Len(es) /\ es[FirstKeyed(es, k)].key = k
           /\ FirstKeyed(Append(es, f), k) = IF FirstKeyed(es, k) # 0 THEN FirstKeyed(es, k)
                                             ELSE IF f.key = k THEN Len(es) + 1 ELSE 0
<1> DEFINE t == Append(es, f)
           n == Len(es)
<1>1. /\ n \in Nat /\ Len(t) = n + 1 /\ t[n + 1] = f /\ \A i \in 1 .. n : t[i] = es[i]
      /\ \A j : j \in 1 .. n + 1 <=> j \in 1 .. n \/ j = n + 1
    OBVIOUS
<1>2. \A x : FirstKeyed(x, k) = IF Keyed(x, k) # {} THEN Min(Keyed(x, k)) ELSE 0
    BY DEF FirstKeyed, SelectInSeq, Keyed
<1> HIDE DEF t, n
<1>3. Keyed(t, k) = IF f.key = k THEN Keyed(es, k) \cup {n + 1} ELSE Keyed(es, k)
    BY <1>1 DEF Keyed, n
<1>4. Keyed(es, k) \subseteq 1 .. n
    BY DEF Keyed, n
<1>5. ASSUME NEW A, A \subseteq Nat, A # {}
      PROVE  /\ Min(A) \in A /\ \A y \in A : Min(A) <= y
             /\ \A x \in A : (\A y \in A : x <= y) => Min(A) = x
    <2>1. \E x \in A : \A y \in A : x <= y
        BY <1>5, LeastIn
    <2>2. Min(A) \in A /\ \A y \in A : Min(A) <= y
        BY <2>1 DEF Min
    <2>3. \A x, y \in A : x <= y /\ y <= x => x = y
        BY <1>5
    <2> QED BY <2>2, <2>3
<1>6. CASE Keyed(es, k) = {}
    <2>1. CASE f.key = k
        <3>1. Keyed(t, k) = {n + 1} /\ n + 1 \in Nat /\ n + 1 # 0
            BY <1>1, <1>3, <1>6, <2>1
        <3>2. Min({n + 1}) = n + 1
            BY <3>1, <1>5
        <3> QED BY <1>2, <1>6, <2>1, <3>1, <3>2 DEF t, n
    <2>2. CASE f.key # k
        BY <1>2, <1>3, <1>6, <2>2 DEF t
    <2> QED BY <2>1, <2>2
<1>7. CASE Keyed(es, k) # {}
    <2> DEFINE m == Min(Keyed(es, k))
    <2>1. m \in Keyed(es, k) /\ \A y \in Keyed(es, k) : m <= y
        <3>1. Keyed(es, k) \subseteq Nat
            BY <1>1, <1>4
        <3> QED BY <1>5, <1>7, <3>1
    <2>2. m \in 1 .. n /\ es[m].key = k /\ m # 0
        BY <1>1, <2>1 DEF Keyed, n
    <2> HIDE DEF m
    <2>3. Keyed(t, k) \subseteq Nat /\ m \in Keyed(t, k) /\ \A y \in Keyed(t, k) : m <= y
        BY <1>1, <1>3, <1>4, <2>1, <2>2
    <2>4. Min(Keyed(t, k)) = m
        BY <1>5, <2>3
    <2> QED BY <1>2, <1>7, <2>2, <2>3, <2>4 DEF t, n, m
<1> QED BY <1>6, <1>7

LEMMA FromIs ==
    ASSUME NEW es, NEW k
    PROVE  From(es, k) = IF LastIn(Marked(es, k, Starts)) # 0 THEN LastIn(Marked(es, k, Starts))
                         ELSE FirstKeyed(es, k)
BY DEF From, FirstToUse, Marked, Starts, FirstKeyed

LEMMA FromMore ==
    ASSUME NEW es \in Seq(Entry), NEW f \in Entry, NEW k
    PROVE  /\ From(es, k) # 0 => From(es, k) \in 1 .. Len(es) /\ es[From(es, k)].key = k
           /\ From(Append(es, f), k) =
                 IF f.key = k /\ (f.action \in Starts \/ From(es, k) = 0) THEN Len(es) + 1
                 ELSE From(es, k)
<1> DEFINE M == Marked(es, k, Starts)
           t == Append(es, f)
           n == Len(es)
<1>1. n \in Nat /\ n + 1 # 0
    OBVIOUS
<1>2. /\ M \subseteq 1 .. n
      /\ Marked(t, k, Starts) = IF f.key = k /\ f.action \in Starts THEN M \cup {n + 1} ELSE M
    BY MarkedMore
<1>3. LastIn(M) # 0 => LastIn(M) \in M
    BY <1>1, <1>2, LastInIs
<1>4. LastIn(M \cup {n + 1}) = n + 1
    BY <1>1, <1>2, LastInMore
<1>5. \A i \in M : i \in 1 .. n /\ es[i].key = k
    BY DEF Marked
<1>6. /\ From(es, k) = IF LastIn(M) # 0 THEN LastIn(M) ELSE FirstKeyed(es, k)
      /\ From(t, k) = IF LastIn(Marked(t, k, Starts)) # 0 THEN LastIn(Marked(t, k, Starts))
                      ELSE FirstKeyed(t, k)
    BY FromIs
<1>7. /\ FirstKeyed(es, k) # 0 => FirstKeyed(es, k) \in 1 .. n /\ es[FirstKeyed(es, k)].key = k
      /\ FirstKeyed(t, k) = IF FirstKeyed(es, k) # 0 THEN FirstKeyed(es, k)
                            ELSE IF f.key = k THEN n + 1 ELSE 0
    BY FirstKeyedMore
<1> HIDE DEF M, t, n
<1>8. From(es, k) # 0 => From(es, k) \in 1 .. n /\ es[From(es, k)].key = k
    BY <1>3, <1>5, <1>6, <1>7
<1>9. From(t, k) = IF f.key = k /\ (f.action \in Starts \/ From(es, k) = 0) THEN n + 1
                   ELSE From(es, k)
    <2>1. CASE f.key = k /\ f.action \in Starts
        BY <1>1, <1>2, <1>4, <1>6, <2>1
    <2>2. CASE ~(f.key = k /\ f.action \in Starts)
        BY <1>2, <1>6, <1>7, <2>2
    <2> QED BY <2>1, <2>2
<1> QED BY <1>8, <1>9 DEF t, n

LEMMA SameSeq ==
    ASSUME NEW V, NEW s \in Seq(V), NEW t \in Seq(V), Len(s) = Len(t),
           \A i \in 1 .. Len(s) : s[i] = t[i]
    PROVE  s = t
OBVIOUS

LEMMA SubSeqMore ==
    ASSUME NEW V, NEW s \in Seq(V), NEW f \in V, NEW from \in 1 .. Len(s) + 1
    PROVE  /\ SubSeq(s, from, Len(s)) \in Seq(V)
           /\ SubSeq(Append(s, f), from, Len(s) + 1) = Append(SubSeq(s, from, Len(s)), f)
           /\ from = Len(s) + 1 => SubSeq(s, from, Len(s)) = <<>>
<1> DEFINE n == Len(s)
           t == Append(s, f)
           r == SubSeq(s, from, n)
           q == SubSeq(t, from, n + 1)
<1>1. /\ n \in Nat /\ Len(t) = n + 1 /\ t[n + 1] = f /\ \A i \in 1 .. n : t[i] = s[i]
      /\ t \in Seq(V) /\ from \in Nat /\ from >= 1 /\ from <= n + 1
    OBVIOUS
<1>2. r \in Seq(V) /\ Len(r) = (n + 1) - from /\ \A i \in 1 .. (n + 1) - from : r[i] = s[from + i - 1]
    BY <1>1
<1> HIDE DEF t
<1>3. q \in Seq(V) /\ Len(q) = (n + 2) - from /\ \A i \in 1 .. (n + 2) - from : q[i] = t[from + i - 1]
    BY <1>1
<1> HIDE DEF r, q, n
<1>4. Append(r, f) \in Seq(V) /\ Len(Append(r, f)) = (n + 2) - from
    <2>1. Append(r, f) \in Seq(V) /\ Len(Append(r, f)) = Len(r) + 1
        BY <1>2
    <2>2. ((n + 1) - from) + 1 = (n + 2) - from
        BY <1>1
    <2> QED BY <1>2, <2>1, <2>2
<1>5. ASSUME NEW i \in 1 .. (n + 2) - from PROVE Append(r, f)[i] = q[i]
    <2>1. CASE i = (n + 2) - from
        <3>1. Append(r, f)[i] = f
            BY <1>1, <1>2, <2>1
        <3>2. from + i - 1 = n + 1
            BY <1>1, <2>1
        <3> QED BY <1>1, <1>3, <3>1, <3>2
    <2>2. CASE i # (n + 2) - from
        <3>1. i \in 1 .. (n + 1) - from /\ from + i - 1 \in 1 .. n
            BY <1>1, <2>2
        <3>2. Append(r, f)[i] = r[i]
            BY <1>1, <1>2, <3>1
        <3> QED BY <1>1, <1>2, <1>3, <3>1, <3>2
    <2> QED BY <2>1, <2>2
<1>6. q = Append(r, f)
    BY <1>3, <1>4, <1>5, SameSeq
<1>7. from = n + 1 => Len(r) = 0
    BY <1>1, <1>2
<1> QED BY <1>2, <1>6, <1>7 DEF r, q, n, t

LEMMA ChangesMore ==
    ASSUME NEW es \in Seq(Entry), NEW f \in Entry, NEW k, NEW from \in 1 .. Len(es) + 1
    PROVE  /\ Changes(Append(es, f), k, from) =
                 IF Change(f, k) THEN Append(Changes(es, k, from), f) ELSE Changes(es, k, from)
           /\ from = Len(es) + 1 => Changes(es, k, from) = <<>>
<1> DEFINE s == SubSeq(es, from, Len(es))
<1>1. /\ Len(Append(es, f)) = Len(es) + 1 /\ from # 0 /\ <<>> \in Seq(Entry)
    OBVIOUS
<1>2. /\ s \in Seq(Entry) /\ SubSeq(Append(es, f), from, Len(es) + 1) = Append(s, f)
      /\ from = Len(es) + 1 => s = <<>>
    BY SubSeqMore
<1>3. /\ Changes(Append(es, f), k, from) = FoundAll(k, <<>>, SubSeq(Append(es, f), from, Len(Append(es, f))))
      /\ Changes(es, k, from) = FoundAll(k, <<>>, s)
    BY <1>1 DEF Changes, FoundAll
<1> HIDE DEF s
<1>4. FoundAll(k, <<>>, Append(s, f)) = IF Change(f, k) THEN Append(FoundAll(k, <<>>, s), f)
                                        ELSE FoundAll(k, <<>>, s)
    BY <1>2, FoundLaw
<1>5. FoundAll(k, <<>>, <<>>) = <<>>
    BY <1>2, FoundLaw
<1> QED BY <1>1, <1>2, <1>3, <1>4, <1>5

LEMMA DoesMore ==
    ASSUME NEW V, NEW es \in Seq(V), NEW f \in V, NEW a
    PROVE  /\ Len(es) \in Nat
           /\ \A i \in 1 .. Len(es) : Does(Append(es, f), i, a) <=> Does(es, i, a)
           /\ Does(Append(es, f), Len(es) + 1, a) <=> f.action = a
           /\ ~Does(es, Len(es) + 1, a) /\ ~Does(Append(es, f), Len(es) + 2, a)
           /\ ~Does(es, 0, a) /\ ~Does(Append(es, f), 0, a)
<1> DEFINE n == Len(es)
           t == Append(es, f)
<1>1. /\ n \in Nat /\ DOMAIN es = 1 .. n /\ DOMAIN t = 1 .. n + 1
      /\ t[n + 1] = f /\ \A i \in 1 .. n : t[i] = es[i]
    OBVIOUS
<1>2. /\ n + 1 \in 1 .. n + 1 /\ n + 1 \notin 1 .. n /\ n + 2 \notin 1 .. n + 1
      /\ 0 \notin 1 .. n /\ 0 \notin 1 .. n + 1 /\ \A i \in 1 .. n : i \in 1 .. n + 1
    BY <1>1
<1> HIDE DEF n, t
<1> QED BY <1>1, <1>2 DEF Does, n, t

LEMMA CallIsEntry ==
    ASSUME NEW es \in Seq(Entry), NEW k \in STRING, NEW from
    PROVE  FirstCall(es, k, from) \in Seq(Entry)
<1>1. ASSUME NEW v \in Seq(STRING) PROVE <<[key |-> k, action |-> "ListAdd", value |-> v]>> \in Seq(Entry)
    <2>1. [key |-> k, action |-> "ListAdd", value |-> v] \in Entry
        BY DEF Entry, Basic
    <2> QED BY <2>1, OneIsSeq
<1>2. \A i \in DOMAIN es : es[i].value \in Seq(STRING)
    <2>1. \A e \in Entry : e.value \in Seq(STRING)
        BY DEF Entry
    <2> QED BY <2>1
<1>3. Does(es, SetAt(es, from), "Set") => SetAt(es, from) \in DOMAIN es
    BY DEF Does
<1>4. <<>> \in Seq(Entry)
    OBVIOUS
<1> QED BY <1>1, <1>2, <1>3, <1>4 DEF FirstCall

LEMMA NoneFound == \A k, z : FoundAll(k, z, <<>>) = z
<1> SUFFICES ASSUME NEW k, NEW z PROVE FoundAll(k, z, <<>>) = z
    OBVIOUS
<1>1. <<>> \in Seq({})
    OBVIOUS
<1>2. Ends(<<"found", k>>, z, <<>>, FoundAll(k, z, <<>>))
    BY <1>1, FoundFold
<1> QED BY <1>2, NoRun

LEMMA ChangesAreEntries ==
    ASSUME NEW es \in Seq(Entry), NEW k, NEW from \in Nat
    PROVE  /\ Changes(es, k, from) \in Seq(Entry)
           /\ \A i \in DOMAIN Changes(es, k, from) : Change(Changes(es, k, from)[i], k)
<1>1. CASE from = 0
    <2>1. Changes(es, k, from) = <<>>
        BY <1>1 DEF Changes
    <2> QED BY <2>1
<1>2. CASE from # 0
    <2> DEFINE s == SubSeq(es, from, Len(es))
               Good(r) == r \in Seq(Entry) /\ \A i \in DOMAIN r : Change(r[i], k)
               G == {n \in 0 .. Len(s) : Good(FoundAll(k, <<>>, SubSeq(s, 1, n)))}
    <2>1. s \in Seq(Entry)
        <3>1. from \in 1 .. Len(es) \/ from > Len(es)
            BY <1>2
        <3>2. CASE from \in 1 .. Len(es)
            BY <3>2
        <3>3. CASE from > Len(es)
            BY <3>3
        <3> QED BY <3>1, <3>2, <3>3
    <2>2. Changes(es, k, from) = FoundAll(k, <<>>, s)
        BY <1>2 DEF Changes, FoundAll
    <2> HIDE DEF s
    <2>3. /\ SubSeq(s, 1, 0) = <<>> /\ SubSeq(s, 1, Len(s)) = s /\ Len(s) \in Nat
          /\ \A n \in 1 .. Len(s) :
                 /\ SubSeq(s, 1, n - 1) \in Seq(Entry) /\ s[n] \in Entry
                 /\ SubSeq(s, 1, n) = Append(SubSeq(s, 1, n - 1), s[n])
        BY <2>1, PrefixIs
    <2>4. 0 \in G
        <3>1. FoundAll(k, <<>>, <<>>) = <<>>
            BY NoneFound
        <3>2. Good(<<>>) /\ 0 \in 0 .. Len(s)
            BY <2>3
        <3> HIDE DEF Good
        <3> QED BY <2>3, <3>1, <3>2
    <2>5. ASSUME NEW n \in 1 .. Len(s), n - 1 \in G PROVE n \in G
        <3> DEFINE p == SubSeq(s, 1, n - 1)
                   r == FoundAll(k, <<>>, p)
        <3>0. p \in Seq(Entry) /\ s[n] \in Entry /\ SubSeq(s, 1, n) = Append(p, s[n])
            BY <2>3
        <3> HIDE DEF p
        <3>1. FoundAll(k, <<>>, SubSeq(s, 1, n)) = IF Change(s[n], k) THEN Append(r, s[n]) ELSE r
            <4> DEFINE x == s[n]
            <4>0. x \in Entry
                BY <3>0
            <4> HIDE DEF x
            <4>1. FoundAll(k, <<>>, Append(p, x)) = IF Change(x, k) THEN Append(FoundAll(k, <<>>, p), x)
                                                    ELSE FoundAll(k, <<>>, p)
                BY <3>0, <4>0, FoundLaw
            <4> QED BY <3>0, <4>1 DEF x
        <3>2. Good(r) /\ s[n] \in Entry
            BY <3>0, <2>5 DEF p
        <3> HIDE DEF r
        <3>3. Change(s[n], k) => Good(Append(r, s[n]))
            <4>1. /\ r \in Seq(Entry) /\ Append(r, s[n]) \in Seq(Entry)
                  /\ DOMAIN Append(r, s[n]) = DOMAIN r \cup {Len(r) + 1}
                  /\ Append(r, s[n])[Len(r) + 1] = s[n]
                  /\ \A i \in DOMAIN r : Append(r, s[n])[i] = r[i]
                BY <3>2
            <4> QED BY <3>2, <4>1
        <3> HIDE DEF Good
        <3>4. Good(FoundAll(k, <<>>, SubSeq(s, 1, n))) /\ n \in 0 .. Len(s)
            BY <2>3, <3>1, <3>2, <3>3
        <3> QED BY <3>4
    <2> HIDE DEF G
    <2>6. Len(s) \in G
        <3>1. \A i \in 0 .. Len(s) : i \in G
            BY <2>3, <2>4, <2>5, GoesOn
        <3> QED BY <2>3, <3>1
    <2> QED BY <2>2, <2>3, <2>6 DEF G
<1> QED BY <1>1, <1>2

LEMMA ListDefaults ==
    \A k \in Key : TypeOf(k) = "list" => k \in STRING /\ \A es : get_default(es, k) = Default(k)
<1>1. \A k \in Key : k \in STRING
    BY ConfigAssumption
<1>2. TypeOf("pws") # "list"
    BY DEF TypeOf
<1> QED BY <1>1, <1>2 DEF get_default

LEMMA ListMore ==
    ASSUME NEW es \in Seq(Entry), NEW f \in Entry, NEW k \in Key, TypeOf(k) = "list"
    PROVE  LET t == Append(es, f)
           IN  /\ f.key = k /\ f.action \in Starts =>
                     /\ ~Mis(t, k)
                     /\ ListOf(t, k) = IF f.action = "Reset" THEN <<Default(k)>>
                                       ELSE IF f.action = "Set" THEN <<f.value>> ELSE <<>>
               /\ ~(f.key = k /\ f.action \in Starts) /\ ~Mis(t, k) =>
                     /\ ~Mis(es, k)
                     /\ ListOf(t, k) = IF Change(f, k) THEN ListStep(ListOf(es, k), f) ELSE ListOf(es, k)
<1> DEFINE n == Len(es)
           t == Append(es, f)
           from == From(es, k)
<1>1. n \in Nat /\ t \in Seq(Entry) /\ n + 1 # 0 /\ 0 + 1 = 1 /\ n + 1 + 1 = n + 2
    OBVIOUS
<1>2. /\ from # 0 => from \in 1 .. n /\ es[from].key = k
      /\ From(t, k) = IF f.key = k /\ (f.action \in Starts \/ from = 0) THEN n + 1 ELSE from
    BY FromMore
<1>3. \A a : /\ \A i \in 1 .. n : Does(t, i, a) <=> Does(es, i, a)
             /\ Does(t, n + 1, a) <=> f.action = a
             /\ ~Does(es, n + 1, a) /\ ~Does(t, n + 2, a)
             /\ ~Does(es, 0, a) /\ ~Does(t, 0, a)
    BY DoesMore
<1>4. \A i \in 1 .. n + 1 : /\ Changes(t, k, i) = IF Change(f, k) THEN Append(Changes(es, k, i), f)
                                                 ELSE Changes(es, k, i)
                            /\ i = n + 1 => Changes(es, k, i) = <<>>
    BY ChangesMore
<1>5. k \in STRING /\ get_default(es, k) = Default(k) /\ get_default(t, k) = Default(k)
    BY ListDefaults
<1>6. /\ \A i : FirstCall(es, k, i) \in Seq(Entry)
      /\ \A i \in Nat : Changes(es, k, i) \in Seq(Entry)
    BY <1>5, CallIsEntry, ChangesAreEntries
<1>7. /\ t[n + 1] = f /\ \A i \in 1 .. n : t[i] = es[i]
      /\ \A s \in Seq(Entry) : <<>> \o s = s /\ s \o <<>> = s
      /\ Append(<<>>, f) = <<f>>
    OBVIOUS
<1>8. \A z : \A s \in Seq(Entry), x \in Entry : /\ ListAll(z, <<>>) = z
                                               /\ ListAll(z, Append(s, x)) = ListStep(ListAll(z, s), x)
    <2> SUFFICES ASSUME NEW z PROVE \A s \in Seq(Entry), x \in Entry :
                                       /\ ListAll(z, <<>>) = z
                                       /\ ListAll(z, Append(s, x)) = ListStep(ListAll(z, s), x)
        OBVIOUS
    <2> QED BY ListLaw
<1> HIDE DEF n, t, from
<1>9. CASE f.key = k /\ f.action \in Starts
    <2>1. From(t, k) = n + 1
        BY <1>2, <1>9
    <2>2. ~Mis(t, k)
        BY <1>1, <1>3, <2>1 DEF Mis
    <2>3. ~Change(f, k)
        BY <1>9 DEF Change, Starts
    <2>4. n + 1 \in 1 .. n + 1
        BY <1>1
    <2>5. Changes(t, k, n + 1) = <<>>
        BY <1>4, <2>3, <2>4
    <2>6. Base(t, k) = IF f.action = "Reset" THEN <<Default(k)>> ELSE <<>>
        BY <1>3, <1>5, <1>9, <2>1 DEF Base, Anew, Starts
    <2>7. CASE f.action = "Set"
        <3> DEFINE c == [key |-> k, action |-> "ListAdd", value |-> f.value]
        <3>1. FirstCall(t, k, n + 1) = <<c>>
            BY <1>3, <1>7, <2>7 DEF FirstCall, SetAt
        <3>2. c \in Entry /\ c.action = "ListAdd" /\ c.value = f.value
            BY <1>5 DEF Entry, Basic
        <3>3. Calls(t, k) = Append(<<>>, c)
            <4>1. <<c>> \in Seq(Entry) /\ <<c>> = Append(<<>>, c)
                BY <3>2
            <4> HIDE DEF c
            <4> QED BY <1>7, <2>1, <2>5, <3>1, <4>1 DEF Calls
        <3> HIDE DEF c
        <3>0. <<>> \in Seq(Entry)
            OBVIOUS
        <3>4. ListOf(t, k) = ListStep(ListAll(<<>>, <<>>), c) /\ ListAll(<<>>, <<>>) = <<>>
            <4>1. Base(t, k) = <<>>
                BY <2>6, <2>7
            <4>2. ListAll(<<>>, Append(<<>>, c)) = ListStep(ListAll(<<>>, <<>>), c) /\ ListAll(<<>>, <<>>) = <<>>
                BY <1>8, <3>0, <3>2
            <4> QED BY <3>3, <4>1, <4>2 DEF ListOf
        <3>5. AddOnce(<<>>, f.value) = <<f.value>>
            BY DEF AddOnce
        <3>6. ListOf(t, k) = <<f.value>>
            BY <3>2, <3>4, <3>5 DEF ListStep
        <3> QED BY <1>9, <2>2, <2>7, <3>6 DEF t
    <2>8. CASE f.action # "Set"
        <3>1. FirstCall(t, k, n + 1) = <<>>
            BY <1>1, <1>3, <2>8 DEF FirstCall, SetAt
        <3>2. Calls(t, k) = <<>>
            BY <2>1, <2>5, <3>1 DEF Calls
        <3>3. ListOf(t, k) = Base(t, k)
            BY <1>8, <3>2 DEF ListOf
        <3> QED BY <1>9, <2>2, <2>6, <2>8, <3>3 DEF t
    <2> QED BY <2>7, <2>8
<1>10. CASE ~(f.key = k /\ f.action \in Starts) /\ from = 0
    <2>1. Base(es, k) = <<Default(k)>> /\ FirstCall(es, k, 0) = <<>> /\ Changes(es, k, 0) = <<>>
        BY <1>3, <1>5, <1>10 DEF Base, Anew, FirstCall, SetAt, Changes, from
    <2>2. ListOf(es, k) = <<Default(k)>> /\ ~Mis(es, k)
        <3>1. Calls(es, k) = <<>>
            BY <1>10, <2>1 DEF Calls, from
        <3>2. ~Mis(es, k)
            BY <1>3, <1>10 DEF Mis, from
        <3> QED BY <1>8, <2>1, <3>1, <3>2 DEF ListOf
    <2>3. CASE f.key # k
        <3>1. From(t, k) = 0 /\ ~Change(f, k)
            BY <1>2, <1>10, <2>3 DEF Change
        <3>2. Base(t, k) = <<Default(k)>> /\ FirstCall(t, k, 0) = <<>> /\ Changes(t, k, 0) = <<>>
            BY <1>3, <1>5, <3>1 DEF Base, Anew, FirstCall, SetAt, Changes
        <3>3. Calls(t, k) = <<>>
            BY <3>1, <3>2 DEF Calls
        <3> QED BY <1>8, <1>10, <2>2, <3>1, <3>2, <3>3 DEF ListOf, t
    <2>4. CASE f.key = k
        <3>1. From(t, k) = n + 1 /\ f.action \notin Starts /\ n + 1 \in 1 .. n + 1
            BY <1>1, <1>2, <1>10, <2>4
        <3>2. Base(t, k) = <<Default(k)>> /\ FirstCall(t, k, n + 1) = <<>>
            BY <1>3, <1>5, <3>1 DEF Base, Anew, FirstCall, SetAt, Starts
        <3>3. Changes(t, k, n + 1) = IF Change(f, k) THEN Append(<<>>, f) ELSE <<>>
            BY <1>4, <3>1
        <3>4. Calls(t, k) = IF Change(f, k) THEN Append(<<>>, f) ELSE <<>>
            BY <1>7, <3>1, <3>2, <3>3 DEF Calls
        <3>5. <<>> \in Seq(Entry)
            OBVIOUS
        <3>6. ListOf(t, k) = IF Change(f, k) THEN ListStep(<<Default(k)>>, f) ELSE <<Default(k)>>
            <4>1. /\ ListAll(<<Default(k)>>, <<>>) = <<Default(k)>>
                  /\ ListAll(<<Default(k)>>, Append(<<>>, f)) = ListStep(ListAll(<<Default(k)>>, <<>>), f)
                BY <1>8, <3>5
            <4> QED BY <3>2, <3>4, <4>1 DEF ListOf
        <3> QED BY <1>10, <2>2, <3>6 DEF t
    <2> QED BY <2>3, <2>4
<1>11. CASE ~(f.key = k /\ f.action \in Starts) /\ from # 0 /\ ~Mis(t, k)
    <2>1. From(t, k) = from /\ from \in 1 .. n /\ from + 1 \in 1 .. n + 1 /\ from \in 1 .. n + 1 /\ from \in Nat
        BY <1>1, <1>2, <1>11
    <2>2. ~Mis(es, k)
        <3>1. from + 1 \in 1 .. n \/ from + 1 = n + 1
            BY <1>1, <2>1
        <3>2. Does(es, from + 1, "Set") => Does(t, from + 1, "Set")
            BY <1>3, <3>1
        <3>3. Does(es, from, "Reset") => Does(t, from, "Reset")
            BY <1>3, <2>1
        <3> QED BY <1>11, <2>1, <3>2, <3>3 DEF Mis, from
    <2>3. \A a : Does(t, from, a) <=> Does(es, from, a)
        BY <1>3, <2>1
    <2>4. Base(t, k) = Base(es, k)
        BY <1>5, <2>1, <2>3 DEF Base, Anew, from
    <2>5. FirstCall(t, k, from) = FirstCall(es, k, from)
        <3>1. CASE Does(es, from, "Reset")
            <4>1. ~Does(es, from + 1, "Set") /\ ~Does(t, from + 1, "Set")
                BY <1>11, <2>1, <2>2, <2>3, <3>1 DEF Mis, from
            <4> QED BY <2>3, <3>1, <4>1 DEF FirstCall, SetAt
        <3>2. CASE ~Does(es, from, "Reset")
            BY <1>7, <2>1, <2>3, <3>2 DEF FirstCall, SetAt
        <3> QED BY <3>1, <3>2
    <2>6. Changes(t, k, from) = IF Change(f, k) THEN Append(Changes(es, k, from), f) ELSE Changes(es, k, from)
        BY <1>4, <2>1
    <2> DEFINE c == FirstCall(es, k, from)
               d == Changes(es, k, from)
    <2>7. c \in Seq(Entry) /\ d \in Seq(Entry)
        BY <1>6, <2>1
    <2>8. Calls(es, k) = c \o d /\ Calls(t, k) = IF Change(f, k) THEN c \o Append(d, f) ELSE c \o d
        BY <2>1, <2>5, <2>6 DEF Calls, from
    <2> HIDE DEF c, d
    <2>9. c \o Append(d, f) = Append(c \o d, f) /\ c \o d \in Seq(Entry)
        BY <2>7
    <2>10. ListOf(t, k) = IF Change(f, k) THEN ListStep(ListOf(es, k), f) ELSE ListOf(es, k)
        <3> DEFINE z == Base(es, k)
                   s == c \o d
        <3>1. s \in Seq(Entry)
            BY <2>9
        <3> HIDE DEF z, s
        <3>2. ListAll(z, Append(s, f)) = ListStep(ListAll(z, s), f)
            BY <1>8, <3>1
        <3>3. ListOf(es, k) = ListAll(z, s)
            BY <2>8 DEF ListOf, z, s
        <3>4. ListOf(t, k) = IF Change(f, k) THEN ListAll(z, Append(s, f)) ELSE ListAll(z, s)
            BY <2>4, <2>8, <2>9 DEF ListOf, z, s
        <3> QED BY <3>2, <3>3, <3>4
    <2> QED BY <1>11, <2>2, <2>10 DEF t
<1> QED BY <1>9, <1>10, <1>11 DEF t

-----------------------------------------------------------------------------
(* Entries that agree with what was asked for.                             *)

Agree(es, ops, capped, k) ==
    IF TypeOf(k) = "list" THEN ~Mis(es, k) => ListOf(es, k) = MeantAll(k, <<Default(k)>>, ops)
    ELSE Have(es, k) = ScalarAll(k, capped, <<>>, ops)

LEMMA NothingYet ==
    ASSUME NEW k
    PROVE  /\ Have(<<>>, k) = <<>>
           /\ k \in Key /\ TypeOf(k) = "list" => ListOf(<<>>, k) = <<Default(k)>> /\ ~Mis(<<>>, k)
<1>1. <<>> \in Seq(Entry) /\ Len(<<>>) = 0 /\ DOMAIN <<>> = {} /\ 1 .. 0 = {}
    OBVIOUS
<1>2. Have(<<>>, k) = <<>>
    <2>1. lookup(<<>>, k) = 0
        BY <1>1, LookedUp
    <2> QED BY <2>1 DEF Have
<1>3. From(<<>>, k) = 0
    <2>1. From(<<>>, k) # 0 => From(<<>>, k) \in 1 .. Len(<<>>)
        <3>1. [key |-> "8", value |-> <<>>, action |-> "NoOp"] \in Entry
            <4>1. "8" \in STRING /\ <<>> \in Seq(STRING)
                BY ConfigAssumption
            <4> QED BY <4>1 DEF Entry
        <3> QED BY <1>1, <3>1, FromMore
    <2> QED BY <1>1, <2>1
<1>4. \A i, a : ~Does(<<>>, i, a)
    BY <1>1 DEF Does
<1>5. ASSUME k \in Key, TypeOf(k) = "list" PROVE ListOf(<<>>, k) = <<Default(k)>> /\ ~Mis(<<>>, k)
    <2>1. ~Mis(<<>>, k) /\ ~Anew(<<>>, 0) /\ FirstCall(<<>>, k, 0) = <<>> /\ Changes(<<>>, k, 0) = <<>>
        BY <1>4 DEF Mis, Anew, FirstCall, Changes
    <2>2. Base(<<>>, k) = <<Default(k)>>
        BY <1>3, <1>5, <2>1, ListDefaults DEF Base
    <2>3. Calls(<<>>, k) = <<>>
        BY <1>3, <2>1 DEF Calls
    <2>4. ListAll(<<Default(k)>>, <<>>) = <<Default(k)>>
        <3>1. Ends(<<"list">>, <<Default(k)>>, <<>>, ListAll(<<Default(k)>>, <<>>))
            BY <1>1, ListFold
        <3> QED BY <3>1, NoRun
    <2> QED BY <2>1, <2>2, <2>3, <2>4 DEF ListOf
<1> QED BY <1>2, <1>5

LEMMA NothingAsked ==
    /\ \A k, capped, z : ScalarAll(k, capped, z, <<>>) = z
    /\ \A k, z : MeantAll(k, z, <<>>) = z
<1>1. <<>> \in Seq({})
    OBVIOUS
<1>2. ASSUME NEW k, NEW capped, NEW z PROVE ScalarAll(k, capped, z, <<>>) = z
    <2>1. Ends(<<"scalar", k, capped>>, z, <<>>, ScalarAll(k, capped, z, <<>>))
        BY <1>1, ScalarFold
    <2> QED BY <2>1, NoRun
<1>3. ASSUME NEW k, NEW z PROVE MeantAll(k, z, <<>>) = z
    <2>1. Ends(<<"meant", k>>, z, <<>>, MeantAll(k, z, <<>>))
        BY <1>1, MeantFold
    <2> QED BY <2>1, NoRun
<1> QED BY <1>2, <1>3

LEMMA AgreeStart == \A k \in Key : \A capped : Agree(<<>>, <<>>, capped, k)
BY NothingYet, NothingAsked DEF Agree

LEMMA StoodFor ==
    ASSUME NEW a \in Ask, NEW f, Stands(f, a), NEW k \in Key, a.key = k
    PROVE  /\ f.key = k
           /\ ~Acceptable(<<>>, a) => f.action = "NoOp"
           /\ Acceptable(<<>>, a) =>
                 /\ f.action = a.action /\ f.action # "NoOp"
                 /\ f.value = IF TypeOf(k) = "bool" /\ a.value = <<>> /\ a.action # "Reset"
                              THEN <<"true">> ELSE a.value
           /\ TypeOf(k) = "list" => Acceptable(<<>>, a) /\ f = a
           /\ TypeOf(k) # "list" /\ Acceptable(<<>>, a) => a.action \in {"Set", "Reset"}
<1>1. a \in Entry /\ a.action # "NoOp" /\ a.action \in Basic
    BY DEF Ask, Entry, Basic
<1>2. TypeOf(k) = "list" => Acceptable(<<>>, a)
    BY DEF Acceptable
<1>3. Acceptable(<<>>, a) => f = IF TypeOf(k) = "bool" /\ a.value = <<>> /\ a.action # "Reset"
                                 THEN [a EXCEPT !.value = <<"true">>] ELSE a
    BY DEF Stands, Ch, Checked
<1>4. /\ [a EXCEPT !.value = <<"true">>].value = <<"true">>
      /\ [a EXCEPT !.value = <<"true">>].action = a.action
    BY <1>1 DEF Entry
<1>5. TypeOf(k) # "list" /\ Acceptable(<<>>, a) => a.action \in {"Set", "Reset"}
    BY <1>1 DEF Acceptable, ListAction, Basic
<1> QED BY <1>1, <1>2, <1>3, <1>4, <1>5 DEF Stands

LEMMA AgreeMore ==
    ASSUME NEW es \in Seq(Entry), NEW ops \in Seq(Ask), NEW f \in Entry, NEW a \in Ask,
           Stands(f, a), NEW k \in Key, NEW capped,
           capped => ~(a.key = "limit" /\ a.action = "Set" /\ a.value = OverLimit),
           Agree(es, ops, capped, k)
    PROVE  Agree(Append(es, f), Append(ops, a), capped, k)
<1>1. f.key = a.key
    BY DEF Stands
<1>2. CASE TypeOf(k) = "list"
    <2> DEFINE t == Append(es, f)
               m == MeantAll(k, <<Default(k)>>, ops)
    <2>1. MeantAll(k, <<Default(k)>>, Append(ops, a)) = ListMeant(k, m, a)
        BY MeantLaw
    <2>2. /\ f.key = k /\ f.action \in Starts =>
                     /\ ~Mis(t, k)
                     /\ ListOf(t, k) = IF f.action = "Reset" THEN <<Default(k)>>
                                       ELSE IF f.action = "Set" THEN <<f.value>> ELSE <<>>
          /\ ~(f.key = k /\ f.action \in Starts) /\ ~Mis(t, k) =>
                     /\ ~Mis(es, k)
                     /\ ListOf(t, k) = IF Change(f, k) THEN ListStep(ListOf(es, k), f) ELSE ListOf(es, k)
        BY <1>2, ListMore
    <2>3. ~Mis(es, k) => ListOf(es, k) = m
        BY <1>2 DEF Agree
    <2> HIDE DEF t, m
    <2>4. CASE a.key # k
        <3>1. ListMeant(k, m, a) = m /\ ~Change(f, k)
            BY <1>1, <2>4 DEF ListMeant, Change
        <3> QED BY <1>1, <1>2, <2>1, <2>2, <2>3, <2>4, <3>1 DEF Agree, t
    <2>5. CASE a.key = k
        <3>1. f = a /\ a.action \in Basic
            BY <1>2, <2>5, StoodFor DEF Ask
        <3>2. CASE f.action \in Starts
            <4>1. ListMeant(k, m, a) = IF f.action = "Reset" THEN <<Default(k)>>
                                       ELSE IF f.action = "Set" THEN <<f.value>> ELSE <<>>
                BY <2>5, <3>1, <3>2 DEF ListMeant, Starts
            <4> QED BY <1>1, <1>2, <2>1, <2>2, <2>5, <3>2, <4>1 DEF Agree, t
        <3>3. CASE f.action \notin Starts
            <4>1. f.action \in {"ListAdd", "ListRemove"}
                BY <3>1, <3>3 DEF Basic, Starts
            <4>2. Change(f, k) /\ ListMeant(k, m, a) = ListStep(m, f)
                BY <2>5, <3>1, <4>1 DEF Change, ListMeant
            <4> QED BY <1>2, <2>1, <2>2, <2>3, <3>3, <4>2 DEF Agree, t
        <3> QED BY <3>2, <3>3
    <2> QED BY <2>4, <2>5
<1>3. CASE TypeOf(k) # "list"
    <2> DEFINE v == ScalarAll(k, capped, <<>>, ops)
    <2>1. ScalarAll(k, capped, <<>>, Append(ops, a)) = ScalarMeant(k, capped, v, a)
        BY ScalarLaw
    <2>2. Have(Append(es, f), k) = IF f.key # k \/ f.action = "NoOp" THEN Have(es, k)
                                   ELSE IF f.action = "Reset" THEN <<>> ELSE <<f.value>>
        BY HaveMore
    <2>3. Have(es, k) = v
        BY <1>3 DEF Agree
    <2> HIDE DEF v
    <2>4. Have(Append(es, f), k) = ScalarMeant(k, capped, v, a)
        <3>1. CASE a.key # k
            BY <1>1, <2>2, <2>3, <3>1 DEF ScalarMeant
        <3>2. CASE a.key = k /\ ~Acceptable(<<>>, a)
            <4>1. f.action = "NoOp"
                BY <3>2, StoodFor
            <4> QED BY <2>2, <2>3, <3>2, <4>1 DEF ScalarMeant
        <3>3. CASE a.key = k /\ Acceptable(<<>>, a)
            <4>1. /\ f.action = a.action /\ f.action # "NoOp" /\ a.action \in {"Set", "Reset"}
                  /\ f.value = IF TypeOf(k) = "bool" /\ a.value = <<>> /\ a.action # "Reset"
                               THEN <<"true">> ELSE a.value
                BY <1>3, <3>3, StoodFor
            <4>2. k = "limit" => TypeOf(k) # "bool"
                BY DEF TypeOf
            <4> QED BY <1>1, <2>2, <3>3, <4>1, <4>2 DEF ScalarMeant
        <3> QED BY <3>1, <3>2, <3>3
    <2> QED BY <1>3, <2>1, <2>4 DEF Agree
<1> QED BY <1>2, <1>3

StandsFor(es, ops) ==
    /\ es \in Seq(Entry) /\ ops \in Seq(Ask) /\ Len(es) = Len(ops)
    /\ \A i \in 1 .. Len(es) : Stands(es[i], ops[i])

LEMMA StandingAgrees ==
    ASSUME NEW es, NEW ops, StandsFor(es, ops), NEW k \in Key
    PROVE  Agree(es, ops, FALSE, k)
<1> DEFINE Good(n) == Agree(SubSeq(es, 1, n), SubSeq(ops, 1, n), FALSE, k)
           G == {n \in 0 .. Len(es) : Good(n)}
<1>1. es \in Seq(Entry) /\ ops \in Seq(Ask) /\ Len(es) = Len(ops) /\ Len(es) \in Nat
    BY DEF StandsFor
<1>2. /\ SubSeq(es, 1, 0) = <<>> /\ SubSeq(es, 1, Len(es)) = es
      /\ \A n \in 1 .. Len(es) :
             /\ SubSeq(es, 1, n - 1) \in Seq(Entry) /\ es[n] \in Entry
             /\ SubSeq(es, 1, n) = Append(SubSeq(es, 1, n - 1), es[n])
    BY <1>1, PrefixIs
<1>3. /\ SubSeq(ops, 1, 0) = <<>> /\ SubSeq(ops, 1, Len(ops)) = ops
      /\ \A n \in 1 .. Len(es) :
             /\ SubSeq(ops, 1, n - 1) \in Seq(Ask) /\ ops[n] \in Ask
             /\ SubSeq(ops, 1, n) = Append(SubSeq(ops, 1, n - 1), ops[n])
    BY <1>1, PrefixIs
<1>4. 0 \in G
    <2>1. Good(0)
        BY <1>2, <1>3, AgreeStart
    <2> HIDE DEF Good
    <2> QED BY <1>1, <2>1
<1>5. ASSUME NEW n \in 1 .. Len(es), n - 1 \in G PROVE n \in G
    <2> DEFINE p == SubSeq(es, 1, n - 1)
               q == SubSeq(ops, 1, n - 1)
               f == es[n]
               a == ops[n]
    <2>1. p \in Seq(Entry) /\ q \in Seq(Ask) /\ f \in Entry /\ a \in Ask
        BY <1>2, <1>3
    <2>2. Stands(f, a)
        BY DEF StandsFor
    <2>3. Agree(p, q, FALSE, k)
        BY <1>5
    <2> HIDE DEF p, q, f, a
    <2>4. Agree(Append(p, f), Append(q, a), FALSE, k)
        BY <2>1, <2>2, <2>3, AgreeMore
    <2>5. Good(n)
        BY <1>2, <1>3, <2>4 DEF p, q, f, a
    <2> HIDE DEF Good
    <2> QED BY <1>1, <2>5
<1> HIDE DEF G
<1>6. Len(es) \in G
    <2>1. \A i \in 0 .. Len(es) : i \in G
        BY <1>1, <1>4, <1>5, GoesOn
    <2> QED BY <1>1, <2>1
<1> QED BY <1>1, <1>2, <1>3, <1>6 DEF G

LEMMA CappedIs ==
    ASSUME NEW ops \in Seq(Ask), NEW k \in Key, TypeOf(k) # "list"
    PROVE  LET v == ScalarAll(k, FALSE, <<>>, ops)
           IN  ScalarAll(k, TRUE, <<>>, ops) = IF k = "limit" /\ v = <<OverLimit>> THEN <<<<"8">>>> ELSE v
<1> DEFINE Cap(v) == IF k = "limit" /\ v = <<OverLimit>> THEN <<<<"8">>>> ELSE v
           Good(n) == ScalarAll(k, TRUE, <<>>, SubSeq(ops, 1, n)) = Cap(ScalarAll(k, FALSE, <<>>, SubSeq(ops, 1, n)))
           G == {n \in 0 .. Len(ops) : Good(n)}
<1>1. /\ SubSeq(ops, 1, 0) = <<>> /\ SubSeq(ops, 1, Len(ops)) = ops /\ Len(ops) \in Nat
      /\ \A n \in 1 .. Len(ops) :
             /\ SubSeq(ops, 1, n - 1) \in Seq(Ask) /\ ops[n] \in Ask
             /\ SubSeq(ops, 1, n) = Append(SubSeq(ops, 1, n - 1), ops[n])
    BY PrefixIs
<1>2. 0 \in G
    <2>1. Good(0)
        <3>1. \A x : <<>> # <<x>>
            OBVIOUS
        <3>2. ScalarAll(k, TRUE, <<>>, <<>>) = <<>> /\ ScalarAll(k, FALSE, <<>>, <<>>) = <<>>
            BY NothingAsked
        <3> QED BY <1>1, <3>1, <3>2
    <2> HIDE DEF Good
    <2> QED BY <1>1, <2>1
<1>3. ASSUME NEW n \in 1 .. Len(ops), n - 1 \in G PROVE n \in G
    <2> DEFINE p == SubSeq(ops, 1, n - 1)
               a == ops[n]
               v == ScalarAll(k, FALSE, <<>>, p)
    <2>1. p \in Seq(Ask) /\ a \in Ask /\ SubSeq(ops, 1, n) = Append(p, a)
        BY <1>1
    <2>2. ScalarAll(k, TRUE, <<>>, p) = Cap(v)
        BY <1>3
    <2> HIDE DEF p, a
    <2>3. /\ ScalarAll(k, TRUE, <<>>, Append(p, a)) = ScalarMeant(k, TRUE, Cap(v), a)
          /\ ScalarAll(k, FALSE, <<>>, Append(p, a)) = ScalarMeant(k, FALSE, v, a)
        <3>0. \A c : ScalarAll(k, c, <<>>, Append(p, a)) = ScalarMeant(k, c, ScalarAll(k, c, <<>>, p), a)
            BY <2>1, ScalarLaw
        <3>1. ScalarAll(k, TRUE, <<>>, Append(p, a)) = ScalarMeant(k, TRUE, ScalarAll(k, TRUE, <<>>, p), a)
            BY <3>0
        <3>2. ScalarAll(k, FALSE, <<>>, Append(p, a)) = ScalarMeant(k, FALSE, ScalarAll(k, FALSE, <<>>, p), a)
            BY <3>0
        <3> QED BY <2>2, <3>1, <3>2
    <2> HIDE DEF v
    <2>4. ScalarMeant(k, TRUE, Cap(v), a) = Cap(ScalarMeant(k, FALSE, v, a))
        <3>1. CASE a.key # k \/ ~Acceptable(<<>>, a)
            BY <3>1 DEF ScalarMeant
        <3>2. CASE ~(a.key # k \/ ~Acceptable(<<>>, a)) /\ a.action = "Reset"
            <4>1. \A x : <<>> # <<x>>
                OBVIOUS
            <4> QED BY <3>2, <4>1 DEF ScalarMeant
        <3>3. CASE ~(a.key # k \/ ~Acceptable(<<>>, a)) /\ a.action # "Reset"
            <4>1. TypeOf("limit") # "bool"
                BY DEF TypeOf
            <4>2. \A x, y : <<x>> = <<y>> => x = y
                OBVIOUS
            <4>3. <<<<"true">>>> # <<OverLimit>>
                BY DEF OverLimit
            <4> QED BY <3>3, <4>1, <4>2, <4>3 DEF ScalarMeant
        <3> QED BY <3>1, <3>2, <3>3
    <2>5. Good(n)
        BY <2>1, <2>3, <2>4
    <2> HIDE DEF Good
    <2> QED BY <1>1, <2>5
<1> HIDE DEF G
<1>4. Len(ops) \in G
    <2>1. \A i \in 0 .. Len(ops) : i \in G
        BY <1>1, <1>2, <1>3, GoesOn
    <2> QED BY <1>1, <2>1
<1> QED BY <1>1, <1>4 DEF G

LEMMA RetrieveIs ==
    ASSUME NEW es \in Seq(Entry), NEW k
    PROVE  retrieve_any(es, k) = IF TypeOf(k) = "list" THEN ListOf(es, k)
                                 ELSE IF Have(es, k) = <<>> THEN get_default(es, k) ELSE Have(es, k)[1]
BY LookedUp, ListIs DEF retrieve_any

LEMMA MeaningIs ==
    ASSUME NEW ops, NEW k, NEW d
    PROVE  Meaning(ops, k, d) =
              IF TypeOf(k) = "list" THEN MeantAll(k, <<Default(k)>>, ops)
              ELSE LET v == ScalarAll(k, told # NoTold, <<>>, ops) IN IF v = <<>> THEN d ELSE v[1]
BY DEF Meaning, ScalarAll, MeantAll

LEMMA MistakenIs == \A k : Mistaken(k) <=> TypeOf(k) = "list" /\ Mis(cfg.entries, k)
BY DEF Mistaken, Mis, ListStart, From

LEMMA Decided ==
    ASSUME cfg.entries \in Seq(Entry), \A k \in Key : Agree(cfg.entries, asked, told # NoTold, k)
    PROVE  LayersDecide
<1> SUFFICES ASSUME NEW k \in Key, ~Mistaken(k)
             PROVE  retrieve_any(cfg.entries, k) = Meaning(asked, k, get_default(cfg.entries, k))
    BY DEF LayersDecide, Trusted
<1>1. Agree(cfg.entries, asked, told # NoTold, k)
    OBVIOUS
<1> QED BY <1>1, RetrieveIs, MeaningIs, MistakenIs DEF Agree

LEMMA InsertIs ==
    ASSUME NEW V, NEW F \in Seq(V), NEW B \in Seq(V), NEW e \in V
    PROVE  InsertAt(F \o B, Len(F) + 1, e) = Append(F, e) \o B
<1>1. /\ Len(F) \in Nat /\ Len(B) \in Nat /\ F \o B \in Seq(V) /\ Len(F \o B) = Len(F) + Len(B)
      /\ \A i \in 1 .. Len(F) : (F \o B)[i] = F[i]
      /\ \A i \in 1 .. Len(B) : (F \o B)[Len(F) + i] = B[i]
    OBVIOUS
<1>2. SubSeq(F \o B, 1, (Len(F) + 1) - 1) = F
    <2> DEFINE s == SubSeq(F \o B, 1, Len(F))
    <2>1. s \in Seq(V) /\ Len(s) = Len(F) /\ \A i \in 1 .. Len(F) : s[i] = (F \o B)[i]
        BY <1>1
    <2>2. s = F
        <3> HIDE DEF s
        <3> QED BY <1>1, <2>1, SameSeq
    <2> QED BY <1>1, <2>2
<1>3. SubSeq(F \o B, Len(F) + 1, Len(F \o B)) = B
    <2> DEFINE s == SubSeq(F \o B, Len(F) + 1, Len(F) + Len(B))
    <2>1. s \in Seq(V) /\ Len(s) = Len(B) /\ \A i \in 1 .. Len(B) : s[i] = (F \o B)[Len(F) + i]
        BY <1>1
    <2>2. s = B
        <3> HIDE DEF s
        <3> QED BY <1>1, <2>1, SameSeq
    <2> QED BY <1>1, <2>2
<1>4. F \o <<e>> = Append(F, e)
    OBVIOUS
<1> QED BY <1>2, <1>3, <1>4 DEF InsertAt

-----------------------------------------------------------------------------
(* What is put in: F is before the insertion point and B behind it.        *)

At(c, F, B) ==
    /\ c = [entries |-> F \o B, ip |-> Len(F), committed |-> c.committed]
    /\ c.committed \in BOOLEAN /\ F \in Seq(Entry) /\ B \in Seq(Entry)
MadeOf(F, ops) ==
    /\ F \in Seq(Entry) /\ ops \in Seq(Ask) /\ Len(F) = Len(ops)
    /\ \A i \in 1 .. Len(F) : F[i] = ops[i] \/ F[i] = Ch(ops[i])

LEMMA AskIsEntry == \A a \in Ask : a \in Entry /\ Ch(a) \in Entry
BY CheckedIs DEF Ask, Entry

LEMMA InsertPut ==
    ASSUME NEW c, NEW F, NEW B, At(c, F, B), NEW e \in Entry
    PROVE  At(Insert(c, e), Append(F, e), B) /\ Insert(c, e).committed = c.committed
<1>1. F \in Seq(Entry) /\ B \in Seq(Entry) /\ c.committed \in BOOLEAN
      /\ c = [entries |-> F \o B, ip |-> Len(F), committed |-> c.committed]
    BY DEF At
<1>2. InsertAt(F \o B, Len(F) + 1, e) = Append(F, e) \o B
    BY <1>1, InsertIs
<1>3. Append(F, e) \in Seq(Entry) /\ Len(Append(F, e)) = Len(F) + 1
    BY <1>1
<1> DEFINE m == c.committed
<1> HIDE DEF m
<1>4. c = [entries |-> F \o B, ip |-> Len(F), committed |-> m]
    BY <1>1 DEF m
<1>5. Insert(c, e) = [entries |-> Append(F, e) \o B, ip |-> Len(F) + 1, committed |-> m]
    <2>1. c.entries = F \o B /\ c.ip = Len(F)
        BY <1>4
    <2>2. Insert(c, e) = [c EXCEPT !.entries = InsertAt(c.entries, c.ip + 1, e), !.ip = c.ip + 1]
        BY DEF Insert
    <2>3. Insert(c, e) = [c EXCEPT !.entries = Append(F, e) \o B, !.ip = Len(F) + 1]
        BY <1>2, <2>1, <2>2
    <2> QED BY <1>4, <2>3
<1> QED BY <1>1, <1>3, <1>5 DEF At, m

LEMMA MadeMore ==
    ASSUME NEW F, NEW ops, MadeOf(F, ops), NEW a \in Ask, NEW f, f = a \/ f = Ch(a)
    PROVE  MadeOf(Append(F, f), Append(ops, a))
<1>1. F \in Seq(Entry) /\ ops \in Seq(Ask) /\ Len(F) = Len(ops) /\ Len(F) \in Nat /\ f \in Entry
    BY AskIsEntry DEF MadeOf
<1>2. /\ Append(F, f) \in Seq(Entry) /\ Append(ops, a) \in Seq(Ask)
      /\ Len(Append(F, f)) = Len(F) + 1 /\ Len(Append(ops, a)) = Len(F) + 1
      /\ Append(F, f)[Len(F) + 1] = f /\ Append(ops, a)[Len(F) + 1] = a
      /\ \A i \in 1 .. Len(F) : Append(F, f)[i] = F[i] /\ Append(ops, a)[i] = ops[i]
    BY <1>1
<1>3. \A i \in 1 .. Len(F) + 1 : i \in 1 .. Len(F) \/ i = Len(F) + 1
    BY <1>1
<1> QED BY <1>1, <1>2, <1>3 DEF MadeOf

LEMMA MadeBoth ==
    ASSUME NEW F, NEW a, MadeOf(F, a), NEW B, NEW b, MadeOf(B, b)
    PROVE  MadeOf(F \o B, a \o b)
<1>1. /\ F \in Seq(Entry) /\ a \in Seq(Ask) /\ Len(F) = Len(a) /\ Len(F) \in Nat
      /\ B \in Seq(Entry) /\ b \in Seq(Ask) /\ Len(B) = Len(b) /\ Len(B) \in Nat
    BY DEF MadeOf
<1>2. /\ F \o B \in Seq(Entry) /\ Len(F \o B) = Len(F) + Len(B)
      /\ \A i \in 1 .. Len(F) + Len(B) : (F \o B)[i] = IF i <= Len(F) THEN F[i] ELSE B[i - Len(F)]
    BY <1>1
<1>3. /\ a \o b \in Seq(Ask) /\ Len(a \o b) = Len(F) + Len(B)
      /\ \A i \in 1 .. Len(F) + Len(B) : (a \o b)[i] = IF i <= Len(F) THEN a[i] ELSE b[i - Len(F)]
    BY <1>1
<1>4. ASSUME NEW i \in 1 .. Len(F) + Len(B)
      PROVE  (F \o B)[i] = (a \o b)[i] \/ (F \o B)[i] = Ch((a \o b)[i])
    <2>1. CASE i <= Len(F)
        <3>1. i \in 1 .. Len(F)
            BY <1>1, <2>1
        <3> QED BY <1>2, <1>3, <2>1, <3>1 DEF MadeOf
    <2>2. CASE ~(i <= Len(F))
        <3>1. i - Len(F) \in 1 .. Len(B)
            BY <1>1, <2>2
        <3> QED BY <1>2, <1>3, <2>2, <3>1 DEF MadeOf
    <2> QED BY <2>1, <2>2
<1> QED BY <1>1, <1>2, <1>3, <1>4 DEF MadeOf

LEMMA PutMade ==
    ASSUME NEW c, NEW F, NEW B, At(c, F, B), NEW ops, MadeOf(F, ops), NEW a \in Ask
    PROVE  \E G : At(Put(c, a), G, B) /\ MadeOf(G, Append(ops, a)) /\ Put(c, a).committed = c.committed
<1>1. a \in Entry /\ Ch(a) \in Entry /\ Checked(c.entries, a) = Ch(a)
    BY AskIsEntry, AcceptedAnywhere
<1>2. PICK f \in {a, Ch(a)} : Put(c, a) = Insert(c, f)
    BY <1>1 DEF Put
<1>3. f \in Entry
    BY <1>1
<1>4. At(Put(c, a), Append(F, f), B) /\ Put(c, a).committed = c.committed
    BY <1>2, <1>3, InsertPut
<1>5. MadeOf(Append(F, f), Append(ops, a))
    BY MadeMore
<1> QED BY <1>4, <1>5

LEMMA AppendLater ==
    ASSUME NEW V, NEW r \in Seq(V), NEW s \in Seq(V), NEW x \in V, NEW y, y = Append(s, x)
    PROVE  Append(r \o s, x) = r \o y
<1>1. /\ Len(r) \in Nat /\ Len(s) \in Nat /\ r \o s \in Seq(V) /\ Len(r \o s) = Len(r) + Len(s)
      /\ \A i \in 1 .. Len(r) + Len(s) : (r \o s)[i] = IF i <= Len(r) THEN r[i] ELSE s[i - Len(r)]
    OBVIOUS
<1>2. /\ y \in Seq(V) /\ Len(y) = Len(s) + 1 /\ y[Len(s) + 1] = x
      /\ \A i \in 1 .. Len(s) : y[i] = s[i]
    OBVIOUS
<1>3. /\ r \o y \in Seq(V) /\ Len(r \o y) = Len(r) + Len(s) + 1
      /\ \A i \in 1 .. Len(r) + Len(s) + 1 : (r \o y)[i] = IF i <= Len(r) THEN r[i] ELSE y[i - Len(r)]
    BY <1>1, <1>2
<1> DEFINE q == r \o s
           l == Append(q, x)
           m == r \o y
<1>4. /\ l \in Seq(V) /\ Len(l) = Len(r) + Len(s) + 1 /\ l[Len(r) + Len(s) + 1] = x
      /\ \A i \in 1 .. Len(r) + Len(s) : l[i] = q[i]
    <2>1. q \in Seq(V) /\ Len(q) = Len(r) + Len(s)
        BY <1>1
    <2> HIDE DEF q
    <2> QED BY <1>1, <2>1
<1>5. \A i \in 1 .. Len(r) + Len(s) : q[i] = IF i <= Len(r) THEN r[i] ELSE s[i - Len(r)]
    BY <1>1
<1>6. /\ m \in Seq(V) /\ Len(m) = Len(r) + Len(s) + 1
      /\ \A i \in 1 .. Len(r) + Len(s) + 1 : m[i] = IF i <= Len(r) THEN r[i] ELSE y[i - Len(r)]
    BY <1>3
<1> HIDE DEF l, m, q
<1>7. \A i \in 1 .. Len(l) : l[i] = m[i]
    <2> SUFFICES ASSUME NEW i \in 1 .. Len(r) + Len(s) + 1 PROVE l[i] = m[i]
        BY <1>4
    <2>1. CASE i <= Len(r)
        <3>1. i \in 1 .. Len(r) + Len(s)
            BY <1>1, <2>1
        <3> QED BY <1>4, <1>5, <1>6, <2>1, <3>1
    <2>2. CASE ~(i <= Len(r)) /\ i # Len(r) + Len(s) + 1
        <3>1. i \in 1 .. Len(r) + Len(s) /\ i - Len(r) \in 1 .. Len(s)
            <4>1. Len(r) \in Nat /\ Len(s) \in Nat
                BY <1>1
            <4> QED BY <4>1, <2>2
        <3> QED BY <1>2, <1>4, <1>5, <1>6, <2>2, <3>1
    <2>3. CASE i = Len(r) + Len(s) + 1
        <3>1. ~(i <= Len(r)) /\ i - Len(r) = Len(s) + 1
            BY <1>1, <2>3
        <3> QED BY <1>2, <1>4, <1>6, <2>3, <3>1
    <2> QED BY <2>1, <2>2, <2>3
<1>8. l = m
    BY <1>4, <1>6, <1>7, SameSeq
<1> QED BY <1>8 DEF l, m, q

LEMMA PutsMade ==
    ASSUME NEW c, NEW F, NEW B, At(c, F, B), NEW ops, MadeOf(F, ops), NEW s \in Seq(Ask)
    PROVE  \E G : At(PutAll(c, s), G, B) /\ MadeOf(G, ops \o s) /\ PutAll(c, s).committed = c.committed
<1> DEFINE Good(n) == \E G : /\ At(PutAll(c, SubSeq(s, 1, n)), G, B) /\ MadeOf(G, ops \o SubSeq(s, 1, n))
                             /\ PutAll(c, SubSeq(s, 1, n)).committed = c.committed
           N == {n \in 0 .. Len(s) : Good(n)}
<1>1. /\ SubSeq(s, 1, 0) = <<>> /\ SubSeq(s, 1, Len(s)) = s /\ Len(s) \in Nat
      /\ \A n \in 1 .. Len(s) :
             /\ SubSeq(s, 1, n - 1) \in Seq(Ask) /\ s[n] \in Ask
             /\ SubSeq(s, 1, n) = Append(SubSeq(s, 1, n - 1), s[n])
    BY PrefixIs
<1>2. ops \in Seq(Ask)
    BY DEF MadeOf
<1>3. Good(0)
    <2>1. PutAll(c, <<>>) = c
        <3>1. <<>> \in Seq(Ask)
            OBVIOUS
        <3>2. Ends(<<"put">>, c, <<>>, PutAll(c, <<>>))
            BY <3>1, PutFold
        <3> QED BY <3>2, NoRun
    <2>2. ops \o <<>> = ops
        BY <1>2
    <2> QED BY <1>1, <2>1, <2>2
<1>4. ASSUME NEW n \in 1 .. Len(s), n - 1 \in N PROVE n \in N
    <2> DEFINE p == SubSeq(s, 1, n - 1)
               a == s[n]
               d == PutAll(c, p)
    <2>1. p \in Seq(Ask) /\ a \in Ask /\ SubSeq(s, 1, n) = Append(p, a)
        BY <1>1
    <2>2. PICK G : At(d, G, B) /\ MadeOf(G, ops \o p) /\ d.committed = c.committed
        BY <1>4
    <2> HIDE DEF p, a
    <2>3. PutAll(c, Append(p, a)) = Put(d, a)
        BY <2>1, PutLaw
    <2> HIDE DEF d
    <2>4. PICK H : At(Put(d, a), H, B) /\ MadeOf(H, Append(ops \o p, a)) /\ Put(d, a).committed = d.committed
        BY <2>1, <2>2, PutMade
    <2>5. Append(ops \o p, a) = ops \o Append(p, a)
        <3> DEFINE y == Append(p, a)
        <3>1. p \in Seq(Ask) /\ a \in Ask /\ y = Append(p, a)
            BY <2>1
        <3> HIDE DEF y
        <3>2. Append(ops \o p, a) = ops \o y
            BY <1>2, <3>1, AppendLater
        <3> QED BY <3>1, <3>2
    <2>6. Good(n)
        BY <2>1, <2>2, <2>3, <2>4, <2>5
    <2> HIDE DEF Good
    <2> QED BY <1>1, <2>6
<1> HIDE DEF Good
<1>5. Len(s) \in N
    <2>1. 0 \in N
        BY <1>1, <1>3
    <2> HIDE DEF N
    <2>2. \A i \in 0 .. Len(s) : i \in N
        BY <1>1, <1>4, <2>1, GoesOn
    <2> QED BY <1>1, <2>2
<1>6. Good(Len(s))
    BY <1>5
<1> QED BY <1>1, <1>6 DEF Good

LEMMA SetMade ==
    ASSUME NEW c, NEW F, NEW B, At(c, F, B), NEW ops, MadeOf(F, ops), NEW e \in Written
    PROVE  \E G : At(set(c, e), G, B) /\ MadeOf(G, ops \o Steps(e)) /\ set(c, e).committed = c.committed
<1>1. set(c, e) = PutAll(c, Steps(e))
    BY DEF set, PutAll
<1> QED BY <1>1, StepsAre, PutsMade

LEMMA SetsMade ==
    ASSUME NEW c, NEW B, At(c, <<>>, B), NEW s \in Seq(Written)
    PROVE  \E G : At(SetAll(c, s), G, B) /\ MadeOf(G, AllSteps(s)) /\ SetAll(c, s).committed = c.committed
<1> DEFINE Good(n) == \E G : /\ At(SetAll(c, SubSeq(s, 1, n)), G, B) /\ MadeOf(G, AllSteps(SubSeq(s, 1, n)))
                             /\ SetAll(c, SubSeq(s, 1, n)).committed = c.committed
           N == {n \in 0 .. Len(s) : Good(n)}
<1>1. /\ SubSeq(s, 1, 0) = <<>> /\ SubSeq(s, 1, Len(s)) = s /\ Len(s) \in Nat
      /\ \A n \in 1 .. Len(s) :
             /\ SubSeq(s, 1, n - 1) \in Seq(Written) /\ s[n] \in Written
             /\ SubSeq(s, 1, n) = Append(SubSeq(s, 1, n - 1), s[n])
    BY PrefixIs
<1>2. \A p : AllSteps(p) = StepsAll(<<>>, p)
    BY DEF AllSteps, StepsAll
<1>3. Good(0)
    <2>0. <<>> \in Seq(Written) /\ <<>> \in Seq(Ask) /\ <<>> \in Seq(Entry) /\ Len(<<>>) = 0 /\ 1 .. 0 = {}
        OBVIOUS
    <2>1. SetAll(c, <<>>) = c
        <3>2. Ends(<<"set">>, c, <<>>, SetAll(c, <<>>))
            BY <2>0, SetFold
        <3> QED BY <3>2, NoRun
    <2>2. AllSteps(<<>>) = <<>>
        <3>2. Ends(<<"steps">>, <<>>, <<>>, StepsAll(<<>>, <<>>))
            BY <2>0, StepsFold
        <3> QED BY <1>2, <3>2, NoRun
    <2>3. MadeOf(<<>>, <<>>)
        BY <2>0 DEF MadeOf
    <2> QED BY <1>1, <2>1, <2>2, <2>3
<1>4. ASSUME NEW n \in 1 .. Len(s), n - 1 \in N PROVE n \in N
    <2> DEFINE p == SubSeq(s, 1, n - 1)
               a == s[n]
               d == SetAll(c, p)
    <2>1. p \in Seq(Written) /\ a \in Written /\ SubSeq(s, 1, n) = Append(p, a)
        BY <1>1
    <2>2. PICK G : At(d, G, B) /\ MadeOf(G, AllSteps(p)) /\ d.committed = c.committed
        BY <1>4
    <2> HIDE DEF p, a
    <2>3. SetAll(c, Append(p, a)) = set(d, a)
        BY <2>1, SetLaw
    <2>4. AllSteps(Append(p, a)) = AllSteps(p) \o Steps(a)
        BY <1>2, <2>1, StepsLaw
    <2> HIDE DEF d
    <2>5. PICK H : At(set(d, a), H, B) /\ MadeOf(H, AllSteps(p) \o Steps(a)) /\ set(d, a).committed = d.committed
        BY <2>1, <2>2, SetMade
    <2>6. Good(n)
        BY <2>1, <2>2, <2>3, <2>4, <2>5
    <2> HIDE DEF Good
    <2> QED BY <1>1, <2>6
<1> HIDE DEF Good
<1>5. Len(s) \in N
    <2>1. 0 \in N
        BY <1>1, <1>3
    <2> HIDE DEF N
    <2>2. \A i \in 0 .. Len(s) : i \in N
        BY <1>1, <1>4, <2>1, GoesOn
    <2> QED BY <1>1, <2>2
<1>6. Good(Len(s))
    BY <1>5
<1> QED BY <1>1, <1>6 DEF Good

(* One source, in front of all that was there.                             *)
LEMMA ReadMade ==
    ASSUME NEW c, NEW B, NEW ops, c.entries = B, MadeOf(B, ops), c.committed \in BOOLEAN,
           c = [entries |-> c.entries, ip |-> c.ip, committed |-> c.committed],
           NEW s \in Seq(Written)
    PROVE  LET r == read_in(c, s)
           IN  /\ r = [entries |-> r.entries, ip |-> r.ip, committed |-> c.committed]
               /\ MadeOf(r.entries, AllSteps(s) \o ops)
<1> DEFINE m == c.committed
           d == [c EXCEPT !.ip = 0]
<1>1. B \in Seq(Entry)
    BY DEF MadeOf
<1>2. <<>> \o B = B /\ Len(<<>>) = 0 /\ <<>> \in Seq(Entry)
    BY <1>1
<1>3. c = [entries |-> B, ip |-> c.ip, committed |-> m] /\ m \in BOOLEAN
    OBVIOUS
<1> HIDE DEF m
<1>4. d = [entries |-> B, ip |-> 0, committed |-> m]
    BY <1>3
<1>5. At(d, <<>>, B) /\ d.committed = m
    BY <1>1, <1>2, <1>3, <1>4 DEF At
<1>6. read_in(c, s) = SetAll(d, s)
    BY DEF read_in, SetAll
<1> HIDE DEF d
<1>7. PICK G : At(SetAll(d, s), G, B) /\ MadeOf(G, AllSteps(s)) /\ SetAll(d, s).committed = m
    BY <1>5, SetsMade
<1>8. SetAll(d, s) = [entries |-> G \o B, ip |-> Len(G), committed |-> m]
    BY <1>7 DEF At
<1>9. MadeOf(G \o B, AllSteps(s) \o ops)
    BY <1>7, MadeBoth
<1> QED BY <1>6, <1>8, <1>9 DEF m

-----------------------------------------------------------------------------
(* Commitment.                                                             *)

SaneSeq(es) == es \in Seq(Entry) /\ \A i \in 1 .. Len(es) : Sane(es[i])

LEMMA AgainIs ==
    ASSUME NEW s \in Seq(Entry)
    PROVE  LET es == AgainAll(<<>>, s)
           IN  es \in Seq(Entry) /\ Len(es) = Len(s) /\ \A i \in 1 .. Len(s) : es[i] = Ch(s[i])
<1> DEFINE Done(n) == AgainAll(<<>>, SubSeq(s, 1, n))
           Good(n) == /\ Done(n) \in Seq(Entry) /\ Len(Done(n)) = n
                      /\ \A i \in 1 .. n : Done(n)[i] = Ch(s[i])
           N == {n \in 0 .. Len(s) : Good(n)}
<1>1. /\ SubSeq(s, 1, 0) = <<>> /\ SubSeq(s, 1, Len(s)) = s /\ Len(s) \in Nat
      /\ \A n \in 1 .. Len(s) :
             /\ SubSeq(s, 1, n - 1) \in Seq(Entry) /\ s[n] \in Entry
             /\ SubSeq(s, 1, n) = Append(SubSeq(s, 1, n - 1), s[n])
    BY PrefixIs
<1>2. Good(0)
    <2>1. Done(0) = <<>>
        <3>1. <<>> \in Seq(Entry)
            OBVIOUS
        <3>2. Ends(<<"again">>, <<>>, <<>>, AgainAll(<<>>, <<>>))
            BY <3>1, AgainFold
        <3> QED BY <1>1, <3>2, NoRun
    <2>2. <<>> \in Seq(Entry) /\ Len(<<>>) = 0 /\ 1 .. 0 = {}
        OBVIOUS
    <2> HIDE DEF Done
    <2> QED BY <2>1, <2>2
<1>3. ASSUME NEW n \in 1 .. Len(s), n - 1 \in N PROVE n \in N
    <2> DEFINE p == SubSeq(s, 1, n - 1)
               a == s[n]
               d == Done(n - 1)
    <2>1. p \in Seq(Entry) /\ a \in Entry /\ SubSeq(s, 1, n) = Append(p, a)
        BY <1>1
    <2>2. d \in Seq(Entry) /\ Len(d) = n - 1 /\ \A i \in 1 .. n - 1 : d[i] = Ch(s[i])
        BY <1>3
    <2>3. d = AgainAll(<<>>, p) /\ Done(n) = AgainAll(<<>>, Append(p, a))
        BY <2>1
    <2>0. a = s[n]
        OBVIOUS
    <2> HIDE DEF p, a, d, Done
    <2>4. Done(n) = Append(d, Checked(d, a))
        BY <2>1, <2>3, AgainLaw
    <2>5. Checked(d, a) = Ch(a) /\ Ch(a) \in Entry
        BY <2>1, AcceptedAnywhere, CheckedIs
    <2>6. /\ Append(d, Ch(a)) \in Seq(Entry) /\ Len(Append(d, Ch(a))) = n
          /\ Append(d, Ch(a))[n] = Ch(a) /\ \A i \in 1 .. n - 1 : Append(d, Ch(a))[i] = d[i]
        <3> DEFINE x == Ch(a)
        <3>1. x \in Entry
            BY <2>5
        <3> HIDE DEF x
        <3>2. /\ Append(d, x) \in Seq(Entry) /\ Len(Append(d, x)) = n
              /\ Append(d, x)[n] = x /\ \A i \in 1 .. n - 1 : Append(d, x)[i] = d[i]
            BY <2>2, <3>1
        <3> QED BY <3>2 DEF x
    <2>7. \A i \in 1 .. n : i \in 1 .. n - 1 \/ i = n
        OBVIOUS
    <2>8. Good(n)
        BY <2>0, <2>2, <2>4, <2>5, <2>6, <2>7
    <2> HIDE DEF Good
    <2> QED BY <1>1, <2>8
<1> HIDE DEF Good
<1>4. Len(s) \in N
    <2>1. 0 \in N
        BY <1>1, <1>2
    <2> HIDE DEF N
    <2>2. \A i \in 0 .. Len(s) : i \in N
        BY <1>1, <1>3, <2>1, GoesOn
    <2> QED BY <1>1, <2>2
<1>5. Good(Len(s))
    BY <1>4
<1> QED BY <1>1, <1>5 DEF Good

LEMMA CommitMade ==
    ASSUME NEW F, NEW ops, MadeOf(F, ops)
    PROVE  StandsFor(AgainAll(<<>>, F), ops) /\ SaneSeq(AgainAll(<<>>, F))
<1> DEFINE es == AgainAll(<<>>, F)
<1>1. F \in Seq(Entry) /\ ops \in Seq(Ask) /\ Len(F) = Len(ops) /\ Len(F) \in Nat
      /\ \A i \in 1 .. Len(F) : F[i] = ops[i] \/ F[i] = Ch(ops[i])
    BY DEF MadeOf
<1>2. es \in Seq(Entry) /\ Len(es) = Len(F) /\ \A i \in 1 .. Len(F) : es[i] = Ch(F[i])
    BY <1>1, AgainIs
<1> HIDE DEF es
<1>3. ASSUME NEW i \in 1 .. Len(F) PROVE Stands(es[i], ops[i]) /\ Sane(es[i])
    <2>1. ops[i] \in Ask /\ (F[i] = ops[i] \/ F[i] = Ch(ops[i])) /\ es[i] = Ch(F[i])
        BY <1>1, <1>2
    <2> QED BY <2>1, StandsAfter
<1>4. StandsFor(es, ops) /\ SaneSeq(es)
    BY <1>1, <1>2, <1>3 DEF StandsFor, SaneSeq
<1> QED BY <1>4 DEF es

LEMMA BothStand ==
    ASSUME NEW F, NEW a, StandsFor(F, a), SaneSeq(F), NEW B, NEW b, StandsFor(B, b), SaneSeq(B)
    PROVE  StandsFor(F \o B, a \o b) /\ SaneSeq(F \o B)
<1>1. /\ F \in Seq(Entry) /\ a \in Seq(Ask) /\ Len(F) = Len(a) /\ Len(F) \in Nat
      /\ B \in Seq(Entry) /\ b \in Seq(Ask) /\ Len(B) = Len(b) /\ Len(B) \in Nat
    BY DEF StandsFor
<1>2. /\ F \o B \in Seq(Entry) /\ Len(F \o B) = Len(F) + Len(B)
      /\ \A i \in 1 .. Len(F) + Len(B) : (F \o B)[i] = IF i <= Len(F) THEN F[i] ELSE B[i - Len(F)]
    BY <1>1
<1>3. /\ a \o b \in Seq(Ask) /\ Len(a \o b) = Len(F) + Len(B)
      /\ \A i \in 1 .. Len(F) + Len(B) : (a \o b)[i] = IF i <= Len(F) THEN a[i] ELSE b[i - Len(F)]
    BY <1>1
<1>4. ASSUME NEW i \in 1 .. Len(F) + Len(B)
      PROVE  Stands((F \o B)[i], (a \o b)[i]) /\ Sane((F \o B)[i])
    <2>1. CASE i <= Len(F)
        <3>1. i \in 1 .. Len(F)
            BY <1>1, <2>1
        <3>2. Stands(F[i], a[i]) /\ Sane(F[i])
            BY <3>1 DEF StandsFor, SaneSeq
        <3>3. (F \o B)[i] = F[i] /\ (a \o b)[i] = a[i]
            BY <1>2, <1>3, <2>1
        <3> QED BY <3>2, <3>3
    <2>2. CASE ~(i <= Len(F))
        <3>1. i - Len(F) \in 1 .. Len(B)
            BY <1>1, <2>2
        <3>2. Stands(B[i - Len(F)], b[i - Len(F)]) /\ Sane(B[i - Len(F)])
            BY <3>1 DEF StandsFor, SaneSeq
        <3>3. (F \o B)[i] = B[i - Len(F)] /\ (a \o b)[i] = b[i - Len(F)]
            BY <1>2, <1>3, <2>2
        <3> QED BY <3>2, <3>3
    <2> QED BY <2>1, <2>2
<1> QED BY <1>1, <1>2, <1>3, <1>4 DEF StandsFor, SaneSeq

(* What a language's own file has to merge needs no commitment.            *)
LEMMA LangStands == StandsFor(LangOps, LangOps) /\ SaneSeq(LangOps)
<1>1. LangOps \in Seq(Written) /\ Len(LangOps) \in Nat
    BY ConfigAssumption
<1>2. ASSUME NEW i \in 1 .. Len(LangOps)
      PROVE  /\ LangOps[i] \in Ask /\ LangOps[i] \in Entry
             /\ Stands(LangOps[i], LangOps[i]) /\ Sane(LangOps[i])
    <2>1. Committed(LangOps[i])
        BY <1>1, ConfigAssumption
    <2>2. LangOps[i] \in Ask /\ LangOps[i] \in Entry
        BY <2>1 DEF Committed, Written, Ask, Entry, Basic
    <2>3. Acceptable(<<>>, LangOps[i]) /\ Ch(LangOps[i]) = LangOps[i]
        BY <2>1 DEF Committed, Ch
    <2> QED BY <2>2, <2>3 DEF Stands, Sane
<1>3. LangOps = [i \in 1 .. Len(LangOps) |-> LangOps[i]]
    BY <1>1
<1>4. LangOps \in Seq(Ask)
    BY <1>1, <1>2, <1>3, FunIsSeq
<1>5. LangOps \in Seq(Entry)
    BY <1>1, <1>2, <1>3, FunIsSeq
<1> QED BY <1>1, <1>2, <1>4, <1>5 DEF StandsFor, SaneSeq

LEMMA SaneMore ==
    ASSUME NEW es, SaneSeq(es), NEW f, Sane(f)
    PROVE  SaneSeq(Append(es, f)) /\ es \in Seq(Entry) /\ f \in Entry
<1>1. es \in Seq(Entry) /\ f \in Entry /\ Len(es) \in Nat
    BY DEF SaneSeq, Sane
<1>2. /\ Append(es, f) \in Seq(Entry) /\ Len(Append(es, f)) = Len(es) + 1
      /\ Append(es, f)[Len(es) + 1] = f /\ \A i \in 1 .. Len(es) : Append(es, f)[i] = es[i]
    BY <1>1
<1>3. \A i \in 1 .. Len(es) + 1 : i \in 1 .. Len(es) \/ i = Len(es) + 1
    BY <1>1
<1> QED BY <1>1, <1>2, <1>3 DEF SaneSeq

(* An entry tells the other keys nothing.                                  *)
LEMMA OtherMore ==
    ASSUME NEW es \in Seq(Entry), NEW f \in Entry, NEW ops, NEW capped,
           NEW k \in Key, f.key # k, Agree(es, ops, capped, k)
    PROVE  Agree(Append(es, f), ops, capped, k)
<1>1. Have(Append(es, f), k) = Have(es, k)
    BY HaveMore
<1>2. TypeOf(k) = "list" /\ ~Mis(Append(es, f), k) =>
          ~Mis(es, k) /\ ListOf(Append(es, f), k) = ListOf(es, k)
    BY ListMore DEF Change
<1> QED BY <1>1, <1>2 DEF Agree

LEMMA OtherAsked ==
    ASSUME NEW es, NEW ops \in Seq(Ask), NEW a \in Ask, NEW capped,
           NEW k \in Key, a.key # k, Agree(es, ops, capped, k)
    PROVE  Agree(es, Append(ops, a), capped, k)
<1>1. ScalarAll(k, capped, <<>>, Append(ops, a)) = ScalarAll(k, capped, <<>>, ops)
    BY ScalarLaw DEF ScalarMeant
<1>2. MeantAll(k, <<Default(k)>>, Append(ops, a)) = MeantAll(k, <<Default(k)>>, ops)
    BY MeantLaw DEF ListMeant
<1> QED BY <1>1, <1>2 DEF Agree

LEMMA SaneValue ==
    ASSUME NEW es, SaneSeq(es), NEW k \in Key, TypeOf(k) # "list", Have(es, k) # <<>>
    PROVE  \E f : /\ Sane(f) /\ f.key = k /\ f.action = "Set" /\ Acceptable(<<>>, f) /\ Ch(f) = f
                  /\ Have(es, k) = <<f.value>>
<1>1. es \in Seq(Entry)
    BY DEF SaneSeq
<1> DEFINE i == lookup(es, k)
<1>2. /\ i \in 1 .. Len(es) /\ es[i] \in Entry /\ es[i].key = k
      /\ es[i].action \notin {"NoOp", "Reset"} /\ Have(es, k) = <<es[i].value>>
    BY <1>1, LookedUp DEF Have
<1> HIDE DEF i
<1>3. Sane(es[i])
    BY <1>2 DEF SaneSeq
<1>4. Acceptable(<<>>, es[i]) /\ Ch(es[i]) = es[i]
    BY <1>2, <1>3 DEF Sane
<1>5. es[i].action = "Set"
    BY <1>2, <1>4 DEF Acceptable, ListAction, Entry, Basic
<1> QED BY <1>2, <1>3, <1>4, <1>5

LEMMA LimitIsNumber ==
    ASSUME NEW es, SaneSeq(es)
    PROVE  /\ IsNumber(retrieve_any(es, "limit"))
           /\ retrieve_any(es, "limit") = OverLimit <=> Have(es, "limit") = <<OverLimit>>
<1>1. es \in Seq(Entry) /\ "limit" \in Key /\ TypeOf("limit") = "int"
    BY DEF SaneSeq, Key, TypeOf
<1>2. retrieve_any(es, "limit") = IF Have(es, "limit") = <<>> THEN get_default(es, "limit") ELSE Have(es, "limit")[1]
    BY <1>1, RetrieveIs
<1>3. get_default(es, "limit") = <<"8">>
    BY DEF get_default, Default
<1>4. CASE Have(es, "limit") = <<>>
    BY <1>2, <1>3, <1>4 DEF IsNumber, OverLimit
<1>5. CASE Have(es, "limit") # <<>>
    <2>1. PICK f : f.key = "limit" /\ f.action = "Set" /\ Acceptable(<<>>, f) /\ Have(es, "limit") = <<f.value>>
        BY <1>1, <1>5, SaneValue
    <2>2. IsNumber(f.value)
        BY <1>1, <2>1 DEF Acceptable
    <2> QED BY <1>2, <1>5, <2>1, <2>2
<1> QED BY <1>4, <1>5

-----------------------------------------------------------------------------
(* After commitment: every entry comes last, and is checked.               *)

Run(c) == c = [entries |-> c.entries, ip |-> Len(c.entries), committed |-> TRUE] /\ SaneSeq(c.entries)

LEMMA PutRun ==
    ASSUME NEW c, Run(c), NEW a \in Ask
    PROVE  LET d == Put(c, a)
               f == Ch(a)
           IN  /\ d.entries = Append(c.entries, f) /\ d.entries[d.ip] = f /\ Run(d)
               /\ f \in Entry /\ Stands(f, a) /\ Sane(f)
<1> DEFINE F == c.entries
           f == Ch(a)
           d == Put(c, a)
<1>1. SaneSeq(F) /\ c = [entries |-> F, ip |-> Len(F), committed |-> TRUE] /\ F \in Seq(Entry)
    BY DEF Run, SaneSeq
<1>2. a \in Entry /\ f \in Entry /\ Stands(f, a) /\ Sane(f)
    <2>1. a \in Entry /\ f \in Entry
        BY AskIsEntry
    <2>2. Ch(f) = f \/ f.action = "NoOp"
        BY <2>1, CheckedIs
    <2> QED BY <2>1, StandsAfter
<1>3. Checked(F, a) = f
    BY <1>2, AcceptedAnywhere
<1>4. d = Insert(c, f)
    <2>1. c.committed = TRUE /\ c.entries = F
        BY <1>1
    <2> HIDE DEF f
    <2> QED BY <1>3, <2>1 DEF Put
<1> HIDE DEF F, f, d
<1>5. F \o <<>> = F /\ <<>> \in Seq(Entry)
    BY <1>1
<1>6. At(c, F, <<>>) /\ c.committed = TRUE
    BY <1>1, <1>5 DEF At
<1>7. At(Insert(c, f), Append(F, f), <<>>) /\ Insert(c, f).committed = TRUE
    BY <1>2, <1>6, InsertPut
<1>8. Append(F, f) \o <<>> = Append(F, f) /\ Len(Append(F, f)) = Len(F) + 1 /\ Append(F, f)[Len(F) + 1] = f
    <2>1. Append(F, f) \in Seq(Entry) /\ Len(Append(F, f)) = Len(F) + 1 /\ Append(F, f)[Len(F) + 1] = f
        BY <1>1, <1>2
    <2> DEFINE G == Append(F, f)
    <2> HIDE DEF G
    <2>2. G \in Seq(Entry) => G \o <<>> = G
        OBVIOUS
    <2> QED BY <2>1, <2>2 DEF G
<1>9. d = [entries |-> Append(F, f), ip |-> Len(F) + 1, committed |-> TRUE]
    BY <1>4, <1>7, <1>8 DEF At
<1>10. SaneSeq(Append(F, f))
    BY <1>1, <1>2, SaneMore
<1>11. Run(d)
    BY <1>8, <1>9, <1>10 DEF Run
<1> QED BY <1>2, <1>8, <1>9, <1>11 DEF F, f, d

LEMMA LimitedIs ==
    /\ Limited \in Ask /\ Limited \in Entry /\ Acceptable(<<>>, Limited) /\ Ch(Limited) = Limited
    /\ Limited.key = "limit" /\ Limited.action = "Set" /\ Limited.value = <<"8">>
<1>1. "limit" \in STRING /\ "8" \in STRING /\ "limit" \in Key
    BY ConfigAssumption DEF Key
<1>2. <<"8">> \in Seq(STRING)
    BY <1>1, OneIsSeq
<1>3. Limited \in Ask /\ Limited \in Entry
    BY <1>1, <1>2 DEF Limited, Ask, Entry, Basic
<1>4. Limited.key = "limit" /\ Limited.action = "Set" /\ Limited.value = <<"8">>
    BY DEF Limited
<1>5. Acceptable(<<>>, Limited)
    BY <1>1, <1>4 DEF Acceptable, TypeOf, IsNumber, ListAction
<1>6. Ch(Limited) = Limited
    BY <1>4, <1>5 DEF Ch, Checked, TypeOf
<1> QED BY <1>3, <1>4, <1>5, <1>6

(* From here on too large a limit is lowered.                              *)
LEMMA CapAgrees ==
    ASSUME NEW es, SaneSeq(es), NEW ops \in Seq(Ask), NEW k \in Key, Agree(es, ops, FALSE, k)
    PROVE  Agree(IF retrieve_any(es, "limit") = OverLimit THEN Append(es, Limited) ELSE es, ops, TRUE, k)
<1>1. es \in Seq(Entry)
    BY DEF SaneSeq
<1>2. retrieve_any(es, "limit") = OverLimit <=> Have(es, "limit") = <<OverLimit>>
    BY LimitIsNumber
<1>3. CASE TypeOf(k) = "list"
    <2>1. Agree(es, ops, TRUE, k)
        BY <1>3 DEF Agree
    <2>2. k # "limit"
        BY <1>3 DEF TypeOf
    <2> QED BY <1>1, <2>1, <2>2, OtherMore, LimitedIs
<1>4. CASE TypeOf(k) # "list" /\ k # "limit"
    <2>1. Agree(es, ops, TRUE, k)
        BY <1>4, CappedIs DEF Agree
    <2> QED BY <1>1, <1>4, <2>1, OtherMore, LimitedIs
<1>5. CASE TypeOf(k) # "list" /\ k = "limit"
    <2>1. Have(es, k) = ScalarAll(k, FALSE, <<>>, ops)
        BY <1>5 DEF Agree
    <2>2. ScalarAll(k, TRUE, <<>>, ops) = IF Have(es, k) = <<OverLimit>> THEN <<<<"8">>>> ELSE Have(es, k)
        BY <1>5, <2>1, CappedIs
    <2>3. Have(Append(es, Limited), k) = <<<<"8">>>>
        BY <1>1, <1>5, LimitedIs, HaveMore
    <2> QED BY <1>2, <1>5, <2>2, <2>3 DEF Agree
<1> QED BY <1>3, <1>4, <1>5

-----------------------------------------------------------------------------
(* The notifier.                                                           *)

Hears(es, t, k) == t[k] = retrieve_any(es, k) \/ Unwelcome(k, retrieve_any(es, k))
Heeds(es, t) ==
    \A k \in Key \ {"pws"} : ~(TypeOf(k) = "list" /\ Mis(es, k)) => Hears(es, t, k)
Attached(s, ops) ==
    /\ s = [cfg |-> s.cfg, told |-> s.told] /\ Run(s.cfg) /\ ops \in Seq(Ask)
    /\ s.told = [k \in Key |-> s.told[k]]
    /\ \A k \in Key : Agree(s.cfg.entries, ops, TRUE, k)
    /\ Heeds(s.cfg.entries, s.told)

LEMMA RetrieveMore ==
    ASSUME NEW es \in Seq(Entry), NEW f \in Entry, NEW k \in Key \ {"pws"},
           ~(TypeOf(k) = "list" /\ Mis(Append(es, f), k))
    PROVE  /\ f.key # k \/ f.action = "NoOp" =>
                 ~(TypeOf(k) = "list" /\ Mis(es, k)) /\ retrieve_any(Append(es, f), k) = retrieve_any(es, k)
           /\ f.key = k /\ f.action # "NoOp" => retrieve_any(Append(es, f), k) = Heard(Append(es, f), f)
<1> DEFINE t == Append(es, f)
<1>1. t \in Seq(Entry) /\ k \in Key
    OBVIOUS
<1>2. get_default(t, k) = get_default(es, k)
    BY DEF get_default
<1>3. Have(t, k) = IF f.key # k \/ f.action = "NoOp" THEN Have(es, k)
                   ELSE IF f.action = "Reset" THEN <<>> ELSE <<f.value>>
    BY HaveMore
<1>4. TypeOf(k) = "list" /\ (f.key # k \/ f.action = "NoOp") => ~Mis(es, k) /\ ListOf(t, k) = ListOf(es, k)
    BY <1>1, ListMore DEF Change, Starts
<1> HIDE DEF t
<1>5. CASE TypeOf(k) = "list"
    <2>1. retrieve_any(t, k) = ListOf(t, k) /\ retrieve_any(es, k) = ListOf(es, k)
        BY <1>1, <1>5, RetrieveIs
    <2>2. f.key = k => Heard(t, f) = ListOf(t, k)
        BY <1>5, ListIs DEF Heard
    <2> QED BY <1>4, <1>5, <2>1, <2>2 DEF t
<1>6. CASE TypeOf(k) # "list"
    <2>1. /\ retrieve_any(t, k) = IF Have(t, k) = <<>> THEN get_default(t, k) ELSE Have(t, k)[1]
          /\ retrieve_any(es, k) = IF Have(es, k) = <<>> THEN get_default(es, k) ELSE Have(es, k)[1]
        BY <1>1, <1>6, RetrieveIs
    <2>2. f.key = k => Heard(t, f) = IF f.action = "Reset" THEN get_default(t, k) ELSE f.value
        BY <1>6 DEF Heard
    <2>3. <<f.value>> # <<>> /\ <<f.value>>[1] = f.value
        OBVIOUS
    <2> QED BY <1>2, <1>3, <1>6, <2>1, <2>2, <2>3 DEF t
<1> QED BY <1>5, <1>6

LEMMA AttachIs ==
    ASSUME NEW c, Run(c), NEW ops \in Seq(Ask), \A k \in Key : Agree(c.entries, ops, FALSE, k)
    PROVE  LET d == IF retrieve_any(c.entries, "limit") = OverLimit THEN Put(c, Limited) ELSE c
           IN  Attached([cfg |-> d, told |-> [k \in Key |-> retrieve_any(d.entries, k)]], ops)
<1> DEFINE d == IF retrieve_any(c.entries, "limit") = OverLimit THEN Put(c, Limited) ELSE c
           t == [k \in Key |-> retrieve_any(d.entries, k)]
<1>1. SaneSeq(c.entries)
    BY DEF Run
<1>2. Run(d) /\ d.entries = IF retrieve_any(c.entries, "limit") = OverLimit THEN Append(c.entries, Limited) ELSE c.entries
    <2>1. Put(c, Limited).entries = Append(c.entries, Limited) /\ Run(Put(c, Limited))
        BY LimitedIs, PutRun
    <2> QED BY <2>1
<1>3. \A k \in Key : Agree(d.entries, ops, TRUE, k)
    BY <1>1, <1>2, CapAgrees
<1> HIDE DEF d
<1>4. Heeds(d.entries, t) /\ t = [k \in Key |-> t[k]]
    BY DEF Heeds, Hears
<1> HIDE DEF t
<1>5. Attached([cfg |-> d, told |-> t], ops)
    BY <1>2, <1>3, <1>4 DEF Attached
<1> QED BY <1>5 DEF d, t

LEMMA NotNothing ==
    ASSUME NEW s, NEW ops, Attached(s, ops)
    PROVE  s.told # NoTold
<1>1. SaneSeq(s.cfg.entries) /\ Heeds(s.cfg.entries, s.told)
    BY DEF Attached, Run
<1>2. "limit" \in Key \ {"pws"} /\ TypeOf("limit") = "int"
    BY DEF Key, TypeOf
<1>3. IsNumber(s.told["limit"])
    BY <1>1, <1>2, LimitIsNumber DEF Heeds, Hears, Unwelcome
<1>4. NoTold["limit"] = <<>> /\ ~IsNumber(<<>>)
    BY <1>2 DEF NoTold, IsNumber
<1> QED BY <1>3, <1>4

LEMMA ScalarMore ==
    ASSUME NEW ops \in Seq(Ask), NEW a \in Ask, NEW k, NEW y, y = Append(ops, a)
    PROVE  ScalarAll(k, TRUE, <<>>, y) = ScalarMeant(k, TRUE, ScalarAll(k, TRUE, <<>>, ops), a)
<1>1. \A c : ScalarAll(k, c, <<>>, Append(ops, a)) = ScalarMeant(k, c, ScalarAll(k, c, <<>>, ops), a)
    BY ScalarLaw
<1> QED BY <1>1

LEMMA AttachedIs ==
    ASSUME NEW c, Run(c), NEW u, u = [k \in Key |-> u[k]], NEW ops \in Seq(Ask),
           \A k \in Key : Agree(c.entries, ops, TRUE, k), Heeds(c.entries, u)
    PROVE  Attached([cfg |-> c, told |-> u], ops)
<1> DEFINE s == [cfg |-> c, told |-> u]
<1>1. s = [cfg |-> s.cfg, told |-> s.told] /\ s.cfg = c /\ s.told = u
    OBVIOUS
<1> HIDE DEF s
<1>2. Attached(s, ops)
    BY <1>1 DEF Attached
<1> QED BY <1>2 DEF s

LEMMA NotifyKeeps ==
    ASSUME NEW s, NEW ops, Attached(s, ops), NEW a \in Ask
    PROVE  Attached(Notify(s, a), Append(ops, a))
<1> DEFINE es == s.cfg.entries
           t == s.told
           c == Put(s.cfg, a)
           f == Ch(a)
           es1 == Append(es, f)
           nops == Append(ops, a)
<1>1. /\ Run(s.cfg) /\ SaneSeq(es) /\ es \in Seq(Entry) /\ ops \in Seq(Ask) /\ t = [k \in Key |-> t[k]]
      /\ s = [cfg |-> s.cfg, told |-> t] /\ Heeds(es, t) /\ nops \in Seq(Ask)
    BY DEF Attached, Run, SaneSeq
<1>2. \A k \in Key : Agree(es, ops, TRUE, k)
    BY DEF Attached
<1>3. /\ c.entries = es1 /\ c.entries[c.ip] = f /\ Run(c)
      /\ f \in Entry /\ Stands(f, a) /\ Sane(f)
    BY <1>1, PutRun
<1>4. f.key = a.key /\ (f.action # "NoOp" => Acceptable(<<>>, a) /\ a.action = f.action /\ f.key \in Key)
    BY <1>3, AskIsEntry, CheckedIs DEF Stands, Acceptable
<1> DEFINE over == a.key = "limit" /\ a.action = "Set" /\ a.value = OverLimit
           again == f.key = "limit" /\ f.action = "Set" /\ f.value = OverLimit
<1>5. over <=> again
    <2>1. over => Acceptable(<<>>, a)
        BY DEF Acceptable, Key, TypeOf, ListAction, IsNumber, OverLimit
    <2>2. Acceptable(<<>>, a) /\ a.key = "limit" => f = a
        BY DEF Ch, Checked, TypeOf
    <2>3. over => f = a
        BY <2>1, <2>2
    <2>4. again => f = a
        BY <1>4, <2>2
    <2> QED BY <2>3, <2>4
<1>6. ASSUME NEW k \in Key, ~over PROVE Agree(es1, nops, TRUE, k)
    BY <1>1, <1>2, <1>3, <1>6, AgreeMore
<1>7. ASSUME NEW k \in Key \ {"pws"}, ~(TypeOf(k) = "list" /\ Mis(es1, k))
      PROVE  /\ f.key # k \/ f.action = "NoOp" => Hears(es1, t, k)
             /\ f.key = k /\ f.action # "NoOp" => retrieve_any(es1, k) = Heard(es1, f)
    <2>1. f.key # k \/ f.action = "NoOp" =>
              ~(TypeOf(k) = "list" /\ Mis(es, k)) /\ retrieve_any(es1, k) = retrieve_any(es, k)
        BY <1>1, <1>3, <1>7, RetrieveMore
    <2>2. f.key = k /\ f.action # "NoOp" => retrieve_any(es1, k) = Heard(es1, f)
        BY <1>1, <1>3, <1>7, RetrieveMore
    <2>3. f.key # k \/ f.action = "NoOp" => Hears(es1, t, k)
        BY <1>1, <2>1 DEF Heeds, Hears
    <2> QED BY <2>2, <2>3
<1>11. \A k : ScalarAll(k, TRUE, <<>>, nops) = ScalarMeant(k, TRUE, ScalarAll(k, TRUE, <<>>, ops), a)
    <2>1. ops \in Seq(Ask) /\ nops = Append(ops, a)
        BY <1>1
    <2> HIDE DEF nops
    <2> QED BY <2>1, ScalarMore
<1> HIDE DEF c, f, es1, nops, t, es
<1>8. CASE f.action = "NoOp"
    <2>1. Notify(s, a) = [cfg |-> c, told |-> t]
        BY <1>1, <1>3, <1>8 DEF Notify, c
    <2>2. ~over
        BY <1>5, <1>8
    <2>3. Heeds(es1, t)
        BY <1>7, <1>8 DEF Heeds
    <2>4. Attached([cfg |-> c, told |-> t], nops)
        BY <1>1, <1>3, <1>6, <2>2, <2>3, AttachedIs
    <2> QED BY <2>1, <2>4 DEF nops
<1>12. CASE f.action # "NoOp" /\ Unwelcome(f.key, Heard(es1, f))
    <2>1. Notify(s, a) = [cfg |-> c, told |-> t]
        BY <1>1, <1>3, <1>12 DEF Notify, c
    <2>2. f.key = "lang" /\ ~over
        BY <1>5, <1>12 DEF Unwelcome
    <2>3. "lang" \in Key \ {"pws"} /\ TypeOf("lang") = "string"
        BY DEF Key, TypeOf
    <2>4. retrieve_any(es1, "lang") = Heard(es1, f)
        BY <1>7, <1>12, <2>2, <2>3
    <2>5. Heeds(es1, t)
        BY <1>7, <1>12, <2>2, <2>4 DEF Heeds, Hears
    <2>6. Attached([cfg |-> c, told |-> t], nops)
        BY <1>1, <1>3, <1>6, <2>2, <2>5, AttachedIs
    <2> QED BY <2>1, <2>6 DEF nops
<1>9. CASE f.action # "NoOp" /\ ~again /\ ~Unwelcome(f.key, Heard(es1, f))
    <2> DEFINE u == [t EXCEPT ![f.key] = Heard(es1, f)]
    <2>1. Notify(s, a) = [cfg |-> c, told |-> u]
        BY <1>1, <1>3, <1>9 DEF Notify, c
    <2>2. \A k \in Key : u[k] = IF k = f.key THEN Heard(es1, f) ELSE t[k]
        BY <1>1
    <2>3. u = [k \in Key |-> u[k]]
        BY <1>1
    <2> HIDE DEF u
    <2>4. Heeds(es1, u)
        BY <1>7, <1>9, <2>2 DEF Heeds, Hears
    <2>5. ~over
        BY <1>5, <1>9
    <2>6. Attached([cfg |-> c, told |-> u], nops)
        BY <1>1, <1>3, <1>6, <2>3, <2>4, <2>5, AttachedIs
    <2> QED BY <2>1, <2>6 DEF nops
<1>10. CASE f.action # "NoOp" /\ again
    <2> DEFINE u == [t EXCEPT !["limit"] = <<"8">>]
               d == Put(c, Limited)
               es2 == Append(es1, Limited)
    <2>1. Notify(s, a) = [cfg |-> d, told |-> u]
        BY <1>1, <1>3, <1>10 DEF Notify, Unwelcome, c
    <2>2. d.entries = es2 /\ Run(d)
        BY <1>3, LimitedIs, PutRun
    <2>3. "limit" \in Key /\ TypeOf("limit") = "int"
        BY DEF Key, TypeOf
    <2>4. \A k \in Key : u[k] = IF k = "limit" THEN <<"8">> ELSE t[k]
        BY <1>1
    <2>5. u = [k \in Key |-> u[k]]
        BY <1>1
    <2>6. es1 \in Seq(Entry)
        BY <1>1, <1>3 DEF es1
    <2>7. over
        BY <1>5, <1>10
    <2> HIDE DEF u, d
    <2>8. ASSUME NEW k \in Key PROVE Agree(es2, nops, TRUE, k)
        <3>1. CASE k # "limit"
            <4>1. Agree(es1, ops, TRUE, k)
                BY <1>1, <1>2, <1>3, <1>10, <3>1, OtherMore DEF es1
            <4>2. Agree(es2, ops, TRUE, k)
                BY <2>6, <3>1, <4>1, LimitedIs, OtherMore
            <4> QED BY <1>1, <2>7, <3>1, <4>2, OtherAsked DEF nops
        <3>2. CASE k = "limit"
            <4>1. Have(es2, k) = <<<<"8">>>>
                BY <2>6, <3>2, LimitedIs, HaveMore
            <4>2. Acceptable(<<>>, a)
                BY <1>4, <1>10
            <4>3. ScalarAll(k, TRUE, <<>>, nops) = ScalarMeant(k, TRUE, ScalarAll(k, TRUE, <<>>, ops), a)
                BY <1>11
            <4>4. ScalarAll(k, TRUE, <<>>, nops) = <<<<"8">>>>
                BY <2>3, <2>7, <3>2, <4>2, <4>3 DEF ScalarMeant
            <4> QED BY <2>3, <3>2, <4>1, <4>4 DEF Agree
        <3> QED BY <3>1, <3>2
    <2>9. ASSUME NEW k \in Key \ {"pws"}, ~(TypeOf(k) = "list" /\ Mis(es2, k))
          PROVE  Hears(es2, u, k)
        <3>1. CASE k # "limit"
            <4>1. ~(TypeOf(k) = "list" /\ Mis(es1, k)) /\ retrieve_any(es2, k) = retrieve_any(es1, k)
                BY <2>6, <2>9, <3>1, LimitedIs, RetrieveMore
            <4>2. Hears(es1, t, k)
                BY <1>7, <1>10, <3>1, <4>1
            <4> QED BY <2>4, <3>1, <4>1, <4>2 DEF Hears
        <3>2. CASE k = "limit"
            <4>1. retrieve_any(es2, k) = Heard(es2, Limited)
                BY <2>6, <2>9, <3>2, LimitedIs, RetrieveMore
            <4>2. Heard(es2, Limited) = <<"8">>
                BY <2>3, LimitedIs DEF Heard
            <4> QED BY <2>4, <3>2, <4>1, <4>2 DEF Hears
        <3> QED BY <3>1, <3>2
    <2>10. Heeds(es2, u)
        BY <2>9 DEF Heeds
    <2> HIDE DEF es2
    <2>11. Attached([cfg |-> d, told |-> u], nops)
        BY <1>1, <2>2, <2>5, <2>8, <2>10, AttachedIs
    <2> QED BY <2>1, <2>11 DEF nops
<1> QED BY <1>8, <1>9, <1>10, <1>12

LEMMA NotifiesKeep ==
    ASSUME NEW z, NEW ops, Attached(z, ops), NEW s \in Seq(Ask)
    PROVE  Attached(NotifyAll(z, s), ops \o s)
<1> DEFINE Good(n) == Attached(NotifyAll(z, SubSeq(s, 1, n)), ops \o SubSeq(s, 1, n))
           N == {n \in 0 .. Len(s) : Good(n)}
<1>1. /\ SubSeq(s, 1, 0) = <<>> /\ SubSeq(s, 1, Len(s)) = s /\ Len(s) \in Nat
      /\ \A n \in 1 .. Len(s) :
             /\ SubSeq(s, 1, n - 1) \in Seq(Ask) /\ s[n] \in Ask
             /\ SubSeq(s, 1, n) = Append(SubSeq(s, 1, n - 1), s[n])
    BY PrefixIs
<1>2. ops \in Seq(Ask)
    BY DEF Attached
<1>3. Good(0)
    <2>1. NotifyAll(z, <<>>) = z
        <3>1. <<>> \in Seq(Ask)
            OBVIOUS
        <3>2. Ends(<<"notify">>, z, <<>>, NotifyAll(z, <<>>))
            BY <3>1, NotifyFold
        <3> QED BY <3>2, NoRun
    <2>2. ops \o <<>> = ops
        BY <1>2
    <2> QED BY <1>1, <2>1, <2>2
<1>4. ASSUME NEW n \in 1 .. Len(s), n - 1 \in N PROVE n \in N
    <2> DEFINE p == SubSeq(s, 1, n - 1)
               a == s[n]
               d == NotifyAll(z, p)
               y == Append(p, a)
    <2>1. p \in Seq(Ask) /\ a \in Ask /\ SubSeq(s, 1, n) = y
        BY <1>1
    <2>2. Attached(d, ops \o p)
        BY <1>4
    <2>3. y = Append(p, a)
        OBVIOUS
    <2> HIDE DEF p, a, y
    <2>4. NotifyAll(z, y) = Notify(d, a)
        BY <2>1, <2>3, NotifyLaw
    <2> HIDE DEF d
    <2>5. Append(ops \o p, a) = ops \o y
        <3>1. p \in Seq(Ask) /\ a \in Ask /\ y = Append(p, a)
            BY <2>1, <2>3
        <3> HIDE DEF y
        <3>2. Append(ops \o p, a) = ops \o y
            BY <1>2, <3>1, AppendLater
        <3> QED BY <3>2
    <2>6. Attached(Notify(d, a), Append(ops \o p, a))
        BY <2>1, <2>2, NotifyKeeps
    <2>7. Good(n)
        BY <2>1, <2>4, <2>5, <2>6
    <2> HIDE DEF Good
    <2> QED BY <1>1, <2>7
<1> HIDE DEF Good
<1>5. Len(s) \in N
    <2>1. 0 \in N
        BY <1>1, <1>3
    <2> HIDE DEF N
    <2>2. \A i \in 0 .. Len(s) : i \in N
        BY <1>1, <1>4, <2>1, GoesOn
    <2> QED BY <1>1, <2>2
<1>6. Good(Len(s))
    BY <1>5
<1> QED BY <1>1, <1>6 DEF Good

-----------------------------------------------------------------------------
(* Runs over two sequences, runs that change nothing, runs of one kind.    *)

LEMMA RunBoth ==
    ASSUME NEW V, NEW s \in Seq(V), NEW t \in Seq(V), NEW k, NEW z, NEW e, NEW f, NEW g,
           Ends(k, z, s, e), Ends(k, e, t, f), Ends(k, z, s \o t, g)
    PROVE  g = f
<1>1. PICK h : StepsTo(k, z, s, h) /\ h[Len(s)] = e
    BY DEF Ends
<1>2. PICK i : StepsTo(k, e, t, i) /\ i[Len(t)] = f
    BY DEF Ends
<1>3. PICK j : StepsTo(k, z, s \o t, j) /\ j[Len(s \o t)] = g
    BY DEF Ends
<1>4. /\ Len(s) \in Nat /\ Len(t) \in Nat /\ Len(s \o t) = Len(s) + Len(t)
      /\ \A n \in 1 .. Len(s) : (s \o t)[n] = s[n] /\ n \in 1 .. Len(s \o t)
      /\ \A n \in 1 .. Len(t) : (s \o t)[Len(s) + n] = t[n] /\ Len(s) + n \in 1 .. Len(s \o t)
    OBVIOUS
<1> DEFINE F == {n \in 0 .. Len(s) : j[n] = h[n]}
           B == {n \in 0 .. Len(t) : j[Len(s) + n] = i[n]}
<1>5. 0 \in F
    BY <1>1, <1>3, <1>4 DEF StepsTo
<1>6. ASSUME NEW n \in 1 .. Len(s), n - 1 \in F PROVE n \in F
    <2>1. h[n] = Step(k, h[n - 1], s[n])
        BY <1>1, <1>4 DEF StepsTo
    <2>2. j[n] = Step(k, j[n - 1], s[n])
        BY <1>3, <1>4 DEF StepsTo
    <2> QED BY <1>6, <2>1, <2>2
<1>7. j[Len(s)] = e
    <2> HIDE DEF F
    <2>1. \A n \in 0 .. Len(s) : n \in F
        BY <1>4, <1>5, <1>6, GoesOn
    <2> QED BY <1>1, <1>4, <2>1 DEF F
<1>8. 0 \in B
    BY <1>2, <1>4, <1>7 DEF StepsTo
<1>9. ASSUME NEW n \in 1 .. Len(t), n - 1 \in B PROVE n \in B
    <2>1. i[n] = Step(k, i[n - 1], t[n])
        BY <1>2, <1>4 DEF StepsTo
    <2>2. Len(s) + n \in 1 .. Len(s \o t) /\ (Len(s) + n) - 1 = Len(s) + (n - 1) /\ (s \o t)[Len(s) + n] = t[n]
        BY <1>4
    <2>3. j[Len(s) + n] = Step(k, j[(Len(s) + n) - 1], (s \o t)[Len(s) + n])
        BY <1>3, <2>2 DEF StepsTo
    <2>4. j[Len(s) + (n - 1)] = i[n - 1]
        BY <1>9
    <2> QED BY <1>9, <2>1, <2>2, <2>3, <2>4
<1> HIDE DEF B
<1>10. \A n \in 0 .. Len(t) : n \in B
    BY <1>4, <1>8, <1>9, GoesOn
<1>11. j[Len(s) + Len(t)] = i[Len(t)]
    BY <1>4, <1>10 DEF B
<1> QED BY <1>2, <1>3, <1>4, <1>11

LEMMA RunStays ==
    ASSUME NEW V, NEW s \in Seq(V), NEW k, NEW z, NEW e, Ends(k, z, s, e),
           \A i \in 1 .. Len(s) : Step(k, z, s[i]) = z
    PROVE  e = z
<1>1. PICK h : StepsTo(k, z, s, h) /\ h[Len(s)] = e
    BY DEF Ends
<1> DEFINE G == {i \in 0 .. Len(s) : h[i] = z}
<1>2. Len(s) \in Nat
    OBVIOUS
<1>3. 0 \in G
    BY <1>1, <1>2 DEF StepsTo
<1>4. ASSUME NEW i \in 1 .. Len(s), i - 1 \in G PROVE i \in G
    <2>1. h[i] = Step(k, h[i - 1], s[i])
        BY <1>1 DEF StepsTo
    <2> QED BY <1>4, <2>1
<1> HIDE DEF G
<1>5. \A i \in 0 .. Len(s) : i \in G
    BY <1>2, <1>3, <1>4, GoesOn
<1> QED BY <1>1, <1>2, <1>5 DEF G

LEMMA RunsAgree ==
    ASSUME NEW V, NEW s \in Seq(V), NEW k, NEW l, NEW z, NEW e, NEW f,
           Ends(k, z, s, e), Ends(l, z, s, f),
           \A v : \A i \in 1 .. Len(s) : Step(k, v, s[i]) = Step(l, v, s[i])
    PROVE  e = f
<1>1. PICK h : StepsTo(k, z, s, h) /\ h[Len(s)] = e
    BY DEF Ends
<1>2. PICK g : StepsTo(l, z, s, g) /\ g[Len(s)] = f
    BY DEF Ends
<1> DEFINE G == {i \in 0 .. Len(s) : h[i] = g[i]}
<1>3. Len(s) \in Nat
    OBVIOUS
<1>4. 0 \in G
    BY <1>1, <1>2, <1>3 DEF StepsTo
<1>5. ASSUME NEW i \in 1 .. Len(s), i - 1 \in G PROVE i \in G
    <2>1. h[i] = Step(k, h[i - 1], s[i])
        BY <1>1 DEF StepsTo
    <2>2. g[i] = Step(l, g[i - 1], s[i])
        BY <1>2 DEF StepsTo
    <2>3. h[i - 1] = g[i - 1]
        BY <1>5
    <2>4. Step(k, h[i - 1], s[i]) = Step(l, g[i - 1], s[i])
        BY <2>3
    <2> QED BY <2>1, <2>2, <2>4
<1> HIDE DEF G
<1>6. \A i \in 0 .. Len(s) : i \in G
    BY <1>3, <1>4, <1>5, GoesOn
<1> QED BY <1>1, <1>2, <1>3, <1>6 DEF G

-----------------------------------------------------------------------------
(* The dump.                                                               *)

Line == {e \in [key : STRING, value : Seq(STRING), action : {"Set", "ListAdd", "ListRemove", "ListClear"}] :
             e.action = "ListClear" => e.value = <<>>}

LEMMA LineIs ==
    ASSUME NEW e \in Line
    PROVE  /\ e \in Ask /\ e \in Written /\ e \in Entry /\ e.action \notin {"Reset", "NoOp"}
           /\ Steps(e) = <<e>>
<1>1. e \in Ask /\ e \in Written /\ e \in Entry
    BY DEF Line, Ask, Written, Entry, Basic
<1>2. /\ e.action \in {"Set", "ListAdd", "ListRemove", "ListClear"}
      /\ e.action = "ListClear" => e.value = <<>>
    BY DEF Line
<1> QED BY <1>1, <1>2 DEF Steps, HasNoParm, Plain

LEMMA LinesAre ==
    ASSUME NEW s \in Seq(Line)
    PROVE  s \in Seq(Ask) /\ s \in Seq(Written) /\ s \in Seq(Entry) /\ AllSteps(s) = s
<1>1. s = [i \in 1 .. Len(s) |-> s[i]] /\ Len(s) \in Nat /\ \A i \in 1 .. Len(s) : s[i] \in Line
    OBVIOUS
<1>2. s \in Seq(Ask)
    BY <1>1, LineIs, FunIsSeq
<1>3. s \in Seq(Written)
    BY <1>1, LineIs, FunIsSeq
<1>4. s \in Seq(Entry)
    BY <1>1, LineIs, FunIsSeq
<1>5. AllSteps(s) = s
    <2>1. AllSteps(s) = StepsAll(<<>>, s)
        BY DEF AllSteps, StepsAll
    <2>2. Ends(<<"steps">>, <<>>, s, StepsAll(<<>>, s))
        BY StepsFold
    <2>3. PICK h : StepsTo(<<"steps">>, <<>>, s, h) /\ h[Len(s)] = StepsAll(<<>>, s)
        BY <2>2 DEF Ends
    <2> DEFINE P == [n \in 0 .. Len(s) |-> SubSeq(s, 1, n)]
               G == {n \in 0 .. Len(s) : h[n] = P[n]}
    <2>4. /\ SubSeq(s, 1, 0) = <<>> /\ SubSeq(s, 1, Len(s)) = s
          /\ \A n \in 1 .. Len(s) :
                 /\ SubSeq(s, 1, n - 1) \in Seq(Line) /\ s[n] \in Line
                 /\ SubSeq(s, 1, n) = Append(SubSeq(s, 1, n - 1), s[n])
        BY PrefixIs
    <2>8. P[0] = <<>> /\ P[Len(s)] = s
        BY <1>1, <2>4
    <2>9. \A n \in 1 .. Len(s) : P[n - 1] \in Seq(Line) /\ s[n] \in Line /\ P[n] = Append(P[n - 1], s[n])
        <3> SUFFICES ASSUME NEW n \in 1 .. Len(s)
                     PROVE  P[n - 1] \in Seq(Line) /\ s[n] \in Line /\ P[n] = Append(P[n - 1], s[n])
            OBVIOUS
        <3>1. P[n - 1] = SubSeq(s, 1, n - 1) /\ P[n] = SubSeq(s, 1, n)
            BY <1>1
        <3> HIDE DEF P
        <3> QED BY <2>4, <3>1
    <2> HIDE DEF P
    <2>5. 0 \in G
        <3>1. h[0] = <<>>
            BY <2>3 DEF StepsTo
        <3> QED BY <1>1, <2>8, <3>1
    <2>6. ASSUME NEW n \in 1 .. Len(s), n - 1 \in G PROVE n \in G
        <3> DEFINE p == P[n - 1]
                   a == s[n]
        <3>1. p \in Seq(Line) /\ a \in Line /\ P[n] = Append(p, a) /\ h[n - 1] = p
            BY <2>6, <2>9
        <3>2. h[n] = Step(<<"steps">>, h[n - 1], a)
            BY <2>3 DEF StepsTo
        <3>3. \A v, x : Step(<<"steps">>, v, x) = v \o Steps(x)
            BY DEF Step
        <3> HIDE DEF p, a
        <3>4. h[n] = p \o <<a>>
            BY <3>1, <3>2, <3>3, LineIs
        <3>5. p \o <<a>> = Append(p, a)
            BY <3>1
        <3>6. h[n] = P[n]
            BY Zenon, <3>1, <3>4, <3>5
        <3> QED BY <3>6
    <2> HIDE DEF G
    <2>7. \A n \in 0 .. Len(s) : n \in G
        BY <1>1, <2>5, <2>6, GoesOn
    <2> QED BY <1>1, <2>1, <2>3, <2>7, <2>8 DEF G
<1> QED BY <1>2, <1>3, <1>4, <1>5

(* Meanings of two parts, of the lines of another key, of a list's calls.  *)
LEMMA MeantBoth ==
    ASSUME NEW s \in Seq(Line), NEW t \in Seq(Line), NEW k, NEW z
    PROVE  /\ MeantAll(k, z, s \o t) = MeantAll(k, MeantAll(k, z, s), t)
           /\ \A c : ScalarAll(k, c, z, s \o t) = ScalarAll(k, c, ScalarAll(k, c, z, s), t)
<1>1. s \o t \in Seq(Line)
    OBVIOUS
<1>2. MeantAll(k, z, s \o t) = MeantAll(k, MeantAll(k, z, s), t)
    <2> DEFINE e == MeantAll(k, z, s)
               f == MeantAll(k, e, t)
               g == MeantAll(k, z, s \o t)
    <2>1. Ends(<<"meant", k>>, z, s, e)
        BY MeantFold
    <2>2. Ends(<<"meant", k>>, e, t, f)
        BY MeantFold
    <2>3. Ends(<<"meant", k>>, z, s \o t, g)
        BY <1>1, MeantFold
    <2> HIDE DEF e, f, g
    <2>4. g = f
        BY <2>1, <2>2, <2>3, RunBoth
    <2> QED BY <2>4 DEF e, f, g
<1>3. ASSUME NEW c PROVE ScalarAll(k, c, z, s \o t) = ScalarAll(k, c, ScalarAll(k, c, z, s), t)
    <2> DEFINE e == ScalarAll(k, c, z, s)
               f == ScalarAll(k, c, e, t)
               g == ScalarAll(k, c, z, s \o t)
    <2>1. Ends(<<"scalar", k, c>>, z, s, e)
        BY ScalarFold
    <2>2. Ends(<<"scalar", k, c>>, e, t, f)
        BY ScalarFold
    <2>3. Ends(<<"scalar", k, c>>, z, s \o t, g)
        BY <1>1, ScalarFold
    <2> HIDE DEF e, f, g
    <2>4. g = f
        BY <2>1, <2>2, <2>3, RunBoth
    <2> QED BY <2>4 DEF e, f, g
<1> QED BY <1>2, <1>3

LEMMA MeantOthers ==
    ASSUME NEW s \in Seq(Line), NEW k, NEW z, \A i \in 1 .. Len(s) : s[i].key # k
    PROVE  MeantAll(k, z, s) = z /\ \A c : ScalarAll(k, c, z, s) = z
<1>1. MeantAll(k, z, s) = z
    <2>1. Ends(<<"meant", k>>, z, s, MeantAll(k, z, s))
        BY MeantFold
    <2>2. \A i \in 1 .. Len(s) : Step(<<"meant", k>>, z, s[i]) = z
        BY DEF Step, ListMeant
    <2> QED BY <2>1, <2>2, RunStays
<1>2. ASSUME NEW c PROVE ScalarAll(k, c, z, s) = z
    <2>1. Ends(<<"scalar", k, c>>, z, s, ScalarAll(k, c, z, s))
        BY ScalarFold
    <2>2. \A i \in 1 .. Len(s) : Step(<<"scalar", k, c>>, z, s[i]) = z
        BY DEF Step, ScalarMeant
    <2> QED BY <2>1, <2>2, RunStays
<1> QED BY <1>1, <1>2

LEMMA MeantCalls ==
    ASSUME NEW s \in Seq(Line), NEW k, NEW z, \A i \in 1 .. Len(s) : Change(s[i], k)
    PROVE  MeantAll(k, z, s) = ListAll(z, s)
<1>1. Ends(<<"meant", k>>, z, s, MeantAll(k, z, s))
    BY MeantFold
<1>2. Ends(<<"list">>, z, s, ListAll(z, s))
    BY ListFold
<1>3. \A v : \A i \in 1 .. Len(s) : Step(<<"meant", k>>, v, s[i]) = Step(<<"list">>, v, s[i])
    BY DEF Step, ListMeant, Change
<1> QED BY <1>1, <1>2, <1>3, RunsAgree

Lines(k) == {e \in Line : e.key = k}
Cleared(es, k) ==
    /\ From(es, k) # 0 /\ ~Does(es, From(es, k), "ListClear")
    /\ Does(es, ClearAt(es, From(es, k)), "ListClear")
ClearLine(k) == [key |-> k, action |-> "ListClear", value |-> <<>>]
First(es, k) == IF Does(es, SetAt(es, From(es, k)), "Set") THEN <<ClearLine(k)>> ELSE <<>>
Second(es, k) == IF Does(es, ClearAt(es, From(es, k)), "ListClear") THEN <<ClearLine(k)>> ELSE <<>>
Call(es, k) == FirstCall(es, k, From(es, k))
Rest(es, k) == Changes(es, k, From(es, k))

LEMMA LinesOfOne ==
    ASSUME NEW k, NEW s \in Seq(Lines(k))
    PROVE  s \in Seq(Line) /\ \A i \in 1 .. Len(s) : s[i].key = k
<1>1. s = [i \in 1 .. Len(s) |-> s[i]] /\ Len(s) \in Nat
    OBVIOUS
<1>2. \A i \in 1 .. Len(s) : s[i] \in Lines(k)
    OBVIOUS
<1>3. \A i \in 1 .. Len(s) : s[i] \in Line /\ s[i].key = k
    BY <1>2 DEF Lines
<1> QED BY <1>1, <1>3, FunIsSeq

LEMMA ClearLineIs == \A k \in Key : ClearLine(k) \in Lines(k)
<1>1. Key \subseteq STRING /\ <<>> \in Seq(STRING)
    BY ConfigAssumption
<1> QED BY <1>1 DEF ClearLine, Lines, Line

LEMMA CallIsLine ==
    ASSUME NEW es \in Seq(Entry), NEW k \in Key
    PROVE  /\ Call(es, k) \in Seq(Lines(k)) /\ Rest(es, k) \in Seq(Lines(k))
           /\ \A i \in 1 .. Len(Call(es, k)) : Change(Call(es, k)[i], k)
           /\ \A i \in 1 .. Len(Rest(es, k)) : Change(Rest(es, k)[i], k)
<1>1. Key \subseteq STRING
    BY ConfigAssumption
<1>2. From(es, k) \in Nat
    <2>1. ClearLine(k) \in Entry
        BY ClearLineIs, LineIs DEF Lines
    <2>2. From(es, k) # 0 => From(es, k) \in 1 .. Len(es)
        BY <2>1, FromMore
    <2> QED BY <2>2
<1>3. Rest(es, k) \in Seq(Lines(k)) /\ \A i \in 1 .. Len(Rest(es, k)) : Change(Rest(es, k)[i], k)
    <2> DEFINE s == Rest(es, k)
    <2>1. s \in Seq(Entry) /\ \A i \in DOMAIN s : Change(s[i], k)
        BY <1>2, ChangesAreEntries DEF Rest
    <2> HIDE DEF s
    <2>2. s = [i \in 1 .. Len(s) |-> s[i]] /\ Len(s) \in Nat /\ DOMAIN s = 1 .. Len(s)
        BY <2>1
    <2>3. ASSUME NEW i \in 1 .. Len(s) PROVE s[i] \in Lines(k)
        <3>1. s[i] \in Entry /\ Change(s[i], k)
            BY <2>1, <2>2
        <3> QED BY <3>1 DEF Lines, Line, Change, Entry
    <2>4. s \in Seq(Lines(k))
        BY <2>2, <2>3, FunIsSeq
    <2> QED BY <2>1, <2>2, <2>4 DEF s
<1>4. CASE Does(es, SetAt(es, From(es, k)), "Set")
    <2> DEFINE e == [key |-> k, action |-> "ListAdd", value |-> es[SetAt(es, From(es, k))].value]
    <2>1. es[SetAt(es, From(es, k))].value \in Seq(STRING)
        <3>1. \A x \in DOMAIN es : es[x] \in Entry
            OBVIOUS
        <3>2. SetAt(es, From(es, k)) \in DOMAIN es
            BY <1>4 DEF Does
        <3> QED BY <3>1, <3>2 DEF Entry
    <2>2. e \in Lines(k) /\ Change(e, k)
        BY <1>1, <2>1 DEF Lines, Line, Change
    <2>3. Call(es, k) = <<e>>
        BY <1>4 DEF Call, FirstCall
    <2> HIDE DEF e
    <2>4. <<e>> \in Seq(Lines(k)) /\ Len(<<e>>) = 1 /\ <<e>>[1] = e
        BY <2>2
    <2> QED BY <1>3, <2>2, <2>3, <2>4
<1>5. CASE ~Does(es, SetAt(es, From(es, k)), "Set")
    <2>1. Call(es, k) = <<>>
        BY <1>5 DEF Call, FirstCall
    <2>2. <<>> \in Seq(Lines(k)) /\ 1 .. Len(<<>>) = {}
        OBVIOUS
    <2> QED BY <1>3, <2>1, <2>2
<1> QED BY <1>4, <1>5

LEMMA ListLinesAre ==
    ASSUME NEW es \in Seq(Entry), NEW k \in Key, TypeOf(k) = "list"
    PROVE  /\ DumpLines(es, k) = First(es, k) \o Call(es, k) \o Second(es, k) \o Rest(es, k)
           /\ First(es, k) \in Seq(Lines(k)) /\ Second(es, k) \in Seq(Lines(k))
           /\ DumpLines(es, k) \in Seq(Lines(k))
<1>1. DumpLines(es, k) = First(es, k) \o Call(es, k) \o Second(es, k) \o Rest(es, k)
    BY DEF DumpLines, ListLines, First, Second, Call, Rest, ClearLine, From
<1>2. <<ClearLine(k)>> \in Seq(Lines(k)) /\ <<>> \in Seq(Lines(k))
    BY ClearLineIs, OneIsSeq
<1>3. First(es, k) \in Seq(Lines(k)) /\ Second(es, k) \in Seq(Lines(k))
    BY <1>2 DEF First, Second
<1>4. Call(es, k) \in Seq(Lines(k)) /\ Rest(es, k) \in Seq(Lines(k))
    BY CallIsLine
<1>5. First(es, k) \o Call(es, k) \o Second(es, k) \o Rest(es, k) \in Seq(Lines(k))
    BY <1>3, <1>4
<1> QED BY <1>1, <1>3, <1>5

LEMMA DumpLinesAre ==
    ASSUME NEW es, SaneSeq(es), NEW k \in Key
    PROVE  DumpLines(es, k) \in Seq(Lines(k))
<1>1. es \in Seq(Entry) /\ Key \subseteq STRING
    BY ConfigAssumption DEF SaneSeq
<1>2. CASE TypeOf(k) = "list"
    BY <1>1, <1>2, ListLinesAre
<1>3. CASE TypeOf(k) # "list"
    <2> DEFINE i == lookup(es, k)
    <2>1. i # 0 => i \in 1 .. Len(es) /\ es[i] \in Entry
        BY <1>1, LookedUp
    <2>2. DumpLines(es, k) = IF i = 0 THEN <<>> ELSE <<[key |-> k, action |-> "Set", value |-> es[i].value]>>
        BY <1>3 DEF DumpLines
    <2> HIDE DEF i
    <2>3. i # 0 => [key |-> k, action |-> "Set", value |-> es[i].value] \in Lines(k)
        BY <1>1, <2>1 DEF Lines, Line, Entry
    <2>4. <<>> \in Seq(Lines(k))
        OBVIOUS
    <2> QED BY <2>2, <2>3, <2>4, OneIsSeq
<1> QED BY <1>2, <1>3

LEMMA MeantOne ==
    ASSUME NEW V, NEW x \in V, NEW y, y = <<x>>, NEW k, NEW z
    PROVE  MeantAll(k, z, y) = ListMeant(k, z, x) /\ \A c : ScalarAll(k, c, z, y) = ScalarMeant(k, c, z, x)
<1>1. y \in Seq(V) /\ Len(y) = 1 /\ y[1] = x
    OBVIOUS
<1>2. ASSUME NEW l, NEW e, Ends(l, z, y, e) PROVE e = Step(l, z, x)
    <2>1. PICK h : StepsTo(l, z, y, h) /\ h[1] = e
        BY <1>1, <1>2 DEF Ends
    <2>2. h[0] = z /\ h[1] = Step(l, h[1 - 1], y[1])
        BY <1>1, <2>1 DEF StepsTo
    <2> QED BY <1>1, <2>1, <2>2
<1>3. MeantAll(k, z, y) = Step(<<"meant", k>>, z, x)
    <2>1. Ends(<<"meant", k>>, z, y, MeantAll(k, z, y))
        BY <1>1, MeantFold
    <2> QED BY <1>2, <2>1
<1>4. ASSUME NEW c PROVE ScalarAll(k, c, z, y) = Step(<<"scalar", k, c>>, z, x)
    <2>1. Ends(<<"scalar", k, c>>, z, y, ScalarAll(k, c, z, y))
        BY <1>1, ScalarFold
    <2> QED BY <1>2, <2>1
<1> QED BY <1>3, <1>4 DEF Step

(* What the lines of a list come to, and those of any other key.           *)
LEMMA ListLinesMean ==
    ASSUME NEW es \in Seq(Entry), NEW k \in Key, TypeOf(k) = "list", ~Mis(es, k), ~Cleared(es, k)
    PROVE  MeantAll(k, <<Default(k)>>, DumpLines(es, k)) = ListOf(es, k)
<1> DEFINE z == <<Default(k)>>
           A == First(es, k)
           C == Call(es, k)
           B == Second(es, k)
           R == Rest(es, k)
           from == From(es, k)
<1>1. /\ DumpLines(es, k) = A \o C \o B \o R
      /\ A \in Seq(Line) /\ C \in Seq(Line) /\ B \in Seq(Line) /\ R \in Seq(Line)
    <2>1. A \in Seq(Lines(k)) /\ C \in Seq(Lines(k)) /\ B \in Seq(Lines(k)) /\ R \in Seq(Lines(k))
        BY ListLinesAre, CallIsLine
    <2>2. DumpLines(es, k) = A \o C \o B \o R
        BY ListLinesAre
    <2> HIDE DEF A, B, C, R
    <2> QED BY <2>1, <2>2, LinesOfOne
<1>2. \A i \in 1 .. Len(C) : Change(C[i], k)
    BY CallIsLine
<1>3. \A i \in 1 .. Len(R) : Change(R[i], k)
    BY CallIsLine
<1>4. get_default(es, k) = Default(k)
    BY ListDefaults
<1>5. ListOf(es, k) = ListAll(IF Anew(es, from) THEN <<>> ELSE z, C \o R)
    BY <1>4 DEF ListOf, Base, Calls, Call, Rest
<1>6. Anew(es, from) => \/ A = <<ClearLine(k)>> /\ B = <<>>
                        \/ A = <<>> /\ C = <<>> /\ B = <<ClearLine(k)>>
    <2>1. CASE Does(es, from, "Set")
        <3>1. ~Does(es, from, "Reset") /\ ~Does(es, from, "ListClear") /\ from # 0
            BY <2>1 DEF Does
        <3>2. SetAt(es, from) = from /\ ClearAt(es, from) = from + 1
            BY <2>1, <3>1 DEF SetAt, ClearAt
        <3>3. ~Does(es, from + 1, "ListClear")
            BY <3>1, <3>2 DEF Cleared
        <3> QED BY <2>1, <3>2, <3>3 DEF First, Second
    <2>2. CASE Does(es, from, "ListClear")
        <3>1. ~Does(es, from, "Reset") /\ ~Does(es, from, "Set")
            BY <2>2 DEF Does
        <3>2. SetAt(es, from) = from /\ ClearAt(es, from) = from
            BY <3>1 DEF SetAt, ClearAt
        <3> QED BY <2>2, <3>1, <3>2 DEF First, Second, Call, FirstCall
    <2> QED BY <2>1, <2>2 DEF Anew
<1>7. ~Anew(es, from) => A = <<>> /\ C = <<>> /\ B = <<>>
    <2> SUFFICES ASSUME ~Does(es, from, "Set"), ~Does(es, from, "ListClear")
                 PROVE  A = <<>> /\ C = <<>> /\ B = <<>>
        BY DEF Anew
    <2>1. ~Does(es, SetAt(es, from), "Set")
        BY DEF SetAt, Mis
    <2>2. ClearAt(es, from) = SetAt(es, from)
        BY <2>1 DEF ClearAt
    <2>3. ~Does(es, ClearAt(es, from), "ListClear")
        <3>1. CASE from # 0
            BY <3>1 DEF Cleared
        <3>2. CASE from = 0
            <4>1. \A a : ~Does(es, 0, a)
                BY DEF Does
            <4>2. ClearAt(es, from) = 0
                BY <3>2, <4>1 DEF ClearAt, SetAt
            <4> QED BY <4>1, <4>2
        <3> QED BY <3>1, <3>2
    <2> QED BY <2>1, <2>3 DEF First, Second, Call, FirstCall
<1>8. \A v : MeantAll(k, v, <<>>) = v
    BY NothingAsked
<1>9. \A v : MeantAll(k, v, <<ClearLine(k)>>) = <<>>
    <2> SUFFICES ASSUME NEW v PROVE MeantAll(k, v, <<ClearLine(k)>>) = <<>>
        OBVIOUS
    <2>1. ClearLine(k) \in Line
        BY ClearLineIs DEF Lines
    <2>2. MeantAll(k, v, <<ClearLine(k)>>) = ListMeant(k, v, ClearLine(k))
        BY <2>1, MeantOne
    <2>3. ListMeant(k, v, ClearLine(k)) = <<>>
        BY DEF ListMeant, ClearLine
    <2> QED BY <2>2, <2>3
<1> DEFINE x == ClearLine(k)
<1> HIDE DEF A, B, C, R, z, from, x
<1> DEFINE P == A \o C
           Q == P \o B
           S == C \o R
<1>10. P \in Seq(Line) /\ S \in Seq(Line)
    BY <1>1
<1>17. Q \in Seq(Line)
    <2> HIDE DEF P
    <2> QED BY <1>1, <1>10
<1>18. \A v : MeantAll(k, v, P) = MeantAll(k, MeantAll(k, v, A), C)
    BY <1>1, MeantBoth
<1>19. \A v : MeantAll(k, v, S) = MeantAll(k, MeantAll(k, v, C), R)
    BY <1>1, MeantBoth
<1>20. \A v : MeantAll(k, v, Q) = MeantAll(k, MeantAll(k, v, P), B)
    <2> HIDE DEF P
    <2> QED BY <1>1, <1>10, MeantBoth
<1>21. \A v : MeantAll(k, v, DumpLines(es, k)) = MeantAll(k, MeantAll(k, v, Q), R)
    <2>1. DumpLines(es, k) = Q \o R
        BY <1>1
    <2> HIDE DEF Q
    <2> QED BY <1>1, <1>17, <2>1, MeantBoth
<1>11. MeantAll(k, z, DumpLines(es, k)) =
           MeantAll(k, MeantAll(k, MeantAll(k, MeantAll(k, z, A), C), B), R)
    <2> HIDE DEF P, Q
    <2> QED BY <1>18, <1>20, <1>21
<1>12. \A i \in 1 .. Len(S) : Change(S[i], k)
    <2>1. Len(S) = Len(C) + Len(R) /\ Len(C) \in Nat /\ Len(R) \in Nat
          /\ \A i \in 1 .. Len(C) + Len(R) : S[i] = IF i <= Len(C) THEN C[i] ELSE R[i - Len(C)]
        BY <1>1
    <2> HIDE DEF S
    <2> SUFFICES ASSUME NEW i \in 1 .. Len(C) + Len(R) PROVE Change(S[i], k)
        BY <2>1
    <2>2. CASE i <= Len(C)
        <3>1. i \in 1 .. Len(C)
            BY <2>1, <2>2
        <3> QED BY <1>2, <2>1, <2>2, <3>1
    <2>3. CASE ~(i <= Len(C))
        <3>1. i - Len(C) \in 1 .. Len(R)
            BY <2>1, <2>3
        <3> QED BY <1>3, <2>1, <2>3, <3>1
    <2> QED BY <2>2, <2>3
<1>13. \A v : ListAll(v, C \o R) = MeantAll(k, MeantAll(k, v, C), R)
    <2> SUFFICES ASSUME NEW v PROVE ListAll(v, S) = MeantAll(k, MeantAll(k, v, C), R)
        OBVIOUS
    <2> HIDE DEF S
    <2>2. MeantAll(k, v, S) = ListAll(v, S)
        BY <1>10, <1>12, MeantCalls
    <2> QED BY <1>19, <2>2
<1>14. ASSUME Anew(es, from) PROVE MeantAll(k, z, DumpLines(es, k)) = ListOf(es, k)
    <2>1. ListOf(es, k) = MeantAll(k, MeantAll(k, <<>>, C), R)
        BY <1>5, <1>13, <1>14
    <2>2. CASE A = <<x>> /\ B = <<>>
        <3>1. MeantAll(k, z, A) = <<>> /\ \A v : MeantAll(k, v, B) = v
            BY <1>8, <1>9, <2>2 DEF x
        <3> QED BY <1>11, <2>1, <2>2, <3>1
    <2>3. CASE A = <<>> /\ C = <<>> /\ B = <<x>>
        <3>1. \A v : MeantAll(k, v, A) = v /\ MeantAll(k, v, C) = v /\ MeantAll(k, v, B) = <<>>
            BY <1>8, <1>9, <2>3 DEF x
        <3> QED BY <1>11, <2>1, <2>3, <3>1
    <2> QED BY <1>6, <1>14, <2>2, <2>3 DEF x
<1>15. ASSUME ~Anew(es, from) PROVE MeantAll(k, z, DumpLines(es, k)) = ListOf(es, k)
    <2>1. ListOf(es, k) = MeantAll(k, MeantAll(k, z, C), R)
        BY <1>5, <1>13, <1>15
    <2>2. \A v : MeantAll(k, v, A) = v /\ MeantAll(k, v, C) = v /\ MeantAll(k, v, B) = v
        BY <1>7, <1>8, <1>15
    <2> QED BY <1>11, <2>1, <2>2
<1>16. MeantAll(k, z, DumpLines(es, k)) = ListOf(es, k)
    BY <1>14, <1>15
<1> QED BY <1>16 DEF z

LEMMA ScalarLinesMean ==
    ASSUME NEW es, SaneSeq(es), NEW k \in Key, TypeOf(k) # "list", NEW c, c = FALSE
    PROVE  ScalarAll(k, c, <<>>, DumpLines(es, k)) = Have(es, k)
<1> DEFINE i == lookup(es, k)
<1>1. es \in Seq(Entry)
    BY DEF SaneSeq
<1>2. DumpLines(es, k) = IF i = 0 THEN <<>> ELSE <<[key |-> k, action |-> "Set", value |-> es[i].value]>>
    BY DEF DumpLines
<1>3. Have(es, k) = IF i = 0 THEN <<>> ELSE <<es[i].value>>
    BY DEF Have
<1> HIDE DEF i
<1>4. CASE i = 0
    BY <1>2, <1>3, <1>4, NothingAsked
<1>5. CASE i # 0
    <2>1. PICK f : /\ Sane(f) /\ f.key = k /\ f.action = "Set" /\ Acceptable(<<>>, f) /\ Ch(f) = f
                   /\ Have(es, k) = <<f.value>>
        <3>1. Have(es, k) # <<>>
            BY <1>3, <1>5
        <3> QED BY <3>1, SaneValue
    <2>2. f \in Entry /\ f.value = es[i].value
        BY <1>3, <1>5, <2>1 DEF Sane
    <2>3. [key |-> k, action |-> "Set", value |-> es[i].value] = f
        BY <2>1, <2>2 DEF Entry
    <2>4. DumpLines(es, k) = <<f>>
        BY <1>2, <1>5, <2>3
    <2>5. ScalarAll(k, c, <<>>, <<f>>) = ScalarMeant(k, c, <<>>, f)
        <3> DEFINE y == <<f>>
        <3>1. f \in Entry /\ y = <<f>>
            BY <2>2
        <3> HIDE DEF y
        <3>2. \A b, v : ScalarAll(k, b, v, y) = ScalarMeant(k, b, v, f)
            BY <3>1, MeantOne
        <3> QED BY <3>1, <3>2
    <2>6. ~(TypeOf(k) = "bool" /\ f.value = <<>>)
        <3> SUFFICES ASSUME TypeOf(k) = "bool", f.value = <<>> PROVE FALSE
            OBVIOUS
        <3>1. Ch(f) = [f EXCEPT !.value = <<"true">>]
            BY <2>1 DEF Ch, Checked
        <3>2. [f EXCEPT !.value = <<"true">>].value = <<"true">> /\ <<"true">> # <<>>
            BY <2>2 DEF Entry
        <3> QED BY <2>1, <3>1, <3>2
    <2>7. \A v : ScalarMeant(k, c, v, f) = <<f.value>>
        BY <2>1, <2>6 DEF ScalarMeant
    <2> QED BY <2>1, <2>4, <2>5, <2>7
<1> QED BY <1>4, <1>5

LEMMA OtherLines ==
    ASSUME NEW es, SaneSeq(es), NEW j \in Key, NEW k, j # k, NEW z
    PROVE  MeantAll(k, z, DumpLines(es, j)) = z /\ \A c : ScalarAll(k, c, z, DumpLines(es, j)) = z
<1> DEFINE s == DumpLines(es, j)
<1>1. s \in Seq(Lines(j))
    BY DumpLinesAre
<1> HIDE DEF s
<1>2. s \in Seq(Line) /\ \A i \in 1 .. Len(s) : s[i].key = j
    BY <1>1, LinesOfOne
<1>3. MeantAll(k, z, s) = z /\ \A c : ScalarAll(k, c, z, s) = z
    BY <1>2, MeantOthers
<1> QED BY <1>3 DEF s

MeantFrom(es, k, z) ==
    MeantAll(k, MeantAll(k, MeantAll(k, MeantAll(k, MeantAll(k, MeantAll(k, z,
        DumpLines(es, "mode")), DumpLines(es, "limit")), DumpLines(es, "lang")),
        DumpLines(es, "pws")), DumpLines(es, "dicts")), DumpLines(es, "filter"))
ScalarFrom(es, k, c, z) ==
    ScalarAll(k, c, ScalarAll(k, c, ScalarAll(k, c, ScalarAll(k, c, ScalarAll(k, c, ScalarAll(k, c, z,
        DumpLines(es, "mode")), DumpLines(es, "limit")), DumpLines(es, "lang")),
        DumpLines(es, "pws")), DumpLines(es, "dicts")), DumpLines(es, "filter"))

LEMMA DumpParts ==
    ASSUME NEW es, SaneSeq(es)
    PROVE  /\ Dump(es) \in Seq(Line)
           /\ \A k, z : MeantAll(k, z, Dump(es)) = MeantFrom(es, k, z)
           /\ \A k, c, z : ScalarAll(k, c, z, Dump(es)) = ScalarFrom(es, k, c, z)
<1> DEFINE s1 == DumpLines(es, "mode")
           s2 == DumpLines(es, "limit")
           s3 == DumpLines(es, "lang")
           s4 == DumpLines(es, "pws")
           s5 == DumpLines(es, "dicts")
           s6 == DumpLines(es, "filter")
           p2 == s1 \o s2
           p3 == p2 \o s3
           p4 == p3 \o s4
           p5 == p4 \o s5
           p6 == p5 \o s6
<1>1. ASSUME NEW k \in Key PROVE DumpLines(es, k) \in Seq(Line)
    BY DumpLinesAre, LinesOfOne
<1>2. Dump(es) = p6
    BY DEF Dump
<1>3. /\ s1 \in Seq(Line) /\ s2 \in Seq(Line) /\ s3 \in Seq(Line)
      /\ s4 \in Seq(Line) /\ s5 \in Seq(Line) /\ s6 \in Seq(Line)
    BY <1>1 DEF Key
<1> HIDE DEF s1, s2, s3, s4, s5, s6
<1>4. p2 \in Seq(Line)
    BY <1>3
<1>5. \A k, z : MeantAll(k, z, p2) = MeantAll(k, MeantAll(k, z, s1), s2)
      /\ \A c : ScalarAll(k, c, z, p2) = ScalarAll(k, c, ScalarAll(k, c, z, s1), s2)
    BY <1>3, MeantBoth
<1> HIDE DEF p2
<1>6. p3 \in Seq(Line)
    BY <1>3, <1>4
<1>7. \A k, z : MeantAll(k, z, p3) = MeantAll(k, MeantAll(k, z, p2), s3)
      /\ \A c : ScalarAll(k, c, z, p3) = ScalarAll(k, c, ScalarAll(k, c, z, p2), s3)
    BY <1>3, <1>4, MeantBoth
<1> HIDE DEF p3
<1>8. p4 \in Seq(Line)
    BY <1>3, <1>6
<1>9. \A k, z : MeantAll(k, z, p4) = MeantAll(k, MeantAll(k, z, p3), s4)
      /\ \A c : ScalarAll(k, c, z, p4) = ScalarAll(k, c, ScalarAll(k, c, z, p3), s4)
    BY <1>3, <1>6, MeantBoth
<1> HIDE DEF p4
<1>10. p5 \in Seq(Line)
    BY <1>3, <1>8
<1>11. \A k, z : MeantAll(k, z, p5) = MeantAll(k, MeantAll(k, z, p4), s5)
       /\ \A c : ScalarAll(k, c, z, p5) = ScalarAll(k, c, ScalarAll(k, c, z, p4), s5)
    BY <1>3, <1>8, MeantBoth
<1> HIDE DEF p5
<1>12. p6 \in Seq(Line)
    BY <1>3, <1>10
<1>13. \A k, z : MeantAll(k, z, p6) = MeantAll(k, MeantAll(k, z, p5), s6)
       /\ \A c : ScalarAll(k, c, z, p6) = ScalarAll(k, c, ScalarAll(k, c, z, p5), s6)
    BY <1>3, <1>10, MeantBoth
<1> HIDE DEF p6
<1>14. ASSUME NEW k, NEW z PROVE MeantAll(k, z, p6) = MeantFrom(es, k, z)
    <2>1. MeantAll(k, z, p6) =
              MeantAll(k, MeantAll(k, MeantAll(k, MeantAll(k, MeantAll(k, MeantAll(k, z, s1), s2), s3), s4), s5), s6)
        BY <1>5, <1>7, <1>9, <1>11, <1>13
    <2> QED BY <2>1 DEF MeantFrom, s1, s2, s3, s4, s5, s6
<1>15. ASSUME NEW k, NEW c, NEW z PROVE ScalarAll(k, c, z, p6) = ScalarFrom(es, k, c, z)
    <2>1. ScalarAll(k, c, z, p6) =
              ScalarAll(k, c, ScalarAll(k, c, ScalarAll(k, c, ScalarAll(k, c, ScalarAll(k, c,
                  ScalarAll(k, c, z, s1), s2), s3), s4), s5), s6)
        BY <1>5, <1>7, <1>9, <1>11, <1>13
    <2> QED BY <2>1 DEF ScalarFrom, s1, s2, s3, s4, s5, s6
<1> QED BY <1>2, <1>12, <1>14, <1>15

LEMMA DumpMeans ==
    ASSUME NEW es, SaneSeq(es), NEW k \in Key
    PROVE  IF TypeOf(k) = "list"
           THEN ~Mis(es, k) /\ ~Cleared(es, k) => MeantAll(k, <<Default(k)>>, Dump(es)) = ListOf(es, k)
           ELSE \A c : c = FALSE => ScalarAll(k, c, <<>>, Dump(es)) = Have(es, k)
<1>1. es \in Seq(Entry)
    BY DEF SaneSeq
<1>2. CASE TypeOf(k) = "list"
    <2> SUFFICES ASSUME ~Mis(es, k), ~Cleared(es, k)
                 PROVE  MeantAll(k, <<Default(k)>>, Dump(es)) = ListOf(es, k)
        BY <1>2
    <2> DEFINE z == <<Default(k)>>
    <2>1. \A j \in Key : j # k => \A v : MeantAll(k, v, DumpLines(es, j)) = v
        BY OtherLines
    <2>2. MeantAll(k, z, DumpLines(es, k)) = ListOf(es, k)
        BY <1>1, <1>2, ListLinesMean
    <2>3. MeantAll(k, z, Dump(es)) = MeantFrom(es, k, z)
        BY DumpParts
    <2> HIDE DEF z
    <2>4. k \in {"dicts", "filter"}
        BY <1>2 DEF Key, TypeOf
    <2>5. /\ \A v : MeantAll(k, v, DumpLines(es, "mode")) = v
          /\ \A v : MeantAll(k, v, DumpLines(es, "limit")) = v
          /\ \A v : MeantAll(k, v, DumpLines(es, "lang")) = v
          /\ \A v : MeantAll(k, v, DumpLines(es, "pws")) = v
          /\ k # "dicts" => \A v : MeantAll(k, v, DumpLines(es, "dicts")) = v
          /\ k # "filter" => \A v : MeantAll(k, v, DumpLines(es, "filter")) = v
        BY <2>1, <2>4 DEF Key
    <2>6. MeantFrom(es, k, z) = MeantAll(k, MeantAll(k, z, DumpLines(es, "dicts")), DumpLines(es, "filter"))
        BY <2>5 DEF MeantFrom
    <2>7. MeantFrom(es, k, z) = MeantAll(k, z, DumpLines(es, k))
        BY <2>4, <2>5, <2>6
    <2>8. MeantAll(k, z, Dump(es)) = ListOf(es, k)
        BY <2>2, <2>3, <2>7
    <2> QED BY <2>8 DEF z
<1>3. CASE TypeOf(k) # "list"
    <2> SUFFICES ASSUME NEW c, c = FALSE PROVE ScalarAll(k, c, <<>>, Dump(es)) = Have(es, k)
        BY <1>3
    <2> DEFINE z == <<>>
    <2>1. \A j \in Key : j # k => \A v : ScalarAll(k, c, v, DumpLines(es, j)) = v
        BY OtherLines
    <2>2. ScalarAll(k, c, z, DumpLines(es, k)) = Have(es, k)
        BY <1>3, ScalarLinesMean
    <2>3. ScalarAll(k, c, z, Dump(es)) = ScalarFrom(es, k, c, z)
        BY DumpParts
    <2> HIDE DEF z
    <2> DEFINE M(v, j) == ScalarAll(k, c, v, DumpLines(es, j))
    <2>4. k \in {"mode", "limit", "lang", "pws"}
        BY <1>3 DEF Key, TypeOf
    <2>5. ScalarFrom(es, k, c, z) = M(M(M(M(M(M(z, "mode"), "limit"), "lang"), "pws"), "dicts"), "filter")
        BY DEF ScalarFrom
    <2>6. \A v : /\ k # "mode" => M(v, "mode") = v
                 /\ k # "limit" => M(v, "limit") = v
                 /\ k # "lang" => M(v, "lang") = v
                 /\ k # "pws" => M(v, "pws") = v
                 /\ M(v, "dicts") = v /\ M(v, "filter") = v
        BY <2>1, <2>4 DEF Key
    <2>7. M(z, k) = Have(es, k)
        BY <2>2
    <2>8. ScalarAll(k, c, z, Dump(es)) = M(M(M(M(M(M(z, "mode"), "limit"), "lang"), "pws"), "dicts"), "filter")
        BY <2>3, <2>5
    <2> HIDE DEF M
    <2>9. CASE k = "mode"
        BY <2>6, <2>7, <2>8, <2>9 DEF z
    <2>10. CASE k = "limit"
        BY <2>6, <2>7, <2>8, <2>10 DEF z
    <2>11. CASE k = "lang"
        BY <2>6, <2>7, <2>8, <2>11 DEF z
    <2>12. CASE k = "pws"
        BY <2>6, <2>7, <2>8, <2>12 DEF z
    <2> QED BY <2>4, <2>9, <2>10, <2>11, <2>12
<1> QED BY <1>2, <1>3

LEMMA BackIs ==
    ASSUME NEW es, SaneSeq(es)
    PROVE  LET back == commit_all(read_in(Uncommitted, Dump(es)))
           IN  StandsFor(back.entries, Dump(es)) /\ SaneSeq(back.entries)
<1> DEFINE D == Dump(es)
           r == read_in(Uncommitted, D)
<1>1. D \in Seq(Line)
    BY DumpParts
<1> HIDE DEF D
<1>2. D \in Seq(Ask) /\ D \in Seq(Written) /\ AllSteps(D) = D
    BY <1>1, LinesAre
<1>3. D \o <<>> = D
    BY <1>1
<1> DEFINE c == Uncommitted
<1>4. /\ c.entries = <<>> /\ c.committed = FALSE
      /\ c = [entries |-> c.entries, ip |-> c.ip, committed |-> c.committed]
    BY DEF Uncommitted
<1>5. MadeOf(<<>>, <<>>)
    BY DEF MadeOf
<1> HIDE DEF c
<1>6. c.committed \in BOOLEAN
    BY <1>4
<1>7. MadeOf(read_in(c, D).entries, AllSteps(D) \o <<>>)
    BY <1>2, <1>4, <1>5, <1>6, ReadMade
<1>8. MadeOf(r.entries, D)
    BY <1>2, <1>3, <1>7 DEF c
<1> HIDE DEF r
<1>9. commit_all(r).entries = AgainAll(<<>>, r.entries)
    BY DEF commit_all, AgainAll
<1>10. StandsFor(commit_all(r).entries, D) /\ SaneSeq(commit_all(r).entries)
    BY <1>8, <1>9, CommitMade
<1> QED BY <1>10 DEF D, r

LEMMA DumpIs ==
    ASSUME NEW es, SaneSeq(es), NEW k \in Key,
           TypeOf(k) = "list" => ~Mis(es, k) /\ ~Cleared(es, k)
    PROVE  LET back == commit_all(read_in(Uncommitted, Dump(es)))
           IN  retrieve_any(back.entries, k) = retrieve_any(es, k)
<1> DEFINE D == Dump(es)
           bs == commit_all(read_in(Uncommitted, D)).entries
<1>1. StandsFor(bs, D) /\ bs \in Seq(Entry)
    BY BackIs DEF SaneSeq
<1>2. D \in Seq(Line) /\ es \in Seq(Entry)
    BY DumpParts DEF SaneSeq
<1>3. \A j \in Key :
         IF TypeOf(j) = "list"
         THEN ~Mis(es, j) /\ ~Cleared(es, j) => MeantAll(j, <<Default(j)>>, D) = ListOf(es, j)
         ELSE \A c : c = FALSE => ScalarAll(j, c, <<>>, D) = Have(es, j)
    BY DumpMeans
<1> HIDE DEF D, bs
<1>4. \A j \in Key : Agree(bs, D, FALSE, j)
    BY <1>1, StandingAgrees
<1>5. \A i : ~Does(bs, i, "Reset")
    <2> SUFFICES ASSUME NEW i, Does(bs, i, "Reset") PROVE FALSE
        OBVIOUS
    <2>1. i \in 1 .. Len(bs) /\ bs[i].action = "Reset"
        BY <1>1 DEF Does
    <2>2. Len(bs) = Len(D) /\ Stands(bs[i], D[i])
        BY <1>1, <2>1 DEF StandsFor
    <2>3. D[i] \in Line
        BY <1>2, <2>1, <2>2
    <2>4. D[i] \in Entry /\ D[i].action # "Reset"
        BY <2>3, LineIs
    <2>5. bs[i].action \in {D[i].action, "NoOp"}
        BY <2>2, <2>4, CheckedIs DEF Stands
    <2> QED BY <2>1, <2>4, <2>5
<1>6. ASSUME NEW j \in Key, TypeOf(j) # "list" PROVE Have(bs, j) = Have(es, j)
    <2>1. Have(bs, j) = ScalarAll(j, FALSE, <<>>, D)
        BY <1>4, <1>6 DEF Agree
    <2>2. \A c : c = FALSE => ScalarAll(j, c, <<>>, D) = Have(es, j)
        BY <1>3, <1>6
    <2> QED BY <2>1, <2>2
<1>7. CASE TypeOf(k) = "list"
    <2>1. ~Mis(bs, k)
        BY <1>5 DEF Mis
    <2>2. ListOf(bs, k) = MeantAll(k, <<Default(k)>>, D)
        BY <1>4, <1>7, <2>1 DEF Agree
    <2>3. ListOf(bs, k) = ListOf(es, k)
        BY <1>3, <1>7, <2>2
    <2>4. retrieve_any(bs, k) = retrieve_any(es, k)
        BY <1>1, <1>2, <1>7, <2>3, RetrieveIs
    <2> QED BY <2>4 DEF bs, D
<1>8. CASE TypeOf(k) # "list"
    <2>1. "lang" \in Key /\ TypeOf("lang") # "list"
        BY DEF Key, TypeOf
    <2>2. \A d : Value(bs, "lang", d) = Value(es, "lang", d)
        BY <1>1, <1>2, <1>6, <2>1, LookedUp
    <2>3. get_default(bs, k) = get_default(es, k)
        BY <2>2 DEF get_default
    <2>4. Have(bs, k) = Have(es, k)
        BY <1>6, <1>8
    <2>5. retrieve_any(bs, k) = retrieve_any(es, k)
        BY <1>1, <1>2, <1>8, <2>3, <2>4, RetrieveIs
    <2> QED BY <2>5 DEF bs, D
<1> QED BY <1>7, <1>8

-----------------------------------------------------------------------------
(* The whole.                                                              *)

ConfigSpec == ConfigInit /\ [][ConfigNext]_configvars

Named == [key |-> "actual-lang", action |-> "Set", value |-> <<"de">>]
Waiting == \E S : /\ StandsFor(S, asked) /\ SaneSeq(S) /\ cfg.entries \in {S, Append(S, Named)}
                  /\ Run(cfg)
ConfigIInv ==
    /\ library \in BOOLEAN /\ sources \in Sources /\ asked \in Seq(Ask)
    /\ stage \in {"args", "read", "run", "failed"}
    /\ stage # "run" => told = NoTold
    /\ stage = "args" => /\ MadeOf(cfg.entries, asked)
                         /\ cfg = [entries |-> cfg.entries, ip |-> Len(cfg.entries), committed |-> library]
    /\ stage = "read" => MadeOf(cfg.entries, asked)
    /\ stage = "run" /\ told = NoTold => Waiting
    /\ stage = "run" /\ told # NoTold => Attached([cfg |-> cfg, told |-> told], asked)

LEMMA NamedIs == Sane(Named) /\ Named \in Entry /\ Named.key = "actual-lang" /\ Named.key \notin Key
<1>1. "actual-lang" \in STRING /\ "de" \in STRING
    BY ConfigAssumption
<1>2. <<"de">> \in Seq(STRING)
    BY <1>1, OneIsSeq
<1>3. Named \in Entry
    BY <1>1, <1>2 DEF Named, Entry, Basic
<1>4. Named.key = "actual-lang" /\ "actual-lang" \notin Key
    BY DEF Named, Key
<1> QED BY <1>3, <1>4 DEF Sane

LEMMA Joined ==
    ASSUME NEW V, NEW r \in Seq(V), NEW s \in Seq(V), NEW t \in Seq(V), NEW p, p = r \o s, NEW q, q = s \o t
    PROVE  p \o t = r \o q
<1>1. /\ Len(r) \in Nat /\ Len(s) \in Nat /\ Len(t) \in Nat
      /\ p \in Seq(V) /\ q \in Seq(V) /\ Len(p) = Len(r) + Len(s) /\ Len(q) = Len(s) + Len(t)
      /\ \A i \in 1 .. Len(r) + Len(s) : p[i] = IF i <= Len(r) THEN r[i] ELSE s[i - Len(r)]
      /\ \A i \in 1 .. Len(s) + Len(t) : q[i] = IF i <= Len(s) THEN s[i] ELSE t[i - Len(s)]
    OBVIOUS
<1>8. \A i \in 1 .. Len(s) + Len(t) : ~(i <= Len(s)) => q[i] = t[i - Len(s)]
    BY <1>1
<1> DEFINE a == p \o t
           b == r \o q
           n == Len(r) + Len(s) + Len(t)
<1>2. /\ p \in Seq(V) /\ q \in Seq(V)
    BY <1>1
<1>3. /\ a \in Seq(V) /\ Len(a) = Len(p) + Len(t)
      /\ \A i \in 1 .. Len(p) + Len(t) : a[i] = IF i <= Len(p) THEN p[i] ELSE t[i - Len(p)]
    BY <1>2
<1>4. /\ b \in Seq(V) /\ Len(b) = Len(r) + Len(q)
      /\ \A i \in 1 .. Len(r) + Len(q) : b[i] = IF i <= Len(r) THEN r[i] ELSE q[i - Len(r)]
    BY <1>2
<1> HIDE DEF a, b
<1>5. ASSUME NEW i \in 1 .. Len(a) PROVE a[i] = b[i]
    <2>0. i \in Nat /\ i >= 1 /\ i <= Len(r) + Len(s) + Len(t) /\ Len(r) \in Nat /\ Len(s) \in Nat /\ Len(t) \in Nat
        BY <1>1, <1>3
    <2>1. CASE i <= Len(r)
        <3>1. a[i] = p[i] /\ p[i] = r[i]
            BY <1>1, <1>3, <2>0, <2>1
        <3>2. b[i] = r[i]
            BY <1>1, <1>4, <2>0, <2>1
        <3> QED BY <3>1, <3>2
    <2>2. CASE ~(i <= Len(r)) /\ i <= Len(r) + Len(s)
        <3>1. a[i] = p[i] /\ p[i] = s[i - Len(r)]
            BY <1>1, <1>3, <2>0, <2>2
        <3>2. i - Len(r) \in 1 .. Len(s) + Len(t) /\ i - Len(r) <= Len(s)
            BY <2>0, <2>2
        <3>3. b[i] = q[i - Len(r)] /\ q[i - Len(r)] = s[i - Len(r)]
            BY <1>1, <1>4, <2>0, <2>2, <3>2
        <3> QED BY <3>1, <3>3
    <2>3. CASE ~(i <= Len(r) + Len(s))
        <3>1. a[i] = t[i - (Len(r) + Len(s))]
            BY <1>1, <1>3, <2>0, <2>3
        <3> DEFINE j == i - Len(r)
        <3>2. /\ j \in 1 .. Len(s) + Len(t) /\ ~(j <= Len(s)) /\ ~(i <= Len(r))
              /\ j - Len(s) = i - (Len(r) + Len(s))
            BY <2>0, <2>3
        <3>3. b[i] = q[j]
            <4>1. i \in 1 .. Len(r) + Len(q)
                BY <1>1, <2>0
            <4>2. ~(i <= Len(r))
                BY <3>2
            <4> QED BY Zenon, <1>4, <4>1, <4>2
        <3> HIDE DEF j
        <3>4. q[j] = t[j - Len(s)]
            BY Zenon, <1>8, <3>2
        <3> QED BY <3>1, <3>2, <3>3, <3>4
    <2> QED BY <2>1, <2>2, <2>3
<1>6. Len(a) = Len(b)
    BY <1>1, <1>3, <1>4
<1>7. a = b
    BY <1>3, <1>4, <1>5, <1>6, SameSeq
<1> QED BY <1>7 DEF a, b

LEMMA AllStepsAre ==
    ASSUME NEW s \in Seq(Written)
    PROVE  AllSteps(s) \in Seq(Ask)
<1>1. At(Uncommitted, <<>>, <<>>)
    <2>1. <<>> \in Seq(Entry) /\ <<>> \o <<>> = <<>> /\ Len(<<>>) = 0
        OBVIOUS
    <2> QED BY <2>1 DEF At, Uncommitted
<1>2. PICK G : MadeOf(G, AllSteps(s))
    BY <1>1, SetsMade
<1> QED BY <1>2 DEF MadeOf

LEMMA ConfigStarts == ConfigInit => ConfigIInv
<1> SUFFICES ASSUME ConfigInit PROVE ConfigIInv
    OBVIOUS
<1>1. cfg = [entries |-> <<>>, ip |-> 0, committed |-> library]
    BY DEF ConfigInit, Uncommitted
<1>2. <<>> \in Seq(Entry) /\ <<>> \in Seq(Ask) /\ Len(<<>>) = 0 /\ 1 .. 0 = {}
    OBVIOUS
<1>3. MadeOf(<<>>, <<>>)
    BY <1>2 DEF MadeOf
<1>4. /\ library \in BOOLEAN /\ sources \in Sources /\ asked = <<>> /\ stage = "args" /\ told = NoTold
    BY DEF ConfigInit
<1> QED BY <1>1, <1>2, <1>3, <1>4 DEF ConfigIInv

LEMMA ArgsKeep ==
    ASSUME ConfigIInv, NEW e \in Ops, SetArg(e)
    PROVE  ConfigIInv'
<1>1. /\ stage = "args" /\ cfg' = set(cfg, e) /\ asked' = asked \o Steps(e)
      /\ UNCHANGED <<stage, library, sources, told, later>>
    BY DEF SetArg
<1>2. e \in Written
    BY ConfigAssumption
<1> DEFINE F == cfg.entries
<1>3. MadeOf(F, asked) /\ cfg = [entries |-> F, ip |-> Len(F), committed |-> library] /\ library \in BOOLEAN
    BY <1>1 DEF ConfigIInv
<1> HIDE DEF F
<1>4. F \in Seq(Entry) /\ F \o <<>> = F /\ <<>> \in Seq(Entry)
    <2>1. F \in Seq(Entry)
        BY <1>3 DEF MadeOf
    <2> QED BY <2>1
<1>5. At(cfg, F, <<>>) /\ cfg.committed = library
    BY <1>3, <1>4 DEF At
<1>6. PICK G : /\ At(set(cfg, e), G, <<>>) /\ MadeOf(G, asked \o Steps(e))
               /\ set(cfg, e).committed = library
    BY <1>2, <1>3, <1>5, SetMade
<1>7. cfg' = [entries |-> G \o <<>>, ip |-> Len(G), committed |-> library]
    BY <1>1, <1>6 DEF At
<1>8. G \o <<>> = G
    <2>1. G \in Seq(Entry)
        BY <1>6 DEF MadeOf
    <2> QED BY <2>1
<1>9. MadeOf(cfg'.entries, asked') /\ cfg' = [entries |-> cfg'.entries, ip |-> Len(cfg'.entries), committed |-> library']
    BY <1>1, <1>6, <1>7, <1>8
<1>10. asked' \in Seq(Ask)
    BY <1>9 DEF MadeOf
<1> QED BY <1>1, <1>9, <1>10 DEF ConfigIInv

LEMMA ReadKeeps ==
    ASSUME ConfigIInv, ReadInSettings
    PROVE  ConfigIInv'
<1> DEFINE c == [cfg EXCEPT !.committed = FALSE]
           env == read_in(c, sources["env"])
           per == read_in(env, sources["per"])
           conf == read_in(per, sources["conf"])
           sE == AllSteps(sources["env"])
           sP == AllSteps(sources["per"])
           sC == AllSteps(sources["conf"])
<1>1. /\ stage = "args" /\ stage' \in {"read", "failed"} /\ cfg' = conf
      /\ asked' = sC \o sP \o sE \o asked
      /\ UNCHANGED <<library, sources, told, later>>
    BY DEF ReadInSettings
<1>2. sources["env"] \in Seq(Written) /\ sources["per"] \in Seq(Written) /\ sources["conf"] \in Seq(Written)
    <2>1. sources \in [{"env", "per", "conf"} -> Seq(Written)]
        BY ConfigAssumption DEF ConfigIInv
    <2> QED BY <2>1
<1>3. sE \in Seq(Ask) /\ sP \in Seq(Ask) /\ sC \in Seq(Ask) /\ asked \in Seq(Ask)
    BY <1>2, AllStepsAre DEF ConfigIInv
<1>4. /\ c.entries = cfg.entries /\ c.committed = FALSE
      /\ c = [entries |-> c.entries, ip |-> c.ip, committed |-> c.committed] /\ MadeOf(c.entries, asked)
    <2>1. MadeOf(cfg.entries, asked) /\ cfg = [entries |-> cfg.entries, ip |-> Len(cfg.entries), committed |-> library]
        BY <1>1 DEF ConfigIInv
    <2> DEFINE f == cfg.entries
               n == Len(cfg.entries)
    <2>2. cfg = [entries |-> f, ip |-> n, committed |-> library]
        BY <2>1
    <2> HIDE DEF f, n
    <2>3. c = [entries |-> f, ip |-> n, committed |-> FALSE]
        <3>1. \A m : [cfg EXCEPT !.committed = m] = [entries |-> f, ip |-> n, committed |-> m]
            BY <2>2
        <3> QED BY <3>1
    <2>4. /\ c.entries = f /\ c.committed = FALSE
          /\ c = [entries |-> c.entries, ip |-> c.ip, committed |-> c.committed]
        BY <2>3
    <2> QED BY <2>1, <2>4 DEF f
<1>5. /\ env = [entries |-> env.entries, ip |-> env.ip, committed |-> FALSE] /\ env.committed = FALSE
      /\ MadeOf(env.entries, sE \o asked)
    <2> HIDE DEF c
    <2>1. c.committed \in BOOLEAN
        BY <1>4
    <2>2. /\ env = [entries |-> env.entries, ip |-> env.ip, committed |-> c.committed]
          /\ MadeOf(env.entries, sE \o asked)
        BY <1>2, <1>4, <2>1, ReadMade
    <2> HIDE DEF env
    <2>3. env.committed = c.committed
        BY <2>2
    <2> QED BY <1>4, <2>2, <2>3
<1> HIDE DEF env
<1>6. /\ per = [entries |-> per.entries, ip |-> per.ip, committed |-> FALSE] /\ per.committed = FALSE
      /\ MadeOf(per.entries, sP \o (sE \o asked))
    <2>1. env.committed \in BOOLEAN
        BY <1>5
    <2>2. env = [entries |-> env.entries, ip |-> env.ip, committed |-> env.committed]
        BY <1>5
    <2>3. /\ per = [entries |-> per.entries, ip |-> per.ip, committed |-> env.committed]
          /\ MadeOf(per.entries, sP \o (sE \o asked))
        BY <1>2, <1>5, <2>1, <2>2, ReadMade
    <2> HIDE DEF per
    <2>4. per.committed = env.committed
        BY <2>3
    <2> QED BY <1>5, <2>3, <2>4
<1> HIDE DEF per
<1>7. MadeOf(conf.entries, sC \o (sP \o (sE \o asked)))
    <2>1. per.committed \in BOOLEAN
        BY <1>6
    <2>2. per = [entries |-> per.entries, ip |-> per.ip, committed |-> per.committed]
        BY <1>6
    <2> QED BY <1>2, <1>6, <2>1, <2>2, ReadMade
<1> HIDE DEF conf, sC, sP, sE
<1>8. sC \o sP \o sE \o asked = sC \o (sP \o (sE \o asked))
    <2> DEFINE x == sE \o asked
               y == sC \o sP
               w == sP \o x
               v == y \o sE
    <2>1. x \in Seq(Ask) /\ y \in Seq(Ask)
        BY <1>3
    <2>2. x = sE \o asked /\ y = sC \o sP /\ w = sP \o x /\ v = y \o sE
        OBVIOUS
    <2> HIDE DEF x, y, w, v
    <2>3. v \o asked = y \o x
        <3>1. /\ y \in Seq(Ask) /\ sE \in Seq(Ask) /\ asked \in Seq(Ask)
              /\ v = y \o sE /\ x = sE \o asked
            BY <1>3, <2>1, <2>2
        <3> QED BY <3>1, Joined
    <2>4. y \o x = sC \o w
        <3>1. /\ sC \in Seq(Ask) /\ sP \in Seq(Ask) /\ x \in Seq(Ask)
              /\ y = sC \o sP /\ w = sP \o x
            BY <1>3, <2>1, <2>2
        <3> QED BY <3>1, Joined
    <2>5. v \o asked = sC \o w
        BY <2>3, <2>4
    <2> QED BY <2>5 DEF x, y, w, v
<1>9. MadeOf(cfg'.entries, asked')
    BY <1>1, <1>7, <1>8
<1>10. asked' \in Seq(Ask)
    BY <1>9 DEF MadeOf
<1>11. told = NoTold
    BY <1>1 DEF ConfigIInv
<1> QED BY <1>1, <1>9, <1>10, <1>11 DEF ConfigIInv

LEMMA CommitKeeps ==
    ASSUME ConfigIInv, CommitAll
    PROVE  ConfigIInv'
<1>1. /\ stage = "read" /\ stage' \in {"run", "failed"} /\ cfg' = commit_all(cfg)
      /\ UNCHANGED <<library, sources, asked, told, later>>
    BY DEF CommitAll
<1>2. MadeOf(cfg.entries, asked) /\ told = NoTold
    BY <1>1 DEF ConfigIInv
<1> DEFINE S == AgainAll(<<>>, cfg.entries)
<1>3. StandsFor(S, asked) /\ SaneSeq(S)
    BY <1>2, CommitMade
<1>4. Len(S) = Len(cfg.entries)
    <2>1. cfg.entries \in Seq(Entry)
        BY <1>2 DEF MadeOf
    <2> QED BY <2>1, AgainIs
<1>5. commit_all(cfg) = [entries |-> S, ip |-> Len(cfg.entries), committed |-> TRUE]
    BY DEF commit_all, AgainAll
<1> HIDE DEF S
<1>6. Run(cfg') /\ cfg'.entries = S
    <2>1. cfg' = [entries |-> S, ip |-> Len(S), committed |-> TRUE]
        BY <1>1, <1>4, <1>5
    <2>2. cfg'.entries = S
        BY <2>1
    <2> QED BY <1>3, <2>1, <2>2 DEF Run
<1>7. Waiting'
    BY <1>1, <1>3, <1>6 DEF Waiting
<1> QED BY <1>1, <1>2, <1>7 DEF ConfigIInv

LEMMA LangKeeps ==
    ASSUME ConfigIInv, set_lang_defaults
    PROVE  ConfigIInv'
<1> DEFINE F == cfg.entries
           named == Insert(cfg, Named)
<1>1. /\ stage = "run" /\ told = NoTold
      /\ FirstKeyed(F, "actual-lang") = 0
      /\ cfg' = [named EXCEPT !.entries = LangOps \o named.entries,
                              !.ip = IF named.ip = 0 THEN 0 ELSE named.ip + Len(LangOps)]
      /\ asked' = LangOps \o asked
      /\ UNCHANGED <<stage, library, sources, told, later>>
    BY DEF set_lang_defaults, FirstKeyed, Named
<1>2. PICK S : StandsFor(S, asked) /\ SaneSeq(S) /\ F \in {S, Append(S, Named)} /\ Run(cfg)
    BY <1>1 DEF ConfigIInv, Waiting
<1>3. F = S
    <2> SUFFICES ASSUME F = Append(S, Named) PROVE FALSE
        BY <1>2
    <2>1. S \in Seq(Entry) /\ Named \in Entry
        BY <1>2, NamedIs DEF SaneSeq
    <2>2. FirstKeyed(Append(S, Named), "actual-lang") =
              IF FirstKeyed(S, "actual-lang") # 0 THEN FirstKeyed(S, "actual-lang")
              ELSE IF Named.key = "actual-lang" THEN Len(S) + 1 ELSE 0
        BY <2>1, FirstKeyedMore
    <2>3. Len(S) \in Nat
        BY <2>1
    <2> HIDE DEF F
    <2> QED BY <1>1, <2>2, <2>3, NamedIs
<1>4. F \in Seq(Entry) /\ cfg = [entries |-> F, ip |-> Len(F), committed |-> TRUE] /\ SaneSeq(F)
    BY <1>2 DEF Run, SaneSeq
<1> HIDE DEF F
<1>5. F \o <<>> = F /\ <<>> \in Seq(Entry) /\ Len(F) \in Nat
    BY <1>4
<1>6. At(cfg, F, <<>>) /\ cfg.committed = TRUE
    BY <1>4, <1>5 DEF At
<1>7. At(named, Append(F, Named), <<>>) /\ named.committed = TRUE
    BY <1>6, NamedIs, InsertPut
<1> DEFINE G == Append(F, Named)
<1>8. G \in Seq(Entry) /\ Len(G) = Len(F) + 1
    BY <1>4, NamedIs
<1>17. G = Append(F, Named)
    OBVIOUS
<1> HIDE DEF G
<1>9. G \o <<>> = G
    BY <1>8
<1>10. named = [entries |-> G, ip |-> Len(F) + 1, committed |-> TRUE]
    BY <1>7, <1>8, <1>9 DEF At, G
<1> HIDE DEF named
<1>11. LangOps \in Seq(Entry) /\ Len(LangOps) \in Nat /\ StandsFor(LangOps, LangOps) /\ SaneSeq(LangOps)
    <2>1. StandsFor(LangOps, LangOps) /\ SaneSeq(LangOps)
        BY LangStands
    <2>2. LangOps \in Seq(Entry)
        BY <2>1 DEF SaneSeq
    <2> QED BY <2>1, <2>2
<1> DEFINE T == LangOps \o S
           H == LangOps \o G
<1>12. StandsFor(T, LangOps \o asked) /\ SaneSeq(T)
    BY <1>2, <1>11, BothStand
<1>13. H \in Seq(Entry) /\ Len(H) = Len(LangOps) + Len(F) + 1
    BY <1>8, <1>11, <1>5
<1>14. Append(T, Named) = H
    <2>1. S \in Seq(Entry) /\ G = Append(S, Named)
        BY <1>2, <1>3, <1>17 DEF SaneSeq
    <2> QED BY <1>11, <2>1, NamedIs, AppendLater
<1> HIDE DEF T, H
<1>15. SaneSeq(H)
    BY <1>12, <1>14, NamedIs, SaneMore
<1>16. cfg' = [entries |-> H, ip |-> Len(H), committed |-> TRUE]
    <2>1. named.entries = G /\ named.ip = Len(F) + 1 /\ named.ip # 0
        BY <1>5, <1>10
    <2>2. (Len(F) + 1) + Len(LangOps) = Len(H)
        BY <1>5, <1>11, <1>13
    <2>3. cfg' = [named EXCEPT !.entries = H, !.ip = Len(H)]
        BY <1>1, <2>1, <2>2 DEF H
    <2> QED BY <1>10, <2>3
<1>18. Run(cfg') /\ cfg'.entries = Append(T, Named)
    BY <1>14, <1>15, <1>16 DEF Run
<1>19. Waiting'
    BY <1>1, <1>12, <1>18 DEF Waiting
<1>20. asked' \in Seq(Ask)
    BY <1>1, <1>12 DEF StandsFor
<1> QED BY <1>1, <1>19, <1>20 DEF ConfigIInv

LEMMA WaitingAgrees ==
    ASSUME Waiting
    PROVE  Run(cfg) /\ SaneSeq(cfg.entries) /\ asked \in Seq(Ask)
           /\ \A k \in Key : Agree(cfg.entries, asked, FALSE, k)
<1>1. PICK S : /\ StandsFor(S, asked) /\ SaneSeq(S) /\ cfg.entries \in {S, Append(S, Named)}
               /\ Run(cfg)
    BY DEF Waiting
<1>2. SaneSeq(cfg.entries) /\ asked \in Seq(Ask) /\ S \in Seq(Entry)
    BY <1>1 DEF Run, StandsFor
<1>3. \A k \in Key : Agree(S, asked, FALSE, k)
    BY <1>1, StandingAgrees
<1>4. \A k \in Key : Agree(Append(S, Named), asked, FALSE, k)
    <2> SUFFICES ASSUME NEW k \in Key PROVE Agree(Append(S, Named), asked, FALSE, k)
        OBVIOUS
    <2>1. Named \in Entry /\ Named.key # k
        BY NamedIs
    <2>2. \A c : Agree(S, asked, c, k) => Agree(Append(S, Named), asked, c, k)
        BY <1>2, <2>1, OtherMore
    <2> QED BY <1>3, <2>2
<1> QED BY <1>1, <1>2, <1>3, <1>4

LEMMA AttachKeeps ==
    ASSUME ConfigIInv, Attach
    PROVE  ConfigIInv'
<1> DEFINE d == IF retrieve_any(cfg.entries, "limit") = OverLimit THEN Put(cfg, Limited) ELSE cfg
           t == [k \in Key |-> retrieve_any(d.entries, k)]
<1>1. /\ stage = "run" /\ told = NoTold /\ cfg' = d /\ told' = t
      /\ UNCHANGED <<stage, library, sources, asked, later>>
    BY DEF Attach
<1>2. Waiting
    BY <1>1 DEF ConfigIInv
<1>3. Attached([cfg |-> d, told |-> t], asked)
    BY <1>2, WaitingAgrees, AttachIs
<1> HIDE DEF d, t
<1>4. t # NoTold
    <2> DEFINE s == [cfg |-> d, told |-> t]
    <2>1. s.told = t /\ Attached(s, asked)
        BY <1>3
    <2> HIDE DEF s
    <2> QED BY <2>1, NotNothing
<1>5. Attached([cfg |-> cfg', told |-> told'], asked')
    BY <1>1, <1>3
<1> QED BY <1>1, <1>4, <1>5 DEF ConfigIInv

LEMMA LaterKeeps ==
    ASSUME ConfigIInv, NEW e \in Ops, SetLater(e)
    PROVE  ConfigIInv'
<1> DEFINE z == [cfg |-> cfg, told |-> told]
           s == NotifyAll(z, Steps(e))
<1>1. /\ stage = "run" /\ told # NoTold /\ cfg' = s.cfg /\ told' = s.told /\ asked' = asked \o Steps(e)
      /\ UNCHANGED <<stage, library, sources>>
    BY DEF SetLater, NotifyAll
<1>2. e \in Written /\ Steps(e) \in Seq(Ask)
    BY ConfigAssumption, StepsAre
<1>3. Attached(z, asked)
    BY <1>1 DEF ConfigIInv
<1> HIDE DEF z
<1>4. Attached(s, asked \o Steps(e))
    BY <1>2, <1>3, NotifiesKeep
<1> HIDE DEF s
<1>5. s = [cfg |-> cfg', told |-> told'] /\ asked' \in Seq(Ask)
    BY <1>1, <1>4 DEF Attached
<1>6. told' # NoTold
    BY <1>1, <1>4, NotNothing
<1>7. Attached([cfg |-> cfg', told |-> told'], asked')
    BY <1>1, <1>4, <1>5
<1> QED BY <1>1, <1>5, <1>6, <1>7 DEF ConfigIInv

LEMMA ConfigStays == ConfigIInv /\ [ConfigNext]_configvars => ConfigIInv'
<1> SUFFICES ASSUME ConfigIInv, [ConfigNext]_configvars PROVE ConfigIInv'
    OBVIOUS
<1>1. ASSUME NEW e \in Ops, SetArg(e) PROVE ConfigIInv'
    BY <1>1, ArgsKeep
<1>2. ASSUME NEW e \in Ops, SetLater(e) PROVE ConfigIInv'
    BY <1>2, LaterKeeps
<1>3. CASE ReadInSettings
    BY <1>3, ReadKeeps
<1>4. CASE CommitAll
    BY <1>4, CommitKeeps
<1>5. CASE set_lang_defaults
    BY <1>5, LangKeeps
<1>6. CASE Attach
    BY <1>6, AttachKeeps
<1>7. CASE UNCHANGED configvars
    BY <1>7 DEF configvars, ConfigIInv, Waiting
<1> QED BY <1>1, <1>2, <1>3, <1>4, <1>5, <1>6, <1>7 DEF ConfigNext

LEMMA ConfigHolds == ConfigIInv => SettingsHold
<1> SUFFICES ASSUME ConfigIInv, stage = "run" PROVE SettingsHold
    BY DEF SettingsHold, LayersDecide, NotifierUpToDate, DumpRestores
<1> DEFINE es == cfg.entries
<1>1. SaneSeq(es) /\ \A k \in Key : Agree(es, asked, told # NoTold, k)
    <2>1. CASE told = NoTold
        <3>1. Waiting
            BY <2>1 DEF ConfigIInv
        <3>2. (told # NoTold) = FALSE
            BY <2>1
        <3>3. SaneSeq(es) /\ \A k \in Key : Agree(es, asked, FALSE, k)
            BY <3>1, WaitingAgrees
        <3> QED BY <3>2, <3>3
    <2>2. CASE told # NoTold
        <3>1. Attached([cfg |-> cfg, told |-> told], asked)
            BY <2>2 DEF ConfigIInv
        <3>2. (told # NoTold) = TRUE
            BY <2>2
        <3>3. SaneSeq(es) /\ \A k \in Key : Agree(es, asked, TRUE, k)
            BY <3>1 DEF Attached, Run
        <3> QED BY <3>2, <3>3
    <2> QED BY <2>1, <2>2
<1>2. LayersDecide
    <2>1. es \in Seq(Entry)
        BY <1>1 DEF SaneSeq
    <2> QED BY <1>1, <2>1, Decided
<1>3. NotifierUpToDate
    <2> SUFFICES ASSUME told # NoTold, NEW k \in Trusted \ {"pws"}
                 PROVE  told[k] = retrieve_any(es, k) \/ Unwelcome(k, retrieve_any(es, k))
        BY DEF NotifierUpToDate
    <2>1. Heeds(es, told)
        BY DEF ConfigIInv, Attached
    <2>2. k \in Key \ {"pws"} /\ ~(TypeOf(k) = "list" /\ Mis(es, k))
        BY MistakenIs DEF Trusted
    <2> QED BY <2>1, <2>2 DEF Heeds, Hears
<1>4. DumpRestores
    <2> SUFFICES ASSUME NEW k \in Trusted, ~ClearedByNext(k) PROVE Restored(k)
        BY DEF DumpRestores
    <2>1. k \in Key /\ ~(TypeOf(k) = "list" /\ Mis(es, k))
        BY MistakenIs DEF Trusted
    <2>2. TypeOf(k) = "list" => ~Cleared(es, k)
        BY DEF ClearedByNext, Cleared, ListStart, From
    <2>3. TypeOf(k) = "list" => ~Mis(es, k) /\ ~Cleared(es, k)
        BY <2>1, <2>2
    <2> HIDE DEF es
    <2>4. retrieve_any(commit_all(read_in(Uncommitted, Dump(es))).entries, k) = retrieve_any(es, k)
        BY <1>1, <2>1, <2>3, DumpIs
    <2> QED BY <2>4 DEF Restored, es
<1> QED BY <1>2, <1>3, <1>4 DEF SettingsHold

(* Whatever changes come from the command line, the environment, the files *)
(* and at run time, and whatever the language's own file holds: every      *)
(* setting that the code does not mistake for one of a list is answered,   *)
(* announced to the notifier (unless that refused it, and it stays all the *)
(* same) and dumped as the last change of the layer that counts asks       *)
(* (Config::lookup, lookup_list, set, commit, commit_all, read_in_settings *)
(* and write_to_stream).                                                   *)
THEOREM SettingsHoldAlways == ConfigSpec => []SettingsHold
<1>1. ConfigInit => ConfigIInv
    BY ConfigStarts
<1>2. ConfigIInv /\ [ConfigNext]_configvars => ConfigIInv'
    BY ConfigStays
<1>3. ConfigIInv => SettingsHold
    BY ConfigHolds
<1> QED BY <1>1, <1>2, <1>3, PTL DEF ConfigSpec
=============================================================================
