-------------------------- MODULE StandaloneProofs --------------------------
(***************************************************************************)
(* Two parts that the run Algorithms checks each by itself: the caches of  *)
(* aspell, for any number of holders, keys, file versions and loads, and   *)
(* the detector of libchardet, for any buffers and any models of languages.*)
(***************************************************************************)
EXTENDS Cache, Detector, Recursion

-----------------------------------------------------------------------------
(* The caches: the counts are the numbers of pointers, and no pointer      *)
(* leads to a thing that was freed.                                        *)

Load == [key : CacheKeys, version : Nat, refcount : Nat, live : BOOLEAN]

(* The variables have their types, pointers lead to what was read, and no  *)
(* reset has reading a version that is yet to come.                           *)
CacheTypeOK ==
    /\ loads \in Seq(Load)
    /\ cached \subseteq DOMAIN loads
    /\ ptr \in [Holders -> 0 .. Len(loads)]
    /\ given \in [Holders -> 0 .. Len(loads)]
    /\ reading \in [Holders -> [of : Holders, id : 0 .. Len(loads)]]
    /\ raced \in BOOLEAN
    /\ disk \in [CacheKeys -> Nat]
    /\ resetAt \in [CacheKeys -> Nat]
    /\ \A k \in CacheKeys : resetAt[k] <= disk[k]

(* What was read without the lock is still what that pointer points to,    *)
(* and who has read it has been given nothing.                             *)
ReadStands == \A h \in Holders : reading[h].id # 0 => reading[h].id = ptr[reading[h].of] /\ given[h] = 0

CacheIInv == CacheTypeOK /\ CountsHold /\ ReadStands

Pointing(f, id) == {h \in Holders : f[h] = id}
Sets(g, f, h, v) == g = [f EXCEPT ![h] = v]

-----------------------------------------------------------------------------
(* Counting.                                                               *)

LEMMA PointingFinite ==
    ASSUME NEW f, NEW id
    PROVE  IsFiniteSet(Pointing(f, id)) /\ Cardinality(Pointing(f, id)) \in Nat
<1>1. Pointing(f, id) \subseteq Holders
  BY DEF Pointing
<1> QED BY <1>1, CacheAssumption, FS_Subset, FS_CardinalityType

(* Setting one pointer takes one from the number of pointers to what it    *)
(* pointed to and adds one to the number of those to what it points to.    *)
LEMMA Moved ==
    ASSUME NEW f \in [Holders -> Nat], NEW g, NEW h \in Holders, NEW v, NEW id,
           Sets(g, f, h, v)
    PROVE  /\ Cardinality(Pointing(f, id)) \in Nat
           /\ Cardinality(Pointing(g, id)) \in Nat
           /\ Cardinality(Pointing(g, id)) + (IF f[h] = id THEN 1 ELSE 0)
                 = Cardinality(Pointing(f, id)) + (IF v = id THEN 1 ELSE 0)
<1> DEFINE Rest == {x \in Holders \ {h} : f[x] = id}
<1>1. IsFiniteSet(Rest)
  BY CacheAssumption, FS_Subset
<1>2. /\ Cardinality(Rest) \in Nat
      /\ Cardinality(Rest \cup {h}) = Cardinality(Rest) + 1
  BY <1>1, FS_CardinalityType, FS_AddElement
<1>3. Pointing(f, id) = IF f[h] = id THEN Rest \cup {h} ELSE Rest
  BY DEF Pointing
<1>4. Pointing(g, id) = IF v = id THEN Rest \cup {h} ELSE Rest
  BY DEF Pointing, Sets
<1> HIDE DEF Rest
<1>5. /\ Cardinality(Pointing(f, id)) = IF f[h] = id THEN Cardinality(Rest) + 1 ELSE Cardinality(Rest)
      /\ Cardinality(Pointing(g, id)) = IF v = id THEN Cardinality(Rest) + 1 ELSE Cardinality(Rest)
  BY <1>2, <1>3, <1>4
<1> QED BY <1>2, <1>5

(* What a pointer leads to is counted.                                     *)
LEMMA SomePointing ==
    ASSUME NEW f \in [Holders -> Nat], NEW h \in Holders
    PROVE  Cardinality(Pointing(f, f[h])) \in Nat \ {0}
<1> DEFINE S == Pointing(f, f[h])
<1>1. IsFiniteSet(S) /\ h \in S
  BY CacheAssumption, FS_Subset DEF Pointing
<1>2. Cardinality(S) \in Nat /\ (Cardinality(S) = 0 <=> S = {})
  BY <1>1, FS_CardinalityType, FS_EmptySet
<1> QED BY <1>1, <1>2

Tallied ==
    \A id \in DOMAIN loads :
       loads[id].refcount = Cardinality(Pointing(ptr, id)) + Cardinality(Pointing(given, id))
Lives == \A id \in DOMAIN loads : loads[id].live <=> loads[id].refcount > 0
ListedWell ==
    \A id \in cached :
       /\ loads[id].live
       /\ loads[id].version >= resetAt[loads[id].key]
       /\ \A other \in cached : loads[other].key = loads[id].key => other = id

(* That pointers lead to what lives follows from the counts.               *)
LEMMA CountsSuffice == CacheTypeOK /\ ReadStands => (CountsHold <=> Tallied /\ Lives /\ ListedWell)
<1> SUFFICES ASSUME CacheTypeOK, ReadStands PROVE CountsHold <=> Tallied /\ Lives /\ ListedWell
  OBVIOUS
<1>1. \A id : PointersTo(id) = Pointing(ptr, id)
  BY DEF PointersTo, Pointing
<1>2. \A id : AboutToPointTo(id) = Pointing(given, id)
  BY DEF AboutToPointTo, Pointing
<1>3. ASSUME Tallied, Lives, NEW h \in Holders, NEW id \in {ptr[h], given[h]}, id # 0
      PROVE  loads[id].live
  <2>1. /\ ptr \in [Holders -> Nat] /\ given \in [Holders -> Nat]
        /\ id \in DOMAIN loads
    BY <1>3 DEF CacheTypeOK
  <2>2. loads[id].refcount = Cardinality(Pointing(ptr, id)) + Cardinality(Pointing(given, id))
    BY <1>3, <2>1 DEF Tallied
  <2>3. Cardinality(Pointing(ptr, id)) \in Nat /\ Cardinality(Pointing(given, id)) \in Nat
    BY PointingFinite
  <2>4. \/ Cardinality(Pointing(ptr, id)) \in Nat \ {0}
        \/ Cardinality(Pointing(given, id)) \in Nat \ {0}
    BY <2>1, SomePointing
  <2>5. loads[id].refcount > 0
    BY <2>2, <2>3, <2>4
  <2> QED BY <1>3, <2>1, <2>5 DEF Lives
<1>4. ASSUME Tallied, Lives, NEW h \in Holders, reading[h].id # 0
      PROVE  loads[reading[h].id].live
  <2>1. reading[h].of \in Holders /\ reading[h].id = ptr[reading[h].of]
    BY <1>4 DEF CacheTypeOK, ReadStands
  <2> QED BY <1>3, <1>4, <2>1
<1>5. Tallied /\ Lives =>
         \A h \in Holders : \A id \in {ptr[h], given[h], reading[h].id} : id # 0 => loads[id].live
  BY <1>3, <1>4
<1> QED BY <1>1, <1>2, <1>5 DEF CountsHold, Tallied, Lives, ListedWell

-----------------------------------------------------------------------------
(* The steps.                                                              *)

LEMMA LoadCounted ==
    ASSUME NEW x \in Load, NEW n \in Nat, NEW y, y = [x EXCEPT !.refcount = x.refcount + n]
    PROVE  /\ y \in Load
           /\ y.refcount = x.refcount + n
           /\ y.key = x.key /\ y.version = x.version /\ y.live = x.live
<1> QED BY DEF Load

(* A thing that is alive gets one more pointer to come.                    *)
LEMMA HandedStep ==
    ASSUME CacheIInv, NEW h \in Holders, NEW id \in DOMAIN loads,
           given[h] = 0, loads[id].live, loads' = CountChanged(id, 1),
           given' = [given EXCEPT ![h] = id],
           UNCHANGED <<cached, ptr, disk, resetAt>>,
           reading' \in [Holders -> [of : Holders, id : 0 .. Len(loads)]], reading'[h].id = 0,
           \A x \in Holders \ {h} : reading'[x] = reading[x], raced' = raced
    PROVE  CacheIInv'
<1>1. CacheTypeOK /\ Tallied /\ Lives /\ ListedWell
  BY CountsSuffice DEF CacheIInv
<1>2. /\ loads \in Seq(Load) /\ id # 0 /\ id \in 1 .. Len(loads)
      /\ given \in [Holders -> Nat]
  BY <1>1 DEF CacheTypeOK
<1> DEFINE new == [loads[id] EXCEPT !.refcount = loads[id].refcount + 1]
<1>3. /\ new \in Load
      /\ new.refcount = loads[id].refcount + 1
      /\ new.key = loads[id].key /\ new.version = loads[id].version
      /\ new.live = loads[id].live
  <2>1. loads[id] \in Load /\ 1 \in Nat
    BY <1>2
  <2> QED BY <2>1, LoadCounted
<1>4. loads' = [loads EXCEPT ![id] = new]
  BY DEF CountChanged
<1> HIDE DEF new
<1>5. /\ loads' \in Seq(Load) /\ Len(loads') = Len(loads)
      /\ DOMAIN loads' = DOMAIN loads
      /\ loads'[id] = new
      /\ \A j \in DOMAIN loads \ {id} : loads'[j] = loads[j]
  BY <1>2, <1>3, <1>4
<1>6. CacheTypeOK'
  BY <1>1, <1>2, <1>5 DEF CacheTypeOK
<1>7. Tallied'
  <2>1. ASSUME NEW j \in DOMAIN loads
        PROVE  /\ Cardinality(Pointing(ptr, j)) \in Nat
               /\ Cardinality(Pointing(given, j)) \in Nat
               /\ Cardinality(Pointing(given', j))
                     = Cardinality(Pointing(given, j)) + (IF j = id THEN 1 ELSE 0)
    <3>1. ptr \in [Holders -> Nat] /\ j # 0
      BY <1>1, <1>2 DEF CacheTypeOK
    <3>2. Cardinality(Pointing(ptr, j)) \in Nat
      BY PointingFinite
    <3>3. Sets(given', given, h, id)
      BY DEF Sets
    <3>4. /\ Cardinality(Pointing(given, j)) \in Nat
          /\ Cardinality(Pointing(given', j)) \in Nat
          /\ Cardinality(Pointing(given', j)) + (IF given[h] = j THEN 1 ELSE 0)
                = Cardinality(Pointing(given, j)) + (IF id = j THEN 1 ELSE 0)
      BY <1>2, <3>3, Moved
    <3> QED BY <3>1, <3>2, <3>4
  <2>2. \A j \in DOMAIN loads : Pointing(ptr, j)' = Pointing(ptr, j)
    BY DEF Pointing
  <2>3. ASSUME NEW j \in DOMAIN loads
        PROVE  loads'[j].refcount = loads[j].refcount + (IF j = id THEN 1 ELSE 0)
    <3>1. loads[j] \in Load
      BY <1>2
    <3>2. loads[j].refcount \in Nat
      BY <3>1 DEF Load
    <3> QED BY <1>3, <1>5, <3>2
  <2>4. \A j : Pointing(given, j)' = Pointing(given', j)
    BY DEF Pointing
  <2>5. ASSUME NEW j \in DOMAIN loads
        PROVE  loads'[j].refcount = Cardinality(Pointing(ptr, j))' + Cardinality(Pointing(given, j))'
    <3>1. loads[j].refcount = Cardinality(Pointing(ptr, j)) + Cardinality(Pointing(given, j))
      BY <1>1 DEF Tallied
    <3>2. /\ Cardinality(Pointing(ptr, j))' = Cardinality(Pointing(ptr, j))
          /\ Cardinality(Pointing(given, j))' = Cardinality(Pointing(given', j))
      BY <2>2, <2>4
    <3>3. /\ Cardinality(Pointing(ptr, j)) \in Nat
          /\ Cardinality(Pointing(given, j)) \in Nat
          /\ Cardinality(Pointing(given', j))
                = Cardinality(Pointing(given, j)) + (IF j = id THEN 1 ELSE 0)
      BY <2>1
    <3>4. loads'[j].refcount = loads[j].refcount + (IF j = id THEN 1 ELSE 0)
      BY <2>3
    <3> QED BY <3>1, <3>2, <3>3, <3>4
  <2> QED BY <1>5, <2>5 DEF Tallied
<1>8. Lives'
  <2>1. loads[id] \in Load
    BY <1>2
  <2>2. loads[id].refcount \in Nat
    BY <2>1 DEF Load
  <2>3. loads'[id].refcount > 0
    BY <1>3, <1>5, <2>2
  <2>4. loads'[id].live
    BY <1>3, <1>5, Zenon
  <2> QED BY <1>1, <1>5, <2>3, <2>4 DEF Lives
<1>9. ListedWell'
  <2>1. \A j \in DOMAIN loads : loads'[j].key = loads[j].key /\ loads'[j].version = loads[j].version
    BY <1>3, <1>5
  <2>2. \A j \in cached : loads'[j].live
    BY <1>1, <1>3, <1>5 DEF ListedWell, CacheTypeOK
  <2>3. cached \subseteq DOMAIN loads
    BY <1>1 DEF CacheTypeOK
  <2>4. ASSUME NEW j \in cached
        PROVE  /\ loads'[j].version >= resetAt[loads'[j].key]
               /\ \A other \in cached : loads'[other].key = loads'[j].key => other = j
    BY <1>1, <2>1, <2>3 DEF ListedWell
  <2> QED BY <2>2, <2>4 DEF ListedWell
<1>11. ReadStands'
  <2> SUFFICES ASSUME NEW x \in Holders, reading'[x].id # 0
               PROVE  reading'[x].id = ptr'[reading'[x].of] /\ given'[x] = 0
    BY DEF ReadStands
  <2>1. x # h /\ reading'[x] = reading[x]
    OBVIOUS
  <2>2. reading[x].id = ptr[reading[x].of] /\ given[x] = 0
    BY <2>1 DEF CacheIInv, ReadStands
  <2> QED BY <1>2, <2>1, <2>2
<1>10. CountsHold'
  BY <1>6, <1>7, <1>8, <1>9, <1>11, CountsSuffice, PTL
<1> QED BY <1>6, <1>10, <1>11 DEF CacheIInv

Lessened(y, x, l) == y = [x EXCEPT !.refcount = @ - 1, !.live = l]

LEMMA LoadLeft ==
    ASSUME NEW x \in Load, x.refcount \in Nat \ {0}, NEW l \in BOOLEAN, NEW y,
           Lessened(y, x, l)
    PROVE  /\ y \in Load
           /\ y.refcount = x.refcount - 1
           /\ y.key = x.key /\ y.version = x.version /\ y.live = l
<1> DEFINE n == x.refcount - 1
<1>1. n \in Nat
  OBVIOUS
<1>2. y = [x EXCEPT !.refcount = n, !.live = l]
  BY DEF Lessened
<1> HIDE DEF n
<1>3. /\ y \in Load
      /\ y.refcount = n
      /\ y.key = x.key /\ y.version = x.version /\ y.live = l
  BY <1>1, <1>2 DEF Load
<1> QED BY <1>3 DEF n

(* The pointer that is set gives up what it had and takes what was given;  *)
(* what nobody points to any more is freed and leaves the cache.           *)
LEMMA SetPtrStep ==
    ASSUME CacheIInv, NEW h \in Holders, SetPtr(h), ~raced'
    PROVE  CacheIInv'
<1> DEFINE old == ptr[h]
           new == given[h]
<1>1. CacheTypeOK /\ Tallied /\ Lives /\ ListedWell
  BY CountsSuffice DEF CacheIInv
<1>2. /\ loads \in Seq(Load) /\ DOMAIN loads = 1 .. Len(loads)
      /\ ptr \in [Holders -> Nat] /\ given \in [Holders -> Nat]
      /\ old \in 0 .. Len(loads) /\ new \in 0 .. Len(loads)
      /\ Len(loads) \in Nat
  BY <1>1 DEF CacheTypeOK
<1>3. /\ Release(old)
      /\ ptr' = [ptr EXCEPT ![h] = new]
      /\ given' = [given EXCEPT ![h] = 0]
      /\ UNCHANGED <<reading, disk, resetAt>>
      /\ raced' \in BOOLEAN
  BY DEF SetPtr
<1>8. ReadStands'
  <2> SUFFICES ASSUME NEW x \in Holders, reading[x].id # 0
               PROVE  reading[x].id = ptr'[reading[x].of] /\ given'[x] = 0
    BY <1>3 DEF ReadStands
  <2>1. x # h /\ reading[x].of # h
    BY DEF SetPtr
  <2>2. reading[x].id = ptr[reading[x].of] /\ given[x] = 0 /\ reading[x].of \in Holders
    BY <1>1 DEF CacheIInv, ReadStands, CacheTypeOK
  <2> QED BY <1>2, <1>3, <2>1, <2>2
(* How the numbers of pointers change.                                     *)
<1>4. ASSUME NEW j \in DOMAIN loads
      PROVE  Cardinality(Pointing(ptr', j)) + Cardinality(Pointing(given', j))
                + (IF j = old THEN 1 ELSE 0)
                = Cardinality(Pointing(ptr, j)) + Cardinality(Pointing(given, j))
  <2>1. Sets(ptr', ptr, h, new) /\ Sets(given', given, h, 0)
    BY <1>3 DEF Sets
  <2>2. Cardinality(Pointing(ptr', j)) + (IF old = j THEN 1 ELSE 0)
           = Cardinality(Pointing(ptr, j)) + (IF new = j THEN 1 ELSE 0)
    BY <1>2, <2>1, Moved
  <2>3. Cardinality(Pointing(given', j)) + (IF new = j THEN 1 ELSE 0)
           = Cardinality(Pointing(given, j)) + (IF 0 = j THEN 1 ELSE 0)
    BY <1>2, <2>1, Moved
  <2>4. /\ Cardinality(Pointing(ptr, j)) \in Nat /\ Cardinality(Pointing(given, j)) \in Nat
        /\ Cardinality(Pointing(ptr', j)) \in Nat /\ Cardinality(Pointing(given', j)) \in Nat
    BY PointingFinite
  <2>5. j # 0
    BY <1>2
  <2> HIDE DEF old, new
  <2> QED BY <2>2, <2>3, <2>4, <2>5
<1>5. ASSUME NEW j \in DOMAIN loads
      PROVE  /\ Pointing(ptr, j)' = Pointing(ptr', j)
             /\ Pointing(given, j)' = Pointing(given', j)
             /\ loads[j].refcount = Cardinality(Pointing(ptr, j)) + Cardinality(Pointing(given, j))
             /\ Cardinality(Pointing(ptr, j)) \in Nat /\ Cardinality(Pointing(given, j)) \in Nat
             /\ Cardinality(Pointing(ptr', j)) \in Nat /\ Cardinality(Pointing(given', j)) \in Nat
  <2>1. Pointing(ptr, j)' = Pointing(ptr', j) /\ Pointing(given, j)' = Pointing(given', j)
    BY DEF Pointing
  <2>2. loads[j].refcount = Cardinality(Pointing(ptr, j)) + Cardinality(Pointing(given, j))
    BY <1>1 DEF Tallied
  <2> QED BY <2>1, <2>2, PointingFinite
<1>6. CASE old = 0
  <2>1. UNCHANGED <<loads, cached>>
    BY <1>3, <1>6 DEF Release
  <2>2. CacheTypeOK'
    BY <1>1, <1>2, <1>3, <2>1 DEF CacheTypeOK
  <2>3. Tallied'
    <3>1. ASSUME NEW j \in DOMAIN loads
          PROVE  loads[j].refcount = Cardinality(Pointing(ptr, j))' + Cardinality(Pointing(given, j))'
      <4>1. j # old
        BY <1>2, <1>6
      <4> HIDE DEF old
      <4> QED BY <1>4, <1>5, <4>1
    <3> QED BY <2>1, <3>1 DEF Tallied
  <2>4. Lives' /\ ListedWell'
    BY <1>1, <1>3, <2>1 DEF Lives, ListedWell
  <2>5. CountsHold'
    BY <2>2, <2>3, <2>4, <1>8, CountsSuffice, PTL
  <2> QED BY <1>8, <2>2, <2>5 DEF CacheIInv
<1>7. CASE old # 0
  <2>1. old \in DOMAIN loads /\ loads[old] \in Load
    BY <1>2, <1>7
  <2>2. loads[old].refcount \in Nat \ {0}
    <3>1. Cardinality(Pointing(ptr, old)) \in Nat \ {0}
      BY <1>2, SomePointing
    <3> QED BY <1>5, <2>1, <3>1
  <2> DEFINE left == [loads[old] EXCEPT !.refcount = @ - 1, !.live = @ /\ loads[old].refcount > 1]
  <2>3. /\ loads' = [loads EXCEPT ![old].refcount = @ - 1, ![old].live = @ /\ loads[old].refcount > 1]
        /\ cached' = IF loads[old].refcount = 1 THEN cached \ {old} ELSE cached
    BY <1>3, <1>7 DEF Release, Left
  <2>4. loads' = [loads EXCEPT ![old] = left]
    BY <1>2, <2>1, <2>3
  <2>5. /\ left \in Load
        /\ left.refcount = loads[old].refcount - 1
        /\ left.key = loads[old].key /\ left.version = loads[old].version
    <3> DEFINE stays == loads[old].live /\ loads[old].refcount > 1
    <3>1. stays \in BOOLEAN
      OBVIOUS
    <3>2. Lessened(left, loads[old], stays)
      BY DEF Lessened
    <3> HIDE DEF stays, left
    <3> QED BY <2>1, <2>2, <3>1, <3>2, LoadLeft
  <2>6. left.live <=> left.refcount > 0
    <3>1. left.live <=> loads[old].live /\ loads[old].refcount > 1
      BY <2>1 DEF Load
    <3>2. loads[old].live
      BY <1>1, <2>1, <2>2 DEF Lives
    <3> QED BY <2>2, <2>5, <3>1, <3>2
  <2> HIDE DEF left, old, new
  <2>7. /\ loads' \in Seq(Load) /\ Len(loads') = Len(loads)
        /\ DOMAIN loads' = DOMAIN loads
        /\ loads'[old] = left
        /\ \A j \in DOMAIN loads \ {old} : loads'[j] = loads[j]
    BY <1>2, <2>1, <2>4, <2>5
  <2>8. CacheTypeOK'
    <3>1. ptr' \in [Holders -> 0 .. Len(loads)] /\ given' \in [Holders -> 0 .. Len(loads)]
      BY <1>1, <1>2, <1>3 DEF CacheTypeOK
    <3>2. cached' \subseteq DOMAIN loads'
      BY <1>1, <2>3, <2>7 DEF CacheTypeOK
    <3> QED BY <1>1, <1>3, <2>7, <3>1, <3>2 DEF CacheTypeOK
  <2>9. Tallied'
    <3>1. ASSUME NEW j \in DOMAIN loads
          PROVE  loads'[j].refcount = Cardinality(Pointing(ptr, j))' + Cardinality(Pointing(given, j))'
      <4>1. CASE j = old
        BY <1>4, <1>5, <2>5, <2>7, <4>1
      <4>2. CASE j # old
        BY <1>4, <1>5, <2>7, <4>2
      <4> QED BY <4>1, <4>2
    <3> QED BY <2>7, <3>1 DEF Tallied
  <2>10. Lives'
    <3>1. ASSUME NEW j \in DOMAIN loads \ {old}
          PROVE  loads'[j].live <=> loads'[j].refcount > 0
      BY <1>1, <2>7 DEF Lives
    <3>2. loads'[old].live <=> loads'[old].refcount > 0
      BY <2>6, <2>7, Zenon
    <3> QED BY <2>1, <2>7, <3>1, <3>2 DEF Lives
  <2>11. ListedWell'
    <3>1. \A j \in DOMAIN loads : loads'[j].key = loads[j].key /\ loads'[j].version = loads[j].version
      BY <2>5, <2>7
    <3>2. cached' \subseteq cached /\ cached \subseteq DOMAIN loads
      BY <1>1, <2>3 DEF CacheTypeOK
    <3>3. ASSUME NEW j \in cached'
          PROVE  loads'[j].live
      <4>1. CASE j # old
        BY <1>1, <2>7, <3>2, <4>1 DEF ListedWell
      <4>2. CASE j = old
        <5>1. loads[old].refcount # 1
          BY <2>3, <4>2
        <5>2. loads'[old].refcount > 0
          BY <2>2, <2>5, <2>7, <5>1
        <5> QED BY <2>1, <2>7, <2>10, <4>2, <5>2 DEF Lives
      <4> QED BY <4>1, <4>2
    <3> QED BY <1>1, <1>3, <3>1, <3>2, <3>3 DEF ListedWell
  <2>12. CountsHold'
    BY <2>8, <2>9, <2>10, <2>11, <1>8, CountsSuffice, PTL
  <2> QED BY <1>8, <2>8, <2>12 DEF CacheIInv
<1> QED BY <1>6, <1>7

(* What is read is listed for a key that had nothing listed, as new as the *)
(* file, and with the one pointer it is for.                               *)
LEMMA ReadNewStep ==
    ASSUME CacheIInv, NEW h \in Holders, NEW k \in CacheKeys, ReadNew(h, k)
    PROVE  CacheIInv'
<1> DEFINE id == Len(loads) + 1
           new == [key |-> k, version |-> disk[k], refcount |-> 1, live |-> TRUE]
<1>1. CacheTypeOK /\ Tallied /\ Lives /\ ListedWell
  BY CountsSuffice DEF CacheIInv
<1>2. /\ loads \in Seq(Load) /\ DOMAIN loads = 1 .. Len(loads) /\ Len(loads) \in Nat
      /\ ptr \in [Holders -> Nat] /\ given \in [Holders -> Nat]
      /\ ptr \in [Holders -> 0 .. Len(loads)] /\ given \in [Holders -> 0 .. Len(loads)]
      /\ cached \subseteq 1 .. Len(loads)
  BY <1>1 DEF CacheTypeOK
<1>3. /\ given[h] = 0 /\ CachedFor(k) = {}
      /\ loads' = Append(loads, new)
      /\ cached' = cached \cup {id}
      /\ given' = [given EXCEPT ![h] = id]
      /\ UNCHANGED <<ptr, reading, raced, disk, resetAt>>
      /\ reading[h].id = 0
  BY DEF ReadNew, Idle
<1>4. /\ new \in Load
      /\ new.key = k /\ new.version = disk[k] /\ new.refcount = 1 /\ new.live
  BY <1>1 DEF Load, CacheTypeOK
<1> HIDE DEF new
<1>5. /\ loads' \in Seq(Load) /\ Len(loads') = id
      /\ DOMAIN loads' = 1 .. id
      /\ loads'[id] = new
      /\ \A j \in 1 .. Len(loads) : loads'[j] = loads[j]
  BY <1>2, <1>3, <1>4
<1>6. CacheTypeOK'
  <2>1. 0 .. Len(loads) \subseteq 0 .. id /\ id \in 0 .. id
    BY <1>2
  <2>2. cached' \subseteq 1 .. id
    <3>1. \A j \in 1 .. Len(loads) : j \in 1 .. id
      BY <1>2
    <3>2. id \in 1 .. id
      BY <1>2
    <3> HIDE DEF id
    <3> QED BY <1>2, <1>3, <3>1, <3>2
  <2> HIDE DEF id
  <2>3. ptr' \in [Holders -> 0 .. id] /\ given' \in [Holders -> 0 .. id]
    BY <1>2, <1>3, <2>1
  <2>4. reading' \in [Holders -> [of : Holders, id : 0 .. id]]
    <3>1. reading \in [Holders -> [of : Holders, id : 0 .. Len(loads)]]
      BY <1>1 DEF CacheTypeOK
    <3> QED BY <1>3, <2>1, <3>1
  <2> QED BY <1>1, <1>3, <1>5, <2>2, <2>3, <2>4 DEF CacheTypeOK
<1>7. Tallied'
  <2> SUFFICES ASSUME NEW j \in 1 .. id
               PROVE  loads'[j].refcount = Cardinality(Pointing(ptr, j))' + Cardinality(Pointing(given, j))'
    BY <1>5 DEF Tallied
  <2>1. Sets(given', given, h, id)
    BY <1>3 DEF Sets
  <2>2. Cardinality(Pointing(given', j)) + (IF given[h] = j THEN 1 ELSE 0)
           = Cardinality(Pointing(given, j)) + (IF id = j THEN 1 ELSE 0)
    BY <1>2, <2>1, Moved
  <2>3. Pointing(ptr, j)' = Pointing(ptr, j) /\ Pointing(given, j)' = Pointing(given', j)
    BY <1>3 DEF Pointing
  <2>4. Cardinality(Pointing(given, j)) \in Nat /\ Cardinality(Pointing(given', j)) \in Nat
    BY PointingFinite
  <2>5. given[h] # j
    BY <1>2, <1>3
  <2>6. CASE j = id
    <3>1. Pointing(ptr, j) = {} /\ Pointing(given, j) = {}
      BY <1>2, <2>6 DEF Pointing
    <3>2. Cardinality(Pointing(ptr, j)) = 0 /\ Cardinality(Pointing(given, j)) = 0
      BY <3>1, FS_EmptySet
    <3> HIDE DEF id
    <3> QED BY <1>4, <1>5, <2>2, <2>3, <2>4, <2>5, <2>6, <3>2
  <2>7. CASE j # id
    <3>1. j \in 1 .. Len(loads)
      BY <1>2, <2>7
    <3>2. loads'[j].refcount = Cardinality(Pointing(ptr, j)) + Cardinality(Pointing(given, j))
      BY <1>1, <1>2, <1>5, <3>1 DEF Tallied
    <3> HIDE DEF id
    <3> QED BY <2>2, <2>3, <2>4, <2>5, <2>7, <3>2
  <2> QED BY <2>6, <2>7
<1>8. Lives'
  <2>1. ASSUME NEW j \in 1 .. Len(loads)
        PROVE  loads'[j].live <=> loads'[j].refcount > 0
    BY <1>1, <1>2, <1>5 DEF Lives
  <2>2. loads'[id].live
    BY <1>4, <1>5, Zenon
  <2>3. loads'[id].refcount = 1
    BY <1>4, <1>5
  <2>4. \A j \in 1 .. id : j = id \/ j \in 1 .. Len(loads)
    BY <1>2
  <2> QED BY <1>5, <2>1, <2>2, <2>3, <2>4 DEF Lives
<1>9. ListedWell'
  <2>1. \A j \in cached : loads'[j] = loads[j] /\ loads[j].key # k
    BY <1>2, <1>3, <1>5 DEF CachedFor
  <2>2. disk[k] >= resetAt[k]
    BY <1>1 DEF CacheTypeOK
  <2>3. loads'[id].live
    BY <1>4, <1>5, Zenon
  <2>4. loads'[id].key = k /\ loads'[id].version = disk[k]
    BY <1>4, <1>5
  <2>5. ASSUME NEW j \in cached'
        PROVE  loads'[j].live /\ loads'[j].version >= resetAt[loads'[j].key]
    <3>1. CASE j \in cached
      BY <1>1, <2>1, <3>1 DEF ListedWell
    <3>2. CASE j = id
      BY <2>2, <2>3, <2>4, <3>2
    <3> QED BY <1>3, <3>1, <3>2
  <2>6. ASSUME NEW j \in cached', NEW other \in cached', loads'[other].key = loads'[j].key
        PROVE  other = j
    <3> HIDE DEF id
    <3>1. CASE j \in cached /\ other \in cached
      BY <1>1, <2>1, <2>6, <3>1 DEF ListedWell
    <3>2. CASE j = id /\ other \in cached
      BY <2>1, <2>4, <2>6, <3>2
    <3>3. CASE j \in cached /\ other = id
      BY <2>1, <2>4, <2>6, <3>3
    <3> QED BY <1>3, <3>1, <3>2, <3>3
  <2> QED BY <1>3, <2>5, <2>6 DEF ListedWell
<1>11. ReadStands'
  <2> SUFFICES ASSUME NEW x \in Holders, reading[x].id # 0
               PROVE  reading[x].id = ptr[reading[x].of] /\ given'[x] = 0
    BY <1>3 DEF ReadStands
  <2>1. x # h
    BY <1>3
  <2>2. reading[x].id = ptr[reading[x].of] /\ given[x] = 0
    BY DEF CacheIInv, ReadStands
  <2> QED BY <1>2, <1>3, <2>1, <2>2
<1>10. CountsHold'
  BY <1>6, <1>7, <1>8, <1>9, <1>11, CountsSuffice, PTL
<1> QED BY <1>6, <1>10, <1>11 DEF CacheIInv

-----------------------------------------------------------------------------
(* The theorems.                                                           *)

LEMMA CacheStepKeeps == CacheIInv /\ [CacheNext]_cachevars /\ ~raced' => CacheIInv'
<1> SUFFICES ASSUME CacheIInv, [CacheNext]_cachevars, ~raced' PROVE CacheIInv'
  OBVIOUS
<1> USE DEF CacheIInv
<1>1. CacheTypeOK /\ Tallied /\ Lives /\ ListedWell /\ ReadStands
  BY CountsSuffice
<1>2. ASSUME NEW h \in Holders, NEW k \in CacheKeys, Share(h, k)
      PROVE  CacheIInv'
  <2>1. PICK id \in CachedFor(k) : loads' = CountChanged(id, 1) /\ given' = [given EXCEPT ![h] = id]
    BY <1>2 DEF Share
  <2>2. id \in DOMAIN loads /\ loads[id].live
    BY <1>1 DEF CachedFor, CacheTypeOK, ListedWell
  <2>3. /\ given[h] = 0 /\ reading[h].id = 0
        /\ UNCHANGED <<cached, ptr, reading, raced, disk, resetAt>>
    BY <1>2 DEF Share, Idle
  <2>4. reading' \in [Holders -> [of : Holders, id : 0 .. Len(loads)]]
    BY <1>1, <2>3 DEF CacheTypeOK
  <2> QED BY <2>1, <2>2, <2>3, <2>4, HandedStep
<1>3. ASSUME NEW h \in Holders, NEW k \in CacheKeys, ReadNew(h, k)
      PROVE  CacheIInv'
  BY <1>3, ReadNewStep
<1>4. ASSUME NEW h \in Holders, Copy(h)
      PROVE  CacheIInv'
  <2>1. reading[h].id # 0 /\ given[h] = 0
    BY <1>1, <1>4 DEF Copy, ReadStands
  <2>2. reading[h].id \in DOMAIN loads
    BY <1>1, <2>1 DEF CacheTypeOK
  <2>3. loads[reading[h].id].live
    BY <2>1 DEF CountsHold
  <2>4. /\ reading' \in [Holders -> [of : Holders, id : 0 .. Len(loads)]]
        /\ reading'[h].id = 0 /\ \A x \in Holders \ {h} : reading'[x] = reading[x]
    <3>1. reading' = [reading EXCEPT ![h] = Unread(h)]
      BY <1>4 DEF Copy
    <3>2. Unread(h) \in [of : Holders, id : 0 .. Len(loads)] /\ Unread(h).id = 0
      BY <1>1 DEF Unread, CacheTypeOK
    <3>3. reading \in [Holders -> [of : Holders, id : 0 .. Len(loads)]]
      BY <1>1 DEF CacheTypeOK
    <3> QED BY <3>1, <3>2, <3>3
  <2>5. /\ loads' = CountChanged(reading[h].id, 1) /\ given' = [given EXCEPT ![h] = reading[h].id]
        /\ UNCHANGED <<cached, ptr, raced, disk, resetAt>>
    BY <1>4 DEF Copy
  <2> QED BY <2>1, <2>2, <2>3, <2>4, <2>5, HandedStep
<1>5. ASSUME NEW h \in Holders, SetPtr(h)
      PROVE  CacheIInv'
  BY <1>5, SetPtrStep
<1>6. ASSUME loads' = loads, ptr' = ptr, given' = given, CacheTypeOK', ListedWell', ReadStands'
      PROVE  CacheIInv'
  <2>1. Tallied' /\ Lives'
    BY <1>1, <1>6 DEF Tallied, Lives, Pointing
  <2>2. CountsHold'
    BY <1>6, <2>1, CountsSuffice, PTL
  <2> QED BY <1>6, <2>2
<1>7. CASE reset_cache
  <2>1. CacheTypeOK' /\ ListedWell' /\ ReadStands'
    BY <1>1, <1>7 DEF reset_cache, CacheTypeOK, ListedWell, ReadStands
  <2> QED BY <1>6, <1>7, <2>1 DEF reset_cache
<1>8. ASSUME NEW k \in CacheKeys, FileChanges(k)
      PROVE  CacheIInv'
  <2>1. CacheTypeOK'
    <3>1. disk' = [disk EXCEPT ![k] = disk[k] + 1] /\ disk \in [CacheKeys -> Nat]
      BY <1>1, <1>8 DEF FileChanges, CacheTypeOK
    <3>2. \A j \in CacheKeys : disk[j] <= disk'[j] /\ disk'[j] \in Nat
      BY <3>1
    <3> QED BY <1>1, <1>8, <3>1, <3>2 DEF FileChanges, CacheTypeOK
  <2>2. ListedWell' /\ ReadStands'
    BY <1>1, <1>8 DEF FileChanges, ListedWell, ReadStands
  <2> QED BY <1>6, <1>8, <2>1, <2>2 DEF FileChanges
<1>9. CASE UNCHANGED cachevars
  <2>1. CacheTypeOK' /\ ListedWell' /\ ReadStands'
    BY <1>1, <1>9 DEF cachevars, CacheTypeOK, ListedWell, ReadStands
  <2> QED BY <1>6, <1>9, <2>1 DEF cachevars
<1>10. ASSUME NEW h \in Holders, NEW g \in Holders, ReadOther(h, g)
       PROVE  CacheIInv'
  <2>1. /\ given[h] = 0 /\ ptr[g] # 0
        /\ reading' = [reading EXCEPT ![h] = [of |-> g, id |-> ptr[g]]]
        /\ UNCHANGED <<loads, cached, ptr, given, raced, disk, resetAt>>
    BY <1>10 DEF ReadOther, Idle
  <2>2. CacheTypeOK'
    <3>1. reading \in [Holders -> [of : Holders, id : 0 .. Len(loads)]] /\ ptr[g] \in 0 .. Len(loads)
      BY <1>1 DEF CacheTypeOK
    <3>2. reading' \in [Holders -> [of : Holders, id : 0 .. Len(loads)]]
      BY <2>1, <3>1
    <3> QED BY <1>1, <2>1, <3>2 DEF CacheTypeOK
  <2>3. ListedWell'
    BY <1>1, <2>1 DEF ListedWell
  <2>4. ReadStands'
    <3> SUFFICES ASSUME NEW x \in Holders, reading'[x].id # 0
                 PROVE  reading'[x].id = ptr[reading'[x].of] /\ given[x] = 0
      BY <2>1 DEF ReadStands
    <3>1. reading \in [Holders -> [of : Holders, id : 0 .. Len(loads)]]
      BY <1>1 DEF CacheTypeOK
    <3>2. CASE x = h
      BY <2>1, <3>1, <3>2
    <3>3. CASE x # h
      BY <1>1, <2>1, <3>1, <3>3 DEF ReadStands
    <3> QED BY <3>2, <3>3
  <2> QED BY <1>6, <2>1, <2>2, <2>3, <2>4
<1> QED BY <1>2, <1>3, <1>4, <1>5, <1>7, <1>8, <1>9, <1>10 DEF CacheNext

(* A race, once it was lost, stays on record.                              *)
LEMMA RaceStays == raced /\ raced \in BOOLEAN /\ [CacheNext]_cachevars => raced'
<1> QED BY DEF CacheNext, cachevars, Share, ReadNew, ReadOther, Copy, SetPtr, reset_cache, FileChanges

CacheKept == IF raced THEN raced \in BOOLEAN ELSE CacheIInv

LEMMA CacheInvariance == CacheSpec => []CacheKept
<1>1. CacheInit => CacheKept
  <2> SUFFICES ASSUME CacheInit PROVE CacheIInv /\ ~raced
    BY DEF CacheKept
  <2>1. reading \in [Holders -> [of : Holders, id : 0 .. Len(loads)]]
    BY DEF CacheInit, NoCache, Unread
  <2>2. /\ loads = <<>> /\ cached = {} /\ ~raced
        /\ \A h \in Holders : ptr[h] = 0 /\ given[h] = 0 /\ reading[h].id = 0
    BY DEF CacheInit, NoCache, Unread
  <2>3. CacheTypeOK
    <3>1. loads \in Seq(Load) /\ Len(loads) = 0 /\ raced \in BOOLEAN
      <4>1. <<>> \in Seq(Load) /\ Len(<<>>) = 0
        OBVIOUS
      <4>2. loads = <<>> /\ raced = FALSE
        BY DEF CacheInit, NoCache
      <4> HIDE DEF Load
      <4> QED BY <4>1, <4>2
    <3>2. /\ ptr \in [Holders -> 0 .. Len(loads)] /\ given \in [Holders -> 0 .. Len(loads)]
          /\ disk \in [CacheKeys -> Nat] /\ resetAt \in [CacheKeys -> Nat]
          /\ \A k \in CacheKeys : resetAt[k] <= disk[k]
      BY <3>1 DEF CacheInit, NoCache
    <3> QED BY <2>1, <2>2, <3>1, <3>2 DEF CacheTypeOK
  <2>4. CountsHold
    BY <2>2 DEF CountsHold
  <2> QED BY <2>2, <2>3, <2>4 DEF CacheIInv, ReadStands
<1>2. CacheKept /\ [CacheNext]_cachevars => CacheKept'
  <2> SUFFICES ASSUME CacheKept, [CacheNext]_cachevars PROVE CacheKept'
    OBVIOUS
  <2>1. CASE raced
    <3>1. raced'
      BY <2>1, RaceStays DEF CacheKept
    <3>2. raced' \in BOOLEAN
      BY <2>1 DEF CacheKept, CacheNext, cachevars, Share, ReadNew, ReadOther, Copy, SetPtr, reset_cache, FileChanges
    <3> QED BY <3>1, <3>2 DEF CacheKept
  <2>2. CASE ~raced
    <3>1. CacheIInv /\ raced \in BOOLEAN
      BY <2>2 DEF CacheKept, CacheIInv, CacheTypeOK
    <3>2. raced' \in BOOLEAN
      BY <3>1 DEF CacheNext, cachevars, Share, ReadNew, ReadOther, Copy, SetPtr, reset_cache, FileChanges
    <3>3. ~raced' => CacheIInv'
      BY <3>1, CacheStepKeeps
    <3> QED BY <3>2, <3>3 DEF CacheKept
  <2> QED BY <2>1, <2>2
<1> QED BY <1>1, <1>2, PTL DEF CacheSpec

(* For any number of holders that share, read, copy and let go in any      *)
(* order, with resets and changing files in between, and with the pointer  *)
(* that is copied read before the lock is taken: unless a pointer was set  *)
(* while another thread copied it, a refcount is the number of pointers, a *)
(* thing lives as long as it has one, no pointer and nothing that was read *)
(* from one is left dangling, and what the cache lists is alive, unique    *)
(* for its key and not older than the last reset (cache.cpp 11-63,         *)
(* cache-t.hpp, cache.hpp 53-68).                                          *)
THEOREM CacheCountsAlways == CacheSpec => []CacheCounts
<1>1. CacheKept => CacheCounts
  BY DEF CacheKept, CacheIInv, CacheCounts
<1> QED BY <1>1, CacheInvariance, PTL

-----------------------------------------------------------------------------
(* The detector.  First the machines: the class of a byte is that of one   *)
(* of the runs, and what the tables say of a character's first byte.       *)

Byte == 0 .. 255
Runs(m) ==
    /\ DOMAIN m.cls = 1 .. Len(m.cls) /\ Len(m.cls) \in Nat \ {0}
    /\ \A i \in 1 .. Len(m.cls) : m.cls[i][1] \in Nat
    /\ m.cls[Len(m.cls)][1] = 255
InRun(m, b, i) == b <= m.cls[i][1] /\ (i = 1 \/ b > m.cls[i - 1][1])

LEMMA ClassOfRun ==
    ASSUME NEW m, Runs(m), NEW b \in Byte
    PROVE  \E i \in 1 .. Len(m.cls) : GetClass(m, b) = m.cls[i][2] /\ InRun(m, b, i)
<1> DEFINE A == {i \in 1 .. Len(m.cls) : b <= m.cls[i][1]}
<1>1. A \subseteq Nat /\ A # {}
    <2>1. Len(m.cls) \in A
        BY DEF Runs, Byte
    <2> QED BY <2>1 DEF Runs
<1>2. PICK i \in A : \A j \in A : i <= j
    <2> HIDE DEF A
    <2> QED BY <1>1, LeastIn
<1>3. i = 1 \/ b > m.cls[i - 1][1]
    <2>1. CASE i # 1
        <3>1. i - 1 \in 1 .. Len(m.cls) /\ i - 1 \notin A
            BY <1>2, <2>1 DEF Runs
        <3> QED BY <3>1 DEF Runs, Byte
    <2> QED BY <2>1
<1>4. \E j \in DOMAIN m.cls : InRun(m, b, j)
    BY <1>2, <1>3 DEF Runs, InRun
<1> DEFINE c == CHOOSE j \in DOMAIN m.cls : InRun(m, b, j)
<1>5. c \in 1 .. Len(m.cls) /\ InRun(m, b, c)
    BY <1>4 DEF Runs
<1>6. GetClass(m, b) = m.cls[c][2]
    BY DEF GetClass, InRun
<1> QED BY <1>5, <1>6

(* A first byte after which the machine is in its start state again does   *)
(* not begin a character of two bytes.                                     *)
Alone(m) ==
    \A i \in 1 .. Len(m.cls) : m.st[1][m.cls[i][2] + 1] = eStart => m.charLen[m.cls[i][2] + 1] # 2

LEMMA Big5Tables == Runs(Big5SMModel) /\ Alone(Big5SMModel)
BY DEF Big5SMModel, Runs, Alone, eStart
LEMMA EUCJPTables == Runs(EUCJPSMModel) /\ Alone(EUCJPSMModel)
BY DEF EUCJPSMModel, Runs, Alone, eStart
LEMMA EUCKRTables == Runs(EUCKRSMModel) /\ Alone(EUCKRSMModel)
BY DEF EUCKRSMModel, Runs, Alone, eStart
LEMMA EUCTWTables == Runs(EUCTWSMModel) /\ Alone(EUCTWSMModel)
BY DEF EUCTWSMModel, Runs, Alone, eStart
LEMMA GB18030Tables == Runs(GB18030SMModel) /\ Alone(GB18030SMModel)
BY DEF GB18030SMModel, Runs, Alone, eStart
LEMMA SJISTables == Runs(SJISSMModel) /\ Alone(SJISSMModel)
BY DEF SJISSMModel, Runs, Alone, eStart

LEMMA CodersNamed ==
    /\ CoderOf("Big5") = Big5SMModel /\ CoderOf("EUC-JP") = EUCJPSMModel
    /\ CoderOf("EUC-KR") = EUCKRSMModel /\ CoderOf("EUC-TW") = EUCTWSMModel
    /\ CoderOf("GB18030") = GB18030SMModel /\ CoderOf("Shift_JIS") = SJISSMModel
    /\ CoderOf("UTF-8") = UTF8SMModel
<1> DEFINE names == {"Big5", "EUC-JP", "EUC-KR", "EUC-TW", "GB18030", "Shift_JIS", "UTF-8"}
<1>1. /\ Big5SMModel.name = "Big5" /\ EUCJPSMModel.name = "EUC-JP"
      /\ EUCKRSMModel.name = "EUC-KR" /\ EUCTWSMModel.name = "EUC-TW"
      /\ GB18030SMModel.name = "GB18030" /\ SJISSMModel.name = "Shift_JIS"
      /\ UTF8SMModel.name = "UTF-8"
    BY DEF Big5SMModel, EUCJPSMModel, EUCKRSMModel, EUCTWSMModel, GB18030SMModel, SJISSMModel,
           UTF8SMModel
<1>2. \A m, w \in Coders : m.name = w.name => m = w
    BY <1>1 DEF Coders
<1>3. ASSUME NEW m \in Coders PROVE CoderOf(m.name) = m
    BY <1>2 DEF CoderOf
<1> QED BY <1>1, <1>3 DEF Coders

MbSets == {"UTF-8", "Shift_JIS", "EUC-JP", "GB18030", "EUC-KR", "Big5", "EUC-TW"}

LEMMA AloneThere ==
    ASSUME NEW name \in MbSets \ {"UTF-8"}, NEW b \in Byte, NEW s, s.state = eStart,
           NextState(CoderOf(name), s, b).state = eStart
    PROVE  NextState(CoderOf(name), s, b).len # 2
<1> DEFINE m == CoderOf(name)
<1>1. Runs(m) /\ Alone(m)
    BY CodersNamed, Big5Tables, EUCJPTables, EUCKRTables, EUCTWTables, GB18030Tables, SJISTables
       DEF MbSets
<1> HIDE DEF m
<1>2. PICK i \in 1 .. Len(m.cls) : GetClass(m, b) = m.cls[i][2]
    BY <1>1, ClassOfRun
<1>3. /\ NextState(m, s, b).state = m.st[1][m.cls[i][2] + 1]
      /\ NextState(m, s, b).len = m.charLen[m.cls[i][2] + 1]
    BY <1>2 DEF NextState, eStart
<1> QED BY <1>1, <1>2, <1>3 DEF Alone, m

-----------------------------------------------------------------------------
(* The detector's folds.  One operator has all their steps, k says whose;  *)
(* a fold over s is the end of a run h that takes one step for each        *)
(* element.                                                                *)

SbSure(g, i) == IF i \in g.active THEN SbConfidence(SbModels[i], g.probers[i]) ELSE 0
AfterMachines(e, b) == FoldLeft(LAMBDA g, i : EscStep(g, i, b), e, <<4, 3, 2, 1>>)

Step(k, v, x) ==
    CASE k[1] = "byte"    -> MbByte(k[2], v, x)
      [] k[1] = "feed"    -> MbFeed(v, x, k[2])
      [] k[1] = "piece"   -> MbFeedAll(v, x)
      [] k[1] = "cut"     -> Cut(v, x)
      [] k[1] = "mbbest"  -> IF MbConfidence(MbNames[x], k[2].probers[x]) > v[2]
                             THEN <<x, MbConfidence(MbNames[x], k[2].probers[x])>> ELSE v
      [] k[1] = "look"    -> Looked(v, x)
      [] k[1] = "sbfeed"  -> SbFeed(v, x, k[2])
      [] k[1] = "sbbest"  -> IF SbSure(k[2], x) > v[2] THEN <<x, SbSure(k[2], x)>> ELSE v
      [] k[1] = "machine" -> EscStep(v, x, k[2])
      [] k[1] = "escape"  -> AfterMachines(v, x)
      [] OTHER            -> v
StepBody(k, z, s, g) ==
    [T \in SUBSET DOMAIN s |->
        IF T = {} THEN z ELSE Step(k, g[T \ {Max(T)}], s[Max(T)])]
StepsTo(k, z, s, h) == h[0] = z /\ \A n \in 1 .. Len(s) : h[n] = Step(k, h[n - 1], s[n])
Ends(k, z, s, e) == \E h : StepsTo(k, z, s, h) /\ h[Len(s)] = e

LEMMA LastOf == \A n \in Nat : n # 0 => Max(1 .. n) = n /\ (1 .. n) \ {n} = 1 .. n - 1
<1> SUFFICES ASSUME NEW n \in Nat, n # 0 PROVE Max(1 .. n) = n /\ (1 .. n) \ {n} = 1 .. n - 1
    OBVIOUS
<1>1. n \in 1 .. n /\ \A x \in 1 .. n : x <= n
    OBVIOUS
<1>2. \A y \in 1 .. n : (\A x \in 1 .. n : x <= y) => y = n
    OBVIOUS
<1>3. Max(1 .. n) \in 1 .. n /\ \A x \in 1 .. n : x <= Max(1 .. n)
    BY <1>1 DEF Max
<1> QED BY <1>2, <1>3

LEMMA StepFold ==
    ASSUME NEW V, NEW s \in Seq(V), NEW k, NEW z
    PROVE  \E g : g = StepBody(k, z, s, g)
<1> DEFINE S == 1 .. Len(s)
           Upto(g, n) == \A T \in Small(S, n) :
                             g[T] = IF T = {} THEN z ELSE Step(k, g[T \ {Max(T)}], s[Max(T)])
           A == {n \in Nat : ~\E g : Upto(g, n)}
<1>0. DOMAIN s = S /\ Len(s) \in Nat /\ IsFiniteSet(S)
    BY FS_Interval
<1>1. ASSUME NEW n \in Nat, NEW T \in Small(S, n + 1), T # {}
      PROVE  T \ {Max(T)} \in Small(S, n)
    <2>1. Max(T) \in T /\ T \in SUBSET S /\ Cardinality(T) <= n + 1
        BY <1>0, <1>1, MaxPicked DEF Small
    <2> HIDE DEF S
    <2>2. /\ T \ {Max(T)} \in SUBSET S /\ Cardinality(T) \in Nat
          /\ Cardinality(T \ {Max(T)}) = Cardinality(T) - 1
        BY <1>0, <2>1, SmallerRest
    <2> QED BY <2>1, <2>2 DEF Small
<1>2. 0 \notin A
    <2> DEFINE g == [T \in Small(S, 0) |-> z]
    <2>1. \A T \in Small(S, 0) : T = {}
        <3> SUFFICES ASSUME NEW T \in Small(S, 0), T # {} PROVE FALSE
            OBVIOUS
        <3>1. PICK x \in T : TRUE
            OBVIOUS
        <3>2. T \in SUBSET S /\ Cardinality(T) <= 0
            BY DEF Small
        <3> HIDE DEF S
        <3>3. Cardinality(T) \in Nat /\ Cardinality(T) > 0
            BY <1>0, <3>1, <3>2, SmallerRest
        <3> QED BY <3>2, <3>3
    <2>2. Upto(g, 0)
        BY <2>1
    <2> QED BY <2>2
<1>3. ASSUME NEW n \in Nat, n \notin A PROVE n + 1 \notin A
    <2>1. PICK g : Upto(g, n)
        BY <1>3
    <2> DEFINE f == [T \in Small(S, n + 1) |->
                        IF T = {} THEN z ELSE Step(k, g[T \ {Max(T)}], s[Max(T)])]
    <2>2. ASSUME NEW T \in Small(S, n) PROVE f[T] = g[T] /\ T \in Small(S, n + 1)
        <3>1. T \in Small(S, n + 1)
            <4>1. Cardinality(T) \in Nat
                BY <1>0, FS_Subset, FS_CardinalityType DEF Small
            <4> QED BY <4>1 DEF Small
        <3> QED BY <2>1, <3>1
    <2>3. ASSUME NEW T \in Small(S, n + 1), T # {}
          PROVE  f[T] = Step(k, f[T \ {Max(T)}], s[Max(T)])
        <3>1. T \ {Max(T)} \in Small(S, n)
            BY <1>1, <2>3
        <3>2. f[T \ {Max(T)}] = g[T \ {Max(T)}]
            BY <2>2, <3>1
        <3>3. f[T] = Step(k, g[T \ {Max(T)}], s[Max(T)])
            BY <2>3
        <3> QED BY <3>2, <3>3
    <2>4. {} \in Small(S, n + 1) => f[{}] = z
        OBVIOUS
    <2> HIDE DEF f
    <2>5. Upto(f, n + 1)
        BY <2>3, <2>4
    <2> QED BY <2>5
<1> HIDE DEF Upto
<1>4. A = {}
    <2> SUFFICES ASSUME A # {} PROVE FALSE
        OBVIOUS
    <2>1. PICK a \in A : \A b \in A : a <= b
        BY LeastIn
    <2>2. a # 0 /\ a \in Nat
        BY <1>2
    <2>3. a - 1 \in Nat /\ a - 1 \notin A /\ (a - 1) + 1 = a
        <3> HIDE DEF A
        <3> QED BY <2>1, <2>2
    <2> HIDE DEF A
    <2> QED BY <1>3, <2>1, <2>3
<1>5. PICK g : Upto(g, Len(s))
    BY <1>0, <1>4
<1>6. Small(S, Len(s)) = SUBSET S
    <2>1. Cardinality(S) = Len(s)
        BY <1>0, FS_Interval
    <2>2. \A T \in SUBSET S : Cardinality(T) <= Cardinality(S)
        BY <1>0, FS_Subset
    <2> QED BY <2>1, <2>2 DEF Small
<1> DEFINE f == [T \in SUBSET S |-> g[T]]
<1>7. ASSUME NEW T \in SUBSET S PROVE f[T] = StepBody(k, z, s, f)[T]
    <2>1. CASE T = {}
        BY <1>0, <1>5, <1>6, <2>1 DEF Upto, StepBody
    <2>2. CASE T # {}
        <3>1. T \ {Max(T)} \in SUBSET S
            OBVIOUS
        <3>2. g[T] = Step(k, g[T \ {Max(T)}], s[Max(T)])
            BY <1>5, <1>6, <2>2 DEF Upto
        <3>3. f[T \ {Max(T)}] = g[T \ {Max(T)}] /\ f[T] = g[T]
            BY <3>1
        <3> HIDE DEF f, S
        <3>4. StepBody(k, z, s, f)[T] = Step(k, f[T \ {Max(T)}], s[Max(T)])
            BY <1>0, <2>2 DEF StepBody
        <3> QED BY <3>2, <3>3, <3>4
    <2> QED BY <2>1, <2>2
<1>8. DOMAIN f = SUBSET S /\ f = [T \in SUBSET S |-> f[T]]
    OBVIOUS
<1> HIDE DEF f
<1>9. StepBody(k, z, s, f) = [T \in SUBSET S |-> StepBody(k, z, s, f)[T]]
    BY <1>0 DEF StepBody
<1>10. f = StepBody(k, z, s, f)
    BY <1>7, <1>8, <1>9
<1> QED BY <1>10

LEMMA FoldEnds ==
    ASSUME NEW V, NEW s \in Seq(V), NEW k, NEW z, NEW g, g = StepBody(k, z, s, g)
    PROVE  Ends(k, z, s, g[DOMAIN s])
<1> DEFINE h == [n \in 0 .. Len(s) |-> g[1 .. n]]
<1>1. DOMAIN s = 1 .. Len(s) /\ Len(s) \in Nat
    OBVIOUS
<1>2. ASSUME NEW T \in SUBSET (1 .. Len(s))
      PROVE  g[T] = IF T = {} THEN z ELSE Step(k, g[T \ {Max(T)}], s[Max(T)])
    BY <1>1 DEF StepBody
<1>3. h[0] = z
    <2>1. 1 .. 0 = {} /\ 0 \in 0 .. Len(s)
        BY <1>1
    <2> QED BY <1>2, <2>1
<1>4. ASSUME NEW n \in 1 .. Len(s) PROVE h[n] = Step(k, h[n - 1], s[n])
    <2>1. 1 .. n # {} /\ 1 .. n \in SUBSET (1 .. Len(s)) /\ Max(1 .. n) = n /\ (1 .. n) \ {n} = 1 .. n - 1
        BY <1>1, LastOf
    <2>2. g[1 .. n] = Step(k, g[1 .. n - 1], s[n])
        BY <1>2, <2>1
    <2>3. h[n] = g[1 .. n] /\ h[n - 1] = g[1 .. n - 1]
        BY <1>1
    <2> HIDE DEF h
    <2> QED BY <2>2, <2>3
<1>5. h[Len(s)] = g[DOMAIN s]
    BY <1>1
<1> HIDE DEF h
<1> QED BY <1>3, <1>4, <1>5 DEF Ends, StepsTo

AfterBytes(name, z, s) == FoldLeft(LAMBDA q, b : MbByte(name, q, b), z, s)

LEMMA BytesFold ==
    ASSUME NEW V, NEW s \in Seq(V), NEW name, NEW z
    PROVE  Ends(<<"byte", name>>, z, s, AfterBytes(name, z, s))
<1> DEFINE k == <<"byte", name>>
           it == CHOOSE g : g = [T \in SUBSET DOMAIN s |->
                    IF T = {} THEN z ELSE MbByte(name, g[T \ {Max(T)}], s[Max(T)])]
<1>1. AfterBytes(name, z, s) = it[DOMAIN s]
    BY Zenon DEF AfterBytes, FoldLeft, MapThenFoldSet
<1>2. \A v, x : Step(k, v, x) = MbByte(name, v, x)
    BY DEF Step
<1>3. ASSUME NEW g
      PROVE  StepBody(k, z, s, g) = [T \in SUBSET DOMAIN s |->
                IF T = {} THEN z ELSE MbByte(name, g[T \ {Max(T)}], s[Max(T)])]
    BY <1>2 DEF StepBody
<1>4. it = StepBody(k, z, s, it)
    <2>1. \E g : g = StepBody(k, z, s, g)
        BY StepFold
    <2> QED BY <1>3, <2>1
<1> HIDE DEF it, k
<1> QED BY <1>1, <1>4, FoldEnds DEF k

LEMMA FeedFold ==
    ASSUME NEW piece, NEW z
    PROVE  Ends(<<"feed", piece>>, z, [i \in 1 .. 7 |-> i], MbFeedAll(z, piece))
<1> DEFINE s == [i \in DOMAIN MbNames |-> i]
           k == <<"feed", piece>>
           it == CHOOSE g : g = [T \in SUBSET DOMAIN s |->
                    IF T = {} THEN z ELSE MbFeed(g[T \ {Max(T)}], s[Max(T)], piece)]
<1>0. DOMAIN MbNames = 1 .. 7 /\ s \in Seq(Nat) /\ s = [i \in 1 .. 7 |-> i]
    BY DEF MbNames
<1>1. MbFeedAll(z, piece) = it[DOMAIN s]
    BY Zenon DEF MbFeedAll, FoldLeft, MapThenFoldSet
<1> HIDE DEF s
<1>2. \A v, x : Step(k, v, x) = MbFeed(v, x, piece)
    BY DEF Step
<1>3. ASSUME NEW g
      PROVE  StepBody(k, z, s, g) = [T \in SUBSET DOMAIN s |->
                IF T = {} THEN z ELSE MbFeed(g[T \ {Max(T)}], s[Max(T)], piece)]
    BY <1>2 DEF StepBody
<1>4. it = StepBody(k, z, s, it)
    <2>1. \E g : g = StepBody(k, z, s, g)
        BY <1>0, StepFold
    <2> QED BY <1>3, <2>1
<1> HIDE DEF it, k
<1>5. Ends(k, z, s, MbFeedAll(z, piece))
    BY <1>0, <1>1, <1>4, FoldEnds
<1> QED BY <1>0, <1>5 DEF k

LEMMA PiecesFold ==
    ASSUME NEW V, NEW s \in Seq(V), NEW z
    PROVE  Ends(<<"piece">>, z, s, FoldLeft(MbFeedAll, z, s))
<1> DEFINE k == <<"piece">>
           it == CHOOSE g : g = [T \in SUBSET DOMAIN s |->
                    IF T = {} THEN z ELSE MbFeedAll(g[T \ {Max(T)}], s[Max(T)])]
<1>1. FoldLeft(MbFeedAll, z, s) = it[DOMAIN s]
    BY Zenon DEF FoldLeft, MapThenFoldSet
<1>2. \A v, x : Step(k, v, x) = MbFeedAll(v, x)
    BY DEF Step
<1>3. ASSUME NEW g
      PROVE  StepBody(k, z, s, g) = [T \in SUBSET DOMAIN s |->
                IF T = {} THEN z ELSE MbFeedAll(g[T \ {Max(T)}], s[Max(T)])]
    BY <1>2 DEF StepBody
<1>4. it = StepBody(k, z, s, it)
    <2>1. \E g : g = StepBody(k, z, s, g)
        BY StepFold
    <2> QED BY <1>3, <2>1
<1> HIDE DEF it, k
<1> QED BY <1>1, <1>4, FoldEnds DEF k

LEMMA CutFold ==
    ASSUME NEW V, NEW s \in Seq(V), NEW z
    PROVE  Ends(<<"cut">>, z, s, FoldLeft(Cut, z, s))
<1> DEFINE k == <<"cut">>
           it == CHOOSE g : g = [T \in SUBSET DOMAIN s |->
                    IF T = {} THEN z ELSE Cut(g[T \ {Max(T)}], s[Max(T)])]
<1>1. FoldLeft(Cut, z, s) = it[DOMAIN s]
    BY Zenon DEF FoldLeft, MapThenFoldSet
<1>2. \A v, x : Step(k, v, x) = Cut(v, x)
    BY DEF Step
<1>3. ASSUME NEW g
      PROVE  StepBody(k, z, s, g) = [T \in SUBSET DOMAIN s |->
                IF T = {} THEN z ELSE Cut(g[T \ {Max(T)}], s[Max(T)])]
    BY <1>2 DEF StepBody
<1>4. it = StepBody(k, z, s, it)
    <2>1. \E g : g = StepBody(k, z, s, g)
        BY StepFold
    <2> QED BY <1>3, <2>1
<1> HIDE DEF it, k
<1> QED BY <1>1, <1>4, FoldEnds DEF k

LEMMA LookFold ==
    ASSUME NEW V, NEW s \in Seq(V), NEW z
    PROVE  Ends(<<"look">>, z, s, FoldLeft(Looked, z, s))
<1> DEFINE k == <<"look">>
           it == CHOOSE g : g = [T \in SUBSET DOMAIN s |->
                    IF T = {} THEN z ELSE Looked(g[T \ {Max(T)}], s[Max(T)])]
<1>1. FoldLeft(Looked, z, s) = it[DOMAIN s]
    BY Zenon DEF FoldLeft, MapThenFoldSet
<1>2. \A v, x : Step(k, v, x) = Looked(v, x)
    BY DEF Step
<1>3. ASSUME NEW g
      PROVE  StepBody(k, z, s, g) = [T \in SUBSET DOMAIN s |->
                IF T = {} THEN z ELSE Looked(g[T \ {Max(T)}], s[Max(T)])]
    BY <1>2 DEF StepBody
<1>4. it = StepBody(k, z, s, it)
    <2>1. \E g : g = StepBody(k, z, s, g)
        BY StepFold
    <2> QED BY <1>3, <2>1
<1> HIDE DEF it, k
<1> QED BY <1>1, <1>4, FoldEnds DEF k

MbBest(d) == BestOf(7, LAMBDA i : MbConfidence(MbNames[i], d.probers[i]))

LEMMA MbBestFold ==
    ASSUME NEW d
    PROVE  Ends(<<"mbbest", d>>, <<0, 0>>, [i \in 1 .. 7 |-> i], MbBest(d))
<1> DEFINE k == <<"mbbest", d>>
           z == <<0, 0>>
           s == [i \in 1 .. 7 |-> i]
           conf(x) == MbConfidence(MbNames[x], d.probers[x])
           it == CHOOSE g : g = [T \in SUBSET DOMAIN s |->
                    IF T = {} THEN z
                    ELSE IF conf(s[Max(T)]) > g[T \ {Max(T)}][2] THEN <<s[Max(T)], conf(s[Max(T)])>>
                         ELSE g[T \ {Max(T)}]]
<1>1. MbBest(d) = it[DOMAIN s]
    BY Zenon DEF MbBest, BestOf, FoldLeft, MapThenFoldSet
<1>2. \A v, x : Step(k, v, x) = IF conf(x) > v[2] THEN <<x, conf(x)>> ELSE v
    BY DEF Step
<1>0. s \in Seq(Nat)
    OBVIOUS
<1> HIDE DEF conf, s
<1>3. ASSUME NEW g
      PROVE  StepBody(k, z, s, g) = [T \in SUBSET DOMAIN s |->
                    IF T = {} THEN z
                    ELSE IF conf(s[Max(T)]) > g[T \ {Max(T)}][2] THEN <<s[Max(T)], conf(s[Max(T)])>>
                         ELSE g[T \ {Max(T)}]]
    BY <1>2 DEF StepBody
<1>4. it = StepBody(k, z, s, it)
    <2>1. \E g : g = StepBody(k, z, s, g)
        BY <1>0, StepFold
    <2> QED BY <1>3, <2>1
<1> HIDE DEF it, k, z
<1>5. Ends(k, z, s, it[DOMAIN s])
    BY <1>0, <1>4, FoldEnds
<1> QED BY <1>1, <1>5 DEF k, z, s

SbAfter(g, letters) ==
    FoldLeft(LAMBDA h, i : SbFeed(h, i, letters), g, [i \in DOMAIN SbModels |-> i])

LEMMA SbFeedFold ==
    ASSUME NEW letters, NEW z
    PROVE  Ends(<<"sbfeed", letters>>, z, [i \in DOMAIN SbModels |-> i], SbAfter(z, letters))
<1> DEFINE k == <<"sbfeed", letters>>
           s == [i \in DOMAIN SbModels |-> i]
           it == CHOOSE g : g = [T \in SUBSET DOMAIN s |->
                    IF T = {} THEN z ELSE SbFeed(g[T \ {Max(T)}], s[Max(T)], letters)]
<1>1. SbAfter(z, letters) = it[DOMAIN s]
    BY Zenon DEF SbAfter, FoldLeft, MapThenFoldSet
<1>2. \A v, x : Step(k, v, x) = SbFeed(v, x, letters)
    BY DEF Step
<1>3. s \in Seq(Nat)
    BY ProbersAssumption
<1> HIDE DEF s
<1>4. ASSUME NEW g
      PROVE  StepBody(k, z, s, g) = [T \in SUBSET DOMAIN s |->
                IF T = {} THEN z ELSE SbFeed(g[T \ {Max(T)}], s[Max(T)], letters)]
    BY <1>2 DEF StepBody
<1>5. it = StepBody(k, z, s, it)
    <2>1. \E g : g = StepBody(k, z, s, g)
        BY <1>3, StepFold
    <2> QED BY <1>4, <2>1
<1> HIDE DEF it, k, s
<1>6. Ends(k, z, s, it[DOMAIN s])
    BY <1>3, <1>5, FoldEnds
<1> QED BY <1>1, <1>6 DEF k, s

SbBest(g) == BestOf(Len(SbModels), LAMBDA i : SbSure(g, i))

LEMMA SbBestFold ==
    ASSUME NEW d
    PROVE  Ends(<<"sbbest", d>>, <<0, 0>>, [i \in 1 .. Len(SbModels) |-> i], SbBest(d))
<1> DEFINE k == <<"sbbest", d>>
           s == [i \in 1 .. Len(SbModels) |-> i]
           z == <<0, 0>>
           it == CHOOSE g : g = [T \in SUBSET DOMAIN s |->
                    IF T = {} THEN z ELSE IF SbSure(d, s[Max(T)]) > g[T \ {Max(T)}][2] THEN <<s[Max(T)], SbSure(d, s[Max(T)])>> ELSE g[T \ {Max(T)}]]
<1>1. SbBest(d) = it[DOMAIN s]
    BY Zenon DEF SbBest, BestOf, FoldLeft, MapThenFoldSet
<1>2. \A v, x : Step(k, v, x) = IF SbSure(d, x) > v[2] THEN <<x, SbSure(d, x)>> ELSE v
    BY DEF Step
<1>3. s \in Seq(Nat)
    BY ProbersAssumption
<1> HIDE DEF s
<1>4. ASSUME NEW g
      PROVE  StepBody(k, z, s, g) = [T \in SUBSET DOMAIN s |->
                IF T = {} THEN z ELSE IF SbSure(d, s[Max(T)]) > g[T \ {Max(T)}][2] THEN <<s[Max(T)], SbSure(d, s[Max(T)])>> ELSE g[T \ {Max(T)}]]
    BY <1>2 DEF StepBody
<1>5. it = StepBody(k, z, s, it)
    <2>1. \E g : g = StepBody(k, z, s, g)
        BY <1>3, StepFold
    <2> QED BY <1>4, <2>1
<1> HIDE DEF it, k, s, z
<1>6. Ends(k, z, s, it[DOMAIN s])
    BY <1>3, <1>5, FoldEnds
<1> QED BY <1>1, <1>6 DEF k, s, z

LEMMA MachinesFold ==
    ASSUME NEW b, NEW z
    PROVE  Ends(<<"machine", b>>, z, <<4, 3, 2, 1>>, AfterMachines(z, b))
<1> DEFINE k == <<"machine", b>>
           s == <<4, 3, 2, 1>>
           it == CHOOSE g : g = [T \in SUBSET DOMAIN s |->
                    IF T = {} THEN z ELSE EscStep(g[T \ {Max(T)}], s[Max(T)], b)]
<1>1. AfterMachines(z, b) = it[DOMAIN s]
    BY Zenon DEF AfterMachines, FoldLeft, MapThenFoldSet
<1>2. \A v, x : Step(k, v, x) = EscStep(v, x, b)
    BY DEF Step
<1>3. s \in Seq(Nat)
    OBVIOUS
<1> HIDE DEF s
<1>4. ASSUME NEW g
      PROVE  StepBody(k, z, s, g) = [T \in SUBSET DOMAIN s |->
                IF T = {} THEN z ELSE EscStep(g[T \ {Max(T)}], s[Max(T)], b)]
    BY <1>2 DEF StepBody
<1>5. it = StepBody(k, z, s, it)
    <2>1. \E g : g = StepBody(k, z, s, g)
        BY <1>3, StepFold
    <2> QED BY <1>4, <2>1
<1> HIDE DEF it, k, s
<1>6. Ends(k, z, s, it[DOMAIN s])
    BY <1>3, <1>5, FoldEnds
<1> QED BY <1>1, <1>6 DEF k, s

LEMMA EscapeFold ==
    ASSUME NEW V, NEW s \in Seq(V), NEW z
    PROVE  Ends(<<"escape">>, z, s, EscHandleData(z, s))
<1> DEFINE k == <<"escape">>
           it == CHOOSE g : g = [T \in SUBSET DOMAIN s |->
                    IF T = {} THEN z ELSE AfterMachines(g[T \ {Max(T)}], s[Max(T)])]
<1>1. EscHandleData(z, s) = it[DOMAIN s]
    BY Zenon DEF EscHandleData, AfterMachines, FoldLeft, MapThenFoldSet
<1>2. \A v, x : Step(k, v, x) = AfterMachines(v, x)
    BY DEF Step
<1>3. s \in Seq(V)
    OBVIOUS
<1>4. ASSUME NEW g
      PROVE  StepBody(k, z, s, g) = [T \in SUBSET DOMAIN s |->
                IF T = {} THEN z ELSE AfterMachines(g[T \ {Max(T)}], s[Max(T)])]
    BY <1>2 DEF StepBody
<1>5. it = StepBody(k, z, s, it)
    <2>1. \E g : g = StepBody(k, z, s, g)
        BY <1>3, StepFold
    <2> QED BY <1>4, <2>1
<1> HIDE DEF it, k
<1>6. Ends(k, z, s, it[DOMAIN s])
    BY <1>3, <1>5, FoldEnds
<1> QED BY <1>1, <1>6 DEF k

(* What holds at the start of a run and goes on with every step.           *)
LEMMA GoesOn ==
    ASSUME NEW n \in Nat, NEW G, 0 \in G, \A i \in 1 .. n : i - 1 \in G => i \in G
    PROVE  \A i \in 0 .. n : i \in G
<1> DEFINE A == {i \in 0 .. n : i \notin G}
<1> SUFFICES ASSUME A # {} PROVE FALSE
    OBVIOUS
<1>1. PICK a \in A : \A b \in A : a <= b
    <2>1. A \subseteq Nat /\ A # {}
        OBVIOUS
    <2> HIDE DEF A
    <2> QED BY <2>1, LeastIn
<1>2. a # 0 /\ a \in 1 .. n
    OBVIOUS
<1>3. a - 1 \in 0 .. n /\ a - 1 \notin A
    <2> HIDE DEF A
    <2> QED BY <1>1, <1>2
<1> QED BY <1>2, <1>3

-----------------------------------------------------------------------------
(* A detector that has been reset, beside a new one: they differ in the    *)
(* character that a multi-byte prober has seen last, if its machine is in  *)
(* the start state.                                                        *)

MbFields == {"sm", "found", "last", "chars", "total", "freq", "rel", "never", "lastOrder", "enough"}
Alike(p, q) ==
    /\ p = [f \in MbFields |-> p[f]] /\ q = [f \in MbFields |-> q[f]]
    /\ \A f \in MbFields \ {"last"} : p[f] = q[f]
    /\ p.last = q.last \/ p.sm.state = eStart

IsMb(p) == p = [f \in MbFields |-> p[f]]

LEMMA ByteIsMb ==
    ASSUME NEW name, NEW b, NEW p, IsMb(p)
    PROVE  IsMb(MbByte(name, p, b))
<1>1. ASSUME NEW q, IsMb(q), NEW order PROVE IsMb(Counted(q, order))
    BY <1>1 DEF IsMb, MbFields, Counted
<1>2. ASSUME NEW q, IsMb(q), NEW lead, NEW trail, NEW len PROVE IsMb(Context(name, q, lead, trail, len))
    <2>1. IsMb([q EXCEPT !.enough = TRUE])
        BY <1>2 DEF IsMb, MbFields
    <2> QED BY <1>1, <1>2, <2>1 DEF Context
<1>3. ASSUME NEW q, IsMb(q), NEW lead, NEW trail, NEW len PROVE IsMb(Distribution(name, q, lead, trail, len))
    BY <1>3 DEF IsMb, MbFields, Distribution
<1>4. ASSUME NEW q, IsMb(q) PROVE IsMb(Stepped(name, q, b))
    <2>1. IsMb([q EXCEPT !.found = TRUE]) /\ IsMb([q EXCEPT !.chars = @ + 1])
        BY <1>4 DEF IsMb, MbFields
    <2> QED BY <1>2, <1>3, <1>4, <2>1 DEF Stepped, Whole
<1>5. IsMb([p EXCEPT !.sm = NextState(CoderOf(name), @, b)])
    BY DEF IsMb, MbFields
<1>6. IsMb(Stepped(name, [p EXCEPT !.sm = NextState(CoderOf(name), @, b)], b))
    BY <1>4, <1>5
<1>7. \A q : IsMb(q) => IsMb([q EXCEPT !.last = b])
    BY DEF IsMb, MbFields
<1> QED BY <1>6, <1>7 DEF MbByte

LEMMA ByteAlike ==
    ASSUME NEW name \in MbSets, NEW b \in Byte, NEW p, NEW q, Alike(p, q)
    PROVE  Alike(MbByte(name, p, b), MbByte(name, q, b))
<1> DEFINE n == NextState(CoderOf(name), p.sm, b)
           p1 == [p EXCEPT !.sm = n]
           q1 == [q EXCEPT !.sm = n]
           p2 == Stepped(name, p1, b)
           q2 == Stepped(name, q1, b)
<1>1. CASE p.found
    BY <1>1 DEF Alike, MbByte, MbFields
<1>2. CASE p.last = q.last
    <2>1. \A f \in MbFields : p[f] = q[f]
        BY <1>2 DEF Alike
    <2>2. p = q
        BY <2>1 DEF Alike
    <2>3. MbByte(name, p, b) = [f \in MbFields |-> MbByte(name, p, b)[f]]
        BY ByteIsMb DEF Alike, IsMb
    <2> QED BY <2>2, <2>3 DEF Alike
<1>3. CASE ~p.found /\ p.last # q.last
    <2>1. p.sm.state = eStart /\ p.sm = q.sm /\ p.found = q.found
        BY <1>3 DEF Alike, MbFields
    <2>2. MbByte(name, p, b) = [p2 EXCEPT !.last = b] /\ MbByte(name, q, b) = [q2 EXCEPT !.last = b]
        BY <1>3, <2>1 DEF MbByte
    <2>3. /\ p1 = [f \in MbFields |-> p1[f]] /\ q1 = [f \in MbFields |-> q1[f]]
          /\ \A f \in MbFields \ {"last"} : p1[f] = q1[f]
          /\ p1.sm = n /\ q1.sm = n
        BY DEF Alike, MbFields
    <2>4. n.state = eStart /\ name # "UTF-8" => n.len # 2
        BY <2>1, AloneThere
    <2> HIDE DEF n, p1, q1
    <2>5. /\ p2 = [f \in MbFields |-> p2[f]] /\ q2 = [f \in MbFields |-> q2[f]]
          /\ \A f \in MbFields \ {"last"} : p2[f] = q2[f]
        <3>1. CASE n.state = eItsMe
            BY <2>3, <3>1 DEF Stepped, MbFields, eItsMe, eStart
        <3>2. CASE n.state # eItsMe /\ n.state # eStart
            BY <2>3, <3>2 DEF Stepped
        <3>3. CASE n.state = eStart /\ name = "UTF-8"
            BY <2>3, <3>3 DEF Stepped, Whole, MbFields, eItsMe, eStart
        <3>4. CASE n.state = eStart /\ name # "UTF-8"
            <4>1. p2 = Context(name, p1, p1.last, b, n.len) /\ q2 = Context(name, q1, q1.last, b, n.len)
                BY <2>3, <2>4, <3>4 DEF Stepped, Whole, Distribution, eItsMe, eStart
            <4>2. CASE name \notin {"Shift_JIS", "EUC-JP"}
                BY <2>3, <4>1, <4>2 DEF Context
            <4>3. CASE name \in {"Shift_JIS", "EUC-JP"} /\ (p1.enough \/ p1.rel > MaxPairs)
                BY <2>3, <4>1, <4>3 DEF Context, MbFields
            <4>4. CASE name \in {"Shift_JIS", "EUC-JP"} /\ ~(p1.enough \/ p1.rel > MaxPairs)
                <5>1. p2 = Counted(p1, -1) /\ q2 = Counted(q1, -1)
                    BY <2>3, <2>4, <3>4, <4>1, <4>4 DEF Context, MbFields
                <5> QED BY <2>3, <5>1 DEF Counted, MbFields
            <4> QED BY <4>2, <4>3, <4>4
        <3> QED BY <3>1, <3>2, <3>3, <3>4
    <2> HIDE DEF p2, q2
    <2> QED BY <2>2, <2>5 DEF Alike, MbFields
<1> QED BY <1>1, <1>2, <1>3

LEMMA ConfidenceAlike ==
    ASSUME NEW name, NEW p, NEW q, Alike(p, q)
    PROVE  GotEnough(name, p) = GotEnough(name, q) /\ MbConfidence(name, p) = MbConfidence(name, q)
<1>1. p.chars = q.chars /\ p.total = q.total /\ p.freq = q.freq /\ p.rel = q.rel /\ p.never = q.never
    BY DEF Alike, MbFields
<1>2. ContextConfidence(p) = ContextConfidence(q)
    BY <1>1 DEF ContextConfidence
<1>3. DistributionConfidence(name, p) = DistributionConfidence(name, q)
    BY <1>1 DEF DistributionConfidence
<1>4. GotEnough(name, p) = GotEnough(name, q)
    BY <1>1 DEF GotEnough
<1>5. MbConfidence(name, p) = MbConfidence(name, q)
    BY <1>1, <1>2, <1>3 DEF MbConfidence
<1> QED BY <1>4, <1>5

LEMMA DataAlike ==
    ASSUME NEW name \in MbSets, NEW buf \in Seq(Byte), NEW p, NEW q, Alike(p, q)
    PROVE  Alike(MbHandleData(name, p, buf), MbHandleData(name, q, buf))
<1> DEFINE k == <<"byte", name>>
           e(r) == AfterBytes(name, r, buf)
<1>1. PICK h : StepsTo(k, p, buf, h) /\ h[Len(buf)] = e(p)
    <2>1. Ends(k, p, buf, e(p))
        BY BytesFold
    <2> HIDE DEF k, e
    <2> QED BY <2>1 DEF Ends
<1>2. PICK g : StepsTo(k, q, buf, g) /\ g[Len(buf)] = e(q)
    <2>1. Ends(k, q, buf, e(q))
        BY BytesFold
    <2> HIDE DEF k, e
    <2> QED BY <2>1 DEF Ends
<1> DEFINE G == {i \in 0 .. Len(buf) : Alike(h[i], g[i])}
<1>3. Len(buf) \in Nat /\ 0 \in G
    <2> HIDE DEF e, k
    <2>1. h[0] = p /\ g[0] = q
        BY <1>1, <1>2 DEF StepsTo
    <2> QED BY <2>1
<1>4. ASSUME NEW i \in 1 .. Len(buf), i - 1 \in G PROVE i \in G
    <2>1. h[i] = MbByte(name, h[i - 1], buf[i]) /\ g[i] = MbByte(name, g[i - 1], buf[i])
        BY <1>1, <1>2 DEF StepsTo, Step
    <2>2. buf[i] \in Byte
        OBVIOUS
    <2> QED BY <1>4, <2>1, <2>2, ByteAlike
<1>5. Alike(e(p), e(q))
    <2> HIDE DEF G, e
    <2>1. \A i \in 0 .. Len(buf) : i \in G
        BY <1>3, <1>4, GoesOn
    <2> QED BY <1>1, <1>2, <1>3, <2>1 DEF G
<1>6. MbHandleData(name, p, buf) = Decided(name, e(p)) /\ MbHandleData(name, q, buf) = Decided(name, e(q))
    BY DEF MbHandleData, AfterBytes
<1> HIDE DEF e
<1>7. /\ GotEnough(name, e(p)) = GotEnough(name, e(q))
      /\ MbConfidence(name, e(p)) = MbConfidence(name, e(q))
    BY <1>5, ConfidenceAlike
<1> QED BY <1>5, <1>6, <1>7 DEF Alike, MbFields, Decided

(* The pieces of a buffer have no other bytes than those of the buffer and *)
(* the one behind it.                                                      *)
CutAt(acc, R) ==
    /\ acc = [pieces |-> acc.pieces, piece |-> acc.piece, keep |-> acc.keep]
    /\ acc.pieces \in Seq(Seq(R)) /\ acc.piece \in Seq(R)

LEMMA CutStep ==
    ASSUME NEW R, NEW acc, CutAt(acc, R), NEW b \in R
    PROVE  CutAt(Cut(acc, b), R)
<1> DEFINE t == Append(acc.piece, b)
           u == Append(IF acc.keep = 0 THEN <<>> ELSE acc.piece, b)
           c == Cut(acc, b)
<1>1. t \in Seq(R) /\ u \in Seq(R) /\ <<>> \in Seq(R)
    BY DEF CutAt
<1>2. \/ c = [acc EXCEPT !.piece = u, !.keep = 2]
      \/ c = acc
      \/ c = [acc EXCEPT !.pieces = Append(@, t), !.piece = <<>>, !.keep = 0]
      \/ c = [acc EXCEPT !.piece = t, !.keep = 1]
    BY DEF Cut, CutAt
<1> HIDE DEF t, u, c
<1>3. Append(acc.pieces, t) \in Seq(Seq(R))
    BY <1>1 DEF CutAt
<1>4. CutAt(c, R)
    BY <1>1, <1>2, <1>3 DEF CutAt
<1> QED BY <1>4 DEF c

LEMMA PiecesAre ==
    ASSUME NEW R, NEW buf \in Seq(R), NEW behind \in R, NEW keepNext
    PROVE  Pieces(keepNext, buf, behind).pieces \in Seq(Seq(R))
<1> DEFINE z == [pieces |-> <<>>, piece |-> <<>>, keep |-> keepNext]
           cut == FoldLeft(Cut, z, buf)
<1>1. PICK h : StepsTo(<<"cut">>, z, buf, h) /\ h[Len(buf)] = cut
    BY CutFold DEF Ends
<1> DEFINE G == {n \in 0 .. Len(buf) : CutAt(h[n], R)}
<1>2. Len(buf) \in Nat /\ 0 \in G
    <2> HIDE DEF cut
    <2>1. h[0] = z
        BY <1>1 DEF StepsTo
    <2>2. CutAt(z, R)
        BY DEF CutAt
    <2> QED BY <2>1, <2>2
<1>3. ASSUME NEW n \in 1 .. Len(buf), n - 1 \in G PROVE n \in G
    <2>1. h[n] = Cut(h[n - 1], buf[n]) /\ buf[n] \in R
        BY <1>1 DEF StepsTo, Step
    <2> QED BY <1>3, <2>1, CutStep
<1>4. CutAt(cut, R)
    <2> HIDE DEF G, cut
    <2>1. \A n \in 0 .. Len(buf) : n \in G
        BY <1>2, <1>3, GoesOn
    <2> QED BY <1>1, <1>2, <2>1 DEF G
<1>5. Pieces(keepNext, buf, behind).pieces =
         IF cut.keep > 0 THEN Append(cut.pieces, Append(cut.piece, behind)) ELSE cut.pieces
    BY DEF Pieces
<1> HIDE DEF cut
<1>6. Append(cut.piece, behind) \in Seq(R)
    BY <1>4 DEF CutAt
<1> QED BY <1>4, <1>5, <1>6 DEF CutAt

(* The group of the probers.                                               *)
GroupAlike(g, h) ==
    /\ g = [probers |-> g.probers, best |-> g.best, keepNext |-> g.keepNext]
    /\ h = [probers |-> h.probers, best |-> h.best, keepNext |-> h.keepNext]
    /\ h.best = g.best /\ h.keepNext = g.keepNext
    /\ g.probers = [i \in 1 .. 7 |-> g.probers[i]] /\ h.probers = [i \in 1 .. 7 |-> h.probers[i]]
    /\ \A i \in 1 .. 7 : Alike(g.probers[i], h.probers[i])

LEMMA Names == DOMAIN MbNames = 1 .. 7 /\ Len(MbNames) = 7 /\ \A i \in 1 .. 7 : MbNames[i] \in MbSets
BY DEF MbNames, MbSets

LEMMA FeedAlike ==
    ASSUME NEW g, NEW h, GroupAlike(g, h), NEW i \in 1 .. 7, NEW piece \in Seq(Byte)
    PROVE  GroupAlike(MbFeed(g, i, piece), MbFeed(h, i, piece))
<1> DEFINE p == MbHandleData(MbNames[i], g.probers[i], piece)
           q == MbHandleData(MbNames[i], h.probers[i], piece)
<1>1. CASE g.best # 0
    BY <1>1 DEF GroupAlike, MbFeed
<1>2. CASE g.best = 0
    <2>1. Alike(p, q)
        BY Names, DataAlike DEF GroupAlike
    <2>2. /\ MbFeed(g, i, piece) = [g EXCEPT !.probers[i] = p, !.best = IF p.found THEN i ELSE 0]
          /\ MbFeed(h, i, piece) = [h EXCEPT !.probers[i] = q, !.best = IF q.found THEN i ELSE 0]
        BY <1>2 DEF GroupAlike, MbFeed
    <2> HIDE DEF p, q
    <2>3. p.found = q.found
        BY <2>1 DEF Alike, MbFields
    <2> DEFINE best == IF p.found THEN i ELSE 0
               ps == [g.probers EXCEPT ![i] = p]
               qs == [h.probers EXCEPT ![i] = q]
    <2>4. /\ MbFeed(g, i, piece) = [probers |-> ps, best |-> best, keepNext |-> g.keepNext]
          /\ MbFeed(h, i, piece) = [probers |-> qs, best |-> best, keepNext |-> g.keepNext]
        <3>1. /\ g = [probers |-> g.probers, best |-> g.best, keepNext |-> g.keepNext]
              /\ h = [probers |-> h.probers, best |-> h.best, keepNext |-> h.keepNext]
              /\ h.keepNext = g.keepNext
            BY DEF GroupAlike
        <3>2. MbFeed(g, i, piece) = [probers |-> ps, best |-> best, keepNext |-> g.keepNext]
            BY <2>2, <3>1
        <3>3. MbFeed(h, i, piece) = [probers |-> qs, best |-> best, keepNext |-> g.keepNext]
            <4>1. MbFeed(h, i, piece) = [h EXCEPT !.probers[i] = q, !.best = best]
                BY <2>2, <2>3
            <4> HIDE DEF best
            <4> QED BY <3>1, <4>1
        <3> QED BY <3>2, <3>3
    <2>5. /\ ps = [j \in 1 .. 7 |-> ps[j]] /\ qs = [j \in 1 .. 7 |-> qs[j]]
          /\ \A j \in 1 .. 7 : Alike(ps[j], qs[j])
        BY <2>1 DEF GroupAlike
    <2> HIDE DEF ps, qs, best
    <2> QED BY <2>4, <2>5 DEF GroupAlike
<1> QED BY <1>1, <1>2

LEMMA FeedAllAlike ==
    ASSUME NEW g, NEW h, GroupAlike(g, h), NEW piece \in Seq(Byte)
    PROVE  GroupAlike(MbFeedAll(g, piece), MbFeedAll(h, piece))
<1> DEFINE s == [i \in 1 .. 7 |-> i]
           k == <<"feed", piece>>
<1>1. Len(s) = 7 /\ \A i \in 1 .. 7 : s[i] = i
    OBVIOUS
<1>2. Ends(k, g, s, MbFeedAll(g, piece)) /\ Ends(k, h, s, MbFeedAll(h, piece))
    BY FeedFold
<1> HIDE DEF s
<1>3. PICK u : StepsTo(k, g, s, u) /\ u[7] = MbFeedAll(g, piece)
    BY <1>1, <1>2 DEF Ends
<1>4. PICK w : StepsTo(k, h, s, w) /\ w[7] = MbFeedAll(h, piece)
    BY <1>1, <1>2 DEF Ends
<1> DEFINE G == {n \in 0 .. 7 : GroupAlike(u[n], w[n])}
<1>5. 0 \in G
    BY <1>3, <1>4 DEF StepsTo
<1>6. ASSUME NEW n \in 1 .. 7, n - 1 \in G PROVE n \in G
    <2>1. u[n] = MbFeed(u[n - 1], n, piece) /\ w[n] = MbFeed(w[n - 1], n, piece)
        BY <1>1, <1>3, <1>4 DEF StepsTo, Step
    <2>2. GroupAlike(u[n - 1], w[n - 1])
        BY <1>6
    <2>3. GroupAlike(u[n], w[n])
        BY <2>1, <2>2, FeedAlike
    <2> QED BY <2>3
<1>7. \A n \in 0 .. 7 : n \in G
    <2> HIDE DEF G
    <2> QED BY <1>5, <1>6, GoesOn
<1> QED BY <1>3, <1>4, <1>7

LEMMA GroupDataAlike ==
    ASSUME NEW g, NEW h, GroupAlike(g, h), NEW buf \in Seq(Byte), NEW behind \in Byte
    PROVE  GroupAlike(MbGroupHandleData(g, buf, behind), MbGroupHandleData(h, buf, behind))
<1> DEFINE p == Pieces(g.keepNext, buf, behind)
           s == p.pieces
           k == <<"piece">>
           e(x) == FoldLeft(MbFeedAll, x, s)
<1>1. s \in Seq(Seq(Byte)) /\ Len(s) \in Nat
    BY PiecesAre
<1>2. /\ MbGroupHandleData(g, buf, behind) = MbKept(e(g), p.keep)
      /\ MbGroupHandleData(h, buf, behind) = MbKept(e(h), p.keep)
    BY DEF MbGroupHandleData, GroupAlike
<1> HIDE DEF s
<1>3. Ends(k, g, s, e(g)) /\ Ends(k, h, s, e(h))
    BY <1>1, PiecesFold
<1> HIDE DEF e
<1>4. PICK u : StepsTo(k, g, s, u) /\ u[Len(s)] = e(g)
    BY <1>3 DEF Ends
<1>5. PICK w : StepsTo(k, h, s, w) /\ w[Len(s)] = e(h)
    BY <1>3 DEF Ends
<1> DEFINE G == {n \in 0 .. Len(s) : GroupAlike(u[n], w[n])}
<1>6. 0 \in G
    BY <1>1, <1>4, <1>5 DEF StepsTo
<1>7. ASSUME NEW n \in 1 .. Len(s), n - 1 \in G PROVE n \in G
    <2>1. u[n] = MbFeedAll(u[n - 1], s[n]) /\ w[n] = MbFeedAll(w[n - 1], s[n]) /\ s[n] \in Seq(Byte)
        BY <1>1, <1>4, <1>5 DEF StepsTo, Step
    <2> QED BY <1>7, <2>1, FeedAllAlike
<1>8. \A n \in 0 .. Len(s) : n \in G
    <2> HIDE DEF G
    <2> QED BY <1>1, <1>6, <1>7, GoesOn
<1>9. GroupAlike(e(g), e(h))
    BY <1>1, <1>4, <1>5, <1>8
<1> QED BY <1>2, <1>9 DEF GroupAlike, MbKept

LEMMA GuessAlike ==
    ASSUME NEW g, NEW h, GroupAlike(g, h)
    PROVE  MbGuess(g) = MbGuess(h)
<1> DEFINE k(x) == <<"mbbest", x>>
           s == [i \in 1 .. 7 |-> i]
           e(x) == MbBest(x)
<1>1. Ends(k(g), <<0, 0>>, s, e(g)) /\ Ends(k(h), <<0, 0>>, s, e(h))
    BY MbBestFold
<1>2. MbGuess(g) = (IF g.best # 0 THEN <<g.best, Sure>> ELSE e(g)) /\ MbGuess(h) = (IF h.best # 0 THEN <<h.best, Sure>> ELSE e(h))
    BY Names DEF MbGuess, MbBest
<1>3. Len(s) = 7 /\ \A i \in 1 .. 7 : s[i] = i
    OBVIOUS
<1> HIDE DEF e, s
<1>4. PICK u : StepsTo(k(g), <<0, 0>>, s, u) /\ u[7] = e(g)
    BY <1>1, <1>3 DEF Ends
<1>5. PICK w : StepsTo(k(h), <<0, 0>>, s, w) /\ w[7] = e(h)
    BY <1>1, <1>3 DEF Ends
<1> DEFINE G == {n \in 0 .. 7 : u[n] = w[n]}
<1>6. 0 \in G
    BY <1>4, <1>5 DEF StepsTo
<1>7. ASSUME NEW n \in 1 .. 7, n - 1 \in G PROVE n \in G
    <2> DEFINE c(x) == MbConfidence(MbNames[n], x.probers[n])
    <2>1. c(g) = c(h)
        BY ConfidenceAlike DEF GroupAlike
    <2>2. /\ u[n] = IF c(g) > u[n - 1][2] THEN <<n, c(g)>> ELSE u[n - 1]
          /\ w[n] = IF c(h) > w[n - 1][2] THEN <<n, c(h)>> ELSE w[n - 1]
        BY <1>3, <1>4, <1>5 DEF StepsTo, Step
    <2> QED BY <1>7, <2>1, <2>2
<1>8. \A n \in 0 .. 7 : n \in G
    <2> HIDE DEF G
    <2> QED BY <1>6, <1>7, GoesOn
<1> QED BY <1>2, <1>4, <1>5, <1>8 DEF GroupAlike

(* The two detectors.                                                      *)
DetFields == {"done", "start", "gotData", "input", "nbsp", "lastChar", "charset", "confidence",
              "bom", "esc", "mb", "sb", "latin"}
Twins(d, e) ==
    /\ d = [f \in DetFields |-> d[f]] /\ e = [f \in DetFields |-> e[f]]
    /\ \A f \in DetFields \ {"mb"} : d[f] = e[f]
    /\ GroupAlike(d.mb, e.mb)

LEMMA LookAlike ==
    ASSUME NEW d, NEW e, Twins(d, e), NEW b
    PROVE  Twins(Looked(d, b), Looked(e, b))
<1>1. CASE HighByte(b)
    BY <1>1 DEF Twins, DetFields, Looked
<1>2. CASE ~HighByte(b) /\ b = \hA0
    <2>1. /\ Looked(d, b) = [d EXCEPT !.nbsp = TRUE, !.lastChar = b]
          /\ Looked(e, b) = [e EXCEPT !.nbsp = TRUE, !.lastChar = b]
        BY <1>2 DEF Looked
    <2> QED BY <2>1 DEF Twins, DetFields
<1>3. CASE ~HighByte(b) /\ b # \hA0
    <2> DEFINE input == IF d.input = "pure" /\ (b = 27 \/ (b = 123 /\ d.lastChar = 126))
                        THEN "esc" ELSE d.input
    <2>1. d.input = e.input /\ d.lastChar = e.lastChar
        BY DEF Twins, DetFields
    <2>2. /\ Looked(d, b) = [d EXCEPT !.input = input, !.lastChar = b]
          /\ Looked(e, b) = [e EXCEPT !.input = input, !.lastChar = b]
        BY <1>3, <2>1 DEF Looked
    <2> HIDE DEF input
    <2> QED BY <2>2 DEF Twins, DetFields
<1> QED BY <1>1, <1>2, <1>3

LEMMA LooksAlike ==
    ASSUME NEW d, NEW e, Twins(d, e), NEW buf \in Seq(Byte)
    PROVE  Twins(FoldLeft(Looked, d, buf), FoldLeft(Looked, e, buf))
<1> DEFINE k == <<"look">>
           r(x) == FoldLeft(Looked, x, buf)
<1>1. Ends(k, d, buf, r(d)) /\ Ends(k, e, buf, r(e))
    BY LookFold
<1> HIDE DEF r
<1>2. PICK u : StepsTo(k, d, buf, u) /\ u[Len(buf)] = r(d)
    BY <1>1 DEF Ends
<1>3. PICK w : StepsTo(k, e, buf, w) /\ w[Len(buf)] = r(e)
    BY <1>1 DEF Ends
<1> DEFINE G == {n \in 0 .. Len(buf) : Twins(u[n], w[n])}
<1>4. Len(buf) \in Nat /\ 0 \in G
    BY <1>2, <1>3 DEF StepsTo
<1>5. ASSUME NEW n \in 1 .. Len(buf), n - 1 \in G PROVE n \in G
    <2>1. u[n] = Looked(u[n - 1], buf[n]) /\ w[n] = Looked(w[n - 1], buf[n])
        BY <1>2, <1>3 DEF StepsTo, Step
    <2> QED BY <1>5, <2>1, LookAlike
<1>6. \A n \in 0 .. Len(buf) : n \in G
    <2> HIDE DEF G
    <2> QED BY <1>4, <1>5, GoesOn
<1> QED BY <1>2, <1>3, <1>4, <1>6 DEF r

LEMMA FoundAlike ==
    ASSUME NEW d, NEW e, Twins(d, e), NEW name, NEW confidence
    PROVE  Twins(Found(d, name, confidence), Found(e, name, confidence))
BY DEF Twins, DetFields, Found

LEMMA JudgedAlike ==
    ASSUME NEW d, NEW e, Twins(d, e), NEW buf \in Seq(Byte), NEW behind \in Byte
    PROVE  Twins(Judged(d, buf, behind), Judged(e, buf, behind))
<1> DEFINE g == MbGroupHandleData(d.mb, buf, behind)
           h == MbGroupHandleData(e.mb, buf, behind)
           sb == SbGroupHandleData(d.sb, buf)
           latin == Latin1HandleData(d.latin, buf)
           esc == EscHandleData(d.esc, buf)
<1>1. GroupAlike(g, h)
    BY GroupDataAlike DEF Twins
<1>2. /\ sb = SbGroupHandleData(e.sb, buf) /\ latin = Latin1HandleData(e.latin, buf)
      /\ esc = EscHandleData(e.esc, buf) /\ d.input = e.input /\ d.nbsp = e.nbsp
    BY DEF Twins, DetFields
<1>3. ASSUME NEW x, NEW y, Twins(x, y), NEW name, NEW confidence
      PROVE  Twins(Found(x, name, confidence), Found(y, name, confidence))
    BY <1>3, FoundAlike
<1>4. CASE d.input = "esc"
    <2>1. Judged(d, buf, behind) = Escaped(d, esc) /\ Judged(e, buf, behind) = Escaped(e, esc)
        BY <1>2, <1>4 DEF Judged
    <2> HIDE DEF esc
    <2>2. Twins([d EXCEPT !.esc = esc], [e EXCEPT !.esc = esc])
        BY DEF Twins, DetFields
    <2>3. [d EXCEPT !.esc = esc].nbsp = [e EXCEPT !.esc = esc].nbsp
        BY <1>2 DEF Twins, DetFields
    <2> QED BY <1>3, <2>1, <2>2, <2>3 DEF Escaped, Plainly
<1>5. CASE d.input = "high"
    <2> DEFINE x == [d EXCEPT !.mb = g]
               y == [e EXCEPT !.mb = h]
    <2>1. Judged(d, buf, behind) = WithMb(d, g, buf) /\ Judged(e, buf, behind) = WithMb(e, h, buf)
        BY <1>2, <1>5 DEF Judged
    <2>2. Twins(x, y) /\ g.best = h.best /\ x.sb = d.sb /\ y.sb = e.sb
        <3> HIDE DEF g, h
        <3>1. g.best = h.best
            BY <1>1 DEF GroupAlike
        <3> QED BY <1>1, <3>1 DEF Twins, DetFields
    <2>3. x.latin = d.latin /\ y.latin = e.latin
        BY DEF Twins, DetFields
    <2>4. CASE g.best # 0
        <3>1. /\ WithMb(d, g, buf) = Found(x, MbNames[g.best], Sure)
              /\ WithMb(e, h, buf) = Found(y, MbNames[g.best], Sure)
            BY <2>2, <2>4 DEF WithMb
        <3> HIDE DEF x, y, g, h
        <3> QED BY <1>3, <2>1, <2>2, <3>1
    <2>5. CASE g.best = 0
        <3>1. WithMb(d, g, buf) = WithSb(x, sb, buf) /\ WithMb(e, h, buf) = WithSb(y, sb, buf)
            BY <1>2, <2>2, <2>5 DEF WithMb
        <3> HIDE DEF x, y, g, h, sb
        <3>2. Twins([x EXCEPT !.sb = sb], [y EXCEPT !.sb = sb])
            BY <2>2 DEF Twins, DetFields
        <3>3. CASE sb.best # 0
            BY <1>3, <2>1, <3>1, <3>2, <3>3 DEF WithSb
        <3>4. CASE sb.best = 0
            <4>1. /\ WithSb(x, sb, buf) = [x EXCEPT !.sb = sb, !.latin = latin]
                  /\ WithSb(y, sb, buf) = [y EXCEPT !.sb = sb, !.latin = latin]
                BY <1>2, <2>2, <2>3, <3>4 DEF WithSb, Twins, DetFields
            <4> HIDE DEF latin
            <4>2. Twins(WithSb(x, sb, buf), WithSb(y, sb, buf))
                BY <2>2, <4>1 DEF Twins, DetFields
            <4> QED BY <2>1, <3>1, <4>2
        <3> QED BY <3>3, <3>4
    <2> QED BY <2>4, <2>5
<1>6. CASE d.input # "esc" /\ d.input # "high"
    <2>1. Judged(d, buf, behind) = Plainly(d) /\ Judged(e, buf, behind) = Plainly(e)
        BY <1>2, <1>6 DEF Judged
    <2> QED BY <1>2, <1>3, <2>1 DEF Plainly
<1> QED BY <1>4, <1>5, <1>6

LEMMA HandleAlike ==
    ASSUME NEW d, NEW e, Twins(d, e), NEW buf \in Seq(Byte), NEW behind \in Byte
    PROVE  Twins(HandleData(d, buf, behind), HandleData(e, buf, behind))
<1>1. d.done = e.done /\ d.start = e.start
    BY DEF Twins, DetFields
<1>2. CASE d.done
    BY <1>1, <1>2 DEF HandleData
<1>3. CASE ~d.done /\ d.start /\ MarkOf(buf) # None
    <2> DEFINE mark == MarkOf(buf)
               at(x) == [Found(x, mark, 10000) EXCEPT !.start = FALSE, !.gotData = TRUE, !.bom = TRUE]
    <2>1. HandleData(d, buf, behind) = at(d) /\ HandleData(e, buf, behind) = at(e)
        BY <1>1, <1>3 DEF HandleData
    <2> HIDE DEF mark
    <2>2. Twins(Found(d, mark, 10000), Found(e, mark, 10000))
        BY FoundAlike
    <2>3. ASSUME NEW x, NEW y, Twins(x, y)
          PROVE  Twins([x EXCEPT !.start = FALSE, !.gotData = TRUE, !.bom = TRUE],
                       [y EXCEPT !.start = FALSE, !.gotData = TRUE, !.bom = TRUE])
        BY <2>3 DEF Twins, DetFields
    <2>4. Twins(at(d), at(e))
        <3> DEFINE x == Found(d, mark, 10000)
                   y == Found(e, mark, 10000)
        <3> HIDE DEF x, y
        <3>1. Twins(x, y)
            BY <2>2 DEF x, y
        <3>2. Twins([x EXCEPT !.start = FALSE, !.gotData = TRUE, !.bom = TRUE],
                    [y EXCEPT !.start = FALSE, !.gotData = TRUE, !.bom = TRUE])
            BY <2>3, <3>1
        <3> QED BY <3>2 DEF x, y
    <2> QED BY <2>1, <2>4
<1>4. CASE ~d.done /\ ~(d.start /\ MarkOf(buf) # None)
    <2> DEFINE x == [d EXCEPT !.start = FALSE, !.gotData = @ \/ buf # <<>>]
               y == [e EXCEPT !.start = FALSE, !.gotData = @ \/ buf # <<>>]
    <2>1. Twins(x, y)
        BY DEF Twins, DetFields
    <2>2. /\ HandleData(d, buf, behind) = Judged(FoldLeft(Looked, x, buf), buf, behind)
          /\ HandleData(e, buf, behind) = Judged(FoldLeft(Looked, y, buf), buf, behind)
        BY <1>1, <1>4 DEF HandleData, Unmarked
    <2> HIDE DEF x, y
    <2> QED BY <2>1, <2>2, LooksAlike, JudgedAlike
<1> QED BY <1>2, <1>3, <1>4

LEMMA EndAlike ==
    ASSUME NEW d, NEW e, Twins(d, e)
    PROVE  Twins(DataEndOf(d), DataEndOf(e))
<1> DEFINE mb == MbGuess(d.mb)
           sb == SbGuess(d.sb)
           latin == Latin1Confidence(d.latin)
<1>1. mb = MbGuess(e.mb) /\ sb = SbGuess(e.sb) /\ latin = Latin1Confidence(e.latin) /\ d.sb = e.sb
    BY GuessAlike DEF Twins, DetFields
<1>2. d.gotData = e.gotData /\ d.charset = e.charset /\ d.input = e.input
    BY DEF Twins, DetFields
<1>3. CASE ~d.gotData
    BY <1>2, <1>3 DEF DataEndOf
<1>4. CASE d.gotData /\ d.charset # None
    BY <1>2, <1>4 DEF DataEndOf, Twins, DetFields
<1>5. CASE d.gotData /\ d.charset = None
    <2> HIDE DEF mb, sb, latin
    <2>1. ASSUME NEW name, NEW confidence
          PROVE  Twins([d EXCEPT !.confidence = confidence, !.charset = name],
                       [e EXCEPT !.confidence = confidence, !.charset = name])
        BY DEF Twins, DetFields
    <2>2. Twins(BestGuess(d, mb, sb, latin), BestGuess(e, mb, sb, latin))
        <3>1. SbName(d.sb, sb[1]) = SbName(e.sb, sb[1])
            BY <1>1
        <3> DEFINE best == Bigger(Bigger(mb[2], sb[2]), latin)
                   name == IF best > MinimumThreshold THEN BestName(d, mb, sb, best) ELSE None
        <3>2. BestName(d, mb, sb, best) = BestName(e, mb, sb, best)
            BY <3>1 DEF BestName
        <3>3. d.charset = None /\ e.charset = None
            BY <1>2, <1>5
        <3>4. /\ BestGuess(d, mb, sb, latin) = [d EXCEPT !.confidence = best, !.charset = name]
              /\ BestGuess(e, mb, sb, latin) = [e EXCEPT !.confidence = best, !.charset = name]
            BY <3>2, <3>3 DEF BestGuess
        <3> HIDE DEF name, best
        <3>5. Twins([d EXCEPT !.confidence = best, !.charset = name],
                    [e EXCEPT !.confidence = best, !.charset = name])
            BY <2>1
        <3> QED BY <3>4, <3>5
    <2> QED BY <1>1, <1>2, <1>5, <2>2 DEF DataEndOf, mb, sb, latin
<1> QED BY <1>3, <1>4, <1>5

LEMMA ResetAlike == ASSUME NEW d, NEW e, Twins(d, e) PROVE Twins(Reset(d), Fresh)
<1>1. \A i \in 1 .. 7 : Alike(MbReset(d.mb.probers[i]), MbFresh)
    BY DEF Alike, MbReset, MbFresh, MbFields, FreshSM
<1>2. GroupAlike(MbGroupReset(d.mb), MbGroupFresh)
    <2>1. MbGroupReset(d.mb) = [probers |-> [i \in 1 .. 7 |-> MbReset(d.mb.probers[i])], best |-> 0, keepNext |-> 0]
        BY Names DEF MbGroupReset
    <2>2. MbGroupFresh = [probers |-> [i \in 1 .. 7 |-> MbFresh], best |-> 0, keepNext |-> 0]
        BY Names DEF MbGroupFresh
    <2> QED BY <1>1, <2>1, <2>2 DEF GroupAlike
<1>3. Reset(d) = [Fresh EXCEPT !.mb = MbGroupReset(d.mb)] /\ Fresh.mb = MbGroupFresh
    BY DEF Reset, Fresh
<1>4. Fresh = [f \in DetFields |-> Fresh[f]]
    BY DEF Fresh, DetFields
<1> QED BY <1>2, <1>3, <1>4 DEF Twins, DetFields

LEMMA TwinsInductive ==
    /\ DetectInit => Twins(det, ref)
    /\ Twins(det, ref) /\ [DetectNext]_detectvars => Twins(det, ref)'
<1> DEFINE Inv == Twins(det, ref)
<1>1. DetectInit => Inv
    <2> SUFFICES ASSUME DetectInit PROVE Twins(Fresh, Fresh)
        BY DEF DetectInit
    <2>1. GroupAlike(MbGroupFresh, MbGroupFresh)
        <3>1. MbGroupFresh = [probers |-> [i \in 1 .. 7 |-> MbFresh], best |-> 0, keepNext |-> 0]
            BY Names DEF MbGroupFresh
        <3>2. Alike(MbFresh, MbFresh)
            BY DEF Alike, MbFresh, MbFields
        <3> QED BY <3>1, <3>2 DEF GroupAlike
    <2> QED BY <2>1 DEF Twins, Fresh, DetFields
<1>2. Inv /\ [DetectNext]_detectvars => Inv'
    <2> SUFFICES ASSUME Inv, [DetectNext]_detectvars PROVE Inv'
        OBVIOUS
    <2>1. CASE detect_handledata
        <3>1. PICK buf \in Buffers : /\ det' = DataEndOf(HandleData(det, buf.bytes, buf.behind))
                                     /\ ref' = DataEndOf(HandleData(ref, buf.bytes, buf.behind))
            BY <2>1 DEF detect_handledata
        <3>2. buf.bytes \in Seq(Byte) /\ buf.behind \in Byte
            BY BuffersAssumption DEF Byte
        <3> QED BY <3>1, <3>2, HandleAlike, EndAlike
    <2>2. CASE detect_dataend
        BY <2>2, EndAlike DEF detect_dataend
    <2>3. CASE detect_reset
        BY <2>3, ResetAlike DEF detect_reset
    <2>4. CASE UNCHANGED detectvars
        BY <2>4 DEF detectvars
    <2> QED BY <2>1, <2>2, <2>3, <2>4 DEF DetectNext
<1> QED BY <1>1, <1>2

(* A detector that has been reset answers whatever comes as a new one does,*)
(* for any buffers and any number of texts before: what Reset leaves of    *)
(* the last text, the last character of each multi-byte prober, is never   *)
(* read before it is written (nsUniversalDetector.cpp, chardet.cpp).       *)
THEOREM ResetForgetsAlways == DetectSpec => []ResetForgets
<1>1. Twins(det, ref) => ResetForgets
    BY DEF ResetForgets, Answer, Twins, DetFields
<1> QED BY <1>1, TwinsInductive, PTL DEF DetectSpec

-----------------------------------------------------------------------------
(* What the buffers say.                                                   *)

IsDet(d) == d = [f \in DetFields |-> d[f]]
Looking == {"input", "nbsp", "lastChar", "esc"}
Hint(buf, j) == buf[j] = 27 \/ (j > 1 /\ buf[j] = 123 /\ buf[j - 1] = 126)

(* What is known behind the first n bytes; d is what the detector was.     *)
LookedAt(d, r, buf, n) ==
    /\ IsDet(r) /\ \A f \in DetFields \ Looking : r[f] = d[f]
    /\ r.esc \in {d.esc, EscFresh}
    /\ d.input = "high" => r.input = "high"
    /\ d.input = "pure" /\ d.lastChar = 0 /\ ~d.nbsp =>
          /\ r.input \in {"pure", "esc", "high"}
          /\ r.input = "high" <=> \E j \in 1 .. n : HighByte(buf[j])
          /\ r.input = "esc" => \E j \in 1 .. n : Hint(buf, j)
          /\ r.input # "high" => /\ r.lastChar = IF n = 0 THEN 0 ELSE buf[n]
                                 /\ r.nbsp <=> \E j \in 1 .. n : buf[j] = \hA0

LEMMA LookedAtMore ==
    ASSUME NEW d, NEW buf \in Seq(Byte), NEW n \in 1 .. Len(buf), NEW r, LookedAt(d, r, buf, n - 1)
    PROVE  LookedAt(d, Looked(r, buf[n]), buf, n)
<1> DEFINE b == buf[n]
           q == Looked(r, b)
           first == d.input = "pure" /\ d.lastChar = 0 /\ ~d.nbsp
<1>1. n \in Nat /\ n # 0 /\ n - 1 \in Nat /\ 1 .. n = (1 .. n - 1) \cup {n} /\ b = buf[n] /\ b \in Byte
    OBVIOUS
<1> HIDE DEF b
<1>2. CASE HighByte(b)
    <2>1. q = [r EXCEPT !.input = "high", !.esc = EscFresh]
        BY <1>2 DEF Looked
    <2> HIDE DEF q
    <2>2. /\ IsDet(q) /\ \A f \in DetFields \ Looking : q[f] = d[f]
          /\ q.input = "high" /\ q.esc = EscFresh
        BY <2>1 DEF LookedAt, IsDet, DetFields, Looking
    <2>3. \E j \in 1 .. n : HighByte(buf[j])
        BY <1>1, <1>2
    <2>4. LookedAt(d, q, buf, n)
        BY <2>2, <2>3 DEF LookedAt
    <2> QED BY <2>4 DEF q, b
<1>3. CASE ~HighByte(b)
    <2> DEFINE input == IF b = \hA0 THEN r.input
                        ELSE IF r.input = "pure" /\ (b = 27 \/ (b = 123 /\ r.lastChar = 126))
                        THEN "esc" ELSE r.input
               nbsp == b = \hA0 \/ r.nbsp
    <2>1. /\ IsDet(q) /\ \A f \in DetFields \ Looking : q[f] = d[f]
          /\ q.input = input /\ q.lastChar = b /\ (q.nbsp <=> nbsp) /\ q.esc = r.esc
        <3>1. CASE b = \hA0
            <4>1. q = [r EXCEPT !.nbsp = TRUE, !.lastChar = b]
                BY <1>3, <3>1 DEF Looked
            <4> HIDE DEF q
            <4> QED BY <3>1, <4>1 DEF LookedAt, IsDet, DetFields, Looking
        <3>2. CASE b # \hA0
            <4> HIDE DEF input
            <4>1. q = [r EXCEPT !.input = input, !.lastChar = b]
                BY <1>3, <3>2 DEF Looked, input
            <4> HIDE DEF q
            <4>2. q.nbsp = r.nbsp
                BY <4>1 DEF LookedAt, IsDet, DetFields
            <4> QED BY <3>2, <4>1, <4>2 DEF LookedAt, IsDet, DetFields, Looking
        <3> QED BY <3>1, <3>2
    <2> HIDE DEF q
    <2>2. d.input = "high" => q.input = "high"
        BY <2>1 DEF LookedAt
    <2>5. q.esc \in {d.esc, EscFresh}
        BY <2>1 DEF LookedAt
    <2>3. ASSUME first
          PROVE  /\ q.input \in {"pure", "esc", "high"}
                 /\ q.input = "high" <=> \E j \in 1 .. n : HighByte(buf[j])
                 /\ q.input = "esc" => \E j \in 1 .. n : Hint(buf, j)
                 /\ q.input # "high" => /\ q.lastChar = IF n = 0 THEN 0 ELSE buf[n]
                                        /\ q.nbsp <=> \E j \in 1 .. n : buf[j] = \hA0
        <3>1. /\ r.input \in {"pure", "esc", "high"}
              /\ r.input = "high" <=> \E j \in 1 .. n - 1 : HighByte(buf[j])
              /\ r.input = "esc" => \E j \in 1 .. n - 1 : Hint(buf, j)
              /\ r.input # "high" => /\ r.lastChar = IF n - 1 = 0 THEN 0 ELSE buf[n - 1]
                                     /\ r.nbsp <=> \E j \in 1 .. n - 1 : buf[j] = \hA0
            BY <2>3 DEF LookedAt
        <3>2. q.input \in {"pure", "esc", "high"} /\ (q.input = "high" <=> r.input = "high")
            BY <2>1, <3>1
        <3>3. (\E j \in 1 .. n : HighByte(buf[j])) <=> \E j \in 1 .. n - 1 : HighByte(buf[j])
            BY <1>1, <1>3
        <3>4. ASSUME q.input = "esc" PROVE \E j \in 1 .. n : Hint(buf, j)
            <4>1. CASE r.input = "esc"
                BY <1>1, <3>1, <4>1
            <4>2. CASE r.input # "esc"
                <5>1. b = 27 \/ (b = 123 /\ r.lastChar = 126 /\ r.input = "pure")
                    BY <2>1, <3>4, <4>2
                <5>2. r.lastChar = 126 /\ r.input = "pure" => n - 1 # 0 /\ buf[n - 1] = 126
                    BY <3>1
                <5>3. Hint(buf, n)
                    BY <1>1, <5>1, <5>2 DEF Hint
                <5> QED BY <1>1, <5>3
            <4> QED BY <4>1, <4>2
        <3>5. q.input # "high" => (q.nbsp <=> \E j \in 1 .. n : buf[j] = \hA0)
            BY <1>1, <2>1, <3>1, <3>2
        <3> QED BY <1>1, <2>1, <3>1, <3>2, <3>3, <3>4, <3>5
    <2>4. LookedAt(d, q, buf, n)
        BY <2>1, <2>2, <2>3, <2>5 DEF LookedAt
    <2> QED BY <2>4 DEF q, b
<1> QED BY <1>2, <1>3

LEMMA LooksAre ==
    ASSUME NEW d, IsDet(d), NEW buf \in Seq(Byte)
    PROVE  LookedAt(d, FoldLeft(Looked, d, buf), buf, Len(buf))
<1> DEFINE k == <<"look">>
           r == FoldLeft(Looked, d, buf)
<1>1. Ends(k, d, buf, r)
    BY LookFold
<1> HIDE DEF r
<1>2. PICK h : StepsTo(k, d, buf, h) /\ h[Len(buf)] = r
    BY <1>1 DEF Ends
<1> DEFINE G == {n \in 0 .. Len(buf) : LookedAt(d, h[n], buf, n)}
<1>3. Len(buf) \in Nat /\ 0 \in G
    <2>1. h[0] = d
        BY <1>2 DEF StepsTo
    <2> QED BY <2>1 DEF LookedAt
<1>4. ASSUME NEW n \in 1 .. Len(buf), n - 1 \in G PROVE n \in G
    <2>1. h[n] = Looked(h[n - 1], buf[n])
        BY <1>2 DEF StepsTo, Step
    <2> QED BY <1>4, <2>1, LookedAtMore
<1>5. \A n \in 0 .. Len(buf) : n \in G
    <2> HIDE DEF G
    <2> QED BY <1>3, <1>4, GoesOn
<1> QED BY <1>2, <1>3, <1>5 DEF r

-----------------------------------------------------------------------------
(* What the group of the multi-byte probers has found: that of UTF-8 has   *)
(* counted no character and is not sure unless the first byte of one and   *)
(* a byte that goes on with it have been read.                             *)

IsLead(b) == b \in \hC2 .. \hFD
IsTail(b) == b \in 128 .. 191

(* The machine of UTF-8 gets into a character by a first byte only, and    *)
(* from within one back to the start state only by one that goes on.       *)
Utf8Running == (3 .. 12) \cup {0, 1}
LEMMA Utf8Classes ==
    /\ Runs(UTF8SMModel) /\ Len(UTF8SMModel.cls) = 22
    /\ \A i \in 1 .. 22 : UTF8SMModel.cls[i][2] \in 0 .. 15
    /\ \A i \in 1 .. 22 : UTF8SMModel.cls[i][2] \in 2 .. 5 => i \in 6 .. 9
    /\ \A i \in 6 .. 9 : UTF8SMModel.cls[i][1] <= 191 /\ UTF8SMModel.cls[i - 1][1] >= 127
    /\ \A i \in 1 .. 22 : UTF8SMModel.cls[i][2] \in 6 .. 15 => i \in 11 .. 21
    /\ \A i \in 11 .. 21 : UTF8SMModel.cls[i][1] <= \hFD /\ UTF8SMModel.cls[i - 1][1] >= \hC1
BY DEF UTF8SMModel, Runs

LEMMA Utf8Rows ==
    /\ \A c \in 0 .. 15 : UTF8SMModel.st[1][c + 1] \in Utf8Running
    /\ \A c \in 0 .. 15 : UTF8SMModel.st[1][c + 1] = 0 <=> c = 1
    /\ \A c \in 0 .. 15 : UTF8SMModel.st[1][c + 1] \in 3 .. 12 => c \in 6 .. 15
    /\ UTF8SMModel.st[1][1] = 1 /\ UTF8SMModel.charLen[2] = 1
    /\ \A c \in 0 .. 15 : UTF8SMModel.st[2][c + 1] = 1
    /\ \A s \in 3 .. 12 : \A c \in 0 .. 15 : UTF8SMModel.st[s + 1][c + 1] \in Utf8Running
    /\ \A s \in 3 .. 12 : \A c \in 0 .. 15 : UTF8SMModel.st[s + 1][c + 1] = 0 => c \in 2 .. 5
BY DEF UTF8SMModel, Utf8Running, eError, eItsMe, eStart

LEMMA Utf8Next ==
    ASSUME NEW s, s.state \in Utf8Running, NEW b \in Byte, NEW r, r = NextState(UTF8SMModel, s, b)
    PROVE  /\ r.state \in Utf8Running
           /\ r.state = 0 /\ s.state # 0 => IsTail(b) /\ s.state \notin {0, 1}
           /\ r.state \in 3 .. 12 /\ s.state = 0 => IsLead(b)
           /\ r.state \in 3 .. 12 => s.state # 1
           /\ r.state = 0 /\ s.state = 0 => r.len = 1
<1> DEFINE m == UTF8SMModel
<1>1. PICK i \in 1 .. Len(m.cls) : GetClass(m, b) = m.cls[i][2] /\ InRun(m, b, i)
    BY Utf8Classes, ClassOfRun
<1> DEFINE c == m.cls[i][2]
<1>2. /\ r.state = m.st[s.state + 1][c + 1]
      /\ r.len = IF s.state = 0 THEN m.charLen[c + 1] ELSE s.len
    BY <1>1 DEF NextState, eStart
<1>3. c \in 0 .. 15 /\ (c \in 2 .. 5 => IsTail(b)) /\ (c \in 6 .. 15 => IsLead(b))
    <2>1. i \in 1 .. 22 /\ b <= m.cls[i][1] /\ (i = 1 \/ b > m.cls[i - 1][1])
        BY <1>1, Utf8Classes DEF InRun
    <2>2. /\ \A j \in 1 .. 22 : m.cls[j][2] \in 0 .. 15
          /\ \A j \in 1 .. 22 : m.cls[j][2] \in 2 .. 5 => j \in 6 .. 9
          /\ \A j \in 1 .. 22 : m.cls[j][2] \in 6 .. 15 => j \in 11 .. 21
        BY Utf8Classes
    <2>5. \A j \in 1 .. 22 : m.cls[j][1] \in Nat
        BY Utf8Classes DEF Runs
    <2>6. \A j \in 6 .. 9 : m.cls[j][1] <= 191 /\ m.cls[j - 1][1] >= 127
        BY Utf8Classes
    <2>7. \A j \in 11 .. 21 : m.cls[j][1] <= \hFD /\ m.cls[j - 1][1] >= \hC1
        BY Utf8Classes
    <2> HIDE DEF m
    <2> DEFINE last == m.cls[i][1]
               before == m.cls[i - 1][1]
    <2>3. ASSUME i \in 6 .. 9 PROVE IsTail(b)
        <3>1. i - 1 \in 1 .. 22 /\ i # 1
            BY <2>3
        <3>2. last \in Nat /\ last <= 191 /\ b <= last
            BY <2>1, <2>3, <2>5, <2>6
        <3>3. before \in Nat /\ before >= 127 /\ b > before
            BY <2>1, <2>3, <2>5, <2>6, <3>1
        <3> HIDE DEF last, before
        <3> QED BY <3>2, <3>3 DEF Byte, IsTail
    <2>4. ASSUME i \in 11 .. 21 PROVE IsLead(b)
        <3>1. i - 1 \in 1 .. 22 /\ i # 1
            BY <2>4
        <3>2. last \in Nat /\ last <= \hFD /\ b <= last
            BY <2>1, <2>4, <2>5, <2>7
        <3>3. before \in Nat /\ before >= \hC1 /\ b > before
            BY <2>1, <2>4, <2>5, <2>7, <3>1
        <3> HIDE DEF last, before
        <3> QED BY <3>2, <3>3 DEF Byte, IsLead
    <2> QED BY <2>1, <2>2, <2>3, <2>4
<1> HIDE DEF c, m
<1>4. CASE s.state = 0
    <2> DEFINE x == m.st[1][c + 1]
    <2>1. r.state = x /\ r.len = m.charLen[c + 1]
        BY <1>2, <1>4
    <2>2. /\ x \in Utf8Running /\ (x = 0 <=> c = 1) /\ (x \in 3 .. 12 => c \in 6 .. 15)
          /\ m.charLen[2] = 1
        BY <1>3, Utf8Rows DEF m
    <2>3. c = 1 => c + 1 = 2
        OBVIOUS
    <2>4. c = 1 => m.charLen[c + 1] = 1
        BY <2>2, <2>3
    <2> HIDE DEF x
    <2> QED BY <1>3, <1>4, <2>1, <2>2, <2>4
<1>5. CASE s.state = 1
    <2>1. r.state = m.st[2][c + 1]
        BY <1>2, <1>5
    <2>2. m.st[2][c + 1] = 1
        BY <1>3, Utf8Rows DEF m
    <2> QED BY <1>5, <2>1, <2>2 DEF Utf8Running
<1>6. CASE s.state \in 3 .. 12
    <2> DEFINE x == m.st[s.state + 1][c + 1]
    <2>1. x \in Utf8Running /\ (x = 0 => c \in 2 .. 5)
        BY <1>3, <1>6, Utf8Rows DEF m
    <2> HIDE DEF x
    <2>2. r.state = x
        BY <1>2 DEF x
    <2> QED BY <1>3, <1>6, <2>1, <2>2
<1> QED BY <1>4, <1>5, <1>6 DEF Utf8Running

(* The prober of UTF-8: l is whether the text has a first byte of a        *)
(* character and e whether it also has one that goes on.                   *)
Utf8(p, l, e) ==
    /\ IsMb(p) /\ p.chars \in Nat /\ p.found \in BOOLEAN
    /\ p.chars # 0 => e
    /\ p.found => p.chars # 0
    /\ ~p.found => p.sm.state \in Utf8Running /\ (p.sm.state \in 3 .. 12 => l)
Sees(R, l, e) == \A b \in R : b \in Byte /\ (IsLead(b) => l) /\ (l /\ IsTail(b) => e)

LEMMA Utf8Byte ==
    ASSUME NEW l \in BOOLEAN, NEW e \in BOOLEAN, NEW p, Utf8(p, l, e), NEW b \in Byte,
           IsLead(b) => l, l /\ IsTail(b) => e
    PROVE  Utf8(MbByte("UTF-8", p, b), l, e)
<1>1. CASE p.found
    BY <1>1 DEF MbByte
<1>2. CASE ~p.found
    <2> DEFINE n == NextState(UTF8SMModel, p.sm, b)
               p1 == [p EXCEPT !.sm = n]
               p2 == IF n.state = 0 /\ n.len >= 2 THEN [p1 EXCEPT !.chars = @ + 1] ELSE p1
               r == [p2 EXCEPT !.last = b]
    <2>1. /\ n.state \in Utf8Running
          /\ n.state = 0 /\ p.sm.state # 0 => IsTail(b) /\ p.sm.state \notin {0, 1}
          /\ n.state \in 3 .. 12 /\ p.sm.state = 0 => IsLead(b)
          /\ n.state \in 3 .. 12 => p.sm.state # 1
          /\ n.state = 0 /\ p.sm.state = 0 => n.len = 1
        BY <1>2, Utf8Next DEF Utf8
    <2>2. MbByte("UTF-8", p, b) = r
        <3>1. MbByte("UTF-8", p, b) = [Stepped("UTF-8", [p EXCEPT !.sm = NextState(UTF8SMModel, @, b)], b)
                                          EXCEPT !.last = b]
            BY <1>2, CodersNamed DEF MbByte
        <3>2. [p EXCEPT !.sm = NextState(UTF8SMModel, @, b)] = p1 /\ p1.sm = n
            BY DEF Utf8, IsMb, MbFields
        <3> HIDE DEF n, p1
        <3>3. Stepped("UTF-8", p1, b) = p2
            BY <2>1, <3>2 DEF Stepped, Whole, eItsMe, eStart, Utf8Running
        <3> QED BY <3>1, <3>2, <3>3
    <2> HIDE DEF n
    <2>3. p1 = [f \in MbFields |-> p1[f]] /\ p1.sm = n /\ p1.chars = p.chars /\ p1.found = p.found
        BY DEF Utf8, IsMb, MbFields
    <2> HIDE DEF p1
    <2>4. /\ p2 = [f \in MbFields |-> p2[f]] /\ p2.sm = n /\ p2.found = p.found
          /\ p2.chars = IF n.state = 0 /\ n.len >= 2 THEN p.chars + 1 ELSE p.chars
        BY <2>3 DEF MbFields
    <2> HIDE DEF p2
    <2>5. /\ r = [f \in MbFields |-> r[f]] /\ r.sm = n /\ r.found = p.found /\ r.chars = p2.chars
        BY <2>4 DEF MbFields
    <2> HIDE DEF r
    <2>6. p.sm.state \in Utf8Running /\ (p.sm.state \in 3 .. 12 => l)
        BY <1>2 DEF Utf8
    <2>7. (n.state = 0 /\ n.len >= 2 => e) /\ (n.state \in 3 .. 12 => l)
        BY <2>1, <2>6 DEF Utf8Running
    <2>8. r.chars \in Nat /\ (r.chars # 0 => e)
        BY <2>4, <2>5, <2>7 DEF Utf8
    <2> QED BY <1>2, <2>1, <2>2, <2>5, <2>7, <2>8 DEF Utf8, IsMb
<1> QED BY <1>1, <1>2 DEF Utf8

LEMMA Utf8Piece ==
    ASSUME NEW l \in BOOLEAN, NEW e \in BOOLEAN, NEW p, Utf8(p, l, e), NEW R, Sees(R, l, e),
           NEW t \in Seq(R)
    PROVE  Utf8(MbHandleData("UTF-8", p, t), l, e)
<1> DEFINE r == AfterBytes("UTF-8", p, t)
<1>1. Len(t) \in Nat
    OBVIOUS
<1>2. PICK h : StepsTo(<<"byte", "UTF-8">>, p, t, h) /\ h[Len(t)] = r
    BY BytesFold DEF Ends
<1> DEFINE G == {n \in 0 .. Len(t) : Utf8(h[n], l, e)}
<1> HIDE DEF r
<1>3. 0 \in G
    BY <1>1, <1>2 DEF StepsTo
<1>4. ASSUME NEW n \in 1 .. Len(t), n - 1 \in G PROVE n \in G
    <2>1. h[n] = MbByte("UTF-8", h[n - 1], t[n]) /\ t[n] \in R
        BY <1>2 DEF StepsTo, Step
    <2>2. t[n] \in Byte /\ (IsLead(t[n]) => l) /\ (l /\ IsTail(t[n]) => e)
        BY <2>1 DEF Sees
    <2>3. Utf8(h[n - 1], l, e)
        BY <1>4
    <2>4. Utf8(h[n], l, e)
        BY <2>1, <2>2, <2>3, Utf8Byte
    <2> QED BY <2>4
<1>5. Utf8(r, l, e)
    <2>1. Len(t) \in G
        <3> HIDE DEF G
        <3>1. \A n \in 0 .. Len(t) : n \in G
            BY <1>1, <1>3, <1>4, GoesOn
        <3> QED BY <1>1, <3>1
    <2> QED BY <1>2, <2>1
<1>6. MbHandleData("UTF-8", p, t) = Decided("UTF-8", r)
    BY DEF MbHandleData, AfterBytes, r
<1> DEFINE found == r.found \/ MbConfidence("UTF-8", r) > Shortcut
<1>7. Decided("UTF-8", r) = [r EXCEPT !.found = found]
    BY <1>5 DEF Decided, GotEnough, Utf8, IsMb, MbFields
<1>8. found => r.chars # 0
    <2>1. r.chars = 0 => MbConfidence("UTF-8", r) = 100
        BY DEF MbConfidence, Sure
    <2> QED BY <1>5, <2>1 DEF Shortcut, Utf8
<1> HIDE DEF found
<1>9. found \in BOOLEAN /\ (r.found => found)
    BY DEF found
<1> QED BY <1>5, <1>6, <1>7, <1>8, <1>9 DEF Utf8, IsMb, MbFields

(* The group.                                                              *)
GroupTold(g, l, e) ==
    /\ GroupAlike(g, g) /\ g.best \in 0 .. 7 /\ (g.best = 1 => e)
    /\ Utf8(g.probers[1], l, e)

LEMMA FeedTold ==
    ASSUME NEW l \in BOOLEAN, NEW e \in BOOLEAN, NEW g, GroupTold(g, l, e), NEW R, Sees(R, l, e),
           NEW t \in Seq(R), NEW i \in 1 .. 7
    PROVE  GroupTold(MbFeed(g, i, t), l, e)
<1> DEFINE p == MbHandleData(MbNames[i], g.probers[i], t)
           best == IF p.found THEN i ELSE 0
           r == [g EXCEPT !.probers[i] = p, !.best = best]
<1>1. t \in Seq(Byte)
    <2>1. R \subseteq Byte
        BY DEF Sees
    <2> QED BY <2>1
<1>2. GroupAlike(MbFeed(g, i, t), MbFeed(g, i, t))
    BY <1>1, FeedAlike DEF GroupTold
<1>3. CASE g.best # 0
    BY <1>3 DEF MbFeed
<1>4. CASE g.best = 0
    <2>1. MbFeed(g, i, t) = r
        BY <1>4 DEF MbFeed
    <2> HIDE DEF p
    <2>2. r.best = best /\ r.probers = [g.probers EXCEPT ![i] = p]
        <3>1. g = [probers |-> g.probers, best |-> g.best, keepNext |-> g.keepNext]
            BY DEF GroupTold, GroupAlike
        <3> HIDE DEF best
        <3> QED BY <3>1
    <2>3. best \in 0 .. 7
        OBVIOUS
    <2>4. CASE i = 1
        <3>1. MbNames[i] = "UTF-8"
            BY <2>4 DEF MbNames
        <3>2. Utf8(p, l, e)
            BY <2>4, <3>1, Utf8Piece DEF GroupTold, p
        <3>3. r.probers[1] = p
            BY <2>2, <2>4 DEF GroupTold, GroupAlike
        <3>4. p.found => e
            BY <3>2 DEF Utf8
        <3> QED BY <1>2, <2>1, <2>2, <2>3, <3>2, <3>3, <3>4 DEF GroupTold
    <2>5. CASE i # 1
        <3>1. r.probers[1] = g.probers[1]
            BY <2>2, <2>5 DEF GroupTold, GroupAlike
        <3>2. best # 1
            BY <2>5
        <3> HIDE DEF r, best
        <3> QED BY <1>2, <2>1, <2>2, <2>3, <3>1, <3>2 DEF GroupTold
    <2> QED BY <2>4, <2>5
<1> QED BY <1>3, <1>4

LEMMA FeedAllTold ==
    ASSUME NEW l \in BOOLEAN, NEW e \in BOOLEAN, NEW g, GroupTold(g, l, e), NEW R, Sees(R, l, e),
           NEW t \in Seq(R)
    PROVE  GroupTold(MbFeedAll(g, t), l, e)
<1> DEFINE s == [i \in 1 .. 7 |-> i]
           k == <<"feed", t>>
<1>1. Len(s) = 7 /\ \A i \in 1 .. 7 : s[i] = i
    OBVIOUS
<1>2. Ends(k, g, s, MbFeedAll(g, t))
    BY FeedFold
<1> HIDE DEF s
<1>3. PICK u : StepsTo(k, g, s, u) /\ u[7] = MbFeedAll(g, t)
    BY <1>1, <1>2 DEF Ends
<1> DEFINE G == {n \in 0 .. 7 : GroupTold(u[n], l, e)}
<1>4. 0 \in G
    BY <1>3 DEF StepsTo
<1>5. ASSUME NEW n \in 1 .. 7, n - 1 \in G PROVE n \in G
    <2>1. u[n] = MbFeed(u[n - 1], n, t)
        BY <1>1, <1>3 DEF StepsTo, Step
    <2>2. GroupTold(u[n - 1], l, e)
        BY <1>5
    <2>3. GroupTold(u[n], l, e)
        BY <2>1, <2>2, FeedTold
    <2> QED BY <2>3
<1>6. \A n \in 0 .. 7 : n \in G
    <2> HIDE DEF G
    <2> QED BY <1>4, <1>5, GoesOn
<1> QED BY <1>3, <1>6

LEMMA GroupDataTold ==
    ASSUME NEW l \in BOOLEAN, NEW e \in BOOLEAN, NEW g, GroupTold(g, l, e), NEW R, Sees(R, l, e),
           NEW buf \in Seq(R), NEW behind \in R
    PROVE  GroupTold(MbGroupHandleData(g, buf, behind), l, e)
<1> DEFINE p == Pieces(g.keepNext, buf, behind)
           s == p.pieces
           k == <<"piece">>
           r == FoldLeft(MbFeedAll, g, s)
<1>1. s \in Seq(Seq(R)) /\ Len(s) \in Nat /\ \A i \in 1 .. Len(s) : s[i] \in Seq(R)
    BY PiecesAre
<1>2. MbGroupHandleData(g, buf, behind) = MbKept(r, p.keep)
    BY DEF MbGroupHandleData
<1> HIDE DEF s
<1>3. Ends(k, g, s, r)
    BY <1>1, PiecesFold
<1> HIDE DEF r
<1>4. PICK u : StepsTo(k, g, s, u) /\ u[Len(s)] = r
    BY <1>3 DEF Ends
<1> DEFINE G == {n \in 0 .. Len(s) : GroupTold(u[n], l, e)}
<1>5. 0 \in G
    BY <1>1, <1>4 DEF StepsTo
<1>6. ASSUME NEW n \in 1 .. Len(s), n - 1 \in G PROVE n \in G
    <2>1. u[n] = MbFeedAll(u[n - 1], s[n])
        BY <1>4 DEF StepsTo, Step
    <2>2. s[n] \in Seq(R) /\ GroupTold(u[n - 1], l, e)
        BY <1>1, <1>6
    <2>3. GroupTold(u[n], l, e)
        BY <2>1, <2>2, FeedAllTold
    <2> QED BY <2>3
<1>7. \A n \in 0 .. Len(s) : n \in G
    <2> HIDE DEF G
    <2> QED BY <1>1, <1>5, <1>6, GoesOn
<1>8. GroupTold(r, l, e)
    BY <1>1, <1>4, <1>7
<1> QED BY <1>2, <1>8 DEF GroupTold, GroupAlike, MbKept

(* The best of a group is one of its probers with what that one says.      *)
LEMMA MbGuessIs ==
    ASSUME NEW l \in BOOLEAN, NEW e \in BOOLEAN, NEW g, GroupTold(g, l, e), NEW best, best = MbGuess(g), best[2] > MinimumThreshold
    PROVE  best[1] \in 1 .. 7 /\ (best[1] = 1 => e)
<1>1. CASE g.best # 0
    BY <1>1 DEF MbGuess, GroupTold
<1>2. CASE g.best = 0
    <2> DEFINE k == <<"mbbest", g>>
               s == [i \in 1 .. 7 |-> i]
               conf(i) == MbConfidence(MbNames[i], g.probers[i])
    <2>1. best = MbBest(g) /\ Ends(k, <<0, 0>>, s, best)
        <3>1. best = MbBest(g)
            BY <1>2, Names DEF MbGuess, MbBest
        <3> QED BY <3>1, MbBestFold
    <2>2. Len(s) = 7 /\ \A i \in 1 .. 7 : s[i] = i
        OBVIOUS
    <2> HIDE DEF s
    <2>3. PICK u : StepsTo(k, <<0, 0>>, s, u) /\ u[7] = best
        BY <2>1, <2>2 DEF Ends
    <2> DEFINE G == {n \in 0 .. 7 : u[n] = <<0, 0>> \/ \E i \in 1 .. 7 : u[n] = <<i, conf(i)>>}
    <2>4. 0 \in G
        BY <2>3 DEF StepsTo
    <2>5. ASSUME NEW n \in 1 .. 7, n - 1 \in G PROVE n \in G
        <3>1. u[n] = IF conf(n) > u[n - 1][2] THEN <<n, conf(n)>> ELSE u[n - 1]
            BY <2>2, <2>3 DEF StepsTo, Step
        <3> HIDE DEF conf
        <3> QED BY <2>5, <3>1
    <2>6. \A n \in 0 .. 7 : n \in G
        <3> HIDE DEF G
        <3> QED BY <2>4, <2>5, GoesOn
    <2>7. best = <<0, 0>> \/ \E i \in 1 .. 7 : best = <<i, conf(i)>>
        <3> HIDE DEF conf
        <3> QED BY <2>3, <2>6
    <2>8. PICK i \in 1 .. 7 : best = <<i, conf(i)>>
        <3> HIDE DEF conf
        <3>1. best # <<0, 0>>
            BY DEF MinimumThreshold
        <3> QED BY <2>7, <3>1
    <2>9. ASSUME i = 1 PROVE e
        <3>1. conf(1) = MbConfidence("UTF-8", g.probers[1]) /\ conf(1) > 2000
            BY <2>8, <2>9 DEF MbNames, MinimumThreshold
        <3>2. g.probers[1].chars # 0
            BY <3>1 DEF MbConfidence, Sure
        <3> QED BY <3>2 DEF GroupTold, Utf8
    <2> HIDE DEF conf
    <2> QED BY <2>8, <2>9
<1> QED BY <1>1, <1>2

(* The group of the single-byte probers.                                   *)
SbTold(g) == g.best \in {0} \cup (1 .. Len(SbModels))

LEMMA SbDataTold ==
    ASSUME NEW g, SbTold(g), NEW buf
    PROVE  SbTold(SbGroupHandleData(g, buf))
<1> DEFINE letters == FilterWithoutEnglishLetters(buf)
           s == [i \in DOMAIN SbModels |-> i]
           r == SbAfter(g, letters)
           N == Len(SbModels)
<1>1. N \in Nat /\ DOMAIN SbModels = 1 .. N /\ Len(s) = N /\ \A i \in 1 .. N : s[i] = i
    BY ProbersAssumption
<1>2. SbGroupHandleData(g, buf) = IF letters = <<>> THEN g ELSE r
    BY DEF SbGroupHandleData, SbAfter
<1> HIDE DEF letters
<1>3. Ends(<<"sbfeed", letters>>, g, s, r)
    BY SbFeedFold
<1> HIDE DEF s, r
<1>4. PICK u : StepsTo(<<"sbfeed", letters>>, g, s, u) /\ u[N] = r
    BY <1>1, <1>3 DEF Ends
<1> DEFINE G == {n \in 0 .. N : SbTold(u[n])}
<1>5. 0 \in G
    BY <1>1, <1>4 DEF StepsTo
<1>6. ASSUME NEW n \in 1 .. N, n - 1 \in G PROVE n \in G
    <2>1. u[n] = SbFeed(u[n - 1], n, letters)
        BY <1>1, <1>4, <1>6 DEF StepsTo, Step
    <2>2. SbTold(u[n - 1])
        BY <1>6
    <2>3. SbTold(u[n])
        <3> DEFINE x == u[n - 1]
                   q == SbHandleData(x.probers, n, letters)
                   r1 == [probers |-> [x.probers EXCEPT ![n] = q],
                          active |-> IF q.state = "not me" THEN x.active \ {n} ELSE x.active,
                          best |-> IF q.state = "found" THEN n ELSE 0]
        <3>1. u[n] = x \/ u[n].best \in {0, n}
            <4>1. u[n] = x \/ u[n] = r1
                BY <2>1, Zenon DEF SbFeed
            <4> HIDE DEF q
            <4>2. r1.best \in {0, n}
                OBVIOUS
            <4> QED BY <4>1, <4>2
        <3> QED BY <2>2, <3>1 DEF SbTold
    <2> QED BY <2>3, <1>6
<1>7. \A n \in 0 .. N : n \in G
    <2> HIDE DEF G, N
    <2> QED BY <1>1, <1>5, <1>6, GoesOn
<1>8. SbTold(r)
    BY <1>1, <1>4, <1>7
<1> QED BY <1>2, <1>8

LEMMA SbGuessIs ==
    ASSUME NEW g, SbTold(g), NEW best, best = SbGuess(g), best[2] > MinimumThreshold
    PROVE  best[1] \in 1 .. Len(SbModels) /\ best[2] # 10000
<1>1. CASE g.best # 0
    <2>1. best = <<g.best, Sure>>
        BY <1>1, Zenon DEF SbGuess
    <2> QED BY <1>1, <2>1 DEF SbTold, Sure
<1>2. CASE g.best = 0 /\ g.active = {}
    <2>1. best = <<0, SureNot>>
        BY <1>2, Zenon DEF SbGuess
    <2> QED BY <2>1 DEF SureNot, MinimumThreshold
<1>3. CASE g.best = 0 /\ g.active # {}
    <2> DEFINE k == <<"sbbest", g>>
               N == Len(SbModels)
               s == [i \in 1 .. N |-> i]
    <2>1. best = SbBest(g) /\ Ends(k, <<0, 0>>, s, best)
        <3>1. best = SbBest(g)
            BY <1>3 DEF SbGuess, SbBest, SbSure
        <3> QED BY <3>1, SbBestFold
    <2>2. N \in Nat /\ Len(s) = N /\ \A i \in 1 .. N : s[i] = i
        BY ProbersAssumption
    <2> HIDE DEF s
    <2>3. PICK u : StepsTo(k, <<0, 0>>, s, u) /\ u[N] = best
        BY <2>1, <2>2 DEF Ends
    <2> DEFINE G == {n \in 0 .. N : u[n] = <<0, 0>> \/ \E i \in 1 .. N : u[n] = <<i, SbSure(g, i)>>}
    <2>4. 0 \in G
        BY <2>2, <2>3 DEF StepsTo
    <2>5. ASSUME NEW n \in 1 .. N, n - 1 \in G PROVE n \in G
        <3>1. u[n] = IF SbSure(g, n) > u[n - 1][2] THEN <<n, SbSure(g, n)>> ELSE u[n - 1]
            BY <2>2, <2>3 DEF StepsTo, Step
        <3> QED BY <2>5, <3>1
    <2>6. \A n \in 0 .. N : n \in G
        <3> HIDE DEF G, N
        <3> QED BY <2>2, <2>4, <2>5, GoesOn
    <2>7. best = <<0, 0>> \/ \E i \in 1 .. N : best = <<i, SbSure(g, i)>>
        <3>1. N \in G
            BY <2>2, <2>6
        <3> QED BY <2>3, <3>1
    <2>8. PICK i \in 1 .. N : best = <<i, SbSure(g, i)>>
        <3>1. best # <<0, 0>>
            BY DEF MinimumThreshold
        <3> QED BY <2>7, <3>1
    <2>9. SbSure(g, i) # 10000
        <3>1. ASSUME NEW m, NEW p PROVE SbConfidence(m, p) # 10000
            BY DEF SbConfidence, SureNot, Sure
        <3> QED BY <3>1 DEF SbSure
    <2> QED BY <2>8, <2>9
<1> QED BY <1>1, <1>2, <1>3

(* What a prober calls its text.                                           *)
EscNames == {m.name : m \in Escapes}
LEMMA SbNamed ==
    ASSUME NEW g, NEW i \in 1 .. Len(SbModels)
    PROVE  SbName(g, i) \notin {None, "ASCII", "UTF-8"} \cup EscNames
<1>1. EscNames = {"HZ-GB-2312", "ISO-2022-CN", "ISO-2022-JP", "ISO-2022-KR"}
    BY DEF EscNames, Escapes, HZSMModel, ISO2022CNSMModel, ISO2022JPSMModel, ISO2022KRSMModel
<1>2. HebrewName(g.probers) \in {"windows-1255", "ISO-8859-8"}
    BY DEF HebrewName
<1>3. SbModels[i].name \notin {None, "ASCII", "UTF-8"} \cup EscNames
    BY ProbersAssumption DEF EscNames, None
<1> QED BY <1>1, <1>2, <1>3 DEF SbName, None

LEMMA MbNamed ==
    /\ MbNames[1] = "UTF-8"
    /\ \A i \in 1 .. 7 : MbNames[i] \notin {None, "ASCII", "ISO-8859-1"} \cup EscNames
    /\ \A i \in 1 .. 7 : MbNames[i] = "UTF-8" => i = 1
BY DEF MbNames, None, EscNames, Escapes, HZSMModel, ISO2022CNSMModel, ISO2022JPSMModel, ISO2022KRSMModel

(* The machines of the escape sequences.                                   *)
EscTold(e) == e.name \in {None} \cup EscNames

LEMMA EscDataTold ==
    ASSUME NEW e, EscTold(e), NEW buf \in Seq(Byte)
    PROVE  EscTold(EscHandleData(e, buf))
<1>1. \A i \in 1 .. 4 : EscModels[i].name \in EscNames
    BY DEF EscModels, EscNames, Escapes
<1>2. ASSUME NEW f, EscTold(f), NEW b PROVE EscTold(AfterMachines(f, b))
    <2> DEFINE s == <<4, 3, 2, 1>>
               r == AfterMachines(f, b)
    <2>1. Len(s) = 4 /\ \A n \in 1 .. 4 : s[n] \in 1 .. 4
        OBVIOUS
    <2>2. Ends(<<"machine", b>>, f, s, r)
        BY MachinesFold
    <2> HIDE DEF s, r
    <2>3. PICK u : StepsTo(<<"machine", b>>, f, s, u) /\ u[4] = r
        BY <2>1, <2>2 DEF Ends
    <2> DEFINE G == {n \in 0 .. 4 : EscTold(u[n])}
    <2>4. 0 \in G
        BY <1>2, <2>3 DEF StepsTo
    <2>5. ASSUME NEW n \in 1 .. 4, n - 1 \in G PROVE n \in G
        <3>1. u[n] = EscStep(u[n - 1], s[n], b)
            BY <2>1, <2>3 DEF StepsTo, Step
        <3> QED BY <1>1, <2>1, <2>5, <3>1 DEF EscStep, EscTold
    <2>6. \A n \in 0 .. 4 : n \in G
        <3> HIDE DEF G
        <3> QED BY <2>4, <2>5, GoesOn
    <2> QED BY <2>3, <2>6 DEF r
<1> DEFINE r == EscHandleData(e, buf)
<1>3. Ends(<<"escape">>, e, buf, r)
    BY EscapeFold
<1> HIDE DEF r
<1>4. PICK u : StepsTo(<<"escape">>, e, buf, u) /\ u[Len(buf)] = r
    BY <1>3 DEF Ends
<1> DEFINE G == {n \in 0 .. Len(buf) : EscTold(u[n])}
<1>5. Len(buf) \in Nat /\ 0 \in G
    BY <1>4 DEF StepsTo
<1>6. ASSUME NEW n \in 1 .. Len(buf), n - 1 \in G PROVE n \in G
    <2>1. u[n] = AfterMachines(u[n - 1], buf[n])
        BY <1>4 DEF StepsTo, Step
    <2> QED BY <1>2, <1>6, <2>1
<1>7. \A n \in 0 .. Len(buf) : n \in G
    <2> HIDE DEF G
    <2> QED BY <1>5, <1>6, GoesOn
<1> QED BY <1>4, <1>5, <1>7 DEF r

-----------------------------------------------------------------------------
(* What an answer of d rests on, in the buffers s, each with the byte      *)
(* behind it.                                                              *)

HighIn(t)  == \E j \in DOMAIN t : HighByte(t[j])
BlankIn(t) == \E j \in DOMAIN t : t[j] = \hA0
HintIn(t)  == \E j \in DOMAIN t : Hint(t, j)
Buf == [bytes : Seq(Byte), behind : Byte]
WhatIsRead(b) == Append(b.bytes, b.behind)
HasLead(b) == \E j \in DOMAIN WhatIsRead(b) : IsLead(WhatIsRead(b)[j])
HasTail(b) == \E j \in DOMAIN WhatIsRead(b) : IsTail(WhatIsRead(b)[j])
Highs(s)   == \E i \in DOMAIN s : HighIn(s[i].bytes)
Hints(s)   == \E i \in DOMAIN s : HintIn(s[i].bytes)
Leads(s)   == \E i \in DOMAIN s : HasLead(s[i])
Follows(s) == Leads(s) /\ \E i \in DOMAIN s : HasTail(s[i])

PlainAnswer(d) == d.charset \in {"ASCII", "ISO-8859-1"} /\ d.confidence = 10000 /\ ~d.bom
Grounds(d, s) ==
    /\ d.charset = "ASCII" => PlainAnswer(d)
    /\ PlainAnswer(d) => ~HighIn(s[1].bytes) /\ (d.charset = "ISO-8859-1" <=> BlankIn(s[1].bytes))
    /\ d.charset \in EscNames => Hints(s)
    /\ d.bom => MarkOf(s[1].bytes) = d.charset
    /\ d.charset # None /\ ~d.bom /\ ~PlainAnswer(d) /\ ~Hints(s) => Highs(s)
    /\ d.charset = "UTF-8" /\ ~d.bom => Follows(s)
    /\ d.charset # None => d.confidence > MinimumThreshold

(* A detector that has seen the buffers s, of which there are some: what   *)
(* its groups have found, and that it is not done only with a text that    *)
(* has a high byte in its first buffer.                                    *)
Told(d, s) ==
    /\ IsDet(d) /\ GroupTold(d.mb, Leads(s), Follows(s)) /\ SbTold(d.sb) /\ EscTold(d.esc)
    /\ ~d.start /\ (d.done => d.charset # None) /\ (d.bom => d.done)
    /\ ~d.done => d.input = "high" /\ HighIn(s[1].bytes)
    /\ Grounds(d, s)

LEMMA Longer ==
    ASSUME NEW s \in Seq(Buf), NEW buf \in Buf, NEW t, t = Append(s, buf)
    PROVE  /\ t \in Seq(Buf) /\ t # <<>>
           /\ s = <<>> => t[1] = buf
           /\ s # <<>> => t[1] = s[1]
           /\ Highs(s) \/ HighIn(buf.bytes) => Highs(t)
           /\ Hints(s) \/ HintIn(buf.bytes) => Hints(t)
           /\ Leads(s) \/ HasLead(buf) => Leads(t)
           /\ Follows(s) \/ (Leads(t) /\ HasTail(buf)) => Follows(t)
<1>1. /\ t \in Seq(Buf) /\ Len(s) \in Nat /\ Len(t) = Len(s) + 1
      /\ t[Len(s) + 1] = buf /\ \A i \in 1 .. Len(s) : t[i] = s[i]
    OBVIOUS
<1>2. DOMAIN t = 1 .. Len(s) + 1 /\ DOMAIN s = 1 .. Len(s)
    BY <1>1
<1>3. /\ s = <<>> => t[1] = buf
      /\ s # <<>> => t[1] = s[1]
    BY <1>1
<1>4. ASSUME NEW P, (\E i \in DOMAIN s : s[i] \in P) \/ buf \in P PROVE \E i \in DOMAIN t : t[i] \in P
    <2>1. CASE buf \in P
        BY <1>1, <1>2, <2>1
    <2>2. CASE \E i \in DOMAIN s : s[i] \in P
        BY <1>1, <1>2, <2>2
    <2> QED BY <1>4, <2>1, <2>2
<1>5. \A i \in DOMAIN s : s[i] \in Buf
    BY <1>2
<1>6. ASSUME Highs(s) \/ HighIn(buf.bytes) PROVE Highs(t)
    <2> DEFINE P == {x \in Buf : HighIn(x.bytes)}
    <2>1. (\E i \in DOMAIN s : s[i] \in P) \/ buf \in P
        BY <1>5, <1>6 DEF Highs
    <2>2. \E i \in DOMAIN t : t[i] \in P
        <3> HIDE DEF P
        <3> QED BY <1>4, <2>1
    <2> QED BY <2>2 DEF Highs
<1>7. ASSUME Hints(s) \/ HintIn(buf.bytes) PROVE Hints(t)
    <2> DEFINE P == {x \in Buf : HintIn(x.bytes)}
    <2>1. (\E i \in DOMAIN s : s[i] \in P) \/ buf \in P
        BY <1>5, <1>7 DEF Hints
    <2>2. \E i \in DOMAIN t : t[i] \in P
        <3> HIDE DEF P
        <3> QED BY <1>4, <2>1
    <2> QED BY <2>2 DEF Hints
<1>8. ASSUME Leads(s) \/ HasLead(buf) PROVE Leads(t)
    <2> DEFINE P == {x \in Buf : HasLead(x)}
    <2>1. (\E i \in DOMAIN s : s[i] \in P) \/ buf \in P
        BY <1>5, <1>8 DEF Leads
    <2>2. \E i \in DOMAIN t : t[i] \in P
        <3> HIDE DEF P
        <3> QED BY <1>4, <2>1
    <2> QED BY <2>2 DEF Leads
<1>9. ASSUME Follows(s) \/ (Leads(t) /\ HasTail(buf)) PROVE Follows(t)
    <2> DEFINE P == {x \in Buf : HasTail(x)}
    <2>1. (\E i \in DOMAIN s : s[i] \in P) \/ buf \in P
        BY <1>5, <1>9 DEF Follows
    <2>2. \E i \in DOMAIN t : t[i] \in P
        <3> HIDE DEF P
        <3> QED BY <1>4, <2>1
    <2>3. Leads(t)
        BY <1>8, <1>9 DEF Follows
    <2> QED BY <2>2, <2>3 DEF Follows
<1> QED BY <1>1, <1>2, <1>3, <1>6, <1>7, <1>8, <1>9

(* What is read of a buffer.                                               *)
LEMMA SeenIn ==
    ASSUME NEW buf \in Buf, NEW l, NEW e, HasLead(buf) => l, l /\ HasTail(buf) => e
    PROVE  \E R \in SUBSET Byte : buf.bytes \in Seq(R) /\ buf.behind \in R /\ Sees(R, l, e)
<1> DEFINE w == WhatIsRead(buf)
           R == {w[j] : j \in DOMAIN w}
<1>1. /\ buf.bytes \in Seq(Byte) /\ buf.behind \in Byte /\ w \in Seq(Byte)
      /\ Len(w) = Len(buf.bytes) + 1 /\ w[Len(w)] = buf.behind
      /\ \A j \in 1 .. Len(buf.bytes) : w[j] = buf.bytes[j]
    BY DEF Buf, WhatIsRead
<1>2. DOMAIN w = 1 .. Len(w) /\ Len(buf.bytes) \in Nat
    BY <1>1
<1> HIDE DEF w
<1>3. R \in SUBSET Byte
    BY <1>1, <1>2
<1>4. buf.behind \in R
    BY <1>1, <1>2
<1>5. buf.bytes \in Seq(R)
    <2>1. \A j \in 1 .. Len(buf.bytes) : buf.bytes[j] \in R
        BY <1>1, <1>2
    <2> HIDE DEF R
    <2> QED BY <1>1, <2>1
<1>6. Sees(R, l, e)
    <2> SUFFICES ASSUME NEW j \in DOMAIN w PROVE w[j] \in Byte /\ (IsLead(w[j]) => l) /\ (l /\ IsTail(w[j]) => e)
        BY DEF Sees
    <2>1. w[j] \in Byte
        BY <1>1, <1>2
    <2>2. (IsLead(w[j]) => HasLead(buf)) /\ (IsTail(w[j]) => HasTail(buf))
        BY DEF HasLead, HasTail, w
    <2> QED BY <2>1, <2>2
<1> QED BY <1>3, <1>4, <1>5, <1>6

LEMMA GroupToldMore ==
    ASSUME NEW g, NEW l, NEW m, NEW e, NEW f, GroupTold(g, l, e), l => m, e => f
    PROVE  GroupTold(g, m, f)
BY DEF GroupTold, Utf8

LEMMA ToldLonger ==
    ASSUME NEW s \in Seq(Buf), s # <<>>, NEW buf \in Buf, NEW d, Told(d, s)
    PROVE  Told(d, Append(s, buf))
<1> DEFINE t == Append(s, buf)
<1>1. t[1] = s[1] /\ (Highs(s) => Highs(t)) /\ (Hints(s) => Hints(t)) /\ (Leads(s) => Leads(t))
      /\ (Follows(s) => Follows(t))
    BY Longer
<1> HIDE DEF t
<1>2. GroupTold(d.mb, Leads(t), Follows(t))
    BY <1>1, GroupToldMore DEF Told
<1>3. Grounds(d, t)
    BY <1>1 DEF Told, Grounds
<1> QED BY <1>1, <1>2, <1>3 DEF Told, t

(* The marks name no set that an escape sequence announces.                *)
LEMMA MarkNames == \A i \in 1 .. 16 : Marks[i][2] \notin {None, "ASCII"} \cup EscNames
<1>1. EscNames = {"HZ-GB-2312", "ISO-2022-CN", "ISO-2022-JP", "ISO-2022-KR"}
    BY DEF EscNames, Escapes, HZSMModel, ISO2022CNSMModel, ISO2022JPSMModel, ISO2022KRSMModel
<1> QED BY <1>1 DEF Marks, None

LEMMA MarkNamed ==
    ASSUME NEW buf, MarkOf(buf) # None
    PROVE  MarkOf(buf) \notin {None, "ASCII"} \cup EscNames
<1> DEFINE fit == {i \in DOMAIN Marks : IsPrefix(Marks[i][1], buf)}
           c == CHOOSE i \in fit : \A j \in fit : i <= j
<1>1. DOMAIN Marks = 1 .. 16
    BY DEF Marks
<1>2. fit # {} /\ MarkOf(buf) = Marks[c][2]
    BY DEF MarkOf
<1>3. fit \subseteq Nat
    BY <1>1
<1>4. \E i \in fit : \A j \in fit : i <= j
    <2> HIDE DEF fit
    <2> QED BY <1>2, <1>3, LeastIn
<1>5. c \in fit
    <2> HIDE DEF fit
    <2> QED BY <1>4
<1>6. c \in 1 .. 16
    BY <1>1, <1>5
<1> HIDE DEF c
<1> QED BY <1>2, <1>6, MarkNames

(* A prober that is certain, of a name that it may give to what is in s.   *)
MayName(name, s) ==
    name \notin {None, "ASCII"} \cup EscNames /\ (name = "UTF-8" => Follows(s))

LEMMA FoundIs ==
    ASSUME NEW d, IsDet(d), NEW name, NEW confidence, NEW q, q = Found(d, name, confidence)
    PROVE  /\ IsDet(q) /\ q.done /\ q.charset = name /\ q.confidence = confidence
           /\ \A f \in DetFields \ {"done", "charset", "confidence"} : q[f] = d[f]
BY DEF Found, IsDet, DetFields

LEMMA FoundTold ==
    ASSUME NEW d, NEW s, Told(d, s), ~d.done, 1 \in DOMAIN s,
           NEW name, MayName(name, s), NEW r, r = Found(d, name, Sure)
    PROVE  Told(r, s)
<1>0. IsDet(d)
    BY DEF Told
<1>1. /\ IsDet(r) /\ r.done /\ r.charset = name /\ r.confidence = 9900
      /\ r.bom = d.bom /\ r.mb = d.mb /\ r.sb = d.sb /\ r.esc = d.esc /\ r.start = d.start
    <2>1. IsDet(r) /\ r.done /\ r.charset = name /\ r.confidence = Sure
        BY <1>0, FoundIs
    <2>2. \A f \in DetFields \ {"done", "charset", "confidence"} : r[f] = d[f]
        BY <1>0, FoundIs
    <2>3. {"bom", "mb", "sb", "esc", "start"} \subseteq DetFields \ {"done", "charset", "confidence"}
        BY DEF DetFields
    <2> QED BY <2>1, <2>2, <2>3 DEF Sure
<1>2. ~r.bom
    BY <1>1 DEF Told
<1>3. Highs(s)
    BY DEF Highs, Told
<1>4. Grounds(r, s)
    BY <1>1, <1>2, <1>3 DEF MayName, Grounds, PlainAnswer, MinimumThreshold
<1>5. GroupTold(r.mb, Leads(s), Follows(s)) /\ SbTold(r.sb) /\ EscTold(r.esc) /\ ~r.start
    BY <1>1 DEF Told
<1> QED BY <1>1, <1>2, <1>4, <1>5 DEF MayName, Told

(* The groups, one after the other: they find the set of the text or leave *)
(* the answer as it is.                                                    *)
LEMMA JudgedTold ==
    ASSUME NEW d, NEW s, Told(d, s), ~d.done, 1 \in DOMAIN s,
           NEW R \in SUBSET Byte, Sees(R, Leads(s), Follows(s)), NEW buf \in Seq(R), NEW behind \in R,
           NEW r, r = Judged(d, buf, behind)
    PROVE  /\ Told(r, s)
           /\ \/ r.charset = d.charset /\ r.confidence = d.confidence
              \/ r.done /\ r.confidence = Sure
<1> DEFINE mb == MbGroupHandleData(d.mb, buf, behind)
           sb == SbGroupHandleData(d.sb, buf)
           latin == Latin1HandleData(d.latin, buf)
           x == [d EXCEPT !.mb = mb]
           y == [x EXCEPT !.sb = sb]
           z == [y EXCEPT !.latin = latin]
<1>1. GroupTold(mb, Leads(s), Follows(s)) /\ SbTold(sb)
    <2>1. Leads(s) \in BOOLEAN /\ Follows(s) \in BOOLEAN
        BY DEF Leads, Follows
    <2> QED BY <2>1, GroupDataTold, SbDataTold DEF Told
<1>2. r = WithMb(d, mb, buf)
    <2>1. d.input = "high"
        BY DEF Told
    <2> QED BY <2>1 DEF Judged
<1>3. IsDet(d)
    BY DEF Told
<1> HIDE DEF mb, latin
<1>4. /\ IsDet(x) /\ x.mb = mb /\ \A f \in DetFields \ {"mb"} : x[f] = d[f]
    BY <1>3 DEF IsDet, DetFields
<1>5. x.sb = d.sb /\ x.latin = d.latin
    BY <1>4 DEF DetFields
<1> HIDE DEF x, sb
<1>6. IsDet(y) /\ y.sb = sb /\ \A f \in DetFields \ {"sb"} : y[f] = x[f]
    BY <1>4 DEF IsDet, DetFields
<1>7. y.latin = d.latin
    BY <1>5, <1>6 DEF DetFields
<1> HIDE DEF y
<1>8. IsDet(z) /\ \A f \in DetFields \ {"latin"} : z[f] = y[f]
    BY <1>6 DEF IsDet, DetFields
<1> HIDE DEF z
<1>9. \/ mb.best # 0 /\ r = Found(x, MbNames[mb.best], Sure)
      \/ mb.best = 0 /\ sb.best # 0 /\ r = Found(y, SbName(sb, sb.best), Sure)
      \/ mb.best = 0 /\ sb.best = 0 /\ r = z
    <2>1. CASE mb.best # 0
        BY <1>2, <2>1 DEF WithMb, x
    <2>2. CASE mb.best = 0
        <3>1. r = WithSb(x, sb, buf)
            BY <1>2, <2>2 DEF WithMb, x, sb
        <3>2. CASE sb.best # 0
            BY <2>2, <3>1, <3>2 DEF WithSb, y
        <3>3. CASE sb.best = 0
            <4>1. r = [x EXCEPT !.sb = sb, !.latin = Latin1HandleData(x.latin, buf)]
                BY <1>4, <3>1, <3>3 DEF WithSb, IsDet, DetFields
            <4>2. r = [x EXCEPT !.sb = sb, !.latin = latin]
                BY <1>5, <4>1 DEF latin
            <4>3. r = z
                BY <4>2 DEF y, z
            <4> QED BY <2>2, <3>3, <4>3
        <3> QED BY <3>2, <3>3
    <2> QED BY <2>1, <2>2
(* Neither of the fields that changed says anything of the answer.         *)
<1>10. ASSUME NEW w \in {x, y, z} PROVE Told(w, s) /\ ~w.done /\ w.charset = d.charset /\ w.confidence = d.confidence
    <2>1. /\ IsDet(w) /\ w.mb = mb /\ w.sb \in {d.sb, sb}
          /\ \A f \in DetFields \ {"mb", "sb", "latin"} : w[f] = d[f]
        BY <1>4, <1>6, <1>8 DEF DetFields
    <2>2. /\ w.done = d.done /\ w.charset = d.charset /\ w.confidence = d.confidence /\ w.bom = d.bom
          /\ w.start = d.start /\ w.input = d.input /\ w.esc = d.esc
        BY <2>1 DEF DetFields
    <2>3. Grounds(w, s)
        BY <2>2 DEF Told, Grounds, PlainAnswer
    <2>4. GroupTold(w.mb, Leads(s), Follows(s)) /\ SbTold(w.sb) /\ EscTold(w.esc)
        BY <1>1, <2>1, <2>2 DEF Told
    <2> QED BY <2>1, <2>2, <2>3, <2>4 DEF Told
<1>11. CASE mb.best # 0
    <2>1. mb.best \in 1 .. 7 /\ (mb.best = 1 => Follows(s))
        BY <1>1, <1>11 DEF GroupTold
    <2>2. MayName(MbNames[mb.best], s)
        BY <2>1, MbNamed DEF MayName
    <2>3. r = Found(x, MbNames[mb.best], Sure) /\ Told(x, s) /\ ~x.done
        BY <1>9, <1>10, <1>11
    <2>4. Told(r, s)
        BY <2>2, <2>3, FoundTold
    <2>5. r.done /\ r.confidence = Sure
        BY <1>4, <2>3, FoundIs
    <2> QED BY <2>4, <2>5
<1>12. CASE mb.best = 0 /\ sb.best # 0
    <2>1. sb.best \in 1 .. Len(SbModels)
        BY <1>1, <1>12 DEF SbTold
    <2>2. MayName(SbName(sb, sb.best), s)
        BY <2>1, SbNamed DEF MayName
    <2>3. r = Found(y, SbName(sb, sb.best), Sure) /\ Told(y, s) /\ ~y.done
        BY <1>9, <1>10, <1>12
    <2>4. Told(r, s)
        BY <2>2, <2>3, FoundTold
    <2>5. r.done /\ r.confidence = Sure
        BY <1>6, <2>3, FoundIs
    <2> QED BY <2>4, <2>5
<1>13. CASE mb.best = 0 /\ sb.best = 0
    BY <1>9, <1>10, <1>13
<1> QED BY <1>11, <1>12, <1>13

(* The first buffer, when it has no high byte: the answer is plain, or the *)
(* set that an escape sequence announces.                                  *)
LEMMA NamesApart == EscNames \cap {None, "ASCII", "ISO-8859-1", "UTF-8"} = {}
BY DEF EscNames, None, Escapes, HZSMModel, ISO2022CNSMModel, ISO2022JPSMModel, ISO2022KRSMModel

LEMMA PlainTold ==
    ASSUME NEW d, IsDet(d), NEW s, GroupTold(d.mb, Leads(s), Follows(s)), SbTold(d.sb), EscTold(d.esc),
           ~d.start, ~d.bom, ~HighIn(s[1].bytes), d.nbsp <=> BlankIn(s[1].bytes), NEW r, r = Plainly(d)
    PROVE  Told(r, s)
<1> DEFINE name == IF d.nbsp THEN "ISO-8859-1" ELSE "ASCII"
<1>1. r = Found(d, name, 10000)
    BY DEF Plainly
<1>2. name \in {"ASCII", "ISO-8859-1"} /\ (name = "ISO-8859-1" <=> BlankIn(s[1].bytes))
    OBVIOUS
<1> HIDE DEF name
<1>3. /\ IsDet(r) /\ r.done /\ r.charset = name /\ r.confidence = 10000
      /\ \A f \in DetFields \ {"done", "charset", "confidence"} : r[f] = d[f]
    BY <1>1, FoundIs
<1>4. r.mb = d.mb /\ r.sb = d.sb /\ r.esc = d.esc /\ r.bom = d.bom /\ r.start = d.start
    BY <1>3 DEF DetFields
<1>5. Grounds(r, s)
    BY <1>2, <1>3, <1>4, NamesApart DEF Grounds, PlainAnswer, MinimumThreshold, None
<1> QED BY <1>2, <1>3, <1>4, <1>5 DEF Told, None

LEMMA EscapedTold ==
    ASSUME NEW d, IsDet(d), NEW s, GroupTold(d.mb, Leads(s), Follows(s)), SbTold(d.sb), NEW e, EscTold(e),
           ~d.start, ~d.bom, ~HighIn(s[1].bytes), d.nbsp <=> BlankIn(s[1].bytes), Hints(s), NEW r, r = Escaped(d, e)
    PROVE  Told(r, s)
<1> DEFINE q == [d EXCEPT !.esc = e]
<1>1. IsDet(q) /\ q.esc = e /\ \A f \in DetFields \ {"esc"} : q[f] = d[f]
    BY DEF IsDet, DetFields
<1>2. r = IF e.name # None THEN Found(q, e.name, Sure) ELSE Plainly(q)
    BY DEF Escaped
<1> HIDE DEF q
<1>3. q.mb = d.mb /\ q.sb = d.sb /\ q.bom = d.bom /\ q.start = d.start /\ q.nbsp = d.nbsp
    BY <1>1 DEF DetFields
<1>4. CASE e.name = None
    BY <1>1, <1>2, <1>3, <1>4, PlainTold
<1>5. CASE e.name # None
    <2>1. r = Found(q, e.name, Sure)
        BY <1>2, <1>5
    <2>2. /\ IsDet(r) /\ r.done /\ r.charset = e.name /\ r.confidence = Sure
          /\ \A f \in DetFields \ {"done", "charset", "confidence"} : r[f] = q[f]
        BY <1>1, <2>1, FoundIs
    <2>3. r.mb = q.mb /\ r.sb = q.sb /\ r.esc = q.esc /\ r.bom = q.bom /\ r.start = q.start
        BY <2>2 DEF DetFields
    <2>4. e.name \in EscNames
        BY <1>5 DEF EscTold
    <2>5. Grounds(r, s)
        BY <1>3, <2>2, <2>3, <2>4, NamesApart DEF Grounds, PlainAnswer, MinimumThreshold, Sure
    <2> QED BY <1>1, <1>3, <1>5, <2>2, <2>3, <2>5 DEF Told
<1> QED BY <1>4, <1>5

LEMMA FreshTold ==
    /\ IsDet(Fresh) /\ SbTold(SbGroupFresh) /\ EscTold(EscFresh)
    /\ \A l, e : GroupTold(MbGroupFresh, l, e)
<1>1. IsDet(Fresh)
    BY DEF Fresh, IsDet, DetFields
<1>2. SbTold(SbGroupFresh) /\ EscTold(EscFresh)
    BY DEF SbTold, SbGroupFresh, EscTold, EscFresh
<1>3. MbGroupFresh = [probers |-> [i \in 1 .. 7 |-> MbFresh], best |-> 0, keepNext |-> 0]
    BY Names DEF MbGroupFresh
<1>4. Alike(MbFresh, MbFresh) /\ IsMb(MbFresh)
    BY DEF Alike, IsMb, MbFresh, MbFields
<1>5. GroupAlike(MbGroupFresh, MbGroupFresh)
    BY <1>3, <1>4 DEF GroupAlike
<1>6. \A l, e : Utf8(MbFresh, l, e)
    BY <1>4 DEF Utf8, MbFresh, FreshSM, eStart, Utf8Running
<1> QED BY <1>1, <1>2, <1>3, <1>5, <1>6 DEF GroupTold

(* What the bytes of a buffer make of the detector, before it is judged.   *)
LooksAt(d, buf) == FoldLeft(Looked, [d EXCEPT !.start = FALSE, !.gotData = @ \/ buf # <<>>], buf)

LEMMA LookTold ==
    ASSUME NEW d, IsDet(d), NEW buf \in Seq(Byte), NEW q, q = LooksAt(d, buf)
    PROVE  /\ IsDet(q) /\ ~q.start
           /\ q.done = d.done /\ q.charset = d.charset /\ q.confidence = d.confidence /\ q.bom = d.bom
           /\ q.mb = d.mb /\ q.sb = d.sb /\ q.esc \in {d.esc, EscFresh}
           /\ d.input = "high" => q.input = "high"
           /\ d.input = "pure" /\ d.lastChar = 0 /\ ~d.nbsp =>
                 /\ q.input \in {"pure", "esc", "high"} /\ (q.input = "high" <=> HighIn(buf))
                 /\ q.input = "esc" => HintIn(buf)
                 /\ q.input # "high" => (q.nbsp <=> BlankIn(buf))
<1> DEFINE x == [d EXCEPT !.start = FALSE, !.gotData = @ \/ buf # <<>>]
<1>1. IsDet(x) /\ x.start = FALSE /\ \A f \in DetFields \ {"start", "gotData"} : x[f] = d[f]
    BY DEF IsDet, DetFields
<1>2. q = FoldLeft(Looked, x, buf)
    BY DEF LooksAt
<1> HIDE DEF x
<1>3. LookedAt(x, q, buf, Len(buf))
    BY <1>1, <1>2, LooksAre
<1>4. /\ x.done = d.done /\ x.charset = d.charset /\ x.confidence = d.confidence /\ x.bom = d.bom
      /\ x.mb = d.mb /\ x.sb = d.sb /\ x.esc = d.esc /\ x.input = d.input /\ x.lastChar = d.lastChar
      /\ x.nbsp = d.nbsp
    BY <1>1 DEF DetFields
<1>5. IsDet(q) /\ q.esc \in {x.esc, EscFresh} /\ \A f \in DetFields \ Looking : q[f] = x[f]
    BY <1>3 DEF LookedAt
<1>6. /\ q.done = x.done /\ q.charset = x.charset /\ q.confidence = x.confidence /\ q.bom = x.bom
      /\ q.mb = x.mb /\ q.sb = x.sb /\ q.start = x.start
    BY <1>5 DEF DetFields, Looking
<1>7. d.input = "high" => q.input = "high"
    BY <1>3, <1>4 DEF LookedAt
<1>8. DOMAIN buf = 1 .. Len(buf)
    OBVIOUS
<1>9. ASSUME d.input = "pure" /\ d.lastChar = 0 /\ ~d.nbsp
      PROVE  /\ q.input \in {"pure", "esc", "high"} /\ (q.input = "high" <=> HighIn(buf))
             /\ q.input = "esc" => HintIn(buf)
             /\ q.input # "high" => (q.nbsp <=> BlankIn(buf))
    <2>1. /\ q.input \in {"pure", "esc", "high"}
          /\ q.input = "high" <=> \E j \in 1 .. Len(buf) : HighByte(buf[j])
          /\ q.input = "esc" => \E j \in 1 .. Len(buf) : Hint(buf, j)
          /\ q.input # "high" => (q.nbsp <=> \E j \in 1 .. Len(buf) : buf[j] = \hA0)
        BY <1>3, <1>4, <1>9 DEF LookedAt
    <2> QED BY <1>8, <2>1 DEF HighIn, HintIn, BlankIn
<1> QED BY <1>1, <1>4, <1>5, <1>6, <1>7, <1>9

(* A buffer more.                                                          *)
MarkedBy(d, mark) == [Found(d, mark, 10000) EXCEPT !.start = FALSE, !.gotData = TRUE, !.bom = TRUE]

LEMMA MarkedTold ==
    ASSUME NEW d, IsDet(d), NEW s, GroupTold(d.mb, Leads(s), Follows(s)), SbTold(d.sb), EscTold(d.esc),
           NEW mark, mark = MarkOf(s[1].bytes), mark # None, NEW r, r = MarkedBy(d, mark)
    PROVE  Told(r, s)
<1> DEFINE q == Found(d, mark, 10000)
<1>1. /\ IsDet(q) /\ q.done /\ q.charset = mark /\ q.confidence = 10000
      /\ \A f \in DetFields \ {"done", "charset", "confidence"} : q[f] = d[f]
    BY FoundIs
<1>2. q.mb = d.mb /\ q.sb = d.sb /\ q.esc = d.esc
    BY <1>1 DEF DetFields
<1>3. r = [q EXCEPT !.start = FALSE, !.gotData = TRUE, !.bom = TRUE]
    BY DEF MarkedBy
<1> HIDE DEF q
<1>4. /\ IsDet(r) /\ ~r.start /\ r.bom
      /\ \A f \in DetFields \ {"start", "gotData", "bom"} : r[f] = q[f]
    <2>1. IsDet(q)
        BY <1>1
    <2>2. IsDet(r) /\ ~r.start /\ r.bom
        BY <1>3, <2>1 DEF IsDet, DetFields
    <2>3. \A f \in DetFields \ {"start", "gotData", "bom"} : r[f] = q[f]
        BY <1>3, <2>1 DEF IsDet, DetFields
    <2> QED BY <2>2, <2>3
<1>5. /\ r.done = q.done /\ r.charset = q.charset /\ r.confidence = q.confidence
      /\ r.mb = q.mb /\ r.sb = q.sb /\ r.esc = q.esc
    BY <1>4 DEF DetFields
<1>6. mark \notin {None, "ASCII"} \cup EscNames
    BY MarkNamed
<1>7. Grounds(r, s)
    BY <1>1, <1>4, <1>5, <1>6 DEF Grounds, PlainAnswer, MinimumThreshold
<1> QED BY <1>1, <1>2, <1>4, <1>5, <1>6, <1>7 DEF Told

LEMMA DataTold ==
    ASSUME NEW s \in Seq(Buf), NEW b \in Buf, NEW d,
           s = <<>> => d = Fresh, s # <<>> => Told(d, s), NEW r, r = HandleData(d, b.bytes, b.behind)
    PROVE  /\ Told(r, Append(s, b))
           /\ d.charset # None => \/ r.charset = d.charset /\ r.confidence = d.confidence
                                  \/ ~d.done /\ r.done /\ r.confidence = Sure
<1> DEFINE buf == b.bytes
           t == Append(s, b)
           q == LooksAt(d, buf)
<1>1. /\ t # <<>> /\ 1 \in DOMAIN t /\ buf \in Seq(Byte)
      /\ s = <<>> => t[1].bytes = buf
      /\ s # <<>> => t[1] = s[1]
      /\ HintIn(buf) => Hints(t)
    <2>1. 1 \in DOMAIN t /\ buf \in Seq(Byte)
        BY DEF Buf
    <2> QED BY <2>1, Longer
<1>r. PICK R \in SUBSET Byte : buf \in Seq(R) /\ b.behind \in R /\ Sees(R, Leads(t), Follows(t))
    <2>1. (HasLead(b) => Leads(t)) /\ (Leads(t) /\ HasTail(b) => Follows(t))
        BY Longer
    <2> HIDE DEF t
    <2> QED BY <2>1, SeenIn
<1>2. s # <<>> => Told(d, t)
    BY ToldLonger
<1> HIDE DEF t, buf
<1>3. IsDet(d)
    BY FreshTold DEF Told
<1>4. CASE d.done
    <2>1. s # <<>> /\ r = d
        BY <1>4 DEF HandleData, Fresh, buf
    <2> QED BY <1>2, <2>1 DEF t
<1>5. CASE ~d.done /\ d.start /\ MarkOf(buf) # None
    <2>1. s = <<>> /\ d = Fresh
        BY <1>5 DEF Told
    <2>2. r = MarkedBy(d, MarkOf(buf))
        BY <1>5 DEF HandleData, MarkedBy, buf
    <2>3. GroupTold(d.mb, Leads(t), Follows(t)) /\ SbTold(d.sb) /\ EscTold(d.esc) /\ d.charset = None
        BY <2>1, FreshTold DEF Fresh
    <2>4. Told(r, t)
        BY <1>1, <1>3, <1>5, <2>1, <2>2, <2>3, MarkedTold
    <2> QED BY <2>3, <2>4 DEF t
<1>6. CASE ~d.done /\ ~(d.start /\ MarkOf(buf) # None)
    <2>1. r = Judged(q, buf, b.behind)
        BY <1>6 DEF HandleData, Unmarked, LooksAt, buf
    <2>0. q = LooksAt(d, buf)
        OBVIOUS
    <2> HIDE DEF q
    <2>2. /\ IsDet(q) /\ ~q.start
          /\ q.done = d.done /\ q.charset = d.charset /\ q.confidence = d.confidence /\ q.bom = d.bom
          /\ q.mb = d.mb /\ q.sb = d.sb /\ q.esc \in {d.esc, EscFresh}
          /\ d.input = "high" => q.input = "high"
          /\ d.input = "pure" /\ d.lastChar = 0 /\ ~d.nbsp =>
                /\ q.input \in {"pure", "esc", "high"} /\ (q.input = "high" <=> HighIn(buf))
                /\ q.input = "esc" => HintIn(buf)
                /\ q.input # "high" => (q.nbsp <=> BlankIn(buf))
        BY <1>1, <1>3, <2>0, LookTold
    <2>3. CASE s # <<>>
        <3>1. Told(d, t)
            BY <1>2, <2>3
        <3>2. Grounds(q, t)
            BY <2>2, <3>1 DEF Told, Grounds, PlainAnswer
        <3>3. GroupTold(q.mb, Leads(t), Follows(t)) /\ SbTold(q.sb) /\ EscTold(q.esc)
            BY <2>2, <3>1, FreshTold DEF Told
        <3>4. Told(q, t)
            BY <1>6, <2>2, <3>1, <3>2, <3>3 DEF Told
        <3>5. /\ Told(r, t)
              /\ \/ r.charset = q.charset /\ r.confidence = q.confidence
                 \/ r.done /\ r.confidence = Sure
            BY <1>1, <1>6, <2>1, <2>2, <3>4, JudgedTold, <1>r
        <3> QED BY <1>6, <2>2, <3>5 DEF t
    <2>4. CASE s = <<>>
        <3>1. d = Fresh
            BY <2>4
        <3>2. /\ d.charset = None /\ ~d.bom /\ ~d.nbsp /\ d.input = "pure" /\ d.lastChar = 0
              /\ d.mb = MbGroupFresh /\ d.sb = SbGroupFresh /\ d.esc = EscFresh
            BY <3>1 DEF Fresh
        <3>3. GroupTold(q.mb, Leads(t), Follows(t)) /\ SbTold(q.sb) /\ EscTold(q.esc)
            BY <2>2, <3>2, FreshTold
        <3>4. CASE q.input = "high"
            <4>1. HighIn(t[1].bytes)
                BY <1>1, <2>2, <2>4, <3>2, <3>4
            <4>2. Grounds(q, t)
                BY <2>2, <3>2, NamesApart DEF Grounds, PlainAnswer, None
            <4>3. Told(q, t)
                BY <1>6, <2>2, <3>2, <3>3, <3>4, <4>1, <4>2 DEF Told
            <4>4. Told(r, t)
                BY <1>1, <1>6, <2>1, <2>2, <4>3, JudgedTold, <1>r
            <4> QED BY <3>2, <4>4 DEF t
        <3>5. CASE q.input # "high"
            <4>1. ~HighIn(t[1].bytes) /\ (q.nbsp <=> BlankIn(t[1].bytes)) /\ ~q.bom /\ ~q.start
                BY <1>1, <2>2, <2>4, <3>2, <3>5
            <4>2. CASE q.input = "esc"
                <5>1. Hints(t)
                    BY <1>1, <2>2, <3>2, <4>2
                <5>2. r = Escaped(q, EscHandleData(q.esc, buf))
                    BY <2>1, <4>2 DEF Judged
                <5>3. EscTold(EscHandleData(q.esc, buf))
                    BY <1>1, <3>3, EscDataTold
                <5>4. Told(r, t)
                    BY <2>2, <3>3, <4>1, <5>1, <5>2, <5>3, EscapedTold
                <5> QED BY <3>2, <5>4 DEF t
            <4>3. CASE q.input # "esc"
                <5>1. r = Plainly(q)
                    BY <2>1, <3>5, <4>3 DEF Judged
                <5>2. Told(r, t)
                    BY <2>2, <3>3, <4>1, <5>1, PlainTold
                <5> QED BY <3>2, <5>2 DEF t
            <4> QED BY <4>2, <4>3
        <3> QED BY <3>4, <3>5
    <2> QED BY <2>3, <2>4
<1> QED BY <1>4, <1>5, <1>6

(* The end of what has come so far.                                        *)
LEMMA EndTold ==
    ASSUME NEW s, 1 \in DOMAIN s, NEW d, Told(d, s), NEW r, r = DataEndOf(d)
    PROVE  /\ Told(r, s)
           /\ d.charset # None => r.charset = d.charset /\ r.confidence = d.confidence
           /\ d.charset # None /\ d.done => r.done
<1>1. IsDet(d)
    BY DEF Told
<1>2. CASE r = d
    BY <1>2
<1>3. CASE d.charset # None /\ r = [d EXCEPT !.done = TRUE]
    <2>1. IsDet(r) /\ r.done /\ \A f \in DetFields \ {"done"} : r[f] = d[f]
        BY <1>1, <1>3 DEF IsDet, DetFields
    <2>2. /\ r.charset = d.charset /\ r.confidence = d.confidence /\ r.bom = d.bom
          /\ r.start = d.start /\ r.mb = d.mb /\ r.sb = d.sb /\ r.esc = d.esc
        BY <2>1 DEF DetFields
    <2>3. Grounds(r, s)
        BY <2>2 DEF Told, Grounds, PlainAnswer
    <2>4. Told(r, s)
        BY <1>3, <2>1, <2>2, <2>3 DEF Told
    <2> QED BY <2>1, <2>2, <2>4
<1>4. CASE d.charset = None /\ d.input = "high" /\ r = BestGuess(d, MbGuess(d.mb), SbGuess(d.sb), Latin1Confidence(d.latin))
    <2> DEFINE mb == MbGuess(d.mb)
               sb == SbGuess(d.sb)
               latin == Latin1Confidence(d.latin)
               best == Bigger(Bigger(mb[2], sb[2]), latin)
               name == IF best > MinimumThreshold THEN BestName(d, mb, sb, best) ELSE None
    <2>1. r = [d EXCEPT !.confidence = best, !.charset = name]
        BY <1>4 DEF BestGuess
    <2> HIDE DEF name, best
    <2>2. /\ IsDet(r) /\ r.charset = name /\ r.confidence = best
          /\ \A f \in DetFields \ {"charset", "confidence"} : r[f] = d[f]
        BY <1>1, <2>1 DEF IsDet, DetFields
    <2>3. /\ r.done = d.done /\ r.bom = d.bom /\ r.start = d.start /\ r.input = d.input
          /\ r.mb = d.mb /\ r.sb = d.sb /\ r.esc = d.esc
        BY <2>2 DEF DetFields
    <2>4. ~r.done /\ ~r.bom /\ HighIn(s[1].bytes) /\ Highs(s)
        BY <1>4, <2>3 DEF Told, Highs
    <2>5. ASSUME name # None
          PROVE  /\ best > MinimumThreshold /\ name \notin {"ASCII"} \cup EscNames
                 /\ name = "ISO-8859-1" => best # 10000
                 /\ name = "UTF-8" => Follows(s)
        <3>1. best > MinimumThreshold /\ name = BestName(d, mb, sb, best)
            BY <2>5 DEF name
        <3> HIDE DEF mb, sb
        <3>2. CASE mb[2] = best
            <4>1. name = MbNames[mb[1]]
                BY <3>1, <3>2 DEF BestName
            <4>2. mb[1] \in 1 .. 7 /\ (mb[1] = 1 => Follows(s))
                <5>1. /\ GroupTold(d.mb, Leads(s), Follows(s)) /\ mb = MbGuess(d.mb)
                      /\ Leads(s) \in BOOLEAN /\ Follows(s) \in BOOLEAN
                    BY DEF Told, Leads, Follows, mb
                <5>2. mb[2] > MinimumThreshold
                    BY <3>1, <3>2
                <5> QED BY <5>1, <5>2, MbGuessIs
            <4> QED BY <3>1, <4>1, <4>2, MbNamed
        <3>3. CASE mb[2] # best /\ sb[2] = best
            <4>1. name = SbName(d.sb, sb[1])
                BY <3>1, <3>3 DEF BestName
            <4>2. sb[1] \in 1 .. Len(SbModels) /\ sb[2] # 10000
                <5>1. SbTold(d.sb) /\ sb = SbGuess(d.sb)
                    BY DEF Told, sb
                <5>2. sb[2] > MinimumThreshold
                    BY <3>1, <3>3
                <5> QED BY <5>1, <5>2, SbGuessIs
            <4> QED BY <3>1, <3>3, <4>1, <4>2, SbNamed
        <3>4. CASE mb[2] # best /\ sb[2] # best
            <4>1. name = "windows-1252"
                BY <3>1, <3>4 DEF BestName
            <4>2. "windows-1252" \notin EscNames
                BY DEF EscNames, Escapes, HZSMModel, ISO2022CNSMModel, ISO2022JPSMModel, ISO2022KRSMModel
            <4> QED BY <3>1, <4>1, <4>2
        <3> QED BY <3>2, <3>3, <3>4
    <2>6. Grounds(r, s)
        <3>1. CASE name = None
            BY <2>2, <2>4, <3>1, NamesApart DEF Grounds, PlainAnswer, None
        <3>2. CASE name # None
            BY <2>2, <2>4, <2>5, <3>2 DEF Grounds, PlainAnswer
        <3> QED BY <3>1, <3>2
    <2>7. Told(r, s)
        BY <1>4, <2>2, <2>3, <2>4, <2>6 DEF Told
    <2> QED BY <1>4, <2>7
<1>5. \/ r = d
      \/ d.charset # None /\ r = [d EXCEPT !.done = TRUE]
      \/ d.charset = None /\ d.input = "high" /\ r = BestGuess(d, MbGuess(d.mb), SbGuess(d.sb), Latin1Confidence(d.latin))
    BY DEF DataEndOf
<1> QED BY <1>2, <1>3, <1>4, <1>5

-----------------------------------------------------------------------------
(* The answers.  What is known is known of the detector that has seen      *)
(* nothing but the buffers since the reset; the other answers as it does.  *)

DetectIInv ==
    /\ Twins(det, ref) /\ seen \in Seq(Buf)
    /\ seen = <<>> => ref = Fresh
    /\ seen # <<>> => Told(ref, seen)

LEMMA DetectInductive ==
    /\ DetectInit => DetectIInv
    /\ DetectIInv /\ [DetectNext]_detectvars => DetectIInv'
<1>1. DetectInit => DetectIInv
    BY TwinsInductive DEF DetectInit, DetectIInv
<1>2. ASSUME DetectIInv, [DetectNext]_detectvars PROVE DetectIInv'
    <2>0. Twins(det, ref)'
        BY <1>2, TwinsInductive DEF DetectIInv
    <2>1. CASE detect_handledata
        <3>1. PICK buf \in Buffers : ref' = DataEndOf(HandleData(ref, buf.bytes, buf.behind)) /\ seen' = Append(seen, buf)
            BY <2>1 DEF detect_handledata
        <3>2. buf \in Buf
            BY BuffersAssumption DEF Buf, Byte
        <3>3. Told(HandleData(ref, buf.bytes, buf.behind), seen')
            BY <1>2, <3>1, <3>2, DataTold DEF DetectIInv
        <3>4. seen' \in Seq(Buf) /\ seen' # <<>> /\ 1 \in DOMAIN seen'
            BY <1>2, <3>1, <3>2, Longer DEF DetectIInv
        <3>5. Told(ref', seen')
            BY <3>1, <3>3, <3>4, EndTold
        <3> QED BY <2>0, <3>4, <3>5 DEF DetectIInv
    <2>2. CASE detect_dataend
        <3>1. ref' = DataEndOf(ref) /\ seen' = seen
            BY <2>2 DEF detect_dataend
        <3>2. CASE seen = <<>>
            BY <1>2, <2>0, <3>1, <3>2 DEF DetectIInv, DataEndOf, Fresh
        <3>3. CASE seen # <<>>
            <4>1. 1 \in DOMAIN seen /\ Told(ref, seen)
                BY <1>2, <3>3 DEF DetectIInv
            <4>2. Told(ref', seen)
                BY <3>1, <4>1, EndTold
            <4> QED BY <1>2, <2>0, <3>1, <3>3, <4>2 DEF DetectIInv
        <3> QED BY <3>2, <3>3
    <2>3. CASE detect_reset
        BY <2>0, <2>3 DEF DetectIInv, detect_reset
    <2>4. CASE UNCHANGED detectvars
        BY <1>2, <2>0, <2>4 DEF DetectIInv, detectvars
    <2> QED BY <1>2, <2>1, <2>2, <2>3, <2>4 DEF DetectNext
<1> QED BY <1>1, <1>2

(* Every answer of the detector rests on what it was given since the last  *)
(* reset, for any buffers and any models: plain text has no high byte in   *)
(* its first buffer, an escape sequence's set has an escape to announce    *)
(* it, a mark is the one at the start of the text, UTF-8 has the first     *)
(* byte of a character and one that goes on with it, which may lie behind  *)
(* the end of a buffer, whatever else has a high byte, and each is more    *)
(* certain than the threshold (nsUniversalDetector.cpp).                   *)
THEOREM AnswersGroundedAlways == DetectSpec => []AnswersGrounded
<1>1. ASSUME DetectIInv PROVE AnswersGrounded
    <2>1. det.charset = ref.charset /\ det.confidence = ref.confidence /\ det.bom = ref.bom
        BY <1>1 DEF DetectIInv, Twins, DetFields
    <2>2. Plainness <=> PlainAnswer(ref)
        BY <2>1 DEF Plainness, PlainAnswer, Settled
    <2>3. Escapable <=> Hints(seen)
        BY DEF Escapable, Hints, HintIn, Hint, BytesOf
    <2>4. AnyByte(HighByte) <=> Highs(seen)
        BY DEF AnyByte, Highs, HighIn, BytesOf
    <2>5. AnyRead(\hC2 .. \hFD) /\ AnyRead(128 .. 191) <=> Follows(seen)
        BY DEF AnyRead, ReadOf, Follows, Leads, HasLead, HasTail, WhatIsRead, IsLead, IsTail
    <2>6. CASE seen = <<>>
        <3>1. ref.charset = None /\ ~ref.bom
            BY <1>1, <2>6 DEF DetectIInv, Fresh
        <3> QED BY <2>1, <2>2, <3>1, NamesApart DEF AnswersGrounded, Settled, PlainAnswer, EscNames, None
    <2>7. CASE seen # <<>>
        <3>1. Grounds(ref, seen)
            BY <1>1, <2>7 DEF DetectIInv, Told
        <3>2. Settled({"ASCII"}) => Plainness
            BY <2>1, <2>2, <3>1 DEF Grounds, Settled
        <3>3. Plainness => /\ ~\E j \in DOMAIN BytesOf(1) : HighByte(BytesOf(1)[j])
                           /\ det.charset = "ISO-8859-1" <=> \E j \in DOMAIN BytesOf(1) : BytesOf(1)[j] = \hA0
            BY <2>1, <2>2, <3>1 DEF Grounds, HighIn, BlankIn, BytesOf
        <3>4. Settled({m.name : m \in Escapes}) => Escapable
            BY <2>1, <2>3, <3>1 DEF Grounds, Settled, EscNames
        <3>5. det.bom => MarkOf(BytesOf(1)) = det.charset
            BY <2>1, <3>1 DEF Grounds, BytesOf
        <3>6. det.charset # None /\ ~det.bom /\ ~Plainness /\ ~Escapable => AnyByte(HighByte)
            BY <2>1, <2>2, <2>3, <2>4, <3>1 DEF Grounds
        <3>7. Settled({"UTF-8"}) /\ ~det.bom => AnyRead(\hC2 .. \hFD) /\ AnyRead(128 .. 191)
            <4>1. Settled({"UTF-8"}) /\ ~det.bom => Follows(seen)
                BY <2>1, <3>1 DEF Grounds, Settled
            <4> QED BY <2>5, <4>1
        <3>8. det.charset # None => det.confidence > MinimumThreshold
            BY <2>1, <3>1 DEF Grounds
        <3> QED BY <3>2, <3>3, <3>4, <3>5, <3>6, <3>7, <3>8 DEF AnswersGrounded
    <2> QED BY <2>6, <2>7
<1> QED BY <1>1, DetectInductive, PTL DEF DetectSpec

(* An answer once given changes only when a prober is certain of another,  *)
(* and not again before a reset: a guess that was made at the end of a     *)
(* buffer is not replaced by another guess.                                *)
THEOREM AnswersSettleAlways == DetectSpec => AnswersSettle
<1>1. ASSUME DetectIInv, DetectIInv', [DetectNext]_detectvars
      PROVE  [det.charset # None /\ seen' # <<>> /\ det'.charset # det.charset
                 => ~det.done /\ det'.done /\ det'.confidence = Sure]_detectvars
    <2> SUFFICES ASSUME DetectNext, det.charset # None, seen' # <<>>, det'.charset # det.charset
                 PROVE  ~det.done /\ det'.done /\ det'.confidence = Sure
        BY <1>1
    <2>1. /\ det.charset = ref.charset /\ det.done = ref.done
          /\ det'.charset = ref'.charset /\ det'.done = ref'.done /\ det'.confidence = ref'.confidence
        BY <1>1 DEF DetectIInv, Twins, DetFields
    <2>2. seen # <<>> /\ Told(ref, seen)
        <3>1. Fresh.charset = None
            BY DEF Fresh
        <3> QED BY <1>1, <2>1, <3>1 DEF DetectIInv
    <2>3. CASE detect_handledata
        <3>1. PICK buf \in Buffers : ref' = DataEndOf(HandleData(ref, buf.bytes, buf.behind)) /\ seen' = Append(seen, buf)
            BY <2>3 DEF detect_handledata
        <3>2. buf \in Buf /\ seen \in Seq(Buf)
            BY <1>1, BuffersAssumption DEF Buf, Byte, DetectIInv
        <3> DEFINE r == HandleData(ref, buf.bytes, buf.behind)
        <3>3. Told(r, seen') /\ \/ r.charset = ref.charset /\ r.confidence = ref.confidence
                                \/ ~ref.done /\ r.done /\ r.confidence = Sure
            BY <2>1, <2>2, <3>1, <3>2, DataTold
        <3>4. 1 \in DOMAIN seen' /\ ref' = DataEndOf(r)
            BY <3>1, <3>2, Longer
        <3> HIDE DEF r
        <3>5. /\ r.charset # None => ref'.charset = r.charset /\ ref'.confidence = r.confidence
              /\ r.charset # None /\ r.done => ref'.done
            BY <3>3, <3>4, EndTold
        <3>6. r.charset # ref.charset /\ r.charset # None
            BY <2>1, <3>3, <3>5 DEF Told
        <3> QED BY <2>1, <3>3, <3>5, <3>6
    <2>4. CASE detect_dataend
        <3>1. ref' = DataEndOf(ref) /\ 1 \in DOMAIN seen
            BY <1>1, <2>2, <2>4 DEF detect_dataend, DetectIInv
        <3>2. ref'.charset = ref.charset
            BY <2>1, <2>2, <3>1, EndTold
        <3> QED BY <2>1, <3>2
    <2>5. CASE detect_reset
        BY <2>5 DEF detect_reset
    <2> QED BY <2>3, <2>4, <2>5 DEF DetectNext
<1> QED BY <1>1, DetectInductive, PTL DEF DetectSpec, AnswersSettle

-----------------------------------------------------------------------------
(* A detection is about its own text: what a detector says after a reset   *)
(* is what a new one would say, and each answer has its grounds in the     *)
(* bytes handed in since (Reset, HandleData and DataEnd of nsUniversal-    *)
(* Detector.cpp with its probers).                                         *)
THEOREM DetectionSoundAlways == DetectSpec => []DetectionSound
BY ResetForgetsAlways, AnswersGroundedAlways, PTL DEF DetectionSound
=============================================================================
