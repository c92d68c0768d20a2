------------------------------- MODULE Cache -------------------------------
(***************************************************************************)
(* The caches of aspell (common/cache.cpp, cache-t.hpp, cache.hpp): what   *)
(* is read from a file is shared by all who ask for the same key, counted  *)
(* by the pointers to it, and freed with the last of them.  A thread gets  *)
(* or copies a thing first (given) and then sets its CachePtr (ptr) to it; *)
(* each of these holds the lock of the cache by itself.  What the pointer  *)
(* that is copied points to is read before, without any lock (reading).    *)
(***************************************************************************)
EXTENDS Integers, Sequences, FiniteSets

CONSTANTS
    CacheKeys,      \* names of what is cached
    Holders,        \* the CachePtr's, each with the thread that sets it
    MaxVersion,     \* how often a file changes
    MaxLoads        \* how many things are read from files

ASSUME CacheAssumption == IsFiniteSet(Holders) /\ MaxVersion \in Nat /\ MaxLoads \in Nat

VARIABLES
    loads,      \* what was read: its key, the version of the file, refcount, not yet freed
    cached,     \* those in the list of the cache
    ptr,        \* what the CachePtr's point to, 0 for nothing
    given,      \* what they are about to be set to
    reading,    \* the pointer each is copying, and what was read from it: 0 for none
    raced,      \* a pointer was set while another thread copied it
    disk,       \* the version of each file, 0 if there is none
    resetAt     \* those versions when the cache was last reset

cachevars == <<loads, cached, ptr, given, reading, raced, disk, resetAt>>

CountChanged(id, by) == [loads EXCEPT ![id].refcount = @ + by]
CachedFor(k) == {id \in cached : loads[id].key = k}
Unread(h) == [of |-> h, id |-> 0]
Idle(h) == given[h] = 0 /\ reading[h].id = 0

\* The second thing get_cache_data does.  What the cache has is taken,
\* whatever the file is by now.
Share(h, k) ==
    /\ Idle(h)
    /\ \E id \in CachedFor(k) :
          /\ loads' = CountChanged(id, 1)
          /\ given' = [given EXCEPT ![h] = id]
    /\ UNCHANGED <<cached, ptr, reading, raced, disk, resetAt>>

\* Otherwise it is read, by get_new, if it is there.
ReadNew(h, k) ==
    /\ Idle(h) /\ CachedFor(k) = {} /\ disk[k] > 0 /\ Len(loads) < MaxLoads
    /\ loads' = Append(loads, [key |-> k, version |-> disk[k], refcount |-> 1, live |-> TRUE])
    /\ cached' = cached \cup {Len(loads) + 1}
    /\ given' = [given EXCEPT ![h] = Len(loads) + 1]
    /\ UNCHANGED <<ptr, reading, raced, disk, resetAt>>

\* The argument of copy in CachePtr's operator= and copy constructor.
ReadOther(h, g) ==
    /\ Idle(h) /\ ptr[g] # 0
    /\ reading' = [reading EXCEPT ![h] = [of |-> g, id |-> ptr[g]]]
    /\ UNCHANGED <<loads, cached, ptr, given, raced, disk, resetAt>>

\* CachePtr::copy, its first half: Cacheable::copy, of a thing that may be
\* freed by now.
Copy(h) ==
    /\ reading[h].id # 0
    /\ loads' = CountChanged(reading[h].id, 1)
    /\ given' = [given EXCEPT ![h] = reading[h].id]
    /\ reading' = [reading EXCEPT ![h] = Unread(h)]
    /\ UNCHANGED <<cached, ptr, raced, disk, resetAt>>

(* Mutant: what nobody holds is freed where it is, in the cache's list.    *)
LeftKept(id) == cached
\* del, for what is no longer counted.
Left(id) == IF loads[id].refcount = 1 THEN cached \ {id} ELSE cached

\* GlobalCacheBase::release
Release(id) ==
    IF id = 0 THEN UNCHANGED <<loads, cached>>
    ELSE /\ loads' = [loads EXCEPT ![id].refcount = @ - 1, ![id].live = @ /\ loads[id].refcount > 1]
         /\ cached' = Left(id)

\* CachePtr::reset, to what was given or, at the end of its life, to nothing.
\* Another thread that reads the pointer between the two reads what it would
\* have read just before.
SetPtr(h) ==
    /\ ptr[h] # 0 \/ given[h] # 0
    /\ reading[h].id = 0
    /\ Release(ptr[h])
    /\ ptr' = [ptr EXCEPT ![h] = given[h]]
    /\ given' = [given EXCEPT ![h] = 0]
    /\ raced' = (raced \/ \E other \in Holders : reading[other].id # 0 /\ reading[other].of = h)
    /\ UNCHANGED <<reading, disk, resetAt>>

\* detach_all: what is held stays with its holders.
reset_cache ==
    /\ cached # {}
    /\ cached' = {} /\ resetAt' = disk
    /\ UNCHANGED <<loads, ptr, given, reading, raced, disk>>

FileChanges(k) ==
    /\ disk[k] < MaxVersion
    /\ disk' = [disk EXCEPT ![k] = @ + 1]
    /\ UNCHANGED <<loads, cached, ptr, given, reading, raced, resetAt>>

NoCache == /\ loads = <<>> /\ cached = {}
           /\ ptr = [h \in Holders |-> 0] /\ given = [h \in Holders |-> 0]
           /\ reading = [h \in Holders |-> Unread(h)] /\ raced = FALSE
           /\ resetAt = [k \in CacheKeys |-> 0]
CacheOff == NoCache /\ disk = [k \in CacheKeys |-> -1]
CacheInit == NoCache /\ disk = [k \in CacheKeys |-> 0]
CacheNext ==
    \/ \E h \in Holders, k \in CacheKeys : Share(h, k) \/ ReadNew(h, k)
    \/ \E h, g \in Holders : ReadOther(h, g)
    \/ \E h \in Holders : Copy(h) \/ SetPtr(h)
    \/ reset_cache
    \/ \E k \in CacheKeys : FileChanges(k)
CacheSpec == CacheInit /\ [][CacheNext]_cachevars

PointersTo(id) == {h \in Holders : ptr[h] = id}
AboutToPointTo(id) == {h \in Holders : given[h] = id}

(* As long as no CachePtr is set by one thread while another copies it,    *)
(* which nothing in CachePtr prevents: a cached thing is counted once for  *)
(* each pointer to it and lives exactly as long as it is counted, so that  *)
(* no pointer leads to a freed one, nor does what was read from a pointer  *)
(* without the lock; what the cache lists is alive, listed for one key     *)
(* once, and was not read before the cache was last reset (cache.cpp       *)
(* 11-63, cache.hpp 53-68).                                                *)
CountsHold ==
    /\ \A id \in DOMAIN loads :
          /\ loads[id].refcount = Cardinality(PointersTo(id)) + Cardinality(AboutToPointTo(id))
          /\ loads[id].live <=> loads[id].refcount > 0
    /\ \A h \in Holders : \A id \in {ptr[h], given[h], reading[h].id} : id # 0 => loads[id].live
    /\ \A id \in cached :
          /\ loads[id].live
          /\ loads[id].version >= resetAt[loads[id].key]
          /\ \A other \in cached : loads[other].key = loads[id].key => other = id
CacheCounts == raced \/ CountsHold
=============================================================================
