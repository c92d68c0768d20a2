# A verification of the Scribe libraries

The repository bundles the libraries of the Scribe mail client: its own
single-file database of B+trees (`src/Btree`), and what it takes along of
bzip2, libchardet and aspell, each with changes of its own. This directory
holds TLA+ models of them, checked with TLC, and theorems about them, checked
with TLAPS. `PROJECT.json` lists components, runs, mutants, hazards, findings
and theorems, and maps the definitions that model code to their lines; a helper
whose lines another definition of its module names as a whole is not repeated
there.

1. Inventory
2. Modules
3. Runs and bounds
4. Fairness and refinements
5. What the code does otherwise than it says; refuted statements
6. Proofs
7. Not modelled
8. Plan

## 1. Inventory

| Component | Source | State | Operations | What makes it correct |
|---|---|---|---|---|
| Block store | `Btree/db_blocks.c`, `db_blocklist.c` | the file, its free list, each block's chain of units | new, write, reserve, free | no byte with two owners; the file alone is enough to find a block again; room is used again |
| Block cache | `Btree/db_cache.c` | hash table by offset, queue, reference counts, `openBlockCount` | add, get, remove, drop | one object per block; a cached block is found; counts are holders |
| B+tree | `Btree/btree_insert.c`, `btree_delete.c`, `btree_search.c`, `btree_node.c`, `btree_header.c` | header words, nodes in memory and on disk | insert, delete, search, reopen | a map; balanced, ordered, chained; every change written |
| Traversal | `Btree/btree_traverse.c` | a node and a position | first, next | each key once, in order; it ends |
| Node codec | `Btree/btree_node.c`, `db_utils.c` | none | key compression, node layout | what is read is what was written |
| Hash table, offset list | `Btree/hashtable.c`, `offsetlist.c` | buckets with 8-bit counts; an array with 16-bit counts | add, remove, get, write, read | a map, a sequence, that survive being written |
| Database, wrapper | `Btree/db.c`, `db_header.c`, `gbtree.cpp` | the open file, its mode, the main tree | open, create, close, add tree | what a client takes for its tree is that of a whole file |
| bzip2 streams | `bzip2-1.0.6/bzlib.c`, `compress.c`, `decompress.c` | two resumable machines | `BZ2_bzCompress`, `BZ2_bzDecompress` | a pipe, however it is called |
| bzip2 block coding | `blocksort.c`, `huffman.c` | none | sort, move to front, code, and back | what comes back is the block |
| bzip2 program, bzip2recover | `bzip2.c`, `bzip2recover.c` | files, exit value, the output at hand | compress, decompress, test; salvage | touches only its operands; loses no text; exit value tells |
| Character set detection | `local_libchardet/src` | probers, machines, the detector | handle data, data end, reset | an answer rests on the text since the last reset |
| Configuration | `aspell/common/config.cpp` | a list of entries, an insertion point, notifiers | replace, remove, read, commit, merge | the last entry that counts decides |
| Dictionaries | `readonly_ws.cpp`, `writable.cpp`, `data.cpp` | a compiled block of bytes; a shared personal file | compile, look up, scan; add, merge, save | all words are found; no save loses another's word |
| Affixes, munch | `affix.cpp`, `prog/aspell.cpp` | entries of an affix file | check, expand, munch | checking, expanding and munching agree |
| Spell check, suggestions | `speller_impl.cpp`, `suggest.cpp`, `editdist.cpp`, `leditdist.cpp` | word lists, last replacements | check, store replacement, suggest | answers in place; near misses in order |
| Filters, checker, pipe | `modules/filter`, `checker_string.cpp`, `prog/aspell.cpp` | state per filter, a ring of lines | process, next misspelling, replace | shown words are checked, nothing else changes |
| Conversion, caches, prezip | `convert.cpp`, `cache.cpp`, `prezip.c`, `compress.c` | tables, reference counts | convert, get, release, reset | nothing lost on the way there and back; counts are holders |

**How they interact.** Within Btree everything is a synchronous call in one
thread. A tree reaches its nodes by offset through `gdbReadBlock`, which asks
the cache first and the file second, so two callers that read one offset share
one object. A changed object is marked dirty and written by `gdbWriteBlock`,
which reserves or frees units as its size changes and rewrites the free list;
the header's fields go to the file directly; `btreeEraseNode` frees a node's
room and does not tell the cache. In bzip2, the program calls the library's
file layer, which drives the two machines with buffers of its own. In aspell a
configuration decides which dictionaries, filters and tables are read, these
are shared through the caches, a speller asks its dictionaries, and the pipe
and the interactive check are clients of the speller. Between processes there
is one shared thing, the personal dictionary file.

**What is hard.** In Btree, state that outlives a call and is shared by layers
that do not tell each other, and writes that a crash can separate. In bzip2,
stopping in the middle of anything, and files that disappear or remain when a
disk fills or a signal comes. In chardet, some thirty objects that must all be
reset. In aspell, offsets of one byte, tables with limits, order of settings,
and several processes on one file. `PROJECT.json` has each hazard at its line.

**Builds.** `CMakeLists.txt` builds on Windows, where `sizeof(long)` is 4, and
on Linux and macOS, where it is 8; `offset_t` is a `long`, so this changes a
database's layout (`LongWords`). Assertions are on unless the build type
removes them.

## 2. Modules

| Module | Models | State and actions |
|---|---|---|
| `BlockStore` | block store | the list on disk, each object's chain, what the units hold; `NewBlock`, `WriteBlock` (`Extend`, `Rewrite`, `Shrink`), `EraseBlock` |
| `BTreeNode`, `BTree` | B+tree on cache and file | array work on a node as operators; `file` as one record threaded through a call; `Insert`, `Delete`, `Attempt`, `Reopen` |
| `OrderedMap` | abstract | a map, the mode, the last call and its answer |
| `BTreeCursor` | traversal | a walk beside the tree's calls, and crashes between the writes of an insert and in the write of a leaf (`Torn`) |
| `BlockCache`, `HashTable`, `OffsetList`, `Database` | the other parts of a database file | one action per call; what a client was told is kept beside it (`held`, `meant`, the added offsets, `named`) |
| `NodeCodec` | key compression, node layout | a node is written and read |
| `BzCompress`, `BzDecompress`, `BzStream` | the machines and their two clients | a call is an action; `Run`, `Flush`, `Finish`, `DecompressCall` |
| `Pipe` | abstract | what comes out is what went in |
| `BzBlock` | block coding | one block is coded and decoded |
| `BzFile`, `BzProgram` | file layer and program | the library's calls are parameters of the program; its actions are the steps between which a signal can come |
| `BzRecover` | bzip2recover | a file is searched bit by bit, its blocks written |
| `Detector` | libchardet | machines, probers, the detector beside a fresh one |
| `Config` | configuration | entries, arguments, files, commit, later changes |
| `Writable` | personal dictionaries | several processes, with file locks and without; each step between two system calls |
| `WordCheck`, `Speller`, `Checker` | check, pipe, interactive check | a command, a key of the user, the removal of a file and a rename are actions |
| `Suggest` | suggestions, edit distances | each step of `get_suggestions` |
| `Filters` | filters and tokenizer | a document is fed in pieces |
| `Affix`, `ReadOnlyWs`, `Convert`, `Prezip` | algorithms | one input is worked on |
| `Cache` | caches | get, read the other pointer, copy, release, reset, set pointer as the lock separates them |
| `Recursion` | | facts about folds and least elements, for the proofs |
| `*Proofs` | | theorems, section 6 |
| `MC*` | | constants for TLC, and compositions: one component starts, the others are off |

### Decisions worth knowing

* **One action per call** where no call yields to another. In `BTree` the
  `file` record goes through a call's steps in the order of the code, so that
  what a later step reads is what an earlier one left; its `log` has what was
  on disk after each write. There `BTreeCursor` crashes, and within the write
  of a leaf: `gdbWriteBlock` has flushed the header of the block and not its
  data, or its first unit and not the rest (`CutShort`, `Broken`). `Writable`,
  `BzProgram`, `Cache` and `Checker` have an action per step others can see.
* **Node objects are shared.** `btreeReadNode` returns the cached object, so
  `btreeDelete` sees its root change under `__delete`. Once an offset is erased
  its object stays (`retired`), and a new node there enters the table behind
  it: reads keep finding the old one.
* **Keys, words, names** are small integers or sequences of them: what a
  property does not tell apart is one value. In `Writable` a token is a word,
  in `BzCompress` a token is a field of the stream.
* **Header fields** of a tree are 32-bit words; with `LongWords = 2` a field is
  its own word and the next one, with 2^32 scaled to `WordBase`.
* **Widths** are constants: `CountMod` (8-bit counts), `ShortMod` (16-bit),
  `SizeMod`, `ByteMod` (one-byte offsets), `PrefixCap` (255), so that small
  inputs reach them.
* **Freed memory.** `FreedText` is what a freed key may spell. Empty, it still
  spells the key, as most allocators leave it for a short time.
* **Free list order.** The code takes units in list order, `BlockStore` any.
* **Cache.** The variant that is built is modelled (`CACHE_SORTED`, `HASH`). A
  dropped object is never freed by the code; its name is used again when
  neither a caller nor the cache can reach it (`Unreachable`).
* **Locks.** `fcntl` is compiled only with USE_FILE_LOCKS, which configure
  defines and none of the `settings.h` in the repository does. `locks` is chosen
  in the initial state, so `Writable` has both builds; what is proved is about
  the one with locks (`LockedSpec`).
* **stdio.** `BzFile.fwrite` keeps back what does not fill the buffer
  (`StdioBuffer`), so that a full disk may show only when a file is flushed or
  closed. A copy on disk has what was written out.
* **The byte behind a buffer.** libchardet's multi-byte group reads one byte
  more than it is given (nsMBCSGroupProber.cpp:160). A buffer of `Detector` is
  its bytes and the one behind, which is any.
* **The library under bzip2.** `BzProgram` has the file layer's calls as
  constants; `MCBzProgram` gives them `BzFile`'s. What is proved of the program
  therefore holds over any library.

## 3. Runs and bounds

| Run | Bounds | Question |
|---|---|---|
| `BlockStore` | two interchangeable blocks; 256-byte units with data of a unit to the byte, a byte more, three units; 32-byte units; `MaxUnits` 3, a file of four large units and one small | Are units ever shared, lost without a block to blame (`RoomAccounted`), or not found again from disk? |
| `BTreeShape` | order 3, 6 keys, a client that reopens before it inserts after a merge | Is every reachable tree balanced, searchable, chained, accounted for, on disk? |
| `BTreeMap` | order 3, 3 keys, 2 values, three modes, present keys inserted again, 64-bit longs, `MaxSize` 6 | Is the tree a map? |
| `BTreeCursor` | order 4, 6 keys | Does a walk see every key and end; what does a crash leave between two writes of an insert, and in one? |
| `Gdb` | cache: 3 objects, 4 offsets of which two clusters run past the end, 4 slots, full at 2, `MaxHold` 2; hash table: keys 1, 4, 7 in 3 buckets, counts modulo 3, sizes modulo 18, which three longs fill to the byte; list: first size 2, counts modulo 8, `MaxAdds` 9; database: 2 names, two types, `MaxTree` 4 | Do the parts keep what they were given? |
| `BzStream` | blocks of 23, runs of 6, checksums modulo 11; 7 sources; calls with at most `MaxGiven` 2 in and `MaxRoom` 2 out, `MaxFlush` 1 | Are the machines a pipe, however they are called, and does it end? |
| `BzProgram` | 14 disks, 26 command lines, 8 names, space for 3, 6 or 100, `StdioBuffer` 6, pieces of 4, `MaxCommands` 3, `MaxAccidents` 1 | Which files change, is text lost, is the exit value true? |
| `Algorithms` | bzip2: every block of up to 5 of 3 bytes and 6 longer; recover: every file of 13 bits; nodes: order 4, keys up to 4, prefix cap 2; chardet: 20 buffers, two of them with a byte behind that completes or begins a character, at most `MaxBuffers` 3 between resets, machines on texts up to `MaxText` 3; texts up to 5 and longer lines for prezip, bytes modulo 13 (`LastByte` 12); affix files good and bad, word lists, conversions; cache: 2 holders, 2 keys, `MaxVersion` 2, `MaxLoads` 2 | Does each algorithm agree with its reference definition? |
| `Aspell` | dictionary: 2 processes, with and without locks, 4 entries, `MaxTime` 1, `MaxAdds` 2, `MaxFaults` 1; configuration: 14 operations, one of which a notifier refuses, `MaxArgs` 1, `MaxLater` 2; words of up to 6 of 3 letters; distances: all words up to 4 of 2 letters, 3 of 3; filters: 7 modes, `MaxConstructs` 2 in at most `MaxPieces` 3 pieces that end between or within them; pipe: `MaxCommands` 4; check: files up to 4 lines, ring 2, `MaxReplaced` 3 | Does aspell do what its user relies on? |
| `BTreeStale` | no reopening | violation: `InsertedIsFound` |
| `AffixPartial`, `DictionaryScan` | as `Algorithms` | violations: `PartlyExpandedIsSame`, `ScanReturnsAll` |

`Gdb`, `Algorithms` and `Aspell` run one part at a time: the initial state
chooses which, so the state spaces add up and do not multiply. The parts share
no state in the code either.

**Why the bounds are enough.** *Trees:* order 3 is the smallest at which every
case of insert and delete exists; six keys give three levels with room for
loans, so internal splits, loans and merges on both sides and a lowered root all
happen (each mutant of `BTreeShape` needs one). The code's order is 19; an odd
order makes the minimum of leaves and of internal nodes equal, as 3 and 19 do.
*Blocks:* three units and two unit sizes let a unit come back to another block,
to the same one, half from the list and half from the end. *Cache:* collisions,
a cluster past the end, a drop with and without a held block in the queue.
Three objects and four slots, so `hashInsert` never fails in the run (what that
excludes is in section 6). *Streams:* two bytes
of room stop each machine inside every field it has; 23 bytes fill a block. *Processes:*
two are enough for each pair of steps of a save to interleave; with locks a
third adds only savers that wait, and the theorem is for any number.
*Algorithms:* every input up to the bound, so that each boundary (empty, one,
full, cap, cap and one more) is met.

**Deadlock** is off where a system stops: an algorithm or search ends, a
session ends, the names, additions or commands run out. `BlockStore`,
`BTreeShape` and `BTreeMap` check it.

## 4. Fairness and refinements

* `BzStream`: each client's loop is fair. `Drive` goes on with what it is in and
  finishes, `Draw` takes what there is; the loops in `bzlib.c` and `bzip2.c`
  call without pause until the end is reported. Then `EndReached`: both ends
  get there with one byte of room a call.
* `BTreeCursor`: `WF_cvars(GetNext)`; `btreeTraverse` calls on until it has -1.
  Nothing is assumed of the others. Then `WalkEnds`.
* No other liveness is claimed. Btree's calls, the filters and the algorithms
  return before anything else happens; a process that waits for a lock in
  `Writable` may be killed at any time, and nothing makes it go on.
* `IsOrderedMap`: `BTree` implements `OrderedMap` with `map <- Contents`, what
  `btreeSearch` finds for each key.
* `IsPipe`: `BzStream` implements `Pipe` with `ended <- dret = "STREAM_END"`.

Properties that hold under conditions say them: `BTreeShape` and `BTreeMap`
reopen the file before an insert that follows a merge (`ReopenFirst`), have an
allocator that leaves freed text alone, and no assertions. `BTreeStale` lifts
the first.

## 5. What the code does otherwise than it says

Three runs end in a violation, each a finding in `PROJECT.json`: an erased node
shadows the one that reuses its room (`BTreeStale`); partly expanded
dictionaries differ from compressed ones (`AffixPartial`); a scan misses a
one-letter word at the end of its group (`DictionaryScan`).

### Refuted statements

These definitions are kept in the modules. TLC found each violated with the
constants named; no run is spent on them now.

| Statement | Module, constants | What happens |
|---|---|---|
| `ListFits` | `BlockStore`, `ListArea` 2 entries | the free list is written without a look at its 2048 bytes; behind them is the main tree's header (db_blocklist.c:107) |
| `DeleteSparesOthers` | `BTree`, `FreedText = Key` | a loan and a merge with the right sibling read keys they have freed (btree_delete.c:298) |
| `FirstOffsetIsFirst` | `BTree`, `LongWords = 2` | writing the root overwrites leftLeaf (btree_header.c:112) |
| `NoAssertFails` | `BTree`, `Asserts` | the first merge fails `assert(!"Param error")` (db_blocks.c:420) |
| `CachedIsFound` | `BlockCache` | a deletion around the end of the table moves up blocks it should leave; a lookup from their new home misses (db_cache.c:120) |
| `HeldStays` | `BlockCache` | a second reader is not counted, and a held block is dropped |
| `ResetGivesDefault` | `Config` | behind the reset of a list the next entry is taken for one of it without a look at its key (config.cpp:419): reset on the command line, a list has its default and the speller's language, which is set next (manual/aspell.texi:686 promises the default) |
| `DumpIsCurrent` | `Config` | also an entry that clears, when it comes next after a list was set or reset, is taken for one of that list (config.cpp:425): `--extra-dicts=a --clear-filter` is dumped as extra-dicts cleared (manual/aspell.texi:1237 promises the current value) |
| `HandlersEnd` | `BzProgram` | the exit in `cleanUpAndFail` is commented out (bzip2.c:706): after an error the program goes on and removes its input |

Some properties hold but for a case that the code brings about and that they
name in a disjunct, so that a run would fail if the case were left out or a second
one came about:

| Property | The named case | Where |
|---|---|---|
| `NothingLost`, `SuccessIsTrue` | the garbage behind a stream ends decompression with a close nobody looks at: on a full disk the output is cut, the input removed, the exit value 0 (`cut`) | bzip2.c:534 |
| `EditKept` | without a backup, between the removal of the file and the renaming of the new one, and for good if that fails, only the new file has the text (`StillNew`) | file_util.cpp:193 |
| `NoSaveLosesAnother` | saves that overlap in a build without USE_FILE_LOCKS (`Collided`), beside `Trampled`, `Died` and `Blind` | file_util.cpp:132-180 |
| `CacheCounts` | a thread reads a pointer to copy it and another sets that pointer before the first has the lock: a thing that is gone is counted up (`raced`) | cache.hpp:57, 67 |
| `SuggestionsSound` | `stopped_at` is left over from the last word of a dictionary when the scan of the next begins: its first group may be passed over (`Beginning`) | suggest.cpp:695, readonly_ws.cpp:511 |
| `ReadsTheWords` | the context filter forgets its delimiters when it is reset and ends a `//` comment only with its piece; texinfo's `\input`, when it comes again or ends its own line | context.cpp:229, texinfo.cpp:78, 166 |
| `RoundTrips` (prezip) | the number of shared letters of word-list-compress is one byte; 255 of them are written as 0 | compress.c:91 |
| `AffixesSound` | munch-list asks the head entry of a flag whether it crosses; tables whose entries of one flag differ lose words (`CrossAgrees`) | affix.cpp:889 |
| `MachinesRight` | Big5, Shift_JIS, EUC-TW and GB18030 take byte pairs that are no characters (`TakenToo`; CharDistribution.h:187 and 206 say that the machines ruled them out), and machines refuse legal ones, as UTF-8 F0 90..9F (`Refused`) | nsMBCSSM.cpp |
| `DetectionSound` | the byte behind a buffer may be what makes it UTF-8 (`ReadOf`) | nsMBCSGroupProber.cpp:160 |
| `WalkComplete`, `WalkEnds` | a walk whose leaf has lost keys strays behind them (`Strays`) and never has the -1 that btree.h:207 promises | btree_traverse.c:108 |
| `CrashKeepsChain` | a crash in the write of a leaf costs keys of this leaf, and those behind it if it cannot be read | db_blocks.c:234, 498 |
| `TableKeepsAll` | a count or the 16-bit size that wraps (the size of the data and that of the table are cut to 16 bits each) | hashtable.c:57, 323 |
| `SettingsHold` | a value that a notifier refuses stays and is dumped, and the notifier goes on with the old one | config.cpp:939 |

More that the models contain: an insert of a present key counts as a new one,
and is refused or stored depending on whether the leaf is full; deleting the
last key leaves leftLeaf at the erased leaf; erasing a block of several units
gives back only the first; a hash table removes the first entry of a bucket
through a null pointer; a cursor that has ended calls itself for ever if it is called again (`CallAgain`);
bzip2 with `-f` appends what follows a stream as it is; chardet splits a
character between buffers and calls a text whose first buffer is empty or
ASCII plain ASCII; a personal file opened with `w+` is cut before it is locked;
the texinfo filter steps over the end of a piece that ends behind `\input`; the ring's check loops when
two words replace each other; a filter's state outlives its line.

## 6. Proofs

What is proved holds for every value of the constants, under the named
assumptions of the modules (TLC evaluates them in every run) and no other
unless it is written in the theorem.

| Module | Theorems | Inductive invariant |
|---|---|---|
| `FileProofs`: `BlockStore` and `BzProgram` | `TypeCorrect`, `InFileAlways`, `DisjointAlways`, `HeadStays`, `ReadBackAlways`; `UntouchedAlways`, `ExitIsTrueAlways`, `NothingLostIfDone` | `IInv == TypeOK /\ UnitsInFile /\ UnitsDisjoint`, and `ReadBack` on top of it; `FilesInv`, `ExitInv`, `LossInv` |
| `GdbProofs` | `UsedFileIsWholeAlways`, `ListKeepsAllAlways`, `CacheAgreesAlways`, `ClustersUnbrokenAlways`, `GrowsOverPinnedAlways`, `TableKeepsAllAlways` | `DatabaseIInv`, `ListIInv`, `BlocksIInv`, `TableIInv` |
| `StandaloneProofs`: `Cache` and `Detector` | `CacheCountsAlways`; `ResetForgetsAlways`, `AnswersGroundedAlways`, `DetectionSoundAlways`, `AnswersSettleAlways` | `CacheIInv == CacheTypeOK /\ CountsHold /\ ReadStands`, until the race; `Twins`, `DetectIInv` |
| `AspellProofs` | `OneSaverAlways`, `NoSaveLosesAnotherAlways`; `PipeKeepsFaithAlways` | `DictIInv`; `MemoryInv`, `AnswersInv` |
| `ConfigProofs` | `SettingsHoldAlways` | `ConfigIInv` |
| `BTreeProofs`, over the lemmas of `BTreeShapeProofs` | `SearchableAlways`, `SpaceAccountedAlways`, `DurableAlways`, `LeafChainAlways`, `TreeIsMap`, `InsertedIsFoundThere`, `DeleteSparesTheOthers`, `SizeCoversKeysAlways`; `WalkCompleteAlways`, `CrashKeepsChainAlways` | `TreeInv`; `WalkInv`, `CrashInv` |

All properties of the runs `BTreeShape`, `BTreeMap` and `Gdb` are theorems, those of
`BlockStore` but for `RoomAccounted`, and of the others `WalkComplete`,
`CrashKeepsChain`, `CacheCounts`, `DetectionSound`, `SettingsHold`, `NoSaveLosesAnother`
(with locks), `Untouched`, `PipeKeepsFaith`, half of `SuccessIsTrue`, and
`NothingLost` from the other half.

**Block store.** None of the parts of `IInv` is inductive without the others:
new units are apart from old ones because these end before `end`, listed units
because they are apart from all blocks and each other, and a chain has no
repetition only with both. A reservation gives units that are listed or new
(`Reserved`, `FreshApart`); `Redistribute` is the one fact about ownership: if a
block's units and the list afterwards come from its units, the list and new
room, and are apart, all others are as they were. `ReadBack` is inductive over
`IInv`: `ChainOnDisk` says that a walk over units that carry the right links
gives the chain, and that writing one block leaves the units of the others
alone is `UnitsDisjoint`. `HeadStays` reads the result off the
steps. The bounds `MaxEnd` and `MaxUnits` only restrict steps, so files may be
of any size.

**B+tree.** None of the four properties of `BTreeShape` is inductive: that a
search comes to a key's leaf depends on separators which are no keys any more,
and how far a leaf's keys reach is written nowhere in the file. The proof gives a
tree a ghost: its nodes, their root, each node's level (`lev`, leaves at 0) and
the set of keys a search for which passes through it (`rng`). `IsTree` relates
the two node by node: a root reaches all keys and the ranges of one level are
apart (`Placed`, `Apart`); a node's keys are sorted and its children are one
level down, each with the part of the range between two separators (`Local`);
nodes have their sizes, with a set of nodes that may have a key too many (`big`)
or too few (`small`) for the time being (`Sized`); the last kid of a leaf is the
leaf whose range is next (`Linked`). `Living` adds that the units are the nodes
and the free list, that disk and cache agree (`Kept`), that the leaves hold the
entries of a map `m` (`Says`), and `TreeInv` says that there is such a map, with
no more keys than the header's size.

Then every operation of `BTreeNode` and every step of the cascades is one
lemma of `BTreeShapeProofs`, for any order from 3: `SplitOff` (a node cut in two, its parent one
larger), `LentPair` (a key lent by a sibling, from `LoanRightLeaf` to
`LoanLeftInt`), `MergedPair`, `LeafTurned` (one leaf gains or loses a key),
`Raised` and `Lowered` (a new root and one that goes). They give the ghost
after the step and what became of the entries. `CarryStep` and `FallStep` lift
them to one level of `__insertKey` and `__delete`, `CarriedIs` and `RebalancedIs`
to the whole way up by induction over its length, `InsertShows`, `DeleteShows` and
`ReopenShows` to the calls. In the other direction, `DescendIs` shows that the way
down follows the ghost's levels, `LevelsAre` that the levels a reader finds are
the ghost's, and from these the properties follow (`BalancedFact`,
`FindableFact`, `SpaceFact`, `DurableFact`, `LeafChainFact`, `SearchShows`).
`TreeIsMap` is the refinement, step by step: `Contents` is `m` before and after.

The hypothesis `Careful` has the two conditions of `BTreeShape` and `BTreeMap`,
reopening before an insertion that follows an erased node and freed text that
still reads as it was, which section 5 shows to be needed, and that the size fits
its word of the header. Mode, assertions (a failed one ends the program, and the
tree it leaves is a tree) and inserting present keys are free.
`LeafChainAlways` is about a long of one word: with two, writing the root
overwrites leftLeaf (section 5).

**Traversal.** `WalkInv` says of a traversal under way that either a deletion has
ended its promise, or it is on a leaf and each key it still owes is on a leaf
ahead, in key order, or in its own leaf behind its place (`OnTrack`). From leaf
to leaf it follows the chain (`StepOnTrack`). Beside an insertion the fact is one
about the ranges before and after (`Heirs`): every leaf keeps an initial part of
its range and gives the rest to new leaves behind it, so that no key moves to
where the traversal has been, if it may come back in front of it and be returned
twice (`InsertOnTrack`, `WalkInsert`). As `LeafChainAlways`, the theorem is about
a long of one word.

**Crash.** `CrashInv` says that between calls nothing is half written (the log of
writes is empty) and that after a crash the disk is `Whole`: its leaves follow each
other from leftLeaf in key order (`Strung`) and hold every key that was stored
when the call began (`StoredIn`), or nothing was stored. `Logs` says this of the
disk after every write of a call, not only after the last. After each level on
the way up the path the leaves are those of a ghost tree with one node too large
(`Pend`, `RootPend`), so that they still hold the keys (`Stays`, `CarryHeld`,
`CarryKeeps`). The one moment between two such trees is in a split: the right half
is written and the left one does not link to it yet, so that it is one more node
on disk that no leaf leads to (`HeldMore`). `AddAtLogs`, `CarryLogs` and
`InsertLogs` collect the writes of a call. The chain as a reader follows it ends
after as many steps as there are nodes on disk; that it then covers the leaves is
counted in `StrungInOrder`. A leaf whose write was cut short shows an initial part of
its keys with the link it had or gets, or ends the chain (`Shown`); what that costs
is counted from the chain before the write or behind it, as the sizes in the header
say (`TornInOrder`). The tree's own header is not part of it: size and root may be
behind after a crash.

**Block cache.** `BlocksIInv` joins types, `TableOK` (table and queue have the
same blocks, each once; no empty slot between a block and its home), `AddedOnce`
(a block enters the cache once and has one holder before) and `PinsAreHeld`.
Deletion from the table is a loop over a cluster; `TurnKeeps` is its invariant
with a hole that moves, `MoveKeeps` and `StopKeeps` its two ends. The hypothesis
`SpareSlot`, at every moment, is that one slot is empty: with a full table
`hashInsert` fails and its caller does not look, so without it the statement is
false. The code does not guarantee it, since a cache of referenced blocks grows
without bound; it has eight times the slots the cache has room for. The two
theorems therefore are about runs that do not fill the table, and
`ClustersUnbrokenAlways` says nothing of entries that wrap round its end, where
the code is wrong (`CachedIsFound`). `GrowsOverPinnedAlways` needs no hypothesis: it
follows the search for a victim from the queue's end, whatever the table holds.

**Hash table, offset list, database.** `TableIInv` relates the buckets, the
counts modulo `CountMod` and the written block to what was put (`meant`);
reading back is right unless a bucket outgrew its count or the table its
size, which the property names. `ListIInv` adds to the property that the array has room (`RoomInArray`),
which doubling needs. `DatabaseIInv` adds to `UsedFileIsWhole` that an open
database has the type and the main tree of the file it was opened from
(`OpenAsItIs`); no step of another creation comes between.

**Shared caches.** `CacheCounts` counts pointers with a cardinality.
`CountsSuffice` replaces it by counts per thing, `HandedStep`, `SetPtrStep` and
`ReadNewStep` move one pointer each. What a holder has read of another's pointer is
what that still points to (`ReadStands`), until the other sets it: from then on
`raced` is true and nothing is claimed. Any number of holders and keys.

**Character sets.** The specification runs a fresh detector `ref` beside the one
that is reset, on the same buffers. `Twins` says in what the two may differ: in
the last character of a multi-byte prober whose machine is in its start state,
which Reset leaves behind. It is read only when a two-byte character ends in the
first byte of a buffer, and no byte that leaves a start state alone begins one
(`Alone`, from the tables of each machine), so that answers agree
(`TwinsInductive`, and a lemma for each prober and group). `AnswersGrounded` is
then proved of `ref` alone, of which `DetectIInv` knows what it was told
(`Told`): the bytes since the reset. What the loops over a buffer do is an
induction over a run (below) whose step is one of a few (`Step`); what the bytes
grant is followed from the machines to the probers, the groups and the detector
(`Utf8Byte`, `GroupTold`, `SbTold`, `EscTold`, `LookTold`, `JudgedTold`,
`EndTold`). The UTF-8 prober, for one, counts a character only at the end of a
sequence, and its table comes there only with a continuation byte behind a high
one. `AnswersSettle` is a theorem only; no run lists it. The byte behind a buffer is read with the others
(`WhatIsRead`). Assumed: buffers are
sequences of bytes, each with one behind it (`BuffersAssumption`), and no language model has a name of the
other probers' (`ProbersAssumption`). ISO-8859-1 is the one name with two
grounds: the detector itself gives it to a plain text with a hard blank, and the
French, German, Spanish and Danish models bear it; `Plainness` tells them apart.

**Configuration.** What decides a key is said twice: by the list of entries, with an
insertion point and `lookup`'s and `lookup_list`'s passes over it, and by the history
of what was asked (`Meaning`). `ConfigIInv` says for each stage how the two
go together: the entries are made of what was asked (`MadeOf`), also while files
put theirs in front (`PutMade`, `SetMade`, `ReadMade`), and when all is committed
the notifier knows what stands (`Attached`). All passes are folds, each with a lemma
of what one more entry does to it (`StepLaw` and its like: `PutLaw`, `ListLaw`,
`ScalarLaw`, `FoundLaw`); `AgreeMore` and `RetrieveIs` join them to one statement
about a key. A value that the notifier refuses is in the entries and in what was
asked, and not in what the notifier was told. Assumed: `ConfigAssumption`, names and values of
the operations are strings.

**Personal dictionaries.** `DictIInv`: types; who is between lock and unlock
holds the lock; no process has seen a later date than the file's; a file cut
short has no lines; dictionaries are well formed; and for each process what a
saver knows of the file it is about to cut (`SaverKnows`, `OldCovered`). The
last two make the theorem: in the step that cuts the file its lines are covered
by the saver's dictionary, in the step that writes it they are the dictionary.
Reading a file is a fold over its lines, `FoldAddsLines` its invariant.
`NoSaveLosesAnother` lists the exceptions the code has, each a disjunct. The theorems
are about `LockedSpec`; without locks nothing keeps two savers apart, and the run has
that build too, with the case named.

**bzip2.** `FilesInv`: an output the program may still change or remove is not
another's file; the flag for it is set only after the check that it is its own.
`ExitInv`: what is undone is in the exit value or in the one note of a damaged
file that is not in it yet. The library's calls are constants without
assumptions. `ExitIsTrueAlways` states the first half of `SuccessIsTrue`. The
second, `DoneIsDone`, depends on what the library returns and stays with TLC. It
is all of the library that `NothingLost` needs: `NothingLostIfDone` has it as a
hypothesis. `LossInv` says where each text is in between, in a file that is not
the output at work; what `Check` removes with -f is no text to keep unless another
file has it, `Finish` removes the input when the output holds its text, and the
names differ (`OutNameDiffers`). That a flush which fails is seen is in the steps,
but for the one close that nobody looks at (`CloseBlind`), which the property names. `NamesAssumption` has the names of operands and
their outputs among the names that occur.

**Pipe.** `PipeKeepsFaith` has two halves. The replacements: all the program
remembers is one pair of words, and `MemoryInv` says what they are, the beginning
and the end of the last chain of wrong corrections in the history; a longer
history changes nothing that was said of a shorter one (`HistoryGrows`,
`ChainsGrow`), and then a right correction finds both ends (`RightStored`). The
answers: `AnswersRight` follows a line through the cut of its first character,
the starts of its words (`PlacesIs`), their ends, and the choice of what is
spoken (`InOrderIs`, a selection from a sequence as an increasing map), and
counts them in verbose mode. Assumed: lines that are checked are sequences of
characters (`SpellerAssumption`).

**Induction.** The library's induction theorems take an operator as parameter,
which the provers cannot instantiate. `Recursion` has them in a form they can: a
set has a least element (`LeastIn`), a set that is closed under picking is
everything (`PickInduction`), and a fold has a run, a function from prefixes to
values, whose steps are the fold's (`RunExists`, `FoldExists`); a selection from
a sequence is an increasing map (`SelectionIs`). Proofs about folds then are
inductions over 0..n with a set of good indices.

**Only model-checked.** Liveness (`EndReached`, `WalkEnds`) and ENABLED. What a
recursive definition computes for all inputs: `NodeCodec` and `Prezip` round
trips. Modules with RECURSIVE operators: `Affix`, `ReadOnlyWs`, `Checker`, `Suggest`,
`Filters`, the bzip2 library. `MachinesRight` of `Detector`, which compares the
machines with texts read by a recursive function. `Convert` for now.

## 7. Not modelled

* `mapi` (declarations of an external interface), build files, `config.c`, the
  test program, the locks (every function returns at once), the pretty printer
  and all messages.
* Failing `malloc`; failing `fread` and `fwrite` in Btree; several processes on
  one database; cache variants that are not compiled; the raw block type.
* Dates: the clock `st_mtime` is read from has whole seconds. In `Writable` it
  may stand still between two saves; then a process cannot see the other's save
  (`Blind`), and the word is lost. The property names this case and does not
  forbid it, so that nothing here says how often it happens.
* A disk that is full when aspell closes the edited file or a personal list; what
  two processes leave in a file they write at once (without locks `Writable` keeps
  the lines of the last).
* Byte order; a node's numbers are one element of the buffer each.
* Randomised bzip2 blocks, the word tricks of its radix passes, more than a
  block's worth of data per stage, and limits as 50000 blocks of bzip2recover.
* The language tables of chardet, beyond the entries the bounded texts meet.
* Dictionaries: words of about 125 letters and more, whose one-byte offsets
  overflow; a scan that meets words longer than their soundslikes; words with an
  empty soundslike; multi-dictionaries, the alias file, errors while a master
  file is written. `phonet.cpp`'s rule engine. Encodings and escapes of personal
  files.
* aspell's containers, error values and look-up of files; its interactive
  screens; actions of the program other than those in section 1; speller
  languages with affixes in `Speller` and `Suggest`; n-grams with weights.

## 8. Plan

Done: all components of section 1 modelled as far as `PROJECT.json` says, twelve
runs, six modules of theorems and two of the lemmas they share. Next:

1. `NodeCodec` and `Prezip`: the round trips, with folds in place of recursive
   functions where that helps.
2. `BTreeCursor`: what a crash inside a deletion leaves, of which the code's
   order of writes promises less.
3. `Multi-dictionaries` and `phonet.cpp`.
