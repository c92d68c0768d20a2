----------------------------- MODULE OffsetList -----------------------------
(***************************************************************************)
(* The offset list block (offsetlist.c): an array that grows by doubling,  *)
(* with its count and its size in unsigned shorts.                         *)
(***************************************************************************)
EXTENDS Integers, Sequences, SequencesExt

CONSTANTS
    ListedOffset,   \* offsets, not 0
    FirstSize,      \* the array of a new list: 10 in the code
    ShortMod,       \* the width of count and arraySize, 2^16
    MaxAdds         \* bound: additions between two openings of the block

ASSUME ListAssumption ==
    /\ ListedOffset \subseteq Nat \ {0}
    /\ FirstSize \in 1 .. ShortMod - 1
    /\ ShortMod \in Nat /\ MaxAdds \in Nat

VARIABLES
    offsets,        \* what was stored in the array, by position
    count, arraySize,
    allocated,      \* entries the array really has
    overrun,        \* something was stored behind the array
    listOnDisk,     \* the offsets in the written block
    appended        \* what the client added to this list

olvars == <<offsets, count, arraySize, allocated, overrun, listOnDisk, appended>>

(* Mutant: full is noticed one addition late.                              *)
GrownLate ==
    IF count = arraySize + 1
    THEN /\ allocated' = arraySize * 2
         /\ arraySize' = (arraySize * 2) % ShortMod
    ELSE UNCHANGED <<allocated, arraySize>>

(* The array of olAddOffset: newSize is an unsigned long, arraySize takes  *)
(* its lower 16 bits.                                                      *)
Grown ==
    IF count = arraySize
    THEN /\ allocated' = arraySize * 2
         /\ arraySize' = (arraySize * 2) % ShortMod
    ELSE UNCHANGED <<allocated, arraySize>>

(* olAddOffset; 0 is not added.  The block is not marked dirty.            *)
olAddOffset(offset) ==
    /\ Len(appended) < MaxAdds
    /\ Grown
    /\ overrun' = (overrun \/ count >= allocated')
    /\ offsets' = [i \in 0 .. ShortMod - 1 |->
                     IF i = count THEN offset
                     ELSE IF count = arraySize /\ i >= count THEN 0 ELSE offsets[i]]
    /\ count' = (count + 1) % ShortMod
    /\ appended' = Append(appended, offset)
    /\ UNCHANGED listOnDisk

(* olGetOffset and olGetCount.                                             *)
olGetOffset(index) == IF index >= count THEN 0 ELSE offsets[index]

(* olWriteBlock, once the client has marked the block.                     *)
WriteList ==
    /\ listOnDisk' = [i \in 1 .. count |-> offsets[i - 1]]
    /\ UNCHANGED <<offsets, count, arraySize, allocated, overrun, appended>>

(* olReadBlock in another process.                                         *)
ReopenList ==
    /\ count' = Len(listOnDisk)
    /\ arraySize' = IF count' < FirstSize THEN FirstSize ELSE count'
    /\ allocated' = arraySize'
    /\ offsets' = [i \in 0 .. ShortMod - 1 |-> IF i < count' THEN listOnDisk[i + 1] ELSE 0]
    /\ appended' = listOnDisk
    /\ overrun' = FALSE
    /\ UNCHANGED listOnDisk

(* olCreateBlock.                                                          *)
ListInit ==
    /\ offsets = [i \in 0 .. ShortMod - 1 |-> 0]
    /\ count = 0
    /\ arraySize = FirstSize /\ allocated = FirstSize
    /\ overrun = FALSE
    /\ listOnDisk = <<>> /\ appended = <<>>

ListNext ==
    \/ \E offset \in ListedOffset : olAddOffset(offset)
    \/ WriteList \/ ReopenList

-----------------------------------------------------------------------------

(* Until the list has as many offsets as a short can count, it holds what  *)
(* was added, in order, through any number of growths from any size it may *)
(* have been read with, and stores nothing behind its array, although      *)
(* arraySize loses its upper bits before that.                             *)
ListKeepsAll ==
    Len(appended) < ShortMod =>
        /\ ~overrun
        /\ count = Len(appended)
        /\ \A i \in 1 .. Len(appended) : olGetOffset(i - 1) = appended[i]
=============================================================================
