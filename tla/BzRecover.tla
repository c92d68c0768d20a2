------------------------------ MODULE BzRecover ------------------------------
(***************************************************************************)
(* bzip2recover (bzip2recover.c): a damaged file is searched, bit by bit,  *)
(* for the magic numbers in front of blocks and of the end; what lies      *)
(* between two of them is a block, and in a second pass over the file each *)
(* block becomes a file of its own.                                        *)
(***************************************************************************)
EXTENDS Integers, Sequences, SequencesExt, FiniteSets

CONSTANTS
    Input,          \* the files that are tried, sequences of bits
    BlockHeader,    \* the magic number of a block, 48 bits
    BlockEndmark,   \* the one of the end, as many
    CrcBits,        \* bits of a block's CRC, 32
    FileHeader,     \* BZh9 in bits
    MinBlock,       \* a block's least length, 130
    MinLast         \* 40

ASSUME RecoverAssumption ==
    /\ Len(BlockHeader) = Len(BlockEndmark)
    /\ CrcBits \in 1 .. Len(BlockHeader)
    /\ MinBlock >= Len(BlockHeader) /\ MinLast \in Nat

VARIABLES
    input,
    pass,           \* "off", "search", "split", "done" or "none found"
    bitsRead,
    buff,           \* buffHi, buffLo: the last bits read
    currBlock,
    bStart,         \* where each block seen so far starts
    rb,             \* the blocks to recover: records start, end
    wrBlock,
    blockCRC,
    outFile         \* the files written, the last one perhaps not complete

recovervars ==
    <<input, pass, bitsRead, buff, currBlock, bStart, rb, wrBlock, blockCRC, outFile>>

Width == Len(BlockHeader)
Magic == {BlockHeader, BlockEndmark}
ShiftIn(b) == Append(IF Len(buff) = Width THEN Tail(buff) ELSE buff, b)

(* Mutant: the magic number is taken for the end of the block before it.   *)
RecoverableWithMagic(start, read) ==
    IF currBlock > 0 /\ (read - 1) - start >= MinBlock
    THEN <<[start |-> start, end |-> read - 1]>> ELSE <<>>

(* The block that ends in front of a magic number just read: places are    *)
(* counted from 0, and the bits before the first magic are none.           *)
Recoverable(start, read) ==
    IF currBlock > 0 /\ (read - Width - 1) - start >= MinBlock
    THEN <<[start |-> start, end |-> read - Width - 1]>> ELSE <<>>

(* The first pass, a bit at a time.                                        *)
Search ==
    /\ pass = "search" /\ bitsRead < Len(input)
    /\ LET now == ShiftIn(input[bitsRead + 1])
       IN  /\ buff' = now /\ bitsRead' = bitsRead + 1
           /\ IF now \in Magic
              THEN /\ rb' = rb \o Recoverable(bStart, bitsRead + 1)
                   /\ currBlock' = currBlock + 1 /\ bStart' = bitsRead + 1
              ELSE UNCHANGED <<rb, currBlock, bStart>>
    /\ UNCHANGED <<input, pass, wrBlock, blockCRC, outFile>>
SearchEnd ==
    /\ pass = "search" /\ bitsRead = Len(input)
    /\ currBlock' = IF bitsRead + 1 - bStart >= MinLast THEN currBlock ELSE currBlock - 1
    /\ pass' = IF rb = <<>> THEN "none found" ELSE "split"
    /\ bitsRead' = 0 /\ wrBlock' = 1
    /\ UNCHANGED <<input, buff, bStart, rb, blockCRC, outFile>>

(* The second pass.  The CRC is in the first bits behind the magic; it     *)
(* goes, as the file's own, behind the block.                              *)
Block(w) == IF w <= Len(rb) THEN rb[w] ELSE [start |-> 0, end |-> 0]
Split ==
    /\ pass = "split" /\ bitsRead < Len(input)
    /\ LET b    == input[bitsRead + 1]
           now  == ShiftIn(b)
           blk  == Block(wrBlock)
           crc  == IF bitsRead = Width - 1 + blk.start THEN SubSeq(now, 1, CrcBits) ELSE blockCRC
           put  == IF outFile # <<>> /\ bitsRead \in blk.start .. blk.end
                   THEN [outFile EXCEPT ![Len(outFile)] = Append(@, b)] ELSE outFile
       IN  /\ buff' = now /\ bitsRead' = bitsRead + 1 /\ blockCRC' = crc
           /\ outFile' = CASE bitsRead + 1 = blk.end + 1 /\ outFile # <<>> ->
                                [put EXCEPT ![Len(put)] = @ \o BlockEndmark \o crc]
                           [] bitsRead + 1 = blk.start /\ bitsRead + 1 # blk.end + 1 ->
                                Append(put, FileHeader \o BlockHeader)
                           [] OTHER -> put
           /\ wrBlock' = IF bitsRead + 1 = blk.end + 1 THEN wrBlock + 1 ELSE wrBlock
           /\ pass' = IF bitsRead + 1 = blk.end + 1 /\ wrBlock > Len(rb) THEN "done" ELSE pass
    /\ UNCHANGED <<input, currBlock, bStart, rb>>
SplitEnd ==
    /\ pass = "split" /\ bitsRead = Len(input)
    /\ pass' = "done"
    /\ UNCHANGED <<input, bitsRead, buff, currBlock, bStart, rb, wrBlock, blockCRC, outFile>>

RecoverIdle ==
    /\ bitsRead = 0 /\ buff = <<>> /\ currBlock = 0 /\ bStart = 0 /\ rb = <<>>
    /\ wrBlock = 0 /\ blockCRC = <<>> /\ outFile = <<>>
RecoverOff == input = <<>> /\ pass = "off" /\ RecoverIdle
RecoverInit == input \in Input /\ pass = "search" /\ RecoverIdle
RecoverNext == Search \/ SearchEnd \/ Split \/ SplitEnd

-----------------------------------------------------------------------------

(* The reference: where a magic number ends, and what lies between two.    *)
MagicEnds == {p \in Width .. Len(input) : SubSeq(input, p - Width + 1, p) \in Magic}
Between == {<<p, q>> \in MagicEnds \X MagicEnds :
               /\ q - p >= MinBlock + Width + 1
               /\ \A r \in MagicEnds : r <= p \/ r >= q}
OneBlockFile(bits) ==
    FileHeader \o BlockHeader \o bits \o BlockEndmark \o SubSeq(bits, 1, CrcBits)

(* Every block that has its magic number and the next one's, and is long   *)
(* enough, is recovered, whatever happened to the rest of the file: each   *)
(* in a file that has its bits, its CRC and the header and the end of a    *)
(* file of one block; and there are no other files.                        *)
RecoversBlocks ==
    /\ pass = "done" =>
          /\ Len(outFile) = Cardinality(Between)
          /\ {outFile[i] : i \in DOMAIN outFile} =
                {OneBlockFile(SubSeq(input, pq[1] + 1, pq[2] - Width)) : pq \in Between}
    /\ pass = "none found" => Between = {}
=============================================================================
