SPECIFICATION Spec
CHECK_DEADLOCK FALSE
INVARIANTS
    NeverCorrupt
    ChunkingInvisible
PROPERTIES
    IsPipe
    EndReached
CONSTANTS
    BlockSize = 23
    MaxRun = 6
    CrcMod = 11
    Source <- Sources
    MaxGiven = 2
    MaxRoom = 2
    MaxFlush = 1
