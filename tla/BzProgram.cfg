SPECIFICATION ProgramSpec
CHECK_DEADLOCK FALSE
INVARIANTS
    Untouched
    NothingLost
    SuccessIsTrue
CONSTANTS
    BlockSize = 23
    MaxRun = 6
    CrcMod = 11
    MaxUnused = 4
    StdioBuffer = 6
    Names <- AllNames
    Disks <- InitialDisks
    Commands <- Lines1
    Spaces = {3, 6, 100}
    Piece = 4
    MaxCommands = 3
    MaxAccidents = 1
    BZ2_bzWriteOpen <- bzWriteOpen
    BZ2_bzWrite <- bzWrite
    BZ2_bzWriteClose <- bzWriteClose
    BZ2_bzReadOpen <- bzReadOpen
    BZ2_bzRead <- bzRead
    BZ2_bzReadGetUnused <- bzReadGetUnused
    WriteTo <- fwrite
    Flush <- fflush
    Meaning <- DecodeFile
    Junk <- NoToken
