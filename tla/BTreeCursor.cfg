SPECIFICATION CursorSpec
CHECK_DEADLOCK FALSE
INVARIANTS
    WalkComplete
    CrashKeepsChain
PROPERTY WalkEnds
CONSTANTS
    Order = 4
    Key = {1, 2, 3, 4, 5, 6}
    Value = {1}
    Mode = {"rw"}
    LongWords = 1
    WordBase = 1000
    Asserts = FALSE
    FreedText = {}
    ReopenFirst = TRUE
    Reinsert = FALSE
    MaxSize = 6
