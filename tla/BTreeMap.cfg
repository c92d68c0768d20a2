SPECIFICATION Spec
PROPERTY IsOrderedMap
CONSTANTS
    Order = 3
    Key = {1, 2, 3}
    Value = {1, 2}
    Mode = {"rw", "ro", "test"}
    LongWords = 2
    WordBase = 1000
    Asserts = FALSE
    FreedText = {}
    ReopenFirst = TRUE
    Reinsert = TRUE
    MaxSize = 6
