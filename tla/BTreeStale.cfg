SPECIFICATION Spec
PROPERTIES
    InsertedIsFound
CONSTANTS
    Order = 3
    Key = {1, 2, 3, 4, 5}
    Value = {1}
    Mode = {"rw"}
    LongWords = 1
    WordBase = 1000
    Asserts = FALSE
    FreedText = {}
    ReopenFirst = FALSE
    Reinsert = TRUE
    MaxSize = 6
