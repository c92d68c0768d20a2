SPECIFICATION Spec
VIEW Tree
INVARIANTS
    Searchable
    LeafChain
    SpaceAccounted
    Durable
CONSTANTS
    Order = 3
    Key = {1, 2, 3, 4, 5, 6}
    Value = {1}
    Mode = {"rw"}
    LongWords = 1
    WordBase = 1000
    Asserts = FALSE
    FreedText = {}
    ReopenFirst = TRUE
    Reinsert = FALSE
    MaxSize = 6
