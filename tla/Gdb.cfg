SPECIFICATION MCSpec
CHECK_DEADLOCK FALSE
INVARIANTS
    CacheAgrees
    ClustersUnbroken
    TableKeepsAll
    ListKeepsAll
    UsedFileIsWhole
CONSTANTS
    Object = {o1, o2, o3}
    Offset = {2064, 2096, 2288, 2544}
    HashSize = 4
    MaxCache = 2
    MaxHold = 2
    NoObject = NoObject
    TableKey = {1, 4, 7}
    BucketCount = 3
    TableType = {"STRING", "LONG"}
    Datum = {"d"}
    RawSize = {4}
    LongSize = 1
    CountMod = 3
    SizeMod = 18
    ListedOffset = {1, 2}
    FirstSize = 2
    ShortMod = 8
    MaxAdds = 9
    Name = {"n1", "n2"}
    MaxTree = 4
SYMMETRY Symmetry
