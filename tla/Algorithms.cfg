SPECIFICATION AlgorithmsSpec
\* an algorithm ends
CHECK_DEADLOCK FALSE
INVARIANTS
    RoundTrips
    MachinesRight
    DetectionSound
    AffixesSound
    DictionarySound
    ConversionsSound
    CacheCounts
CONSTANTS
    Symbols = 4
    FallbackSmall = 3
    MainSmall = 2
    MainDepth = 3
    Direct = 2
    MainBlock = 3
    MapLine = 2
    GroupSize = 3
    MaxCodeLen = 3
    MtfLine = 2
    MtfArea = 7
    CodecBlock <- Blocks
    WorkFactor = {1, 30}
    Input <- Files
    BlockHeader <- Header
    BlockEndmark <- Endmark
    CrcBits = 2
    FileHeader <- FileStart
    MinBlock = 3
    MinLast = 2
    NodeOrder = 4
    NodeKey <- Keys
    Address = {1}
    PrefixCap = 2
    MaxText = 3
    Frequent <- MCFrequent
    NeverFollows <- MCNeverFollows
    EnoughChars = 2
    EnoughPairs = 2
    MaxPairs = 3
    RelNeeded = 1
    EnoughSeqs = 3
    SbModels <- MCSbModels
    Buffers <- MCBuffers
    MaxBuffers = 3
    LongCode = 4
    Blank = 6
    LastByte = 12
    Newline = 1
    BufSize = 13
    Texts <- MCTexts
    AffixFiles <- MCAffixFiles
    Dictionaries <- MCDictionaries
    Typed <- MCTyped
    Letters = 2
    AffixTables <- MCAffixTables
    WordLists <- MCWordLists
    Compilations <- MCCompilations
    Begins = {8}
    Middles = {8, 9}
    Ends = {9}
    FirstSound <- MCFirstSound
    RestSound <- MCRestSound
    WordLimit = 18
    GroupLimit = 31
    ByteMod = 32
    MinBuckets = 19
    Lookups <- MCLookups
    CharSets <- MCCharSets
    NormFiles <- MCNormFiles
    Spelling <- MCSpelling
    Conversions <- MCConversions
    CacheKeys = {k1, k2}
    Holders = {h1, h2}
    MaxVersion = 2
    MaxLoads = 2
