SPECIFICATION WordsSpec
CHECK_DEADLOCK FALSE
INVARIANTS
    PartlyExpandedIsSame
CONSTANTS
    LongCode = 4
    Blank = 6
    LastByte = 12
    Newline = 1
    BufSize = 13
    Texts <- MCTexts
    AffixFiles <- MCAffixFiles
    Dictionaries <- MCDictionaries
    Typed <- MCTyped
    Letters = 2
    AffixTables <- MCAffixTables
    WordLists <- MCWordLists
    Compilations <- MCCompilations
    Begins = {8}
    Middles = {8, 9}
    Ends = {9}
    FirstSound <- MCFirstSound
    RestSound <- MCRestSound
    WordLimit = 18
    GroupLimit = 31
    ByteMod = 32
    MinBuckets = 19
    Lookups <- MCLookups
    CharSets <- MCCharSets
    NormFiles <- MCNormFiles
    Spelling <- MCSpelling
    Conversions <- MCConversions
    CacheKeys = {k1, k2}
    Holders = {h1, h2}
    MaxVersion = 2
    MaxLoads = 2
