SPECIFICATION AspellSpec
\* a process may have no more to add, a search ends
CHECK_DEADLOCK FALSE
SYMMETRY Users
INVARIANTS
    SettingsHold
    SuggestionsSound
    DistancesAndSkips
    ReadsTheWords
    PipeKeepsFaith
    EditKept
PROPERTIES
    NoSaveLosesAnother
CONSTANTS
    Proc = {p, q}
    Entry <- MCEntry
    Accepts <- MCAccepts
    Invalid <- MCInvalid
    MaxTime = 1
    MaxAdds = 2
    MaxFaults = 1
    Ops <- MCOps
    Sources <- MCSources
    LangOps <- MCLangOps
    MaxArgs = 1
    MaxLater = 2
    Asked <- MCAsked
    LastLetter = 3
    ReplTable <- MCReplTable
    SlFirst <- MCSlFirst
    SlRest <- MCSlRest
    KeyPairs <- MCKeyPairs
    SplitChars <- MCSplitChars
    NgramKeep = 2
    RunMin = 2
    Strings <- MCStrings
    EditLimit = {1, 2, 3}
    TextLetters = {"a","b","c","d","e","f","i","n","o","p","r","s","t","u","v","x","y","H","S","ign","end","table","item"}
    Digits = {"1","2"}
    BeginChars = {"~"}
    MiddleChars = {"'"}
    EndChars = {}
    Modes <- MCModes
    Constructs <- MCConstructs
    Margin = 2
    QuoteMarks = {">"}
    Delimiters <- MCDelimiters
    VisibleFirst = FALSE
    TexCommands <- MCTexCommands
    CheckComments = FALSE
    SkipTags <- MCSkipTags
    CheckAttribs <- MCChecked
    TexinfoIgnore <- MCIgnored
    TexinfoIgnoreEnv <- MCIgnoredEnv
    NumberedChar <- MCNumbered
    MaxConstructs = 2
    MaxPieces = 3
    MainWords <- MCMainWords
    Suggested <- MCSuggested
    Commands <- MCCommands
    Settings <- MCSettings
    MaxCommands = 4
    TextFiles <- MCTextFiles
    RingLines = 2
    AheadLines = 1
    Typed <- MCTyped
    MaxReplaced = 3
