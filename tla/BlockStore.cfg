SPECIFICATION Spec
INVARIANTS
    TypeOK
    UnitsInFile
    UnitsDisjoint
    ReadBack
    RoomAccounted
PROPERTIES
    HeadStable
CONSTANTS
    Block = {b1, b2}
    Type <- MCType
    Multiple <- MCMultiple
    DataSize <- MCDataSize
    HeaderSize = 15
    PtrSize = 4
    AreaStart = 2064
    ListArea = 2048
    CountSize = 4
    EntrySize = 6
    MaxUnits = 3
    MaxEnd <- MCMaxEnd
    NoType = NoType
SYMMETRY Symmetry
