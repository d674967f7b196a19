SPECIFICATION FairSpec
CONSTANTS
    Terms = {t1, t2}
    Empty = Empty
    NoList = NoList
    MaxItems = 2
    MaxSaves = 4
    MaxDelegates = 2
INVARIANTS
    TypeOK
    ListBounded
    InitErasesNothing
    RereadFindsList
    AloneLosesNothing
    LaterSaveWins
PROPERTIES
    SavesEnd
