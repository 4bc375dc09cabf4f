CONSTANTS
    Count = 3
    Type <- TableType
    IsReversed <- TableReversed
    InitState <- TableInitState
SPECIFICATION FairSpec
INVARIANTS
    TypeOK
    MemoryMatchesLine
    UngrantedIsSilent
    EventTellsEdge
PROPERTIES
    StartOpensRelays
    RestingLineIsSeen
