SPECIFICATION FairSpec
CONSTANTS
    h1 = h1
    g1 = g1
    g2 = g2
    Null = Null
    CellsPerPage = 2
    PageBytes = 2
    SizeMax = 15
    MaxPages = 1
    HeapSlots <- OneSlot
    Globals <- HostObjects
    HostField <- HostInit
    StoresIntoHost = FALSE
    NumFields = 2
    PageRequests <- OnePage
    MaxDepth = 1
    MaxNames = 3
INVARIANTS
    RefcountExact
    NoDangling
    CellsSurviveWalks
    RecursionBounded
PROPERTIES
    WalksEnd
