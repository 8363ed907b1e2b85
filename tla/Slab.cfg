SPECIFICATION Spec
CONSTANTS
    CellsPerPage = 3
    PageBytes = 5
    SizeMax = 15
    MaxPages = 2
    PageRequests <- Requests
    MaxDepth = 2
INVARIANTS
    SlabInv
    PromiseKept
PROPERTIES
    ImplementsCellPool
