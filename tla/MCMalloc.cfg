SPECIFICATION Spec
CONSTANTS
    PageWords = 12
    HeapPages = 3
    TrimThreshold = 20
    SmallLimit = 8
    LargeWidth = 4
    LastBin = 10
    Requests = {12, 44}
    Alignments = {8}
    MaxLive = 3
INVARIANTS TypeOK HeapIntact BestFit
PROPERTY ImplementsAllocator
