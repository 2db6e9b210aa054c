SPECIFICATION Spec
CONSTANTS
    MaxHeap = 16
    Chunk = 4
    Requests = {2, 4}
    Data <- FakeTags
INVARIANTS
    TypeOK
    HeapIsBlocks
    GrowsOnlyWhenFull
PROPERTY AllocatorSpec
