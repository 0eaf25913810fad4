CONSTANTS
    WordBits <- MCWordBits
    HEAP_START <- MCHeapStart
    HEAP_SIZE <- MCHeapSize
    BLOCK <- MCBlock
    OverflowChecks = FALSE
    FSNODE_SIZE <- MCNodeSize
    DATA_SIZE <- MCDataSize
    MAX_CHILDREN = 1
    MAX_OPEN_FILES = 2
    Vals <- MCVals
    WriteSizes <- MCWriteSizes
    ReadSizes <- MCReadSizes
    WriteLimit <- MCOverrunLimit
    OpenAnyNode = FALSE
SPECIFICATION Spec

INVARIANT HeapMetadataIntact
