CONSTANTS
    WordBits <- MCWordBits
    HEAP_START <- MCHeapStart
    HEAP_SIZE <- MCHeapSize
    BLOCK <- MCBlock
    OverflowChecks = FALSE
    Requests <- MCHugeRequests

SPECIFICATION Spec

INVARIANT AllocationsDisjoint
