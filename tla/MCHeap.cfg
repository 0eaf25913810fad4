CONSTANTS
    WordBits <- MCWordBits
    HEAP_START <- MCHeapStart
    HEAP_SIZE <- MCHeapSize
    BLOCK <- MCBlock
    OverflowChecks = FALSE
    Requests <- MCRequests

SPECIFICATION Spec

INVARIANT TypeOK
INVARIANT HeapTiles
INVARIANT AllocationsDisjoint

PROPERTY HeapRefinement
