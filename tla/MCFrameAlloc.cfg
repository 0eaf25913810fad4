CONSTANTS
    WordBits <- MCWordBits
    BITMAP_SIZE <- MCBitmapSize
    PAGE_SIZE <- MCPageSize

SPECIFICATION Spec

INVARIANT TypeOK
INVARIANT AllocatorConsistent

PROPERTY FrameRefinement
