\* Frames and pages scaled to 32 bytes (3-bit indices, 5-bit offsets): 16
\* frames in 4 bitmap words of 4 bits, and an identity map of TABLES = 2
\* slots of 8 pages covering exactly those 16 frames, as the 4 slots of the
\* code cover the 4096 frames of memory.rs.  The directory and tables sit at
\* pages 12 .. 14, above the frames the tests use, as the kernel image sits
\* above the test frames.  vaddr 0x400000 is 256, slot 1 entry 0.  The heap
\* keeps the code's sizes.  TEST_PATTERN is 0xBEEF: TLC's integers stop
\* at 2^31, and the tests only compare it with itself.
CONSTANTS
    BitmapBits = 4
    BITMAP_SIZE = 4
    FRAME_SIZE = 32
    IndexBits = 3
    PageBits = 5
    TABLES = 2
    PD_ADDR = 384
    PT_ADDR <- MCPtAddr
    UsizeBits = 30
    HEAP_START = 8388608
    HEAP_SIZE = 8388608
    BLOCK = 12
    FSNODE_SIZE = 116
    TEST_PATTERN = 48879
    NUM = 10
    VADDR = 256
SPECIFICATION Spec
INVARIANT TestsPass
\* The boot ends in shell::init's loop or in the panic loop.
CHECK_DEADLOCK FALSE
