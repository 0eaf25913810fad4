----------------------------- MODULE FrameAlloc -----------------------------
(***************************************************************************)
(* The physical frame allocator of memory.rs: a bitmap of u32 words, one   *)
(* bit per 4 KiB frame, and the counter USED_FRAMES.  allocate_frame scans *)
(* for the lowest clear bit (skipping all-ones words), sets it and returns *)
(* frame * PAGE_SIZE; free_frame(addr) clears bit addr / PAGE_SIZE and     *)
(* decrements the counter, saturating at zero.                             *)
(*                                                                         *)
(* The callers (the boot self-tests, the paging test, any kernel code) are *)
(* the environment: `held` is the set of addresses handed out and not yet  *)
(* freed, and a caller frees only an address it holds.  Nothing runs      *)
(* concurrently with the allocator: no interrupt handler allocates.        *)
(***************************************************************************)
EXTENDS Integers, FiniteSetsExt, Bitwise

CONSTANTS
    WordBits,      \* bits per bitmap word (32 in memory.rs)
    BITMAP_SIZE,   \* number of bitmap words (NUM_FRAMES / 32 in memory.rs)
    PAGE_SIZE      \* bytes per frame (4096)

ASSUME /\ WordBits \in 1 .. 32
       /\ BITMAP_SIZE \in Nat \ {0}
       /\ PAGE_SIZE \in Nat \ {0}

NUM_FRAMES == BITMAP_SIZE * WordBits
FullWord   == 2^WordBits - 1          \* 0xFFFF_FFFF at 32 bits
AllFrames  == 0 .. NUM_FRAMES - 1
NoFrame    == -1                       \* first_free's u32::MAX sentinel
NoAddr     == -1                       \* "no address" for the history variable result

VARIABLES
    BITMAP,        \* word index -> word value
    USED_FRAMES,   \* the counter free_frames() reads
    held,          \* addresses returned to callers and not yet freed
    result         \* what the last allocate_frame returned (NoAddr = None)

vars == <<BITMAP, USED_FRAMES, held, result>>

-----------------------------------------------------------------------------
(* Bit helpers: test_frame / set_frame / clear_frame.                      *)

test_frame(frame) ==
    (BITMAP[frame \div WordBits] & 2^(frame % WordBits)) # 0

set_frame(frame) ==
    [BITMAP EXCEPT ![frame \div WordBits] = @ | 2^(frame % WordBits)]

\* BITMAP[idx] &= !(1 << bit), the complement taken at word width.
clear_frame(frame) ==
    [BITMAP EXCEPT ![frame \div WordBits] = @ & (FullWord - 2^(frame % WordBits))]

\* A variant whose inner loop stops one bit short of the word (0..31 read
\* as 0..30), so the top bit of every word is never handed out.
first_free_SkipsLastBit ==
    LET cands == { i * WordBits + j : i \in 0 .. BITMAP_SIZE - 1, j \in 0 .. WordBits - 2 }
        ok(f) == /\ BITMAP[f \div WordBits] # FullWord
                 /\ (BITMAP[f \div WordBits] & 2^(f % WordBits)) = 0
                 /\ f < NUM_FRAMES
    IN IF \E f \in cands : ok(f) THEN Min({f \in cands : ok(f)}) ELSE NoFrame

(* first_free: words in index order, skipping words equal to all-ones, and *)
(* in the first word with a clear bit the lowest clear bit j, giving frame *)
(* i*32+j if below NUM_FRAMES.  Index order on (i, j) is numeric order on  *)
(* i*32+j, so the nested loop returns the least frame passing its tests.   *)
first_free ==
    LET cands == { i * WordBits + j : i \in 0 .. BITMAP_SIZE - 1, j \in 0 .. WordBits - 1 }
        ok(f) == /\ BITMAP[f \div WordBits] # FullWord
                 /\ (BITMAP[f \div WordBits] & 2^(f % WordBits)) = 0
                 /\ f < NUM_FRAMES
    IN IF \E f \in cands : ok(f) THEN Min({f \in cands : ok(f)}) ELSE NoFrame

\* free_frames(): NUM_FRAMES - USED_FRAMES.
free_frames == NUM_FRAMES - USED_FRAMES

-----------------------------------------------------------------------------
(* memory::initialize zeroes the bitmap and the counter (the statics start *)
(* zeroed too).                                                            *)
Init ==
    /\ BITMAP = [i \in 0 .. BITMAP_SIZE - 1 |-> 0]
    /\ USED_FRAMES = 0
    /\ held = {}
    /\ result = NoAddr

\* A variant of allocate_frame that bumps the counter on the None path too.
allocate_frame_CountsFailures ==
    LET frame == first_free IN
    /\ \/ /\ frame = NoFrame
          /\ result' = NoAddr
          /\ USED_FRAMES' = USED_FRAMES + 1
          /\ UNCHANGED <<BITMAP, held>>
       \/ /\ frame # NoFrame
          /\ BITMAP' = set_frame(frame)
          /\ USED_FRAMES' = USED_FRAMES + 1
          /\ result' = frame * PAGE_SIZE
          /\ held' = held \cup {frame * PAGE_SIZE}

allocate_frame ==
    LET frame == first_free IN
    /\ \/ /\ frame = NoFrame
          /\ result' = NoAddr
          /\ UNCHANGED <<BITMAP, USED_FRAMES, held>>
       \/ /\ frame # NoFrame
          /\ BITMAP' = set_frame(frame)
          /\ USED_FRAMES' = USED_FRAMES + 1
          /\ result' = frame * PAGE_SIZE
          /\ held' = held \cup {frame * PAGE_SIZE}

\* A variant of free_frame that forgets to decrement the counter.
free_frame_KeepsCount(addr) ==
    /\ BITMAP' = clear_frame(addr \div PAGE_SIZE)
    /\ UNCHANGED USED_FRAMES
    /\ held' = held \ {addr}
    /\ UNCHANGED result

free_frame(addr) ==
    /\ BITMAP' = clear_frame(addr \div PAGE_SIZE)
    /\ USED_FRAMES' = IF USED_FRAMES > 0 THEN USED_FRAMES - 1 ELSE USED_FRAMES
    /\ held' = held \ {addr}
    /\ UNCHANGED result

\* Callers free only what they hold.
Next ==
    \/ allocate_frame
    \/ \E a \in held : free_frame(a)

Spec == Init /\ [][Next]_vars

-----------------------------------------------------------------------------
(* Properties.                                                             *)

TypeOK ==
    /\ BITMAP \in [0 .. BITMAP_SIZE - 1 -> 0 .. FullWord]
    /\ USED_FRAMES \in 0 .. NUM_FRAMES
    /\ held \subseteq { f * PAGE_SIZE : f \in AllFrames }
    /\ result \in { f * PAGE_SIZE : f \in AllFrames } \cup {NoAddr}

UsedSet == { f \in AllFrames : test_frame(f) }

(* The frame bitmap is a bijection with the callers' view (spec section 8): *)
(* the frames whose bit is set are exactly the frames handed out by        *)
(* allocate_frame and not yet passed to free_frame, and free_frames()      *)
(* (NUM_FRAMES - USED_FRAMES) equals the number of clear bits.             *)
AllocatorConsistent ==
    /\ UsedSet = { a \div PAGE_SIZE : a \in held }
    /\ free_frames = Cardinality(AllFrames \ UsedSet)

(* allocate_frame hands out the lowest free frame, and a None that follows *)
(* a success comes only when every frame is in use; free_frame returns    *)
(* exactly one frame:                                                      *)
(* the bitmap allocator implements FrameAllocSpec, with the set of frames  *)
(* whose bit is set as the abstract allocated set.                         *)
Abstract == INSTANCE FrameAllocSpec
                WITH NumFrames <- NUM_FRAMES, None <- NoFrame, allocated <- UsedSet,
                     result <- IF result = NoAddr THEN NoFrame ELSE result \div PAGE_SIZE
FrameRefinement == Abstract!Spec
=============================================================================
