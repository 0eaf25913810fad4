----------------------------- MODULE BootTests -----------------------------
(***************************************************************************)
(* The boot of rust_main from memory::initialize to the end of             *)
(* tests::run_tests, over the three memory components it drives: the      *)
(* frame allocator (FrameAlloc), the page tables and MMU (Paging) and the  *)
(* heap (Heap).  fs_init takes the root FSNode from the heap, vmm_init and *)
(* vmm_enable turn paging on, and then memtest, pagetest and heaptest run  *)
(* in order.  memtest's pattern stores go through the MMU: a frame        *)
(* address is used as a kernel pointer, which the identity map translates *)
(* to itself.  Each step is one statement of a test; `pc` is the boot's    *)
(* program counter.                                                        *)
(***************************************************************************)
EXTENDS Integers

CONSTANTS
    BitmapBits, BITMAP_SIZE, FRAME_SIZE,          \* FrameAlloc
    IndexBits, PageBits, TABLES, PD_ADDR, PT_ADDR, \* Paging
    UsizeBits, HEAP_START, HEAP_SIZE, BLOCK,       \* Heap
    FSNODE_SIZE,   \* core::mem::size_of::<FSNode>()
    TEST_PATTERN,  \* memtest's 0xDEADBEEF
    NUM,           \* test_multiple_allocations' NUM (10)
    VADDR          \* pagetest's vaddr 0x400000

VARIABLES
    BITMAP, USED_FRAMES, held, result,    \* FrameAlloc
    vm, pmem, CR3, PG, tlb, call,         \* Paging (vm is its pc)
    FREE_LIST, blocks, ret, halted, live, \* Heap
    pc,       \* the next statement of the boot
    frame,    \* the frame a test holds (frame, frame1, frame2)
    frames,   \* test_multiple_allocations' frames array
    i,        \* its loop counter
    j,        \* the counter of its unwind loop
    ok,       \* its `ok`
    ptr       \* heaptest's ptr1 .. ptr5, and the root node at 0

FA == INSTANCE FrameAlloc WITH WordBits <- BitmapBits, PAGE_SIZE <- FRAME_SIZE
PT == INSTANCE Paging WITH pc <- vm, MapArgs <- {}, AccessPages <- {}
H  == INSTANCE Heap WITH WordBits <- UsizeBits, OverflowChecks <- FALSE, Requests <- {}

faVars   == <<BITMAP, USED_FRAMES, held, result>>
pgVars   == <<vm, pmem, CR3, PG, tlb, call>>
heapVars == <<FREE_LIST, blocks, ret, halted, live>>
locals   == <<frame, frames, i, j, ok, ptr>>
vars     == <<faVars, pgVars, heapVars, pc, locals>>

NoAddr == FA!NoAddr
NULL   == H!NULL

\* A u32 store and load through a kernel pointer.
Write(va, val) == pmem' = PT!Store(pmem, PT!Phys(va), val)
Read(va)       == pmem[PT!Phys(va)]

-----------------------------------------------------------------------------
(* memory::initialize and init_heap; paging still off.                     *)
Init ==
    /\ FA!Init /\ PT!Init /\ H!Init
    /\ pc = "fs_init"
    /\ frame = NoAddr
    /\ frames = [k \in 0 .. NUM - 1 |-> 0]
    /\ i = 0
    /\ j = 0
    /\ ok = TRUE
    /\ ptr = [k \in 0 .. 5 |-> NULL]

Goto(from, to) == pc = from /\ pc' = to

\* if !cond { panic!(..) } else continue at `to`.
Verdict(cond, to) == pc' = IF cond THEN to ELSE "panic"

fs_init ==
    /\ Goto("fs_init", "vmm_init")
    /\ H!kmalloc(FSNODE_SIZE) /\ ptr' = [ptr EXCEPT ![0] = ret']
    /\ UNCHANGED <<faVars, pgVars, live, frame, frames, i, j, ok>>

vmm_init   == Goto("vmm_init", "vmm_enable") /\ PT!vmm_init
                /\ UNCHANGED <<faVars, heapVars, locals>>
vmm_enable == Goto("vmm_enable", "ta") /\ PT!vmm_enable
                /\ UNCHANGED <<faVars, heapVars, locals>>

(* memtest::test_allocation: allocate, store and load the pattern, free,   *)
(* and run_tests panics unless it read the pattern back.                   *)
test_allocation ==
    /\ pc = "ta"
    /\ FA!allocate_frame
    /\ IF result' = NoAddr
       THEN pc' = "panic" /\ UNCHANGED <<pmem, frame>>
       ELSE Write(result', TEST_PATTERN) /\ frame' = result' /\ pc' = "ta_free"
    /\ UNCHANGED <<vm, CR3, PG, tlb, call, heapVars, frames, i, j, ok, ptr>>

test_allocation_free ==
    /\ pc = "ta_free"
    /\ FA!free_frame(frame)
    /\ Verdict(Read(frame) = TEST_PATTERN, "tf")
    /\ UNCHANGED <<pgVars, heapVars, locals>>

(* memtest::test_free: frame1 = allocate; free it; frame2 = allocate; free *)
(* frame2 if Some; pass iff frame2 == Some(frame1).                        *)
test_free ==
    /\ pc = "tf"
    /\ FA!allocate_frame
    /\ frame' = result'
    /\ pc' = IF result' = NoAddr THEN "panic" ELSE "tf_free1"
    /\ UNCHANGED <<pgVars, heapVars, frames, i, j, ok, ptr>>

test_free_free1 ==
    /\ Goto("tf_free1", "tf_alloc2")
    /\ FA!free_frame(frame)
    /\ UNCHANGED <<pgVars, heapVars, locals>>

test_free_alloc2 ==
    /\ Goto("tf_alloc2", "tf_check")
    /\ FA!allocate_frame
    /\ UNCHANGED <<pgVars, heapVars, locals>>

test_free_check ==
    /\ pc = "tf_check"
    /\ IF result = NoAddr THEN UNCHANGED faVars ELSE FA!free_frame(result)
    /\ Verdict(result = frame, "tm")
    /\ UNCHANGED <<pgVars, heapVars, locals>>

(* memtest::test_multiple_allocations: NUM frames, frame i stored with     *)
(* TEST_PATTERN + i; on a None, free frames[0..i] and fail.                *)
test_multiple_alloc ==
    /\ pc = "tm" /\ i < NUM
    /\ FA!allocate_frame
    /\ IF result' = NoAddr
       THEN pc' = "tm_unwind" /\ UNCHANGED <<pmem, frames>> /\ UNCHANGED i
       ELSE /\ Write(result', TEST_PATTERN + i)
            /\ frames' = [frames EXCEPT ![i] = result']
            /\ i' = i + 1
            /\ UNCHANGED pc
    /\ UNCHANGED <<vm, CR3, PG, tlb, call, heapVars, frame, j, ok, ptr>>

\* The unwind loop `for j in 0..i { free_frame(frames[j]) }`, then false.
test_multiple_unwind ==
    /\ pc = "tm_unwind"
    /\ \/ j < i /\ FA!free_frame(frames[j]) /\ j' = j + 1 /\ UNCHANGED pc
       \/ j = i /\ pc' = "panic" /\ UNCHANGED <<faVars, j>>
    /\ UNCHANGED <<pgVars, heapVars, frame, frames, i, ok, ptr>>

\* The load loop, then the free loop over every frame (i counts back down).
test_multiple_check ==
    /\ pc = "tm" /\ i = NUM
    /\ ok' = \A k \in 0 .. NUM - 1 : Read(frames[k]) = TEST_PATTERN + k
    /\ pc' = "tm_free"
    /\ UNCHANGED <<faVars, pgVars, heapVars, frame, frames, i, j, ptr>>

test_multiple_free ==
    /\ pc = "tm_free"
    /\ \/ i > 0 /\ FA!free_frame(frames[NUM - i]) /\ i' = i - 1 /\ UNCHANGED pc
       \/ i = 0 /\ Verdict(ok, "pt") /\ UNCHANGED <<faVars, i>>
    /\ UNCHANGED <<pgVars, heapVars, frame, frames, j, ok, ptr>>

(* pagetest::run: allocate a frame (panic on None), vmm_map(vaddr, frame,  *)
(* true), vmm_map(vaddr, 0, true) as the "unmap", free_frame(frame).        *)
pagetest_alloc ==
    /\ pc = "pt"
    /\ FA!allocate_frame
    /\ frame' = result'
    /\ pc' = IF result' = NoAddr THEN "panic" ELSE "pt_map"
    /\ UNCHANGED <<pgVars, heapVars, frames, i, j, ok, ptr>>

pagetest_map(from, pa, to) ==
    /\ Goto(from, to)
    /\ PT!vmm_map(VADDR, pa, TRUE)
    /\ UNCHANGED <<faVars, heapVars, locals>>

pagetest_free ==
    /\ Goto("pt_free", "h1")
    /\ FA!free_frame(frame)
    /\ UNCHANGED <<pgVars, heapVars, locals>>

(* heaptest::run: ptr[k] = kmalloc(n); kfree(ptr[k]); and its checks, each *)
(* of which panics when it fails.                                           *)
Alloc(from, k, n, to) ==
    /\ Goto(from, to)
    /\ H!kmalloc(n) /\ ptr' = [ptr EXCEPT ![k] = ret']
    /\ UNCHANGED <<faVars, pgVars, live, frame, frames, i, j, ok>>

Free(from, k, to) ==
    /\ Goto(from, to)
    /\ H!kfree(ptr[k])
    /\ UNCHANGED <<faVars, pgVars, live, locals>>

Check(from, cond, to) ==
    /\ pc = from /\ Verdict(cond, to)
    /\ UNCHANGED <<faVars, pgVars, heapVars, locals>>

heaptest ==
    \/ Alloc("h1", 1, 64, "h2")
    \/ Alloc("h2", 2, 128, "h3")
    \/ Alloc("h3", 3, 32, "nonnull")
    \/ Check("nonnull", NULL \notin {ptr[1], ptr[2], ptr[3]}, "ordered")
    \/ Check("ordered", ptr[1] < ptr[2] /\ ptr[2] < ptr[3], "f2")
    \/ Free("f2", 2, "a4")
    \/ Alloc("a4", 4, 64, "reused")
    \/ Check("reused", ptr[4] = ptr[2], "f1")
    \/ Free("f1", 1, "f3")
    \/ Free("f3", 3, "f4")
    \/ Free("f4", 4, "a5")
    \/ Alloc("a5", 5, 128, "merged")
    \/ Check("merged", ptr[5] = ptr[1], "f5")
    \/ Free("f5", 5, "shell")

Next ==
    \/ fs_init \/ vmm_init \/ vmm_enable
    \/ test_allocation \/ test_allocation_free
    \/ test_free \/ test_free_free1 \/ test_free_alloc2 \/ test_free_check
    \/ test_multiple_alloc \/ test_multiple_unwind
    \/ test_multiple_check \/ test_multiple_free
    \/ pagetest_alloc
    \/ pagetest_map("pt_map", frame, "pt_unmap")
    \/ pagetest_map("pt_unmap", 0, "pt_free")
    \/ pagetest_free
    \/ heaptest

Spec == Init /\ [][Next]_vars

-----------------------------------------------------------------------------
(* run_tests never reaches a panic!: every memtest check reads back what   *)
(* it stored through the freshly enabled identity map and gets its frames *)
(* back in order, pagetest gets a frame, and heaptest's allocations come  *)
(* back ordered, reused and merged ("Free block merging works correctly"). *)
(* shell::init is reached.                                                  *)
TestsPass == pc # "panic"
=============================================================================
