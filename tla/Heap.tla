-------------------------------- MODULE Heap --------------------------------
(***************************************************************************)
(* The kernel heap of heap.rs: in-band Block headers {size, next, free}    *)
(* chained from FREE_LIST, first-fit kmalloc with split, kfree with        *)
(* forward coalesce.  `blocks` is the heap memory as far as headers go: the*)
(* address of every header on the list, mapped to its three fields.  A     *)
(* header absorbed by a coalesce becomes payload and leaves `blocks`.      *)
(*                                                                         *)
(* usize arithmetic is taken at WordBits bits.  Where an addition can      *)
(* overflow, the build decides: with overflow checks (a debug build) the   *)
(* kernel panics, which halts it; without (a release build) the sum wraps. *)
(*                                                                         *)
(* The callers are the environment: `live` holds the allocations they own, *)
(* each with the size they asked for, and they free only what they own.   *)
(* Nothing runs concurrently with the heap: no interrupt handler allocates.*)
(***************************************************************************)
EXTENDS Integers, Sequences, FiniteSets, TLC, SequencesExt, Bitwise

CONSTANTS
    WordBits,          \* width of usize (32 on i686)
    HEAP_START,        \* KERNEL_HEAP_START
    HEAP_SIZE,         \* KERNEL_HEAP_SIZE
    BLOCK,             \* core::mem::size_of::<Block>() (12 on i686)
    OverflowChecks,    \* TRUE: the build panics on usize overflow
    Requests           \* the sizes callers pass to kmalloc

ASSUME /\ WordBits \in 8 .. 30
       /\ HEAP_START > 0 /\ HEAP_START + HEAP_SIZE < 2^WordBits
       /\ BLOCK \in Nat \ {0} /\ HEAP_SIZE > BLOCK
       /\ OverflowChecks \in BOOLEAN
       /\ Requests \subseteq 0 .. 2^WordBits - 1

NULL     == 0
Word     == 2^WordBits
HEAP_END == HEAP_START + HEAP_SIZE

VARIABLES
    FREE_LIST,   \* head of the block list
    blocks,      \* header address -> [size, next, free]
    ret,         \* what the last kmalloc returned
    halted,      \* the kernel panicked (overflow check) and stopped
    live         \* allocations the callers own: [ptr, req]

heapVars == <<FREE_LIST, blocks, ret, halted>>
vars     == <<FREE_LIST, blocks, ret, halted, live>>

Header(size, next, free) == [size |-> size, next |-> next, free |-> free]

-----------------------------------------------------------------------------
(* The heap operations are written over a block map `bl`, so that a caller *)
(* making several heap calls in one step (fs_touch) can chain them.        *)

(* The block list, walked from FREE_LIST along `next`.  The walk stops at  *)
(* NULL, at an address holding no header, or after as many steps as there *)
(* are headers, so a corrupted list still yields a finite sequence.        *)
RECURSIVE ListFrom(_, _, _)
ListFrom(bl, a, n) ==
    IF a = NULL \/ a \notin DOMAIN bl \/ n = 0 THEN <<>>
    ELSE <<a>> \o ListFrom(bl, bl[a].next, n - 1)

ListOf(bl) == ListFrom(bl, FREE_LIST, Cardinality(DOMAIN bl))
List == ListOf(blocks)

\* (size + 15) & !15, at usize width.
align16(size) == ((size + 15) % Word) & (Word - 16)

\* Whether size + 15 overflows usize.
AlignOverflows(size) == size + 15 >= Word

\* A variant of the first-fit loop that forgets to test the free flag.
FirstFit_IgnoresFree(bl, size) ==
    SelectInSeq(ListOf(bl), LAMBDA a : bl[a].size >= size)

\* The first-fit loop: index in the list of the first free block with room.
FirstFit(bl, size) ==
    SelectInSeq(ListOf(bl), LAMBDA a : bl[a].free /\ bl[a].size >= size)

\* The split test, size + size_of::<Block>() + 16 at usize width.
SplitNeed(size) == (size + BLOCK + 16) % Word
SplitOverflows(size) == size + BLOCK + 16 >= Word

\* A variant of the split that computes the remainder in the wrong order.
Split_SwappedRemainder(bl, cur, size) ==
    LET new == cur + BLOCK + size IN
    (new :> Header(size - bl[cur].size - BLOCK, bl[cur].next, TRUE))
      @@ [bl EXCEPT ![cur] = Header(size, new, FALSE)]

\* A variant of the split that places the new header right after the
\* current header, forgetting the payload.
Split_NoPayload(bl, cur, size) ==
    LET new == cur + BLOCK IN
    (new :> Header(bl[cur].size - size - BLOCK, bl[cur].next, TRUE))
      @@ [bl EXCEPT ![cur] = Header(size, new, FALSE)]

(* Split: a new free header at cur + BLOCK + size takes the remainder and *)
(* cur's old next; cur shrinks to size, links to it, and is marked used.  *)
Split(bl, cur, size) ==
    LET new == cur + BLOCK + size IN
    (new :> Header(bl[cur].size - size - BLOCK, bl[cur].next, TRUE))
      @@ [bl EXCEPT ![cur] = Header(size, new, FALSE)]

\* A variant that marks the block used only when it splits it.
Take_UnsplitStaysFree(bl, cur, size) ==
    IF bl[cur].size >= SplitNeed(size) THEN Split(bl, cur, size) ELSE bl

(* The tail of kmalloc once `current` is found: split if the block holds  *)
(* size plus a header plus 16 bytes, then mark it used.                   *)
Take(bl, cur, size) ==
    IF bl[cur].size >= SplitNeed(size)
    THEN Split(bl, cur, size)
    ELSE [bl EXCEPT ![cur].free = FALSE]

(* The coalesce of kfree: b grows by nx's payload and header and takes    *)
(* nx's next; nx's header becomes payload and leaves the map.             *)
Coalesce(bl, b, nx) ==
    [a \in DOMAIN bl \ {nx} |->
        IF a = b
        THEN Header(bl[b].size + bl[nx].size + BLOCK, bl[nx].next, TRUE)
        ELSE bl[a]]

(* kmalloc(n) on block map bl: the early returns, the rounding, the       *)
(* first-fit walk, the split and the mark-used.  The outcome is the new   *)
(* block map, the returned pointer, and whether an overflow check fired.  *)
Outcome(bl, r, h) == [blocks |-> bl, ret |-> r, halted |-> h]

Malloc(bl, n) ==
    IF n = 0 \/ FREE_LIST = NULL THEN Outcome(bl, NULL, FALSE)
    ELSE IF AlignOverflows(n) /\ OverflowChecks THEN Outcome(bl, NULL, TRUE)
    ELSE LET size == align16(n)
             i    == FirstFit(bl, size)
         IN IF i = 0 THEN Outcome(bl, NULL, FALSE)
            ELSE IF SplitOverflows(size) /\ OverflowChecks THEN Outcome(bl, NULL, TRUE)
            ELSE LET cur == ListOf(bl)[i]
                 IN Outcome(Take(bl, cur, size), cur + BLOCK, FALSE)

(* kfree(ptr) on block map bl: NULL is ignored; the header before ptr is  *)
(* marked free and, if its next block is free too, absorbs it.            *)
Free(bl, ptr) ==
    IF ptr = NULL THEN bl
    ELSE LET b  == ptr - BLOCK
             nx == bl[b].next
         IN IF nx # NULL /\ bl[nx].free
            THEN Coalesce(bl, b, nx)
            ELSE [bl EXCEPT ![b].free = TRUE]

-----------------------------------------------------------------------------
(* init_heap: one free block covering the arena.                           *)
Init ==
    /\ FREE_LIST = HEAP_START
    /\ blocks = HEAP_START :> Header(HEAP_SIZE - BLOCK, NULL, TRUE)
    /\ ret = NULL
    /\ halted = FALSE
    /\ live = {}

\* kmalloc(n) as one step of the kernel (which stops once it panicked).
kmalloc(n) ==
    LET r == Malloc(blocks, n) IN
    /\ ~halted
    /\ blocks' = r.blocks /\ ret' = r.ret /\ halted' = r.halted
    /\ UNCHANGED FREE_LIST

\* kfree(ptr) as one step of the kernel.
kfree(ptr) ==
    /\ ~halted
    /\ blocks' = Free(blocks, ptr)
    /\ UNCHANGED <<FREE_LIST, ret, halted>>

-----------------------------------------------------------------------------
(* The callers: allocate any requested size and keep what they get, free  *)
(* one allocation they own, or pass NULL to kfree.                         *)
Allocate(n) ==
    /\ kmalloc(n)
    /\ live' = IF ret' = NULL THEN live ELSE live \cup {[ptr |-> ret', req |-> n]}

Release(a) ==
    /\ kfree(a.ptr)
    /\ live' = live \ {a}

Next ==
    \/ \E n \in Requests : Allocate(n)
    \/ \E a \in live : Release(a)
    \/ kfree(NULL) /\ UNCHANGED live

Spec == Init /\ [][Next]_vars

-----------------------------------------------------------------------------
(* Properties.                                                             *)

TypeOK ==
    /\ FREE_LIST \in HEAP_START .. HEAP_END
    /\ \A a \in DOMAIN blocks :
         /\ a \in HEAP_START .. HEAP_END
         /\ blocks[a].size \in 0 .. Word - 1
         /\ blocks[a].next \in HEAP_START .. HEAP_END \cup {NULL}
         /\ blocks[a].free \in BOOLEAN
    /\ ret \in 0 .. Word - 1
    /\ halted \in BOOLEAN
    /\ \A a \in live : a.ptr \in HEAP_START .. HEAP_END /\ a.req \in Requests

BlockEnd(a) == a + BLOCK + blocks[a].size

(* The headers tile the arena: the list starts at HEAP_START, every block  *)
(* is followed by its `next` exactly where its payload ends, the last      *)
(* block ends at the arena's end with next = NULL, and every header in     *)
(* memory is on the list.  Split and coalesce must both keep this: a split *)
(* at the wrong offset, or a merge that miscounts the absorbed header,     *)
(* shows up here several operations before any caller is hurt.            *)
HeapTiles ==
    LET L == List IN
    /\ Len(L) > 0
    /\ L[1] = HEAP_START
    /\ ToSet(L) = DOMAIN blocks
    /\ \A i \in 1 .. Len(L) - 1 : L[i + 1] = BlockEnd(L[i])
    /\ blocks[L[Len(L)]].next = NULL
    /\ BlockEnd(L[Len(L)]) = HEAP_END

(* Heap non-overlap (spec section 8): the ranges [p, p + n) the callers    *)
(* own are pairwise disjoint and lie inside the arena, whatever sequence   *)
(* of kmalloc and kfree produced them.                                     *)
AllocationsDisjoint ==
    \A a, b \in live :
        /\ HEAP_START <= a.ptr /\ a.ptr + a.req <= HEAP_END
        /\ a # b => (a.ptr + a.req <= b.ptr \/ b.ptr + b.req <= a.ptr)

(* The heap implements HeapSpec: the in-use blocks on the list, as payload *)
(* ranges, evolve as the abstract set of in-use ranges, and kmalloc's      *)
(* return value is the start of the one range it adds, or NULL.            *)
InUse == { [start |-> a + BLOCK, len |-> blocks[a].size] :
             a \in { x \in DOMAIN blocks : ~blocks[x].free } }

Abstract == INSTANCE HeapSpec WITH Lo <- HEAP_START, Hi <- HEAP_END,
                                   inuse <- InUse, result <- ret
HeapRefinement == Abstract!Spec
=============================================================================
