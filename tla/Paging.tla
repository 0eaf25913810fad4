------------------------------- MODULE Paging -------------------------------
(***************************************************************************)
(* paging.rs: the static page directory and page tables, vmm_init,        *)
(* vmm_enable and vmm_map, with the MMU and its TLB as the environment.    *)
(*                                                                         *)
(* Addresses are scaled: an address has IndexBits of directory index,      *)
(* IndexBits of table index and PageBits of offset (10, 10, 12 in the      *)
(* code), and a table of 2^IndexBits 4-byte entries fills one page, as in  *)
(* the code.  The directory and the TABLES page tables are statics of the  *)
(* kernel image, at the physical addresses the linker gives them.  `pmem`  *)
(* is the memory vmm_map and the MMU touch: the pages of those statics and *)
(* page 0, keyed by the byte address of each 4-byte word.  A write         *)
(* anywhere else extends its domain.                                       *)
(***************************************************************************)
EXTENDS Integers, TLC

CONSTANTS
    IndexBits, PageBits,
    TABLES,        \* page tables vmm_init fills (4)
    PD_ADDR,       \* physical address of PAGE_DIRECTORY
    PT_ADDR,       \* table index -> physical address of PAGE_TABLES[t]
    MapArgs,       \* [va, pa, rw] of the vmm_map calls callers make
    AccessPages    \* pages the kernel touches after vmm_enable

ENTRIES   == 2^IndexBits
PAGE_SIZE == 2^PageBits
Word      == 2^(2 * IndexBits + PageBits)
VPages    == { i * PAGE_SIZE : i \in 0 .. Word \div PAGE_SIZE - 1 }
TableSpan == ENTRIES * PAGE_SIZE         \* 0x400000, the span of one table
NotMapped == [frame |-> -1, rw |-> FALSE]
NoEntry   == [frame |-> -2, rw |-> FALSE]
NoCall    == [va |-> -1, pa |-> -1, rw |-> FALSE]

ASSUME /\ 4 * ENTRIES = PAGE_SIZE
       /\ TABLES \in 1 .. ENTRIES
       /\ PT_ADDR \in [0 .. TABLES - 1 -> VPages]

\* The words of page `base`.
PageWords(base) == { base + 4 * i : i \in 0 .. ENTRIES - 1 }
Words == UNION { PageWords(b) : b \in {0, PD_ADDR} \cup { PT_ADDR[t] : t \in 0 .. TABLES - 1 } }

VARIABLES
    pc,      \* "vmm_init", "vmm_enable", then "running"
    pmem,    \* word address -> u32
    CR3,
    PG,      \* CR0.PG
    tlb,     \* page -> cached translation, or NoEntry
    call     \* the last vmm_map request (history)

vars == <<pc, pmem, CR3, PG, tlb, call>>

PdIndex(va) == va \div (ENTRIES * PAGE_SIZE)                 \* va >> 22
PtIndex(va) == (va \div PAGE_SIZE) % ENTRIES           \* (va >> 12) & 0x3FF

\* The base of the page holding va: va & 0xFFFFF000.  The masks and the
\* flag bits of the code are written as the arithmetic they amount to.
PageOf(va) == va - (va % PAGE_SIZE)

\* Bit b of x.
Bit(x, b) == (x \div 2^b) % 2

\* A store of a word: memory at that address takes the value.
Store(m, a, val) == (a :> val) @@ m

(* The MMU's two-level walk from CR3: a directory entry and a table entry, *)
(* both present; the page is writable if both entries are.                *)
Walk(va) ==
    LET pde == pmem[CR3 + 4 * PdIndex(va)]
        pte == pmem[PageOf(pde) + 4 * PtIndex(va)]
    IN IF Bit(pde, 0) = 0 \/ Bit(pte, 0) = 0 THEN NotMapped
       ELSE [frame |-> PageOf(pte), rw |-> Bit(pde, 1) = 1 /\ Bit(pte, 1) = 1]

\* The physical address of a kernel pointer: itself before paging is on,
\* its translation after.
Phys(va) == IF PG THEN Walk(PageOf(va)).frame + (va % PAGE_SIZE) ELSE va

-----------------------------------------------------------------------------
(* The statics start zeroed; page 0 holds whatever the firmware left, here *)
(* 0.  Paging is off.                                                      *)
Init ==
    /\ pc = "vmm_init"
    /\ pmem = [w \in Words |-> 0]
    /\ CR3 = 0
    /\ PG = FALSE
    /\ tlb = [p \in AccessPages |-> NoEntry]
    /\ call = NoCall

(* vmm_init: PAGE_TABLES[t][i] = (t * 0x400000 + i * 4096) & mask | 3 and  *)
(* PAGE_DIRECTORY[t] = &PAGE_TABLES[t] | 3, for t < 4.  Paging is off, so  *)
(* the stores are physical.                                                 *)
vmm_init ==
    /\ pc = "vmm_init"
    /\ pmem' = [w \in Words |->
                  IF \E t \in 0 .. TABLES - 1 : w \in PageWords(PT_ADDR[t])
                  THEN LET t == CHOOSE t \in 0 .. TABLES - 1 : w \in PageWords(PT_ADDR[t])
                           i == (w - PT_ADDR[t]) \div 4
                       IN PageOf(t * TableSpan + i * PAGE_SIZE) + 3
                  ELSE IF w - PD_ADDR \in { 4 * t : t \in 0 .. TABLES - 1 }
                  THEN PT_ADDR[(w - PD_ADDR) \div 4] + 3
                  ELSE pmem[w]]
    /\ pc' = "vmm_enable"
    /\ UNCHANGED <<CR3, PG, tlb, call>>

(* vmm_enable: CR3 = &PAGE_DIRECTORY, then CR0.PG set.                      *)
vmm_enable ==
    /\ pc = "vmm_enable"
    /\ CR3' = PD_ADDR
    /\ PG' = TRUE
    /\ pc' = "running"
    /\ UNCHANGED <<pmem, tlb, call>>

\* A vmm_map that never issues invlpg.
vmm_map_NoInvlpg(va, pa, rw) ==
    LET pt_ptr == PageOf(pmem[PD_ADDR + 4 * PdIndex(va)])
        flags  == IF rw THEN 3 ELSE 1
    IN /\ pc = "running"
       /\ pmem' = Store(pmem, Phys(pt_ptr + 4 * PtIndex(va)), PageOf(pa) + flags)
       /\ call' = [va |-> va, pa |-> pa, rw |-> rw]
       /\ UNCHANGED <<pc, CR3, PG, tlb>>

\* A vmm_map whose table index keeps the directory bits (no & 0x3FF).
vmm_map_NoIndexMask(va, pa, rw) ==
    LET pt_ptr == PageOf(pmem[PD_ADDR + 4 * PdIndex(va)])
        flags  == IF rw THEN 3 ELSE 1
        page   == PageOf(va)
    IN /\ pc = "running"
       /\ pmem' = Store(pmem, Phys(pt_ptr + 4 * (va \div PAGE_SIZE)), PageOf(pa) + flags)
       /\ tlb' = IF page \in AccessPages THEN [tlb EXCEPT ![page] = NoEntry] ELSE tlb
       /\ call' = [va |-> va, pa |-> pa, rw |-> rw]
       /\ UNCHANGED <<pc, CR3, PG>>

\* A vmm_map that stores physical_addr | flags without masking the address.
vmm_map_NoAddrMask(va, pa, rw) ==
    LET pt_ptr == PageOf(pmem[PD_ADDR + 4 * PdIndex(va)])
        flags  == IF rw THEN 3 ELSE 1
        page   == PageOf(va)
    IN /\ pc = "running"
       /\ pmem' = Store(pmem, Phys(pt_ptr + 4 * PtIndex(va)), pa + flags - 2 * (Bit(pa, 1) * (flags \div 2)) - Bit(pa, 0))
       /\ tlb' = IF page \in AccessPages THEN [tlb EXCEPT ![page] = NoEntry] ELSE tlb
       /\ call' = [va |-> va, pa |-> pa, rw |-> rw]
       /\ UNCHANGED <<pc, CR3, PG>>

(* vmm_map: the table address is read from PAGE_DIRECTORY[va >> 22]       *)
(* without a present check (an unpopulated slot gives table address 0);   *)
(* the entry is written through that address, which the MMU translates    *)
(* since paging is on; then invlpg drops the TLB entry of va's page.       *)
vmm_map(va, pa, rw) ==
    LET pt_ptr == PageOf(pmem[PD_ADDR + 4 * PdIndex(va)])
        flags  == IF rw THEN 3 ELSE 1
        page   == PageOf(va)
    IN /\ pc = "running"
       /\ pmem' = Store(pmem, Phys(pt_ptr + 4 * PtIndex(va)), PageOf(pa) + flags)
       /\ tlb' = IF page \in AccessPages THEN [tlb EXCEPT ![page] = NoEntry] ELSE tlb
       /\ call' = [va |-> va, pa |-> pa, rw |-> rw]
       /\ UNCHANGED <<pc, CR3, PG>>

-----------------------------------------------------------------------------
(* The MMU: an access to a mapped page with no TLB entry caches its walk; *)
(* the TLB may drop an entry at any time.                                  *)
Access(p) ==
    /\ PG
    /\ tlb[p] = NoEntry
    /\ Walk(p) # NotMapped
    /\ tlb' = [tlb EXCEPT ![p] = Walk(p)]
    /\ UNCHANGED <<pc, pmem, CR3, PG, call>>

Evict(p) ==
    /\ tlb[p] # NoEntry
    /\ tlb' = [tlb EXCEPT ![p] = NoEntry]
    /\ UNCHANGED <<pc, pmem, CR3, PG, call>>

Next ==
    \/ vmm_init
    \/ vmm_enable
    \/ \E a \in MapArgs : vmm_map(a.va, a.pa, a.rw)
    \/ \E p \in AccessPages : Access(p) \/ Evict(p)

Spec == Init /\ [][Next]_vars

-----------------------------------------------------------------------------
(* Properties.                                                             *)

Entry == [frame : VPages, rw : BOOLEAN]

(* vmm_map stores only into the page tables and page 0 (where a store      *)
(* through an unpopulated directory slot lands), and every word is a u32.  *)
TypeOK ==
    /\ pc \in {"vmm_init", "vmm_enable", "running"}
    /\ DOMAIN pmem = Words
    /\ \A w \in Words : pmem[w] \in 0 .. Word - 1
    /\ CR3 \in {0, PD_ADDR}
    /\ PG \in BOOLEAN
    /\ tlb \in [AccessPages -> Entry \cup {NoEntry}]
    /\ call \in MapArgs \cup {NoCall}

(* The TLB never holds a translation the tables no longer give: vmm_map's *)
(* invlpg drops the entry of the page it remaps before the kernel can use *)
(* the old frame, whatever order the accesses and remaps come in.          *)
TlbCoherent ==
    \A p \in AccessPages : tlb[p] # NoEntry => tlb[p] = Walk(p)

(* The tables implement PageMapSpec (spec section 4.8): after vmm_enable   *)
(* the first TABLES * 4 MiB are mapped to themselves, writable; each       *)
(* vmm_map(va, pa, rw) into a populated slot makes va's page translate to  *)
(* pa's frame with the requested writability and changes no other page.    *)
Abstract == INSTANCE PageMapSpec
                WITH Identity <- { p \in VPages : p < TABLES * TableSpan },
                     Mappable <- { p \in VPages : PdIndex(p) < TABLES },
                     PageSize <- PAGE_SIZE,
                     Addrs    <- { a.va : a \in MapArgs } \cup { a.pa : a \in MapArgs },
                     map      <- [p \in VPages |-> IF PG THEN Walk(p) ELSE NotMapped]
PagingRefinement == Abstract!Spec
=============================================================================
