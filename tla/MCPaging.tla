------------------------------ MODULE MCPaging ------------------------------
(* Paging with 2-bit indices and 16-byte pages: 8-bit addresses, four     *)
(* directory slots of which vmm_init fills TABLES = 2 (4 of 1024 in the    *)
(* code), so slots 2 and 3 stay unpopulated.  The directory and the tables *)
(* sit in the low pages of the identity range, as the kernel image does.  *)
EXTENDS Paging

MCPdAddr == 16
MCPtAddrFn == [t \in 0 .. 1 |-> IF t = 0 THEN 32 ELSE 48]

\* pagetest's vaddr 0x400000 is page 64 (slot 1, entry 0); 96 is another
\* page of slot 1; 128 is in the unpopulated slot 2.  98 is a frame
\* address with low bits set; 0 is pagetest's unmap.
MCMapArgs == { [va |-> va, pa |-> pa, rw |-> rw] :
                 va \in {64, 96, 128}, pa \in {0, 64, 98}, rw \in BOOLEAN }
MCAccessPages == {0, 64, 96}
====
