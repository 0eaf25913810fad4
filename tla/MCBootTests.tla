----------------------------- MODULE MCBootTests -----------------------------
(* The page tables at pages 13 and 14, after the directory at page 12.    *)
EXTENDS BootTests

MCPtAddr == [t \in 0 .. 1 |-> 416 + 32 * t]
==============================================================================
