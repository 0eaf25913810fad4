---------------------------- MODULE PageMapSpec ----------------------------
(***************************************************************************)
(* What the paging layer promises (spec section 4.8), as a map from        *)
(* virtual page to [frame, rw]: nothing is mapped until paging is enabled; *)
(* enabling it maps every page of the identity range to itself, writable;  *)
(* mapping a page whose directory slot exists sets its frame and           *)
(* writability; a call for any other page changes no mapping.  Frames    *)
(* are page base addresses; `call` is the last vmm_map request.           *)
(***************************************************************************)
EXTENDS Naturals

CONSTANTS
    VPages,      \* virtual page base addresses
    Identity,    \* the pages vmm_init maps to themselves
    Mappable,    \* pages whose directory entry vmm_init creates
    PageSize,
    Addrs,       \* the addresses callers pass
    NotMapped,
    NoCall

VARIABLES map, call

Init == map = [p \in VPages |-> NotMapped] /\ call = NoCall

Enable ==
    /\ map' = [p \in VPages |-> IF p \in Identity THEN [frame |-> p, rw |-> TRUE] ELSE NotMapped]
    /\ UNCHANGED call

Map(va, pa, rw) ==
    LET p == va - (va % PageSize) IN
    /\ call' = [va |-> va, pa |-> pa, rw |-> rw]
    /\ map' = IF p \in Mappable
              THEN [map EXCEPT ![p] = [frame |-> pa - (pa % PageSize), rw |-> rw]]
              ELSE map

Next == Enable \/ \E va, pa \in Addrs, rw \in BOOLEAN : Map(va, pa, rw)

Spec == Init /\ [][Next]_<<map, call>>
=============================================================================
