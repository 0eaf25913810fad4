------------------------------ MODULE HeapSpec ------------------------------
(***************************************************************************)
(* What the kernel heap promises its callers, with no headers or lists: a  *)
(* set of in-use payload ranges inside the arena [Lo, Hi).  An allocation  *)
(* either fails (returns NULL) or adds one range, starting at the address  *)
(* it returns, that lies in the arena and overlaps no range in use.  A     *)
(* free removes exactly one range.  Heap refines this module.              *)
(***************************************************************************)
EXTENDS Integers

CONSTANTS Lo, Hi, NULL

VARIABLES inuse,   \* set of [start, len] payload ranges
          result   \* what the last allocation returned

Range(b) == b.start .. b.start + b.len - 1

InArena(b) == Lo <= b.start /\ b.start + b.len <= Hi

Init == inuse = {} /\ result = NULL

MallocFails ==
    /\ result' = NULL
    /\ UNCHANGED inuse

\* Written against the next state: the one new range starts at result'.
MallocSucceeds ==
    /\ result' # NULL
    /\ \E b \in inuse' :
         /\ b \notin inuse
         /\ inuse' = inuse \cup {b}
         /\ b.start = result'
         /\ b.len > 0
         /\ InArena(b)
         /\ \A c \in inuse : Range(b) \cap Range(c) = {}

Free ==
    /\ \E b \in inuse : inuse' = inuse \ {b}
    /\ UNCHANGED result

Next == MallocFails \/ MallocSucceeds \/ Free

Spec == Init /\ [][Next]_<<inuse, result>>
=============================================================================
