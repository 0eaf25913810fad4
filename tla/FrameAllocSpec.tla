--------------------------- MODULE FrameAllocSpec ---------------------------
(***************************************************************************)
(* What the physical frame allocator promises, with no bitmap: a set of    *)
(* allocated frames; an allocation hands out the LOWEST free frame, or     *)
(* fails exactly when every frame is allocated; a free returns one         *)
(* allocated frame to the pool.  FrameAlloc refines this module.           *)
(***************************************************************************)
EXTENDS Integers, FiniteSetsExt

CONSTANTS NumFrames, None

VARIABLES allocated,  \* frames in use
          result      \* the frame the last allocation returned, or None

AllFrames == 0 .. NumFrames - 1

Init == allocated = {} /\ result = None

\* Success: the lowest free frame joins the allocated set.
AllocateLowest ==
    /\ allocated # AllFrames
    /\ allocated' = allocated \cup {Min(AllFrames \ allocated)}
    /\ result' = Min(AllFrames \ allocated)

\* Exhaustion: nothing changes (the caller sees None).
AllocateFails ==
    /\ allocated = AllFrames
    /\ result' = None
    /\ UNCHANGED allocated

Free ==
    /\ \E f \in allocated : allocated' = allocated \ {f}
    /\ UNCHANGED result

Next == AllocateLowest \/ AllocateFails \/ Free

Spec == Init /\ [][Next]_<<allocated, result>>
=============================================================================
