------------------------------- MODULE MCHeap -------------------------------
(***************************************************************************)
(* Heap at model scale: usize of 8 bits, a 128-byte arena at 16 (not 8 MiB *)
(* at 8 MiB), the real 12-byte header and 16-byte rounding.  The requests  *)
(* cover kmalloc(0), sizes that round to one, two and three 16-byte units, *)
(* so splits, exact fits, unsplittable remainders, exhaustion and both     *)
(* coalesce cases all occur.                                               *)
(***************************************************************************)
EXTENDS Heap

MCWordBits   == 8
MCHeapStart  == 16
MCHeapSize   == 128
MCBlock      == 12
MCRequests   == {0, 8, 20, 40}

\* A request within 15 of usize::MAX (250 = 2^8 - 6), beside an ordinary one.
MCHugeRequests == {8, 250}
=============================================================================
