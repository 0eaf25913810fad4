------------------------------- MODULE MCRamFS -------------------------------
(***************************************************************************)
(* RamFS at model scale.  usize is 8 bits; the arena starts at 64 so that  *)
(* writes through a NULL data pointer (addresses 0 ..) stay below it, as   *)
(* NULL + 1 KiB stays below the 8 MiB arena in the kernel.  An FSNode is 4 *)
(* bytes (one 16-byte unit, like 116 -> 128) and a data buffer 32 bytes   *)
(* (larger than a node, like 1024 against 116).                            *)
(*                                                                         *)
(* With a 128-byte arena: the root, one whole file, then a second file     *)
(* whose node fits but whose data buffer does not (fs_touch's partial      *)
(* failure), then a touch whose node fails.  With MAX_CHILDREN = 1 the     *)
(* second file is refused by fs_add_child.  Two descriptors, so the table  *)
(* fills.                                                                  *)
(***************************************************************************)
EXTENDS RamFS

MCWordBits   == 8
MCHeapStart  == 64
MCHeapSize   == 128
MCBlock      == 12
MCNodeSize   == 4
MCDataSize   == 32
MCVals       == {1, 2}
MCWriteSizes == {16}
MCReadSizes  == {16}

\* An arena with room for the root, one file, and two nodes whose data
\* buffers both fail.
MCOomHeapSize == 160

\* Callers that keep writing 16 bytes past the 32-byte buffer.
MCOverrunLimit == 48
=============================================================================
