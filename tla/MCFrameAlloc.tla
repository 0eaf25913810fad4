---------------------------- MODULE MCFrameAlloc ----------------------------
(***************************************************************************)
(* FrameAlloc at model scale: 2 words of 4 bits (8 frames) instead of 128 *)
(* words of 32 bits.  Two words make the skip-a-full-word path and the     *)
(* word boundary reachable; 4 bits per word give holes below a freed frame.*)
(***************************************************************************)
EXTENDS FrameAlloc

MCWordBits   == 4
MCBitmapSize == 2
MCPageSize   == 4096
=============================================================================
