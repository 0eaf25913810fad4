---------------------------- MODULE MCInterrupts ----------------------------
(* The masks the firmware may leave in the two 8259As: what SeaBIOS leaves *)
(* (master 0xB8: IRQ 0, 1, 2, 6 open; slave 0x8E), every line masked, and  *)
(* every line open.                                                        *)
EXTENDS Interrupts

MCFwMasks == { [m |-> 184, s |-> 142], [m |-> 255, s |-> 255], [m |-> 0, s |-> 0] }
=============================================================================
