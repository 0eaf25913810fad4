------------------------------ MODULE PicSpec ------------------------------
(***************************************************************************)
(* What the interrupt-controller setup promises (spec sections 4.4, 4.5    *)
(* and the boot order of section 2), with each routine one atomic step:    *)
(*   - pic_remap moves master IRQs to vectors 0x20.. and slave IRQs to     *)
(*     0x28.., leaves the pair in 8086 cascade mode, and preserves the     *)
(*     masks the firmware left;                                             *)
(*   - init_timer puts PIT channel 0 in mode 3 with divisor 1193180 / freq, *)
(*     registers vector 32 and unmasks IRQ 0;                               *)
(*   - keyboard_install registers vector 33 and unmasks IRQ 1.              *)
(***************************************************************************)
EXTENDS Integers

CONSTANTS
    FirmwareMasked,  \* the sets of masked IRQ lines (0..15) firmware may leave
    FirmwarePit,     \* the channel-0 state the firmware left
    Divisor          \* 1193180 / 1000

VARIABLES
    step,       \* "firmware", "remapped", "timer", "keyboard"
    operational,\* both controllers initialised, 8086 mode, slave on IRQ 2
    base,       \* vector of master IRQ 0
    slaveBase,  \* vector of slave IRQ 8
    masked,     \* masked IRQ lines
    pit,        \* [mode, reload, counting] of channel 0
    handlers    \* vectors with a registered handler

absVars == <<step, operational, base, slaveBase, masked, pit, handlers>>

Init ==
    /\ step = "firmware"
    /\ operational = TRUE
    /\ base = 8 /\ slaveBase = 112
    /\ masked \in FirmwareMasked
    /\ pit = FirmwarePit
    /\ handlers = {}

Remap ==
    /\ step = "firmware" /\ step' = "remapped"
    /\ base' = 32 /\ slaveBase' = 40
    /\ UNCHANGED <<operational, masked, pit, handlers>>

ArmTimer ==
    /\ step = "remapped" /\ step' = "timer"
    /\ pit' = [mode |-> 3, reload |-> Divisor, counting |-> TRUE]
    /\ handlers' = handlers \cup {32}
    /\ masked' = masked \ {0}
    /\ UNCHANGED <<operational, base, slaveBase>>

InstallKeyboard ==
    /\ step = "timer" /\ step' = "keyboard"
    /\ handlers' = handlers \cup {33}
    /\ masked' = masked \ {1}
    /\ UNCHANGED <<operational, base, slaveBase, pit>>

Next == Remap \/ ArmTimer \/ InstallKeyboard

Spec == Init /\ [][Next]_absVars
=============================================================================
