----------------------------- MODULE Interrupts -----------------------------
(***************************************************************************)
(* The interrupt path of the kernel as rust_main sets it up: the GDT       *)
(* (gdt.rs), the IDT (idt.rs), the handler registry and common dispatcher  *)
(* (isr.rs), the two 8259A PICs programmed through I/O ports (pic.rs,      *)
(* port_io.rs), the PIT (timer.rs) and the keyboard handler                *)
(* (keyboard.rs), with the CPU and the devices as the environment.         *)
(*                                                                         *)
(* pic_remap, init_timer and keyboard_install are sequences of port reads  *)
(* and writes (`prog`), one per step, and the 8259As and the PIT react to  *)
(* each write as the hardware does: an ICW1 restarts a controller's        *)
(* initialisation, clears its mask and makes it take ICW2..ICW4 from the   *)
(* data port; after that a data-port write is the mask (OCW1).             *)
(*                                                                         *)
(* The CPU takes a pending, unmasked IRQ only when EFLAGS.IF is set.  It   *)
(* then reads the gate of vector base + irq; a gate that is not present,   *)
(* has no code selector or is not an interrupt/trap gate raises #GP, and   *)
(* with the #GP and #DF gates unusable as well the fault escalates to a    *)
(* triple fault, which resets the machine.  Only the vectors the kernel    *)
(* registers and the two fault vectors are kept (init_idt's loop over all  *)
(* 256 sets every gate alike).                                             *)
(***************************************************************************)
EXTENDS Integers, Sequences, FiniteSets

CONSTANTS
    TickBits,     \* width of TICKS (32 in timer.rs)
    FwMasks       \* [m, s]: the master and slave masks the firmware left

KERNEL_CS   == 8                  \* 0x08, the ring-0 code selector load_gdt jumps to
KERNEL_DS   == 16                 \* 0x10, the data selector load_gdt loads
DoubleFault == 8
GenProt     == 13
TimerVec    == 32
KbdVec      == 33
Vectors     == {DoubleFault, GenProt, TimerVec, KbdVec}
IRQs        == {0, 1}             \* PIT, keyboard
GateTypes   == {14, 15}           \* 32-bit interrupt gate, trap gate
PIT_HZ      == 1193180
TIMER_FREQ  == 1000               \* rust_main: init_timer(1000)
Regs        == {"a1", "a2", "value", "check"}

VARIABLES
    pc,        \* the next statement of rust_main (from init_gdt)
    GDT,       \* descriptor index -> the six fields of GdtEntry
    IFlag,     \* EFLAGS.IF
    gates,     \* vector -> [present, offset, selector, type]
    HANDLERS,  \* vectors with a registered handler
    master,    \* the 8259A at 0x20/0x21
    slave,     \* the 8259A at 0xA0/0xA1
    pitDev,    \* PIT channel 0
    regs,      \* the locals a1, a2, value, check of pic_remap / pic_unmask_irq
    prog,      \* the port operations left of the routine running
    snap,      \* history: the PicSpec state when that routine started
    IRR,       \* IRQs raised and not yet taken
    ISR,       \* IRQs in service (no EOI yet)
    TICKS,
    reset      \* the CPU triple-faulted

pics == <<master, slave, pitDev, regs, prog, snap>>
vars == <<pc, GDT, IFlag, gates, HANDLERS, pics, IRR, ISR, TICKS, reset>>

\* Bit b of x.
Bit(x, b) == (x \div 2^b) % 2

\* A set_entry that stores access and gran in each other's fields.
set_entry_Swapped(g, i, base_, limit, access, gran) ==
    [g EXCEPT ![i] = [limit_low   |-> limit % 2^16,
                      base_low    |-> base_ % 2^16,
                      base_mid    |-> (base_ \div 2^16) % 2^8,
                      access      |-> gran,
                      granularity |-> ((limit \div 2^16) % 2^4) + (access \div 2^4) * 2^4,
                      base_high   |-> (base_ \div 2^24) % 2^8]]

(* set_entry(i, base, limit, access, gran): the limit and base split over *)
(* their fields; granularity gets limit[19:16], then ORs in gran's high    *)
(* nibble (the G and D/B flags).                                            *)
set_entry(g, i, base_, limit, access, gran) ==
    [g EXCEPT ![i] = [limit_low   |-> limit % 2^16,
                      base_low    |-> base_ % 2^16,
                      base_mid    |-> (base_ \div 2^16) % 2^8,
                      access      |-> access,
                      granularity |-> ((limit \div 2^16) % 2^4) + (gran \div 2^4) * 2^4,
                      base_high   |-> (base_ \div 2^24) % 2^8]]

NullEntry == [limit_low |-> 0, base_low |-> 0, base_mid |-> 0,
              access |-> 0, granularity |-> 0, base_high |-> 0]

(* How the CPU reads the descriptor a ring-0 selector names: index sel >> 3 *)
(* within the GDT's limit (five entries) and not the null entry, TI clear,  *)
(* RPL 0; access bit 7 present, bit 4 code/data, bits 6:5 the DPL, which   *)
(* must be 0; a code segment has bit 3 set, a stack/data segment bit 3     *)
(* clear and bit 1 (writable) set.  Otherwise the load raises #GP.          *)
Ring0Seg(g, sel) ==
    LET a == g[sel \div 8].access IN
    /\ sel \div 8 \in 1 .. 4 /\ sel % 8 = 0
    /\ Bit(a, 7) = 1 /\ Bit(a, 4) = 1
    /\ (a \div 2^5) % 4 = 0
CodeSelector(g, sel) == Ring0Seg(g, sel) /\ Bit(g[sel \div 8].access, 3) = 1
DataSelector(g, sel) == Ring0Seg(g, sel) /\ Bit(g[sel \div 8].access, 3) = 0
                                         /\ Bit(g[sel \div 8].access, 1) = 1

\* A gate the CPU can enter: present, with a ring-0 code selector of the
\* GDT and an offset, of interrupt or trap type (type_attr bit 7, low
\* nibble).
GateUsable(v) ==
    /\ gates[v].present
    /\ CodeSelector(GDT, gates[v].selector)
    /\ gates[v].offset # 0
    /\ gates[v].type \in GateTypes

-----------------------------------------------------------------------------
(* The 8259A.  ICW1 (a command with bit 4 set) clears the mask, resets    *)
(* the ICW4 functions and says whether ICW4 follows (bit 0) and whether   *)
(* the controller is single (bit 1, else ICW3 follows).  Data-port writes *)
(* then are ICW2 (vector base, low 3 bits ignored), ICW3, ICW4 (bit 0:    *)
(* 8086 mode), and once initialised the mask.  Other commands (EOI, OCW3) *)
(* touch only in-service state, kept in ISR.  A data-port read is the mask.*)
PicWrite(d, cmd, v) ==
    IF cmd
    THEN IF Bit(v, 4) = 1
         THEN [d EXCEPT !.state = "icw2", !.imr = 0, !.mode8086 = FALSE,
                        !.icw4 = (Bit(v, 0) = 1), !.single = (Bit(v, 1) = 1)]
         ELSE d
    ELSE CASE d.state = "icw2" ->
                [d EXCEPT !.base = v - (v % 8),
                          !.state = IF ~d.single THEN "icw3"
                                    ELSE IF d.icw4 THEN "icw4" ELSE "ready"]
           [] d.state = "icw3" ->
                [d EXCEPT !.cascade = v, !.state = IF d.icw4 THEN "icw4" ELSE "ready"]
           [] d.state = "icw4" ->
                [d EXCEPT !.mode8086 = (Bit(v, 0) = 1), !.state = "ready"]
           [] d.state = "ready" -> [d EXCEPT !.imr = v]

\* As the BIOS leaves a controller: initialised, 8086 mode, cascaded.
FirmwarePic(b, casc, mask) ==
    [state |-> "ready", base |-> b, cascade |-> casc, icw4 |-> TRUE,
     single |-> FALSE, mode8086 |-> TRUE, imr |-> mask]

(* The PIT: a control word for channel 0 (bits 7:6 = 0) sets the access   *)
(* mode (bits 5:4, 3 = low byte then high byte) and the counting mode     *)
(* (bits 3:1) and stops the channel until a full count is written; with   *)
(* access mode 3 the data port takes the low byte, then the high byte,    *)
(* which loads the reload value and starts counting.                        *)
PitCommand(p, v) ==
    IF v \div 64 = 0
    THEN [p EXCEPT !.access = (v \div 16) % 4, !.mode = (v \div 2) % 8,
                   !.next = "lo", !.counting = FALSE]
    ELSE p

PitData(p, v) ==
    IF p.next = "lo"
    THEN [p EXCEPT !.lo = v, !.next = "hi"]
    ELSE [p EXCEPT !.reload = p.lo + 256 * v, !.next = "lo", !.counting = TRUE]

\* The BIOS runs channel 0 in mode 3 with count 0 (65536).
FirmwarePitDev == [mode |-> 3, access |-> 3, next |-> "lo", lo |-> 0,
                   reload |-> 0, counting |-> TRUE]

-----------------------------------------------------------------------------
(* The routines as port operations.  outb(port, v) is followed by io_wait, *)
(* a write to port 0x80 that no device here listens to.                    *)
Out(port, v)    == [op |-> "out", port |-> port, lit |-> v, reg |-> ""]
OutReg(port, r) == [op |-> "out", port |-> port, lit |-> 0, reg |-> r]
In(port, r)     == [op |-> "in", port |-> port, lit |-> 0, reg |-> r]
AndNot(r, b)    == [op |-> "andnot", port |-> 0, lit |-> b, reg |-> r]
Register(n)     == [op |-> "register", port |-> 0, lit |-> n, reg |-> ""]

\* A pic_remap that leaves out the restore of the saved masks.
pic_remap_NoRestore ==
    << In(33, "a1"), In(161, "a2"), Out(32, 17), Out(160, 17),
       Out(33, 32), Out(161, 40), Out(33, 4), Out(161, 2),
       Out(33, 1), Out(161, 1) >>

\* pic_remap: save both masks, ICW1..ICW4 to master and slave, restore.
pic_remap ==
    << In(33, "a1"), In(161, "a2"),
       Out(32, 17), Out(160, 17),     \* ICW1 0x11: init, ICW4 follows
       Out(33, 32), Out(161, 40),     \* ICW2: vectors 0x20, 0x28
       Out(33, 4), Out(161, 2),       \* ICW3: slave on IRQ 2, cascade id 2
       Out(33, 1), Out(161, 1),       \* ICW4: 8086 mode
       OutReg(33, "a1"), OutReg(161, "a2") >>

\* pic_unmask_irq(irq): read the mask, clear bit irq % 8, write it back,
\* read it again (the check has an empty body).
pic_unmask_irq(irq) ==
    LET port == IF irq < 8 THEN 33 ELSE 161 IN
    << In(port, "value"), AndNot("value", irq % 8), OutReg(port, "value"),
       In(port, "check") >>

\* An init_timer that writes the divisor's high byte first.
init_timer_ops_HighFirst(freq) ==
    LET divisor == PIT_HZ \div freq IN
    << Out(67, 54), Out(64, (divisor \div 256) % 256), Out(64, divisor % 256),
       Register(TimerVec) >> \o pic_unmask_irq(0)

\* An init_timer that writes only the divisor's low byte.
init_timer_ops_LowOnly(freq) ==
    LET divisor == PIT_HZ \div freq IN
    << Out(67, 54), Out(64, divisor % 256), Register(TimerVec) >> \o pic_unmask_irq(0)

\* init_timer(freq): control word 0x36, the divisor low then high byte,
\* register vector 32, unmask IRQ 0.
init_timer_ops(freq) ==
    LET divisor == PIT_HZ \div freq IN
    << Out(67, 54), Out(64, divisor % 256), Out(64, (divisor \div 256) % 256),
       Register(TimerVec) >> \o pic_unmask_irq(0)

\* A keyboard_install that unmasks IRQ 1 before it registers the handler.
keyboard_install_ops_UnmaskFirst == pic_unmask_irq(1) \o << Register(KbdVec) >>

keyboard_install_ops == << Register(KbdVec) >> \o pic_unmask_irq(1)

PortRead(port) == IF port = 33 THEN master.imr ELSE slave.imr

\* value &= !(1 << irq): clears the bit, whatever it was.
ClearBit_Subtract(v, b) == v - 2^b
ClearBit(v, b) == v - 2^b * Bit(v, b)

Src(o) == IF o.reg = "" THEN o.lit ELSE regs[o.reg]

(* One port operation: outb reaches the device at its port, inb stores    *)
(* the mask into a local, register_interrupt_handler fills HANDLERS[n].   *)
Exec(o) ==
    /\ master' = IF o.op = "out" /\ o.port \in {32, 33}
                 THEN PicWrite(master, o.port = 32, Src(o)) ELSE master
    /\ slave'  = IF o.op = "out" /\ o.port \in {160, 161}
                 THEN PicWrite(slave, o.port = 160, Src(o)) ELSE slave
    /\ pitDev' = CASE o.op = "out" /\ o.port = 67 -> PitCommand(pitDev, Src(o))
                   [] o.op = "out" /\ o.port = 64 -> PitData(pitDev, Src(o))
                   [] OTHER -> pitDev
    /\ regs'   = CASE o.op = "in" -> [regs EXCEPT ![o.reg] = PortRead(o.port)]
                   [] o.op = "andnot" -> [regs EXCEPT ![o.reg] = ClearBit(@, o.lit)]
                   [] OTHER -> regs
    /\ HANDLERS' = IF o.op = "register" THEN HANDLERS \cup {o.lit} ELSE HANDLERS

PortStep ==
    /\ prog # <<>>
    /\ Exec(Head(prog))
    /\ prog' = Tail(prog)
    /\ UNCHANGED <<pc, GDT, IFlag, gates, snap, IRR, ISR, TICKS, reset>>

\* The IRQ lines of a mask pair.
MaskSet(m, s) == { i \in 0 .. 15 : Bit(IF i < 8 THEN m ELSE s, i % 8) = 1 }
Masked(irq) == Bit(master.imr, irq) = 1

(* The PicSpec state the devices and the handler table amount to.  Its    *)
(* step follows the routines rust_main has started.                        *)
StepOf(p) == CASE p \in {"init_gdt", "init_idt", "init_pic"} -> "firmware"
               [] p = "init_timer" -> "remapped"
               [] p \in {"kernel_init", "keyboard_install"} -> "timer"
               [] OTHER -> "keyboard"
Live ==
    [step |-> StepOf(pc),
     operational |-> /\ master.state = "ready" /\ slave.state = "ready"
                     /\ master.mode8086 /\ slave.mode8086
                     /\ master.cascade = 4 /\ slave.cascade = 2,
     base |-> master.base, slaveBase |-> slave.base,
     masked |-> MaskSet(master.imr, slave.imr),
     pit |-> [mode |-> pitDev.mode, reload |-> pitDev.reload, counting |-> pitDev.counting],
     handlers |-> HANDLERS]

\* A routine of rust_main: it starts once the previous one has finished.
Routine(from, to, ops) ==
    /\ pc = from /\ prog = <<>> /\ ~reset
    /\ pc' = to
    /\ prog' = ops
    /\ snap' = Live
    /\ UNCHANGED <<GDT, IFlag, gates, HANDLERS, master, slave, pitDev, regs, IRR, ISR, TICKS, reset>>

-----------------------------------------------------------------------------
(* rust_main is entered by the loader with IF clear (spec section 5); the *)
(* IDT is a zeroed static; the PICs and the PIT are as the firmware left   *)
(* them, the PICs at vectors 8 and 0x70.                                   *)
Init ==
    /\ pc = "init_gdt"
    /\ GDT = [i \in 0 .. 4 |-> NullEntry]
    /\ IFlag = FALSE
    /\ gates = [v \in Vectors |-> [present |-> FALSE, offset |-> 0, selector |-> 0, type |-> 0]]
    /\ HANDLERS = {}
    /\ \E f \in FwMasks : /\ master = FirmwarePic(8, 4, f.m)
                          /\ slave = FirmwarePic(112, 2, f.s)
    /\ pitDev = FirmwarePitDev
    /\ regs = [r \in Regs |-> 0]
    /\ prog = <<>>
    /\ snap = Live
    /\ IRR = {}
    /\ ISR = {}
    /\ TICKS = 0
    /\ reset = FALSE

(* init_gdt: the five set_entry calls, then load_gdt: lgdt, ds..ss loaded *)
(* with 0x10 and a far return to 0x08.  A selector that does not name a   *)
(* ring-0 segment of its kind raises #GP, and with no IDT loaded yet the   *)
(* fault escalates to a reset.                                             *)
init_gdt ==
    LET g  == set_entry(set_entry(set_entry(set_entry(set_entry(GDT,
                  0, 0, 0, 0, 0),
                  1, 0, 16^5 - 1, 154, 207),      \* 0x9A, 0xCF
                  2, 0, 16^5 - 1, 146, 207),      \* 0x92, 0xCF
                  3, 0, 16^5 - 1, 250, 207),      \* 0xFA, 0xCF
                  4, 0, 16^5 - 1, 242, 207)       \* 0xF2, 0xCF
        ok == DataSelector(g, KERNEL_DS) /\ CodeSelector(g, KERNEL_CS)
    IN /\ pc = "init_gdt" /\ ~reset /\ prog = <<>>
       /\ GDT' = g
       /\ pc' = IF ok THEN "init_idt" ELSE pc
       /\ reset' = ~ok
       /\ UNCHANGED <<IFlag, gates, HANDLERS, pics, IRR, ISR, TICKS>>

(* init_idt: idt_set_gate(i, 0, 0, 0) for every vector, which stores      *)
(* offset 0, selector 0 and type_attr 0 | 0x80 (present, type 0); then    *)
(* lidt.                                                                   *)
init_idt ==
    /\ pc = "init_idt"
    /\ gates' = [v \in Vectors |-> [present |-> TRUE, offset |-> 0, selector |-> 0, type |-> 0]]
    /\ pc' = "init_pic"
    /\ UNCHANGED <<GDT, IFlag, HANDLERS, pics, IRR, ISR, TICKS, reset>>

init_pic         == Routine("init_pic", "init_timer", pic_remap)
init_timer       == Routine("init_timer", "kernel_init", init_timer_ops(TIMER_FREQ))
keyboard_install == Routine("keyboard_install", "run_tests", keyboard_install_ops)

(* memory::initialize, init_heap, fs_init, vmm_init, vmm_enable: none of  *)
(* them touches interrupt state (modules FrameAlloc, Heap, RamFS).         *)
kernel_init ==
    /\ pc = "kernel_init" /\ prog = <<>>
    /\ pc' = "keyboard_install"
    /\ UNCHANGED <<GDT, IFlag, gates, HANDLERS, pics, IRR, ISR, TICKS, reset>>

(* run_tests: memtest and pagetest pass, heaptest panics (run           *)
(* boot_tests), and the panic handler prints and ends in loop {}.        *)
(* Had it passed, shell::init would end in loop {} too; neither path      *)
(* executes sti.                                                           *)
run_tests ==
    /\ pc = "run_tests" /\ prog = <<>>
    /\ pc' = "panic_loop"
    /\ UNCHANGED <<GDT, IFlag, gates, HANDLERS, pics, IRR, ISR, TICKS, reset>>

BootStep ==
    \/ init_gdt \/ init_idt \/ init_pic \/ init_timer \/ kernel_init
    \/ keyboard_install \/ run_tests \/ PortStep

-----------------------------------------------------------------------------
(* The devices.  The PIT, while counting, raises IRQ 0 every period; a key *)
(* press raises IRQ 1.  A raised line stays pending in the IRR.            *)
PitFires ==
    /\ pitDev.counting
    /\ IRR' = IRR \cup {0}
    /\ UNCHANGED <<pc, GDT, IFlag, gates, HANDLERS, pics, ISR, TICKS, reset>>

KeyPress ==
    /\ IRR' = IRR \cup {1}
    /\ UNCHANGED <<pc, GDT, IFlag, gates, HANDLERS, pics, ISR, TICKS, reset>>

(* pic_send_eoi(irq): a non-specific EOI (0x20) to the slave when irq >= 8, *)
(* then to the master.  A non-specific EOI clears the highest-priority   *)
(* (lowest-numbered) IRQ in service, and nothing when none is; only the  *)
(* master's in-service set is kept.                                        *)
pic_send_eoi(irq, inService) ==
    IF inService = {} THEN {}
    ELSE inService \ {CHOOSE i \in inService : \A j \in inService : i <= j}

(* The registered handler of a vector: timer_handler increments TICKS;    *)
(* keyboard_callback reads the scancode, hands it to the shell and sends  *)
(* EOI(1) itself.  A vector with no handler does nothing.                  *)
RunHandler(v) ==
    IF v = TimerVec /\ v \in HANDLERS
    THEN TICKS' = (TICKS + 1) % 2^TickBits
    ELSE UNCHANGED TICKS

(* The CPU takes a pending unmasked IRQ when IF is set and nothing is in  *)
(* service.  Through a usable gate, the stub calls isr_handler, which     *)
(* runs the handler and, the vector being >= 32, sends EOI(vector - 32):  *)
(* a non-specific EOI to the master clears the in-service IRQ.  With IF   *)
(* cleared by the gate only one IRQ is ever in service, so the keyboard's *)
(* second EOI finds nothing to clear.                                      *)
(* Through an unusable gate the CPU faults; the #GP and #DF gates are     *)
(* unusable too, so the machine triple-faults.                             *)
Deliver(irq) ==
    LET v == master.base + irq IN
    /\ IFlag /\ ~reset
    /\ irq \in IRR /\ ~Masked(irq)
    /\ ISR = {}
    /\ IRR' = IRR \ {irq}
    /\ IF GateUsable(v)
       THEN /\ RunHandler(v)
            /\ ISR' = LET afterHandler == IF v = KbdVec /\ v \in HANDLERS
                                          THEN pic_send_eoi(1, {irq}) ELSE {irq}
                      IN IF v >= 32 THEN pic_send_eoi(v - 32, afterHandler)
                                    ELSE afterHandler
            /\ UNCHANGED reset
       ELSE /\ reset' = TRUE
            /\ ISR' = {irq}
            /\ UNCHANGED TICKS
    /\ UNCHANGED <<pc, GDT, IFlag, gates, HANDLERS, pics>>

Next ==
    \/ BootStep
    \/ PitFires
    \/ KeyPress
    \/ \E irq \in IRQs : Deliver(irq)

(* The CPU executes rust_main, the PIT keeps firing, and the CPU takes an *)
(* interrupt that stays deliverable (spec section 5: "the CPU may at any  *)
(* point between instructions (with IF=1) take IRQ 0 ...").                *)
Spec == /\ Init /\ [][Next]_vars
        /\ WF_vars(BootStep)
        /\ WF_vars(PitFires)
        /\ WF_vars(\E irq \in IRQs : Deliver(irq))

(* The same system with the CPU's delivery left out.  IF is clear when   *)
(* rust_main is entered and nothing executes sti, so Deliver is never      *)
(* enabled and SetupSpec has exactly the behaviours of Spec's boot.        *)
SetupNext == BootStep \/ PitFires \/ KeyPress
SetupSpec == Init /\ [][SetupNext]_vars /\ WF_vars(BootStep) /\ WF_vars(PitFires)

-----------------------------------------------------------------------------
(* Properties.                                                             *)

PicState == [state : {"icw2", "icw3", "icw4", "ready"}, base : 0 .. 255,
             cascade : 0 .. 255, icw4 : BOOLEAN, single : BOOLEAN,
             mode8086 : BOOLEAN, imr : 0 .. 255]

\* GdtEntry: the packed fields' widths.
GdtEntry == [limit_low : 0 .. 65535, base_low : 0 .. 65535, base_mid : 0 .. 255,
             access : 0 .. 255, granularity : 0 .. 255, base_high : 0 .. 255]

\* IDTEntry as the CPU reads it: type_attr bit 7 and low nibble, the
\* selector, and the offset from offset_low and offset_high.
IDTEntry == [present : BOOLEAN, offset : Nat, selector : 0 .. 65535, type : 0 .. 15]

TypeOK ==
    /\ GDT \in [0 .. 4 -> GdtEntry] /\ gates \in [Vectors -> IDTEntry]
    /\ master \in PicState /\ slave \in PicState
    /\ pitDev.reload \in 0 .. 65535 /\ pitDev.lo \in 0 .. 255
    /\ regs \in [Regs -> 0 .. 255]
    /\ HANDLERS \subseteq Vectors
    /\ IRR \subseteq IRQs /\ ISR \subseteq IRQs
    /\ TICKS \in Nat

(* The port-level setup implements PicSpec: at the end of pic_remap the   *)
(* controllers are back in 8086 cascade mode at vectors 0x20 and 0x28     *)
(* with exactly the masks the firmware left; at the end of init_timer the *)
(* PIT runs mode 3 with divisor 1193, vector 32 has its handler and only  *)
(* IRQ 0 was unmasked; keyboard_install adds vector 33 and IRQ 1.  Within *)
(* a routine the abstract state is the one it started from.               *)
Abstract == INSTANCE PicSpec
    WITH FirmwareMasked <- { MaskSet(f.m, f.s) : f \in FwMasks },
         FirmwarePit <- [mode |-> 3, reload |-> 0, counting |-> TRUE],
         Divisor <- PIT_HZ \div TIMER_FREQ,
         step        <- (IF prog = <<>> THEN Live ELSE snap).step,
         operational <- (IF prog = <<>> THEN Live ELSE snap).operational,
         base        <- (IF prog = <<>> THEN Live ELSE snap).base,
         slaveBase   <- (IF prog = <<>> THEN Live ELSE snap).slaveBase,
         masked      <- (IF prog = <<>> THEN Live ELSE snap).masked,
         pit         <- (IF prog = <<>> THEN Live ELSE snap).pit,
         handlers    <- (IF prog = <<>> THEN Live ELSE snap).handlers
PicRefinement == Abstract!Spec

(* A line is unmasked only once its handler is registered (spec section 2 *)
(* "IRQs may only be unmasked after their handler is registered"): every  *)
(* write that clears a mask bit of an initialised master finds the        *)
(* handler of that line's vector in HANDLERS.  init_timer and             *)
(* keyboard_install register before they call pic_unmask_irq.            *)
RegisterBeforeUnmask ==
    [][\A irq \in IRQs :
         (master.state = "ready" /\ master'.state = "ready"
          /\ Masked(irq) /\ Bit(master'.imr, irq) = 0)
         => master.base + irq \in HANDLERS]_vars

(* The boot never triple-faults: init_gdt's five set_entry calls store   *)
(* descriptors that the CPU decodes, when load_gdt loads ds..ss with 0x10  *)
(* and far-returns to 0x08, as a ring-0 writable data segment and a ring-0 *)
(* code segment, so the reloads raise no #GP that the empty IDT would      *)
(* escalate to a reset.                                                    *)
NoTripleFault == ~reset

(* The timer ends up armed for good: rust_main always runs through to the *)
(* panic loop, and from then on channel 0 counts with divisor 1193180 /    *)
(* 1000, IRQ 0 is open on the remapped master, and vector 32 has its       *)
(* handler.  Everything a tick needs is in place but EFLAGS.IF (run        *)
(* boot_no_ticks).  The PIT counts only once the high byte of the divisor  *)
(* follows the low one.                                                    *)
TimerArmed ==
    <>[](/\ pc = "panic_loop"
        /\ pitDev.counting /\ pitDev.reload = PIT_HZ \div TIMER_FREQ
        /\ ~Masked(0) /\ master.base = TimerVec
        /\ TimerVec \in HANDLERS)

(* The timer ticks (spec section 1: the kernel "services timer and        *)
(* keyboard interrupts"; scenario 5 busy-waits until ticks() >= 10): once *)
(* init_timer has armed the PIT and unmasked IRQ 0, timer_handler         *)
(* eventually runs and TICKS leaves 0.                                     *)
TimerTicks == <>(TICKS > 0)
====
