\* The boot from init_gdt to the panic loop, port by port, from each of the
\* firmware mask pairs, with the PIT and the keyboard raising their lines at
\* any time.  The boot ends in loop {} (the panic handler) with IF clear,
\* where only the devices still take steps.
CONSTANTS
    TickBits = 32
    FwMasks <- MCFwMasks

SPECIFICATION SetupSpec

INVARIANT TypeOK
INVARIANT NoTripleFault
PROPERTY PicRefinement
PROPERTY RegisterBeforeUnmask
PROPERTY TimerArmed
