CONSTANTS
    TickBits = 32
    FwMasks <- MCFwMasks

SPECIFICATION Spec

PROPERTY TimerTicks
