SPECIFICATION Spec
CONSTANTS
    Irqs = {32, 47}
    Traps = {3}
    Faults = {0, 14}
    MaxSignals = 2
    None = None
INVARIANT SpuriousIsNoFault
CHECK_DEADLOCK FALSE
