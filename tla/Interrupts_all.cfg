SPECIFICATION Spec
CONSTANTS
    Irqs = {32, 47}
    Traps = {3}
    Faults = {0, 6, 13, 14}
    MaxSignals = 3
    None = None
INVARIANT ServiceHasItsHandler
INVARIANT HandlersUninterrupted
PROPERTY FaultsEnd
PROPERTY SignalsDelivered
CHECK_DEADLOCK FALSE
