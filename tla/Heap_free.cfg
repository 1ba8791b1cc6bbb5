SPECIFICATION Spec
CONSTANTS
    HeapStart = 1000
    HeapSize = 204
    ArraySize = 80
    Sizes = {0, 3, 11}
    Garbage = 100000
    c1 = c1
    c2 = c2
    c3 = c3
    Clients = {c1, c2, c3}
    NoPtr = NoPtr
SYMMETRY Callers
INVARIANT FreeSucceeds
CHECK_DEADLOCK FALSE
