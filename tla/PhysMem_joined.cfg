SPECIFICATION Spec
CONSTANTS
    PageSize = 2
    WordBits = 4
    IntBits = 2
    ByteBits = 2
    PmmSize = 3
    LowPages = 1
    MemMaps <- PageMaps
    Sizes <- ManyPages
    c1 = c1
    c2 = c2
    c3 = c3
    Clients = {c1, c2, c3}
    NoBlock = NoBlock
SYMMETRY Callers
INVARIANT Exclusive
CHECK_DEADLOCK FALSE
