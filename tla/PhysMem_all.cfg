SPECIFICATION MCSpec
CONSTANTS
    PageSize = 2
    WordBits = 4
    IntBits = 2
    ByteBits = 2
    PmmSize = 3
    LowPages = 1
    MemMaps <- AllMaps
    Sizes <- FewPages
    c1 = c1
    c2 = c2
    c3 = c3
    Clients = {c1, c2, c3}
    NoBlock = NoBlock
SYMMETRY Callers
INVARIANT TypeOK
INVARIANT LowMemoryKept
INVARIANT HeldInRam
INVARIANT Exclusive
INVARIANT MallocComplete
INVARIANT SearchAgrees
PROPERTY IsAllocator
PROPERTY BootExact
PROPERTY BootAgrees
PROPERTY GrantsFreeOrSkipped
PROPERTY FreeConfined
CHECK_DEADLOCK FALSE
