SPECIFICATION Spec
CONSTANTS
    PageSize = 4
    WordBits = 4
    IntBits = 2
    ByteBits = 2
    PmmSize = 4
    LowPages = 1
    Index = {0, 1, 2, 3, 4, 5, 6, 7, 8}
    Dirs = 11
    KernelP4 = 8
    KernelP3 = 7
    PageDefault = 3
    TableBlocks = {1, 2}
    FbPages = 2
    ScratchPages = 4
    HeapPages = {8}
    Machines <- SmallMachines
    None = None
INVARIANT OneUse
INVARIANT DriversStayMapped
PROPERTY BootCompletes
CHECK_DEADLOCK FALSE
