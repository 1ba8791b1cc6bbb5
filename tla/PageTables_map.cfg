SPECIFICATION Spec
CONSTANTS
    Index = {0, 1, 2}
    Dirs = 11
    KernelP4 = 2
    KernelP3 = 1
    IdPages = {0, 1}
    Virt <- FourPages
    Phys = {1, 2}
    PageDefault = 3
    Blocks = {1, 2}
    TlbSize = 1
    NotMapped = NotMapped
    NoCall = NoCall
INVARIANT TlbFollowsTables
INVARIANT TablesOwned
INVARIANT OneBlockSuffices
PROPERTY IsAddressSpace
CHECK_DEADLOCK FALSE
