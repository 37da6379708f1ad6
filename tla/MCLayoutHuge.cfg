CONSTANTS
    SlabSizes <- OneSlabSize
    TotalSlabs <- HugeTotals
    MinWorkers <- FewWorkers
    MAX_U32 = 2147483647
    Sizes = {}
    NULL_U16 = 65535
    Served = {}
SPECIFICATION AddressingSpec
INVARIANTS SectionsInOrder
CHECK_DEADLOCK FALSE
