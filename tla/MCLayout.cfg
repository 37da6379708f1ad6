CONSTANTS
    SlabSizes <- SmallSlabSizes
    TotalSlabs <- SmallTotals
    MinWorkers <- FewWorkers
    MAX_U32 = 7280
    Sizes <- SomeSizes
    NULL_U16 = 65535
    Served <- FewSlabs
SPECIFICATION AddressingSpec
INVARIANTS SectionsInOrder RefusesOnlyImpossible JoinAgrees SmallestFit RoundTrip SlotNotNull
PROPERTIES LimitsEnd
CHECK_DEADLOCK FALSE
