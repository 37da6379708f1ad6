CONSTANTS
    NULL_U16 = NULL_U16
    Data = Data
    Pushers = {p1, p2, p3}
    Mortal = {p1}
    NumSlots = 3
SPECIFICATION FairSpec
INVARIANTS ChainsIntact OnePlace
PROPERTIES RefinesSlotList DrainEnds PushesProgress
