CONSTANTS
    NULL_U32 = NULL_U32
    Workers = {w1, w2}
    Freers = {}
    Mortal = {}
    NumSlabs = 2
    SlabSize = 4
    SIZE_CLASSES <- OneClass
SPECIFICATION FairSpec
PROPERTIES CleanReturns Reclaimed
