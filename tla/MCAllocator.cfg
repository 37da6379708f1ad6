CONSTANTS
    NULL_U32 = NULL_U32
    Workers = {w1, w2}
    Freers = {f1}
    Mortal = {w1}
    NumSlabs = 2
    SlabSize = 4
    SIZE_CLASSES <- OneClass
SPECIFICATION Spec
INVARIANTS TypeOK OneList SlotsConserved ListsTruthful CleanOnce
PROPERTIES CleanCovers
