CONSTANTS
    NULL_U32 = NULL_U32
    Workers = {w1, w2}
    Freers = {f1}
    Mortal = {f1}
    NumSlabs = 1
    SlabSize = 4
    SIZE_CLASSES <- TwoClasses
SYMMETRY Symmetry
SPECIFICATION Spec
INVARIANTS Accounting
PROPERTIES MetaStable RefinesService
