CONSTANTS
    Workers = {w1, w2, w3}
    Mortal = {w1}
    NumSlabs = 2
    GenModulus = 3
    NULL_U32 = NULL_U32
SPECIFICATION FairSpec
INVARIANTS TypeOK ListIntact Conservation
PROPERTIES RefinesPool LockFree
