CONSTANTS
    NULL_U32 = NULL_U32
    Workers = {w1, w2}
    Mortal = {w1}
    Kinds = {partial, full}
    Slabs = {s1, s2, s3}
SYMMETRY Symmetry
SPECIFICATION Spec
INVARIANTS LinksMirrored IterationExact
PROPERTIES RefinesLocalLists
