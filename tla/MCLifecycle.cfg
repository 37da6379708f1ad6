CONSTANTS
    None = None
    h1 = h1
    h2 = h2
    h3 = h3
    h4 = h4
    p1 = p1
    p2 = p2
    Processes = {p1, p2}
    Handles = {h1, h2, h3, h4}
    ProcessOf <- TwoAndTwo
    Mortal = {p1, p2}
    Regions = {r1, r2, r3, r4}
    NumWorkers = 3
SYMMETRY Symmetry
SPECIFICATION Spec
INVARIANTS HandlesComplete IndicesOwned MappedWhenUsed NoMappingLeaks
