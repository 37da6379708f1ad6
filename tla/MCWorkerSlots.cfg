CONSTANTS
    NoIndex = NoIndex
    Handles = {h1, h2, h3, h4}
    Mortal = {h1}
    NumWorkers = 3
SYMMETRY Symmetry
SPECIFICATION Spec
INVARIANTS ClaimedHeld ScanHonest
PROPERTIES RefinesIndices
