SPECIFICATION Spec
CONSTANTS
    NumBlocks = 3
    CellsPerBlock = 4
    SmallPage = 2
    LargePage = 1
    Boundary = 2
    Erased = Erased
    Torn = Torn
    x = x
    y = y
    Data <- LedData
    EraseRemnants <- Remnants
    CountLimit = 2
    MaxLosses = 1
INVARIANTS AckedIntact 
PROPERTIES RefinesContract RetransmitHarmless
