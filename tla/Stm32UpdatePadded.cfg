SPECIFICATION PartsSpec
CONSTANTS
    NumBlocks = 5
    CellsPerBlock = 4
    SmallPage = 4
    LargePage = 4
    Boundary = 0
    Erased = Erased
    Torn = Torn
    x = x
    y = y
    Data <- PaddedData
    Images <- PaddedImages
    Binary <- PlainBinary
    OldBootloaders <- PlainBootloaders
    Parts = {"update"}
    EraseRemnants <- CleanRemnants
    CountLimit = 2
    MaxLosses = 0
INVARIANT InOrderNeverRejected
