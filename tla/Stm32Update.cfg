SPECIFICATION PartsSpec
CONSTANTS
    NumBlocks = 5
    CellsPerBlock = 4
    SmallPage = 4
    LargePage = 4
    Boundary = 0
    Erased = Erased
    Torn = Torn
    x = x
    y = y
    Data <- LedData
    Images <- LedImages
    Binary <- NewBootloader
    OldBootloaders <- Bootloaders
    Parts = {"update", "deploy"}
    EraseRemnants <- CleanRemnants
    CountLimit = 2
    MaxLosses = 2
INVARIANTS InOrderNeverRejected CompleteMeansFlashed RequestedMeansDeployed
PROPERTY DeployEnds
