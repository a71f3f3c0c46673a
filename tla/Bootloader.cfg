SPECIFICATION FairSpec
CONSTANTS
    LaunchBlock = 1
    NumBlocks = 3
    PageOf <- Page
    Leads <- First
    Metadata <- Metas
    Code <- Codes
    ZeroLed <- Zeros
    BootCode = a
    a = a
    z = z
    Blank = Blank
    Torn = Torn
    ENABLE_BUTTON = TRUE
    ENABLE_DOUBLE_RESET = TRUE
    MaxResets = 2
INVARIANTS AppOnlyFromIntactImage BootloaderIntact RequestUsedOnce
PROPERTIES RequestHonoured BootTerminates CompleteLeaves ReconnectUnblocks
