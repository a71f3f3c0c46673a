SPECIFICATION HSpec
CONSTANTS
    NumBlocks = 8
    BufBlocks = 4
    SectorBlocks = 8
    x = x
    y = y
    Erased = Erased
    Garbage = Garbage
    Data <- Payloads
    BlankQuarters <- Quarters
    Images <- Files
    Devices <- LpcBoards
    BlockTries = 3
    CommandTries = 5
    Rounds = 3
    MaxTroubles = 1
    MaxSessions = 1
CHECK_DEADLOCK FALSE
PROPERTY RetransmitAcknowledged
