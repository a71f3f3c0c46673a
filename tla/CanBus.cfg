SPECIFICATION PartsSpec
CONSTANTS
    BufSize = 4
    FrameSize = 2
    NumBoxes = 2
    ResponseLens <- Lens
    MaxBytes = 5
    MaxOther = 3
    RxControllers <- Stm32Controllers
    RxDepth = 3
    MaxFrames = 8
INVARIANTS TxStream TxNoLostWake RxInOrder
PROPERTIES ResponsesLeave RxServed
