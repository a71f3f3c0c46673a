SPECIFICATION PartsSpec
CONSTANTS
    RxSize = 6
    MaxLen = 1
    Byte <- ByteValues
    SerialRxSize = 3
    SerialTxSize = 4
    SerialReplies <- SerialLens
    SerialMaxRx = 4
    SerialMaxTx = 7
    UsbEp = 2
    UsbRxSize = 4
    UsbTxSize = 6
    UsbMessages <- MessageLens
    UsbReplies <- MessageLens
    UsbWindow = 2
    UsbMaxMessages = 4
INVARIANTS
    OneNackPerGap
    SerialRxStream SerialTxStream
    UsbOutStream UsbInStream
PROPERTIES
    NeverWedged CleanBlockDispatched SerialTxDrains UsbAnswered
CHECK_DEADLOCK FALSE
