SPECIFICATION Spec
CONSTANTS
    RxSize = 2
    QueueSize = 2
    FrameLens <- Lens
    ShortIds <- Ids
    MaxBytes = 2
    MaxAdmin = 3
PROPERTY SetNodeidAcked
