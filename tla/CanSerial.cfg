SPECIFICATION Spec
CONSTANTS
    RxSize = 3
    QueueSize = 2
    FrameLens <- Lens
    ShortIds <- OneId
    MaxBytes = 4
    MaxAdmin = 3
INVARIANTS StreamIntegrity RingSound NoLostWake
PROPERTY AdminServed
