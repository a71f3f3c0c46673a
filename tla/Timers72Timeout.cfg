SPECIFICATION Spec
CONSTANTS
    Half = 16
    NoIdTicks = 6
    IdTicks = 17
    HeartbeatTicks = 2
    MaxTransfer = 19
    MaxUnassigned = 17
PROPERTY NoEarlyTimeout
