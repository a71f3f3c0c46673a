SPECIFICATION PartsSpec
CONSTANTS
    Half = 16
    NoIdTicks = 4
    IdTicks = 11
    HeartbeatTicks = 1
    MaxTransfer = 28
    MaxUnassigned = 20
    HalfPeriod = 4
    TimeWrap = 32
    MaxLatency = 2
    MaxGap = 1
    StallTicks <- Erases
    MaxStalls = 1
    MaxTime = 45
INVARIANTS NoLateTimeout HeartbeatRegular TimeNeverAhead
PROPERTY NoEarlyTimeout
