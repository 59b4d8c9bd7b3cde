CONSTANTS
    Readings <- MCReadings
    InitVal = 0
    Min = 0
    Max = 8
    MaxDiff = 1
    MaxConsecutiveRejects = 2
    None = None
    BufMax = 6
    Kept = 2
    MinEnd = 3
    EndCap = 4
    PacketMax = 5
    FullMax = 5
    MaxChunk = 3
    MaxBytes = 8
    Scalars = {"mcurrent", "soc"}
    Slots = 2
    MinVoltage = 2
    MinCell = 2
    Stored = 5
    StoredEndCap = 4
    MaxPiece = 6
    Parts = 3
    MaxReplies = 3
    Shapes = {"plain", "like_new", "zeros", "single"}
    Currents <- MCCurrents
    MaxCurrent = 5
    CurrentDiff = 4
    Standby = 1
    Dropout = 3
    Cycles = {0, 1, 3, 4}
    MaxCycles = 3
    CyclesDiff = 1
    GoodAbove = 1
    Cells <- MCCells
    CellMin = 8
    CellMax = 15
    CellDiff = 3
    Deadband = 1
    Capacity = 4
    EstimateMax = 5
    EstimateDiff = 1
    ResyncAfter = 2
    Voltages = {120, 132, 135}
    MaxRequests = 4
    MaxWrites = 3
    MaxAir = 2
    MaxChanges = 2
    MaxLosses = 1
    VerifySeconds = 2
    MinFrames = 2
    Burst = 2
    Noise = 1
    MaxCount = 6
SPECIFICATION PartsSpec
INVARIANTS
    PartsTypeOK
    NothingOutOfRangeStored
    PersistentChangeBelieved
    StreamIsRead
    FrameIsRead
    NeverStarves
    BatterySettles
    CellTracks
PROPERTIES
    JumpNeedsConsistentRun
    WholeReplyShown
    SwitchesAreShown
    SlowLinkIsSet
CHECK_DEADLOCK FALSE
