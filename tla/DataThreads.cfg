SPECIFICATION MCSpec
CONSTANTS
    NormalRate = 1
    Room = 1
    Size = 2
    PAMayFail = TRUE
    MaxSinkCommands = 4
    MaxSinkWrites = 2
    DecodeLowBar = 1
    DecodeHighBar = 2
    MaxOfOne = 2
    SinkMayRefuse = TRUE
    MaxDecodeCommands = 6
    MaxPackets = 4
    Capacity = 2
    MaxFissionInput = 4
    MaxFissionCommands = 4
    NumFrames = 3
    Undequeued = 1
    InputCount = 1
    NumPackets = 2
    SeekTarget = 2
    MayFail = TRUE
    MaxV4l2Calls = 5
    MaxV4l2Changes = 1
    MaxStalls = 0
    MaxTooBig = 1
    MaxPolled = 0
CHECK_DEADLOCK FALSE
INVARIANTS
    DataThreadsTypeOK
    OutputIntact
    SinkClockStreamAgree
    FissionInOrder
    BuffersAccounted
PROPERTIES
    NothingOldAfterFlush
    FramesInOrder
