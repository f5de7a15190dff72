SPECIFICATION MCFairSpec
CONSTANTS
    NormalRate = 1
    Room = 1
    Size = 2
    PAMayFail = FALSE
    MaxSinkCommands = 4
    MaxSinkWrites = 1
    DecodeLowBar = 1
    DecodeHighBar = 2
    MaxOfOne = 2
    SinkMayRefuse = TRUE
    MaxDecodeCommands = 4
    MaxPackets = 3
    Capacity = 2
    MaxFissionInput = 3
    MaxFissionCommands = 3
    NumFrames = 3
    Undequeued = 1
    InputCount = 1
    NumPackets = 1
    SeekTarget = 1
    MayFail = FALSE
    MaxV4l2Calls = 4
    MaxV4l2Changes = 0
    MaxStalls = 1
    MaxTooBig = 1
    MaxPolled = 0
CHECK_DEADLOCK FALSE
PROPERTIES
    PartsAnswer
    EndReachesSink
