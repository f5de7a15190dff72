SPECIFICATION MCSpec
CONSTANTS
    NormalRate = 1
    Slack = 0
    FarAhead = 2
    TooLate = 1
    SkipFrames = 0
    FrameGap = 1
    VideoRates = {2}
    MaxFrames = 2
    MaxVideoCommands = 3
    MaxNow = 2
    File <- MCFile
    StartTime = 2
    BufferingTime = 1
    MaxDemuxCalls = 4
CHECK_DEADLOCK FALSE
INVARIANTS
    PlayerPartsTypeOK
    ChainAlive
    NotStalled
    SeeksAnswered
PROPERTIES
    PositionSteady
    FramesInTime
    StreamsContinue
    SeekStartsAtKey
