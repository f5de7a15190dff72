SPECIFICATION V4l2FairSpec
CONSTANTS
    NumFrames = 3
    Undequeued = 1
    InputCount = 1
    NumPackets = 1
    SeekTarget = 1
    MayFail = FALSE
    MaxV4l2Calls = 3
    MaxV4l2Changes = 1
    MaxStalls = 0
    MaxTooBig = 0
    MaxPolled = 0
CHECK_DEADLOCK FALSE
PROPERTY
    V4l2Answers
