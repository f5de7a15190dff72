SPECIFICATION MCFairSpec
CONSTANTS
    RecKinds <- MCVideoOnly
    MaxRecCommands = 7
    MaxRecFaults = 1
    MuxPackets <- MCPackets
    MaxDurations = {0}
    ExtraMayBeLate = FALSE
    FileMayFail = FALSE
    MaxMuxCalls = 0
CHECK_DEADLOCK FALSE
PROPERTY
    StopsAgain
