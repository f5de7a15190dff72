SPECIFICATION MCFairSpec
CONSTANTS
    RecKinds <- MCKinds
    MaxRecCommands = 5
    MaxRecFaults = 1
    MuxPackets <- MCPackets
    MaxDurations = {4}
    ExtraMayBeLate = TRUE
    FileMayFail = TRUE
    MaxMuxCalls = 3
CHECK_DEADLOCK FALSE
INVARIANTS
    AllTogether
    FileInOrder
    CompleteAtEnd
    WritesFindThread
PROPERTIES
    StopAfterEos
    RecordingEnds
