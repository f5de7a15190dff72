SPECIFICATION FairSpec
CONSTANTS
    N = 3
    Sinks <- MCSinks
    VideoSink = 2
    AudioSink = 3
    Sync <- DemuxerSync
    Async <- DemuxerAsync
    Interruptible = FALSE
    MaxCommands = 5
    MaxSeeks = 2
    MaxEos = 0
    MaxFaults = 0
CHECK_DEADLOCK FALSE
INVARIANTS
    TypeOK
    AtRest
    SuccessIsTrue
    LastSeekWins
PROPERTY
    FirstCommandsReturn
