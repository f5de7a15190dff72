SPECIFICATION FairSpec
CONSTANTS
    N = 2
    Sinks <- MCSinks
    VideoSink = 2
    AudioSink = 0
    Sync <- DemuxerSync
    Async <- DemuxerAsync
    MaxFaults = 0
    Interruptible = FALSE
    MaxCommands = 6
    MaxSeeks = 0
    MaxEos = 0
CHECK_DEADLOCK FALSE
PROPERTY CommandReturns
