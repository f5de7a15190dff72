SPECIFICATION Spec
CONSTANTS
    N = 2
    Sinks <- MCSinks
    VideoSink = 2
    AudioSink = 0
    Sync <- AnySourceSync
    Async <- DemuxerAsync
    MaxFaults = 1
    Interruptible = TRUE
    MaxCommands = 5
    MaxSeeks = 1
    MaxEos = 1
CHECK_DEADLOCK FALSE
INVARIANTS
    NoMissedCompletion
