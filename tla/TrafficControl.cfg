SPECIFICATION MCSpec
CONSTANTS
    p1 = p1
    p2 = p2
    k1 = k1
    Producers <- TwoProducers
    Consumers <- OneConsumer
    Sinks = TRUE
    LowBar = 1
    HighBar = 3
    CountSpace = 6
    MaxItems = 9
CHECK_DEADLOCK FALSE
INVARIANTS
    PendingExact
    BoundedAlive
    PairNotForgotten
