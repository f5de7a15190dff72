SPECIFICATION FairSpec
CONSTANTS
    c1 = c1
    c2 = c2
    Clients <- MCClients
    Delays <- MCDelays
    IdSpace = 4
    MaxTime = 2
    MaxMsgs = 3
    CreateMayFail = FALSE
CHECK_DEADLOCK FALSE
INVARIANTS
    QueueOrdered
    NoMissedMessage
    NoMissedReply
    OwnAnswer
PROPERTIES
    ImplementsRequestReply
    ImplementsFairRequestReply
    ExitReturns
    MessageHandled
