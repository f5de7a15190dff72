SPECIFICATION Spec
CONSTANTS
    c1 = c1
    c2 = c2
    Clients <- MCClients
    Delays <- MCDelays
    IdSpace = 4
    MaxTime = 2
    MaxMsgs = 4
    CreateMayFail = TRUE
CHECK_DEADLOCK FALSE
INVARIANT
    DestructorAssert
