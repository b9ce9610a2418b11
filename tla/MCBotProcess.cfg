CONSTANTS
    Rooms = {q1, q2}
    MinDelay = 2
    MaxDelay = 4
    Skews <- MCSkews
    MaxEvents = 2
    MaxClock = 2
    LastRevision = 1
    Retries = 2
    RestartTime = 2
SPECIFICATION Spec
CHECK_DEADLOCK FALSE
INVARIANTS
    ActsOnceInOrder
    SentWhileUpIsHandled
    NothingLeftOpen
    ServesAtHead
PROPERTIES
    ServesAgain
    StopsWhenTold
