CONSTANTS
    a = a
    b = b
    f = f
    Announces = {a, b}
    Files = {f}
    NUsers = 2
    Openers = {1}
    MaxOpened = 2
    Faults = TRUE
SPECIFICATION FairSpec
CHECK_DEADLOCK FALSE
INVARIANTS
    CardsHaveHome
    RepliesAreHeard
PROPERTIES
    EveryAnnounceEnds
