CONSTANTS
    Limit = 4
    MaxLength = 8
SPECIFICATION SendSpec
CHECK_DEADLOCK FALSE
INVARIANTS
    NothingLost
    CardDeliveredWhole
