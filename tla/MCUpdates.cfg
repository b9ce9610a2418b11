CONSTANTS
    u1 = u1
    u2 = u2
    u3 = u3
    root = root
    Ids = {u1, u2, u3}
    People = {root}
    Admins = {root}
    Rate = 2
    NoteFactor = 2
    MaxClock = 6
SPECIFICATION Spec
CHECK_DEADLOCK FALSE
INVARIANTS
    OnePerWindow
    FirstContactsDoNotClash
