CONSTANTS
    u1 = u1
    u2 = u2
    l1 = l1
    l2 = l2
    t1 = t1
    t2 = t2
    t3 = t3
    People = {u1, u2}
    Languages = {l1, l2}
    Taps = {t1, t2, t3}
    Faults = TRUE
SPECIFICATION Spec
CHECK_DEADLOCK FALSE
SYMMETRY Symmetry
INVARIANTS
    JournalSerial
    ShownSerial
