CONSTANTS
    t1 = t1
    t2 = t2
    m1 = m1
    k1 = k1
    TG = {t1, t2}
    MX = {m1}
    Copies = {k1}
    Faults = {"skip", "raise", "crash"}
SPECIFICATION FairSpec
CHECK_DEADLOCK FALSE
INVARIANTS
    RowsTrackCards
    StaleOnlyIfMissed
PROPERTIES
    ImplementsCards
    EveryoneGetsCard
