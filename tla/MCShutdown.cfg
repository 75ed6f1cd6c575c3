SPECIFICATION FairSpec
CONSTANTS
    t1 = t1
    t2 = t2
    p1 = p1
    p2 = p2
    Threads = {t1, t2}
    APs = {p1, p2}
    Requests = 3
    Signals = 1
    Again = 1
INVARIANTS OneOwner ApsHeld
PROPERTIES PowerOffKept CarriedOut
CHECK_DEADLOCK FALSE
