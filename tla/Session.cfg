SPECIFICATION Spec
CONSTANTS
    p1 = p1
    p2 = p2
    b1 = b1
    b2 = b2
    t1 = t1
    t2 = t2
    k1 = k1
    k2 = k2
    Phones = {p1, p2}
    Tabs = {b1, b2}
    Threads = {t1, t2}
    Tokens = {k1, k2}
    None = None
    MaxFaults = 1
SYMMETRY Alike
CHECK_DEADLOCK FALSE
INVARIANTS RunsAsTheTabsUser OneLeakOneRequest EndlessIsUnknown
PROPERTIES EndedStaysEnded
