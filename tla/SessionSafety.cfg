SPECIFICATION Spec
CONSTANTS
    t1 = t1  t2 = t2  s1 = s1  s2 = s2  b1 = b1  b2 = b2  b3 = b3
    Threads = {t1, t2}
    Ids = {s1, s2}
    Blocks = {b1, b2, b3}
    NoId = NoId
    Null = Null
    LifeTime = 1
    SweepPeriod = 0
    MaxTime = 2
    Events = {"attribute", "remove", "removeAll", "upgrade"}
SYMMETRY Symmetry
INVARIANTS TypeOK AttributesOwned
PROPERTIES  NoResurrection
CHECK_DEADLOCK FALSE
