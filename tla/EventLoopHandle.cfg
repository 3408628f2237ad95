SPECIFICATION Spec
CONSTANTS
    t1 = t1
    t2 = t2
    t3 = t3
    r1 = r1
    r2 = r2
    NoTask = NoTask
    Task = {t1, t2}
    Resumer = {r1, r2}
    Awaits <- Own
    Capacity = 2
    Delay = {1}
    ByTask = {}
    ByIsr = {r1, r2}
    MaxTime = 2
INVARIANT
    RealHandle
CHECK_DEADLOCK FALSE
