SPECIFICATION Spec
CONSTANTS
    t1 = t1
    t2 = t2
    t3 = t3
    r1 = r1
    r2 = r2
    NoTask = NoTask
    Task = {t1, t2}
    Resumer = {r1, r2}
    Awaits <- Shared
    Capacity = 2
    Delay = {1}
    ByTask = {r1}
    ByIsr = {}
    MaxTime = 2
INVARIANT
    YieldsValue
CHECK_DEADLOCK FALSE
