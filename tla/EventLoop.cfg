SPECIFICATION FairSpec
CONSTANTS
    t1 = t1
    t2 = t2
    t3 = t3
    r1 = r1
    r2 = r2
    NoTask = NoTask
    Task = {t1, t2, t3}
    Resumer = {r1, r2}
    Awaits <- Own
    Capacity = 3
    Delay = {0, 1}
    ByTask = {r2}
    ByIsr = {r1}
    MaxTime = 2
INVARIANTS
    TypeOK
    ResumedOnce
    NothingDropped
    OnTime
    StopsIdle
PROPERTY
    Woken
CHECK_DEADLOCK FALSE
