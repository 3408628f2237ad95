SPECIFICATION Spec
CONSTANTS
    main = main
    left = left
    right = right
    leaf = leaf
    Task = {main, left, right, leaf}
    NoTask = NoTask
    Awaits <- Diamond
    Immediate = {r}
    MaxResumes = 2
INVARIANTS
    TypeOK
    NoReentry
    NobodyForgotten
    NobodySpins
PROPERTIES
    CallbacksStable
    Unwinds
CHECK_DEADLOCK FALSE
