SPECIFICATION Spec
CONSTANTS
    root = root
    dev1 = dev1
    dev2 = dev2
    dev3 = dev3
    NoAddress = NoAddress
    Node = {root, dev1, dev2}
    Root = root
    Scanner = {root}
    Waiter = {dev1}
    Half = 4
    RandomByte <- OwnTags
    Lossy = FALSE
    MaxScans = 1
    MaxRestarts = 0
INVARIANT NoLostWakeup
CHECK_DEADLOCK FALSE
