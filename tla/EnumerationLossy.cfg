SPECIFICATION Spec
CONSTANTS
    root = root
    dev1 = dev1
    dev2 = dev2
    dev3 = dev3
    NoAddress = NoAddress
    Node = {root, dev1, dev2}
    Root = root
    Scanner = {root}
    Waiter = {root, dev1, dev2}
    Half = 4
    RandomByte <- OwnTags
    Lossy = TRUE
    MaxScans = 2
    MaxRestarts = 1
INVARIANTS
    TypeOK
    IInv
    UniqueIds
    ReturnsOwnId
CHECK_DEADLOCK FALSE
