SPECIFICATION FairSpec
CONSTANTS
    root = root
    dev1 = dev1
    dev2 = dev2
    dev3 = dev3
    NoAddress = NoAddress
    Node = {root, dev1, dev2, dev3}
    Root = root
    Scanner = {root}
    Waiter = {dev1, dev2}
    Half = 4
    RandomByte <- AnyTags
    Lossy = FALSE
    MaxScans = 2
    MaxRestarts = 0
INVARIANTS
    AnswerUnderway
    FoundAreDevices
PROPERTIES
    Enumerated
    Awaited
CHECK_DEADLOCK FALSE
