SPECIFICATION Spec
CONSTANTS
    a = a
    b = b
    c = c
    q1 = q1
    q2 = q2
    Node = {a, b, c}
    Addr <- Addresses
    Port = 0
    Creator <- Creators
    Name <- Names
    Initial <- HasOne
    Later = {}
    Query = {q1, q2}
    Caller <- OneCaller
    Targets <- AskTwo
    Searching = {}
    Wanted = 3
    Slots = 4
    Width = 4
    Chunk = 2
    Concurrent = TRUE
INVARIANTS
    AnswersOfDevice
CHECK_DEADLOCK FALSE
