SPECIFICATION Spec
CONSTANTS
    a = a
    b = b
    c = c
    q1 = q1
    q2 = q2
    Node = {a, b, c}
    Addr <- Addresses
    Port = 0
    Creator <- Creators
    Name <- Names
    Initial <- HasOne
    Later <- AddsOne
    Query = {q1, q2}
    Caller <- TwoCallers
    Targets <- AskOne
    Searching = {a}
    Wanted = 3
    Slots = 1
    Width = 4
    Chunk = 2
    Concurrent = FALSE
INVARIANTS
    TypeOK
    NeverUndefined
    Underway
    FoundAll
PROPERTIES
    ImplementsDirectory
CHECK_DEADLOCK FALSE
