SPECIFICATION Spec
CONSTANTS
    Char = {"enter", "esc", "backspace", "~", "[", "C", "D", "x"}
    Nul = Nul
    Size = 3
    Line = {0, 1, 2, 3, 4, 5}
    NoLog = 0
    Capacity = 4
    Entry = {e1, e2, e3, e4}
    Null = Null
    Keys <- UserKeys
    MaxLines = 5
CONSTRAINT Apart
INVARIANTS
    TypeOK
    AddedAreShown
PROPERTIES
    ImplementsConsole
CHECK_DEADLOCK FALSE
