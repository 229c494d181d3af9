SPECIFICATION Spec
CONSTANTS
    c1 = c1
    c2 = c2
    c3 = c3
    left = left
    right = right
    MaxPairs = 5
    Calls = {c1, c2, c3}
    Kind <- MCKind
    TabOf <- MCTab
CONSTRAINT
    TwoOnceSeparated
INVARIANTS
    BrowserMatchesServer
PROPERTIES
    SpentStaysSpent
    SessionKept
CHECK_DEADLOCK FALSE
