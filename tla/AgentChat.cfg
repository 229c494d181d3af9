SPECIFICATION FairSpec
CONSTANTS
    Chats = {c1, c2}
    Creations = {n1, n2}
    PoolSize = 2
INVARIANTS
    MessagesPaired
    AnswersRemembered
    RefusedIsFlagged
PROPERTIES
    PoolRefills
CHECK_DEADLOCK FALSE
