SPECIFICATION FairSpec
CONSTANTS
    Runs = {r1, r2}
    Problems = {p1}
    Users = {alice, bob}
    Owner <- MCOwner
    NoProblem = NoProblem
    LostAcks = TRUE
    MaxHits = 2
    alice = alice
    p1 = p1
INVARIANTS
    VersionsIncrease
    VerdictAtomic
    TaskFindsRow
    AnswersMatchRows
    FlagMeansFailed
    NoOrphanWithoutHit
PROPERTIES
    ImplementsLifecycle
    DeletedGetsNoWork
    SettlesUnlessHit
    DeletedDrains
