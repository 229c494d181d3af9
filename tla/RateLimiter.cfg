SPECIFICATION LimiterSpec
CONSTANTS
    Keys <- MCKeys
    Limit <- MCLimit
    Unit = 2
    Window = 4
    Interval = 2
    Callers = {ann, bob}
    Chain <- MCChain
    MaxFlushes = 2
    ann = ann
    bob = bob
    org = org
INVARIANTS
    WindowBound
    RetryAfterHonest
    LastPaysForServed
PROPERTIES
    StoredCountsGrow
