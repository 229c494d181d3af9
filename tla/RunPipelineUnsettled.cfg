SPECIFICATION FairSpec
CONSTANTS
    Runs = {r1}
    Problems = {p1}
    Users = {alice, bob}
    Owner <- MCOwner
    NoProblem = NoProblem
    LostAcks = FALSE
    MaxHits = 1
    alice = alice
    p1 = p1
PROPERTIES
    EveryRunSettles
