SPECIFICATION FairSpec
CONSTANTS
    Runs = {r1}
    Links = {l1, l2}
    Workers = {w1, w2}
    Viewers = {v1}
    Revokers = {x1}
    NoRun = NoRun
    NoLink = NoLink
    NoWorker = NoWorker
INVARIANTS
    ViewSeesVerdict
    RevokedKeptOnlyAfterRace
PROPERTIES
    RevokeLeavesOnlyNewer
    DeadLinksFade
