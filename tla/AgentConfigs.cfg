SPECIFICATION FairSpec
CONSTANTS
    Agents = {sales}
    Configs = {c1, c2, c3}
    Workers = {w1, w2}
    Activations = {x1, x2}
    Readers = {r1}
    AgentOf <- MCOneAgent
    NoConfig = NoConfig
    sales = sales
INVARIANTS
    OneActiveUnlessOverlap
    VersionsHaveNoGaps
    StaleOnlyAfterRace
PROPERTIES
    CacheHeals
