SPECIFICATION FairSpec
CONSTANTS
    x1 = x1
    x2 = x2
    w1 = w1
    w2 = w2
    here = here
    there = there
    Requests = {x1, x2}
    Addresses = {here, there}
    Threshold = 2
    Workers = {w1}
PROPERTIES
    ServerErrorsFlagged
