SPECIFICATION FairSpec
CONSTANTS
    Runs = {r1}
    RunDay <- MCRunDay
    Users = {u1}
    Agents = {sales, finance}
    Submissions = {x1, x2}
    Workers = {w1, w2}
    Readers = {q1}
    LastDay = 1
    NoRun = NoRun
    NoUser = NoUser
    NoAgent = NoAgent
    NoWorker = NoWorker
INVARIANTS
    OneFeedbackUnlessCrossed
    OnTimeFeedbackCounted
PROPERTIES
    RerunsChangeNothing
    AnalyticsFade
CHECK_DEADLOCK FALSE
