SPECIFICATION FairSpec
CONSTANTS
    r1 = r1
    r2 = r2
    Request = {r1,r2}
    Job = Job
    Threads = 1
    Connections = 1
INVARIANT StuckTakesACrowd
INVARIANT RedisSuffices
PROPERTY EveryRequestEnds
