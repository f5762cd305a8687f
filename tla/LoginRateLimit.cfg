SPECIFICATION RateFairSpec
CONSTANTS
    e1 = e1
    e2 = e2
    i1 = i1
    r1 = r1
    r2 = r2
    Email = {e1,e2}
    Ip = {i1}
    Attempt = {r1,r2}
    NoKey = NoKey
    Limit = 2
    Window = 2
    TicksPerSecond = 1
INVARIANT AtMostTwiceTheLimit
PROPERTY RetryAfterIsUsable
PROPERTY EveryWindowEnds
