SPECIFICATION FairSpec
CONSTANTS
    e1 = e1
    e2 = e2
    r1 = r1
    r2 = r2
    r3 = r3
    n1 = n1
    Email = {e1,e2}
    Request = {r1,r2,r3}
    Name = {n1}
    NoEmail = NoEmail
    NoRequest = NoRequest
    MaxFailures = 1
INVARIANT EveryAnswerIsTrue
INVARIANT LosersAreTold
PROPERTY SignUpsEnd
PROPERTY ImplementsUserRegistry
