SPECIFICATION FairSpec
CONSTANTS
    u1 = u1
    u2 = u2
    r1 = r1
    r2 = r2
    w1 = w1
    w2 = w2
    User = {u1,u2}
    Request = {r1}
    Worker = {w1,w2}
    NoUser = NoUser
    MaxLike = 2
    MaxCrash = 1
INVARIANT UndisturbedChoiceStands
PROPERTY UndisturbedCountIsExact
PROPERTY CountIsNatural
PROPERTY KeysAreMovedInTheEnd
CHECK_DEADLOCK FALSE
