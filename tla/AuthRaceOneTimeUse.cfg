SPECIFICATION Spec
CONSTANTS
    u1 = u1
    t1 = t1
    t2 = t2
    t3 = t3
    r1 = r1
    r2 = r2
    User = {u1}
    Token = {t1,t2,t3}
    Request = {r1,r2}
    NoUser = NoUser
    NoToken = NoToken
    Second = 1
    TTL = 2
    Horizon = 3
SYMMETRY Symmetry
INVARIANT OneTimeUse
CHECK_DEADLOCK FALSE
