SPECIFICATION Spec
CONSTANTS
    u1 = u1
    t1 = t1
    t2 = t2
    t3 = t3
    r1 = r1
    User = {u1}
    Token = {t1,t2,t3}
    Request = {r1}
    NoUser = NoUser
    NoToken = NoToken
    Second = 2
    TTL = 2
    Horizon = 6
SYMMETRY Symmetry
INVARIANT ConsumedStaysDead
INVARIANT StaleTokenYieldsNothing
INVARIANT OneTimeUse
INVARIANT LoggedOutIsNotConsumed
INVARIANT MarkCoversToken
PROPERTY RevokeAllIsComplete
PROPERTY ImplementsTokenLife
CHECK_DEADLOCK FALSE
