SPECIFICATION Spec
CONSTANTS
    m1 = m1
    m2 = m2
    a = a
    b = b
    r1 = r1
    r2 = r2
    Menu = {m1,m2}
    Name = {a,b}
    Request = {r1,r2}
    NoMenu = NoMenu
    NoName = NoName
    MaxSecond = 1
SYMMETRY Symmetry
INVARIANT NoLoop
