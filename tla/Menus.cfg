SPECIFICATION Spec
CONSTANTS
    m1 = m1
    m2 = m2
    m3 = m3
    a = a
    b = b
    r1 = r1
    r2 = r2
    Menu = {m1,m2,m3}
    Name = {a,b}
    Request = {r1,r2}
    NoMenu = NoMenu
    NoName = NoName
    MaxSecond = 2
SYMMETRY Symmetry
INVARIANT NoOrphanWithoutRace
INVARIANT NoNamesakeWithoutRace
INVARIANT BoardIsWholeWithoutRace
PROPERTY ImplementsMenuBoard
