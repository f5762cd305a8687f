SPECIFICATION Spec
CONSTANTS
    p1 = p1
    p2 = p2
    n3 = n3
    c1 = c1
    n1 = n1
    n2 = n2
    r1 = r1
    r2 = r2
    t1 = t1
    Post = {p1,p2}
    Comment = {c1}
    User = {}
    Report = {n1,n2,n3}
    Request = {r1,r2}
    Title = {t1}
    NoTarget = NoTarget
    NoSanction = NoSanction
SYMMETRY Symmetry
INVARIANT SanctionedPostIsHidden
INVARIANT SanctionsMatchWithoutRace
INVARIANT DeletedKeepsStatusWithoutRace
PROPERTY DecidedOnceWithoutRace
