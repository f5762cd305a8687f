SPECIFICATION Spec
CONSTANTS
    c1 = c1
    c2 = c2
    p1 = p1
    r1 = r1
    r2 = r2
    u1 = u1
    u2 = u2
    ann = ann
    anna = anna
    esc = esc
    Comment = {c1,c2}
    Post = {p1}
    Request = {r1,r2}
    User = {u1,u2}
    Nick = {ann,anna,esc}
    NoNick = NoNick
    NoUser = NoUser
    NoPost = NoPost
    NoComment = NoComment
    matched <- MCMatched
    MentionLimit = 1
SYMMETRY Symmetry
PROPERTY AuthorsDecide
PROPERTY RepliesMeetTheirCommentWithoutRace
PROPERTY MentionsAreJudgedBySnapshot
