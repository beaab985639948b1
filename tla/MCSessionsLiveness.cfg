SPECIFICATION FairSpec
CONSTANTS
    s1 = s1
    s2 = s2
    SessionId = {s1, s2}
    u1 = u1
    User = {u1}
    r1 = r1
    r2 = r2
    Request = {r1, r2}
    None = None
    Watched = {}
PROPERTIES
    RowsAreReclaimed
CHECK_DEADLOCK FALSE
