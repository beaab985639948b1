SPECIFICATION MCFairSpec
CONSTANTS
    u1 = u1
    u2 = u2
    w1 = w1
    m1 = m1
    m2 = m2
    s1 = s1
    s2 = s2
    r1 = r1
    r2 = r2
    None = None
    Fresh = Fresh
    Spent = Spent
    User = {u1, u2}
    Workspace = {w1}
    MetaUser = {m1, m2}
    State = {s1, s2}
    Request = {r1, r2}
    MaxToken = 3
INVARIANTS
    AloneActiveWorks
PROPERTIES
    RevokedUntilOAuth
    UncrashedLocalRevocation
CHECK_DEADLOCK FALSE
