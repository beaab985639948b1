SPECIFICATION CalmSpec
CONSTANTS
    s1 = s1
    s2 = s2
    s3 = s3
    SessionId = {s1, s2, s3}
    u1 = u1
    User = {u1}
    r1 = r1
    Request = {r1}
    None = None
    Watched = {"reset", "theft"}
SYMMETRY Symmetry
INVARIANTS
    CalmEndsFamilies
PROPERTIES
    Atomic
CHECK_DEADLOCK FALSE
