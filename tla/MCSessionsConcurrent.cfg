SPECIFICATION Spec
CONSTANTS
    s1 = s1
    s2 = s2
    s3 = s3
    SessionId = {s1, s2, s3}
    u1 = u1
    User = {u1}
    r1 = r1
    r2 = r2
    Request = {r1, r2}
    None = None
    Watched = {}
SYMMETRY Symmetry
INVARIANTS
    TypeOK
    SpentStaysSpent
    OneSessionPerPresenter
    BlacklistedIsRevoked
PROPERTIES
    RevocationIsFinal
CHECK_DEADLOCK FALSE
