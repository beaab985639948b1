SPECIFICATION Spec
CONSTANTS
    u1 = u1
    u2 = u2
    w1 = w1
    w2 = w2
    r1 = r1
    r2 = r2
    None = None
    User = {u1, u2}
    Workspace = {w1, w2}
    Request = {r1, r2}
    Prefix = "metaflow:"
SYMMETRY Symmetry
INVARIANTS
    CacheIsExact
    PagesWork
    DutiesAreSplit
CHECK_DEADLOCK FALSE
