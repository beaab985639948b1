SPECIFICATION MCSpec
CONSTANTS
    c1 = c1
    c2 = c2
    c3 = c3
    r1 = r1
    r2 = r2
    None = None
    Campaign = {c1, c2, c3}
    Request = {r1, r2}
    PageSize = 4
    MaxRow = 2
SYMMETRY Symmetry
INVARIANTS
    AloneDeletedIsGone
    OursSettledIsExact
PROPERTIES
    SyncIsExact
    AloneDeletedIsFinal
CHECK_DEADLOCK FALSE
