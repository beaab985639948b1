SPECIFICATION MCSpec
CONSTANTS
    None = None
    t1 = t1
    t2 = t2
    Tab = {t1, t2}
    c1 = c1
    c2 = c2
    c3 = c3
    Call = {c1, c2, c3}
    MaxToken = 4
    Change = {1, 2}
INVARIANTS
    CalmStormIsHarmless
    OwnChangeShows
PROPERTIES
    AloneLogoutEnds
    EveryCallEnds
CHECK_DEADLOCK FALSE
