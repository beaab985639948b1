SPECIFICATION MCSpec
CONSTANTS
    s1 = s1
    a1 = a1
    a2 = a2
    k1 = k1
    k2 = k2
    c1 = c1
    c2 = c2
    r1 = r1
    r2 = r2
    None = None
    AdSet = {s1}
    Ad = {a1, a2}
    Creative = {k1, k2}
    AdSetOf <- MCAdSetOf
    Request = {r1, r2}
    Campaign = {c1, c2}
    LastDay = 2
    MaxFigure = 1
    MaxRangeDays = 2
    PageSize = 3
SYMMETRY Symmetry
INVARIANTS
    RowsAreWellFormed
    AloneDeletedIsGone
    OursIsExact
    RangesAddUp
PROPERTIES
    SyncIsExact
    InsightsAreExact
    AloneAdsKeepCreative
CHECK_DEADLOCK FALSE
