SPECIFICATION MCSpec
CONSTANTS
    c1 = c1
    c2 = c2
    r1 = r1
    None = None
    Campaign = {c1, c2}
    Request = {r1}
    PageSize = 3
    MaxRow = 2
SYMMETRY Symmetry
PROPERTIES
    InsightsStay
CHECK_DEADLOCK FALSE
