SPECIFICATION MCSpec
CONSTANTS
    r1 = r1
    r2 = r2
    Request = {r1, r2}
    BatchSize = 2
    MaxBatch = 3
    MaxSecret = 2
    Limit = 2
    MaxUse = 7
    DisableAllowed = TRUE
SYMMETRY Symmetry
INVARIANTS
    GuessBudget
    BatchBudget
    AloneSingleUse
CHECK_DEADLOCK FALSE
