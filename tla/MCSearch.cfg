SPECIFICATION Spec
CONSTANTS
    m1 = m1
    m2 = m2
    NULL = NULL
    Process = {p1, p2}
    Memory = {m1, m2}
    Worded = {m1}
    Related = {m1}
    Replaces <- Successor
    Forgettable = {m2}
    Archivable = {m1}
    Limits = {1, 2}
    WordPool <- PoolOf
    VectorPool <- PoolOf
    MaxUpsets = 1
    MaxSearches = 2
    MaxChanges = 1
    MaxCrashes = 1
    MaxRestores = 1
SYMMETRY Symmetric
INVARIANTS TypeOK AnswerWasCurrent AnswerIsComplete
CHECK_DEADLOCK FALSE
