SPECIFICATION Spec
CONSTANTS
    m1 = m1
    m2 = m2
    NULL = NULL
    Process = {p1, p2}
    Memory = {m1, m2}
    Worded = {m1}
    Related = {m1}
    Replaces <- Successor
    Forgettable = {m2}
    Archivable = {m1}
    Limits = {2}
    WordPool <- PoolOf
    VectorPool <- PoolOf
    MaxUpsets = 1
    MaxSearches = 2
    MaxChanges = 0
    MaxCrashes = 0
    MaxRestores = 1
SYMMETRY Symmetric
INVARIANT RestoreRebuildsIndex
CHECK_DEADLOCK FALSE
