SPECIFICATION Spec
CONSTANTS
    database = database
    NULL = NULL
    Process = {p1, p2}
    Memory = {m1, m2}
    Identity = {database}
    Supports <- BothSupport
    Call <- Calls
    MaxCalls = 6
SYMMETRY Symmetric
INVARIANT TypeOK
PROPERTIES ArchiveEndsByRestore LastSupportStays RestoreIsInverse
CHECK_DEADLOCK FALSE
