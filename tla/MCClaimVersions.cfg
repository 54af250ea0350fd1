SPECIFICATION Spec
CONSTANTS
    Claim = {c1}
    Fields <- MCFields
    NULL = NULL
    MaxClock = 3
    MaxVersions = 4
INVARIANTS TypeOK HistoryTiles ProjectionAgrees
PROPERTY ImplementsLog
CHECK_DEADLOCK FALSE
