SPECIFICATION Spec
CONSTANTS
    p1 = p1
    p2 = p2
    NULL = NULL
    Peer = {p1}
    MaxCommits = 2
    MaxOps = 2
PROPERTIES ImportReopensNothing
CHECK_DEADLOCK FALSE
