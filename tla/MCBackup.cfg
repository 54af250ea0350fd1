SPECIFICATION Spec
CONSTANTS
    p1 = p1
    p2 = p2
    NULL = NULL
    Peer <- Peers
    MaxCommits = 2
    MaxOps = 4
SYMMETRY SymmetryPeers
INVARIANTS TypeOK RestoreIsAtomic DiscardedIsSafe TornOnlyByGap HistoriesStayWhole
CHECK_DEADLOCK FALSE
