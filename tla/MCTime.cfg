SPECIFICATION Spec
CONSTANTS
    m1 = m1
    m2 = m2
    m3 = m3
    database = database
    region = region
    postgres = postgres
    mysql = mysql
    postgres17 = postgres17
    k1 = k1
    k2 = k2
    NULL = NULL
    Memory = {m1, m2}
    Identity = {database}
    Single = {database}
    Within = {}
    Proposal <- TimedProposals
    Revision <- Revisions
    Schedule <- Schedules
    Strategy <- Strategies
    JudgeOn = FALSE
    Observed = {"fresh", "stale"}
    MaxClock = 2
    MaxEditions = 2
    MaxVersions = 3
    MaxEvents = 0
SYMMETRY Symmetric
INVARIANTS NoSilentConflict AcceptedWasConfirmed
PROPERTY PastTruthStands
CHECK_DEADLOCK FALSE
