SPECIFICATION Spec
CONSTANTS
    m1 = m1
    m2 = m2
    m3 = m3
    database = database
    region = region
    postgres = postgres
    mysql = mysql
    postgres17 = postgres17
    k1 = k1
    k2 = k2
    NULL = NULL
    Memory = {m1, m2}
    Identity = {database, region}
    Single = {database}
    Within = {}
    Proposal <- Replacements
    Revision = {}
    Schedule = {}
    Strategy <- Strategies
    JudgeOn = FALSE
    Observed = {}
    MaxClock = 2
    MaxEditions = 1
    MaxVersions = 4
    MaxEvents = 0
CHECK_DEADLOCK FALSE
INVARIANT SupersededIsNotCurrent
