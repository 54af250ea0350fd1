SPECIFICATION Spec
CONSTANTS
    m1 = m1
    m2 = m2
    m3 = m3
    b1 = b1
    b2 = b2
    b3 = b3
    work = work
    home = home
    s1 = s1
    NULL = NULL
    Atom <- TwinAtoms
    Session = {s1}
    Scope = {work}
    Candidates <- TwinWorlds
    Policy = {1}
    TTL = 1
    Batch = 1
    MaxContexts = 2
    MaxClock = 0
INVARIANT EveryViewIsContext
CHECK_DEADLOCK FALSE
