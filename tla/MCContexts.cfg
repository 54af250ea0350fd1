SPECIFICATION Spec
CONSTANTS
    m1 = m1
    m2 = m2
    m3 = m3
    b1 = b1
    b2 = b2
    b3 = b3
    work = work
    home = home
    s1 = s1
    NULL = NULL
    Atom <- Atoms
    Session = {s1}
    Scope = {work, home}
    Candidates <- Worlds
    Policy = {1, 2}
    TTL = 1
    Batch = 1
    MaxContexts = 3
    MaxClock = 2
INVARIANTS TypeOK ViewIsContext BaseIsHeld ContestedTogether NothingForeign RequiredIsHeld
CHECK_DEADLOCK FALSE
