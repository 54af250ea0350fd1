SPECIFICATION Spec
CONSTANTS
    m1 = m1
    m2 = m2
    m3 = m3
    p1 = p1
    p2 = p2
    NULL = NULL
    Process = {p1, p2}
    Memory = {m1, m2, m3}
    Rival <- Rivals
    Unsure <- Doubts
    Call <- BesideForget
    MaxCalls = 2
    MaxEditions = 2
PROPERTIES ForgottenNeverActive
CHECK_DEADLOCK FALSE
