SPECIFICATION Spec
CONSTANTS
    s1 = s1
    s2 = s2
    c1 = c1
    c2 = c2
    NULL = NULL
    NoFile = NoFile
    Unreadable = Unreadable
    Session = {s1, s2}
    Candidate = {c1, c2}
    Conflicting = {c1}
    Owner <- Owners
    EnabledAtFirst = TRUE
    MaxRestarts = 1
    MaxStray = 1
INVARIANTS SwitchSurvivesRestart
CHECK_DEADLOCK FALSE
