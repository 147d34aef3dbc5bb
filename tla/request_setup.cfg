SPECIFICATION Spec
CONSTANTS
    p = p
    Calls = {c1, c2}
    Procs = {p}
    Home <- Together
    NoCall = NoCall
    NoSession = NoSession
    Attempts = 3
    Threshold = 3
    MaxLogins = 1
    DiskFaults = TRUE
SYMMETRY CallSymmetry
INVARIANTS MintsStop BearerIsCurrent
PROPERTY DroppedIsNotReused
\* Every call has been answered and no login is left.
CHECK_DEADLOCK FALSE
