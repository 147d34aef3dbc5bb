SPECIFICATION Spec
CONSTANTS
    w = w
    c = c
    t1 = t1
    t2 = t2
    t3 = t3
    Procs = {w, c}
    Tasks = {t1, t2, t3}
    NoProc = NoProc
    NoTask = NoTask
    Workers = {w}
    MayCrash = {w, c}
    SlowJobs = TRUE
    DiskFaults = TRUE
SYMMETRY TaskSymmetry
INVARIANTS
    TypeOK
PROPERTIES
    StartsWhenDue
CHECK_DEADLOCK FALSE
