SPECIFICATION Spec
CONSTANTS
    a = a
    b = b
    t1 = t1
    t2 = t2
    i1 = i1
    i2 = i2
    i3 = i3
    Procs = {a, b}
    Tasks = {t1, t2}
    NoProc = NoProc
    NoTask = NoTask
    NoFile = NoFile
    NoCall = NoCall
    Inodes = {i1, i2, i3}
    Workers = {a, b}
    MayCrash = {}
    SlowJobs = FALSE
    DiskFaults = FALSE
    HasFlock = TRUE
SYMMETRY FileSymmetry
INVARIANTS
    ExclusiveRun
CHECK_DEADLOCK FALSE
