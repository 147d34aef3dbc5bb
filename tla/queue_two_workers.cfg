SPECIFICATION FairSpec
CONSTANTS
    a = a
    b = b
    t1 = t1
    t2 = t2
    Procs = {a, b}
    Tasks = {t1, t2}
    NoProc = NoProc
    NoTask = NoTask
    Workers = {a, b}
    MayCrash = {a}
    SlowJobs = FALSE
    DiskFaults = FALSE
PROPERTIES
    OrphansAreReleased
    HeadIsServed
CHECK_DEADLOCK FALSE
