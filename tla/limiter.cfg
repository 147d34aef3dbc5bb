SPECIFICATION Spec
CONSTANTS
    Callers = {a, b}
    Traffic = {"conversation", "read"}
    MinInterval = 2
    ReadInterval = 2
    MaxPerWindow = 2
    Window = 5
    MaxWait = 4
    MaxJitter = 1
    Base = 1
    FlagCooldown = 6
    DiskFaults = TRUE
    MaxNow = 7
SYMMETRY CallerSymmetry
CONSTRAINT OneLane
INVARIANT SleepersKeepApart
PROPERTIES ConversationsArePaced ReadsArePaced
