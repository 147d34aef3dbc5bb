SPECIFICATION FairSpec
CONSTANTS
    MaxMessages = 4
    MaxLength = 2
    Interval = 2
    Pause = 5
    MaxWait = 4
INVARIANTS TypeOK
PROPERTIES
    PlainReportIsReport
    LowerTierIsRefused
    ConnectorErrorIsTold
    CallEnds
\* The call returns or raises.
CHECK_DEADLOCK FALSE
