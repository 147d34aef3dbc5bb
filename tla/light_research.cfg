SPECIFICATION Spec
CONSTANTS
    MaxRounds = 2
    MaxMessages = 3
    MaxLength = 2
INVARIANTS TypeOK ReaderInStep
PROPERTIES PlainReportIsFinished
\* The call returns or raises.
CHECK_DEADLOCK FALSE
