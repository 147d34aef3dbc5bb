SPECIFICATION Spec
CONSTANTS
    MaxMessages = 3
    MaxLength = 2
    MaxErrors = 2
INVARIANTS TypeOK StreamedInOrder
PROPERTIES NoTruncatedAnswer StreamedTextIsKept PolledTextIsFinished
\* The call returns or raises, and upstream writes no more.
CHECK_DEADLOCK FALSE
