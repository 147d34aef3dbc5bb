SPECIFICATION DotSpec
CONSTANTS
    PageSize = 2
    MaxRoom = 3
    EmptyAnswers = TRUE
INVARIANT StaleRepeatsDoNotCount
CHECK_DEADLOCK FALSE
