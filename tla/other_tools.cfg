SPECIFICATION ToolsSpec
CONSTANTS
    MaxMessages = 3
    MaxLength = 2
    MaxPictures = 2
    MaxWait = 30
    MaxBackoff = 6
    MaxErrors = 5
    Writers = {w1, w2, w3}
    PageSize = 2
    MaxRoom = 3
    EmptyAnswers = FALSE
    c0 = c0
    c1 = c1
    Syncs = {a, b}
    Pythons = {p, q}
    Commits = {c0, c1}
    Branches = {main}
    Detached = Detached
    Target <- MCTarget
    Version <- MCVersion
    MayCrash = {a}
    Bundles = {v0, v1}
    MaxFaults = 2
INVARIANTS ToolsTypeOK StaleRepeatsDoNotCount SyncsApart OldIsKept
PROPERTIES ResultIsTurn PollsAreFair ReplyIsWhole OthersAreKept ReceiptIsTrue RaiseRestores
CHECK_DEADLOCK FALSE
