SPECIFICATION FairSpec
CONSTANTS
    f1 = f1
    f2 = f2
    Files <- MCFiles
    Multibyte <- MCMultibyte
    Loadable = {TRUE, FALSE}
    Panics = TRUE
    None = None
    MaxMessages = 3
CHECK_DEADLOCK FALSE
INVARIANTS MarkersAreCurrent NothingAfterExit
PROPERTIES EveryMessageIsHandled
