SPECIFICATION FairPageSpec
CONSTANTS
    Filters = {"all", "active"}
    RefreshPages = 1
    Polling = TRUE
    MaxStamp = 2
    MaxLoads = 2
    MaxChoices = 1
    MaxEvents = 1
INVARIANTS
    SpinnerEnds
PROPERTIES
    PageForward
    CatchesUp
    ConnectionsHeal
CHECK_DEADLOCK FALSE
