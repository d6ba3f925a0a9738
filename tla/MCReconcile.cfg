SPECIFICATION ReconcileSpec
CONSTANTS
    NumClosed = 3
    WindowLength = 3
    ActiveInterval = 1
    RecentInterval = 2
    OldInterval = 4
    RecentAge = 3
    MaxSlots = 2
    MaxWait = 5
INVARIANTS
    NoStarvation
