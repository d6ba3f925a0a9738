SPECIFICATION RefreshSpec
CONSTANTS
    h1 = h1
    allowlists = allowlists
    deletion = deletion
    None = None
    MaxRounds = 2
    MaxBatches = 2
    Handlers <- OneHandler
    Recovering <- NoOne
    Sides <- NoOne
    Deletions <- NoOne
INVARIANTS
    RefreshInv
    CursorBacked
    NoSilentChange
CHECK_DEADLOCK FALSE
