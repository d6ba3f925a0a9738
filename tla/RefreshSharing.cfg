SPECIFICATION FairRefreshSpec
CONSTANTS
    h1 = h1
    allowlists = allowlists
    deletion = deletion
    None = None
    MaxRounds = 1
    MaxBatches = 1
    Handlers <- OneHandler
    Recovering <- OneHandler
    Sides <- MCSides
    Deletions <- MCDeletions
PROPERTIES
    StableRevision
    EverybodySettles
CHECK_DEADLOCK FALSE
