SPECIFICATION FairPoolSpec
CONSTANTS
    q1 = q1
    q2 = q2
    q3 = q3
    None = None
    MaxWorkers = 2
    Queries <- MCQueries
    Abortable <- MCAbortable
INVARIANTS
    BoundedProcesses
    WorkConserving
    SlotsMatchQueries
PROPERTIES
    AbortStartsNothing
    EveryQuerySettles
CHECK_DEADLOCK FALSE
