SPECIFICATION FairSyncSpec
CONSTANTS
    t1 = t1
    s1 = s1
    m1 = m1
    None = None
    MaxWrites = 2
    Transactions <- MCTransactions
    Statements <- MCStatements
    MainWrites <- MCMainWrites
INVARIANTS
    SyncInv
    SingleWriterProcess
    CommittedAsTold
PROPERTIES
    ImplementsSerialStore
    EveryOperationSettles
CHECK_DEADLOCK FALSE
