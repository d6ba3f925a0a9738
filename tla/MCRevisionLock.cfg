SPECIFICATION FairLockSpec
CONSTANTS
    r1 = r1
    r2 = r2
    r3 = r3
    w1 = w1
    w2 = w2
    w3 = w3
    Readers <- MCReaders
    Writers <- MCWriters
INVARIANTS
    MutualExclusion
    LockInv
PROPERTIES
    WritersInOrder
    ImplementsGate
    EveryCallSettles
CHECK_DEADLOCK FALSE
