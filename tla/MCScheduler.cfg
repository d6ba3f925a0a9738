SPECIFICATION FairSchedulerSpec
CONSTANTS
    NumWindows = 2
    MaxFaults = 2
    MaxSettings = 1
    MaxFulls = 1
    MaxClears = 1
INVARIANTS
    SchedulerInv
    PollingChain
    CompleteIsWhole
PROPERTIES
    RecoversAlone
CHECK_DEADLOCK FALSE
