SPECIFICATION WindowSyncSpec
CONSTANTS
    main = main
    other = other
    a1 = a1
    a2 = a2
    d1 = d1
    d2 = d2
    Primary = main
    Instances <- TwoInstances
    Alerts <- OneAlert
    DecisionIds <- OneDecision
    AlertOf <- MCAlertOf
    TimeOf <- MCTimeOf
    Lookback = 1
    FragmentSize = 1
    MaxVersion = 1
    MaxChanges = 2
    MaxFaults = 0
PROPERTIES
    StaysInInstance
