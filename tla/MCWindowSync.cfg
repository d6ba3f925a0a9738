SPECIFICATION WindowSyncSpec
CONSTANTS
    main = main
    other = other
    a1 = a1
    a2 = a2
    d1 = d1
    d2 = d2
    Primary = main
    Instances <- OneInstance
    Alerts <- MCAlerts
    DecisionIds <- MCDecisionIds
    AlertOf <- MCAlertOf
    TimeOf <- MCTimeOf
    Lookback = 2
    FragmentSize = 1
    MaxVersion = 2
    MaxChanges = 3
    MaxFaults = 2
INVARIANTS
    RowsBelong
    MirrorsLapi
    ChangesReported
